------------------------- MODULE MasterSlave_proof -------------------------
(***************************************************************************)
(* Proofs about MasterSlave for any number of processes, tasks per process *)
(* and inputs, and whatever room the library offers.                       *)
(*                                                                         *)
(* UmaTarefa, that the count of pending results is right and no result is  *)
(* left behind, is not inductive: that a slave is idle when the master     *)
(* sends to it takes what each phase of the master makes of the channels   *)
(* (Fases), and that no slave leaves early takes that every task begins    *)
(* above STOP.  NadaSePerde needs the same, that tasks hold no value twice *)
(* and results are sorted (Certas), what rankSort and mergeSort do to the  *)
(* values (OrdemCerta, MesclaCerta), and its own count for every value     *)
(* (Contadas); from that, when all tasks are back, the merged part is the  *)
(* input in another order, and as it is sorted, the sorted input.          *)
(***************************************************************************)
EXTENDS MasterSlave, Sorter_proof

Bloco == [1 .. tasks_size -> Int]

\* The part of the types that the messages depend on.
Tipos ==
    /\ canal \in [Processo -> [Processo -> Seq(Bloco)]]
    /\ entrada \in Entradas
    /\ pc \in [Processo -> {"distribuir", "coletar", "parar", "imprimir", "receber", "fim"}]
    /\ pc[MASTER] \in {"distribuir", "coletar", "parar", "imprimir", "fim"}
    /\ slave \in Escravo
    /\ tasks_sent \in Nat /\ tasks_to_receive \in Int
    /\ slave_to_master \in [Escravo -> Bloco]

\* What the master's loops have done.
Contas ==
    /\ pc[MASTER] = "distribuir" =>
          tasks_sent = slave - 1 /\ tasks_to_receive = slave - 1
    /\ pc[MASTER] = "coletar" => slave = 1

\* One message at most between the master and s.
Uma(c, s) ==
    /\ c[MASTER][s] = <<>> \/ c[s][MASTER] = <<>>
    /\ Len(c[MASTER][s]) <= 1 /\ Len(c[s][MASTER]) <= 1

Ocioso(s) == ~ Chegou(MASTER, s) /\ ~ Chegou(s, MASTER)

\* What each phase of the master makes of the slaves and their channels.
Fases ==
    /\ \A s \in Escravo : Uma(canal, s)
    /\ pc[MASTER] \in {"distribuir", "coletar"} =>
          \A s \in Escravo :
              /\ pc[s] = "receber"
              /\ Chegou(MASTER, s) => Head(canal[MASTER][s])[1] > STOP
    /\ pc[MASTER] = "distribuir" => \A s \in Escravo : Ocioso(s) <=> s >= slave
    /\ pc[MASTER] = "coletar" =>
          tasks_to_receive = Cardinality(Ocupado) /\ tasks_to_receive > 0
    /\ pc[MASTER] \in {"parar", "imprimir", "fim"} =>
          \A s \in Escravo :
              /\ ~ Chegou(s, MASTER)
              /\ Chegou(MASTER, s) => Head(canal[MASTER][s])[1] <= STOP
    /\ pc[MASTER] = "parar" => \A s \in Escravo : s >= slave => Ocioso(s)

IInv == Tipos /\ Contas /\ (Naturais => Fases)

-----------------------------------------------------------------------------
(***************************************************************************)
(* Numbers, tasks and results.                                             *)
(***************************************************************************)
LEMMA Numeros == /\ np \in Nat /\ np > 1 /\ MASTER \in Processo /\ MASTER \notin Escravo
                 /\ Escravo \subseteq Processo /\ Escravo \subseteq Int
                 /\ tasks \in Nat /\ tasks >= np
<1>1. np \in Nat /\ np > 1 /\ Fator \in Nat /\ Fator >= 1
    BY NpAssumption, FatorAssumption
<1>2. Fator * np \in Nat /\ Fator * np >= np
    BY <1>1
<1>. QED
    BY <1>1, <1>2 DEF MASTER, Processo, Escravo, tasks

LEMMA Divisao ==
    ASSUME NEW n \in Nat, NEW t \in Nat, n > 0, t > 0, n % t = 0
    PROVE  n = t * (n \div t) /\ n \div t \in Nat \ {0}
<1>1. n = t * (n \div t) + (n % t) /\ n \div t \in Int
    OBVIOUS
<1>2. n \div t <= 0 => t * (n \div t) <= 0
    BY <1>1
<1>3. n = t * (n \div t) + 0
    BY <1>1
<1>4. t * (n \div t) \in Int
    BY <1>1
<1>5. n = t * (n \div t)
    BY <1>3, <1>4
<1>6. ~ (n \div t <= 0)
    BY <1>2, <1>4, <1>5
<1>. QED
    BY <1>1, <1>5, <1>6

LEMMA Recorte ==
    ASSUME NEW v \in Seq(Int), NEW b \in Nat, NEW m \in Nat, m > 0, b + m <= Len(v)
    PROVE  /\ SubSeq(v, b + 1, b + m) \in [1 .. m -> Int]
           /\ SubSeq(v, b + 1, b + m)[1] = v[b + 1] /\ b + 1 \in DOMAIN v
<1>1. SubSeq(v, b + 1, b + m) = [j \in 1 .. m |-> v[b + j]]
    OBVIOUS
<1>2. \A j \in 1 .. m : b + j \in DOMAIN v /\ v[b + j] \in Int
    OBVIOUS
<1>3. 1 \in 1 .. m
    OBVIOUS
<1>4. SubSeq(v, b + 1, b + m)[1] = v[b + 1] /\ b + 1 \in DOMAIN v
    BY <1>1, <1>2, <1>3
<1>5. SubSeq(v, b + 1, b + m) \in [1 .. m -> Int]
    BY <1>1, <1>2
<1>. QED
    BY <1>4, <1>5

LEMMA Tamanho ==
    ASSUME entrada \in Entradas
    PROVE  /\ entrada \in Seq(Int) /\ tasks_size \in Nat \ {0}
           /\ Len(entrada) = tasks * tasks_size
<1>1. /\ entrada \in Seq(Int) /\ Len(entrada) \in Nat /\ Len(entrada) > 0
      /\ Len(entrada) % tasks = 0
    BY EntradasAssumption
<1>2. tasks \in Nat /\ tasks > 0
    BY Numeros
<1>3. /\ Len(entrada) = tasks * (Len(entrada) \div tasks)
      /\ Len(entrada) \div tasks \in Nat \ {0}
    BY <1>1, <1>2, Divisao
<1>. QED
    BY <1>1, <1>3 DEF tasks_size

LEMMA TarefaTipo ==
    ASSUME entrada \in Entradas, NEW k \in Nat, k < tasks
    PROVE  /\ Tarefa(k) \in Bloco /\ 1 \in 1 .. tasks_size
           /\ Naturais => Tarefa(k)[1] > STOP
<1>. DEFINE m == tasks_size  n == Len(entrada)
<1>1. /\ entrada \in Seq(Int) /\ m \in Nat /\ m > 0 /\ n = tasks * m
      /\ tasks \in Nat /\ n \in Nat
    BY Tamanho, Numeros
<1>2. k * m \in Nat /\ (k + 1) * m = k * m + m /\ (k + 1) * m <= tasks * m
    <2>1. (k + 1) * m = k * m + m /\ k * m \in Nat
        BY <1>1
    <2>2. tasks - (k + 1) \in Nat /\ (tasks - (k + 1)) * m \in Nat
        BY <1>1
    <2>3. tasks * m = (k + 1) * m + (tasks - (k + 1)) * m
        BY <1>1
    <2>. QED
        BY <2>1, <2>2, <2>3, <1>1
<1>3. Tarefa(k) = SubSeq(entrada, k * m + 1, k * m + m)
    BY <1>2 DEF Tarefa
<1>4. k * m + m <= n
    BY <1>1, <1>2
<1>5. /\ SubSeq(entrada, k * m + 1, k * m + m) \in [1 .. m -> Int]
      /\ SubSeq(entrada, k * m + 1, k * m + m)[1] = entrada[k * m + 1]
      /\ k * m + 1 \in DOMAIN entrada
    BY <1>1, <1>2, <1>4, Recorte
<1>6. Tarefa(k) \in Bloco /\ Tarefa(k)[1] = entrada[k * m + 1]
    BY <1>3, <1>5 DEF Bloco
<1>7. 1 \in 1 .. tasks_size
    BY <1>1
<1>. QED
    BY <1>5, <1>6, <1>7 DEF Naturais

LEMMA OrdemTipo ==
    ASSUME NEW v \in Bloco, NEW w \in Bloco
    PROVE  rankSort(v, w) \in Bloco
<1>1. DOMAIN v = 1 .. tasks_size
    BY DEF Bloco
<1>2. ASSUME NEW r \in DOMAIN v
      PROVE  (IF \E i \in DOMAIN v : Rank(v, i) = r
              THEN v[CHOOSE i \in DOMAIN v : Rank(v, i) = r] ELSE w[r]) \in Int
    <2>1. CASE \E i \in DOMAIN v : Rank(v, i) = r
        <3>1. (CHOOSE i \in DOMAIN v : Rank(v, i) = r) \in DOMAIN v
            BY <2>1
        <3>. QED
            BY <2>1, <3>1, <1>1 DEF Bloco
    <2>2. CASE ~ \E i \in DOMAIN v : Rank(v, i) = r
        BY <2>2, <1>1, <1>2 DEF Bloco
    <2>. QED
        BY <2>1, <2>2
<1>. QED
    BY <1>1, <1>2 DEF rankSort, Bloco

-----------------------------------------------------------------------------
(***************************************************************************)
(* Channels.                                                               *)
(***************************************************************************)
LEMMA Resto ==
    ASSUME NEW T, NEW s \in Seq(T), s # <<>>
    PROVE  Head(s) \in T /\ Tail(s) \in Seq(T) /\ Len(Tail(s)) = Len(s) - 1
OBVIOUS

Canais == [Processo -> [Processo -> Seq(Bloco)]]

\* The channels c after message m has been appended to the one from p to q.
Mais(c, d, p, q, m) ==
    /\ d \in Canais
    /\ \A x, y \in Processo : d[x][y] = IF x = p /\ y = q THEN Append(c[p][q], m) ELSE c[x][y]

\* The channels c after the first message from p to q has been taken away.
Menos(c, d, p, q) ==
    /\ d \in Canais
    /\ \A x, y \in Processo : d[x][y] = IF x = p /\ y = q THEN Tail(c[p][q]) ELSE c[x][y]

LEMMA Envio ==
    ASSUME NEW c \in Canais, NEW p \in Processo, NEW q \in Processo, NEW m \in Bloco
    PROVE  Mais(c, MPI_Send(c, p, q, m), p, q, m)
<1>1. Append(c[p][q], m) \in Seq(Bloco)
    BY DEF Canais
<1>. QED
    BY <1>1 DEF MPI_Send, Mais, Canais

LEMMA Recepcao ==
    ASSUME NEW c \in Canais, NEW p \in Processo, NEW q \in Processo, c[p][q] # <<>>
    PROVE  Menos(c, MPI_Recv(c, p, q), p, q)
<1>1. Tail(c[p][q]) \in Seq(Bloco)
    BY DEF Canais
<1>. QED
    BY <1>1 DEF MPI_Recv, Menos, Canais

LEMMA DistribuirCanal ==
    ASSUME IInv, Distribuir
    PROVE  /\ Tarefa(tasks_sent) \in Bloco
           /\ Naturais => Tarefa(tasks_sent)[1] > STOP
           /\ Mais(canal, canal', MASTER, slave, Tarefa(tasks_sent))
<1>1. tasks_sent \in Nat /\ tasks_sent < tasks
    <2>1. pc[MASTER] = "distribuir"
        BY DEF Distribuir, Laco, Ir
    <2>2. tasks_sent \in Nat /\ tasks_sent = slave - 1 /\ slave \in 1 .. np - 1
        BY <2>1 DEF IInv, Tipos, Contas, Escravo
    <2>. QED
        BY <2>2, Numeros
<1>2. Tarefa(tasks_sent) \in Bloco /\ (Naturais => Tarefa(tasks_sent)[1] > STOP)
    BY <1>1, TarefaTipo DEF IInv, Tipos
<1>3. slave \in Processo /\ MASTER \in Processo /\ canal \in Canais
    BY Numeros DEF IInv, Tipos, Canais
<1>. QED
    BY <1>2, <1>3, Envio DEF Distribuir

LEMMA ColetarCanal ==
    ASSUME IInv, NEW s \in Escravo, Coletar(s)
    PROVE  \E c \in Canais :
               /\ Menos(canal, c, s, MASTER)
               /\ tasks_sent >= tasks => canal' = c
               /\ tasks_sent < tasks =>
                     /\ Tarefa(tasks_sent) \in Bloco
                     /\ Naturais => Tarefa(tasks_sent)[1] > STOP
                     /\ Mais(c, canal', MASTER, s, Tarefa(tasks_sent))
<1>1. s \in Processo /\ MASTER \in Processo /\ canal \in Canais
    BY Numeros DEF IInv, Tipos, Canais
<1>. DEFINE c == MPI_Recv(canal, s, MASTER)
<1>2. c \in Canais /\ Menos(canal, c, s, MASTER)
    BY <1>1, Recepcao DEF Coletar, Chegou, Menos
<1>3. CASE tasks_sent < tasks
    <2>1. Tarefa(tasks_sent) \in Bloco /\ (Naturais => Tarefa(tasks_sent)[1] > STOP)
        BY <1>3, TarefaTipo DEF IInv, Tipos
    <2>2. canal' = MPI_Send(c, MASTER, s, Tarefa(tasks_sent))
        BY <1>3 DEF Coletar
    <2>3. Mais(c, canal', MASTER, s, Tarefa(tasks_sent))
        BY <1>1, <1>2, <2>1, <2>2, Envio
    <2>. QED
        BY <1>2, <1>3, <2>1, <2>3, Numeros DEF IInv, Tipos
<1>4. CASE ~ (tasks_sent < tasks)
    BY <1>2, <1>4 DEF Coletar
<1>. QED
    BY <1>3, <1>4

LEMMA PararCanal ==
    ASSUME IInv, Parar
    PROVE  \E m \in Bloco : m[1] = STOP /\ Mais(canal, canal', MASTER, slave, m)
<1>1. Tarefa(0) \in Bloco /\ 1 \in 1 .. tasks_size
    BY TarefaTipo, Numeros DEF IInv, Tipos
<1>. DEFINE m == [Tarefa(0) EXCEPT ![1] = STOP]
<1>2. m \in Bloco /\ m[1] = STOP
    <2>. HIDE DEF STOP
    <2>1. STOP \in Int
        BY DEF STOP
    <2>. QED
        BY <1>1, <2>1 DEF Bloco
<1>3. slave \in Processo /\ MASTER \in Processo /\ canal \in Canais
    BY Numeros DEF IInv, Tipos, Canais
<1>4. Mais(canal, canal', MASTER, slave, m)
    BY <1>2, <1>3, Envio DEF Parar
<1>. QED
    BY <1>2, <1>4

LEMMA TrabalharCanal ==
    ASSUME IInv, NEW s \in Escravo, Trabalhar(s)
    PROVE  /\ slave_to_master' \in [Escravo -> Bloco]
           /\ \E c \in Canais, m \in Bloco :
                 Menos(canal, c, MASTER, s) /\ Mais(c, canal', s, MASTER, m)
<1>1. s \in Processo /\ MASTER \in Processo /\ canal \in Canais
    BY Numeros DEF IInv, Tipos, Canais
<1>. DEFINE c == MPI_Recv(canal, MASTER, s)
            m == rankSort(Head(canal[MASTER][s]), slave_to_master[s])
<1>2. c \in Canais /\ Menos(canal, c, MASTER, s)
    BY <1>1, Recepcao DEF Trabalhar, Chegou, Menos
<1>3. Head(canal[MASTER][s]) \in Bloco
    BY <1>1, Resto DEF Trabalhar, Chegou, Canais
<1>4. m \in Bloco
    BY <1>3, OrdemTipo DEF IInv, Tipos
<1>5. canal' = MPI_Send(c, s, MASTER, m) /\ slave_to_master' = [slave_to_master EXCEPT ![s] = m]
    BY DEF Trabalhar
<1>6. Mais(c, canal', s, MASTER, m)
    BY <1>1, <1>2, <1>4, <1>5, Envio
<1>. QED
    BY <1>2, <1>4, <1>5, <1>6 DEF IInv, Tipos

LEMMA EncerrarCanal ==
    ASSUME IInv, NEW s \in Escravo, Encerrar(s)
    PROVE  Menos(canal, canal', MASTER, s)
<1>1. s \in Processo /\ MASTER \in Processo /\ canal \in Canais
    BY Numeros DEF IInv, Tipos, Canais
<1>. QED
    BY <1>1, Recepcao DEF Encerrar, Chegou

-----------------------------------------------------------------------------
(***************************************************************************)
(* The types and the counts of the master.                                 *)
(***************************************************************************)
LEMMA InitTipos == Init => Tipos /\ Contas
<1>. SUFFICES ASSUME Init PROVE Tipos /\ Contas
    OBVIOUS
<1>1. canal \in Canais
    BY DEF Init, InitMPI, Canais
<1>2. entrada \in Entradas /\ tasks_size \in Nat \ {0}
    BY Tamanho DEF Init
<1>3. slave_to_master \in [Escravo -> Bloco]
    BY <1>2, LixoAssumption DEF Init, Bloco
<1>4. slave \in Escravo /\ pc[MASTER] = "distribuir"
    BY Numeros DEF Init, Escravo
<1>. QED
    BY <1>1, <1>2, <1>3, <1>4, Numeros DEF Init, Tipos, Contas, Canais

LEMMA LacoTipo ==
    ASSUME Tipos, NEW de, NEW para, Laco(de, para)
    PROVE  /\ pc[MASTER] = de /\ slave \in Nat /\ slave' \in Escravo
           /\ \/ /\ slave' = slave + 1
                 /\ pc'[MASTER] = de /\ pc' = [pc EXCEPT ![MASTER] = de]
              \/ /\ slave = np - 1 /\ slave' = 1
                 /\ pc'[MASTER] = para /\ pc' = [pc EXCEPT ![MASTER] = para]
<1>1. np \in Nat /\ np > 1 /\ slave \in 1 .. np - 1 /\ MASTER \in DOMAIN pc
    BY Numeros DEF Tipos, Escravo
<1>2. CASE slave + 1 < np
    BY <1>1, <1>2 DEF Laco, Ir, Escravo
<1>3. CASE ~ (slave + 1 < np)
    BY <1>1, <1>3 DEF Laco, Ir, Escravo
<1>. QED
    BY <1>2, <1>3

LEMMA NextTipos == IInv /\ [Next]_vars => Tipos' /\ Contas'
<1>. SUFFICES ASSUME IInv, [Next]_vars PROVE Tipos' /\ Contas'
    OBVIOUS
<1>1. entrada' = entrada /\ Bloco' = Bloco
    <2>1. entrada' = entrada
        BY DEF Next, Mestre, Distribuir, Coletar, Parar, Imprimir, Trabalhar,
               Encerrar, vars
    <2>. QED
        BY <2>1 DEF Bloco, tasks_size
<1>2. Tipos /\ Contas /\ canal \in Canais
    BY DEF IInv, Tipos, Canais
<1>3. CASE Distribuir
    <2>1. canal' \in Canais
        BY <1>3, DistribuirCanal DEF Mais
    <2>2. /\ pc[MASTER] = "distribuir" /\ slave \in Nat /\ slave' \in Escravo
          /\ \/ /\ slave' = slave + 1 /\ pc'[MASTER] = "distribuir"
                /\ pc' = [pc EXCEPT ![MASTER] = "distribuir"]
             \/ /\ slave' = 1 /\ pc'[MASTER] = "coletar"
                /\ pc' = [pc EXCEPT ![MASTER] = "coletar"]
        BY <1>2, <1>3, LacoTipo DEF Distribuir
    <2>3. /\ slave' \in Escravo /\ tasks_sent' \in Nat /\ tasks_to_receive' \in Nat
          /\ pc'[MASTER] \in {"distribuir", "coletar"}
          /\ pc' \in [Processo -> {"distribuir", "coletar", "parar", "imprimir", "receber", "fim"}]
        <3>1. tasks_sent' \in Nat /\ tasks_to_receive' \in Nat
            BY <1>2, <1>3, <2>2 DEF Contas, Distribuir
        <3>2. pc' \in [Processo -> {"distribuir", "coletar", "parar", "imprimir", "receber", "fim"}]
            BY <1>2, <2>2 DEF Tipos
        <3>. QED
            BY <2>2, <3>1, <3>2
    <2>4. Contas'
        BY <1>2, <1>3, <2>2 DEF Contas, Distribuir
    <2>. QED
        BY <1>1, <1>2, <1>3, <2>1, <2>3, <2>4 DEF Tipos, Canais, Distribuir
<1>4. ASSUME NEW s \in Escravo, Coletar(s) PROVE Tipos' /\ Contas'
    <2>1. canal' \in Canais
        <3>1. PICK c \in Canais :
                 /\ tasks_sent >= tasks => canal' = c
                 /\ tasks_sent < tasks => Mais(c, canal', MASTER, s, Tarefa(tasks_sent))
            BY <1>4, ColetarCanal
        <3>2. tasks_sent \in Nat /\ tasks \in Nat
            BY <1>2, Numeros DEF Tipos
        <3>. QED
            BY <3>1, <3>2 DEF Mais
    <2>2. /\ pc[MASTER] = "coletar" /\ tasks_sent' \in Nat
          /\ slave' = slave /\ slave_to_master' = slave_to_master
          /\ pc'[MASTER] \in {"coletar", "parar"}
          /\ pc' \in [Processo -> {"distribuir", "coletar", "parar", "imprimir", "receber", "fim"}]
        BY <1>2, <1>4, Numeros DEF Tipos, Coletar, Ir
    <2>3. tasks_to_receive' \in Int
        BY <1>2, <1>4 DEF Tipos, Coletar, Pendentes
    <2>. QED
        BY <1>1, <1>2, <2>1, <2>2, <2>3 DEF Tipos, Contas, Canais
<1>5. CASE Parar
    <2>1. canal' \in Canais
        BY <1>5, PararCanal DEF Mais
    <2>2. /\ slave' \in Escravo
          /\ \/ pc'[MASTER] = "parar" /\ pc' = [pc EXCEPT ![MASTER] = "parar"]
             \/ pc'[MASTER] = "imprimir" /\ pc' = [pc EXCEPT ![MASTER] = "imprimir"]
        BY <1>2, <1>5, LacoTipo DEF Parar
    <2>3. /\ slave' \in Escravo /\ pc'[MASTER] \in {"parar", "imprimir"}
          /\ pc' \in [Processo -> {"distribuir", "coletar", "parar", "imprimir", "receber", "fim"}]
        BY <1>2, <2>2, Numeros DEF Tipos
    <2>. QED
        BY <1>1, <1>2, <1>5, <2>1, <2>3 DEF Tipos, Contas, Canais, Parar
<1>6. CASE Imprimir
    BY <1>1, <1>2, <1>6, Numeros DEF Tipos, Contas, Imprimir, Ir
<1>7. ASSUME NEW s \in Escravo, Trabalhar(s) PROVE Tipos' /\ Contas'
    <2>1. canal' \in Canais /\ slave_to_master' \in [Escravo -> Bloco]
        BY <1>7, TrabalharCanal DEF Mais
    <2>2. pc'[MASTER] = pc[MASTER]
          /\ pc' \in [Processo -> {"distribuir", "coletar", "parar", "imprimir", "receber", "fim"}]
        BY <1>2, <1>7, Numeros DEF Tipos, Trabalhar, Ir
    <2>. QED
        BY <1>1, <1>2, <1>7, <2>1, <2>2 DEF Tipos, Contas, Canais, Trabalhar
<1>8. ASSUME NEW s \in Escravo, Encerrar(s) PROVE Tipos' /\ Contas'
    <2>1. canal' \in Canais
        BY <1>8, EncerrarCanal DEF Menos
    <2>2. pc'[MASTER] = pc[MASTER]
          /\ pc' \in [Processo -> {"distribuir", "coletar", "parar", "imprimir", "receber", "fim"}]
        BY <1>2, <1>8, Numeros DEF Tipos, Encerrar, Ir
    <2>. QED
        BY <1>1, <1>2, <1>8, <2>1, <2>2 DEF Tipos, Contas, Canais, Encerrar
<1>9. CASE UNCHANGED vars
    BY <1>1, <1>2, <1>9 DEF Tipos, Contas, vars
<1>. QED
    BY <1>3, <1>4, <1>5, <1>6, <1>7, <1>8, <1>9 DEF Next, Mestre

-----------------------------------------------------------------------------
(***************************************************************************)
(* The phases.                                                             *)
(***************************************************************************)
LEMMA Numero ==
    ASSUME NEW x \in Nat
    PROVE  x <= 1 /\ x # 0 => x = 1
OBVIOUS

LEMMA SomaNula ==
    ASSUME NEW x \in Nat, NEW y \in Nat, x = 0, y <= 1
    PROVE  x + y <= 1 /\ y + x <= 1
OBVIOUS

LEMMA Comprimento ==
    ASSUME NEW c \in Canais, NEW p \in Processo, NEW q \in Processo
    PROVE  /\ c[p][q] \in Seq(Bloco) /\ Len(c[p][q]) \in Nat
           /\ c[p][q] = <<>> <=> Len(c[p][q]) = 0
           /\ c[p][q] # <<>> /\ Len(c[p][q]) <= 1 => Len(c[p][q]) = 1
<1>1. c[p][q] \in Seq(Bloco)
    BY DEF Canais
<1>2. Len(c[p][q]) \in Nat /\ (c[p][q] = <<>> <=> Len(c[p][q]) = 0)
    BY <1>1
<1>. QED
    BY <1>1, <1>2, Numero, Zenon

\* Nothing but the one channel changes.
LEMMA MaisFila ==
    ASSUME NEW c \in Canais, NEW d, NEW p \in Processo, NEW q \in Processo,
           NEW m \in Bloco, Mais(c, d, p, q, m)
    PROVE  /\ d \in Canais
           /\ Len(d[p][q]) = Len(c[p][q]) + 1 /\ d[p][q] # <<>>
           /\ c[p][q] = <<>> => Head(d[p][q]) = m
           /\ \A x, y \in Processo : x # p \/ y # q => d[x][y] = c[x][y]
<1>1. c[p][q] \in Seq(Bloco) /\ d[p][q] = Append(c[p][q], m)
    BY DEF Canais, Mais
<1>2. /\ Len(Append(c[p][q], m)) = Len(c[p][q]) + 1 /\ Append(c[p][q], m) # <<>>
      /\ c[p][q] = <<>> => Head(Append(c[p][q], m)) = m
    BY <1>1
<1>. QED
    BY <1>1, <1>2 DEF Mais

LEMMA MenosFila ==
    ASSUME NEW c \in Canais, NEW d, NEW p \in Processo, NEW q \in Processo,
           Menos(c, d, p, q), c[p][q] # <<>>
    PROVE  /\ d \in Canais
           /\ Len(d[p][q]) = Len(c[p][q]) - 1
           /\ \A x, y \in Processo : x # p \/ y # q => d[x][y] = c[x][y]
<1>1. c[p][q] \in Seq(Bloco) /\ d[p][q] = Tail(c[p][q])
    BY DEF Canais, Menos
<1>2. Len(Tail(c[p][q])) = Len(c[p][q]) - 1
    BY <1>1
<1>. QED
    BY <1>1, <1>2 DEF Menos

LEMMA OcupadoFinito == IsFiniteSet(Ocupado) /\ IsFiniteSet(Escravo) /\ Cardinality(Escravo) = np - 1
<1>1. IsFiniteSet(Escravo) /\ Cardinality(Escravo) = np - 1
    BY FS_Interval, Numeros DEF Escravo
<1>. QED
    BY <1>1, FS_Subset DEF Ocupado

LEMMA InitFases == Init => Fases
<1>. SUFFICES ASSUME Init PROVE Fases
    OBVIOUS
<1>1. \A s \in Escravo : canal[MASTER][s] = <<>> /\ canal[s][MASTER] = <<>>
    BY Numeros DEF Init, InitMPI
<1>2. pc[MASTER] = "distribuir" /\ \A s \in Escravo : pc[s] = "receber"
    BY Numeros DEF Init
<1>3. slave = 1 /\ \A s \in Escravo : s >= slave
    BY DEF Init, Escravo
<1>4. \A s \in Escravo : Uma(canal, s)
    BY <1>1 DEF Uma
<1>. QED
    BY <1>1, <1>2, <1>3, <1>4 DEF Fases, Ocioso, Chegou

\* What the steps use of the invariant.
LEMMA Fatos ==
    ASSUME IInv
    PROVE  /\ canal \in Canais /\ Tipos /\ MASTER \in Processo
           /\ \A s \in Escravo :
                 s \in Processo /\ s # MASTER /\ s \in Nat
<1>1. canal \in Canais
    BY DEF IInv, Tipos, Canais
<1>. QED
    BY <1>1, Numeros DEF IInv, Escravo

\* The two channels of a slave.
LEMMA Par ==
    ASSUME NEW c \in Canais, NEW s \in Escravo
    PROVE  /\ Uma(c, s) =>
                 /\ c[MASTER][s] # <<>> => Len(c[MASTER][s]) = 1 /\ c[s][MASTER] = <<>>
                 /\ c[s][MASTER] # <<>> => Len(c[s][MASTER]) = 1 /\ c[MASTER][s] = <<>>
                 /\ Len(c[MASTER][s]) + Len(c[s][MASTER]) <= 1
           /\ c[MASTER][s] = <<>> /\ Len(c[s][MASTER]) <= 1 => Uma(c, s)
           /\ c[s][MASTER] = <<>> /\ Len(c[MASTER][s]) <= 1 => Uma(c, s)
<1>1. s \in Processo /\ MASTER \in Processo
    BY Numeros
<1>2. /\ Len(c[MASTER][s]) \in Nat /\ (c[MASTER][s] = <<>> <=> Len(c[MASTER][s]) = 0)
      /\ Len(c[s][MASTER]) \in Nat /\ (c[s][MASTER] = <<>> <=> Len(c[s][MASTER]) = 0)
    BY <1>1, Comprimento
<1>3. 0 <= 1
    OBVIOUS
<1>4. Uma(c, s) => Len(c[MASTER][s]) + Len(c[s][MASTER]) <= 1
    BY <1>2, SomaNula, Zenon DEF Uma
<1>5. Uma(c, s) =>
         /\ c[MASTER][s] # <<>> => Len(c[MASTER][s]) = 1 /\ c[s][MASTER] = <<>>
         /\ c[s][MASTER] # <<>> => Len(c[s][MASTER]) = 1 /\ c[MASTER][s] = <<>>
    BY <1>1, Comprimento, Zenon DEF Uma
<1>6. /\ c[MASTER][s] = <<>> /\ Len(c[s][MASTER]) <= 1 => Uma(c, s)
      /\ c[s][MASTER] = <<>> /\ Len(c[MASTER][s]) <= 1 => Uma(c, s)
    BY <1>2, <1>3, Zenon DEF Uma
<1>. QED
    BY <1>4, <1>5, <1>6, Zenon

LEMMA DistribuirFases ==
    ASSUME IInv, Naturais, Fases, Distribuir
    PROVE  Fases'
<1>. DEFINE m == Tarefa(tasks_sent)
<1>1. /\ m \in Bloco /\ m[1] > STOP /\ Mais(canal, canal', MASTER, slave, m)
      /\ slave \in Escravo
    BY DistribuirCanal DEF IInv, Tipos
<1>2. /\ pc[MASTER] = "distribuir" /\ slave \in Nat
      /\ \/ slave' = slave + 1 /\ pc'[MASTER] = "distribuir"
            /\ pc' = [pc EXCEPT ![MASTER] = "distribuir"]
         \/ slave = np - 1 /\ slave' = 1 /\ pc'[MASTER] = "coletar"
            /\ pc' = [pc EXCEPT ![MASTER] = "coletar"]
    BY LacoTipo DEF IInv, Distribuir
<1>3. canal[MASTER][slave] = <<>> /\ canal[slave][MASTER] = <<>>
    BY <1>1, <1>2 DEF Fases, Ocioso, Chegou
<1>. slave \in Processo /\ slave # MASTER /\ MASTER \in Processo /\ canal \in Canais
    BY <1>1, Fatos
<1>4. /\ canal' \in Canais /\ Len(canal'[MASTER][slave]) = Len(canal[MASTER][slave]) + 1
      /\ canal'[MASTER][slave] # <<>> /\ Head(canal'[MASTER][slave]) = m
      /\ \A x \in Escravo : canal'[x][MASTER] = canal[x][MASTER]
      /\ \A x \in Escravo : x # slave => canal'[MASTER][x] = canal[MASTER][x]
    <2>1. /\ canal' \in Canais /\ Len(canal'[MASTER][slave]) = Len(canal[MASTER][slave]) + 1
          /\ canal'[MASTER][slave] # <<>> /\ Head(canal'[MASTER][slave]) = m
          /\ \A x, y \in Processo : x # MASTER \/ y # slave => canal'[x][y] = canal[x][y]
        <3>1. /\ canal' \in Canais
              /\ Len(canal'[MASTER][slave]) = Len(canal[MASTER][slave]) + 1
              /\ canal'[MASTER][slave] # <<>>
              /\ canal[MASTER][slave] = <<>> => Head(canal'[MASTER][slave]) = m
              /\ \A x, y \in Processo : x # MASTER \/ y # slave => canal'[x][y] = canal[x][y]
            <4>. HIDE DEF m
            <4>. QED
                BY <1>1, MaisFila
        <3>. QED
            BY <1>3, <3>1
    <2>. QED
        BY <2>1, Fatos
<1>5. \A s \in Escravo : Uma(canal', s)
    <2>1. Len(canal[MASTER][slave]) = 0
        BY <1>3
    <2>2. Uma(canal', slave)
        <3>1. Len(canal'[MASTER][slave]) <= 1
            BY <1>4, <2>1
        <3>2. canal'[slave][MASTER] = <<>> /\ canal' \in Canais /\ slave \in Escravo
            BY <1>1, <1>3, <1>4
        <3>. QED
            BY <3>1, <3>2, Par, Zenon
    <2>3. ASSUME NEW s \in Escravo, s # slave PROVE Uma(canal', s) <=> Uma(canal, s)
        BY <1>4, <2>3 DEF Uma
    <2>. QED
        BY <2>2, <2>3 DEF Fases
<1>6. \A s \in Escravo :
         /\ pc'[s] = "receber"
         /\ Chegou(MASTER, s)' => Head(canal'[MASTER][s])[1] > STOP
    <2>1. \A s \in Escravo : pc'[s] = pc[s]
        BY <1>2, Fatos DEF Tipos
    <2>. QED
        BY <1>1, <1>2, <1>4, <2>1 DEF Fases, Chegou
<1>7. \A s \in Escravo : Ocioso(s)' <=> s >= slave + 1
    <2>1. ASSUME NEW s \in Escravo, s = slave
          PROVE  ~ Ocioso(s)' /\ ~ (s >= slave + 1)
        <3>1. ~ (s >= slave + 1)
            BY <1>2, <2>1
        <3>. QED
            BY <1>4, <2>1, <3>1 DEF Ocioso, Chegou
    <2>2. ASSUME NEW s \in Escravo, s # slave
          PROVE  Ocioso(s)' <=> s >= slave + 1
        <3>1. Ocioso(s)' <=> Ocioso(s)
            BY <1>4, <2>2 DEF Ocioso, Chegou
        <3>2. s \in Nat /\ slave \in Nat
            BY <1>2, Fatos
        <3>3. s >= slave <=> s >= slave + 1
            BY <2>2, <3>2
        <3>. QED
            BY <1>2, <3>1, <3>3 DEF Fases
    <2>. QED
        BY <2>1, <2>2, Zenon
<1>8. CASE slave' = slave + 1 /\ pc'[MASTER] = "distribuir"
    BY <1>5, <1>6, <1>7, <1>8 DEF Fases, Uma
<1>9. CASE slave = np - 1 /\ slave' = 1 /\ pc'[MASTER] = "coletar"
    <2>1. Ocupado' = Escravo
        <3>1. \A s \in Escravo : ~ Ocioso(s)'
            BY <1>7, <1>9, Numeros DEF Escravo
        <3>. QED
            BY <3>1 DEF Ocioso, Ocupado
    <2>2. tasks_to_receive' = np - 1
        BY <1>2, <1>9, Numeros DEF IInv, Contas, Distribuir
    <2>3. tasks_to_receive' = Cardinality(Ocupado') /\ tasks_to_receive' > 0
        BY <2>1, <2>2, OcupadoFinito, Numeros
    <2>. QED
        BY <1>5, <1>6, <1>9, <2>3 DEF Fases, Uma
<1>. QED
    BY <1>2, <1>8, <1>9

LEMMA ColetarFases ==
    ASSUME IInv, Naturais, Fases, NEW s \in Escravo, Coletar(s)
    PROVE  Fases'
<1>1. PICK c \in Canais :
         /\ Menos(canal, c, s, MASTER)
         /\ tasks_sent >= tasks => canal' = c
         /\ tasks_sent < tasks =>
               /\ Tarefa(tasks_sent) \in Bloco
               /\ Naturais => Tarefa(tasks_sent)[1] > STOP
               /\ Mais(c, canal', MASTER, s, Tarefa(tasks_sent))
    BY ColetarCanal
<1>2. /\ canal[s][MASTER] # <<>> /\ pc[MASTER] = "coletar"
      /\ slave = 1 /\ slave' = slave
    BY DEF Coletar, Chegou, Ir, IInv, Contas
<1>. s \in Processo /\ s # MASTER /\ MASTER \in Processo /\ canal \in Canais
    BY Fatos
<1>3. Len(canal[s][MASTER]) = 1 /\ canal[MASTER][s] = <<>>
    BY <1>2, Par DEF Fases
<1>4. /\ c[s][MASTER] = <<>> /\ c[MASTER][s] = <<>>
      /\ Len(c[s][MASTER]) = 0 /\ Len(c[MASTER][s]) = 0
      /\ \A x, y \in Processo : x # s \/ y # MASTER => c[x][y] = canal[x][y]
    <2>1. /\ Len(c[s][MASTER]) = Len(canal[s][MASTER]) - 1
          /\ \A x, y \in Processo : x # s \/ y # MASTER => c[x][y] = canal[x][y]
        BY <1>1, <1>2, MenosFila
    <2>2. Len(c[s][MASTER]) = 0 /\ c[MASTER][s] = <<>>
        BY <1>3, <2>1
    <2>. QED
        BY <1>1, <2>1, <2>2, Comprimento
<1>5. tasks_to_receive \in Int /\ tasks_sent \in Nat /\ tasks \in Nat
    BY Numeros DEF IInv, Tipos
<1>6. CASE tasks_sent < tasks
    <2>1. /\ Len(canal'[MASTER][s]) = 1 /\ canal'[MASTER][s] # <<>>
          /\ Head(canal'[MASTER][s]) = Tarefa(tasks_sent)
          /\ canal'[s][MASTER] = <<>> /\ Len(canal'[s][MASTER]) = 0
          /\ \A x \in Escravo : x # s => /\ canal'[MASTER][x] = canal[MASTER][x]
                                        /\ canal'[x][MASTER] = canal[x][MASTER]
        <3>1. /\ Len(canal'[MASTER][s]) = Len(c[MASTER][s]) + 1
              /\ canal'[MASTER][s] # <<>> /\ Head(canal'[MASTER][s]) = Tarefa(tasks_sent)
              /\ \A x, y \in Processo : x # MASTER \/ y # s => canal'[x][y] = c[x][y]
            <4>1. Mais(c, canal', MASTER, s, Tarefa(tasks_sent)) /\ Tarefa(tasks_sent) \in Bloco
                BY <1>1, <1>6
            <4>2. c[MASTER][s] = <<>> => Head(canal'[MASTER][s]) = Tarefa(tasks_sent)
                BY <4>1, MaisFila
            <4>3. /\ Len(canal'[MASTER][s]) = Len(c[MASTER][s]) + 1
                  /\ canal'[MASTER][s] # <<>>
                BY <4>1, MaisFila
            <4>4. \A x, y \in Processo : x # MASTER \/ y # s => canal'[x][y] = c[x][y]
                BY <4>1 DEF Mais
            <4>. QED
                BY <1>4, <4>2, <4>3, <4>4
        <3>2. canal'[s][MASTER] = c[s][MASTER]
            BY <3>1
        <3>3. \A x \in Escravo : x # s => /\ canal'[MASTER][x] = c[MASTER][x]
                                       /\ canal'[x][MASTER] = c[x][MASTER]
            BY <3>1, Fatos
        <3>4. \A x \in Escravo : x # s => /\ c[MASTER][x] = canal[MASTER][x]
                                       /\ c[x][MASTER] = canal[x][MASTER]
            BY <1>4, Fatos
        <3>. QED
            BY <1>4, <3>1, <3>2, <3>3, <3>4
    <2>2. /\ tasks_to_receive' = tasks_to_receive /\ pc'[MASTER] = "coletar"
          /\ \A x \in Escravo : pc'[x] = "receber"
        BY <1>2, <1>5, <1>6, Fatos DEF Coletar, Pendentes, Ir, Fases, Tipos
    <2>3. Ocupado' = Ocupado
        BY <1>2, <2>1 DEF Ocupado, Chegou
    <2>4. \A x \in Escravo : Chegou(MASTER, x)' => Head(canal'[MASTER][x])[1] > STOP
        BY <1>1, <1>2, <1>6, <2>1 DEF Fases, Chegou
    <2>5. \A x \in Escravo : Uma(canal', x)
        <3>1. Uma(canal', s)
            BY <2>1 DEF Uma
        <3>2. ASSUME NEW x \in Escravo, x # s PROVE Uma(canal', x) <=> Uma(canal, x)
            BY <2>1, <3>2 DEF Uma
        <3>. QED
            BY <3>1, <3>2 DEF Fases
    <2>. QED
        BY <1>2, <2>2, <2>3, <2>4, <2>5 DEF Fases
<1>7. CASE ~ (tasks_sent < tasks)
    <2>1. /\ canal'[s][MASTER] = <<>> /\ canal'[MASTER][s] = <<>>
          /\ Len(canal'[s][MASTER]) = 0 /\ Len(canal'[MASTER][s]) = 0
          /\ \A x \in Escravo : x # s => /\ canal'[MASTER][x] = canal[MASTER][x]
                                        /\ canal'[x][MASTER] = canal[x][MASTER]
        BY <1>1, <1>4, <1>5, <1>7, Fatos
    <2>2. /\ tasks_to_receive' = tasks_to_receive - 1
          /\ pc'[MASTER] = IF tasks_to_receive - 1 > 0 THEN "coletar" ELSE "parar"
          /\ \A x \in Escravo : pc'[x] = "receber"
        BY <1>2, <1>5, <1>7, Fatos DEF Coletar, Pendentes, Ir, Fases, Tipos
    <2>3. Ocupado' = Ocupado \ {s} /\ s \in Ocupado
        BY <1>2, <2>1 DEF Ocupado, Chegou
    <2>4. Cardinality(Ocupado') = tasks_to_receive - 1
        BY <1>2, <2>3, OcupadoFinito, FS_RemoveElement DEF Fases
    <2>5. \A x \in Escravo : Chegou(MASTER, x)' => Head(canal'[MASTER][x])[1] > STOP
        BY <1>2, <2>1 DEF Fases, Chegou
    <2>6. \A x \in Escravo : Uma(canal', x)
        <3>1. Uma(canal', s)
            BY <2>1 DEF Uma
        <3>2. ASSUME NEW x \in Escravo, x # s PROVE Uma(canal', x) <=> Uma(canal, x)
            BY <2>1, <3>2 DEF Uma
        <3>. QED
            BY <3>1, <3>2 DEF Fases
    <2>7. CASE tasks_to_receive - 1 > 0
        BY <1>2, <2>2, <2>4, <2>5, <2>6, <2>7 DEF Fases
    <2>8. CASE ~ (tasks_to_receive - 1 > 0)
        <3>1. Ocupado' = {}
            <4>1. IsFiniteSet(Ocupado') /\ Cardinality(Ocupado') = 0
                BY <1>2, <1>5, <2>3, <2>4, <2>8, OcupadoFinito, FS_RemoveElement DEF Fases
            <4>. QED
                BY <4>1, FS_EmptySet
        <3>2. \A x \in Escravo : Ocioso(x)' /\ ~ Chegou(x, MASTER)' /\ ~ Chegou(MASTER, x)'
            BY <3>1 DEF Ocupado, Ocioso
        <3>. QED
            BY <2>2, <2>6, <2>8, <3>2 DEF Fases
    <2>. QED
        BY <2>7, <2>8
<1>. QED
    BY <1>6, <1>7

LEMMA PararFases ==
    ASSUME IInv, Naturais, Fases, Parar
    PROVE  Fases'
<1>1. PICK m \in Bloco : m[1] = STOP /\ Mais(canal, canal', MASTER, slave, m)
    BY PararCanal
<1>2. /\ pc[MASTER] = "parar" /\ slave \in Nat /\ slave \in Escravo
      /\ \/ slave' = slave + 1 /\ pc'[MASTER] = "parar"
         \/ pc'[MASTER] = "imprimir"
    BY LacoTipo DEF IInv, Tipos, Parar
<1>. slave \in Processo /\ slave # MASTER /\ MASTER \in Processo /\ canal \in Canais
    BY <1>2, Fatos
<1>3. canal[MASTER][slave] = <<>> /\ canal[slave][MASTER] = <<>> /\ Len(canal[MASTER][slave]) = 0
    <2>1. canal[MASTER][slave] = <<>> /\ canal[slave][MASTER] = <<>>
        BY <1>2 DEF Fases, Ocioso, Chegou
    <2>. QED
        BY <2>1, Comprimento
<1>4. /\ canal' \in Canais /\ Len(canal'[MASTER][slave]) <= 1
      /\ Head(canal'[MASTER][slave])[1] = STOP
      /\ \A x \in Escravo : canal'[x][MASTER] = canal[x][MASTER]
      /\ \A x \in Escravo : x # slave => canal'[MASTER][x] = canal[MASTER][x]
    <2>1. /\ canal' \in Canais /\ Len(canal'[MASTER][slave]) = Len(canal[MASTER][slave]) + 1
          /\ canal[MASTER][slave] = <<>> => Head(canal'[MASTER][slave]) = m
        BY <1>1, MaisFila
    <2>2. \A x, y \in Processo : x # MASTER \/ y # slave => canal'[x][y] = canal[x][y]
        BY <1>1 DEF Mais
    <2>. QED
        BY <1>1, <1>3, <2>1, <2>2, Fatos
<1>5. \A s \in Escravo : Uma(canal', s)
    <2>1. Uma(canal', slave)
        <3>1. canal'[slave][MASTER] = <<>>
            BY <1>2, <1>3, <1>4
        <3>. QED
            BY <1>2, <1>4, <3>1, Par, Zenon
    <2>2. ASSUME NEW s \in Escravo, s # slave PROVE Uma(canal', s) <=> Uma(canal, s)
        BY <1>4, <2>2 DEF Uma
    <2>. QED
        BY <2>1, <2>2 DEF Fases
<1>6. \A s \in Escravo :
         /\ ~ Chegou(s, MASTER)'
         /\ Chegou(MASTER, s)' => Head(canal'[MASTER][s])[1] <= STOP
    <2>1. STOP <= STOP
        BY DEF STOP
    <2>. QED
        BY <1>2, <1>4, <2>1 DEF Fases, Chegou
<1>7. \A s \in Escravo : s >= slave + 1 => Ocioso(s)'
    <2>1. ASSUME NEW s \in Escravo, s >= slave + 1 PROVE s # slave /\ s >= slave
        BY <1>2, <2>1, Fatos
    <2>2. ASSUME NEW s \in Escravo, s # slave PROVE Ocioso(s)' <=> Ocioso(s)
        BY <1>4, <2>2 DEF Ocioso, Chegou
    <2>. QED
        BY <1>2, <2>1, <2>2 DEF Fases
<1>. QED
    BY <1>2, <1>5, <1>6, <1>7 DEF Fases, Uma

\* A task that begins above STOP is out only while the master collects.
LEMMA TrabalharFases ==
    ASSUME IInv, Fases, NEW s \in Escravo, Trabalhar(s)
    PROVE  Fases'
<1>1. PICK c \in Canais, m \in Bloco :
         Menos(canal, c, MASTER, s) /\ Mais(c, canal', s, MASTER, m)
    BY TrabalharCanal
<1>. s \in Processo /\ s # MASTER /\ MASTER \in Processo /\ canal \in Canais /\ Tipos
    BY Fatos
<1>2. /\ canal[MASTER][s] # <<>> /\ pc' = pc
      /\ slave' = slave /\ tasks_to_receive' = tasks_to_receive
      /\ Head(canal[MASTER][s])[1] > STOP
    <2>1. pc' = [pc EXCEPT ![s] = "receber"] /\ pc[s] = "receber"
        BY DEF Trabalhar, Ir
    <2>2. pc' = pc
        BY <2>1 DEF Tipos
    <2>. QED
        BY <2>2 DEF Trabalhar, Chegou
<1>3. pc[MASTER] \in {"distribuir", "coletar"}
    <2>1. Head(canal[MASTER][s]) \in Bloco /\ 1 \in 1 .. tasks_size
        <3>1. canal[MASTER][s] \in Seq(Bloco)
            BY Comprimento
        <3>2. Head(canal[MASTER][s]) \in Bloco
            BY <1>2, <3>1, Resto
        <3>3. tasks_size \in Nat \ {0}
            BY Tamanho DEF Tipos
        <3>. QED
            BY <3>2, <3>3
    <2>2. Head(canal[MASTER][s])[1] \in Int /\ STOP \in Int
        <3>1. \A t \in Bloco : t[1] \in Int
            BY <2>1 DEF Bloco
        <3>. QED
            BY <2>1, <3>1 DEF STOP
    <2>3. ~ (Head(canal[MASTER][s])[1] <= STOP)
        BY <1>2, <2>2
    <2>. QED
        BY <1>2, <2>3 DEF Fases, Tipos, Chegou
<1>4. Len(canal[MASTER][s]) = 1 /\ canal[s][MASTER] = <<>>
    BY <1>2, Par, Zenon DEF Fases
<1>5. /\ c[MASTER][s] = <<>> /\ c[s][MASTER] = <<>> /\ Len(c[s][MASTER]) = 0
      /\ \A x, y \in Processo : x # MASTER \/ y # s => c[x][y] = canal[x][y]
    <2>1. Len(c[MASTER][s]) = Len(canal[MASTER][s]) - 1
        BY <1>1, <1>2, MenosFila
    <2>2. \A x, y \in Processo : x # MASTER \/ y # s => c[x][y] = canal[x][y]
        BY <1>1 DEF Menos
    <2>3. Len(c[MASTER][s]) = 0
        BY <1>4, <2>1
    <2>. QED
        BY <1>4, <2>2, <2>3, Comprimento
<1>6. /\ canal' \in Canais /\ canal'[MASTER][s] = <<>>
      /\ canal'[s][MASTER] # <<>> /\ Len(canal'[s][MASTER]) <= 1
      /\ \A x \in Escravo : x # s => /\ canal'[MASTER][x] = canal[MASTER][x]
                                    /\ canal'[x][MASTER] = canal[x][MASTER]
    <2>1. /\ canal' \in Canais /\ Len(canal'[s][MASTER]) = Len(c[s][MASTER]) + 1
          /\ canal'[s][MASTER] # <<>>
        BY <1>1, MaisFila
    <2>2. \A x, y \in Processo : x # s \/ y # MASTER => canal'[x][y] = c[x][y]
        BY <1>1 DEF Mais
    <2>. QED
        BY <1>5, <2>1, <2>2, Fatos
<1>7. \A x \in Escravo : Uma(canal', x)
    <2>1. Uma(canal', s)
        BY <1>6, Par, Zenon
    <2>2. ASSUME NEW x \in Escravo, x # s PROVE Uma(canal', x) <=> Uma(canal, x)
        BY <1>6, <2>2 DEF Uma
    <2>. QED
        BY <2>1, <2>2 DEF Fases
<1>8. \A x \in Escravo : Ocioso(x)' <=> Ocioso(x)
    BY <1>2, <1>6 DEF Ocioso, Chegou
<1>9. Ocupado' = Ocupado
    BY <1>2, <1>6 DEF Ocupado, Chegou
<1>10. \A x \in Escravo : Chegou(MASTER, x)' => Head(canal'[MASTER][x])[1] > STOP
    BY <1>3, <1>6 DEF Fases, Chegou
<1>. QED
    BY <1>2, <1>3, <1>7, <1>8, <1>9, <1>10 DEF Fases, Uma

\* An order to stop is out only when no result is pending.
LEMMA EncerrarFases ==
    ASSUME IInv, Fases, NEW s \in Escravo, Encerrar(s)
    PROVE  Fases'
<1>. s \in Processo /\ s # MASTER /\ MASTER \in Processo /\ canal \in Canais /\ Tipos
    BY Fatos
<1>1. /\ canal[MASTER][s] # <<>> /\ pc'[MASTER] = pc[MASTER]
      /\ slave' = slave /\ Head(canal[MASTER][s])[1] <= STOP
    BY DEF Encerrar, Ir, Chegou, Tipos
<1>2. pc[MASTER] \in {"parar", "imprimir", "fim"}
    <2>1. Head(canal[MASTER][s]) \in Bloco /\ 1 \in 1 .. tasks_size
        <3>1. canal[MASTER][s] \in Seq(Bloco)
            BY Comprimento
        <3>2. Head(canal[MASTER][s]) \in Bloco
            BY <1>1, <3>1, Resto
        <3>3. tasks_size \in Nat \ {0}
            BY Tamanho DEF Tipos
        <3>. QED
            BY <3>2, <3>3
    <2>2. Head(canal[MASTER][s])[1] \in Int /\ STOP \in Int
        <3>1. \A t \in Bloco : t[1] \in Int
            BY <2>1 DEF Bloco
        <3>. QED
            BY <2>1, <3>1 DEF STOP
    <2>3. ~ (Head(canal[MASTER][s])[1] > STOP)
        BY <1>1, <2>2
    <2>. QED
        BY <1>1, <2>3 DEF Fases, Tipos, Chegou
<1>3. Len(canal[MASTER][s]) = 1 /\ canal[s][MASTER] = <<>>
    BY <1>1, Par, Zenon DEF Fases
<1>4. /\ canal' \in Canais /\ canal'[MASTER][s] = <<>>
      /\ \A x \in Escravo : canal'[x][MASTER] = canal[x][MASTER]
      /\ \A x \in Escravo : x # s => canal'[MASTER][x] = canal[MASTER][x]
    <2>1. canal' \in Canais /\ Len(canal'[MASTER][s]) = Len(canal[MASTER][s]) - 1
        BY <1>1, EncerrarCanal, MenosFila
    <2>2. \A x, y \in Processo : x # MASTER \/ y # s => canal'[x][y] = canal[x][y]
        BY EncerrarCanal DEF Menos
    <2>3. Len(canal'[MASTER][s]) = 0
        BY <1>3, <2>1
    <2>. QED
        BY <2>1, <2>2, <2>3, Comprimento, Fatos
<1>5. \A x \in Escravo : Uma(canal', x)
    <2>1. Len(canal'[s][MASTER]) <= 1
        BY <1>4 DEF Fases, Uma
    <2>2. Uma(canal', s)
        BY <1>4, <2>1, Par, Zenon
    <2>3. ASSUME NEW x \in Escravo, x # s PROVE Uma(canal', x) <=> Uma(canal, x)
        BY <1>4, <2>3 DEF Uma
    <2>. QED
        BY <2>2, <2>3 DEF Fases
<1>6. \A x \in Escravo : Ocioso(x) => Ocioso(x)'
    BY <1>1, <1>4 DEF Ocioso, Chegou
<1>7. \A x \in Escravo :
         /\ ~ Chegou(x, MASTER)'
         /\ Chegou(MASTER, x)' => Head(canal'[MASTER][x])[1] <= STOP
    BY <1>2, <1>4 DEF Fases, Chegou
<1>. QED
    BY <1>1, <1>2, <1>5, <1>6, <1>7 DEF Fases, Uma

LEMMA NextFases ==
    ASSUME IInv, Naturais, Fases, [Next]_vars
    PROVE  Fases'
<1>1. CASE Imprimir
    <2>1. /\ canal' = canal /\ slave' = slave /\ tasks_to_receive' = tasks_to_receive
          /\ pc[MASTER] = "imprimir" /\ pc'[MASTER] = "fim"
        BY <1>1, Numeros DEF Imprimir, Ir, IInv, Tipos
    <2>2. \A s \in Escravo : Uma(canal', s)
        BY <2>1 DEF Fases
    <2>3. \A s \in Escravo :
             /\ ~ Chegou(s, MASTER)'
             /\ Chegou(MASTER, s)' => Head(canal'[MASTER][s])[1] <= STOP
        BY <2>1 DEF Fases, Chegou
    <2>. QED
        BY <2>1, <2>2, <2>3 DEF Fases, Uma
<1>2. CASE UNCHANGED vars
    BY <1>2 DEF vars, Fases, Uma, Ocioso, Ocupado, Chegou
<1>. QED
    BY <1>1, <1>2, DistribuirFases, ColetarFases, PararFases, TrabalharFases,
       EncerrarFases DEF Next, Mestre

LEMMA Indutivo == IInv /\ [Next]_vars => IInv'
<1>. SUFFICES ASSUME IInv, [Next]_vars PROVE IInv'
    OBVIOUS
<1>1. Tipos' /\ Contas'
    BY NextTipos
<1>2. Naturais' => Naturais
    <2>1. entrada' = entrada
        BY DEF Next, Mestre, Distribuir, Coletar, Parar, Imprimir, Trabalhar,
               Encerrar, vars
    <2>. QED
        BY <2>1 DEF Naturais, STOP
<1>3. Naturais => Fases'
    BY NextFases DEF IInv
<1>. QED
    BY <1>1, <1>2, <1>3 DEF IInv

LEMMA FasesBastam == IInv => UmaTarefa
<1>. SUFFICES ASSUME IInv, Naturais PROVE UmaTarefa
    BY DEF UmaTarefa
<1>1. Fases
    BY DEF IInv
<1>2. \A s \in Escravo : Len(canal[MASTER][s]) + Len(canal[s][MASTER]) <= 1
    BY <1>1, Fatos, Par, Zenon DEF Fases
<1>3. pc[MASTER] = "distribuir" => tasks_to_receive = Cardinality(Ocupado)
    <2>. SUFFICES ASSUME pc[MASTER] = "distribuir"
                  PROVE  tasks_to_receive = Cardinality(Ocupado)
        OBVIOUS
    <2>1. slave \in 1 .. np - 1 /\ tasks_to_receive = slave - 1 /\ np \in Nat
        BY Numeros DEF IInv, Tipos, Contas, Escravo
    <2>2. \A s \in Escravo : (Chegou(MASTER, s) \/ Chegou(s, MASTER)) <=> ~ (s >= slave)
        BY <1>1 DEF Fases, Ocioso
    <2>3. Ocupado = 1 .. slave - 1
        BY <2>1, <2>2 DEF Ocupado, Escravo
    <2>. QED
        BY <2>1, <2>3, FS_Interval
<1>. QED
    BY <1>1, <1>2, <1>3 DEF Fases, UmaTarefa

\* A slave has one message at most on its way, and the results the master
\* waits for are those of the busy slaves (master-slave.c:141-167), for any
\* number of slaves, of tasks, any inputs and any room of the library.
THEOREM OneTaskEach == Spec => []UmaTarefa
<1>1. Init => IInv
    BY InitTipos, InitFases DEF IInv
<1>. QED
    BY <1>1, Indutivo, FasesBastam, PTL DEF Spec

-----------------------------------------------------------------------------
(***************************************************************************)
(* How often a value occurs.                                               *)
(***************************************************************************)
LEMMA VezesTipo ==
    ASSUME NEW v \in Seq(Int), NEW x
    PROVE  Vezes(x, v) \in Nat /\ IsFiniteSet({k \in DOMAIN v : v[k] = x})
<1>1. {k \in DOMAIN v : v[k] = x} \in SUBSET (DOMAIN v)
    OBVIOUS
<1>. QED
    BY <1>1, Finitos DEF Vezes

LEMMA VezesJunta ==
    ASSUME NEW v \in Seq(Int), NEW w \in Seq(Int), NEW x
    PROVE  Vezes(x, v \o w) = Vezes(x, v) + Vezes(x, w)
<1>. DEFINE n == Len(v)
            m == Len(w)
            A == {k \in DOMAIN v : v[k] = x}
            B == {k \in DOMAIN w : w[k] = x}
            C == {k + n : k \in B}
            u == v \o w
            f == [k \in B |-> k + n]
<1>1. n \in Nat /\ m \in Nat /\ DOMAIN v = 1 .. n /\ DOMAIN w = 1 .. m /\ DOMAIN u = 1 .. n + m
    OBVIOUS
<1>2. \A k \in 1 .. n + m : u[k] = IF k <= n THEN v[k] ELSE w[k - n]
    OBVIOUS
<1>. HIDE DEF n, m, u
<1>3. IsFiniteSet(A) /\ Cardinality(A) = Vezes(x, v) /\ IsFiniteSet(B) /\ Cardinality(B) = Vezes(x, w)
    BY VezesTipo DEF Vezes
<1>4. IsFiniteSet(C) /\ Cardinality(C) = Cardinality(B)
    <2>1. /\ f \in [B -> C] /\ \A a, b \in B : f[a] = f[b] => a = b
          /\ \A c \in C : \E b \in B : f[b] = c
        BY <1>1
    <2>. HIDE DEF f, B, C
    <2>2. f \in Injection(B, C) /\ f \in Surjection(B, C)
        BY <2>1 DEF Injection, IsInjective, Surjection
    <2>. QED
        BY <1>3, <2>2, FS_Surjection
<1>5. {k \in DOMAIN u : u[k] = x} = A \cup C /\ A \cap C = {}
    <2>1. ASSUME NEW k \in DOMAIN u, u[k] = x PROVE k \in A \cup C
        <3>1. CASE k <= n
            BY <1>1, <1>2, <2>1, <3>1
        <3>2. CASE ~ (k <= n)
            <4>1. k - n \in B /\ k = (k - n) + n
                BY <1>1, <1>2, <2>1, <3>2
            <4>. QED
                BY <4>1
        <3>. QED
            BY <3>1, <3>2
    <2>2. ASSUME NEW k \in A PROVE k \in DOMAIN u /\ u[k] = x
        BY <1>1, <1>2
    <2>3. ASSUME NEW k \in C PROVE k \in DOMAIN u /\ u[k] = x /\ k \notin A
        <3>1. PICK b \in B : k = b + n
            OBVIOUS
        <3>2. b \in 1 .. m /\ w[b] = x /\ k \in 1 .. n + m /\ ~ (k <= n) /\ k - n = b
            BY <1>1, <3>1
        <3>. QED
            BY <1>1, <1>2, <3>2
    <2>. HIDE DEF A, C
    <2>. QED
        BY <2>1, <2>2, <2>3
<1>6. Cardinality(A \cup C) = Cardinality(A) + Cardinality(C) - Cardinality(A \cap C)
    <2>. HIDE DEF A, C
    <2>. QED
        BY <1>3, <1>4, FS_Union
<1>7. Cardinality(A \cap C) = 0
    BY <1>5, FS_EmptySet
<1>8. Vezes(x, v) \in Nat /\ Vezes(x, w) \in Nat
    BY VezesTipo
<1>9. Vezes(x, u) = Cardinality(A \cup C)
    BY <1>5 DEF Vezes
<1>. QED
    <2>. HIDE DEF A, B, C
    <2>. QED
        BY <1>3, <1>4, <1>6, <1>7, <1>8, <1>9 DEF u

\* What is put in another order keeps its values,
LEMMA VezesReordena ==
    ASSUME NEW v, NEW w, NEW t, Reordena(v, w, t), NEW x
    PROVE  Vezes(x, w) = Vezes(x, v)
<1>. DEFINE n == Len(v)
            A == {k \in 1 .. n : v[k] = x}
            B == {k \in 1 .. n : w[k] = x}
<1>1. /\ n \in Nat /\ DOMAIN v = 1 .. n /\ DOMAIN w = 1 .. n
      /\ t \in [1 .. n -> 1 .. n] /\ \A i, j \in 1 .. n : t[i] = t[j] => i = j
      /\ \A k \in 1 .. n : w[k] = v[t[k]]
    BY DEF Reordena
<1>. HIDE DEF n
<1>2. /\ A \in SUBSET (1 .. n) /\ B \in SUBSET (1 .. n)
      /\ \A k \in 1 .. n : k \in B <=> t[k] \in A
    BY <1>1
<1>3. Vezes(x, v) = Cardinality(A) /\ Vezes(x, w) = Cardinality(B)
    BY <1>1 DEF Vezes
<1>. HIDE DEF A, B
<1>4. Cardinality(B) = Cardinality(A)
    <2>1. /\ n \in Nat /\ t \in [1 .. n -> 1 .. n] /\ A \in SUBSET (1 .. n) /\ B \in SUBSET (1 .. n)
          /\ \A i, j \in 1 .. n : t[i] = t[j] => i = j
          /\ \A k \in 1 .. n : k \in B <=> t[k] \in A
        BY <1>1, <1>2
    <2>. QED
        BY ONLY <2>1, Contagem
<1>. QED
    BY <1>3, <1>4

\* and what has no value more often, and as many of them, is another order.
LEMMA ReordenaVezes ==
    ASSUME NEW v \in Seq(Int), NEW w \in Seq(Int), Len(w) = Len(v),
           \A x \in Int : Vezes(x, w) <= Vezes(x, v)
    PROVE  \E t : Reordena(v, w, t)
<1>. DEFINE n == Len(v)
            A(x) == {k \in 1 .. n : v[k] = x}
            B(x) == {k \in 1 .. n : w[k] = x}
            g(x) == CHOOSE f : f \in Injection(B(x), A(x))
            t == [k \in 1 .. n |-> g(w[k])[k]]
<1>1. n \in Nat /\ DOMAIN v = 1 .. n /\ DOMAIN w = 1 .. n /\ \A k \in 1 .. n : w[k] \in Int
    OBVIOUS
<1>. HIDE DEF n
<1>2. ASSUME NEW x \in Int PROVE g(x) \in Injection(B(x), A(x))
    <2>1. /\ IsFiniteSet(A(x)) /\ IsFiniteSet(B(x))
          /\ Cardinality(A(x)) = Vezes(x, v) /\ Cardinality(B(x)) = Vezes(x, w)
          /\ Cardinality(A(x)) \in Nat /\ Cardinality(B(x)) \in Nat
        BY <1>1, VezesTipo DEF Vezes
    <2>2. Cardinality(B(x)) <= Cardinality(A(x))
        BY <2>1
    <2>. DEFINE a == Cardinality(A(x))
                b == Cardinality(B(x))
    <2>. HIDE DEF A, B
    <2>3. PICK i : i \in Bijection(1 .. a, A(x))
        <3>1. ExistsBijection(1 .. a, A(x))
            BY <2>1, FS_CardinalityType
        <3>. QED
            BY <3>1 DEF ExistsBijection
    <2>4. PICK j : j \in Bijection(1 .. b, B(x))
        <3>1. ExistsBijection(1 .. b, B(x))
            BY <2>1, FS_CardinalityType
        <3>. QED
            BY <3>1 DEF ExistsBijection
    <2>. HIDE DEF a, b
    <2>5. /\ i \in [1 .. a -> A(x)] /\ \A k, l \in 1 .. a : i[k] = i[l] => k = l
        BY <2>3 DEF Bijection, Injection, IsInjective
    <2>6. /\ j \in [1 .. b -> B(x)] /\ \A y \in B(x) : \E k \in 1 .. b : j[k] = y
        BY <2>4 DEF Bijection, Surjection
    <2>. DEFINE c(y) == CHOOSE k \in 1 .. b : j[k] = y
                f == [y \in B(x) |-> i[c(y)]]
    <2>7. \A y \in B(x) : c(y) \in 1 .. b /\ j[c(y)] = y
        BY <2>6
    <2>. HIDE DEF c
    <2>8. \A k \in 1 .. b : k \in 1 .. a
        BY <2>1, <2>2 DEF a, b
    <2>9. f \in [B(x) -> A(x)] /\ \A y, z \in B(x) : f[y] = f[z] => y = z
        <3>1. \A y \in B(x) : f[y] = i[c(y)] /\ i[c(y)] \in A(x)
            BY <2>5, <2>7, <2>8
        <3>2. ASSUME NEW y \in B(x), NEW z \in B(x), f[y] = f[z] PROVE y = z
            <4>1. c(y) = c(z)
                BY <2>5, <2>7, <2>8, <3>1, <3>2
            <4>. QED
                BY <2>7, <4>1
        <3>. QED
            BY <3>1, <3>2
    <2>10. f \in Injection(B(x), A(x))
        <3>. HIDE DEF f
        <3>. QED
            BY <2>9 DEF Injection, IsInjective
    <2>. QED
        BY <2>10
<1>. HIDE DEF g
<1>3. \A k \in 1 .. n : k \in B(w[k])
    OBVIOUS
<1>4. ASSUME NEW k \in 1 .. n PROVE t[k] = g(w[k])[k] /\ t[k] \in 1 .. n /\ v[t[k]] = w[k]
    <2>1. g(w[k]) \in [B(w[k]) -> A(w[k])]
        BY <1>1, <1>2 DEF Injection
    <2>2. g(w[k])[k] \in A(w[k])
        BY <1>3, <2>1
    <2>. QED
        BY <2>2
<1>5. t \in [1 .. n -> 1 .. n]
    BY <1>4
<1>. HIDE DEF t
<1>6. ASSUME NEW k \in 1 .. n, NEW l \in 1 .. n, t[k] = t[l] PROVE k = l
    <2>1. w[k] = w[l]
        BY <1>4, <1>6
    <2>2. k \in B(w[k]) /\ l \in B(w[k])
        BY <2>1
    <2>3. g(w[k])[k] = g(w[k])[l]
        BY <1>4, <1>6, <2>1
    <2>4. \A y, z \in B(w[k]) : g(w[k])[y] = g(w[k])[z] => y = z
        <3>. HIDE DEF A, B
        <3>1. g(w[k]) \in Injection(B(w[k]), A(w[k]))
            BY <1>1, <1>2
        <3>. QED
            BY <3>1 DEF Injection, IsInjective
    <2>. QED
        BY <2>2, <2>3, <2>4
<1>7. Reordena(v, w, t)
    BY <1>1, <1>4, <1>5, <1>6 DEF Reordena, n
<1>. QED
    BY <1>7

\* A list of n values.
LEMMA Lista ==
    ASSUME NEW n \in Nat, NEW v \in [1 .. n -> Int]
    PROVE  v \in Seq(Int) /\ Len(v) = n /\ DOMAIN v = 1 .. n
<1>1. v \in Seq(Int) /\ DOMAIN v = 1 .. n
    OBVIOUS
<1>. QED
    BY <1>1

\* Every value of a task without repetitions goes to the place of its rank.
LEMMA OrdemCerta ==
    ASSUME NEW n \in Nat, NEW v \in [1 .. n -> Int], NEW z \in [1 .. n -> Int],
           \A i, j \in 1 .. n : v[i] = v[j] => i = j
    PROVE  Ordenado(rankSort(v, z)) /\ \E t : Reordena(v, rankSort(v, z), t)
<1>. DEFINE D == 1 .. n
            M(i) == {j \in D : v[i] > v[j]}
            r == [i \in D |-> Rank(v, i)]
            t == [k \in D |-> CHOOSE i \in D : r[i] = k]
            u == rankSort(v, z)
<1>1. DOMAIN v = D /\ IsFiniteSet(D) /\ Cardinality(D) = n /\ \A i \in D : v[i] \in Int
    BY FS_Interval
<1>2. \A i \in D : r[i] = 1 + Cardinality(M(i))
    BY <1>1 DEF Rank
<1>3. \A i \in D : IsFiniteSet(M(i)) /\ Cardinality(M(i)) \in Nat
    <2>. SUFFICES ASSUME NEW i \in D PROVE IsFiniteSet(M(i)) /\ Cardinality(M(i)) \in Nat
        OBVIOUS
    <2>1. M(i) \in SUBSET D
        OBVIOUS
    <2>. QED
        BY <1>1, <2>1, FS_Subset, FS_CardinalityType
<1>. HIDE DEF r
<1>4. ASSUME NEW i \in D, NEW j \in D, v[i] < v[j] PROVE r[i] < r[j]
    <2>1. M(i) \cup {i} \in SUBSET M(j) /\ i \notin M(i)
        BY <1>1, <1>4
    <2>. HIDE DEF M
    <2>2. Cardinality(M(i) \cup {i}) = Cardinality(M(i)) + 1
        BY <1>3, <2>1, FS_AddElement
    <2>3. Cardinality(M(i) \cup {i}) <= Cardinality(M(j))
        BY <1>3, <2>1, FS_Subset
    <2>. QED
        BY <1>2, <1>3, <2>2, <2>3
<1>5. ASSUME NEW i \in D PROVE r[i] \in D
    <2>1. M(i) \cup {i} \in SUBSET D /\ i \notin M(i)
        BY <1>1
    <2>. HIDE DEF M
    <2>2. Cardinality(M(i) \cup {i}) = Cardinality(M(i)) + 1
        BY <1>3, <2>1, FS_AddElement
    <2>3. Cardinality(M(i) \cup {i}) <= n
        BY <1>1, <2>1, FS_Subset
    <2>. QED
        BY <1>2, <1>3, <2>2, <2>3
<1>6. ASSUME NEW i \in D, NEW j \in D, r[i] = r[j] PROVE i = j
    <2>1. r[i] \in Int /\ ~ (v[i] < v[j]) /\ ~ (v[j] < v[i])
        BY <1>4, <1>5, <1>6
    <2>. QED
        BY <1>1, <2>1
<1>7. \A k \in D : \E i \in D : r[i] = k
    <2>1. r \in [D -> D]
        BY <1>5 DEF r
    <2>2. r \in Injection(D, D)
        BY <1>6, <2>1 DEF Injection, IsInjective
    <2>3. r \in Surjection(D, D)
        BY <1>1, <2>2, FS_Injection
    <2>. QED
        BY <2>3 DEF Surjection
<1>8. t \in [D -> D] /\ \A k \in D : t[k] \in D /\ r[t[k]] = k
    BY <1>7
<1>9. u = [k \in D |-> v[t[k]]]
    <2>1. ASSUME NEW k \in D
          PROVE  (IF \E i \in DOMAIN v : Rank(v, i) = k
                  THEN v[CHOOSE i \in DOMAIN v : Rank(v, i) = k] ELSE z[k]) = v[t[k]]
        <3>1. \E i \in D : Rank(v, i) = k
            BY <1>7 DEF r
        <3>2. t[k] = CHOOSE i \in D : Rank(v, i) = k
            <4>1. t[k] = CHOOSE i \in D : r[i] = k
                OBVIOUS
            <4>2. \A i \in D : r[i] = Rank(v, i)
                BY DEF r
            <4>. QED
                BY <4>1, <4>2
        <3>. QED
            BY <1>1, <3>1, <3>2
    <2>. QED
        BY <1>1, <2>1 DEF rankSort
<1>. HIDE DEF t, u
<1>10. \A k \in D : u[k] = v[t[k]] /\ u[k] \in Int
    BY <1>1, <1>8, <1>9
<1>11. u \in [1 .. n -> Int]
    BY <1>9, <1>10
<1>12. u \in Seq(Int) /\ Len(u) = n /\ DOMAIN u = D /\ v \in Seq(Int) /\ Len(v) = n
    BY <1>11, Lista
<1>13. Reordena(v, u, t)
    <2>1. \A i, j \in D : t[i] = t[j] => i = j
        BY <1>8
    <2>. QED
        BY <1>8, <1>10, <1>12, <2>1 DEF Reordena
<1>14. Ordenado(u)
    <2>. SUFFICES ASSUME NEW k \in D, k > 1, ~ (u[k - 1] <= u[k]) PROVE FALSE
        BY <1>12 DEF Ordenado
    <2>1. k - 1 \in D
        OBVIOUS
    <2>2. v[t[k]] < v[t[k - 1]]
        BY <1>10, <2>1
    <2>3. k < k - 1
        <3>1. t[k] \in D /\ t[k - 1] \in D /\ r[t[k]] = k /\ r[t[k - 1]] = k - 1
            BY <1>8, <2>1
        <3>2. r[t[k]] < r[t[k - 1]]
            BY <1>4, <2>2, <3>1
        <3>. QED
            BY <3>1, <3>2
    <2>. QED
        BY <2>3
<1>. QED
    BY <1>13, <1>14 DEF u

-----------------------------------------------------------------------------
(***************************************************************************)
(* The merge.  A round of it, from the state s, and mergeSort as the rec-  *)
(* ursive function of the rounds, which exists.                            *)
(***************************************************************************)
Rodada(a, mid, s) ==
    IF s.ib <= mid /\ (s.im > Len(a) \/ a[s.ib] <= a[s.im])
    THEN [ib |-> s.ib + 1, im |-> s.im, b |-> Append(s.b, a[s.ib])]
    ELSE [ib |-> s.ib, im |-> s.im + 1, b |-> Append(s.b, a[s.im])]

RodadaDe(a, mid, x) == CHOOSE t \in {Rodada(a, mid, s) : s \in {x}} : TRUE

Inicio(mid) == [ib |-> 1, im |-> mid + 1, b |-> <<>>]

LEMMA RodadaUnica == \A a, mid, x : RodadaDe(a, mid, x) = Rodada(a, mid, x)
<1>. SUFFICES ASSUME NEW a, NEW mid, NEW x PROVE RodadaDe(a, mid, x) = Rodada(a, mid, x)
    OBVIOUS
<1>1. {Rodada(a, mid, s) : s \in {x}} = {Rodada(a, mid, x)}
    OBVIOUS
<1>2. (CHOOSE t \in {Rodada(a, mid, x)} : TRUE) \in {Rodada(a, mid, x)}
    OBVIOUS
<1>. QED
    BY <1>1, <1>2 DEF RodadaDe

LEMMA MesclaExiste ==
    ASSUME NEW a, NEW mid, Len(a) \in Nat
    PROVE  \E f : /\ mergeSort(a, mid) = f[Len(a)].b
                  /\ f[0] = Inicio(mid)
                  /\ \A k \in 1 .. Len(a) : f[k] = Rodada(a, mid, f[k - 1])
<1>. DEFINE n == Len(a)
            v == Inicio(mid)
            Ate(k, f) == f = [i \in 0 .. k |-> IF i = 0 THEN v ELSE RodadaDe(a, mid, f[i - 1])]
            P == {k \in 0 .. n : \E f : Ate(k, f)}
<1>1. n \in Nat
    OBVIOUS
<1>2. 0 \in P
    <2>. DEFINE g == [i \in 0 .. 0 |-> v]
    <2>1. Ate(0, g)
        OBVIOUS
    <2>2. \E f : Ate(0, f)
        <3>. HIDE DEF Ate, g
        <3>. QED
            BY <2>1
    <2>. QED
        BY <1>1, <2>2
<1>3. ASSUME NEW k \in 1 .. n, k - 1 \in P PROVE k \in P
    <2>1. PICK h : Ate(k - 1, h)
        BY <1>3
    <2>. DEFINE y == RodadaDe(a, mid, h[k - 1])
                g == [i \in 0 .. k |-> IF i = k THEN y ELSE h[i]]
    <2>2. \A i \in 0 .. k : g[i] = IF i = k THEN y ELSE h[i]
        OBVIOUS
    <2>3. \A i \in 0 .. k - 1 : h[i] = IF i = 0 THEN v ELSE RodadaDe(a, mid, h[i - 1])
        BY <2>1
    <2>4. \A i \in 0 .. k : g[i] = IF i = 0 THEN v ELSE RodadaDe(a, mid, g[i - 1])
        <3>. SUFFICES ASSUME NEW i \in 0 .. k
                      PROVE  g[i] = IF i = 0 THEN v ELSE RodadaDe(a, mid, g[i - 1])
            OBVIOUS
        <3>1. CASE i = k
            <4>1. k # 0 /\ k - 1 \in 0 .. k /\ k - 1 # k
                OBVIOUS
            <4>2. g[k - 1] = h[k - 1]
                BY <2>2, <4>1
            <4>. QED
                BY <2>2, <3>1, <4>1, <4>2
        <3>2. CASE i # k
            <4>1. i \in 0 .. k - 1 /\ (i # 0 => i - 1 \in 0 .. k /\ i - 1 # k)
                BY <3>2
            <4>2. g[i] = h[i] /\ (i # 0 => g[i - 1] = h[i - 1])
                BY <2>2, <3>2, <4>1
            <4>. QED
                BY <2>3, <4>1, <4>2
        <3>. QED
            BY <3>1, <3>2
    <2>5. Ate(k, g)
        BY <2>4
    <2>6. \E f : Ate(k, f)
        <3>. HIDE DEF Ate, g
        <3>. QED
            BY <2>5
    <2>. QED
        BY <1>1, <2>6
<1>4. n \in P
    <2>. HIDE DEF P, n
    <2>1. 0 .. n \subseteq P
        BY <1>1, <1>2, <1>3, Inducao
    <2>. QED
        BY <1>1, <2>1
<1>5. \E f : Ate(n, f)
    BY <1>4
<1>. DEFINE f == CHOOSE g : Ate(n, g)
<1>6. Ate(n, f)
    BY <1>5
<1>7. mergeSort(a, mid) = f[n].b
    BY DEF mergeSort, RodadaDe, Rodada, Inicio
<1>. HIDE DEF f
<1>8. \A i \in 0 .. n : f[i] = IF i = 0 THEN v ELSE RodadaDe(a, mid, f[i - 1])
    BY <1>6
<1>9. f[0] = v /\ \A i \in 1 .. n : f[i] = Rodada(a, mid, f[i - 1])
    <2>1. 0 \in 0 .. n /\ \A i \in 1 .. n : i \in 0 .. n /\ i # 0
        BY <1>1
    <2>. QED
        BY <1>8, <2>1, RodadaUnica
<1>. QED
    BY <1>7, <1>9

\* The list b is sorted and holds the values of a at the indices U, once each.
Tira(a, b, U) ==
    /\ b \in Seq(Int) /\ Ordenado(b)
    /\ \E f \in [1 .. Len(b) -> U] :
          /\ \A i, j \in 1 .. Len(b) : f[i] = f[j] => i = j
          /\ \A i \in 1 .. Len(b) : b[i] = a[f[i]]

LEMMA TiraMais ==
    ASSUME NEW a \in Seq(Int), NEW b, NEW U, Tira(a, b, U), NEW j \in 1 .. Len(a), j \notin U,
           Len(b) > 0 => b[Len(b)] <= a[j]
    PROVE  /\ Tira(a, Append(b, a[j]), U \cup {j})
           /\ Len(Append(b, a[j])) = Len(b) + 1 /\ Append(b, a[j])[Len(b) + 1] = a[j]
<1>. DEFINE n == Len(b)
            c == Append(b, a[j])
<1>1. n \in Nat /\ b \in Seq(Int) /\ a[j] \in Int /\ DOMAIN b = 1 .. n
    BY DEF Tira
<1>2. /\ c \in Seq(Int) /\ Len(c) = n + 1 /\ DOMAIN c = 1 .. n + 1 /\ c[n + 1] = a[j]
      /\ \A i \in 1 .. n : c[i] = b[i]
    BY <1>1
<1>3. PICK f \in [1 .. n -> U] : /\ \A i, k \in 1 .. n : f[i] = f[k] => i = k
                                 /\ \A i \in 1 .. n : b[i] = a[f[i]]
    BY DEF Tira
<1>. HIDE DEF n, c
<1>4. Ordenado(c)
    <2>. SUFFICES ASSUME NEW k \in 1 .. n + 1, k > 1 PROVE c[k - 1] <= c[k]
        BY <1>2 DEF Ordenado
    <2>1. CASE k = n + 1
        <3>1. k - 1 = n /\ n > 0 /\ n \in 1 .. n
            BY <1>1, <2>1
        <3>. QED
            BY <1>2, <2>1, <3>1 DEF n
    <2>2. CASE k # n + 1
        <3>1. k \in 1 .. n /\ k - 1 \in 1 .. n
            BY <1>1, <2>2
        <3>2. b[k - 1] <= b[k]
            BY <1>1, <3>1 DEF Tira, Ordenado
        <3>. QED
            BY <1>2, <3>1, <3>2
    <2>. QED
        BY <2>1, <2>2
<1>. DEFINE g == [i \in 1 .. n + 1 |-> IF i = n + 1 THEN j ELSE f[i]]
<1>5. /\ g[n + 1] = j /\ \A i \in 1 .. n : g[i] = f[i] /\ f[i] \in U
      /\ \A i \in 1 .. n + 1 : i # n + 1 => i \in 1 .. n
      /\ g \in [1 .. n + 1 -> U \cup {j}]
    <2>1. \A i \in 1 .. n + 1 : i # n + 1 => i \in 1 .. n
        BY <1>1
    <2>2. \A i \in 1 .. n : i \in 1 .. n + 1 /\ i # n + 1
        BY <1>1
    <2>3. n + 1 \in 1 .. n + 1
        BY <1>1
    <2>. QED
        BY <2>1, <2>2, <2>3
<1>. HIDE DEF g
<1>6. \A i, k \in 1 .. n + 1 : g[i] = g[k] => i = k
    BY <1>3, <1>5
<1>7. \A i \in 1 .. n + 1 : c[i] = a[g[i]]
    BY <1>2, <1>3, <1>5
<1>8. Tira(a, c, U \cup {j})
    <2>1. \E h \in [1 .. Len(c) -> U \cup {j}] :
             /\ \A i, k \in 1 .. Len(c) : h[i] = h[k] => i = k
             /\ \A i \in 1 .. Len(c) : c[i] = a[h[i]]
        <3>1. Len(c) = n + 1
            BY <1>2
        <3>2. /\ g \in [1 .. Len(c) -> U \cup {j}]
              /\ \A i, k \in 1 .. Len(c) : g[i] = g[k] => i = k
              /\ \A i \in 1 .. Len(c) : c[i] = a[g[i]]
            BY <1>5, <1>6, <1>7, <3>1, Zenon
        <3>. QED
            BY <3>2, Zenon
    <2>. QED
        BY <1>2, <1>4, <2>1, Zenon DEF Tira
<1>. QED
    BY <1>2, <1>8 DEF c, n

\* What has been merged when round k ends.
Usados(mid, s) == 1 .. s.ib - 1 \cup mid + 1 .. s.im - 1

Mesclado(a, mid, s, k) ==
    /\ s.ib \in 1 .. mid + 1 /\ s.im \in mid + 1 .. Len(a) + 1
    /\ (s.ib - 1) + (s.im - (mid + 1)) = k /\ Len(s.b) = k
    /\ Tira(a, s.b, Usados(mid, s))
    /\ k > 0 /\ s.ib <= mid => s.b[k] <= a[s.ib]
    /\ k > 0 /\ s.im <= Len(a) => s.b[k] <= a[s.im]

Metades(a, mid) == \A i \in 1 .. Len(a) : i > 1 /\ i # mid + 1 => a[i - 1] <= a[i]

LEMMA RodadaCerta ==
    ASSUME NEW a \in Seq(Int), NEW mid \in 0 .. Len(a), Metades(a, mid),
           NEW s, NEW l \in Nat, l < Len(a), Mesclado(a, mid, s, l)
    PROVE  Mesclado(a, mid, Rodada(a, mid, s), l + 1)
<1>. DEFINE n == Len(a)
            ib == s.ib
            im == s.im
            b == s.b
            k == l + 1
            U == Usados(mid, s)
            r == Rodada(a, mid, s)
<1>1. n \in Nat /\ mid \in Nat /\ mid <= n /\ \A i \in 1 .. n : a[i] \in Int
    OBVIOUS
<1>2. /\ ib \in 1 .. mid + 1 /\ im \in mid + 1 .. n + 1 /\ (ib - 1) + (im - (mid + 1)) = l
      /\ Len(b) = l /\ Tira(a, b, U)
      /\ l > 0 /\ ib <= mid => b[l] <= a[ib]
      /\ l > 0 /\ im <= n => b[l] <= a[im]
    BY DEF Mesclado
<1>3. r = IF ib <= mid /\ (im > n \/ a[ib] <= a[im])
          THEN [ib |-> ib + 1, im |-> im, b |-> Append(b, a[ib])]
          ELSE [ib |-> ib, im |-> im + 1, b |-> Append(b, a[im])]
    BY DEF Rodada
<1>4. /\ U = 1 .. ib - 1 \cup mid + 1 .. im - 1
      /\ Usados(mid, r) = 1 .. r.ib - 1 \cup mid + 1 .. r.im - 1
    BY DEF Usados
<1>5. /\ l \in Nat /\ l < n /\ \A i \in 1 .. n : i > 1 /\ i # mid + 1 => a[i - 1] <= a[i]
      /\ a \in Seq(Int)
    BY DEF Metades
<1>. HIDE DEF n, ib, im, b, U, r
<1>6. ASSUME NEW j \in 1 .. n, j \notin U, l > 0 => b[l] <= a[j]
      PROVE  /\ Tira(a, Append(b, a[j]), U \cup {j})
             /\ Len(Append(b, a[j])) = k /\ Append(b, a[j])[k] = a[j]
    <2>1. Len(b) > 0 => b[Len(b)] <= a[j]
        BY <1>2, <1>6
    <2>. QED
        <3>1. a \in Seq(Int) /\ Tira(a, b, U) /\ j \in 1 .. Len(a) /\ j \notin U
            BY <1>2, <1>5, <1>6 DEF n
        <3>2. /\ Tira(a, Append(b, a[j]), U \cup {j})
              /\ Len(Append(b, a[j])) = Len(b) + 1 /\ Append(b, a[j])[Len(b) + 1] = a[j]
            BY <2>1, <3>1, TiraMais
        <3>. QED
            BY <1>2, <3>2
<1>7. CASE ib <= mid /\ (im > n \/ a[ib] <= a[im])
    <2>1. r.ib = ib + 1 /\ r.im = im /\ r.b = Append(b, a[ib])
        BY <1>3, <1>7
    <2>2. ib \in 1 .. n /\ ib \notin U /\ Usados(mid, r) = U \cup {ib}
        <3>1. ib \in 1 .. n /\ ib \notin U
            BY <1>1, <1>2, <1>4, <1>7
        <3>2. 1 .. (ib + 1) - 1 = 1 .. ib - 1 \cup {ib}
            BY <1>1, <1>2
        <3>. QED
            BY <1>4, <2>1, <3>1, <3>2
    <2>3. Tira(a, r.b, Usados(mid, r)) /\ Len(r.b) = k /\ r.b[k] = a[ib]
        BY <1>2, <1>6, <1>7, <2>1, <2>2
    <2>4. r.ib <= mid => a[ib] <= a[r.ib]
        <3>1. ib + 1 <= mid => /\ ib + 1 \in 1 .. n /\ ib + 1 > 1 /\ ib + 1 # mid + 1
                               /\ (ib + 1) - 1 = ib
            BY <1>1, <1>2
        <3>. QED
            BY <1>5, <2>1, <3>1
    <2>5. /\ r.ib \in 1 .. mid + 1 /\ r.im \in mid + 1 .. n + 1
          /\ (r.ib - 1) + (r.im - (mid + 1)) = k
        BY <1>1, <1>2, <1>7, <2>1
    <2>6. r.im <= n => a[ib] <= a[r.im]
        BY <1>1, <1>2, <1>7, <2>1
    <2>. QED
        BY <2>3, <2>4, <2>5, <2>6 DEF Mesclado, r, n
<1>8. CASE ~ (ib <= mid /\ (im > n \/ a[ib] <= a[im]))
    <2>1. r.ib = ib /\ r.im = im + 1 /\ r.b = Append(b, a[im])
        BY <1>3, <1>8
    <2>2. im <= n
        BY <1>1, <1>2, <1>5, <1>8
    <2>3. im \in 1 .. n /\ im \notin U /\ Usados(mid, r) = U \cup {im}
        <3>1. im \in 1 .. n /\ im \notin U
            BY <1>1, <1>2, <1>4, <2>2
        <3>2. mid + 1 .. (im + 1) - 1 = mid + 1 .. im - 1 \cup {im}
            BY <1>1, <1>2
        <3>. QED
            BY <1>4, <2>1, <3>1, <3>2
    <2>4. Tira(a, r.b, Usados(mid, r)) /\ Len(r.b) = k /\ r.b[k] = a[im]
        BY <1>2, <1>6, <2>1, <2>2, <2>3
    <2>5. r.im <= n => a[im] <= a[r.im]
        <3>1. im + 1 <= n => /\ im + 1 \in 1 .. n /\ im + 1 > 1 /\ im + 1 # mid + 1
                             /\ (im + 1) - 1 = im
            BY <1>1, <1>2
        <3>. QED
            BY <1>5, <2>1, <3>1
    <2>6. /\ r.ib \in 1 .. mid + 1 /\ r.im \in mid + 1 .. n + 1
          /\ (r.ib - 1) + (r.im - (mid + 1)) = k
        BY <1>1, <1>2, <2>1, <2>2
    <2>7. r.ib <= mid => a[im] <= a[r.ib]
        <3>1. ib <= mid => a[ib] \in Int /\ a[im] \in Int /\ ~ (a[ib] <= a[im])
            BY <1>1, <1>2, <1>8, <2>2, <2>3
        <3>. QED
            BY <2>1, <3>1
    <2>. QED
        BY <2>4, <2>5, <2>6, <2>7 DEF Mesclado, r, n
<1>. QED
    BY <1>7, <1>8

\* Two sorted parts, merged.
LEMMA MesclaCerta ==
    ASSUME NEW a \in Seq(Int), NEW mid \in 0 .. Len(a), Metades(a, mid)
    PROVE  Ordenado(mergeSort(a, mid)) /\ \E t : Reordena(a, mergeSort(a, mid), t)
<1>. DEFINE n == Len(a)
<1>1. n \in Nat /\ mid \in Nat /\ mid <= n
    OBVIOUS
<1>2. PICK f : /\ mergeSort(a, mid) = f[n].b
               /\ f[0] = Inicio(mid)
               /\ \A k \in 1 .. n : f[k] = Rodada(a, mid, f[k - 1])
    <2>1. Len(a) \in Nat
        OBVIOUS
    <2>. QED
        BY <2>1, MesclaExiste
<1>. DEFINE P == {k \in 0 .. n : Mesclado(a, mid, f[k], k)}
<1>3. 0 \in P
    <2>. DEFINE s == f[0]
    <2>1. s.ib = 1 /\ s.im = mid + 1 /\ s.b = <<>>
        BY <1>2 DEF Inicio
    <2>. HIDE DEF s
    <2>2. Tira(a, s.b, Usados(mid, s))
        <3>. DEFINE g == [i \in 1 .. 0 |-> i]
        <3>1. s.b \in Seq(Int) /\ Ordenado(s.b) /\ Len(s.b) = 0
            BY <2>1 DEF Ordenado
        <3>2. g \in [1 .. 0 -> Usados(mid, s)] /\ \A i \in 1 .. 0 : FALSE
            OBVIOUS
        <3>. HIDE DEF g
        <3>. QED
            BY <3>1, <3>2 DEF Tira
    <2>3. Mesclado(a, mid, s, 0)
        BY <1>1, <2>1, <2>2 DEF Mesclado
    <2>. QED
        BY <1>1, <2>3 DEF s
<1>4. ASSUME NEW k \in 1 .. n, k - 1 \in P PROVE k \in P
    <2>. DEFINE l == k - 1
    <2>1. Mesclado(a, mid, f[l], l) /\ f[k] = Rodada(a, mid, f[l])
        BY <1>2, <1>4
    <2>2. l \in Nat /\ l < Len(a) /\ k = l + 1
        BY <1>1
    <2>. HIDE DEF l
    <2>3. Mesclado(a, mid, Rodada(a, mid, f[l]), l + 1)
        BY <2>1, <2>2, RodadaCerta
    <2>. QED
        BY <1>4, <2>1, <2>2, <2>3
<1>5. 0 .. n \subseteq P
    <2>. HIDE DEF P, n
    <2>. QED
        BY <1>1, <1>3, <1>4, Inducao
<1>. DEFINE e == f[n]
<1>6. Mesclado(a, mid, e, n)
    <2>1. n \in 0 .. n
        BY <1>1
    <2>. QED
        BY <1>5, <2>1
<1>. HIDE DEF e
<1>7. /\ e.ib \in 1 .. mid + 1 /\ e.im \in mid + 1 .. n + 1
      /\ (e.ib - 1) + (e.im - (mid + 1)) = n
      /\ Tira(a, e.b, Usados(mid, e)) /\ Len(e.b) = n
    BY <1>6 DEF Mesclado
<1>. HIDE DEF n
<1>8. Usados(mid, e) = 1 .. n
    BY <1>1, <1>7 DEF Usados
<1>9. PICK t \in [1 .. n -> 1 .. n] : /\ \A i, j \in 1 .. n : t[i] = t[j] => i = j
                                      /\ \A i \in 1 .. n : e.b[i] = a[t[i]]
    <2>1. \E t \in [1 .. Len(e.b) -> 1 .. n] :
             /\ \A i, j \in 1 .. Len(e.b) : t[i] = t[j] => i = j
             /\ \A i \in 1 .. Len(e.b) : e.b[i] = a[t[i]]
        BY <1>7, <1>8, Zenon DEF Tira
    <2>2. Len(e.b) = n
        BY <1>7
    <2>. QED
        BY <2>1, <2>2, Zenon
<1>10. Reordena(a, e.b, t)
    BY <1>7, <1>8, <1>9 DEF Reordena, Tira, n
<1>. QED
    BY <1>2, <1>7, <1>10 DEF Tira, e

-----------------------------------------------------------------------------
(***************************************************************************)
(* The messages under way.                                                 *)
(***************************************************************************)
\* Where x occurs in the messages of the channels c: the places of a message
\* from p to q, the k-th of them, and its j-th value.
Lugar(p, q, k, j) == <<<<p, q, k>>, j>>

Chaves(c) == UNION {{<<p, q, k>> : k \in DOMAIN c[p][q]} : p, q \in Processo}

Onde(c, n, x) ==
    {l \in Chaves(c) \X (1 .. n) : c[l[1][1]][l[1][2]][l[1][3]][l[2]] = x}

LEMMA LugarPartes ==
    ASSUME NEW p, NEW q, NEW k, NEW j
    PROVE  /\ Lugar(p, q, k, j)[1][1] = p /\ Lugar(p, q, k, j)[1][2] = q
           /\ Lugar(p, q, k, j)[1][3] = k /\ Lugar(p, q, k, j)[2] = j
BY DEF Lugar

LEMMA LugarUnico ==
    ASSUME NEW p, NEW q, NEW k, NEW j, NEW r, NEW s, NEW m, NEW i,
           Lugar(p, q, k, j) = Lugar(r, s, m, i)
    PROVE  p = r /\ q = s /\ k = m /\ j = i
BY DEF Lugar

LEMMA EmTransitoOnde ==
    /\ \A x : EmTransito(x) = Cardinality(Onde(canal, tasks_size, x))
    /\ \A x : EmTransito(x)' = Cardinality(Onde(canal', tasks_size', x))
<1>1. Mensagens = Chaves(canal) /\ Mensagens' = Chaves(canal')
    BY DEF Mensagens, Chaves, Processo
<1>. QED
    BY <1>1 DEF EmTransito, Onde

LEMMA ChaveMembro ==
    ASSUME NEW c, NEW h
    PROVE  h \in Chaves(c) <=>
              \E p, q \in Processo : \E k \in DOMAIN c[p][q] : h = <<p, q, k>>
<1>. DEFINE M(p, q) == {<<p, q, k>> : k \in DOMAIN c[p][q]}
<1>1. Chaves(c) = UNION {M(p, q) : p, q \in Processo}
    BY DEF Chaves
<1>2. \A p, q : h \in M(p, q) <=> \E k \in DOMAIN c[p][q] : h = <<p, q, k>>
    OBVIOUS
<1>. HIDE DEF M
<1>3. h \in UNION {M(p, q) : p, q \in Processo} <=> \E p, q \in Processo : h \in M(p, q)
    OBVIOUS
<1>. QED
    BY <1>1, <1>2, <1>3

LEMMA OndeMembro ==
    ASSUME NEW c, NEW n, NEW x, NEW l
    PROVE  l \in Onde(c, n, x) <=>
              \E p, q \in Processo : \E k \in DOMAIN c[p][q], j \in 1 .. n :
                  l = Lugar(p, q, k, j) /\ c[p][q][k][j] = x
<1>1. ASSUME l \in Onde(c, n, x)
      PROVE  \E p, q \in Processo : \E k \in DOMAIN c[p][q], j \in 1 .. n :
                 l = Lugar(p, q, k, j) /\ c[p][q][k][j] = x
    <2>1. l \in Chaves(c) \X (1 .. n) /\ c[l[1][1]][l[1][2]][l[1][3]][l[2]] = x
        BY <1>1 DEF Onde
    <2>2. PICK h \in Chaves(c), j \in 1 .. n : l = <<h, j>>
        BY <2>1
    <2>3. PICK p \in Processo, q \in Processo : \E k \in DOMAIN c[p][q] : h = <<p, q, k>>
        BY ChaveMembro
    <2>4. PICK k \in DOMAIN c[p][q] : h = <<p, q, k>>
        BY <2>3
    <2>5. l = Lugar(p, q, k, j)
        BY <2>2, <2>4 DEF Lugar
    <2>6. c[p][q][k][j] = x
        BY <2>1, <2>5, LugarPartes
    <2>. QED
        BY <2>5, <2>6
<1>2. ASSUME NEW p \in Processo, NEW q \in Processo, NEW k \in DOMAIN c[p][q], NEW j \in 1 .. n,
             l = Lugar(p, q, k, j), c[p][q][k][j] = x
      PROVE  l \in Onde(c, n, x)
    <2>1. <<p, q, k>> \in Chaves(c)
        BY ChaveMembro
    <2>2. l \in Chaves(c) \X (1 .. n)
        BY <1>2, <2>1 DEF Lugar
    <2>3. c[l[1][1]][l[1][2]][l[1][3]][l[2]] = x
        BY <1>2, LugarPartes
    <2>. QED
        BY <2>2, <2>3 DEF Onde
<1>. QED
    BY <1>1, <1>2

\* The places of the message m, at k in its channel, that hold x.
Nela(p, q, k, m, n, x) == {Lugar(p, q, k, j) : j \in {i \in 1 .. n : m[i] = x}}

LEMMA NelaConta ==
    ASSUME NEW p, NEW q, NEW k, NEW n \in Nat, NEW m \in [1 .. n -> Int], NEW x
    PROVE  /\ IsFiniteSet(Nela(p, q, k, m, n, x))
           /\ Cardinality(Nela(p, q, k, m, n, x)) = Vezes(x, m)
<1>. DEFINE A == {i \in 1 .. n : m[i] = x}
            N == {Lugar(p, q, k, j) : j \in A}
            f == [j \in A |-> Lugar(p, q, k, j)]
<1>1. A \in SUBSET (1 .. n) /\ DOMAIN m = 1 .. n
    OBVIOUS
<1>2. IsFiniteSet(A) /\ Cardinality(A) = Vezes(x, m)
    <2>1. IsFiniteSet(A)
        <3>1. IsFiniteSet(1 .. n)
            BY FS_Interval
        <3>. HIDE DEF A
        <3>. QED
            BY <1>1, <3>1, FS_Subset
    <2>. QED
        BY <1>1, <2>1 DEF Vezes
<1>. HIDE DEF A
<1>3. /\ f \in [A -> N] /\ \A i, j \in A : f[i] = f[j] => i = j
      /\ \A l \in N : \E j \in A : f[j] = l
    BY LugarPartes
<1>. HIDE DEF f, N
<1>4. f \in Injection(A, N) /\ f \in Surjection(A, N)
    BY <1>3 DEF Injection, IsInjective, Surjection
<1>5. IsFiniteSet(N) /\ Cardinality(N) = Cardinality(A)
    BY <1>2, <1>4, FS_Surjection
<1>. QED
    BY <1>2, <1>5 DEF Nela, N, A

LEMMA OndeMais ==
    ASSUME NEW c \in Canais, NEW d, NEW p \in Processo, NEW q \in Processo, NEW m \in Bloco,
           Mais(c, d, p, q, m), tasks_size \in Nat, NEW x,
           IsFiniteSet(Onde(c, tasks_size, x))
    PROVE  /\ IsFiniteSet(Onde(d, tasks_size, x))
           /\ Cardinality(Onde(d, tasks_size, x)) =
                 Cardinality(Onde(c, tasks_size, x)) + Vezes(x, m)
<1>. DEFINE n == tasks_size
            k == Len(c[p][q]) + 1
            C == Onde(c, n, x)
            D == Onde(d, n, x)
            N == Nela(p, q, k, m, n, x)
<1>1. /\ n \in Nat /\ m \in [1 .. n -> Int]
      /\ \A y, z \in Processo : d[y][z] = IF y = p /\ z = q THEN Append(c[p][q], m) ELSE c[y][z]
    BY DEF Mais, Bloco
<1>2. /\ c[p][q] \in Seq(Bloco) /\ k \in Nat /\ DOMAIN c[p][q] = 1 .. k - 1
      /\ DOMAIN Append(c[p][q], m) = 1 .. k /\ Append(c[p][q], m)[k] = m
      /\ \A i \in 1 .. k - 1 : Append(c[p][q], m)[i] = c[p][q][i]
    <2>1. c[p][q] \in Seq(Bloco)
        BY DEF Canais
    <2>. QED
        BY <2>1
<1>. HIDE DEF n, k
<1>3. /\ DOMAIN d[p][q] = 1 .. k /\ d[p][q][k] = m /\ k \notin DOMAIN c[p][q]
      /\ \A i \in 1 .. k : i # k => i \in DOMAIN c[p][q]
      /\ \A i \in DOMAIN c[p][q] : i \in 1 .. k /\ d[p][q][i] = c[p][q][i]
      /\ k \in 1 .. k
    <2>1. k >= 1 /\ k \in 1 .. k /\ k \notin 1 .. k - 1
        BY <1>2 DEF k
    <2>2. d[p][q] = Append(c[p][q], m)
        BY <1>1
    <2>3. \A i \in 1 .. k : i # k => i \in 1 .. k - 1
        BY <1>2
    <2>4. \A i \in 1 .. k - 1 : i \in 1 .. k
        BY <1>2
    <2>. QED
        BY <1>2, <2>1, <2>2, <2>3, <2>4
<1>4. ASSUME NEW l \in D PROVE l \in C \cup N
    <2>1. PICK y \in Processo, z \in Processo : \E i \in DOMAIN d[y][z], j \in 1 .. n :
             l = Lugar(y, z, i, j) /\ d[y][z][i][j] = x
        BY OndeMembro
    <2>2. PICK i \in DOMAIN d[y][z], j \in 1 .. n : l = Lugar(y, z, i, j) /\ d[y][z][i][j] = x
        BY <2>1
    <2>3. CASE y = p /\ z = q /\ i = k
        BY <1>3, <2>2, <2>3 DEF Nela
    <2>4. CASE ~ (y = p /\ z = q /\ i = k)
        <3>1. i \in DOMAIN c[y][z] /\ c[y][z][i] = d[y][z][i]
            BY <1>1, <1>3, <2>4
        <3>2. l \in C
            BY <2>2, <3>1, OndeMembro
        <3>. QED
            BY <3>2
    <2>. QED
        BY <2>3, <2>4
<1>5. ASSUME NEW l \in C PROVE l \in D /\ l \notin N
    <2>1. PICK y \in Processo, z \in Processo : \E i \in DOMAIN c[y][z], j \in 1 .. n :
             l = Lugar(y, z, i, j) /\ c[y][z][i][j] = x
        BY OndeMembro
    <2>2. PICK i \in DOMAIN c[y][z], j \in 1 .. n : l = Lugar(y, z, i, j) /\ c[y][z][i][j] = x
        BY <2>1
    <2>3. i \in DOMAIN d[y][z] /\ d[y][z][i] = c[y][z][i]
        BY <1>1, <1>3
    <2>4. l \in D
        BY <2>2, <2>3, OndeMembro
    <2>5. ASSUME l \in N PROVE FALSE
        <3>1. PICK h : l = Lugar(p, q, k, h)
            BY <2>5 DEF Nela
        <3>2. y = p /\ z = q /\ i = k
            <4>1. Lugar(y, z, i, j) = Lugar(p, q, k, h)
                BY <2>2, <3>1
            <4>. QED
                BY <4>1, LugarUnico
        <3>. QED
            BY <1>3, <3>2
    <2>. QED
        BY <2>4, <2>5
<1>6. ASSUME NEW l \in N PROVE l \in D
    <2>1. PICK j \in 1 .. n : l = Lugar(p, q, k, j) /\ m[j] = x
        BY DEF Nela
    <2>2. k \in DOMAIN d[p][q] /\ d[p][q][k][j] = x
        BY <1>3, <2>1
    <2>. QED
        BY <2>1, <2>2, OndeMembro
<1>. HIDE DEF C, D, N
<1>7. D = C \cup N /\ C \cap N = {}
    BY <1>4, <1>5, <1>6
<1>8. IsFiniteSet(N) /\ Cardinality(N) = Vezes(x, m)
    BY <1>1, NelaConta DEF N
<1>9. IsFiniteSet(C) /\ Cardinality(C) \in Nat /\ Cardinality(N) \in Nat
    <2>1. IsFiniteSet(C)
        BY DEF C, n
    <2>. QED
        BY <1>8, <2>1, FS_CardinalityType
<1>10. IsFiniteSet(D) /\ Cardinality(D) = Cardinality(C) + Cardinality(N)
    <2>1. IsFiniteSet(C \cup N)
          /\ Cardinality(C \cup N) = Cardinality(C) + Cardinality(N) - Cardinality(C \cap N)
        BY <1>8, <1>9, FS_Union
    <2>2. Cardinality(C \cap N) = 0
        BY <1>7, FS_EmptySet
    <2>. QED
        BY <1>7, <1>9, <2>1, <2>2
<1>. QED
    BY <1>8, <1>10 DEF C, D, n

LEMMA OndeMenos ==
    ASSUME NEW c \in Canais, NEW d, NEW p \in Processo, NEW q \in Processo, c[p][q] # <<>>,
           Menos(c, d, p, q), tasks_size \in Nat, NEW x,
           IsFiniteSet(Onde(c, tasks_size, x))
    PROVE  /\ Head(c[p][q]) \in Bloco /\ IsFiniteSet(Onde(d, tasks_size, x))
           /\ Cardinality(Onde(c, tasks_size, x)) =
                 Cardinality(Onde(d, tasks_size, x)) + Vezes(x, Head(c[p][q]))
<1>. DEFINE n == tasks_size
            k == Len(c[p][q])
            m == Head(c[p][q])
            C == Onde(c, n, x)
            D == Onde(d, n, x)
            N == Nela(p, q, 1, m, n, x)
            S(l) == IF l[1][1] = p /\ l[1][2] = q THEN Lugar(p, q, l[1][3] + 1, l[2]) ELSE l
            f == [l \in D |-> S(l)]
<1>1. /\ n \in Nat
      /\ \A y, z \in Processo : d[y][z] = IF y = p /\ z = q THEN Tail(c[p][q]) ELSE c[y][z]
    BY DEF Menos
<1>2. /\ k \in Nat /\ k >= 1 /\ DOMAIN c[p][q] = 1 .. k /\ m \in Bloco /\ c[p][q][1] = m
      /\ DOMAIN Tail(c[p][q]) = 1 .. k - 1
      /\ \A i \in 1 .. k - 1 : Tail(c[p][q])[i] = c[p][q][i + 1]
    <2>1. c[p][q] \in Seq(Bloco) /\ c[p][q] # <<>>
        BY DEF Canais
    <2>. QED
        BY <2>1
<1>3. m \in [1 .. n -> Int]
    BY <1>2 DEF Bloco
<1>. HIDE DEF n, k, m
<1>4. /\ 1 \in DOMAIN c[p][q]
      /\ \A i \in DOMAIN c[p][q] : i # 1 => i - 1 \in DOMAIN d[p][q] /\ (i - 1) + 1 = i
      /\ \A i \in DOMAIN d[p][q] : /\ i + 1 \in DOMAIN c[p][q] /\ i + 1 # 1
                                   /\ d[p][q][i] = c[p][q][i + 1]
      /\ \A i \in DOMAIN d[p][q] : i \in Int
    <2>1. d[p][q] = Tail(c[p][q])
        BY <1>1
    <2>2. 1 \in 1 .. k /\ \A i \in 1 .. k : i # 1 => i - 1 \in 1 .. k - 1 /\ (i - 1) + 1 = i
        BY <1>2
    <2>3. \A i \in 1 .. k - 1 : i + 1 \in 1 .. k /\ i + 1 # 1 /\ i \in Int
        BY <1>2
    <2>. QED
        BY <1>2, <2>1, <2>2, <2>3
<1>5. ASSUME NEW l \in D
      PROVE  \E y, z \in Processo : \E i \in DOMAIN d[y][z], j \in 1 .. n :
                 /\ l = Lugar(y, z, i, j) /\ d[y][z][i][j] = x
                 /\ S(l) = IF y = p /\ z = q THEN Lugar(p, q, i + 1, j) ELSE l
    <2>1. PICK y \in Processo, z \in Processo : \E i \in DOMAIN d[y][z], j \in 1 .. n :
             l = Lugar(y, z, i, j) /\ d[y][z][i][j] = x
        BY OndeMembro
    <2>2. PICK i \in DOMAIN d[y][z], j \in 1 .. n : l = Lugar(y, z, i, j) /\ d[y][z][i][j] = x
        BY <2>1
    <2>3. S(l) = IF y = p /\ z = q THEN Lugar(p, q, i + 1, j) ELSE l
        BY <2>2, LugarPartes
    <2>. QED
        BY <2>2, <2>3
<1>6. ASSUME NEW l \in D PROVE S(l) \in C \ N
    <2>1. PICK y \in Processo, z \in Processo : \E i \in DOMAIN d[y][z], j \in 1 .. n :
              /\ l = Lugar(y, z, i, j) /\ d[y][z][i][j] = x
              /\ S(l) = IF y = p /\ z = q THEN Lugar(p, q, i + 1, j) ELSE l
        BY <1>5
    <2>2. PICK i \in DOMAIN d[y][z], j \in 1 .. n :
              /\ l = Lugar(y, z, i, j) /\ d[y][z][i][j] = x
              /\ S(l) = IF y = p /\ z = q THEN Lugar(p, q, i + 1, j) ELSE l
        BY <2>1
    <2>. HIDE DEF S
    <2>3. CASE y = p /\ z = q
        <3>1. S(l) = Lugar(p, q, i + 1, j) /\ i + 1 \in DOMAIN c[p][q] /\ c[p][q][i + 1][j] = x
            BY <1>4, <2>2, <2>3
        <3>2. S(l) \in C
            BY <3>1, OndeMembro
        <3>3. ASSUME S(l) \in N PROVE FALSE
            <4>1. PICK h : S(l) = Lugar(p, q, 1, h)
                BY <3>3 DEF Nela
            <4>2. i + 1 = 1
                BY <3>1, <4>1, LugarUnico
            <4>. QED
                BY <1>4, <2>3, <4>2
        <3>. QED
            BY <3>2, <3>3
    <2>4. CASE ~ (y = p /\ z = q)
        <3>1. S(l) = Lugar(y, z, i, j) /\ i \in DOMAIN c[y][z] /\ c[y][z][i][j] = x
            BY <1>1, <2>2, <2>4
        <3>2. S(l) \in C
            BY <3>1, OndeMembro
        <3>3. ASSUME S(l) \in N PROVE FALSE
            <4>1. PICK h : S(l) = Lugar(p, q, 1, h)
                BY <3>3 DEF Nela
            <4>2. Lugar(y, z, i, j) = Lugar(p, q, 1, h)
                BY <3>1, <4>1
            <4>3. y = p /\ z = q
                BY <4>2, LugarUnico
            <4>. QED
                BY <2>4, <4>3
        <3>. QED
            BY <3>2, <3>3
    <2>. QED
        BY <2>3, <2>4
<1>7. ASSUME NEW l \in D, NEW h \in D, S(l) = S(h) PROVE l = h
    <2>1. PICK y \in Processo, z \in Processo : \E i \in DOMAIN d[y][z], j \in 1 .. n :
              /\ l = Lugar(y, z, i, j) /\ d[y][z][i][j] = x
              /\ S(l) = IF y = p /\ z = q THEN Lugar(p, q, i + 1, j) ELSE l
        BY <1>5
    <2>2. PICK i \in DOMAIN d[y][z], j \in 1 .. n :
              /\ l = Lugar(y, z, i, j) /\ d[y][z][i][j] = x
              /\ S(l) = IF y = p /\ z = q THEN Lugar(p, q, i + 1, j) ELSE l
        BY <2>1
    <2>3. PICK u \in Processo, v \in Processo : \E a \in DOMAIN d[u][v], b \in 1 .. n :
              /\ h = Lugar(u, v, a, b) /\ d[u][v][a][b] = x
              /\ S(h) = IF u = p /\ v = q THEN Lugar(p, q, a + 1, b) ELSE h
        BY <1>5
    <2>4. PICK a \in DOMAIN d[u][v], b \in 1 .. n :
              /\ h = Lugar(u, v, a, b) /\ d[u][v][a][b] = x
              /\ S(h) = IF u = p /\ v = q THEN Lugar(p, q, a + 1, b) ELSE h
        BY <2>3
    <2>5. S(l) = S(h)
        BY <1>7
    <2>. HIDE DEF S
    <2>6. CASE (y = p /\ z = q) /\ (u = p /\ v = q)
        <3>1. Lugar(p, q, i + 1, j) = Lugar(p, q, a + 1, b)
            BY <2>2, <2>4, <2>5, <2>6
        <3>2. i + 1 = a + 1 /\ j = b
            BY <3>1, LugarUnico
        <3>3. i \in Int /\ a \in Int
            BY <1>4, <2>6
        <3>4. i = a
            BY <3>2, <3>3
        <3>. QED
            BY <2>2, <2>4, <2>6, <3>2, <3>4
    <2>7. CASE (y = p /\ z = q) /\ ~ (u = p /\ v = q)
        <3>1. Lugar(p, q, i + 1, j) = Lugar(u, v, a, b)
            BY <2>2, <2>4, <2>5, <2>7
        <3>. QED
            BY <2>7, <3>1, LugarUnico
    <2>8. CASE ~ (y = p /\ z = q) /\ (u = p /\ v = q)
        <3>1. Lugar(y, z, i, j) = Lugar(p, q, a + 1, b)
            BY <2>2, <2>4, <2>5, <2>8
        <3>. QED
            BY <2>8, <3>1, LugarUnico
    <2>9. CASE ~ (y = p /\ z = q) /\ ~ (u = p /\ v = q)
        BY <2>2, <2>4, <2>5, <2>9
    <2>. QED
        BY <2>6, <2>7, <2>8, <2>9
<1>8. ASSUME NEW h \in C \ N PROVE \E l \in D : S(l) = h
    <2>1. PICK y \in Processo, z \in Processo : \E i \in DOMAIN c[y][z], j \in 1 .. n :
             h = Lugar(y, z, i, j) /\ c[y][z][i][j] = x
        BY OndeMembro
    <2>2. PICK i \in DOMAIN c[y][z], j \in 1 .. n : h = Lugar(y, z, i, j) /\ c[y][z][i][j] = x
        BY <2>1
    <2>3. CASE y = p /\ z = q
        <3>1. i # 1
            <4>. SUFFICES ASSUME i = 1 PROVE h \in N
                OBVIOUS
            <4>1. h = Lugar(p, q, 1, j) /\ m[j] = x
                BY <1>2, <2>2, <2>3
            <4>. QED
                BY <4>1 DEF Nela
        <3>2. i - 1 \in DOMAIN d[p][q] /\ (i - 1) + 1 = i
            BY <1>4, <2>3, <3>1
        <3>3. d[p][q][i - 1][j] = x
            BY <1>4, <2>2, <2>3, <3>2
        <3>4. Lugar(p, q, i - 1, j) \in D
            BY <3>2, <3>3, OndeMembro
        <3>5. S(Lugar(p, q, i - 1, j)) = h
            BY <2>2, <2>3, <3>2, LugarPartes
        <3>. HIDE DEF S, D
        <3>. QED
            BY <3>4, <3>5
    <2>4. CASE ~ (y = p /\ z = q)
        <3>1. h \in D
            <4>1. i \in DOMAIN d[y][z] /\ d[y][z][i][j] = x
                BY <1>1, <2>2, <2>4
            <4>. QED
                BY <2>2, <4>1, OndeMembro
        <3>2. S(h) = h
            BY <2>2, <2>4, LugarPartes
        <3>. HIDE DEF S, D
        <3>. QED
            BY <3>1, <3>2
    <2>. QED
        BY <2>3, <2>4
<1>9. ASSUME NEW l \in N PROVE l \in C
    <2>1. PICK j \in 1 .. n : l = Lugar(p, q, 1, j) /\ m[j] = x
        BY DEF Nela
    <2>2. 1 \in DOMAIN c[p][q] /\ c[p][q][1][j] = x
        BY <1>2, <1>4, <2>1
    <2>. QED
        BY <2>1, <2>2, OndeMembro
<1>10. IsFiniteSet(N) /\ Cardinality(N) = Vezes(x, m)
    BY <1>1, <1>3, NelaConta
<1>11. IsFiniteSet(C)
    BY DEF n
<1>. HIDE DEF C, D, N, S
<1>12. f \in Injection(D, C \ N) /\ f \in Surjection(D, C \ N)
    <2>1. f \in [D -> C \ N] /\ \A l \in D : f[l] = S(l)
        BY <1>6
    <2>. HIDE DEF f
    <2>2. \A l, h \in D : f[l] = f[h] => l = h
        BY <1>7, <2>1
    <2>3. \A h \in C \ N : \E l \in D : f[l] = h
        BY <1>8, <2>1
    <2>. QED
        BY <2>1, <2>2, <2>3 DEF Injection, IsInjective, Surjection
<1>. HIDE DEF f
<1>13. IsFiniteSet(C \ N)
    <2>1. C \ N \in SUBSET C
        OBVIOUS
    <2>. QED
        BY <1>11, <2>1, FS_Subset
<1>14. IsFiniteSet(D) /\ Cardinality(D) = Cardinality(C \ N)
    BY <1>12, <1>13, FS_Injection
<1>15. Cardinality(C) = Cardinality(C \ N) + Cardinality(N)
    <2>. DEFINE X == C \ N
    <2>1. X \cup N = C /\ X \cap N = {}
        BY <1>9
    <2>. HIDE DEF X
    <2>2. IsFiniteSet(X) /\ IsFiniteSet(N)
        BY <1>10, <1>13 DEF X
    <2>3. Cardinality(X \cup N) = Cardinality(X) + Cardinality(N) - Cardinality(X \cap N)
        BY <2>2, FS_Union
    <2>4. Cardinality(X \cap N) = 0 /\ Cardinality(X) \in Nat /\ Cardinality(N) \in Nat
        BY <2>1, <2>2, FS_EmptySet, FS_CardinalityType
    <2>5. Cardinality(C) = Cardinality(X) + Cardinality(N)
        <3>1. Cardinality(C) = Cardinality(X \cup N)
            BY <2>1, Zenon
        <3>2. Cardinality(C) = Cardinality(X) + Cardinality(N) - 0
            BY <2>3, <2>4, <3>1, Zenon
        <3>. QED
            BY <2>4, <3>2
    <2>. QED
        BY <2>5 DEF X
<1>. QED
    BY <1>2, <1>10, <1>14, <1>15 DEF C, D, m, n

-----------------------------------------------------------------------------
(***************************************************************************)
(* No value is lost and none is found: the values of the input are those   *)
(* of the tasks not sent, of the messages and of the merged part.          *)
(***************************************************************************)
SemRepeticao(v) == \A i, j \in DOMAIN v : v[i] = v[j] => i = j

\* The tasks out can be sorted, and the results out are.
Certas(c) ==
    /\ \A s \in Escravo : \A k \in DOMAIN c[MASTER][s] : SemRepeticao(c[MASTER][s][k])
    /\ \A s \in Escravo : \A k \in DOMAIN c[s][MASTER] : Ordenado(c[s][MASTER][k])

\* What is left of the input e, in tasks of size z, after n of them.
Falta(e, z, n) == SubSeq(e, n * z + 1, Len(e))

Total(e, z, c, n, v, x) == Vezes(x, Falta(e, z, n)) + Cardinality(Onde(c, z, x)) + Vezes(x, v)

\* No value is there more often than in the input, nor, when no slave leaves
\* with a task, less often.
Contadas(e, z, c, n, v, certo) ==
    \A x \in Int :
        /\ IsFiniteSet(Onde(c, z, x))
        /\ Total(e, z, c, n, v, x) <= Vezes(x, e)
        /\ certo => Total(e, z, c, n, v, x) = Vezes(x, e)

Recebidas ==
    /\ vector_sort \in Seq(Int) /\ tasks_received \in Nat /\ tasks_sent <= tasks
    /\ Len(vector_sort) = tasks_received * tasks_size
    /\ tasks_to_receive = tasks_sent - tasks_received
    /\ pc[MASTER] = "coletar" => tasks_to_receive > 0

Origens ==
    /\ pc[MASTER] \in {"distribuir", "coletar"} =>
          /\ Ordenado(vector_sort) /\ Certas(canal)
          /\ Contadas(entrada, tasks_size, canal, tasks_sent, vector_sort, Naturais)
    /\ pc[MASTER] \in {"parar", "imprimir"} => vector_sort = EmOrdem(entrada)
    /\ pc[MASTER] # "fim" => saida = <<>>

Intacto == IInv /\ (Distintos => Recebidas /\ Origens)

LEMMA Quociente ==
    ASSUME NEW z \in Nat, z > 0, NEW n \in Nat, NEW r \in 0 .. z - 1
    PROVE  (n * z + r) \div z = n
<1>. DEFINE a == n * z + r
            q == a \div z
<1>1. n * z \in Nat /\ a \in Nat
    OBVIOUS
<1>2. a = z * q + (a % z) /\ q \in Int /\ a % z \in 0 .. z - 1
    <2>. HIDE DEF a
    <2>. QED
        BY <1>1
<1>. HIDE DEF q
<1>3. ~ (q <= n - 1)
    <2>. SUFFICES ASSUME q <= n - 1 PROVE FALSE
        OBVIOUS
    <2>1. (n - 1) - q \in Nat /\ ((n - 1) - q) * z \in Nat
        BY <1>2
    <2>2. ((n - 1) - q) * z = n * z - z - z * q
        BY <1>2
    <2>3. z * q \in Int
        BY <1>2
    <2>4. z * q <= n * z - z
        BY <1>1, <2>1, <2>2, <2>3
    <2>. QED
        BY <1>1, <1>2, <2>3, <2>4
<1>4. ~ (q >= n + 1)
    <2>. SUFFICES ASSUME q >= n + 1 PROVE FALSE
        OBVIOUS
    <2>1. q - (n + 1) \in Nat /\ (q - (n + 1)) * z \in Nat
        BY <1>2
    <2>2. (q - (n + 1)) * z = z * q - n * z - z
        BY <1>2
    <2>3. z * q \in Int
        BY <1>2
    <2>4. z * q >= n * z + z
        BY <1>1, <2>1, <2>2, <2>3
    <2>. QED
        BY <1>1, <1>2, <2>3, <2>4
<1>. QED
    BY <1>2, <1>3, <1>4 DEF q

LEMMA Emenda ==
    ASSUME NEW v \in Seq(Int), NEW w \in Seq(Int)
    PROVE  /\ v \o w \in Seq(Int) /\ Len(v \o w) = Len(v) + Len(w)
           /\ \A i \in 1 .. Len(v) + Len(w) :
                 (v \o w)[i] = IF i <= Len(v) THEN v[i] ELSE w[i - Len(v)]
OBVIOUS

LEMMA Iguais ==
    ASSUME NEW v \in Seq(Int), NEW w \in Seq(Int), Len(v) = Len(w),
           \A i \in 1 .. Len(v) : v[i] = w[i]
    PROVE  v = w
<1>1. v = [i \in 1 .. Len(v) |-> v[i]] /\ w = [i \in 1 .. Len(w) |-> w[i]]
    OBVIOUS
<1>2. [i \in 1 .. Len(v) |-> v[i]] = [i \in 1 .. Len(w) |-> w[i]]
    OBVIOUS
<1>. QED
    BY <1>1, <1>2

\* Task n, and what is left after it.
LEMMA TarefaPartes ==
    ASSUME entrada \in Entradas, NEW n \in Nat, n < tasks
    PROVE  /\ Tarefa(n) \in Seq(Int) /\ Falta(entrada, tasks_size, n + 1) \in Seq(Int)
           /\ Falta(entrada, tasks_size, n) =
                 Tarefa(n) \o Falta(entrada, tasks_size, n + 1)
           /\ Distintos => SemRepeticao(Tarefa(n))
<1>. DEFINE z == tasks_size
            e == entrada
            N == Len(e)
            a == n * z
            b == (n + 1) * z
<1>1. /\ e \in Seq(Int) /\ z \in Nat \ {0} /\ N = tasks * z /\ tasks \in Nat /\ N \in Nat
    BY Tamanho, Numeros
<1>2. a \in Nat /\ b \in Nat /\ b = a + z /\ b <= N
    <2>1. b = a + z /\ a \in Nat
        BY <1>1
    <2>2. tasks - (n + 1) \in Nat /\ (tasks - (n + 1)) * z \in Nat
        BY <1>1
    <2>3. tasks * z = b + (tasks - (n + 1)) * z
        BY <1>1
    <2>. QED
        BY <2>1, <2>2, <2>3, <1>1
<1>3. Tarefa(n) = SubSeq(e, a + 1, b) /\ Falta(e, z, n) = SubSeq(e, a + 1, N)
      /\ Falta(e, z, n + 1) = SubSeq(e, b + 1, N)
    BY DEF Tarefa, Falta
<1>. HIDE DEF z, e, N, a, b
<1>4. /\ SubSeq(e, a + 1, b) \in Seq(Int) /\ SubSeq(e, b + 1, N) \in Seq(Int)
      /\ Len(SubSeq(e, a + 1, b)) = z /\ Len(SubSeq(e, b + 1, N)) = N - b
      /\ Len(SubSeq(e, a + 1, N)) = N - a /\ SubSeq(e, a + 1, N) \in Seq(Int)
      /\ \A i \in 1 .. z : SubSeq(e, a + 1, b)[i] = e[a + i]
      /\ \A i \in 1 .. N - b : SubSeq(e, b + 1, N)[i] = e[b + i]
      /\ \A i \in 1 .. N - a : SubSeq(e, a + 1, N)[i] = e[a + i]
    BY <1>1, <1>2 DEF N
<1>5. SubSeq(e, a + 1, N) = SubSeq(e, a + 1, b) \o SubSeq(e, b + 1, N)
    <2>. DEFINE v == SubSeq(e, a + 1, b)
                w == SubSeq(e, b + 1, N)
                u == SubSeq(e, a + 1, N)
    <2>1. /\ v \in Seq(Int) /\ w \in Seq(Int) /\ u \in Seq(Int) /\ Len(v) = z /\ Len(w) = N - b
          /\ Len(u) = N - a
          /\ \A i \in 1 .. z : v[i] = e[a + i]
          /\ \A i \in 1 .. N - b : w[i] = e[b + i]
          /\ \A i \in 1 .. N - a : u[i] = e[a + i]
        BY <1>4
    <2>. HIDE DEF v, w, u
    <2>2. /\ v \o w \in Seq(Int) /\ Len(v \o w) = Len(v) + Len(w)
          /\ \A i \in 1 .. Len(v) + Len(w) :
                (v \o w)[i] = IF i <= Len(v) THEN v[i] ELSE w[i - Len(v)]
        BY <2>1, Emenda
    <2>3. Len(v \o w) = N - a /\ Len(v) + Len(w) = N - a
        BY <1>1, <1>2, <2>1, <2>2
    <2>4. ASSUME NEW i \in 1 .. N - a PROVE (v \o w)[i] = u[i]
        <3>1. u[i] = e[a + i] /\ (v \o w)[i] = IF i <= z THEN v[i] ELSE w[i - z]
            BY <2>1, <2>2, <2>3
        <3>2. CASE i <= z
            <4>1. i \in 1 .. z
                BY <1>1, <1>2, <3>2
            <4>. QED
                BY <2>1, <3>1, <3>2, <4>1
        <3>3. CASE ~ (i <= z)
            <4>1. i - z \in 1 .. N - b /\ b + (i - z) = a + i
                BY <1>1, <1>2, <3>3
            <4>. QED
                BY <2>1, <3>1, <3>3, <4>1
        <3>. QED
            BY <3>2, <3>3
    <2>5. v \o w = u
        <3>1. Len(v \o w) = Len(u) /\ \A i \in 1 .. Len(v \o w) : (v \o w)[i] = u[i]
            BY <2>1, <2>3, <2>4
        <3>. QED
            BY <2>1, <2>2, <3>1, Iguais
    <2>. QED
        BY <2>5 DEF u, v, w
<1>6. ASSUME Distintos PROVE SemRepeticao(SubSeq(e, a + 1, b))
    <2>. DEFINE v == SubSeq(e, a + 1, b)
    <2>1. DOMAIN v = 1 .. z /\ \A i \in 1 .. z : v[i] = e[a + i]
        BY <1>4
    <2>. HIDE DEF v
    <2>. SUFFICES ASSUME NEW i \in 1 .. z, NEW j \in 1 .. z, v[i] = v[j], i # j PROVE FALSE
        BY <2>1 DEF SemRepeticao, v
    <2>2. ASSUME NEW k \in 1 .. z
          PROVE  /\ a + k \in DOMAIN entrada /\ ((a + k) - 1) \div tasks_size = n
        <3>1. a + k \in 1 .. N
            BY <1>1, <1>2
        <3>2. z \in Nat /\ z > 0 /\ k - 1 \in 0 .. z - 1 /\ (a + k) - 1 = n * z + (k - 1)
            BY <1>1, <1>2 DEF a
        <3>3. (n * z + (k - 1)) \div z = n
            BY <3>2, Quociente
        <3>. QED
            <4>1. DOMAIN e = 1 .. N
                BY <1>1 DEF N
            <4>. QED
                BY <3>1, <3>2, <3>3, <4>1 DEF e, z
    <2>3. a + i # a + j
        BY <1>2
    <2>4. entrada[a + i] # entrada[a + j]
        BY <1>6, <2>2, <2>3 DEF Distintos
    <2>. QED
        BY <2>1, <2>4 DEF e
<1>. QED
    BY <1>3, <1>4, <1>5, <1>6 DEF z, e

LEMMA BlocoLista ==
    ASSUME entrada \in Entradas, NEW m \in Bloco
    PROVE  m \in Seq(Int) /\ Len(m) = tasks_size /\ DOMAIN m = 1 .. tasks_size
BY Tamanho, Lista DEF Bloco

\* At the start all is left, and after the last task nothing is.
LEMMA FaltaPontas ==
    ASSUME entrada \in Entradas
    PROVE  /\ Falta(entrada, tasks_size, 0) = entrada
           /\ \A n \in Nat : n <= tasks => Falta(entrada, tasks_size, n) \in Seq(Int)
<1>1. /\ entrada \in Seq(Int) /\ tasks_size \in Nat \ {0} /\ tasks \in Nat
    BY Tamanho, Numeros
<1>2. 0 * tasks_size + 1 = 1
    BY <1>1
<1>3. SubSeq(entrada, 1, Len(entrada)) = entrada
    BY <1>1
<1>4. ASSUME NEW n \in Nat PROVE Falta(entrada, tasks_size, n) \in Seq(Int)
    <2>1. n * tasks_size \in Nat
        BY <1>1
    <2>2. \A k \in Nat : SubSeq(entrada, k + 1, Len(entrada)) \in Seq(Int)
        BY <1>1
    <2>. QED
        BY <2>1, <2>2 DEF Falta
<1>. QED
    BY <1>2, <1>3, <1>4 DEF Falta

-----------------------------------------------------------------------------
(***************************************************************************)
(* What sends and receptions do to the counts.                             *)
(***************************************************************************)
\* Task n goes out.
LEMMA ContadasTarefa ==
    ASSUME entrada \in Entradas, NEW c \in Canais, NEW d, NEW q \in Processo,
           NEW n \in Nat, n < tasks, NEW v \in Seq(Int), NEW certo \in BOOLEAN,
           Mais(c, d, MASTER, q, Tarefa(n)),
           Contadas(entrada, tasks_size, c, n, v, certo)
    PROVE  Contadas(entrada, tasks_size, d, n + 1, v, certo)
<1>. DEFINE z == tasks_size
            m == Tarefa(n)
<1>. SUFFICES ASSUME NEW x \in Int
              PROVE  /\ IsFiniteSet(Onde(d, z, x))
                     /\ Total(entrada, z, d, n + 1, v, x) = Total(entrada, z, c, n, v, x)
    BY DEF Contadas
<1>1. z \in Nat /\ m \in Bloco /\ MASTER \in Processo
    BY Tamanho, TarefaTipo, Numeros
<1>2. IsFiniteSet(Onde(c, z, x))
    BY DEF Contadas
<1>3. /\ IsFiniteSet(Onde(d, z, x))
      /\ Cardinality(Onde(d, z, x)) = Cardinality(Onde(c, z, x)) + Vezes(x, m)
    BY <1>1, <1>2, OndeMais
<1>4. /\ Vezes(x, Falta(entrada, z, n)) = Vezes(x, m) + Vezes(x, Falta(entrada, z, n + 1))
      /\ Vezes(x, m) \in Nat /\ Vezes(x, Falta(entrada, z, n + 1)) \in Nat
    <2>. DEFINE g == Falta(entrada, z, n + 1)
    <2>1. m \in Seq(Int) /\ g \in Seq(Int) /\ Falta(entrada, z, n) = m \o g
        BY TarefaPartes
    <2>. HIDE DEF m, g
    <2>2. Vezes(x, m \o g) = Vezes(x, m) + Vezes(x, g)
        BY <2>1, VezesJunta
    <2>3. Vezes(x, m) \in Nat /\ Vezes(x, g) \in Nat
        BY <2>1, VezesTipo
    <2>. QED
        BY <2>1, <2>2, <2>3 DEF g
<1>5. Cardinality(Onde(c, z, x)) \in Nat /\ Vezes(x, v) \in Nat
    BY <1>2, FS_CardinalityType, VezesTipo
<1>. QED
    BY <1>3, <1>4, <1>5 DEF Total

\* A result comes in: w is v with its values.
LEMMA ContadasResultado ==
    ASSUME entrada \in Entradas, NEW c \in Canais, NEW d, NEW p \in Processo, NEW q \in Processo,
           NEW n \in Nat, n <= tasks, NEW v \in Seq(Int), NEW w \in Seq(Int),
           NEW certo \in BOOLEAN, c[p][q] # <<>>, Menos(c, d, p, q),
           \A x \in Int : Vezes(x, w) = Vezes(x, v) + Vezes(x, Head(c[p][q])),
           Contadas(entrada, tasks_size, c, n, v, certo)
    PROVE  Contadas(entrada, tasks_size, d, n, w, certo)
<1>. DEFINE z == tasks_size
            m == Head(c[p][q])
<1>. SUFFICES ASSUME NEW x \in Int
              PROVE  /\ IsFiniteSet(Onde(d, z, x))
                     /\ Total(entrada, z, d, n, w, x) = Total(entrada, z, c, n, v, x)
    BY DEF Contadas
<1>1. z \in Nat /\ IsFiniteSet(Onde(c, z, x))
    BY Tamanho DEF Contadas
<1>2. /\ m \in Bloco /\ IsFiniteSet(Onde(d, z, x))
      /\ Cardinality(Onde(c, z, x)) = Cardinality(Onde(d, z, x)) + Vezes(x, m)
    BY <1>1, OndeMenos
<1>3. /\ Vezes(x, m) \in Nat /\ Vezes(x, v) \in Nat /\ Vezes(x, Falta(entrada, z, n)) \in Nat
      /\ Cardinality(Onde(d, z, x)) \in Nat /\ Vezes(x, w) = Vezes(x, v) + Vezes(x, m)
    BY <1>2, BlocoLista, FaltaPontas, VezesTipo, FS_CardinalityType
<1>. QED
    BY <1>2, <1>3 DEF Total

\* A slave sends the values of a task back.
LEMMA ContadasTrabalho ==
    ASSUME entrada \in Entradas, NEW c \in Canais, NEW f \in Canais, NEW d, NEW s \in Escravo,
           NEW n \in Nat, n <= tasks, NEW v \in Seq(Int), NEW certo \in BOOLEAN,
           c[MASTER][s] # <<>>, Menos(c, f, MASTER, s), NEW u \in Bloco, Mais(f, d, s, MASTER, u),
           \A x \in Int : Vezes(x, u) = Vezes(x, Head(c[MASTER][s])),
           Contadas(entrada, tasks_size, c, n, v, certo)
    PROVE  Contadas(entrada, tasks_size, d, n, v, certo)
<1>. DEFINE z == tasks_size
            m == Head(c[MASTER][s])
<1>. SUFFICES ASSUME NEW x \in Int
              PROVE  /\ IsFiniteSet(Onde(d, z, x))
                     /\ Total(entrada, z, d, n, v, x) = Total(entrada, z, c, n, v, x)
    BY DEF Contadas
<1>1. z \in Nat /\ IsFiniteSet(Onde(c, z, x)) /\ s \in Processo /\ MASTER \in Processo
    BY Tamanho, Numeros DEF Contadas
<1>2. /\ m \in Bloco /\ IsFiniteSet(Onde(f, z, x))
      /\ Cardinality(Onde(c, z, x)) = Cardinality(Onde(f, z, x)) + Vezes(x, m)
    BY <1>1, OndeMenos
<1>3. /\ IsFiniteSet(Onde(d, z, x))
      /\ Cardinality(Onde(d, z, x)) = Cardinality(Onde(f, z, x)) + Vezes(x, u)
    BY <1>1, <1>2, OndeMais
<1>4. Vezes(x, u) = Vezes(x, m)
    OBVIOUS
<1>. QED
    BY <1>2, <1>3, <1>4 DEF Total

\* A slave leaves, and its task with it.
LEMMA ContadasPerda ==
    ASSUME entrada \in Entradas, NEW c \in Canais, NEW d, NEW p \in Processo, NEW q \in Processo,
           NEW n \in Nat, n <= tasks, NEW v \in Seq(Int), NEW certo \in BOOLEAN,
           c[p][q] # <<>>, Menos(c, d, p, q),
           Contadas(entrada, tasks_size, c, n, v, certo)
    PROVE  Contadas(entrada, tasks_size, d, n, v, FALSE)
<1>. DEFINE z == tasks_size
            m == Head(c[p][q])
<1>. SUFFICES ASSUME NEW x \in Int
              PROVE  /\ IsFiniteSet(Onde(d, z, x))
                     /\ Total(entrada, z, d, n, v, x) <= Vezes(x, entrada)
    BY DEF Contadas
<1>1. /\ z \in Nat /\ IsFiniteSet(Onde(c, z, x))
      /\ Total(entrada, z, c, n, v, x) <= Vezes(x, entrada)
    BY Tamanho DEF Contadas
<1>2. /\ m \in Bloco /\ IsFiniteSet(Onde(d, z, x))
      /\ Cardinality(Onde(c, z, x)) = Cardinality(Onde(d, z, x)) + Vezes(x, m)
    BY <1>1, OndeMenos
<1>3. /\ Vezes(x, m) \in Nat /\ Vezes(x, v) \in Nat /\ Vezes(x, Falta(entrada, z, n)) \in Nat
      /\ Cardinality(Onde(d, z, x)) \in Nat /\ Vezes(x, entrada) \in Nat
    BY <1>2, BlocoLista, FaltaPontas, VezesTipo, FS_CardinalityType, Tamanho
<1>. QED
    BY <1>1, <1>2, <1>3 DEF Total

LEMMA CertasMais ==
    ASSUME NEW c \in Canais, NEW d, NEW p \in Processo, NEW q \in Processo, NEW m \in Bloco,
           Mais(c, d, p, q, m), Certas(c),
           p = MASTER => SemRepeticao(m), q = MASTER => Ordenado(m)
    PROVE  Certas(d)
<1>1. ASSUME NEW y \in Processo, NEW z \in Processo, NEW k \in DOMAIN d[y][z]
      PROVE  \/ k \in DOMAIN c[y][z] /\ d[y][z][k] = c[y][z][k]
             \/ y = p /\ z = q /\ d[y][z][k] = m
    <2>1. CASE y = p /\ z = q
        <3>1. c[p][q] \in Seq(Bloco) /\ d[p][q] = Append(c[p][q], m)
            BY DEF Canais, Mais
        <3>2. \A i \in DOMAIN Append(c[p][q], m) :
                 \/ i \in DOMAIN c[p][q] /\ Append(c[p][q], m)[i] = c[p][q][i]
                 \/ Append(c[p][q], m)[i] = m
            BY <3>1
        <3>. QED
            BY <1>1, <2>1, <3>1, <3>2
    <2>2. CASE ~ (y = p /\ z = q)
        BY <1>1, <2>2 DEF Mais
    <2>. QED
        BY <2>1, <2>2
<1>. QED
    BY <1>1, Numeros DEF Certas

LEMMA CertasMenos ==
    ASSUME NEW c \in Canais, NEW d, NEW p \in Processo, NEW q \in Processo, c[p][q] # <<>>,
           Menos(c, d, p, q), Certas(c)
    PROVE  Certas(d)
<1>1. ASSUME NEW y \in Processo, NEW z \in Processo, NEW k \in DOMAIN d[y][z]
      PROVE  \E i \in DOMAIN c[y][z] : d[y][z][k] = c[y][z][i]
    <2>1. CASE y = p /\ z = q
        <3>1. c[p][q] \in Seq(Bloco) /\ d[p][q] = Tail(c[p][q])
            BY DEF Canais, Menos
        <3>2. \A i \in DOMAIN Tail(c[p][q]) :
                 i + 1 \in DOMAIN c[p][q] /\ Tail(c[p][q])[i] = c[p][q][i + 1]
            BY <3>1
        <3>. QED
            BY <1>1, <2>1, <3>1, <3>2
    <2>2. CASE ~ (y = p /\ z = q)
        BY <1>1, <2>2 DEF Menos
    <2>. QED
        BY <2>1, <2>2
<1>. QED
    BY <1>1, Numeros DEF Certas

-----------------------------------------------------------------------------
(***************************************************************************)
(* The merged part, and the steps.                                         *)
(***************************************************************************)
LEMMA JuntarCerto ==
    ASSUME entrada \in Entradas, Recebidas, Ordenado(vector_sort),
           NEW m \in Bloco, Ordenado(m)
    PROVE  /\ Juntar(m) \in Seq(Int) /\ Ordenado(Juntar(m))
           /\ Len(Juntar(m)) = Len(vector_sort) + tasks_size
           /\ \A x \in Int : Vezes(x, Juntar(m)) = Vezes(x, vector_sort) + Vezes(x, m)
<1>. DEFINE v == vector_sort
            j == v \o m
            n == Len(v)
            w == Juntar(m)
<1>1. /\ v \in Seq(Int) /\ m \in Seq(Int) /\ Len(m) = tasks_size /\ tasks_size \in Nat \ {0}
      /\ n = tasks_received * tasks_size /\ tasks_received \in Nat /\ n \in Nat
      /\ DOMAIN v = 1 .. n /\ DOMAIN m = 1 .. tasks_size
    BY BlocoLista, Tamanho DEF Recebidas
<1>2. w = IF tasks_received = 0 THEN j ELSE mergeSort(j, n)
    BY <1>1 DEF Juntar
<1>3. /\ j \in Seq(Int) /\ Len(j) = n + tasks_size
      /\ \A i \in 1 .. n + tasks_size : j[i] = IF i <= n THEN v[i] ELSE m[i - n]
    BY <1>1, Emenda
<1>4. \A x \in Int : Vezes(x, j) = Vezes(x, v) + Vezes(x, m)
    BY <1>1, VezesJunta
<1>5. /\ \A i \in 1 .. n : i > 1 => v[i - 1] <= v[i]
      /\ \A i \in 1 .. tasks_size : i > 1 => m[i - 1] <= m[i]
    BY <1>1 DEF Ordenado
<1>. HIDE DEF v, j, n, w
<1>6. CASE tasks_received = 0
    <2>1. n = 0 /\ w = j
        BY <1>1, <1>2, <1>6
    <2>2. ASSUME NEW i \in DOMAIN j, i > 1 PROVE j[i - 1] <= j[i]
        <3>1. i \in 1 .. tasks_size /\ i - 1 \in 1 .. tasks_size
            BY <1>1, <1>3, <2>1, <2>2
        <3>2. j[i] = m[i] /\ j[i - 1] = m[i - 1]
            BY <1>1, <1>3, <2>1, <3>1
        <3>. QED
            BY <1>5, <2>2, <3>1, <3>2
    <2>3. Ordenado(j)
        BY <2>2 DEF Ordenado
    <2>. QED
        BY <1>3, <1>4, <2>1, <2>3 DEF v, n, w
<1>7. CASE tasks_received # 0
    <2>1. w = mergeSort(j, n)
        BY <1>2, <1>7
    <2>2. n \in 0 .. Len(j) /\ j \in Seq(Int)
        BY <1>1, <1>3
    <2>3. Metades(j, n)
        <3>. SUFFICES ASSUME NEW i \in 1 .. n + tasks_size, i > 1, i # n + 1
                      PROVE  j[i - 1] <= j[i]
            BY <1>3 DEF Metades
        <3>1. CASE i <= n
            <4>1. i \in 1 .. n /\ i - 1 \in 1 .. n + tasks_size /\ i - 1 <= n
                BY <1>1, <3>1
            <4>2. j[i] = v[i] /\ j[i - 1] = v[i - 1]
                BY <1>3, <3>1, <4>1
            <4>. QED
                BY <1>5, <4>1, <4>2
        <3>2. CASE ~ (i <= n)
            <4>1. /\ i - n \in 1 .. tasks_size /\ i - n > 1 /\ (i - n) - 1 = (i - 1) - n
                  /\ i - 1 \in 1 .. n + tasks_size /\ ~ (i - 1 <= n)
                BY <1>1, <3>2
            <4>2. j[i] = m[i - n] /\ j[i - 1] = m[(i - n) - 1]
                BY <1>3, <3>2, <4>1
            <4>. QED
                BY <1>5, <4>1, <4>2
        <3>. QED
            BY <3>1, <3>2
    <2>4. Ordenado(w) /\ \E t : Reordena(j, w, t)
        BY <2>1, <2>2, <2>3, MesclaCerta
    <2>5. PICK t : Reordena(j, w, t)
        BY <2>4
    <2>6. w \in Seq(Int) /\ Len(w) = Len(j)
        BY <2>5 DEF Reordena
    <2>7. \A x : Vezes(x, w) = Vezes(x, j)
        BY <2>5, VezesReordena
    <2>. QED
        BY <1>3, <1>4, <2>4, <2>6, <2>7 DEF v, n, w
<1>. QED
    BY <1>6, <1>7

\* With all tasks back, the merged part is the sorted input.
LEMMA TudoEmOrdem ==
    ASSUME entrada \in Entradas, NEW c, NEW n \in Nat, n <= tasks, NEW w \in Seq(Int),
           NEW certo, Len(w) = tasks * tasks_size, Ordenado(w),
           Contadas(entrada, tasks_size, c, n, w, certo)
    PROVE  w = EmOrdem(entrada)
<1>1. entrada \in Seq(Int) /\ Len(w) = Len(entrada)
    BY Tamanho
<1>2. ASSUME NEW x \in Int PROVE Vezes(x, w) <= Vezes(x, entrada)
    <2>. DEFINE z == tasks_size
    <2>1. /\ IsFiniteSet(Onde(c, z, x))
          /\ Total(entrada, z, c, n, w, x) <= Vezes(x, entrada)
        BY DEF Contadas
    <2>2. /\ Vezes(x, w) \in Nat /\ Vezes(x, Falta(entrada, z, n)) \in Nat
          /\ Cardinality(Onde(c, z, x)) \in Nat /\ Vezes(x, entrada) \in Nat
        BY <1>1, <2>1, FaltaPontas, VezesTipo, FS_CardinalityType
    <2>. QED
        BY <2>1, <2>2 DEF Total
<1>3. PICK t : Reordena(entrada, w, t)
    BY <1>1, <1>2, ReordenaVezes
<1>. QED
    BY <1>3, OrdenadaUnica

LEMMA Fixos ==
    ASSUME [Next]_vars
    PROVE  /\ entrada' = entrada /\ tasks_size' = tasks_size
           /\ Naturais' = Naturais /\ Distintos' = Distintos
<1>1. entrada' = entrada
    BY DEF Next, Mestre, Distribuir, Coletar, Parar, Imprimir, Trabalhar, Encerrar, vars
<1>. QED
    BY <1>1 DEF tasks_size, Naturais, Distintos, STOP

LEMMA Logico == Naturais \in BOOLEAN
BY DEF Naturais

\* What the steps use of the invariant.
LEMMA FatosIntacto ==
    ASSUME Intacto, Distintos
    PROVE  /\ IInv /\ Tipos /\ Recebidas /\ Origens /\ canal \in Canais /\ entrada \in Entradas
           /\ tasks_sent \in Nat /\ tasks_sent <= tasks /\ vector_sort \in Seq(Int)
           /\ tasks \in Nat /\ tasks_size \in Nat
           /\ \A s \in Escravo : s \in Processo /\ s # MASTER
BY Fatos, Numeros, Tamanho DEF Intacto, IInv, Tipos, Recebidas

LEMMA InitIntacto == Init => Intacto
<1>. SUFFICES ASSUME Init PROVE Intacto
    OBVIOUS
<1>1. IInv
    BY InitTipos, InitFases DEF IInv
<1>2. /\ entrada \in Entradas /\ entrada \in Seq(Int) /\ tasks_size \in Nat \ {0}
      /\ canal \in Canais /\ pc[MASTER] = "distribuir"
    BY <1>1, Tamanho, Numeros DEF Init, IInv, Tipos, Canais
<1>3. \A p, q \in Processo : canal[p][q] = <<>>
    BY DEF Init, InitMPI
<1>4. Recebidas
    BY <1>2, Numeros DEF Init, Recebidas
<1>5. Ordenado(vector_sort) /\ Certas(canal)
    BY <1>3, Numeros DEF Init, Ordenado, Certas
<1>6. ASSUME NEW x \in Int
      PROVE  /\ IsFiniteSet(Onde(canal, tasks_size, x))
             /\ Total(entrada, tasks_size, canal, tasks_sent, vector_sort, x) = Vezes(x, entrada)
    <2>1. Onde(canal, tasks_size, x) = {}
        <3>. SUFFICES ASSUME NEW l \in Onde(canal, tasks_size, x) PROVE FALSE
            OBVIOUS
        <3>1. \E p, q \in Processo : \E k \in DOMAIN canal[p][q] : TRUE
            BY OndeMembro
        <3>. QED
            BY <1>3, <3>1
    <2>2. Cardinality(Onde(canal, tasks_size, x)) = 0 /\ IsFiniteSet(Onde(canal, tasks_size, x))
        BY <2>1, FS_EmptySet
    <2>3. Vezes(x, vector_sort) = 0
        <3>1. {k \in DOMAIN vector_sort : vector_sort[k] = x} = {}
            BY DEF Init
        <3>. QED
            BY <3>1, FS_EmptySet DEF Vezes
    <2>4. tasks_sent = 0 /\ Falta(entrada, tasks_size, 0) = entrada /\ Vezes(x, entrada) \in Nat
        BY <1>2, FaltaPontas, VezesTipo DEF Init
    <2>. QED
        BY <2>2, <2>3, <2>4 DEF Total
<1>7. Contadas(entrada, tasks_size, canal, tasks_sent, vector_sort, Naturais)
    <2>1. \A x \in Int : Vezes(x, entrada) \in Nat
        BY <1>2, VezesTipo
    <2>. QED
        BY <1>6, <2>1 DEF Contadas
<1>8. Origens
    BY <1>2, <1>5, <1>7 DEF Origens, Init
<1>. QED
    BY <1>1, <1>4, <1>8 DEF Intacto

LEMMA DistribuirIntacto ==
    ASSUME Intacto, Distintos, Distribuir, [Next]_vars
    PROVE  Recebidas' /\ Origens'
<1>1. /\ IInv /\ Tipos /\ Recebidas /\ Origens /\ canal \in Canais /\ entrada \in Entradas
      /\ tasks_sent \in Nat /\ vector_sort \in Seq(Int) /\ tasks \in Nat
    BY FatosIntacto
<1>2. /\ pc[MASTER] = "distribuir" /\ slave \in Nat /\ slave \in Escravo
      /\ pc'[MASTER] \in {"distribuir", "coletar"}
    BY <1>1, LacoTipo DEF Tipos, Distribuir
<1>3. /\ tasks_sent' = tasks_sent + 1 /\ tasks_to_receive' = tasks_to_receive + 1
      /\ tasks_received' = tasks_received /\ vector_sort' = vector_sort /\ saida' = saida
    BY DEF Distribuir
<1>4. tasks_sent < tasks /\ tasks_sent = slave - 1 /\ tasks_to_receive = slave - 1
    <2>1. tasks_sent = slave - 1 /\ tasks_to_receive = slave - 1 /\ slave \in 1 .. np - 1
        BY <1>1, <1>2 DEF IInv, Contas, Escravo
    <2>. QED
        BY <2>1, Numeros
<1>5. entrada' = entrada /\ tasks_size' = tasks_size /\ Naturais' = Naturais
    BY Fixos
<1>6. /\ Tarefa(tasks_sent) \in Bloco /\ SemRepeticao(Tarefa(tasks_sent))
      /\ Mais(canal, canal', MASTER, slave, Tarefa(tasks_sent))
    BY <1>1, <1>4, DistribuirCanal, TarefaPartes
<1>7. slave \in Processo /\ slave # MASTER /\ MASTER \in Processo
    BY <1>2, Numeros
<1>8. /\ Ordenado(vector_sort) /\ Certas(canal)
      /\ Contadas(entrada, tasks_size, canal, tasks_sent, vector_sort, Naturais)
      /\ saida = <<>>
    BY <1>1, <1>2 DEF Origens
<1>9. Certas(canal')
    BY <1>1, <1>6, <1>7, <1>8, CertasMais
<1>10. Contadas(entrada, tasks_size, canal', tasks_sent + 1, vector_sort, Naturais)
    BY <1>1, <1>4, <1>6, <1>7, <1>8, Logico, ContadasTarefa
<1>11. Recebidas'
    <2>1. tasks_to_receive' > 0
        <3>1. slave \in 1 .. np - 1
            BY <1>2 DEF Escravo
        <3>. QED
            BY <1>3, <1>4, <3>1, Numeros
    <2>. QED
        BY <1>1, <1>3, <1>4, <1>5, <2>1 DEF Recebidas, tasks
<1>12. Origens'
    BY <1>2, <1>3, <1>5, <1>8, <1>9, <1>10 DEF Origens, Certas
<1>. QED
    BY <1>11, <1>12

LEMMA ColetarIntacto ==
    ASSUME Intacto, Distintos, NEW s \in Escravo, Coletar(s), [Next]_vars
    PROVE  Recebidas' /\ Origens'
<1>1. /\ IInv /\ Tipos /\ Recebidas /\ Origens /\ canal \in Canais /\ entrada \in Entradas
      /\ tasks_sent \in Nat /\ tasks_sent <= tasks /\ vector_sort \in Seq(Int) /\ tasks \in Nat
      /\ s \in Processo /\ s # MASTER /\ MASTER \in Processo /\ tasks_size \in Nat
    BY FatosIntacto, Numeros
<1>. DEFINE m == Head(canal[s][MASTER])
            w == Juntar(m)
<1>2. /\ pc[MASTER] = "coletar" /\ canal[s][MASTER] # <<>>
      /\ vector_sort' = w /\ tasks_received' = tasks_received + 1
      /\ tasks_sent' = IF tasks_sent < tasks THEN tasks_sent + 1 ELSE tasks_sent
      /\ tasks_to_receive' = Pendentes(tasks_sent < tasks) /\ saida' = saida
      /\ pc'[MASTER] = IF Pendentes(tasks_sent < tasks) > 0 THEN "coletar" ELSE "parar"
    BY <1>1 DEF Coletar, Chegou, Ir, Tipos
<1>3. entrada' = entrada /\ tasks_size' = tasks_size /\ Naturais' = Naturais
    BY Fixos
<1>4. /\ Ordenado(vector_sort) /\ Certas(canal)
      /\ Contadas(entrada, tasks_size, canal, tasks_sent, vector_sort, Naturais)
      /\ saida = <<>>
    BY <1>1, <1>2 DEF Origens
<1>5. m \in Bloco /\ Ordenado(m)
    <2>1. canal[s][MASTER] \in Seq(Bloco)
        BY <1>1 DEF Canais
    <2>2. 1 \in DOMAIN canal[s][MASTER] /\ m = canal[s][MASTER][1] /\ m \in Bloco
        BY <1>2, <2>1
    <2>. QED
        BY <1>4, <2>2 DEF Certas
<1>. HIDE DEF m, w
<1>6. /\ w \in Seq(Int) /\ Ordenado(w) /\ Len(w) = Len(vector_sort) + tasks_size
      /\ \A x \in Int : Vezes(x, w) = Vezes(x, vector_sort) + Vezes(x, m)
    BY <1>1, <1>4, <1>5, JuntarCerto DEF w
<1>7. PICK c \in Canais :
          /\ Menos(canal, c, s, MASTER)
          /\ tasks_sent >= tasks => canal' = c
          /\ tasks_sent < tasks => /\ Tarefa(tasks_sent) \in Bloco
                                   /\ Mais(c, canal', MASTER, s, Tarefa(tasks_sent))
    BY <1>1, ColetarCanal
<1>8. Certas(c) /\ Contadas(entrada, tasks_size, c, tasks_sent, w, Naturais)
    <2>1. Certas(c)
        BY <1>1, <1>2, <1>4, <1>7, CertasMenos
    <2>2. \A x \in Int : Vezes(x, w) = Vezes(x, vector_sort) + Vezes(x, Head(canal[s][MASTER]))
        BY <1>6 DEF m
    <2>. QED
        BY <1>1, <1>2, <1>4, <1>6, <1>7, <2>1, <2>2, Logico, ContadasResultado
<1>9. Certas(canal') /\ Contadas(entrada, tasks_size, canal', tasks_sent', w, Naturais)
    <2>1. CASE tasks_sent < tasks
        <3>1. SemRepeticao(Tarefa(tasks_sent))
            BY <1>1, <2>1, TarefaPartes
        <3>2. Certas(canal')
            BY <1>1, <1>7, <1>8, <2>1, <3>1, CertasMais
        <3>3. Contadas(entrada, tasks_size, canal', tasks_sent + 1, w, Naturais)
            BY <1>1, <1>6, <1>7, <1>8, <2>1, Logico, ContadasTarefa
        <3>. QED
            BY <1>2, <2>1, <3>2, <3>3
    <2>2. CASE ~ (tasks_sent < tasks)
        <3>1. canal' = c /\ tasks_sent' = tasks_sent
            BY <1>1, <1>2, <1>7, <2>2
        <3>. QED
            BY <1>8, <3>1
    <2>. QED
        BY <2>1, <2>2
<1>10. /\ tasks_received \in Nat /\ Len(vector_sort) = tasks_received * tasks_size
       /\ tasks_to_receive = tasks_sent - tasks_received /\ tasks_to_receive > 0
    BY <1>1, <1>2 DEF Recebidas
<1>11. /\ tasks_sent' \in Nat /\ tasks_sent' <= tasks
       /\ tasks_to_receive' = tasks_sent' - tasks_received' /\ tasks_to_receive' >= 0
       /\ pc'[MASTER] = IF tasks_to_receive' > 0 THEN "coletar" ELSE "parar"
       /\ tasks_to_receive' > 0 \/ tasks_received' = tasks
    <2>1. CASE tasks_sent < tasks
        <3>1. /\ tasks_sent' = tasks_sent + 1 /\ tasks_to_receive' = tasks_to_receive
              /\ pc'[MASTER] = IF tasks_to_receive > 0 THEN "coletar" ELSE "parar"
            BY <1>2, <2>1 DEF Pendentes
        <3>2. tasks_received' = tasks_received + 1 /\ tasks_sent < tasks
            BY <1>2, <2>1
        <3>3. /\ tasks_sent \in Nat /\ tasks \in Nat /\ tasks_received \in Nat
              /\ tasks_to_receive = tasks_sent - tasks_received /\ tasks_to_receive > 0
            BY <1>1, <1>10
        <3>. QED
            BY <3>1, <3>2, <3>3
    <2>2. CASE ~ (tasks_sent < tasks)
        <3>1. /\ tasks_sent' = tasks_sent /\ tasks_to_receive' = tasks_to_receive - 1
              /\ pc'[MASTER] = IF tasks_to_receive - 1 > 0 THEN "coletar" ELSE "parar"
            BY <1>2, <2>2 DEF Pendentes
        <3>2. tasks_sent = tasks
            BY <1>1, <2>2
        <3>3. /\ tasks \in Nat /\ tasks_received \in Nat
              /\ tasks_to_receive = tasks_sent - tasks_received /\ tasks_to_receive > 0
              /\ tasks_received' = tasks_received + 1
            BY <1>1, <1>2, <1>10
        <3>. QED
            BY <3>1, <3>2, <3>3
    <2>. QED
        BY <2>1, <2>2
<1>12. Len(w) = tasks_received' * tasks_size
    <2>1. (tasks_received + 1) * tasks_size = tasks_received * tasks_size + tasks_size
        BY <1>1, <1>10
    <2>. QED
        BY <1>2, <1>6, <1>10, <2>1
<1>13. Recebidas'
    BY <1>1, <1>2, <1>3, <1>6, <1>10, <1>11, <1>12 DEF Recebidas, tasks
<1>14. CASE tasks_to_receive' > 0
    <2>1. Origens'
        BY <1>2, <1>3, <1>4, <1>6, <1>9, <1>11, <1>14 DEF Origens, Certas
    <2>. QED
        BY <1>13, <2>1
<1>15. CASE ~ (tasks_to_receive' > 0)
    <2>1. Len(w) = tasks * tasks_size
        BY <1>11, <1>12, <1>15
    <2>2. w = EmOrdem(entrada)
        BY <1>1, <1>6, <1>9, <1>11, <2>1, TudoEmOrdem
    <2>3. EmOrdem(entrada)' = EmOrdem(entrada)
        BY <1>3 DEF EmOrdem
    <2>4. Origens'
        BY <1>2, <1>4, <1>11, <1>15, <2>2, <2>3 DEF Origens
    <2>. QED
        BY <1>13, <2>4
<1>. QED
    BY <1>14, <1>15

LEMMA PararIntacto ==
    ASSUME Intacto, Distintos, Parar, [Next]_vars
    PROVE  Recebidas' /\ Origens'
<1>1. Tipos /\ Recebidas /\ Origens
    BY FatosIntacto
<1>2. pc[MASTER] = "parar" /\ pc'[MASTER] \in {"parar", "imprimir"}
    BY <1>1, LacoTipo DEF Parar
<1>3. /\ tasks_sent' = tasks_sent /\ tasks_to_receive' = tasks_to_receive
      /\ tasks_received' = tasks_received /\ vector_sort' = vector_sort /\ saida' = saida
    BY DEF Parar
<1>4. entrada' = entrada /\ tasks_size' = tasks_size
    BY Fixos
<1>5. Recebidas'
    BY <1>1, <1>2, <1>3, <1>4 DEF Recebidas, tasks
<1>6. EmOrdem(entrada)' = EmOrdem(entrada)
    BY <1>4 DEF EmOrdem
<1>7. Origens'
    BY <1>1, <1>2, <1>3, <1>6 DEF Origens
<1>. QED
    BY <1>5, <1>7

LEMMA ImprimirIntacto ==
    ASSUME Intacto, Distintos, Imprimir, [Next]_vars
    PROVE  Recebidas' /\ Origens'
<1>1. Tipos /\ Recebidas /\ Origens
    BY FatosIntacto
<1>2. pc[MASTER] = "imprimir" /\ pc'[MASTER] = "fim"
    BY <1>1, Numeros DEF Imprimir, Ir, Tipos
<1>3. /\ tasks_sent' = tasks_sent /\ tasks_to_receive' = tasks_to_receive
      /\ tasks_received' = tasks_received /\ vector_sort' = vector_sort
    BY DEF Imprimir
<1>4. entrada' = entrada /\ tasks_size' = tasks_size
    BY Fixos
<1>5. Recebidas'
    BY <1>1, <1>2, <1>3, <1>4 DEF Recebidas, tasks
<1>6. Origens'
    BY <1>2 DEF Origens
<1>. QED
    BY <1>5, <1>6

LEMMA TrabalharIntacto ==
    ASSUME Intacto, Distintos, NEW s \in Escravo, Trabalhar(s), [Next]_vars
    PROVE  Recebidas' /\ Origens'
<1>1. /\ IInv /\ Tipos /\ Recebidas /\ Origens /\ canal \in Canais /\ entrada \in Entradas
      /\ tasks_sent \in Nat /\ tasks_sent <= tasks /\ vector_sort \in Seq(Int)
      /\ s \in Processo /\ s # MASTER /\ MASTER \in Processo /\ tasks_size \in Nat
    BY FatosIntacto, Numeros
<1>2. /\ pc'[MASTER] = pc[MASTER] /\ canal[MASTER][s] # <<>>
      /\ tasks_sent' = tasks_sent /\ tasks_to_receive' = tasks_to_receive
      /\ tasks_received' = tasks_received /\ vector_sort' = vector_sort /\ saida' = saida
    BY <1>1 DEF Trabalhar, Chegou, Ir, Tipos
<1>3. entrada' = entrada /\ tasks_size' = tasks_size /\ Naturais' = Naturais
    BY Fixos
<1>4. Recebidas'
    BY <1>1, <1>2, <1>3 DEF Recebidas, tasks
<1>5. EmOrdem(entrada)' = EmOrdem(entrada)
    BY <1>3 DEF EmOrdem
<1>6. CASE pc[MASTER] \in {"distribuir", "coletar"}
    <2>. DEFINE t == Head(canal[MASTER][s])
                u == rankSort(t, slave_to_master[s])
                c == MPI_Recv(canal, MASTER, s)
    <2>1. /\ Ordenado(vector_sort) /\ Certas(canal) /\ saida = <<>>
          /\ Contadas(entrada, tasks_size, canal, tasks_sent, vector_sort, Naturais)
        BY <1>1, <1>6 DEF Origens
    <2>2. t \in Bloco /\ SemRepeticao(t)
        <3>1. canal[MASTER][s] \in Seq(Bloco)
            BY <1>1 DEF Canais
        <3>2. /\ 1 \in DOMAIN canal[MASTER][s] /\ t = canal[MASTER][s][1] /\ t \in Bloco
            BY <1>2, <3>1
        <3>. QED
            BY <2>1, <3>2 DEF Certas
    <2>3. slave_to_master[s] \in Bloco
        BY <1>1 DEF Tipos
    <2>4. /\ c \in Canais /\ Menos(canal, c, MASTER, s)
          /\ canal' = MPI_Send(c, s, MASTER, u)
        BY <1>1, <1>2, Recepcao DEF Trabalhar, Menos
    <2>. HIDE DEF t, u, c
    <2>5. u \in Bloco /\ Ordenado(u) /\ \A x : Vezes(x, u) = Vezes(x, t)
        <3>1. u \in Bloco
            BY <2>2, <2>3, OrdemTipo DEF u
        <3>2. Ordenado(u) /\ \E h : Reordena(t, u, h)
            <4>1. \A i, j \in 1 .. tasks_size : t[i] = t[j] => i = j
                BY <1>1, <2>2, BlocoLista DEF SemRepeticao
            <4>2. t \in [1 .. tasks_size -> Int] /\ slave_to_master[s] \in [1 .. tasks_size -> Int]
                BY <2>2, <2>3 DEF Bloco
            <4>. QED
                BY <1>1, <4>1, <4>2, OrdemCerta DEF u
        <3>3. PICK h : Reordena(t, u, h)
            BY <3>2
        <3>. QED
            BY <3>1, <3>2, <3>3, VezesReordena
    <2>6. Mais(c, canal', s, MASTER, u)
        BY <1>1, <2>4, <2>5, Envio
    <2>7. Certas(canal')
        <3>1. Certas(c)
            BY <1>1, <1>2, <2>1, <2>4, CertasMenos
        <3>. QED
            BY <1>1, <2>4, <2>5, <2>6, <3>1, CertasMais
    <2>8. Contadas(entrada, tasks_size, canal', tasks_sent, vector_sort, Naturais)
        <3>1. \A x \in Int : Vezes(x, u) = Vezes(x, Head(canal[MASTER][s]))
            BY <2>5 DEF t
        <3>. QED
            BY <1>1, <1>2, <2>1, <2>4, <2>5, <2>6, <3>1, Logico, ContadasTrabalho
    <2>9. Origens'
        BY <1>2, <1>3, <1>6, <2>1, <2>7, <2>8 DEF Origens, Certas
    <2>. QED
        BY <1>4, <2>9
<1>7. CASE pc[MASTER] \notin {"distribuir", "coletar"}
    <2>1. Origens'
        BY <1>1, <1>2, <1>5, <1>7 DEF Origens
    <2>. QED
        BY <1>4, <2>1
<1>. QED
    BY <1>6, <1>7

\* With no value that can be taken for STOP, no slave leaves while tasks are out.
LEMMA EncerrarIntacto ==
    ASSUME Intacto, Distintos, NEW s \in Escravo, Encerrar(s), [Next]_vars
    PROVE  Recebidas' /\ Origens'
<1>1. /\ IInv /\ Tipos /\ Recebidas /\ Origens /\ canal \in Canais /\ entrada \in Entradas
      /\ tasks_sent \in Nat /\ tasks_sent <= tasks /\ vector_sort \in Seq(Int)
      /\ s \in Processo /\ s # MASTER /\ MASTER \in Processo
    BY FatosIntacto, Numeros
<1>2. /\ pc'[MASTER] = pc[MASTER] /\ canal[MASTER][s] # <<>>
      /\ Head(canal[MASTER][s])[1] <= STOP
      /\ tasks_sent' = tasks_sent /\ tasks_to_receive' = tasks_to_receive
      /\ tasks_received' = tasks_received /\ vector_sort' = vector_sort /\ saida' = saida
    BY <1>1 DEF Encerrar, Chegou, Ir, Tipos
<1>3. entrada' = entrada /\ tasks_size' = tasks_size /\ Naturais' = Naturais
    BY Fixos
<1>4. Recebidas'
    BY <1>1, <1>2, <1>3 DEF Recebidas, tasks
<1>5. EmOrdem(entrada)' = EmOrdem(entrada)
    BY <1>3 DEF EmOrdem
<1>6. CASE pc[MASTER] \in {"distribuir", "coletar"}
    <2>1. /\ Ordenado(vector_sort) /\ Certas(canal) /\ saida = <<>>
          /\ Contadas(entrada, tasks_size, canal, tasks_sent, vector_sort, Naturais)
        BY <1>1, <1>6 DEF Origens
    <2>2. Menos(canal, canal', MASTER, s)
        BY <1>1, EncerrarCanal
    <2>3. ~ Naturais
        <3>. SUFFICES ASSUME Naturais PROVE FALSE
            OBVIOUS
        <3>1. Fases
            BY <1>1 DEF IInv
        <3>2. Head(canal[MASTER][s])[1] > STOP
            BY <1>2, <1>6, <3>1 DEF Fases, Chegou
        <3>3. canal[MASTER][s] \in Seq(Bloco) /\ 1 \in 1 .. tasks_size
            BY <1>1, Tamanho DEF Canais
        <3>4. Head(canal[MASTER][s]) \in Bloco
            BY <1>2, <3>3
        <3>5. Head(canal[MASTER][s])[1] \in Int /\ STOP \in Int
            <4>1. \A b \in Bloco : b[1] \in Int
                BY <3>3 DEF Bloco
            <4>. QED
                BY <3>4, <4>1 DEF STOP
        <3>. QED
            BY <1>2, <3>2, <3>5
    <2>4. Certas(canal')
        BY <1>1, <1>2, <2>1, <2>2, CertasMenos
    <2>5. Contadas(entrada, tasks_size, canal', tasks_sent, vector_sort, FALSE)
        BY <1>1, <1>2, <2>1, <2>2, Logico, ContadasPerda
    <2>6. Contadas(entrada, tasks_size, canal', tasks_sent, vector_sort, Naturais)
        BY <2>3, <2>5 DEF Contadas
    <2>7. Origens'
        BY <1>2, <1>3, <1>6, <2>1, <2>4, <2>6 DEF Origens, Certas
    <2>. QED
        BY <1>4, <2>7
<1>7. CASE pc[MASTER] \notin {"distribuir", "coletar"}
    <2>1. Origens'
        BY <1>1, <1>2, <1>5, <1>7 DEF Origens
    <2>. QED
        BY <1>4, <2>1
<1>. QED
    BY <1>6, <1>7

LEMMA IndutivoIntacto == Intacto /\ [Next]_vars => Intacto'
<1>. SUFFICES ASSUME Intacto, [Next]_vars PROVE Intacto'
    OBVIOUS
<1>1. IInv'
    BY Indutivo DEF Intacto
<1>2. Distintos' = Distintos
    BY Fixos
<1>3. ASSUME Distintos PROVE Recebidas' /\ Origens'
    <2>1. CASE UNCHANGED vars
        <3>1. Recebidas /\ Origens
            BY <1>3 DEF Intacto
        <3>2. tasks_size' = tasks_size /\ Naturais' = Naturais
            BY Fixos
        <3>3. EmOrdem(entrada)' = EmOrdem(entrada)
            BY <2>1 DEF EmOrdem, vars
        <3>. QED
            BY <2>1, <3>1, <3>2, <3>3 DEF vars, Recebidas, Origens, Certas, tasks
    <2>. QED
        BY <1>3, <2>1, DistribuirIntacto, ColetarIntacto, PararIntacto, ImprimirIntacto,
           TrabalharIntacto, EncerrarIntacto
        DEF Next, Mestre
<1>. QED
    BY <1>1, <1>2, <1>3 DEF Intacto

LEMMA ContadasBastam == Intacto => NadaSePerde
<1>. SUFFICES ASSUME Intacto, Naturais, Distintos, pc[MASTER] \in {"distribuir", "coletar"},
                     NEW k \in DOMAIN entrada
              PROVE  Vezes(entrada[k], entrada) =
                         Vezes(entrada[k], SubSeq(entrada, tasks_sent * tasks_size + 1, Len(entrada)))
                         + EmTransito(entrada[k]) + Vezes(entrada[k], vector_sort)
    BY DEF NadaSePerde
<1>1. Contadas(entrada, tasks_size, canal, tasks_sent, vector_sort, Naturais)
    BY FatosIntacto DEF Origens
<1>2. entrada[k] \in Int
    BY FatosIntacto, Tamanho
<1>3. Total(entrada, tasks_size, canal, tasks_sent, vector_sort, entrada[k])
          = Vezes(entrada[k], entrada)
    BY <1>1, <1>2 DEF Contadas
<1>. QED
    BY <1>3, EmTransitoOnde DEF Total, Falta

\* While tasks are out, every value of the input is in one place, a task not
\* sent, a message or the merged part, as often as in the input (master-slave.c:
\* 141-167), if no task holds a value twice or one that reads as STOP.
THEOREM NothingLost == Spec => []NadaSePerde
<1>. QED
    BY InitIntacto, IndutivoIntacto, ContadasBastam, PTL DEF Spec

LEMMA OrdenadaDef == \A v : Programa!Ordenada(v) = EmOrdem(v)
BY DEF Programa!Ordenada, Programa!Cardinality, Cardinality, EmOrdem, NoLugar, Menores, AteValor

LEMMA ImprimirEscreve ==
    ASSUME Intacto, Distintos, Imprimir, [Next]_vars
    PROVE  Programa!Escrever
<1>1. /\ pc[MASTER] = "imprimir" /\ saida' = vector_sort /\ entrada' = entrada
      /\ Origens /\ entrada \in Entradas
    BY FatosIntacto DEF Imprimir, Ir
<1>2. vector_sort = EmOrdem(entrada) /\ saida = <<>>
    BY <1>1 DEF Origens
<1>3. /\ entrada \in Seq(Int) /\ Len(entrada) \in Nat /\ Len(entrada) > 0
      /\ DOMAIN entrada = 1 .. Len(entrada)
    BY <1>1, EntradasAssumption
<1>4. vector_sort \in Seq(Int) /\ Len(vector_sort) = Len(entrada)
    <2>1. vector_sort \in Seq(Int)
        BY FatosIntacto
    <2>2. DOMAIN vector_sort = 1 .. Len(entrada)
        BY <1>2, <1>3 DEF EmOrdem
    <2>. QED
        BY <1>3, <2>1, <2>2
<1>5. SubSeq(vector_sort, 1, Len(vector_sort)) = vector_sort
    BY <1>4
<1>6. Len(saida) < Len(saida') /\ Len(saida') <= Len(entrada)
    <2>1. Len(saida) = 0 /\ Len(saida') = Len(entrada)
        BY <1>1, <1>2, <1>4
    <2>. QED
        BY <1>3, <2>1
<1>7. saida' = SubSeq(Programa!Ordenada(entrada), 1, Len(saida'))
    BY <1>1, <1>2, <1>5, OrdenadaDef
<1>. QED
    BY <1>1, <1>6, <1>7 DEF Programa!Escrever

\* When no task holds a value twice, the program prints the input in ascending
\* order (master-slave.c:5, 141-167), in whatever order the results come in and
\* whatever is left in the memory of the slaves: with a value twice in a task,
\* rankSort loses one of them.
THEOREM ImplementsSorter == Spec /\ Distintos => SorterSpec
<1>1. Init => Programa!Init
    <2>. SUFFICES ASSUME Init PROVE entrada \in Seq(Int) /\ saida = <<>>
        BY DEF Programa!Init
    <2>. QED
        BY EntradasAssumption DEF Init
<1>2. Intacto /\ Distintos /\ [Next]_vars => [Programa!Escrever]_<<entrada, saida>>
    <2>. SUFFICES ASSUME Intacto, Distintos, [Next]_vars
                  PROVE  [Programa!Escrever]_<<entrada, saida>>
        OBVIOUS
    <2>1. CASE Imprimir
        BY <2>1, ImprimirEscreve
    <2>2. CASE ~ Imprimir
        <3>1. saida' = saida
            BY <2>2 DEF Next, Mestre, Distribuir, Coletar, Parar, Trabalhar, Encerrar, vars
        <3>. QED
            BY <3>1, Fixos
    <2>. QED
        BY <2>1, <2>2
<1>3. Distintos /\ [Next]_vars => Distintos'
    BY Fixos
<1>. QED
    BY <1>1, <1>2, <1>3, InitIntacto, IndutivoIntacto, PTL DEF Spec, SorterSpec, Programa!Spec
=============================================================================
