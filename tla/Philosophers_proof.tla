------------------------ MODULE Philosophers_proof ------------------------
(***************************************************************************)
(* Proofs, for every number of philosophers, of the safety properties of   *)
(* module Philosophers.  TypeOK is inductive on its own; OneHolder needs   *)
(* only TypeOK; ForksAlive needs Fases, which says how far main and the    *)
(* threads may be from each other.  The rest follows from the three, but   *)
(* for the report, which has an invariant of its own, Relato.              *)
(***************************************************************************)
EXTENDS Philosophers, TLAPS

\* Thread p has not got past the semaphore.
Jovem(p) == pc[p] \in {"absent", "wait"}

\* What main's statement tells of the forks and of the threads.
Fases ==
    /\ mpc \in {"create", "criarFilosofo"} =>
          /\ liberador = 0 /\ \A p \in Filosofo : Jovem(p)
          /\ \A f \in Filosofo : f < i => garfo[f] = "free" /\ pronto[f]
    /\ mpc = "criarFilosofo" => garfo[i] = "free"
    /\ mpc \in {"post", "sleep", "comeu", "pensou", "tentou", "join"} =>
          \A f \in Filosofo : garfo[f] \in {"free", "held"} /\ pronto[f]
    /\ mpc = "join" => \A p \in Filosofo : p < i => pc[p] = "done"
    /\ mpc = "destroy" =>
          /\ \A p \in Filosofo : pc[p] = "done"
          /\ \A f \in Filosofo : f >= i => garfo[f] \in {"free", "held"}
    /\ mpc = "returned" =>
          \/ \A p \in Filosofo : pc[p] = "done"
          \/ liberador = 0 /\ \A p \in Filosofo : Jovem(p)

IInv == TypeOK /\ OneHolder /\ Fases

-----------------------------------------------------------------------------
LEMMA DireitaNoCirculo ==
    ASSUME NEW p \in Filosofo
    PROVE  DIREITA(p) = IF p + 1 = N THEN 0 ELSE p + 1
<1>1. CASE p + 1 = N
    BY <1>1, NAssumption DEF DIREITA, Filosofo
<1>2. CASE p + 1 # N
    <2>1. p + 1 \in 0 .. N - 1
        BY <1>2, NAssumption DEF Filosofo
    <2>. QED  BY <2>1, <1>2, NAssumption DEF DIREITA
<1>. QED  BY <1>1, <1>2

\* The right neighbour is a philosopher, and of one philosopher only.
LEMMA DireitaInjetora ==
    /\ \A p \in Filosofo : DIREITA(p) \in Filosofo
    /\ \A p, q \in Filosofo : DIREITA(p) = DIREITA(q) => p = q
BY DireitaNoCirculo, NAssumption DEF Filosofo

LEMMA InitIInv == Init => IInv
BY NAssumption
   DEF Init, IInv, TypeOK, OneHolder, Fases, Filosofo, Jovem, Zerado, Parada,
       Passo, TemProprio, TemDireita

-----------------------------------------------------------------------------
LEMMA MainTypeOK ==
    ASSUME TypeOK, Main
    PROVE  TypeOK'
<1>. USE NAssumption DEF TypeOK, Parada, Passo, Filosofo
<1>1. CASE CriarThread
    BY <1>1 DEF CriarThread
<1>2. CASE CriarThreadFalha
    BY <1>2 DEF CriarThreadFalha
<1>3. CASE criarFilosofo
    BY <1>3 DEF criarFilosofo, Zerado
<1>4. CASE Liberar
    BY <1>4 DEF Liberar, Laco
<1>5. CASE Terminar
    BY <1>5 DEF Terminar
<1>6. ASSUME NEW campo \in Campo, Imprimir(campo)
      PROVE  TypeOK'
    <2>1. relatorio[i][campo] \in Nat /\ impresso[i] \in [Campo -> Nat]
        OBVIOUS
    <2>2. impresso' \in [Filosofo -> [Campo -> Nat]]
        BY <1>6, <2>1 DEF Imprimir
    <2>3. i' \in Filosofo /\ mpc' \in Parada
        BY <1>6 DEF Imprimir
    <2>. QED
        BY <1>6, <2>2, <2>3 DEF Imprimir
<1>7. CASE Juntar
    BY <1>7 DEF Juntar, Laco
<1>8. CASE Destruir
    BY <1>8 DEF Destruir, Laco
<1>. QED
    BY <1>1, <1>2, <1>3, <1>4, <1>5, <1>6, <1>7, <1>8 DEF Main

LEMMA TestarTypeOK ==
    ASSUME TypeOK, NEW p \in Filosofo, Testar(p)
    PROVE  TypeOK'
<1>. USE DireitaInjetora DEF TypeOK, Passo, Ir
<1>1. CASE EsperarLiberador(p)
    BY <1>1 DEF EsperarLiberador
<1>2. CASE Continuar(p) \/ Sair(p)
    BY <1>2 DEF Continuar, Sair
<1>3. CASE TentarProprio(p) \/ TentarDireita(p)
    BY <1>3 DEF TentarProprio, TentarDireita
<1>4. CASE Devolver(p) \/ LargarProprio(p) \/ LargarDireita(p)
    BY <1>4 DEF Devolver, LargarProprio, LargarDireita
<1>5. CASE pensarAleatorio(p) \/ Comer(p) \/ Pensar(p)
    <2>1. PICK campo \in Campo : Contar(p, campo)
        BY <1>5 DEF pensarAleatorio, Comer, Pensar, Campo
    <2>2. relatorio[p] \in [Campo -> Nat] /\ relatorio[p][campo] \in Nat
        OBVIOUS
    <2>3. relatorio' \in [Filosofo -> [Campo -> Nat]]
        BY <2>1, <2>2 DEF Contar
    <2>. QED
        BY <1>5, <2>3 DEF pensarAleatorio, Comer, Pensar
<1>. QED
    BY <1>1, <1>2, <1>3, <1>4, <1>5 DEF Testar

-----------------------------------------------------------------------------
\* main changes no fork that a thread holds, and lets no thread hold one.
LEMMA MainOneHolder ==
    ASSUME IInv, Main
    PROVE  OneHolder'
<1>. USE DireitaInjetora, NAssumption
         DEF IInv, TypeOK, OneHolder, TemProprio, TemDireita
<1>1. CASE CriarThread
    BY <1>1 DEF CriarThread, Fases, Jovem
<1>2. CASE CriarThreadFalha
    BY <1>2 DEF CriarThreadFalha, Fases, Jovem
<1>3. CASE criarFilosofo
    BY <1>3 DEF criarFilosofo
<1>4. CASE Liberar \/ Terminar
    BY <1>4 DEF Liberar, Terminar
<1>5. CASE \E campo \in Campo : Imprimir(campo)
    BY <1>5 DEF Imprimir
<1>6. CASE Juntar
    BY <1>6 DEF Juntar
<1>7. CASE Destruir
    BY <1>7 DEF Destruir, Fases
<1>. QED
    BY <1>1, <1>2, <1>3, <1>4, <1>5, <1>6, <1>7 DEF Main

\* What a step of thread p does to the ownership that OneHolder speaks of.
LEMMA SamePossession ==
    ASSUME IInv, garfo' = garfo,
           \A q \in Filosofo : TemProprio(q)' = TemProprio(q),
           \A q \in Filosofo : TemDireita(q)' = TemDireita(q)
    PROVE  OneHolder'
<1>1. \A q \in Filosofo : DIREITA(q)' = DIREITA(q)
    BY DEF DIREITA
<1>2. OneHolder
    BY DEF IInv
<1>. QED
    BY <1>1, <1>2 DEF OneHolder, TemProprio, TemDireita

LEMMA TestarOneHolder ==
    ASSUME IInv, NEW p \in Filosofo, Testar(p)
    PROVE  OneHolder'
<1>. USE DEF TemProprio, TemDireita, Ir
<1>a. TypeOK /\ OneHolder
    BY DEF IInv
<1>b. /\ pc \in [Filosofo -> Passo]
          /\ garfo \in [Filosofo -> {"absent", "free", "held", "destroyed"}]
    BY <1>a DEF TypeOK
<1>c. DIREITA(p) \in Filosofo /\ DIREITA(p)' = DIREITA(p)
    BY DireitaInjetora DEF DIREITA
<1>1. CASE EsperarLiberador(p)
    BY <1>1, <1>b, SamePossession DEF EsperarLiberador
<1>2. CASE Continuar(p)
    BY <1>2, <1>b, SamePossession DEF Continuar
<1>3. CASE Sair(p)
    BY <1>3, <1>b, SamePossession DEF Sair
<1>4. CASE TentarProprio(p)
    <2>1. CASE garfo[p] = "free"
        BY <1>4, <2>1, <1>a, <1>b, DireitaInjetora DEF TentarProprio, OneHolder, DIREITA
    <2>2. CASE garfo[p] # "free"
        BY <1>4, <2>2, <1>b, SamePossession DEF TentarProprio
    <2>. QED  BY <2>1, <2>2
<1>5. CASE TentarDireita(p)
    <2>1. CASE garfo[DIREITA(p)] = "free"
        <3>1. /\ pc[p] = "right" /\ pc' = [pc EXCEPT ![p] = "eat"]
              /\ garfo' = [garfo EXCEPT ![DIREITA(p)] = "held"]
            BY <1>5, <2>1 DEF TentarDireita
        <3>2. ~ TemProprio(DIREITA(p)) /\ TemProprio(p)
            BY <2>1, <3>1, <1>a, <1>c DEF OneHolder
        <3>3. \A q \in Filosofo : q # p => DIREITA(q) # DIREITA(p)
            BY DireitaInjetora
        <3>. QED
            BY <3>1, <3>2, <3>3, <1>a, <1>b, <1>c DEF OneHolder, DIREITA
    <2>2. CASE garfo[DIREITA(p)] # "free"
        BY <1>5, <2>2, <1>b, SamePossession DEF TentarDireita
    <2>. QED  BY <2>1, <2>2
<1>6. CASE Devolver(p)
    BY <1>6, <1>a, <1>b, <1>c DEF Devolver, OneHolder, DIREITA
<1>7. CASE pensarAleatorio(p)
    BY <1>7, <1>b, SamePossession DEF pensarAleatorio
<1>8. CASE Comer(p)
    BY <1>8, <1>b, SamePossession DEF Comer
<1>9. CASE Pensar(p)
    BY <1>9, <1>b, SamePossession DEF Pensar
<1>10. CASE LargarProprio(p)
    BY <1>10, <1>a, <1>b, <1>c DEF LargarProprio, OneHolder, DIREITA
<1>11. CASE LargarDireita(p)
    BY <1>11, <1>a, <1>b, <1>c, DireitaInjetora DEF LargarDireita, OneHolder, DIREITA
<1>. QED
    BY <1>1, <1>2, <1>3, <1>4, <1>5, <1>6, <1>7, <1>8, <1>9, <1>10, <1>11 DEF Testar

-----------------------------------------------------------------------------
LEMMA MainFases ==
    ASSUME IInv, Main
    PROVE  Fases'
<1>. USE NAssumption DEF IInv, TypeOK, Fases, Jovem, Filosofo
<1>1. CASE CriarThread
    BY <1>1 DEF CriarThread
<1>2. CASE CriarThreadFalha
    BY <1>2 DEF CriarThreadFalha
<1>3. CASE criarFilosofo
    BY <1>3 DEF criarFilosofo
<1>4. CASE Liberar
    BY <1>4 DEF Liberar, Laco
<1>5. CASE Terminar
    BY <1>5 DEF Terminar
<1>6. ASSUME NEW campo \in Campo, Imprimir(campo)
      PROVE  Fases'
    <2>1. /\ mpc' \in {"comeu", "pensou", "tentou", "join"}
          /\ mpc' = "join" => i' = 0
          /\ mpc \in {"comeu", "pensou", "tentou"}
        BY <1>6 DEF Imprimir, Campo
    <2>. QED
        BY <1>6, <2>1 DEF Imprimir
<1>7. CASE Juntar
    <2>1. CASE i + 1 < N
        BY <1>7, <2>1 DEF Juntar, Laco
    <2>2. CASE ~ (i + 1 < N)
        <3>1. \A p \in Filosofo : p < i \/ p = i
            BY <2>2
        <3>. QED
            BY <1>7, <2>2, <3>1 DEF Juntar, Laco
    <2>. QED  BY <2>1, <2>2
<1>8. CASE Destruir
    <2>1. CASE i + 1 < N
        BY <1>8, <2>1 DEF Destruir, Laco
    <2>2. CASE ~ (i + 1 < N)
        BY <1>8, <2>2 DEF Destruir, Laco
    <2>. QED  BY <2>1, <2>2
<1>. QED
    BY <1>1, <1>2, <1>3, <1>4, <1>5, <1>6, <1>7, <1>8 DEF Main

LEMMA TestarFases ==
    ASSUME IInv, NEW p \in Filosofo, Testar(p)
    PROVE  Fases'
<1>. USE DireitaInjetora DEF IInv, TypeOK, Fases, Jovem, Ir
<1>1. CASE EsperarLiberador(p)
    BY <1>1 DEF EsperarLiberador
<1>2. CASE Continuar(p)
    BY <1>2 DEF Continuar
<1>3. CASE Sair(p)
    BY <1>3 DEF Sair
<1>4. CASE TentarProprio(p)
    BY <1>4 DEF TentarProprio
<1>5. CASE TentarDireita(p)
    BY <1>5 DEF TentarDireita
<1>6. CASE Devolver(p)
    BY <1>6 DEF Devolver
<1>7. CASE LargarProprio(p)
    BY <1>7 DEF LargarProprio
<1>8. CASE LargarDireita(p)
    BY <1>8 DEF LargarDireita
<1>9. CASE pensarAleatorio(p)
    BY <1>9 DEF pensarAleatorio
<1>10. CASE Comer(p)
    BY <1>10 DEF Comer
<1>11. CASE Pensar(p)
    BY <1>11 DEF Pensar
<1>. QED
    BY <1>1, <1>2, <1>3, <1>4, <1>5, <1>6, <1>7, <1>8, <1>9, <1>10, <1>11
    DEF Testar

-----------------------------------------------------------------------------
LEMMA NextIInv == IInv /\ [Next]_vars => IInv'
<1>. SUFFICES ASSUME IInv, [Next]_vars PROVE IInv'
    OBVIOUS
<1>1. CASE Main
    BY <1>1, MainTypeOK, MainOneHolder, MainFases DEF IInv
<1>2. ASSUME NEW p \in Filosofo, Testar(p) PROVE IInv'
    BY <1>2, TestarTypeOK, TestarOneHolder, TestarFases DEF IInv
<1>3. CASE UNCHANGED vars
    BY <1>3 DEF vars, IInv, TypeOK, OneHolder, Fases, Jovem, TemProprio, TemDireita
<1>. QED
    BY <1>1, <1>2, <1>3 DEF Next, Encerrado

LEMMA SpecIInv == Spec => []IInv
BY InitIInv, NextIInv, PTL DEF Spec

LEMMA IInvForksAlive == IInv => ForksAlive
BY DireitaInjetora
   DEF IInv, TypeOK, Fases, ForksAlive, UsaGarfos, Jovem, Parada

\* Every variable keeps its type, for any number of philosophers.
THEOREM TypeCorrect == Spec => []TypeOK
BY SpecIInv, PTL DEF IInv

\* A fork is locked exactly while one thread is between its trylock and its
\* unlock, for any number of philosophers.
THEOREM ForksHaveOneHolder == Spec => []OneHolder
BY SpecIInv, PTL DEF IInv

\* No thread uses a fork that main has not made yet or has begun to destroy.
THEOREM ForksUsedAlive == Spec => []ForksAlive
BY SpecIInv, IInvForksAlive, PTL

\* main destroys only forks that nobody holds.
THEOREM ForksDestroyedFree == Spec => DestroyedWhenFree
<1>1. ASSUME IInv, [Next]_vars, NEW f \in Filosofo,
             garfo'[f] = "destroyed", garfo[f] # "destroyed"
      PROVE  garfo[f] = "free"
    <2>1. CASE Main
        <3>1. CASE Destruir
            <4>1. f = i /\ mpc = "destroy"
                BY <1>1, <3>1 DEF Destruir, IInv, TypeOK
            <4>2. /\ garfo[f] \in {"free", "held"}
                  /\ \A p \in Filosofo : pc[p] = "done"
                BY <1>1, <4>1, NAssumption DEF IInv, TypeOK, Fases, Filosofo
            <4>3. garfo[f] # "held"
                BY <1>1, <4>2 DEF IInv, OneHolder, TemProprio, TemDireita
            <4>. QED  BY <4>2, <4>3
        <3>2. CASE CriarThread \/ CriarThreadFalha
            BY <1>1, <3>2 DEF CriarThread, CriarThreadFalha, IInv, TypeOK
        <3>. QED
            BY <1>1, <2>1, <3>1, <3>2
               DEF Main, criarFilosofo, Liberar, Terminar, Imprimir, Juntar
    <2>2. ASSUME NEW p \in Filosofo, Testar(p) PROVE FALSE
        BY <1>1, <2>2, DireitaInjetora
           DEF Testar, EsperarLiberador, Continuar, Sair, TentarProprio,
               TentarDireita, Devolver, pensarAleatorio, Comer, LargarProprio,
               LargarDireita, Pensar, IInv, TypeOK
    <2>. QED
        BY <1>1, <2>1, <2>2 DEF Next, Encerrado, vars
<1>2. IInv /\ [Next]_vars =>
        [\A f \in Filosofo :
           garfo'[f] = "destroyed" /\ garfo[f] # "destroyed" => garfo[f] = "free"]_vars
    BY <1>1
<1>. QED
    BY <1>2, SpecIInv, PTL DEF Spec, DestroyedWhenFree

-----------------------------------------------------------------------------
\* A step that changes who eats seats a philosopher whose neighbours do not
\* eat, or lets one get up.
LEMMA StepOfBanquet ==
    ASSUME IInv, [Next]_vars
    PROVE  [Jantar!Next]_comendo
<1>1. ASSUME NEW p \in Filosofo, TentarDireita(p)
      PROVE  [Jantar!Next]_comendo
    <2>1. CASE garfo[DIREITA(p)] = "free"
        <3>1. comendo' = comendo \cup {p}
            BY <1>1, <2>1 DEF TentarDireita, Ir, comendo, IInv, TypeOK
        <3>2. ASSUME NEW q \in comendo, Jantar!Vizinhos(p, q) PROVE FALSE
            <4>1. pc[p] = "right" /\ pc[q] = "eat" /\ q \in Filosofo
                BY <1>1, <2>1, <3>2 DEF TentarDireita, Ir, comendo
            <4>2. CASE q = DIREITA(p)
                BY <4>1, <4>2, <2>1 DEF IInv, OneHolder, TemProprio
            <4>3. CASE p = DIREITA(q)
                BY <4>1, <4>3 DEF IInv, OneHolder, TemProprio, TemDireita
            <4>. QED
                BY <3>2, <4>2, <4>3 DEF Jantar!Vizinhos, Jantar!Direita, DIREITA
        <3>3. Jantar!Sentar(p)
            BY <3>1, <3>2 DEF Jantar!Sentar
        <3>. QED
            BY <3>3 DEF Jantar!Next, Jantar!Pessoa, Filosofo
    <2>2. CASE garfo[DIREITA(p)] # "free"
        BY <1>1, <2>2 DEF TentarDireita, Ir, comendo, IInv, TypeOK
    <2>. QED  BY <2>1, <2>2
<1>2. ASSUME NEW p \in Filosofo, Comer(p)
      PROVE  [Jantar!Next]_comendo
    <2>1. comendo' = comendo \ {p}
        BY <1>2 DEF Comer, Ir, comendo, IInv, TypeOK
    <2>. QED
        BY <2>1 DEF Jantar!Next, Jantar!Levantar, Jantar!Pessoa, Filosofo
<1>3. ASSUME NEW p \in Filosofo, Testar(p), ~ TentarDireita(p), ~ Comer(p)
      PROVE  comendo' = comendo
    BY <1>3
       DEF Testar, EsperarLiberador, Continuar, Sair, TentarProprio, Devolver,
           pensarAleatorio, LargarProprio, LargarDireita, Pensar, Ir, comendo,
           IInv, TypeOK
<1>4. CASE CriarThread
    BY <1>4 DEF CriarThread, comendo, IInv, TypeOK, Fases, Jovem
<1>5. CASE Main /\ ~ CriarThread
    BY <1>5
       DEF Main, CriarThreadFalha, criarFilosofo, Liberar, Terminar, Imprimir,
           Juntar, Destruir, comendo
<1>6. CASE UNCHANGED vars
    BY <1>6 DEF vars, comendo
<1>. QED
    BY <1>1, <1>2, <1>3, <1>4, <1>5, <1>6 DEF Next, Encerrado

\* The threads implement the banquet, so neighbours never eat together.
THEOREM ImplementsBanquet == Spec => BanquetSpec
<1>1. Init => Jantar!Init
    BY DEF Init, Jantar!Init, comendo
<1>. QED
    BY <1>1, SpecIInv, StepOfBanquet, PTL DEF Spec, BanquetSpec, Jantar!Spec

-----------------------------------------------------------------------------
\* Thread p is in a round that no counter shows yet, or, for pensou, in one that
\* may still end in a pause.
EmCurso(p, campo) ==
    \/ pc[p] \in {"own", "right", "eat"}
    \/ campo # "pensou" /\ pc[p] \in {"release", "retry"}
    \/ campo = "pensou" /\ pc[p] \in {"dropOwn", "dropRight", "think"}

\* Once fim is 0, a counter that is printed misses nothing, or the one round
\* that was under way and is over.
Relato ==
    /\ mpc = "sleep" => i = 0
    /\ mpc \in Campo \cup {"join", "destroy"} => fim = 0
    /\ \A p \in Filosofo :
          /\ \A campo \in Campo : Printed(p, campo) =>
                /\ Missed(p, campo) \in 0 .. 1
                /\ EmCurso(p, campo) => Missed(p, campo) = 0
          /\ Printed(p, "comeu") /\ Printed(p, "tentou") =>
                Missed(p, "comeu") + Missed(p, "tentou") <= 1

LEMMA RelatoImplies == Relato => ReportAlmostFinal
BY DEF Relato, ReportAlmostFinal

\* A step that leaves the counters, and what is printed, alone.
LEMMA SameCounters ==
    ASSUME Relato, relatorio' = relatorio, impresso' = impresso, mpc' = mpc, i' = i,
           fim' = fim, \A p \in Filosofo, campo \in Campo :
               EmCurso(p, campo)' => EmCurso(p, campo) \/ ~ Printed(p, campo)
    PROVE  Relato'
<1>1. \A p \in Filosofo, campo \in Campo :
          /\ Printed(p, campo)' = Printed(p, campo)
          /\ Missed(p, campo)' = Missed(p, campo)
    BY DEF Printed, Missed
<1>2. "comeu" \in Campo /\ "tentou" \in Campo
    BY DEF Campo
<1>. QED
    BY <1>1, <1>2 DEF Relato

\* One line of the report.
LEMMA ImprimirRelato ==
    ASSUME TypeOK, Relato, NEW campo \in Campo, Imprimir(campo)
    PROVE  Relato'
<1>. USE DEF Imprimir, TypeOK, Filosofo
<1>1. \A p \in Filosofo, c \in Campo :
          Printed(p, c)' => Printed(p, c) \/ (p = i /\ c = campo)
    <2>. SUFFICES ASSUME NEW p \in Filosofo, NEW c \in Campo, Printed(p, c)'
                  PROVE  Printed(p, c) \/ (p = i /\ c = campo)
        OBVIOUS
    <2>. USE DEF Printed, Campo
    <2>1. CASE campo = "comeu"
        BY <2>1
    <2>2. CASE campo = "pensou"
        BY <2>2
    <2>3. CASE campo = "tentou"
        <3>0. p \in Int /\ i \in Int /\ N \in Int /\ p < N
            BY NAssumption
        <3>1. p < i \/ p = i
            <4>1. CASE i + 1 = N
                BY <3>0, <4>1
            <4>2. CASE mpc' = "comeu" /\ i' = i + 1
                <5>1. p < i + 1
                    BY <4>2
                <5>. QED  BY <3>0, <5>1
            <4>. QED
                BY <2>3, <4>1, <4>2
        <3>. QED
            BY <2>3, <3>1
    <2>. QED  BY <2>1, <2>2, <2>3
<1>2. \A p \in Filosofo, c \in Campo :
          Missed(p, c)' = IF p = i /\ c = campo THEN 0 ELSE Missed(p, c)
    BY DEF Missed
<1>3. \A p \in Filosofo, c \in Campo : EmCurso(p, c)' = EmCurso(p, c)
    BY DEF EmCurso
<1>4. fim' = fim /\ mpc' \in Campo \cup {"join"} /\ fim = 0
    BY DEF Relato, Campo
<1>5. mpc' # "sleep"
    BY <1>4 DEF Campo
<1>6. "comeu" \in Campo /\ "tentou" \in Campo
    BY DEF Campo
<1>7. ASSUME NEW p \in Filosofo, NEW c \in Campo, Printed(p, c)'
      PROVE  /\ Missed(p, c)' \in 0 .. 1
             /\ EmCurso(p, c)' => Missed(p, c)' = 0
    BY <1>1, <1>2, <1>3, <1>7 DEF Relato
<1>8. ASSUME NEW p \in Filosofo, Printed(p, "comeu")', Printed(p, "tentou")'
      PROVE  Missed(p, "comeu")' + Missed(p, "tentou")' <= 1
    <2>1. CASE p = i /\ campo \in {"comeu", "tentou"}
        <3>1. Missed(p, "comeu")' = 0 \/ Missed(p, "tentou")' = 0
            BY <1>2, <1>6, <2>1
        <3>. QED
            BY <1>6, <1>7, <1>8, <3>1
    <2>2. CASE ~ (p = i /\ campo \in {"comeu", "tentou"})
        BY <1>1, <1>2, <1>6, <1>8, <2>2 DEF Relato
    <2>. QED  BY <2>1, <2>2
<1>. QED
    BY <1>4, <1>5, <1>7, <1>8 DEF Relato

LEMMA MainRelato ==
    ASSUME TypeOK, Relato, Main
    PROVE  Relato'
<1>. USE DEF TypeOK, Filosofo
<1>1. CASE CriarThread \/ CriarThreadFalha \/ criarFilosofo \/ Destruir
    <2>1. CASE Destruir
        <3>1. mpc' = "destroy" \/ mpc' = "returned"
            BY <2>1 DEF Destruir, Laco
        <3>. QED
            BY <2>1, <3>1 DEF Destruir, Relato, Printed, Missed, EmCurso, Campo
    <2>2. CASE CriarThread \/ CriarThreadFalha \/ criarFilosofo
        <3>1. mpc' \in {"create", "criarFilosofo", "post", "returned"}
            BY <2>2 DEF CriarThread, CriarThreadFalha, criarFilosofo
        <3>. QED
            BY <3>1 DEF Relato, Printed, Campo
    <2>. QED  BY <1>1, <2>1, <2>2
<1>2. CASE Liberar
    <2>1. mpc' = "post" \/ (mpc' = "sleep" /\ i' = 0)
        BY <1>2 DEF Liberar, Laco
    <2>. QED
        BY <2>1 DEF Relato, Printed, Campo
<1>3. CASE Terminar
    <2>1. mpc' = "comeu" /\ i' = 0 /\ fim' = 0
        BY <1>3 DEF Terminar, Relato
    <2>. QED
        BY <2>1, NAssumption DEF Relato, Printed, Campo
<1>4. CASE \E campo \in Campo : Imprimir(campo)
    BY <1>4, ImprimirRelato
<1>5. CASE Juntar
    <2>1. mpc = "join" /\ mpc' \in {"join", "destroy"}
        BY <1>5 DEF Juntar, Laco
    <2>. QED
        BY <1>5, <2>1 DEF Juntar, Relato, Printed, Missed, EmCurso, Campo
<1>. QED
    BY <1>1, <1>2, <1>3, <1>4, <1>5 DEF Main

\* Thread p counts what its round has come to.
LEMMA ContarRelato ==
    ASSUME TypeOK, Relato, NEW p \in Filosofo, NEW campo \in Campo,
           Contar(p, campo), EmCurso(p, campo),
           campo # "pensou" => EmCurso(p, "comeu") /\ EmCurso(p, "tentou"),
           NEW para \in Passo, pc' = [pc EXCEPT ![p] = para],
           \A c \in Campo : EmCurso(p, c)' => EmCurso(p, c) /\ c # campo,
           campo # "pensou" => ~ EmCurso(p, "comeu")' /\ ~ EmCurso(p, "tentou")',
           UNCHANGED <<fim, mpc, i, impresso>>
    PROVE  Relato'
<1>. USE DEF TypeOK, Filosofo
<1>1. \A q \in Filosofo, c \in Campo : Printed(q, c)' = Printed(q, c)
    BY DEF Printed
<1>2. \A q \in Filosofo, c \in Campo :
          Missed(q, c)' = IF q = p /\ c = campo THEN Missed(q, c) + 1 ELSE Missed(q, c)
    BY DEF Missed, Contar
<1>3. \A q \in Filosofo \ {p}, c \in Campo : EmCurso(q, c)' = EmCurso(q, c)
    BY DEF EmCurso
<1>4. "comeu" \in Campo /\ "tentou" \in Campo
    BY DEF Campo
<1>5. ASSUME NEW q \in Filosofo, NEW c \in Campo, Printed(q, c)'
      PROVE  /\ Missed(q, c)' \in 0 .. 1
             /\ EmCurso(q, c)' => Missed(q, c)' = 0
    BY <1>1, <1>2, <1>3, <1>5 DEF Relato
<1>6. ASSUME NEW q \in Filosofo, Printed(q, "comeu")', Printed(q, "tentou")'
      PROVE  Missed(q, "comeu")' + Missed(q, "tentou")' <= 1
    <2>1. CASE q = p /\ campo # "pensou"
        <3>1. Missed(p, "comeu") = 0 /\ Missed(p, "tentou") = 0
            BY <1>1, <1>4, <1>6, <2>1 DEF Relato
        <3>. QED
            BY <1>2, <1>4, <2>1, <3>1
    <2>2. CASE q # p \/ campo = "pensou"
        BY <1>1, <1>2, <1>4, <1>6, <2>2 DEF Relato
    <2>. QED  BY <2>1, <2>2
<1>. QED
    BY <1>5, <1>6 DEF Relato

LEMMA TestarRelato ==
    ASSUME TypeOK, Relato, NEW p \in Filosofo, Testar(p)
    PROVE  Relato'
<1>. USE DEF TypeOK, Ir, Passo
<1>1. CASE EsperarLiberador(p)
    BY <1>1, SameCounters DEF EsperarLiberador, EmCurso
<1>2. CASE Continuar(p)
    <2>1. \A q \in Filosofo, c \in Campo : ~ Printed(q, c)
        BY <1>2 DEF Continuar, Relato, Printed, Campo
    <2>. QED
        BY <1>2, <2>1, SameCounters DEF Continuar
<1>3. CASE Sair(p)
    BY <1>3, SameCounters DEF Sair, EmCurso
<1>4. CASE TentarProprio(p) \/ TentarDireita(p)
    BY <1>4, SameCounters DEF TentarProprio, TentarDireita, EmCurso
<1>5. CASE Devolver(p) \/ LargarProprio(p) \/ LargarDireita(p)
    BY <1>5, SameCounters DEF Devolver, LargarProprio, LargarDireita, EmCurso
<1>6. CASE pensarAleatorio(p)
    BY <1>6, ContarRelato DEF pensarAleatorio, EmCurso, Campo
<1>7. CASE Comer(p)
    BY <1>7, ContarRelato DEF Comer, EmCurso, Campo
<1>8. CASE Pensar(p)
    BY <1>8, ContarRelato DEF Pensar, EmCurso, Campo
<1>. QED
    BY <1>1, <1>2, <1>3, <1>4, <1>5, <1>6, <1>7, <1>8 DEF Testar

\* The report misses at most the round each philosopher was in when main cleared
\* fim, for any number of philosophers and rounds.
THEOREM ReportMissesOneRound == Spec => []ReportAlmostFinal
<1>1. Init => Relato
    BY DEF Init, Relato, Printed, Campo
<1>2. TypeOK /\ Relato /\ [Next]_vars => Relato'
    <2>1. ASSUME TypeOK, Relato, UNCHANGED vars PROVE Relato'
        BY <2>1 DEF vars, Relato, Printed, Missed, EmCurso
    <2>. QED
        BY <2>1, MainRelato, TestarRelato DEF Next, Encerrado
<1>. QED
    BY <1>1, <1>2, TypeCorrect, RelatoImplies, PTL DEF Spec
=============================================================================
