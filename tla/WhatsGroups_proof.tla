-------------------------- MODULE WhatsGroups_proof --------------------------
(***************************************************************************)
(* Proofs about WhatsGroups, for any users, contacts, members and bounds:  *)
(* the types, MembrosConhecidos, GrupoCompleto and EntregueATodos.         *)
(*                                                                         *)
(* Base is kept by every step, whatever processes die.  The server's loop  *)
(* over the members it is told of is a recursive function; what it leaves  *)
(* of the contacts (Apresentados) is shown turn by turn.                   *)
(*                                                                         *)
(* GrupoCompleto needs the whole round of a command: as long as everybody  *)
(* that was asked has accepted, all of them have the group (Convidados),   *)
(* which only holds because an answer is never taken for that of another   *)
(* member or command (Esperas).  EntregueATodos needs the same of a text   *)
(* (Conversa), that the group a name stands for stays the same (LocFica),  *)
(* and that its members are distinct: no text comes to a file twice.  All  *)
(* of this is lost when a process dies.                                    *)
(***************************************************************************)
EXTENDS WhatsGroups, FiniteSetTheorems, SequenceTheorems, WellFoundedInduction, TLAPS

\* What an entry says of the group that u has made, and m is in.
Igual(h, m, u, nome, membros) ==
    /\ h.nome = nome /\ h.criador = u
    /\ ToSet(h.membros) \cup {m} = ToSet(membros) \cup {u}

\* m has the group that u has made, or no room for it.
Tem(m, u, nome, membros) ==
    \/ \E j \in DOMAIN grupos[m] : Igual(grupos[m][j], m, u, nome, membros)
    \/ Len(grupos[m]) = MaxGrupos

\* How many members have been asked.
Perguntados(u) == Len(comando[u].membros) - Len(comando[u].faltam)

\* What contacts, groups, commands and messages are like, whatever happens.
FormaContatos == \A u \in User : IsFiniteSet(contatos[u])
FormaGrupos ==
    \A u \in User : \A k \in DOMAIN grupos[u] :
        grupos[u][k].membros # <<>> /\ IsInjective(grupos[u][k].membros)
FormaComando ==
    \A u \in User :
        LET c == comando[u] IN
        /\ pc[u] # "ocioso" => c.tipo # "nada"
        /\ c.tipo # "nada" => c.grupo \in Nome
        /\ c.tipo = "ADD_GROUP" =>
              /\ IsInjective(c.membros) /\ u \notin ToSet(c.membros)
              /\ ToSet(c.membros) \subseteq contatos[u]
FormaFila ==
    \A v \in User : \A k \in DOMAIN fila[v] :
        fila[v][k].tipo = "ADD_GROUP" =>
            IsInjective(fila[v][k].to) /\ fila[v][k].from \notin ToSet(fila[v][k].to)

Formas == FormaContatos /\ FormaGrupos /\ FormaComando /\ FormaFila

Pendente(m) == m.tipo # "READ_MSGS_GROUP"

\* While all processes run, an answer comes only to a client that waits, and a
\* message that will be answered belongs to the command its client executes now,
\* and is the only one of that client.
SoQuemEspera ==
    \A u \in User : resposta[u] # "perdida" /\ (resposta[u] # "nenhuma" => pc[u] = "esperar")
Devida(u, v, m) ==
    /\ pc[u] = "esperar" /\ resposta[u] = "nenhuma"
    /\ v = Alvo(u) /\ m = Mensagem(u)
Devidas ==
    \A v \in User : \A k \in DOMAIN fila[v] :
        Pendente(fila[v][k]) => Devida(fila[v][k].from, v, fila[v][k])
UmaSo ==
    \A v \in User : \A j, k \in DOMAIN fila[v] :
        /\ Pendente(fila[v][j]) /\ Pendente(fila[v][k])
        /\ fila[v][j].from = fila[v][k].from
        => j = k

Esperas == SoQuemEspera /\ Devidas /\ UmaSo

\* The members u has asked have the group, if all of them have accepted; so does
\* the one whose acceptance is on its way.
Convidados(u) ==
    LET c == comando[u] IN
    c.tipo = "ADD_GROUP" /\ pc[u] \in {"conectar", "esperar"} =>
        /\ aux[u] = Perguntados(u) =>
              \A i \in 1 .. Perguntados(u) : Tem(c.membros[i], u, c.grupo, c.membros)
        /\ resposta[u] = "RET_MSG_GROUP_OK" => Tem(Alvo(u), u, c.grupo, c.membros)

Completos ==
    \A u \in User : \A k \in DOMAIN grupos[u] :
        LET g == grupos[u][k] IN
        g.criador = u => \A m \in ToSet(g.membros) : Tem(m, u, g.nome, g.membros)

Calma == Esperas /\ (\A u \in User : Convidados(u)) /\ Completos

\* m has the text txt of u in its file of the group g.
Recebeu(m, u, g, txt) ==
    \E j \in DOMAIN arquivo[m][g].ent : arquivo[m][g].ent[j] = [from |-> u, txt |-> txt]

\* m has no text of u in its file of g but older ones than txt.
Antes(m, u, g, txt) ==
    \A j \in DOMAIN arquivo[m][g].ent :
        arquivo[m][g].ent[j].from = u => arquivo[m][g].ent[j].txt < txt

\* The text u sends is its last one and goes to the first group of that name; those
\* who have not got it have older ones only; if all have accepted so far, all of
\* them have got it.
Conversa(u) ==
    LET c == comando[u] IN
    c.tipo = "MSG_TXT_GROUP" =>
        /\ c.txt = digitados[u] /\ GroupwithNameExist(u, c.grupo) # 0
        /\ c.membros = grupos[u][GroupwithNameExist(u, c.grupo)].membros
        /\ pc[u] \in {"conectar", "esperar"} =>
              /\ \A i \in Perguntados(u) + 1 .. Len(c.membros) :
                    \/ i = Perguntados(u) + 1 /\ resposta[u] # "nenhuma"
                    \/ Antes(c.membros[i], u, c.grupo, c.txt)
              /\ aux[u] = Perguntados(u) =>
                    \A i \in 1 .. Perguntados(u) : Recebeu(c.membros[i], u, c.grupo, c.txt)
              /\ resposta[u] = "RET_MSG_GROUP_OK" => Recebeu(Alvo(u), u, c.grupo, c.txt)

\* The texts of one user are in every file in the order they were typed.
Ordem ==
    \A m \in User, g \in Nome :
        LET ent == arquivo[m][g].ent IN
        /\ \A j \in DOMAIN ent : ent[j].txt <= digitados[ent[j].from]
        /\ \A i, j \in DOMAIN ent : ent[i].from = ent[j].from /\ i < j => ent[i].txt < ent[j].txt

Guardados ==
    \A u \in User, g \in Nome :
        arquivo[u][g].sai # <<>> =>
            /\ GroupwithNameExist(u, g) # 0
            /\ \A m \in ToSet(grupos[u][GroupwithNameExist(u, g)].membros) :
                  \A k \in DOMAIN arquivo[u][g].sai : Recebeu(m, u, g, arquivo[u][g].sai[k])

Falada == (\A u \in User : Conversa(u)) /\ Ordem /\ Guardados

Base == TypeOK /\ Formas /\ MembrosConhecidos

IInv == Base /\ (NinguemCaiu => Calma /\ Falada)

-----------------------------------------------------------------------------
(***************************************************************************)
(* Numbers and sequences.                                                  *)
(***************************************************************************)
\* Every set of numbers that is not empty has a smallest one.
LEMMA Menor ==
    ASSUME NEW T \in SUBSET Nat, T # {}
    PROVE  \E n \in T : \A m \in T : n <= m
<1>. DEFINE R == {q \in Nat \X Nat : q[1] < q[2]}
<1>1. IsWellFoundedOn(R, Nat)
    BY NatLessThanWellFounded DEF OpToRel
<1>2. PICK n \in T : \A m \in T : ~ (<<m, n>> \in R)
    <2>. HIDE DEF R
    <2>. QED
        BY <1>1, WFMin
<1>3. \A m \in T : ~ (m < n)
    BY <1>2
<1>. QED
    BY <1>3

\* Induction up to n, over a set: P holds the numbers it has been shown for.
LEMMA Inducao ==
    ASSUME NEW n \in Nat, NEW P, 0 \in P, \A j \in 1 .. n : j - 1 \in P => j \in P
    PROVE  0 .. n \subseteq P
<1>. SUFFICES ASSUME (0 .. n) \ P # {} PROVE FALSE
    OBVIOUS
<1>. DEFINE T == (0 .. n) \ P
<1>0. T \in SUBSET Nat /\ T # {}
    OBVIOUS
<1>1. PICK j \in T : \A m \in T : j <= m
    <2>. HIDE DEF T
    <2>. QED
        BY <1>0, Menor
<1>2. j \in 1 .. n /\ j - 1 \in 0 .. n /\ ~ (j <= j - 1)
    BY <1>1
<1>3. j - 1 \in P
    BY <1>1, <1>2
<1>. QED
    BY <1>1, <1>2, <1>3

LEMMA MinTipo ==
    ASSUME NEW T \in SUBSET Nat, T # {}
    PROVE  Min(T) \in T /\ \A m \in T : Min(T) <= m
<1>1. \E n \in T : \A m \in T : n <= m
    BY Menor
<1>. QED
    BY <1>1 DEF Min

\* Sequences, by their functions.
LEMMA Funcao ==
    ASSUME NEW S, NEW s \in Seq(S)
    PROVE  /\ Len(s) \in Nat /\ DOMAIN s = 1 .. Len(s)
           /\ \A k \in 1 .. Len(s) : s[k] \in S
           /\ ToSet(s) = {s[k] : k \in 1 .. Len(s)} /\ ToSet(s) \subseteq S
BY DEF ToSet

\* A sequence of distinct elements without one of them has the others.
LEMMA SemUm ==
    ASSUME NEW S, NEW s \in Seq(S), IsInjective(s), NEW v
    PROVE  /\ RemoveFirst(s, v) \in Seq(S) /\ IsInjective(RemoveFirst(s, v))
           /\ ToSet(RemoveFirst(s, v)) = ToSet(s) \ {v}
<1>1. CASE \E i \in 1 .. Len(s) : s[i] = v
    <2>. DEFINE I == {i \in 1 .. Len(s) : s[i] = v}
                n == SelectInSeq(s, LAMBDA x : x = v)
                a == SubSeq(s, 1, n - 1)
                b == SubSeq(s, n + 1, Len(s))
    <2>1. n \in 1 .. Len(s) /\ s[n] = v
        <3>1. I \in SUBSET Nat /\ I # {}
            BY <1>1
        <3>2. n = Min(I)
            BY <3>1 DEF SelectInSeq
        <3>3. Min(I) \in I
            BY <3>1, MinTipo
        <3>. QED
            BY <3>2, <3>3
    <2>2. RemoveFirst(s, v) = a \o b
        BY <1>1 DEF RemoveFirst, RemoveAt
    <2>. HIDE DEF n
    <2>3. /\ a \in Seq(S) /\ Len(a) = n - 1 /\ \A k \in 1 .. n - 1 : a[k] = s[k]
          /\ b \in Seq(S) /\ Len(b) = Len(s) - n
          /\ \A k \in 1 .. Len(s) - n : b[k] = s[n + k]
        BY <2>1
    <2>. HIDE DEF a, b
    <2>4. /\ a \o b \in Seq(S) /\ Len(a \o b) = Len(s) - 1
          /\ \A k \in 1 .. Len(s) - 1 : (a \o b)[k] = IF k < n THEN s[k] ELSE s[k + 1]
        <3>1. a \o b \in Seq(S) /\ Len(a \o b) = Len(s) - 1
            <4>1. Len(s) \in Nat /\ n \in Nat /\ (n - 1) + (Len(s) - n) = Len(s) - 1
                BY <2>1
            <4>2. a \o b \in Seq(S) /\ Len(a \o b) = Len(a) + Len(b)
                <5>1. a \in Seq(S) /\ b \in Seq(S)
                    BY <2>3
                <5>. QED
                    BY <5>1
            <4>. QED
                BY <2>3, <4>1, <4>2
        <3>2. \A k \in 1 .. Len(s) - 1 : (a \o b)[k] = IF k <= n - 1 THEN a[k] ELSE b[k - (n - 1)]
            BY <2>1, <2>3
        <3>3. ASSUME NEW k \in 1 .. Len(s) - 1 PROVE (a \o b)[k] = IF k < n THEN s[k] ELSE s[k + 1]
            <4>1. CASE k < n
                BY <2>1, <2>3, <3>2, <4>1
            <4>2. CASE ~ (k < n)
                <5>1. k - (n - 1) \in 1 .. Len(s) - n /\ n + (k - (n - 1)) = k + 1 /\ ~ (k <= n - 1)
                    BY <2>1, <4>2
                <5>. QED
                    BY <2>3, <3>2, <4>2, <5>1
            <4>. QED
                BY <4>1, <4>2
        <3>. QED
            BY <3>1, <3>3
    <2>. DEFINE c == a \o b
    <2>. HIDE DEF c
    <2>5. ToSet(c) = {c[k] : k \in 1 .. Len(s) - 1}
        BY <2>4, Funcao DEF c
    <2>6. ToSet(c) \subseteq ToSet(s) \ {v}
        <3>1. ASSUME NEW k \in 1 .. Len(s) - 1 PROVE c[k] \in ToSet(s) \ {v}
            <4>. DEFINE i == IF k < n THEN k ELSE k + 1
            <4>1. i \in 1 .. Len(s) /\ i # n /\ c[k] = s[i]
                BY <2>1, <2>4, <3>1 DEF c
            <4>2. s[i] # s[n]
                BY <2>1, <4>1 DEF IsInjective
            <4>. QED
                BY <2>1, <4>1, <4>2, Funcao
        <3>. QED
            BY <2>5, <3>1
    <2>7. ToSet(s) \ {v} \subseteq ToSet(c)
        <3>1. ASSUME NEW i \in 1 .. Len(s), s[i] # v PROVE s[i] \in ToSet(c)
            <4>. DEFINE k == IF i < n THEN i ELSE i - 1
            <4>1. i # n
                BY <2>1, <3>1
            <4>2. k \in 1 .. Len(s) - 1 /\ c[k] = s[i]
                BY <2>1, <2>4, <4>1 DEF c
            <4>. QED
                BY <2>5, <4>2
        <3>. QED
            BY <3>1, Funcao
    <2>8. IsInjective(c)
        <3>1. ASSUME NEW j \in 1 .. Len(s) - 1, NEW k \in 1 .. Len(s) - 1, c[j] = c[k]
              PROVE  j = k
            <4>. DEFINE onde(x) == IF x < n THEN x ELSE x + 1
            <4>1. /\ onde(j) \in 1 .. Len(s) /\ c[j] = s[onde(j)]
                  /\ onde(k) \in 1 .. Len(s) /\ c[k] = s[onde(k)]
                BY <2>1, <2>4 DEF c
            <4>2. DOMAIN s = 1 .. Len(s)
                OBVIOUS
            <4>. HIDE DEF onde
            <4>3. onde(j) = onde(k)
                BY <3>1, <4>1, <4>2 DEF IsInjective
            <4>. QED
                BY <2>1, <4>3 DEF onde
        <3>2. DOMAIN c = 1 .. Len(s) - 1
            BY <2>4 DEF c
        <3>. QED
            BY <3>1, <3>2 DEF IsInjective
    <2>. QED
        BY <2>2, <2>4, <2>6, <2>7, <2>8 DEF c
<1>2. CASE ~ \E i \in 1 .. Len(s) : s[i] = v
    BY <1>2, Funcao DEF RemoveFirst
<1>. QED
    BY <1>1, <1>2

\* What is still to be done, as the end of what was to be done.
LEMMA Sufixo ==
    ASSUME NEW S, NEW s \in Seq(S), NEW t \in Seq(S)
    PROVE  IsSuffix(s, t) <=>
              /\ Len(s) <= Len(t)
              /\ \A i \in 1 .. Len(s) : s[i] = t[Len(t) - Len(s) + i]
<1>. DEFINE rs == Reverse(s)
            rt == Reverse(t)
            n == Len(s)
            m == Len(t)
<1>1. n \in Nat /\ m \in Nat
    OBVIOUS
<1>2. /\ rs \in Seq(S) /\ Len(rs) = n /\ \A i \in 1 .. n : rs[i] = s[n - i + 1]
      /\ rt \in Seq(S) /\ Len(rt) = m /\ \A i \in 1 .. m : rt[i] = t[m - i + 1]
    <2>1. \A i \in 1 .. n : n - i + 1 \in 1 .. n
        BY <1>1
    <2>2. \A i \in 1 .. m : m - i + 1 \in 1 .. m
        BY <1>1
    <2>3. rs \in [1 .. n -> S] /\ rt \in [1 .. m -> S]
        BY <2>1, <2>2, Funcao DEF Reverse
    <2>. QED
        BY <2>3, <1>1 DEF Reverse
<1>. HIDE DEF rs, rt
<1>3. ASSUME n <= m
      PROVE  SubSeq(rs, 1, n) = SubSeq(rt, 1, n) <=> \A i \in 1 .. n : rs[i] = rt[i]
    <2>1. SubSeq(rs, 1, n) = [i \in 1 .. n |-> rs[i]] /\ SubSeq(rt, 1, n) = [i \in 1 .. n |-> rt[i]]
        BY <1>1, <1>2, <1>3
    <2>. QED
        BY <2>1
<1>4. ASSUME n <= m
      PROVE  (\A i \in 1 .. n : rs[i] = rt[i]) <=> (\A i \in 1 .. n : s[i] = t[m - n + i])
    <2>1. ASSUME \A i \in 1 .. n : rs[i] = rt[i], NEW i \in 1 .. n PROVE s[i] = t[m - n + i]
        <3>. DEFINE j == n - i + 1
        <3>1. j \in 1 .. n /\ j \in 1 .. m /\ n - j + 1 = i /\ m - j + 1 = m - n + i
            BY <1>1, <1>4
        <3>2. rs[j] = s[n - j + 1] /\ rt[j] = t[m - j + 1] /\ rs[j] = rt[j]
            BY <1>2, <2>1, <3>1
        <3>. QED
            BY <3>1, <3>2
    <2>2. ASSUME \A i \in 1 .. n : s[i] = t[m - n + i], NEW i \in 1 .. n PROVE rs[i] = rt[i]
        <3>. DEFINE j == n - i + 1
        <3>1. j \in 1 .. n /\ i \in 1 .. m /\ m - i + 1 = m - n + j
            BY <1>1, <1>4
        <3>2. rs[i] = s[j] /\ rt[i] = t[m - i + 1] /\ s[j] = t[m - n + j]
            BY <1>2, <2>2, <3>1
        <3>. QED
            BY <3>1, <3>2
    <2>. QED
        BY <2>1, <2>2
<1>5. IsSuffix(s, t) <=> n <= m /\ SubSeq(rs, 1, n) = SubSeq(rt, 1, n)
    BY <1>2 DEF IsSuffix, IsPrefix, rs, rt
<1>. QED
    BY <1>3, <1>4, <1>5

-----------------------------------------------------------------------------
(***************************************************************************)
(* The loop over the members a server is told of (server.c:168).           *)
(***************************************************************************)
\* One turn, and all turns up to n.
Turno(v, x, d) == d \cup {y \in {x} \ {v} : Cardinality(d) < MaxContatos}
Turnos(v, lista, f, n) ==
    f = [k \in 0 .. n |-> IF k = 0 THEN contatos[v] ELSE Turno(v, lista[k], f[k - 1])]

LEMMA TurnosExistem ==
    ASSUME NEW v, NEW lista \in Seq(User)
    PROVE  \E f : Turnos(v, lista, f, Len(lista)) /\ Apresentar(v, lista) = f[Len(lista)]
<1>. DEFINE n == Len(lista)
            P == {k \in 0 .. n : \E f : Turnos(v, lista, f, k)}
<1>1. n \in Nat
    OBVIOUS
<1>2. 0 \in P
    <2>. DEFINE g == [j \in 0 .. 0 |-> contatos[v]]
    <2>1. Turnos(v, lista, g, 0)
        BY DEF Turnos
    <2>2. \E f : Turnos(v, lista, f, 0)
        <3>. HIDE DEF g
        <3>. QED
            BY <2>1
    <2>. QED
        BY <1>1, <2>2
<1>3. ASSUME NEW k \in 1 .. n, k - 1 \in P PROVE k \in P
    <2>1. PICK h : Turnos(v, lista, h, k - 1)
        BY <1>3
    <2>. DEFINE g == [j \in 0 .. k |-> IF j = k THEN Turno(v, lista[k], h[k - 1]) ELSE h[j]]
    <2>2. \A j \in 0 .. k : g[j] = IF j = k THEN Turno(v, lista[k], h[k - 1]) ELSE h[j]
        OBVIOUS
    <2>3. \A j \in 0 .. k - 1 : h[j] = IF j = 0 THEN contatos[v] ELSE Turno(v, lista[j], h[j - 1])
        BY <2>1 DEF Turnos
    <2>4. \A j \in 0 .. k : g[j] = IF j = 0 THEN contatos[v] ELSE Turno(v, lista[j], g[j - 1])
        <3>. SUFFICES ASSUME NEW j \in 0 .. k
                      PROVE  g[j] = IF j = 0 THEN contatos[v] ELSE Turno(v, lista[j], g[j - 1])
            OBVIOUS
        <3>. HIDE DEF g
        <3>1. CASE j = k
            <4>1. k # 0 /\ k - 1 \in 0 .. k /\ k - 1 # k
                OBVIOUS
            <4>2. g[k - 1] = h[k - 1]
                BY <2>2, <4>1
            <4>. QED
                BY <2>2, <3>1, <4>1, <4>2
        <3>2. CASE j # k
            <4>1. j \in 0 .. k - 1 /\ (j # 0 => j - 1 \in 0 .. k /\ j - 1 # k)
                BY <3>2
            <4>2. g[j] = h[j] /\ (j # 0 => g[j - 1] = h[j - 1])
                BY <2>2, <3>2, <4>1
            <4>. QED
                BY <2>3, <4>1, <4>2
        <3>. QED
            BY <3>1, <3>2
    <2>5. Turnos(v, lista, g, k)
        BY <2>4 DEF Turnos
    <2>6. \E f : Turnos(v, lista, f, k)
        <3>. HIDE DEF g
        <3>. QED
            BY <2>5
    <2>. QED
        BY <2>6
<1>. HIDE DEF P
<1>4. n \in P
    <2>1. 0 .. n \subseteq P
        BY <1>1, <1>2, <1>3, Inducao
    <2>. QED
        BY <1>1, <2>1
<1>5. \E f : Turnos(v, lista, f, n)
    BY <1>4 DEF P
<1>. QED
    BY <1>5 DEF Turnos, Turno, Apresentar

\* What has become of the contacts of v after k of lista.
Apresentados(v, lista, k, d) ==
    /\ d \in SUBSET Pessoa /\ IsFiniteSet(d) /\ Cardinality(d) <= MaxContatos
    /\ contatos[v] \subseteq d
    /\ \/ \A i \in 1 .. k : lista[i] # v => lista[i] \in d
       \/ Cardinality(d) = MaxContatos

LEMMA UmTurno ==
    ASSUME NEW v, NEW lista \in Seq(User), NEW k \in 1 .. Len(lista),
           NEW d, Apresentados(v, lista, k - 1, d)
    PROVE  Apresentados(v, lista, k, Turno(v, lista[k], d))
<1>1. /\ d \in SUBSET Pessoa /\ IsFiniteSet(d) /\ Cardinality(d) <= MaxContatos
      /\ contatos[v] \subseteq d /\ lista[k] \in Pessoa
    BY GruposAssumption DEF Apresentados
<1>2. Cardinality(d) \in Nat /\ MaxContatos \in Nat
    BY <1>1, FS_CardinalityType, LimitesAssumption
<1>3. CASE lista[k] = v \/ ~ (Cardinality(d) < MaxContatos)
    <2>1. Turno(v, lista[k], d) = d
        BY <1>3 DEF Turno
    <2>2. lista[k] = v \/ Cardinality(d) = MaxContatos
        BY <1>1, <1>2, <1>3
    <2>3. \A i \in 1 .. k : i \in 1 .. k - 1 \/ i = k
        OBVIOUS
    <2>. QED
        BY <2>1, <2>2, <2>3 DEF Apresentados
<1>4. CASE lista[k] # v /\ Cardinality(d) < MaxContatos
    <2>. DEFINE x == lista[k]
    <2>1. Turno(v, x, d) = d \cup {x}
        BY <1>4 DEF Turno
    <2>2. /\ IsFiniteSet(d \cup {x})
          /\ Cardinality(d \cup {x}) = IF x \in d THEN Cardinality(d) ELSE Cardinality(d) + 1
        BY <1>1, FS_AddElement
    <2>3. Cardinality(d \cup {x}) <= MaxContatos
        BY <1>2, <1>4, <2>2
    <2>4. \A i \in 1 .. k : lista[i] # v => lista[i] \in d \cup {x}
        <3>1. \A i \in 1 .. k : i \in 1 .. k - 1 \/ i = k
            OBVIOUS
        <3>2. \A i \in 1 .. k - 1 : lista[i] # v => lista[i] \in d
            BY <1>2, <1>4 DEF Apresentados
        <3>. QED
            BY <3>1, <3>2
    <2>. QED
        BY <1>1, <2>1, <2>2, <2>3, <2>4 DEF Apresentados
<1>. QED
    BY <1>3, <1>4

\* Nobody is lost, and nobody left out while there is room.
LEMMA ApresentarTipo ==
    ASSUME NEW v \in User, NEW lista \in Seq(User), contatos[v] \in SUBSET Pessoa,
           IsFiniteSet(contatos[v]), Cardinality(contatos[v]) <= MaxContatos
    PROVE  Apresentados(v, lista, Len(lista), Apresentar(v, lista))
<1>. DEFINE n == Len(lista)
<1>1. PICK f : Turnos(v, lista, f, n) /\ Apresentar(v, lista) = f[n]
    BY TurnosExistem
<1>2. n \in Nat /\ \A k \in 0 .. n : f[k] = IF k = 0 THEN contatos[v] ELSE Turno(v, lista[k], f[k - 1])
    BY <1>1 DEF Turnos
<1>. DEFINE P == {k \in 0 .. n : Apresentados(v, lista, k, f[k])}
<1>3. 0 \in P
    BY <1>2 DEF Apresentados
<1>4. ASSUME NEW k \in 1 .. n, k - 1 \in P PROVE k \in P
    <2>1. f[k] = Turno(v, lista[k], f[k - 1]) /\ Apresentados(v, lista, k - 1, f[k - 1])
        BY <1>2, <1>4
    <2>. QED
        BY <2>1, UmTurno
<1>. HIDE DEF P
<1>5. n \in P
    <2>1. 0 .. n \subseteq P
        BY <1>2, <1>3, <1>4, Inducao
    <2>. QED
        BY <1>2, <2>1
<1>. QED
    BY <1>1, <1>5 DEF P

-----------------------------------------------------------------------------
(***************************************************************************)
(* Types.                                                                  *)
(***************************************************************************)
Cmd == [tipo : Tipo \cup {"nada"}, grupo : Nome \cup {"nenhum"},
        membros : Seq(User), faltam : Seq(User), txt : Nat]
Msg == [tipo : Tipo, from : User, grupo : Nome, to : Seq(User), txt : Nat]
Pasta == [User -> [Nome -> Arquivo]]
Ret == {"nenhuma", "RET_MSG_GROUP_OK", "RET_MSG_GROUP_FAIL", "perdida"}

\* The parts of TypeOK.
TipoComando ==
    /\ pc \in [User -> {"ocioso", "conectar", "esperar", "girando"}]
    /\ comando \in [User -> Cmd] /\ aux \in [User -> Nat]
    /\ \A u \in User : /\ IsSuffix(comando[u].faltam, comando[u].membros)
                       /\ aux[u] \in 0 .. Len(comando[u].membros) - Len(comando[u].faltam)
                       /\ pc[u] \in {"conectar", "esperar"} => comando[u].faltam # <<>>
TipoArquivo ==
    /\ arquivo \in Pasta
    /\ \A u \in User, g \in Nome : /\ arquivo[u][g].marcadas <= Len(arquivo[u][g].sai)
                                   /\ arquivo[u][g].vistas <= Len(arquivo[u][g].ent)
TipoGrupos ==
    /\ grupos \in [User -> Seq(Grupo)] /\ \A u \in User : Len(grupos[u]) <= MaxGrupos
TipoContatos ==
    /\ contatos \in [User -> SUBSET Pessoa]
    /\ \A u \in User : Cardinality(contatos[u]) <= MaxContatos
TipoResto ==
    /\ vivo \in [User -> BOOLEAN] /\ resposta \in [User -> Ret]
    /\ pedidos \in [User -> SUBSET Convites]
    /\ digitados \in [User -> Nat] /\ listas \in [User -> Nat]
TipoFila == fila \in [User -> Seq(Msg)]

LEMMA Partes ==
    TypeOK <=> /\ TipoComando /\ TipoArquivo /\ TipoGrupos /\ TipoContatos
               /\ TipoResto /\ TipoFila
BY DEF TypeOK, TipoComando, TipoArquivo, TipoGrupos, TipoContatos, TipoResto, TipoFila,
       Cmd, Msg, Pasta, Ret

LEMMA PartesDepois ==
    TypeOK' <=> /\ TipoComando' /\ TipoArquivo' /\ TipoGrupos' /\ TipoContatos'
                /\ TipoResto' /\ TipoFila'
BY DEF TypeOK, TipoComando, TipoArquivo, TipoGrupos, TipoContatos, TipoResto, TipoFila,
       Cmd, Msg, Pasta, Ret

LEMMA Convite ==
    ASSUME NEW c \in Convites
    PROVE  /\ c[1] \in User /\ c[2] \in Nome /\ c[3] \in Seq(User) /\ c[3] # <<>>
           /\ IsInjective(c[3]) /\ c[1] \notin ToSet(c[3])
<1>1. /\ c[1] \in User /\ c[3] \in Seq(User \ {c[1]}) /\ c[3] # <<>> /\ IsInjective(c[3])
    BY GruposAssumption
<1>2. c[3] \in Seq(User)
    BY <1>1
<1>3. ToSet(c[3]) \subseteq User \ {c[1]}
    BY <1>1, Funcao
<1>. QED
    BY <1>1, <1>2, <1>3 DEF Nome

\* The group found under a name is in the list.
LEMMA Achado ==
    ASSUME NEW u \in User, NEW g, TipoGrupos, GroupwithNameExist(u, g) # 0
    PROVE  LET loc == GroupwithNameExist(u, g) IN
           /\ loc \in DOMAIN grupos[u] /\ grupos[u][loc].membros \in Seq(User)
           /\ g \in Nome
<1>. DEFINE s == grupos[u]
            I == {i \in 1 .. Len(s) : s[i].nome = g}
            loc == GroupwithNameExist(u, g)
<1>1. s \in Seq(Grupo)
    BY DEF TipoGrupos
<1>2. loc = IF I # {} THEN Min(I) ELSE 0
    BY DEF GroupwithNameExist, SelectInSeq
<1>3. I \in SUBSET Nat /\ I # {}
    BY <1>2
<1>4. loc \in I
    BY <1>2, <1>3, MinTipo
<1>. HIDE DEF loc
<1>5. loc \in 1 .. Len(s) /\ s[loc] \in Grupo /\ s[loc].nome = g
    BY <1>1, <1>4
<1>. QED
    BY <1>1, <1>5 DEF loc, Grupo

LEMMA SufixoDeSi == ASSUME NEW S, NEW s \in Seq(S) PROVE IsSuffix(s, s)
<1>1. Len(s) \in Nat /\ \A i \in 1 .. Len(s) : Len(s) - Len(s) + i = i
    OBVIOUS
<1>. QED
    BY <1>1, Sufixo

\* The first of the rest of a sequence, and what is left without it.
LEMMA Cauda ==
    ASSUME NEW S, NEW s \in Seq(S), NEW t \in Seq(S), s # <<>>, IsSuffix(s, t)
    PROVE  LET n == Len(t) - Len(s) IN
           /\ n \in Nat /\ n + 1 \in 1 .. Len(t)
           /\ Head(s) = t[n + 1] /\ Head(s) \in S /\ Head(s) \in ToSet(t)
           /\ Tail(s) \in Seq(S) /\ Len(Tail(s)) = Len(s) - 1
           /\ IsSuffix(Tail(s), t)
           /\ Tail(s) = <<>> <=> n + 1 = Len(t)
<1>1. PICK n, m, l, r : n = Len(t) - Len(s) /\ m = Len(t) /\ l = Len(s) /\ r = Tail(s)
    OBVIOUS
<1>2. l <= m /\ \A i \in 1 .. l : s[i] = t[m - l + i]
    BY <1>1, Sufixo
<1>3. l \in Nat /\ m \in Nat /\ l >= 1 /\ n = m - l
    BY <1>1
<1>4. Head(s) = s[1] /\ r \in Seq(S) /\ Len(r) = l - 1 /\ \A i \in 1 .. l - 1 : r[i] = s[i + 1]
    BY <1>1
<1>5. IsSuffix(r, t)
    <2>1. l - 1 <= m
        BY <1>2, <1>3
    <2>2. ASSUME NEW i \in 1 .. l - 1 PROVE r[i] = t[m - (l - 1) + i]
        <3>1. i + 1 \in 1 .. l /\ m - (l - 1) + i = m - l + (i + 1)
            BY <1>3
        <3>. QED
            BY <1>2, <1>4, <3>1
    <2>. QED
        BY <1>1, <1>4, <2>1, <2>2, Sufixo
<1>6. n \in Nat /\ n + 1 \in 1 .. m /\ 1 \in 1 .. l /\ m - l + 1 = n + 1
    BY <1>2, <1>3
<1>7. s[1] = t[n + 1] /\ s[1] \in S
    BY <1>1, <1>2, <1>6
<1>8. s[1] \in ToSet(t)
    BY <1>1, <1>6, <1>7, Funcao
<1>9. r = <<>> <=> l - 1 = 0
    <2>1. r \in Seq(S) /\ Len(r) = l - 1
        BY <1>4
    <2>2. r = <<>> <=> Len(r) = 0
        BY <2>1, EmptySeq
    <2>. QED
        BY <2>1, <2>2
<1>10. r = <<>> <=> n + 1 = m
    BY <1>3, <1>9
<1>. QED
    BY <1>1, <1>4, <1>5, <1>6, <1>7, <1>8, <1>10

\* The member that is next, and those after it.
LEMMA Proximo ==
    ASSUME TipoComando, NEW u \in User, pc[u] \in {"conectar", "esperar"}
    PROVE  LET c == comando[u] IN
           /\ Perguntados(u) \in Nat /\ Perguntados(u) + 1 \in 1 .. Len(c.membros)
           /\ Alvo(u) = c.membros[Perguntados(u) + 1]
           /\ Alvo(u) \in User /\ Alvo(u) \in ToSet(c.membros)
           /\ Tail(c.faltam) \in Seq(User) /\ Len(Tail(c.faltam)) = Len(c.faltam) - 1
           /\ IsSuffix(Tail(c.faltam), c.membros)
           /\ Tail(c.faltam) = <<>> <=> Perguntados(u) + 1 = Len(c.membros)
<1>1. /\ comando[u].faltam \in Seq(User) /\ comando[u].membros \in Seq(User)
      /\ comando[u].faltam # <<>> /\ IsSuffix(comando[u].faltam, comando[u].membros)
    BY DEF TipoComando, Cmd
<1>. QED
    BY <1>1, Cauda DEF Perguntados, Alvo

LEMMA InitTypeOK == Init => TypeOK
<1>. SUFFICES ASSUME Init PROVE TypeOK
    OBVIOUS
<1>. USE DEF Init
<1>1. TipoComando
    <2>1. Nada \in Cmd /\ Nada.membros = <<>> /\ Nada.faltam = <<>>
        BY DEF Nada, Cmd
    <2>2. IsSuffix(<<>>, <<>>)
        <3>1. <<>> \in Seq(User)
            OBVIOUS
        <3>. QED
            BY <3>1, SufixoDeSi
    <2>. QED
        BY <2>1, <2>2 DEF TipoComando
<1>2. TipoArquivo
    BY DEF TipoArquivo, Vazio, Pasta, Arquivo
<1>3. TipoGrupos
    BY LimitesAssumption DEF TipoGrupos
<1>4. TipoContatos
    BY GruposAssumption DEF TipoContatos
<1>5. TipoResto /\ TipoFila
    BY DEF TipoResto, TipoFila, Ret
<1>. QED
    BY <1>1, <1>2, <1>3, <1>4, <1>5, Partes

\* What a step leaves as it was, of the parts and forms that hold.
LEMMA BaseDepois ==
    ASSUME TipoComando', TipoArquivo', TipoGrupos', TipoContatos', TipoResto', TipoFila',
           FormaContatos', FormaGrupos', FormaComando', FormaFila', MembrosConhecidos'
    PROVE  Base'
BY PartesDepois DEF Base, Formas

LEMMA BasePartes ==
    Base => /\ TipoComando /\ TipoArquivo /\ TipoGrupos /\ TipoContatos /\ TipoResto
            /\ TipoFila /\ FormaContatos /\ FormaGrupos /\ FormaComando /\ FormaFila
            /\ MembrosConhecidos
BY Partes DEF Base, Formas

LEMMA Parados_grupos ==
    ASSUME Base, UNCHANGED <<contatos, grupos>>
    PROVE  /\ TipoGrupos' /\ TipoContatos' /\ FormaContatos' /\ FormaGrupos'
           /\ MembrosConhecidos'
BY BasePartes DEF TipoGrupos, TipoContatos, FormaContatos, FormaGrupos, MembrosConhecidos

LEMMA Parados_fila == ASSUME Base, UNCHANGED fila PROVE TipoFila' /\ FormaFila'
BY BasePartes DEF TipoFila, FormaFila

LEMMA Parados_arquivo == ASSUME Base, UNCHANGED arquivo PROVE TipoArquivo'
BY BasePartes DEF TipoArquivo

LEMMA Parados_comando ==
    ASSUME Base, UNCHANGED <<comando, aux, pc>>,
           \A u \in User : contatos[u] \subseteq contatos'[u]
    PROVE  TipoComando' /\ FormaComando'
<1>1. TipoComando'
    BY BasePartes DEF TipoComando
<1>2. FormaComando'
    BY BasePartes DEF FormaComando
<1>. QED
    BY <1>1, <1>2

LEMMA Comecou ==
    ASSUME Base, NEW u \in User, NEW tipo \in Tipo, NEW g \in Nome, NEW ms \in Seq(User),
           ms # <<>>, NEW txt \in Nat, Comecar(u, tipo, g, ms, txt), contatos' = contatos,
           tipo = "ADD_GROUP" =>
              IsInjective(ms) /\ u \notin ToSet(ms) /\ ToSet(ms) \subseteq contatos[u]
    PROVE  TipoComando' /\ FormaComando'
<1>. DEFINE c == [tipo |-> tipo, grupo |-> g, membros |-> ms, faltam |-> ms, txt |-> txt]
<1>1. c \in Cmd
    BY DEF Cmd
<1>2. /\ pc \in [User -> {"ocioso", "conectar", "esperar", "girando"}]
      /\ comando \in [User -> Cmd] /\ aux \in [User -> Nat]
    BY BasePartes DEF TipoComando
<1>3. /\ comando' = [comando EXCEPT ![u] = c] /\ aux' = [aux EXCEPT ![u] = 0]
      /\ pc' = [pc EXCEPT ![u] = "conectar"]
    BY DEF Comecar
<1>4. c.tipo = tipo /\ c.grupo = g /\ c.membros = ms /\ c.faltam = ms
    OBVIOUS
<1>. HIDE DEF c
<1>5. IsSuffix(ms, ms) /\ 0 \in 0 .. Len(ms) - Len(ms)
    BY SufixoDeSi
<1>6. TipoComando'
    <2>1. /\ pc' \in [User -> {"ocioso", "conectar", "esperar", "girando"}]
          /\ comando' \in [User -> Cmd] /\ aux' \in [User -> Nat]
        BY <1>1, <1>2, <1>3
    <2>2. ASSUME NEW w \in User
          PROVE  /\ IsSuffix(comando'[w].faltam, comando'[w].membros)
                 /\ aux'[w] \in 0 .. Len(comando'[w].membros) - Len(comando'[w].faltam)
                 /\ pc'[w] \in {"conectar", "esperar"} => comando'[w].faltam # <<>>
        <3>1. CASE w = u
            BY <1>2, <1>3, <1>4, <1>5, <3>1
        <3>2. CASE w # u
            BY <1>2, <1>3, <3>2, BasePartes DEF TipoComando
        <3>. QED
            BY <3>1, <3>2
    <2>. QED
        BY <2>1, <2>2 DEF TipoComando
<1>7. FormaComando'
    <2>1. ASSUME NEW w \in User, w # u
          PROVE  comando'[w] = comando[w] /\ pc'[w] = pc[w]
        BY <1>2, <1>3, <2>1
    <2>2. comando'[u] = c /\ tipo # "nada"
        BY <1>2, <1>3 DEF Tipo
    <2>. QED
        BY <1>4, <2>1, <2>2, BasePartes DEF FormaComando
<1>. QED
    BY <1>6, <1>7

\* One more member has been asked, or has answered.
LEMMA Avancou ==
    ASSUME Base, NEW u \in User, pc[u] \in {"conectar", "esperar"},
           NEW p \in {"ocioso", "conectar"}, NEW n \in 0 .. 1,
           comando' = [comando EXCEPT ![u].faltam = Tail(comando[u].faltam)],
           aux' = [aux EXCEPT ![u] = @ + n], pc' = [pc EXCEPT ![u] = p],
           p = "conectar" => Tail(comando[u].faltam) # <<>>, contatos' = contatos
    PROVE  TipoComando' /\ FormaComando'
<1>. DEFINE r == Tail(comando[u].faltam)
<1>1. /\ pc \in [User -> {"ocioso", "conectar", "esperar", "girando"}]
      /\ comando \in [User -> Cmd] /\ aux \in [User -> Nat]
    BY BasePartes DEF TipoComando
<1>2. /\ r \in Seq(User) /\ Len(r) = Len(comando[u].faltam) - 1
      /\ IsSuffix(r, comando[u].membros)
    BY BasePartes, Proximo
<1>3. aux[u] \in 0 .. Len(comando[u].membros) - Len(comando[u].faltam)
    BY BasePartes DEF TipoComando
<1>4. Len(comando[u].membros) \in Nat /\ Len(comando[u].faltam) \in Nat
    BY <1>1 DEF Cmd
<1>. HIDE DEF r
<1>5. /\ comando'[u] \in Cmd /\ comando'[u].faltam = r
      /\ comando'[u].membros = comando[u].membros
      /\ comando'[u].tipo = comando[u].tipo /\ comando'[u].grupo = comando[u].grupo
    BY <1>1, <1>2 DEF Cmd, r
<1>6. \A w \in User : w # u => comando'[w] = comando[w]
    BY <1>1
<1>7. TipoComando'
    <2>1. comando' \in [User -> Cmd]
        <3>1. comando' = [comando EXCEPT ![u] = comando'[u]]
            BY <1>1
        <3>. QED
            BY <1>1, <1>5, <3>1
    <2>2. /\ pc' \in [User -> {"ocioso", "conectar", "esperar", "girando"}]
          /\ aux' \in [User -> Nat]
        BY <1>1
    <2>3. aux'[u] \in 0 .. Len(comando[u].membros) - Len(r)
        <3>1. aux'[u] = aux[u] + n
            BY <1>1
        <3>2. \A a, m, l \in Nat : a \in 0 .. m - l => a + n \in 0 .. m - (l - 1)
            OBVIOUS
        <3>3. aux[u] \in Nat /\ Len(r) = Len(comando[u].faltam) - 1
            BY <1>1, <1>2
        <3>. QED
            BY <1>3, <1>4, <3>1, <3>2, <3>3
    <2>4. ASSUME NEW w \in User
          PROVE  /\ IsSuffix(comando'[w].faltam, comando'[w].membros)
                 /\ aux'[w] \in 0 .. Len(comando'[w].membros) - Len(comando'[w].faltam)
                 /\ pc'[w] \in {"conectar", "esperar"} => comando'[w].faltam # <<>>
        <3>1. CASE w = u
            BY <1>1, <1>2, <1>5, <2>3, <3>1 DEF r
        <3>2. CASE w # u
            BY <1>1, <1>6, <3>2, BasePartes DEF TipoComando
        <3>. QED
            BY <3>1, <3>2
    <2>. QED
        BY <2>1, <2>2, <2>4 DEF TipoComando
<1>8. FormaComando'
    <2>1. \A w \in User : pc'[w] # "ocioso" => pc[w] # "ocioso"
        BY <1>1
    <2>. QED
        BY <1>5, <1>6, <2>1, BasePartes DEF FormaComando
<1>. QED
    BY <1>7, <1>8

\* Only the main thread of u goes on.
LEMMA MudouPc ==
    ASSUME Base, NEW u \in User, NEW p \in {"ocioso", "esperar", "girando"},
           comando' = comando, aux' = aux, pc' = [pc EXCEPT ![u] = p], contatos' = contatos,
           p = "ocioso" \/ pc[u] \in {"conectar", "esperar"}
    PROVE  TipoComando' /\ FormaComando'
<1>1. pc \in [User -> {"ocioso", "conectar", "esperar", "girando"}]
    BY BasePartes DEF TipoComando
<1>2. \A w \in User : pc'[w] = IF w = u THEN p ELSE pc[w]
    BY <1>1
<1>3. TipoComando'
    BY <1>1, <1>2, BasePartes DEF TipoComando
<1>4. FormaComando'
    BY <1>2, BasePartes DEF FormaComando
<1>. QED
    BY <1>3, <1>4

\* One file has been written to, or marked.
LEMMA Gravado ==
    ASSUME TipoArquivo, NEW u \in User, NEW g \in Nome
    PROVE  LET a == arquivo[u][g] IN
           /\ arquivo' = [arquivo EXCEPT ![u][g].vistas = Len(a.ent)] => TipoArquivo'
           /\ arquivo' = [arquivo EXCEPT ![u][g].marcadas = Len(a.sai)] => TipoArquivo'
           /\ \A txt \in Nat : arquivo' = [arquivo EXCEPT ![u][g].sai = Append(@, txt)] => TipoArquivo'
           /\ \A w \in User, txt \in Nat :
                 arquivo' = [arquivo EXCEPT ![u][g].ent = Append(@, [from |-> w, txt |-> txt])]
                 => TipoArquivo'
<1>. DEFINE a == arquivo[u][g]
<1>1. /\ arquivo \in Pasta /\ a \in Arquivo /\ a.sai \in Seq(Nat)
      /\ a.ent \in Seq([from : User, txt : Nat]) /\ a.marcadas \in Nat /\ a.vistas \in Nat
      /\ a.marcadas <= Len(a.sai) /\ a.vistas <= Len(a.ent)
      /\ Len(a.sai) \in Nat /\ Len(a.ent) \in Nat
    <2>1. arquivo \in Pasta /\ a.marcadas <= Len(a.sai) /\ a.vistas <= Len(a.ent)
        BY DEF TipoArquivo
    <2>2. a \in Arquivo
        BY <2>1 DEF Pasta
    <2>. HIDE DEF a
    <2>3. /\ a.sai \in Seq(Nat) /\ a.ent \in Seq([from : User, txt : Nat])
          /\ a.marcadas \in Nat /\ a.vistas \in Nat
        BY <2>2 DEF Arquivo
    <2>. QED
        BY <2>1, <2>2, <2>3
<1>2. ASSUME NEW b \in Arquivo, b.marcadas <= Len(b.sai), b.vistas <= Len(b.ent),
             arquivo' \in Pasta, arquivo'[u][g] = b,
             \A x \in User, y \in Nome : x # u \/ y # g => arquivo'[x][y] = arquivo[x][y]
      PROVE  TipoArquivo'
    BY <1>2 DEF TipoArquivo
<1>3. ASSUME arquivo' = [arquivo EXCEPT ![u][g].vistas = Len(a.ent)] PROVE TipoArquivo'
    <2>. DEFINE b == [a EXCEPT !.vistas = Len(a.ent)]
    <2>1. b \in Arquivo /\ b.marcadas <= Len(b.sai) /\ b.vistas <= Len(b.ent)
        BY <1>1 DEF Arquivo
    <2>2. /\ arquivo' \in Pasta /\ arquivo'[u][g] = b
          /\ \A x \in User, y \in Nome : x # u \/ y # g => arquivo'[x][y] = arquivo[x][y]
        BY <1>1, <1>3, <2>1 DEF Pasta
    <2>. QED
        BY <1>2, <2>1, <2>2
<1>4. ASSUME arquivo' = [arquivo EXCEPT ![u][g].marcadas = Len(a.sai)] PROVE TipoArquivo'
    <2>. DEFINE b == [a EXCEPT !.marcadas = Len(a.sai)]
    <2>1. b \in Arquivo /\ b.marcadas <= Len(b.sai) /\ b.vistas <= Len(b.ent)
        BY <1>1 DEF Arquivo
    <2>2. /\ arquivo' \in Pasta /\ arquivo'[u][g] = b
          /\ \A x \in User, y \in Nome : x # u \/ y # g => arquivo'[x][y] = arquivo[x][y]
        BY <1>1, <1>4, <2>1 DEF Pasta
    <2>. QED
        BY <1>2, <2>1, <2>2
<1>5. ASSUME NEW txt \in Nat, arquivo' = [arquivo EXCEPT ![u][g].sai = Append(@, txt)]
      PROVE  TipoArquivo'
    <2>. DEFINE t == Append(a.sai, txt)
                b == [a EXCEPT !.sai = t]
    <2>1. t \in Seq(Nat) /\ Len(t) = Len(a.sai) + 1
        BY <1>1
    <2>. HIDE DEF t
    <2>2. b \in Arquivo /\ b.marcadas <= Len(b.sai) /\ b.vistas <= Len(b.ent)
        <3>1. /\ b \in Arquivo /\ b.sai = t /\ b.ent = a.ent
              /\ b.marcadas = a.marcadas /\ b.vistas = a.vistas
            BY <1>1, <2>1 DEF Arquivo
        <3>2. \A m, l \in Nat : m <= l => m <= l + 1
            OBVIOUS
        <3>. QED
            BY <1>1, <2>1, <3>1, <3>2
    <2>3. arquivo' = [arquivo EXCEPT ![u][g].sai = t]
        BY <1>5 DEF t
    <2>4. /\ arquivo' \in Pasta /\ arquivo'[u][g] = b
          /\ \A x \in User, y \in Nome : x # u \/ y # g => arquivo'[x][y] = arquivo[x][y]
        BY <1>1, <2>2, <2>3 DEF Pasta
    <2>. QED
        BY <1>2, <2>2, <2>4
<1>6. ASSUME NEW w \in User, NEW txt \in Nat,
             arquivo' = [arquivo EXCEPT ![u][g].ent = Append(@, [from |-> w, txt |-> txt])]
      PROVE  TipoArquivo'
    <2>. DEFINE t == Append(a.ent, [from |-> w, txt |-> txt])
                b == [a EXCEPT !.ent = t]
    <2>1. t \in Seq([from : User, txt : Nat]) /\ Len(t) = Len(a.ent) + 1
        BY <1>1
    <2>. HIDE DEF t
    <2>2. b \in Arquivo /\ b.marcadas <= Len(b.sai) /\ b.vistas <= Len(b.ent)
        <3>1. /\ b \in Arquivo /\ b.ent = t /\ b.sai = a.sai
              /\ b.marcadas = a.marcadas /\ b.vistas = a.vistas
            BY <1>1, <2>1 DEF Arquivo
        <3>2. \A m, l \in Nat : m <= l => m <= l + 1
            OBVIOUS
        <3>. QED
            BY <1>1, <2>1, <3>1, <3>2
    <2>3. arquivo' = [arquivo EXCEPT ![u][g].ent = t]
        BY <1>6 DEF t
    <2>4. /\ arquivo' \in Pasta /\ arquivo'[u][g] = b
          /\ \A x \in User, y \in Nome : x # u \/ y # g => arquivo'[x][y] = arquivo[x][y]
        BY <1>1, <2>2, <2>3 DEF Pasta
    <2>. QED
        BY <1>2, <2>2, <2>4
<1>. QED
    BY <1>3, <1>4, <1>5, <1>6

LEMMA DigitarBase ==
    ASSUME Base, NEW u \in User, Digitar(u)
    PROVE  Base'
<1>1. CASE executeCommandInsertionGroup(u)
    <2>1. PICK c \in Convites : /\ c[1] = u /\ ToSet(c[3]) \subseteq contatos[u]
                                /\ Comecar(u, "ADD_GROUP", c[2], c[3], 0)
                                /\ pedidos' = [pedidos EXCEPT ![u] = @ \cup {c}]
        BY <1>1 DEF executeCommandInsertionGroup
    <2>2. UNCHANGED <<vivo, contatos, grupos, arquivo, resposta, fila, digitados, listas>>
        BY <1>1 DEF executeCommandInsertionGroup
    <2>3. TipoComando' /\ FormaComando'
        BY <2>1, <2>2, Convite, Comecou DEF Tipo
    <2>4. TipoResto'
        BY <2>1, <2>2, BasePartes DEF TipoResto
    <2>. QED
        BY <2>2, <2>3, <2>4, Parados_grupos, Parados_fila, Parados_arquivo, BaseDepois
<1>2. CASE executeCommandSend(u)
    <2>1. PICK g \in Nome :
            /\ GroupwithNameExist(u, g) # 0
            /\ Comecar(u, "MSG_TXT_GROUP", g, grupos[u][GroupwithNameExist(u, g)].membros,
                       digitados[u] + 1)
        BY <1>2 DEF executeCommandSend
    <2>. DEFINE ms == grupos[u][GroupwithNameExist(u, g)].membros
    <2>2. /\ UNCHANGED <<vivo, contatos, grupos, arquivo, resposta, fila, pedidos, listas>>
          /\ digitados' = [digitados EXCEPT ![u] = @ + 1]
        BY <1>2 DEF executeCommandSend
    <2>3. ms \in Seq(User) /\ ms # <<>>
        BY <2>1, Achado, BasePartes DEF FormaGrupos
    <2>4. digitados[u] + 1 \in Nat
        BY BasePartes DEF TipoResto
    <2>. HIDE DEF ms
    <2>5. Comecar(u, "MSG_TXT_GROUP", g, ms, digitados[u] + 1)
        BY <2>1 DEF ms
    <2>6. TipoComando' /\ FormaComando'
        BY <2>2, <2>3, <2>4, <2>5, Comecou DEF Tipo
    <2>7. TipoResto'
        BY <2>2, <2>4, BasePartes DEF TipoResto
    <2>. QED
        BY <2>2, <2>6, <2>7, Parados_grupos, Parados_fila, Parados_arquivo, BaseDepois
<1>3. CASE executeCommandList(u)
    <2>1. PICK g \in Nome :
            /\ GroupwithNameExist(u, g) # 0
            /\ arquivo' = [arquivo EXCEPT ![u][g].vistas = Len(arquivo[u][g].ent)]
            /\ Comecar(u, "READ_MSGS_GROUP", g, grupos[u][GroupwithNameExist(u, g)].membros, 0)
        BY <1>3 DEF executeCommandList
    <2>. DEFINE ms == grupos[u][GroupwithNameExist(u, g)].membros
    <2>2. /\ UNCHANGED <<vivo, contatos, grupos, resposta, fila, pedidos, digitados>>
          /\ listas' = [listas EXCEPT ![u] = @ + 1]
        BY <1>3 DEF executeCommandList
    <2>3. ms \in Seq(User) /\ ms # <<>>
        BY <2>1, Achado, BasePartes DEF FormaGrupos
    <2>. HIDE DEF ms
    <2>4. Comecar(u, "READ_MSGS_GROUP", g, ms, 0)
        BY <2>1 DEF ms
    <2>5. TipoComando' /\ FormaComando'
        BY <2>2, <2>3, <2>4, Comecou DEF Tipo
    <2>6. TipoResto'
        BY <2>2, BasePartes DEF TipoResto
    <2>7. TipoArquivo'
        BY <2>1, Gravado, BasePartes
    <2>. QED
        BY <2>2, <2>5, <2>6, <2>7, Parados_grupos, Parados_fila, BaseDepois
<1>. QED
    BY <1>1, <1>2, <1>3 DEF Digitar

LEMMA CaiBase ==
    ASSUME Base, NEW u \in User, NEW r \in [User -> Ret], Cai(u, r)
    PROVE  Base'
<1>1. /\ UNCHANGED <<contatos, grupos, arquivo, comando, aux, pedidos, digitados, listas>>
      /\ vivo' = [vivo EXCEPT ![u] = FALSE] /\ pc' = [pc EXCEPT ![u] = "ocioso"]
      /\ fila' = [fila EXCEPT ![u] = <<>>] /\ resposta' \in [User -> Ret]
    BY DEF Cai, Ret
<1>2. TipoComando' /\ FormaComando'
    BY <1>1, MudouPc
<1>3. TipoResto'
    BY <1>1, BasePartes DEF TipoResto
<1>4. TipoFila' /\ FormaFila'
    <2>1. \A v \in User : fila'[v] = IF v = u THEN <<>> ELSE fila[v]
        BY <1>1, BasePartes DEF TipoFila
    <2>2. <<>> \in Seq(Msg) /\ DOMAIN <<>> = {}
        OBVIOUS
    <2>3. TipoFila'
        BY <1>1, <2>2, BasePartes DEF TipoFila
    <2>4. FormaFila'
        BY <2>1, <2>2, BasePartes DEF FormaFila
    <2>. QED
        BY <2>3, <2>4
<1>. QED
    BY <1>1, <1>2, <1>3, <1>4, Parados_grupos, Parados_arquivo, BaseDepois

\* A message of u.
LEMMA MensagemTipo ==
    ASSUME Base, NEW u \in User, pc[u] # "ocioso"
    PROVE  /\ Mensagem(u) \in Msg /\ Mensagem(u).from = u
           /\ Mensagem(u).tipo = comando[u].tipo /\ Mensagem(u).grupo = comando[u].grupo
           /\ Mensagem(u).tipo = "ADD_GROUP" =>
                 /\ Mensagem(u).to = comando[u].membros /\ IsInjective(Mensagem(u).to)
                 /\ Mensagem(u).from \notin ToSet(Mensagem(u).to)
<1>1. /\ comando[u].tipo \in Tipo /\ comando[u].grupo \in Nome
      /\ comando[u].membros \in Seq(User) /\ comando[u].txt \in Nat
      /\ comando[u].tipo = "ADD_GROUP" =>
            IsInjective(comando[u].membros) /\ u \notin ToSet(comando[u].membros)
    BY BasePartes DEF TipoComando, Cmd, FormaComando
<1>2. <<>> \in Seq(User)
    OBVIOUS
<1>. QED
    BY <1>1, <1>2 DEF Mensagem, Msg

\* A queue with one connection more, and with the first one gone.
LEMMA Enfileira ==
    ASSUME Base, NEW v \in User, NEW m \in Msg,
           m.tipo = "ADD_GROUP" => IsInjective(m.to) /\ m.from \notin ToSet(m.to),
           fila' = [fila EXCEPT ![v] = Append(@, m)]
    PROVE  /\ TipoFila' /\ FormaFila'
           /\ \A w \in User : \A k \in DOMAIN fila'[w] :
                 \/ k \in DOMAIN fila[w] /\ fila'[w][k] = fila[w][k]
                 \/ w = v /\ k = Len(fila[v]) + 1 /\ fila'[w][k] = m
<1>1. fila \in [User -> Seq(Msg)] /\ fila[v] \in Seq(Msg)
    BY BasePartes DEF TipoFila
<1>2. /\ Append(fila[v], m) \in Seq(Msg)
      /\ \A k \in DOMAIN Append(fila[v], m) :
            \/ k \in DOMAIN fila[v] /\ Append(fila[v], m)[k] = fila[v][k]
            \/ k = Len(fila[v]) + 1 /\ Append(fila[v], m)[k] = m
    BY <1>1
<1>3. TipoFila' /\ \A w \in User : fila'[w] = IF w = v THEN Append(fila[v], m) ELSE fila[w]
    BY <1>1, <1>2 DEF TipoFila
<1>4. \A w \in User : \A k \in DOMAIN fila'[w] :
          \/ k \in DOMAIN fila[w] /\ fila'[w][k] = fila[w][k]
          \/ w = v /\ k = Len(fila[v]) + 1 /\ fila'[w][k] = m
    BY <1>2, <1>3
<1>. QED
    BY <1>3, <1>4, BasePartes DEF FormaFila

LEMMA Desenfileira ==
    ASSUME Base, NEW v \in User, fila[v] # <<>>, fila' = [fila EXCEPT ![v] = Tail(@)]
    PROVE  /\ TipoFila' /\ FormaFila'
           /\ Atendida(v) \in Msg /\ 1 \in DOMAIN fila[v] /\ Atendida(v) = fila[v][1]
           /\ \A w \in User \ {v} : fila'[w] = fila[w]
           /\ \A k \in DOMAIN fila'[v] : /\ k \in Nat /\ k + 1 \in DOMAIN fila[v] /\ k + 1 # 1
                                         /\ fila'[v][k] = fila[v][k + 1]
<1>1. fila \in [User -> Seq(Msg)] /\ fila[v] \in Seq(Msg)
    BY BasePartes DEF TipoFila
<1>2. /\ Tail(fila[v]) \in Seq(Msg) /\ Head(fila[v]) \in Msg
      /\ 1 \in DOMAIN fila[v] /\ Head(fila[v]) = fila[v][1]
      /\ \A k \in DOMAIN Tail(fila[v]) : /\ k \in Nat /\ k + 1 \in DOMAIN fila[v] /\ k + 1 # 1
                                         /\ Tail(fila[v])[k] = fila[v][k + 1]
    BY <1>1
<1>3. TipoFila' /\ fila'[v] = Tail(fila[v]) /\ \A w \in User \ {v} : fila'[w] = fila[w]
    BY <1>1, <1>2 DEF TipoFila
<1>4. \A k \in DOMAIN fila'[v] : /\ k \in Nat /\ k + 1 \in DOMAIN fila[v] /\ k + 1 # 1
                                 /\ fila'[v][k] = fila[v][k + 1]
    BY <1>2, <1>3
<1>5. FormaFila'
    BY <1>3, <1>4, BasePartes DEF FormaFila
<1>. QED
    BY <1>2, <1>3, <1>4, <1>5 DEF Atendida

\* A list of groups with one more, if there is room.
Entrou(v, g) ==
    grupos' = [grupos EXCEPT ![v] = IF Len(@) < MaxGrupos THEN Append(@, g) ELSE @]

LEMMA NovaEntrada ==
    ASSUME TipoGrupos, NEW v \in User, NEW g \in Grupo, Entrou(v, g)
    PROVE  /\ TipoGrupos' /\ \A w \in User \ {v} : grupos'[w] = grupos[w]
           /\ \A k \in DOMAIN grupos[v] : k \in DOMAIN grupos'[v] /\ grupos'[v][k] = grupos[v][k]
           /\ \A k \in DOMAIN grupos'[v] : \/ k \in DOMAIN grupos[v] /\ grupos'[v][k] = grupos[v][k]
                                           \/ grupos'[v][k] = g
           /\ Len(grupos[v]) = MaxGrupos => Len(grupos'[v]) = MaxGrupos
           /\ (\E k \in DOMAIN grupos'[v] : grupos'[v][k] = g) \/ Len(grupos'[v]) = MaxGrupos
<1>. DEFINE s == grupos[v]
<1>1. /\ grupos \in [User -> Seq(Grupo)] /\ s \in Seq(Grupo) /\ Len(s) \in Nat
      /\ Len(s) <= MaxGrupos /\ MaxGrupos \in Nat
      /\ \A w \in User : Len(grupos[w]) <= MaxGrupos
    BY LimitesAssumption DEF TipoGrupos
<1>2. CASE Len(s) < MaxGrupos
    <2>1. PICK t : t = Append(s, g)
        OBVIOUS
    <2>2. /\ t \in Seq(Grupo) /\ Len(t) = Len(s) + 1 /\ t[Len(s) + 1] = g
          /\ DOMAIN t = 1 .. Len(s) + 1 /\ DOMAIN s = 1 .. Len(s)
          /\ \A k \in 1 .. Len(s) : t[k] = s[k]
        BY <1>1, <2>1
    <2>3. Len(t) <= MaxGrupos
        BY <1>1, <1>2, <2>2
    <2>4. grupos' = [grupos EXCEPT ![v] = t]
        BY <1>2, <2>1 DEF Entrou
    <2>5. grupos'[v] = t /\ \A w \in User \ {v} : grupos'[w] = grupos[w]
        BY <1>1, <2>4
    <2>6. TipoGrupos'
        BY <1>1, <2>2, <2>3, <2>4, <2>5 DEF TipoGrupos
    <2>7. /\ \A k \in DOMAIN s : k \in DOMAIN t /\ t[k] = s[k]
          /\ \A k \in DOMAIN t : (k \in DOMAIN s /\ t[k] = s[k]) \/ t[k] = g
          /\ Len(s) + 1 \in DOMAIN t /\ Len(s) # MaxGrupos
        <3>1. PICK n : n = Len(s)
            OBVIOUS
        <3>2. /\ n \in Nat /\ \A k \in 1 .. n : k \in 1 .. n + 1
              /\ \A k \in 1 .. n + 1 : k \in 1 .. n \/ k = n + 1
              /\ n + 1 \in 1 .. n + 1 /\ n # MaxGrupos
            BY <1>1, <1>2, <3>1
        <3>. QED
            BY <2>2, <3>1, <3>2
    <2>. QED
        BY <2>2, <2>5, <2>6, <2>7
<1>3. CASE ~ (Len(s) < MaxGrupos)
    <2>1. grupos' = grupos /\ Len(s) = MaxGrupos
        BY <1>1, <1>3 DEF Entrou
    <2>. QED
        BY <2>1 DEF TipoGrupos
<1>. QED
    BY <1>2, <1>3

LEMMA Cheio ==
    ASSUME TipoContatos, TipoContatos', FormaContatos', NEW u \in User,
           contatos[u] \subseteq contatos'[u], Cardinality(contatos[u]) = MaxContatos
    PROVE  Cardinality(contatos'[u]) = MaxContatos
<1>1. IsFiniteSet(contatos'[u]) /\ Cardinality(contatos'[u]) <= MaxContatos
    BY DEF TipoContatos, FormaContatos
<1>2. Cardinality(contatos[u]) <= Cardinality(contatos'[u]) /\ Cardinality(contatos'[u]) \in Nat
    BY <1>1, FS_Subset, FS_CardinalityType
<1>. QED
    BY <1>1, <1>2, LimitesAssumption

LEMMA NovoGrupo ==
    ASSUME Base, NEW v \in User, NEW g \in Grupo, g.membros # <<>>, IsInjective(g.membros),
           Entrou(v, g),
           TipoContatos', FormaContatos',
           \A w \in User : contatos[w] \subseteq contatos'[w],
           ToSet(g.membros) \subseteq contatos'[v] \/ Cardinality(contatos'[v]) = MaxContatos
    PROVE  TipoGrupos' /\ FormaGrupos' /\ MembrosConhecidos'
<1>1. /\ TipoGrupos' /\ \A w \in User \ {v} : grupos'[w] = grupos[w]
      /\ \A k \in DOMAIN grupos'[v] : \/ k \in DOMAIN grupos[v] /\ grupos'[v][k] = grupos[v][k]
                                      \/ grupos'[v][k] = g
    BY BasePartes, NovaEntrada
<1>2. FormaGrupos'
    BY <1>1, BasePartes DEF FormaGrupos
<1>3. ASSUME NEW w \in User, NEW k \in DOMAIN grupos[w]
      PROVE  \/ ToSet(grupos[w][k].membros) \subseteq contatos'[w]
             \/ Cardinality(contatos'[w]) = MaxContatos
    <2>1. \/ ToSet(grupos[w][k].membros) \subseteq contatos[w]
          \/ Cardinality(contatos[w]) = MaxContatos
        BY BasePartes DEF MembrosConhecidos
    <2>. QED
        BY <2>1, BasePartes, Cheio
<1>4. ASSUME NEW w \in User, NEW k \in DOMAIN grupos'[w]
      PROVE  \/ ToSet(grupos'[w][k].membros) \subseteq contatos'[w]
             \/ Cardinality(contatos'[w]) = MaxContatos
    <2>1. CASE w = v /\ grupos'[w][k] = g
        BY <2>1
    <2>2. CASE ~ (w = v /\ grupos'[w][k] = g)
        <3>1. k \in DOMAIN grupos[w] /\ grupos'[w][k] = grupos[w][k]
            BY <1>1, <1>4, <2>2
        <3>. QED
            BY <1>3, <3>1
    <2>. QED
        BY <2>1, <2>2
<1>. QED
    BY <1>1, <1>2, <1>4 DEF MembrosConhecidos

LEMMA ResponderTipo ==
    ASSUME Base, NEW v \in User, NEW tipo \in Ret, Responder(v, tipo)
    PROVE  resposta' \in [User -> Ret]
BY BasePartes DEF TipoResto, Responder

\* The group a command makes.
Feito(u) == [nome |-> comando[u].grupo, membros |-> comando[u].membros, criador |-> u]

LEMMA FeitoTipo ==
    ASSUME Base, NEW u \in User, pc[u] \in {"conectar", "esperar"}
    PROVE  /\ Feito(u) \in Grupo /\ Feito(u).membros # <<>> /\ comando[u].txt \in Nat
           /\ comando[u].tipo = "ADD_GROUP" => IsInjective(Feito(u).membros)
<1>1. /\ comando[u].grupo \in Nome /\ comando[u].membros \in Seq(User) /\ comando[u].txt \in Nat
      /\ comando[u].tipo = "ADD_GROUP" => IsInjective(comando[u].membros)
    BY BasePartes DEF TipoComando, Cmd, FormaComando
<1>2. comando[u].membros # <<>>
    <2>1. Perguntados(u) + 1 \in 1 .. Len(comando[u].membros)
        BY BasePartes, Proximo
    <2>2. Len(comando[u].membros) # 0
        BY <2>1
    <2>. QED
        BY <1>1, <2>2, EmptySeq
<1>. QED
    BY <1>1, <1>2 DEF Feito, Grupo

LEMMA ConcluirBase ==
    ASSUME Base, NEW u \in User, pc[u] = "esperar", NEW n, Concluir(u, n), contatos' = contatos
    PROVE  /\ TipoGrupos' /\ TipoContatos' /\ FormaContatos' /\ FormaGrupos'
           /\ MembrosConhecidos' /\ TipoArquivo'
<1>1. TipoContatos' /\ FormaContatos'
    BY BasePartes DEF TipoContatos, FormaContatos
<1>2. CASE UNCHANGED <<grupos, arquivo>>
    BY <1>1, <1>2, Parados_grupos, Parados_arquivo
<1>3. CASE comando[u].tipo = "ADD_GROUP" /\ Entrou(u, Feito(u)) /\ arquivo' = arquivo
    <2>1. ToSet(Feito(u).membros) \subseteq contatos'[u]
        BY <1>3, BasePartes DEF FormaComando, Feito
    <2>. QED
        BY <1>1, <1>3, <2>1, FeitoTipo, NovoGrupo, Parados_arquivo
<1>4. CASE /\ arquivo' = [arquivo EXCEPT ![u][comando[u].grupo].sai = Append(@, comando[u].txt)]
           /\ grupos' = grupos
    <2>1. comando[u].grupo \in Nome /\ comando[u].txt \in Nat
        BY FeitoTipo, BasePartes DEF FormaComando
    <2>. QED
        BY <1>4, <2>1, Gravado, BasePartes, Parados_grupos
<1>. QED
    BY <1>2, <1>3, <1>4 DEF Concluir, AddGroup, Registrar, Entrou, Feito

LEMMA ClienteBase ==
    ASSUME Base, NEW u \in User, initClient(u)
    PROVE  Base'
<1>1. CASE Conectar(u)
    <2>. DEFINE v == Alvo(u)
                m == Mensagem(u)
                r == Tail(comando[u].faltam)
                lendo == comando[u].tipo = "READ_MSGS_GROUP"
    <2>1. /\ pc[u] = "conectar" /\ fila' = [fila EXCEPT ![v] = Append(@, m)]
          /\ comando' = IF lendo THEN [comando EXCEPT ![u].faltam = Tail(@)] ELSE comando
          /\ pc' = [pc EXCEPT ![u] =
                IF ~ lendo THEN "esperar" ELSE IF r = <<>> THEN "ocioso" ELSE "conectar"]
          /\ UNCHANGED <<vivo, contatos, grupos, arquivo, aux, resposta, pedidos,
                         digitados, listas>>
        BY <1>1 DEF Conectar
    <2>2. v \in User
        BY <2>1, BasePartes, Proximo
    <2>3. m \in Msg /\ (m.tipo = "ADD_GROUP" => IsInjective(m.to) /\ m.from \notin ToSet(m.to))
        BY <2>1, MensagemTipo
    <2>. HIDE DEF v, m
    <2>4. TipoFila' /\ FormaFila'
        BY <2>1, <2>2, <2>3, Enfileira
    <2>5. TipoComando' /\ FormaComando'
        <3>1. CASE lendo
            <4>1. comando \in [User -> Cmd] /\ aux \in [User -> Nat]
                BY BasePartes DEF TipoComando
            <4>2. PICK n \in 0 .. 1 : aux' = [aux EXCEPT ![u] = @ + n]
                <5>1. aux' = [aux EXCEPT ![u] = @ + 0] /\ 0 \in 0 .. 1
                    BY <2>1, <4>1
                <5>. QED
                    BY <5>1
            <4>3. comando' = [comando EXCEPT ![u].faltam = r]
                BY <2>1, <3>1, <4>1
            <4>4. PICK p \in {"ocioso", "conectar"} :
                     pc' = [pc EXCEPT ![u] = p] /\ (p = "conectar" => r # <<>>)
                BY <2>1, <3>1
            <4>. QED
                BY <2>1, <4>2, <4>3, <4>4, Avancou
        <3>2. CASE ~ lendo
            BY <2>1, <3>2, MudouPc
        <3>. QED
            BY <3>1, <3>2
    <2>6. TipoResto'
        BY <2>1, BasePartes DEF TipoResto
    <2>. QED
        BY <2>1, <2>4, <2>5, <2>6, Parados_grupos, Parados_arquivo, BaseDepois
<1>2. CASE ConectarFalha(u)
    BY <1>2, CaiBase, BasePartes DEF ConectarFalha, TipoResto
<1>3. CASE ReceberResposta(u)
    <2>. DEFINE r == Tail(comando[u].faltam)
    <2>1. /\ pc[u] = "esperar" /\ resposta' = [resposta EXCEPT ![u] = "nenhuma"]
          /\ UNCHANGED <<vivo, contatos, fila, pedidos, digitados, listas>>
        BY <1>3 DEF ReceberResposta
    <2>2. TipoResto'
        BY <2>1, BasePartes DEF TipoResto, Ret
    <2>3. CASE UNCHANGED <<grupos, arquivo, comando, aux>> /\ pc' = [pc EXCEPT ![u] = "girando"]
        BY <2>1, <2>2, <2>3, MudouPc, Parados_fila, Parados_grupos, Parados_arquivo, BaseDepois
    <2>4. ASSUME NEW n \in 0 .. 1,
                 aux' = [aux EXCEPT ![u] = @ + n], comando' = [comando EXCEPT ![u].faltam = r],
                 IF r = <<>>
                 THEN Concluir(u, aux[u] + n) /\ pc' = [pc EXCEPT ![u] = "ocioso"]
                 ELSE UNCHANGED <<grupos, arquivo>> /\ pc' = [pc EXCEPT ![u] = "conectar"]
          PROVE  Base'
        <3>1. TipoComando' /\ FormaComando'
            <4>1. PICK p \in {"ocioso", "conectar"} :
                     pc' = [pc EXCEPT ![u] = p] /\ (p = "conectar" => r # <<>>)
                BY <2>4
            <4>. QED
                BY <2>1, <2>4, <4>1, Avancou
        <3>2. /\ TipoGrupos' /\ TipoContatos' /\ FormaContatos' /\ FormaGrupos'
              /\ MembrosConhecidos' /\ TipoArquivo'
            BY <2>1, <2>4, ConcluirBase, Parados_grupos, Parados_arquivo
        <3>. QED
            BY <2>1, <2>2, <3>1, <3>2, Parados_fila, BaseDepois
    <2>. QED
        BY <1>3, <2>3, <2>4 DEF ReceberResposta
<1>. QED
    BY <1>1, <1>2, <1>3 DEF initClient

\* What a server makes of a group it is told of.
LEMMA Apresentou ==
    ASSUME Base, NEW v \in User, NEW m \in Msg, m.tipo = "ADD_GROUP", IsInjective(m.to),
           m.from \notin ToSet(m.to), m.from \in contatos[v],
           contatos' = [contatos EXCEPT ![v] = Apresentar(v, m.to)],
           AddGroupRcv(v, m)
    PROVE  /\ TipoGrupos' /\ TipoContatos' /\ FormaContatos' /\ FormaGrupos'
           /\ MembrosConhecidos'
           /\ \A w \in User : contatos[w] \subseteq contatos'[w]
           /\ _createGroupRcv(v, m) \in Grupo /\ Entrou(v, _createGroupRcv(v, m))
           /\ ToSet(_createGroupRcv(v, m).membros) = {m.from} \cup (ToSet(m.to) \ {v})
<1>. DEFINE d == Apresentar(v, m.to)
            l == RemoveFirst(m.to, v)
            ms == <<m.from>> \o l
            g == _createGroupRcv(v, m)
<1>1. m.from \in User /\ m.to \in Seq(User) /\ m.grupo \in Nome
    BY DEF Msg
<1>2. /\ contatos \in [User -> SUBSET Pessoa] /\ IsFiniteSet(contatos[v])
      /\ Cardinality(contatos[v]) <= MaxContatos
    BY BasePartes DEF TipoContatos, FormaContatos
<1>3. Apresentados(v, m.to, Len(m.to), d)
    BY <1>1, <1>2, ApresentarTipo
<1>4. l \in Seq(User) /\ ToSet(l) = ToSet(m.to) \ {v} /\ IsInjective(l) /\ m.from \notin ToSet(l)
    BY <1>1, SemUm
<1>5. ms \in Seq(User) /\ ms # <<>> /\ ToSet(ms) = {m.from} \cup ToSet(l) /\ IsInjective(ms)
    <2>. HIDE DEF l
    <2>1. PICK f : f = m.from /\ f \in User
        BY <1>1
    <2>2. /\ <<f>> \o l \in Seq(User) /\ Len(<<f>> \o l) = Len(l) + 1 /\ Len(l) \in Nat
          /\ (<<f>> \o l)[1] = f /\ \A k \in 1 .. Len(l) : (<<f>> \o l)[k + 1] = l[k]
        BY <1>4, <2>1
    <2>3. PICK q, n : q = <<f>> \o l /\ n = Len(l)
        OBVIOUS
    <2>4. /\ ToSet(q) = {q[k] : k \in 1 .. n + 1} /\ ToSet(l) = {l[k] : k \in 1 .. n}
        <3>1. q \in Seq(User) /\ Len(q) = n + 1
            BY <2>2, <2>3
        <3>2. ToSet(q) = {q[k] : k \in 1 .. n + 1}
            BY <3>1, Funcao
        <3>3. ToSet(l) = {l[k] : k \in 1 .. Len(l)}
            BY <1>4, Funcao
        <3>4. n = Len(l)
            BY <2>3
        <3>. QED
            BY <3>2, <3>3, <3>4
    <2>5. \A k \in 1 .. n + 1 : k = 1 \/ (k - 1 \in 1 .. n /\ (k - 1) + 1 = k)
        BY <2>2, <2>3
    <2>6. /\ 1 \in 1 .. n + 1 /\ \A k \in 1 .. n : k + 1 \in 1 .. n + 1
          /\ q[1] = f /\ \A k \in 1 .. n : q[k + 1] = l[k]
        BY <2>2, <2>3
    <2>7. ToSet(q) \subseteq {f} \cup ToSet(l)
        <3>1. ASSUME NEW k \in 1 .. n + 1 PROVE q[k] \in {f} \cup ToSet(l)
            BY <2>4, <2>5, <2>6
        <3>. QED
            BY <2>4, <3>1
    <2>8. {f} \cup ToSet(l) \subseteq ToSet(q)
        BY <2>4, <2>6
    <2>9. q # <<>>
        BY <2>2, <2>3
    <2>10. IsInjective(q)
        <3>1. DOMAIN q = 1 .. n + 1 /\ DOMAIN l = 1 .. n
            BY <1>4, <2>2, <2>3
        <3>2. \A k \in 1 .. n : l[k] # f
            BY <1>4, <2>1, <2>4
        <3>3. ASSUME NEW j \in 1 .. n + 1, NEW k \in 1 .. n + 1, q[j] = q[k] PROVE j = k
            <4>1. CASE j = 1
                BY <2>5, <2>6, <3>2, <3>3, <4>1
            <4>2. CASE j # 1
                <5>1. j - 1 \in 1 .. n /\ q[j] = l[j - 1]
                    BY <2>5, <2>6, <4>2
                <5>2. k - 1 \in 1 .. n /\ q[k] = l[k - 1]
                    BY <2>5, <2>6, <3>2, <3>3, <5>1
                <5>3. j - 1 = k - 1
                    BY <1>4, <3>1, <3>3, <5>1, <5>2 DEF IsInjective
                <5>. QED
                    BY <2>2, <2>3, <5>3
            <4>. QED
                BY <4>1, <4>2
        <3>. QED
            BY <3>1, <3>3 DEF IsInjective
    <2>. QED
        BY <2>1, <2>2, <2>3, <2>7, <2>8, <2>9, <2>10
<1>6. g \in Grupo /\ g.membros = ms /\ Entrou(v, g)
    <2>. HIDE DEF l
    <2>1. g = [nome |-> m.grupo, criador |-> m.from, membros |-> ms]
        BY DEF _createGroupRcv, l
    <2>. HIDE DEF ms, g
    <2>2. g \in Grupo /\ g.membros = ms
        BY <1>1, <1>5, <2>1 DEF Grupo
    <2>3. Entrou(v, g)
        BY DEF AddGroupRcv, Entrou, g
    <2>. QED
        BY <2>2, <2>3
<1>. HIDE DEF d, l, ms, g
<1>7. contatos'[v] = d /\ \A w \in User \ {v} : contatos'[w] = contatos[w]
    BY <1>2 DEF d
<1>8. TipoContatos' /\ FormaContatos' /\ \A w \in User : contatos[w] \subseteq contatos'[w]
    <2>1. d \in SUBSET Pessoa /\ IsFiniteSet(d) /\ Cardinality(d) <= MaxContatos /\ contatos[v] \subseteq d
        BY <1>3 DEF Apresentados
    <2>2. contatos' \in [User -> SUBSET Pessoa]
        BY <1>2, <2>1 DEF d
    <2>. QED
        BY <1>7, <2>1, <2>2, BasePartes DEF TipoContatos, FormaContatos
<1>9. ToSet(g.membros) \subseteq contatos'[v] \/ Cardinality(contatos'[v]) = MaxContatos
    <2>1. CASE \A i \in 1 .. Len(m.to) : m.to[i] # v => m.to[i] \in d
        <3>1. ToSet(m.to) = {m.to[i] : i \in 1 .. Len(m.to)}
            BY <1>1, Funcao
        <3>2. ToSet(m.to) \ {v} \subseteq d
            BY <2>1, <3>1
        <3>3. m.from \in d
            BY <1>7, <1>8
        <3>. QED
            BY <1>4, <1>5, <1>6, <1>7, <3>2, <3>3
    <2>2. CASE Cardinality(d) = MaxContatos
        BY <1>7, <2>2
    <2>. QED
        BY <1>3, <2>1, <2>2 DEF Apresentados
<1>10. TipoGrupos' /\ FormaGrupos' /\ MembrosConhecidos'
    BY <1>5, <1>6, <1>8, <1>9, NovoGrupo
<1>. QED
    BY <1>4, <1>5, <1>6, <1>8, <1>10 DEF g

LEMMA ServidorBase ==
    ASSUME Base, NEW v \in User, serverThread(v)
    PROVE  Base'
<1>. DEFINE m == Atendida(v)
<1>1. ASSUME NEW tipo, Receber(v, tipo), fila' = [fila EXCEPT ![v] = Tail(@)]
      PROVE  /\ TipoFila' /\ FormaFila' /\ m \in Msg /\ m.tipo = tipo
             /\ m.from \in User /\ m.grupo \in Nome /\ m.txt \in Nat
             /\ m.tipo = "ADD_GROUP" => IsInjective(m.to) /\ m.from \notin ToSet(m.to)
    <2>1. /\ TipoFila' /\ FormaFila' /\ m \in Msg /\ m.tipo = tipo
          /\ 1 \in DOMAIN fila[v] /\ m = fila[v][1]
        BY <1>1, Desenfileira DEF Receber
    <2>. QED
        BY <2>1, BasePartes DEF Msg, FormaFila
<1>2. CASE TratarGrupo(v)
    <2>1. /\ Receber(v, "ADD_GROUP") /\ fila' = [fila EXCEPT ![v] = Tail(@)]
          /\ UNCHANGED <<vivo, arquivo, pc, comando, aux, pedidos, digitados, listas>>
        BY <1>2 DEF TratarGrupo
    <2>2. TipoResto'
        <3>1. resposta' \in [User -> Ret]
            BY <1>2, ResponderTipo DEF TratarGrupo, Ret
        <3>. QED
            BY <2>1, <3>1, BasePartes DEF TipoResto
    <2>3. CASE m.from \in contatos[v]
        <3>1. contatos' = [contatos EXCEPT ![v] = Apresentar(v, m.to)] /\ AddGroupRcv(v, m)
            BY <1>2, <2>3 DEF TratarGrupo
        <3>2. /\ m \in Msg /\ m.tipo = "ADD_GROUP" /\ TipoFila' /\ FormaFila'
              /\ IsInjective(m.to) /\ m.from \notin ToSet(m.to)
            BY <1>1, <2>1
        <3>3. /\ TipoGrupos' /\ TipoContatos' /\ FormaContatos' /\ FormaGrupos'
              /\ MembrosConhecidos' /\ \A w \in User : contatos[w] \subseteq contatos'[w]
            BY <2>3, <3>1, <3>2, Apresentou
        <3>. QED
            BY <2>1, <2>2, <3>2, <3>3, Parados_comando, Parados_arquivo, BaseDepois
    <2>4. CASE m.from \notin contatos[v]
        <3>1. UNCHANGED <<contatos, grupos>>
            BY <1>2, <2>4 DEF TratarGrupo
        <3>. QED
            BY <1>1, <2>1, <2>2, <3>1, Parados_grupos, Parados_comando, Parados_arquivo, BaseDepois
    <2>. QED
        BY <2>3, <2>4
<1>3. CASE TratarGrupoFalha(v)
    <2>. DEFINE r == IF vivo[m.from] THEN [resposta EXCEPT ![m.from] = "RET_MSG_GROUP_FAIL"]
                     ELSE resposta
    <2>1. r \in [User -> Ret]
        BY BasePartes DEF TipoResto, Ret
    <2>2. Cai(v, r)
        BY <1>3 DEF TratarGrupoFalha
    <2>. HIDE DEF r
    <2>. QED
        BY <2>1, <2>2, CaiBase
<1>4. CASE TratarTextoGrupo(v)
    <2>1. /\ Receber(v, "MSG_TXT_GROUP") /\ fila' = [fila EXCEPT ![v] = Tail(@)]
          /\ UNCHANGED <<vivo, contatos, grupos, pc, comando, aux, pedidos, digitados, listas>>
        BY <1>4 DEF TratarTextoGrupo
    <2>2. TipoResto'
        <3>1. resposta' \in [User -> Ret]
            BY <1>4, ResponderTipo DEF TratarTextoGrupo, Ret
        <3>. QED
            BY <2>1, <3>1, BasePartes DEF TipoResto
    <2>3. TipoArquivo'
        <3>1. m.from \in User /\ m.grupo \in Nome /\ m.txt \in Nat
            BY <1>1, <2>1
        <3>2. \/ arquivo' = arquivo
              \/ arquivo' = [arquivo EXCEPT ![v][m.grupo].ent =
                                Append(@, [from |-> m.from, txt |-> m.txt])]
            BY <1>4 DEF TratarTextoGrupo
        <3>. HIDE DEF m
        <3>. QED
            BY <3>1, <3>2, Gravado, BasePartes, Parados_arquivo
    <2>. QED
        BY <1>1, <2>1, <2>2, <2>3, Parados_grupos, Parados_comando, BaseDepois
<1>5. CASE TratarLeituraGrupo(v)
    <2>1. /\ Receber(v, "READ_MSGS_GROUP") /\ fila' = [fila EXCEPT ![v] = Tail(@)]
          /\ UNCHANGED <<vivo, contatos, grupos, pc, comando, aux, resposta, pedidos,
                         digitados, listas>>
        BY <1>5 DEF TratarLeituraGrupo
    <2>2. TipoResto'
        BY <2>1, BasePartes DEF TipoResto
    <2>3. TipoArquivo'
        <3>1. m.grupo \in Nome
            BY <1>1, <2>1
        <3>2. \/ arquivo' = arquivo
              \/ arquivo' = [arquivo EXCEPT ![v][m.grupo].marcadas = Len(arquivo[v][m.grupo].sai)]
            BY <1>5 DEF TratarLeituraGrupo
        <3>. HIDE DEF m
        <3>. QED
            BY <3>1, <3>2, Gravado, BasePartes, Parados_arquivo
    <2>. QED
        BY <1>1, <2>1, <2>2, <2>3, Parados_grupos, Parados_comando, BaseDepois
<1>6. CASE TratarLeituraGrupoFalha(v)
    BY <1>6, CaiBase, BasePartes DEF TratarLeituraGrupoFalha, TipoResto
<1>. QED
    BY <1>2, <1>3, <1>4, <1>5, <1>6 DEF serverThread

LEMMA InitBase == Init => Base
<1>. SUFFICES ASSUME Init PROVE Base
    OBVIOUS
<1>1. FormaContatos
    BY GruposAssumption DEF Init, FormaContatos
<1>2. FormaGrupos /\ MembrosConhecidos
    BY DEF Init, FormaGrupos, MembrosConhecidos
<1>3. FormaComando /\ FormaFila
    BY DEF Init, FormaComando, FormaFila, Nada
<1>. QED
    BY <1>1, <1>2, <1>3, InitTypeOK DEF Base, Formas

LEMMA NextBase == Base /\ [Next]_vars => Base'
<1>. SUFFICES ASSUME Base, [Next]_vars PROVE Base'
    OBVIOUS
<1>1. CASE UNCHANGED vars
    <2>1. TipoResto'
        BY <1>1, BasePartes DEF vars, TipoResto
    <2>. QED
        BY <1>1, <2>1, Parados_grupos, Parados_fila, Parados_arquivo, Parados_comando,
           BaseDepois DEF vars
<1>. QED
    BY <1>1, DigitarBase, ClienteBase, ServidorBase DEF Next

\* Every variable of the groups keeps its type, no list outgrows its array, and no
\* more records of a file are marked than there are.
THEOREM TypesHold == Spec => []TypeOK
<1>1. Base => TypeOK
    BY DEF Base
<1>. QED
    BY <1>1, InitBase, NextBase, PTL DEF Spec

\* Whoever is in a group of u is a contact of u, or u has no room for contacts
\* (server.c:167-183, utils.c:237).
THEOREM MembersAreKnown == Spec => []MembrosConhecidos
<1>1. Base => MembrosConhecidos
    BY DEF Base
<1>. QED
    BY <1>1, InitBase, NextBase, PTL DEF Spec

-----------------------------------------------------------------------------
(***************************************************************************)
(* The groups of a creator and of the members, while no process dies.      *)
(***************************************************************************)
\* A client that does not wait for an answer has no message to be answered.
LEMMA NadaDevido ==
    ASSUME Base, Esperas, NEW u \in User, pc[u] # "esperar" \/ resposta[u] # "nenhuma"
    PROVE  \A v \in User : \A k \in DOMAIN fila[v] :
              Pendente(fila[v][k]) => fila[v][k].from # u
BY DEF Esperas, Devidas, Devida

LEMMA ConexaoTipo ==
    ASSUME Base, NEW v \in User, NEW k \in DOMAIN fila[v]
    PROVE  fila[v][k] \in Msg /\ fila[v][k].from \in User
<1>1. fila[v] \in Seq(Msg)
    BY BasePartes DEF TipoFila
<1>2. fila[v][k] \in Msg
    BY <1>1
<1>. QED
    BY <1>2 DEF Msg

\* What is due to u is due to it as long as its client stays where it is.
LEMMA DevidaFica ==
    ASSUME NEW u, NEW v, NEW m, Devida(u, v, m),
           pc'[u] = pc[u], comando'[u] = comando[u], resposta'[u] = resposta[u]
    PROVE  Devida(u, v, m)'
BY DEF Devida, Alvo, Mensagem

\* u goes on, without a message to be answered before or after, and no queue changes.
LEMMA ClienteEsperas ==
    ASSUME Base, Esperas, NEW u \in User, pc[u] # "esperar" \/ resposta[u] # "nenhuma",
           fila' = fila, resposta'[u] = "nenhuma",
           \A w \in User \ {u} : /\ comando'[w] = comando[w] /\ pc'[w] = pc[w]
                                 /\ resposta'[w] = resposta[w]
    PROVE  Esperas'
<1>1. SoQuemEspera'
    BY DEF Esperas, SoQuemEspera
<1>2. Devidas'
    <2>1. ASSUME NEW v \in User, NEW k \in DOMAIN fila[v], Pendente(fila[v][k])
          PROVE  Devida(fila[v][k].from, v, fila[v][k])'
        <3>1. fila[v][k].from \in User \ {u}
            BY <2>1, NadaDevido, ConexaoTipo
        <3>2. Devida(fila[v][k].from, v, fila[v][k])
            BY <2>1 DEF Esperas, Devidas
        <3>3. PICK x, m : x = fila[v][k].from /\ m = fila[v][k]
            OBVIOUS
        <3>4. Devida(x, v, m)'
            BY <3>1, <3>2, <3>3, DevidaFica
        <3>. QED
            BY <3>3, <3>4 DEF Devida
    <2>. QED
        BY <2>1 DEF Devidas, Pendente
<1>3. UmaSo'
    BY DEF Esperas, UmaSo, Pendente
<1>. QED
    BY <1>1, <1>2, <1>3 DEF Esperas

LEMMA ConectarEsperas ==
    ASSUME Base, Esperas, NEW u \in User, Conectar(u)
    PROVE  Esperas'
<1>0. PICK v, m : v = Alvo(u) /\ m = Mensagem(u)
    OBVIOUS
<1>1. /\ pc[u] = "conectar" /\ fila' = [fila EXCEPT ![v] = Append(@, m)] /\ resposta' = resposta
      /\ \A w \in User \ {u} : comando'[w] = comando[w] /\ pc'[w] = pc[w]
      /\ comando[u].tipo # "READ_MSGS_GROUP" => comando'[u] = comando[u] /\ pc'[u] = "esperar"
    <2>1. pc \in [User -> {"ocioso", "conectar", "esperar", "girando"}] /\ comando \in [User -> Cmd]
        BY BasePartes DEF TipoComando
    <2>. QED
        BY <1>0, <2>1 DEF Conectar
<1>2. v \in User /\ m \in Msg /\ m.from = u /\ m.tipo = comando[u].tipo
    BY <1>0, <1>1, BasePartes, Proximo, MensagemTipo
<1>3. \A w \in User : \A k \in DOMAIN fila'[w] :
          \/ k \in DOMAIN fila[w] /\ fila'[w][k] = fila[w][k]
          \/ w = v /\ k = Len(fila[v]) + 1 /\ fila'[w][k] = m
    BY <1>0, <1>1, <1>2, Enfileira, MensagemTipo
<1>4. resposta[u] = "nenhuma"
    BY <1>1 DEF Esperas, SoQuemEspera
<1>5. \A w \in User : \A k \in DOMAIN fila[w] : Pendente(fila[w][k]) => fila[w][k].from # u
    BY <1>1, NadaDevido
<1>6. SoQuemEspera'
    BY <1>1, <1>4 DEF Esperas, SoQuemEspera
<1>7. Pendente(m) => Devida(u, v, m)'
    BY <1>0, <1>1, <1>2, <1>4 DEF Pendente, Devida, Alvo, Mensagem
<1>8. Devidas'
    <2>1. ASSUME NEW w \in User, NEW k \in DOMAIN fila'[w], Pendente(fila'[w][k])
          PROVE  Devida(fila[w][k].from, w, fila[w][k])'
        <3>1. PICK x, c : x = fila'[w][k].from /\ c = fila'[w][k]
            OBVIOUS
        <3>2. CASE k \in DOMAIN fila[w] /\ fila'[w][k] = fila[w][k]
            <4>1. x \in User \ {u} /\ Devida(x, w, c)
                BY <1>5, <2>1, <3>1, <3>2, ConexaoTipo DEF Esperas, Devidas
            <4>2. Devida(x, w, c)'
                BY <1>1, <4>1, DevidaFica
            <4>. QED
                BY <3>1, <4>2 DEF Devida
        <3>3. CASE w = v /\ fila'[w][k] = m
            <4>1. Devida(u, v, m)' /\ x = u /\ c = m
                BY <1>2, <1>7, <2>1, <3>1, <3>3
            <4>. QED
                BY <3>1, <3>3, <4>1 DEF Devida
        <3>. QED
            BY <1>3, <2>1, <3>2, <3>3
    <2>. QED
        BY <2>1 DEF Devidas, Pendente
<1>9. UmaSo'
    <2>1. ASSUME NEW w \in User, NEW j \in DOMAIN fila'[w], NEW k \in DOMAIN fila'[w],
                 Pendente(fila'[w][j]), Pendente(fila'[w][k]), fila'[w][j].from = fila'[w][k].from
          PROVE  j = k
        <3>1. CASE fila'[w][k].from = u
            BY <1>3, <1>5, <2>1, <3>1
        <3>2. CASE fila'[w][k].from # u
            <4>1. /\ j \in DOMAIN fila[w] /\ fila'[w][j] = fila[w][j]
                  /\ k \in DOMAIN fila[w] /\ fila'[w][k] = fila[w][k]
                BY <1>2, <1>3, <2>1, <3>2
            <4>. QED
                BY <2>1, <4>1 DEF Esperas, UmaSo
        <3>. QED
            BY <3>1, <3>2
    <2>. QED
        BY <2>1 DEF UmaSo, Pendente
<1>. QED
    BY <1>6, <1>8, <1>9 DEF Esperas

\* v is done with a message, and has answered it if it is one to be answered.
LEMMA ServidorEsperas ==
    ASSUME Base, Esperas, NEW v \in User, fila[v] # <<>>, fila' = [fila EXCEPT ![v] = Tail(@)],
           UNCHANGED <<pc, comando>>,
           NEW t \in {"RET_MSG_GROUP_OK", "RET_MSG_GROUP_FAIL"},
           resposta' = IF Pendente(Atendida(v)) THEN [resposta EXCEPT ![Atendida(v).from] = t]
                       ELSE resposta
    PROVE  Esperas'
<1>. DEFINE m == Atendida(v)
            x == m.from
<1>1. /\ 1 \in DOMAIN fila[v] /\ m = fila[v][1]
      /\ \A w \in User \ {v} : fila'[w] = fila[w]
      /\ \A k \in DOMAIN fila'[v] : /\ k \in Nat /\ k + 1 \in DOMAIN fila[v] /\ k + 1 # 1
                                    /\ fila'[v][k] = fila[v][k + 1]
    BY Desenfileira
<1>. HIDE DEF m
<1>2. x \in User /\ (Pendente(m) => Devida(x, v, m))
    BY <1>1, ConexaoTipo DEF Esperas, Devidas
<1>3. /\ resposta \in [User -> Ret]
      /\ \A w \in User : resposta'[w] = IF Pendente(m) /\ w = x THEN t ELSE resposta[w]
    BY <1>2, BasePartes DEF TipoResto, m
<1>4. SoQuemEspera'
    BY <1>2, <1>3 DEF Esperas, SoQuemEspera, Devida
<1>5. \A w \in User : \A k \in DOMAIN fila'[w] :
          /\ fila'[w][k].from \in User
          /\ \E j \in DOMAIN fila[w] : fila[w][j] = fila'[w][k] /\ (w = v => j # 1)
    <2>1. ASSUME NEW w \in User, NEW k \in DOMAIN fila'[w]
          PROVE  \E j \in DOMAIN fila[w] : fila[w][j] = fila'[w][k] /\ (w = v => j # 1)
        BY <1>1
    <2>. QED
        BY <2>1, ConexaoTipo
<1>6. ASSUME NEW w \in User, NEW j \in DOMAIN fila[w], w = v => j # 1,
             Pendente(fila[w][j]), Pendente(m)
      PROVE  fila[w][j].from # x
    <2>1. CASE w = v
        BY <1>1, <1>6, <2>1 DEF Esperas, UmaSo
    <2>2. CASE w # v
        BY <1>2, <1>6, <2>2 DEF Esperas, Devidas, Devida
    <2>. QED
        BY <2>1, <2>2
<1>7. Devidas'
    <2>1. ASSUME NEW w \in User, NEW k \in DOMAIN fila'[w], Pendente(fila'[w][k])
          PROVE  Devida(fila[w][k].from, w, fila[w][k])'
        <3>1. PICK j \in DOMAIN fila[w] : fila[w][j] = fila'[w][k] /\ (w = v => j # 1)
            BY <1>5
        <3>2. PICK y, c : y = fila'[w][k].from /\ c = fila'[w][k]
            OBVIOUS
        <3>3. y \in User /\ Devida(y, w, c) /\ resposta'[y] = resposta[y]
            BY <1>3, <1>5, <1>6, <2>1, <3>1, <3>2 DEF Esperas, Devidas
        <3>4. Devida(y, w, c)'
            BY <3>3, DevidaFica
        <3>. QED
            BY <3>2, <3>4 DEF Devida
    <2>. QED
        BY <2>1 DEF Devidas, Pendente
<1>8. UmaSo'
    <2>1. ASSUME NEW w \in User, NEW j \in DOMAIN fila'[w], NEW k \in DOMAIN fila'[w],
                 Pendente(fila'[w][j]), Pendente(fila'[w][k]), fila'[w][j].from = fila'[w][k].from
          PROVE  j = k
        <3>1. CASE w = v
            <4>1. /\ j \in Nat /\ j + 1 \in DOMAIN fila[v] /\ fila'[v][j] = fila[v][j + 1]
                  /\ k \in Nat /\ k + 1 \in DOMAIN fila[v] /\ fila'[v][k] = fila[v][k + 1]
                BY <1>1, <2>1, <3>1
            <4>2. j + 1 = k + 1
                BY <2>1, <3>1, <4>1 DEF Esperas, UmaSo
            <4>. QED
                BY <4>1, <4>2
        <3>2. CASE w # v
            BY <1>1, <2>1, <3>2 DEF Esperas, UmaSo
        <3>. QED
            BY <3>1, <3>2
    <2>. QED
        BY <2>1 DEF UmaSo, Pendente
<1>. QED
    BY <1>4, <1>7, <1>8 DEF Esperas

\* No list of groups loses an entry, or the room it has not.
Cresceram ==
    \A w \in User :
        /\ \A k \in DOMAIN grupos[w] : k \in DOMAIN grupos'[w] /\ grupos'[w][k] = grupos[w][k]
        /\ Len(grupos[w]) = MaxGrupos => Len(grupos'[w]) = MaxGrupos

LEMMA TemFica ==
    ASSUME Cresceram, NEW m \in User, NEW u, NEW nome, NEW ms, Tem(m, u, nome, ms)
    PROVE  Tem(m, u, nome, ms)'
BY DEF Cresceram, Tem, Igual

\* The members of a group, as it is now.
Todos(u, nome, ms) == \A m \in ToSet(ms) : Tem(m, u, nome, ms)

LEMMA TodosFicam ==
    ASSUME Cresceram, NEW u, NEW nome, NEW ms \in Seq(User), Todos(u, nome, ms)
    PROVE  Todos(u, nome, ms)'
BY TemFica, Funcao DEF Todos

\* Those u has asked have the group still; the one whose acceptance has come now
\* must have got it.
LEMMA ConvidadosComResposta ==
    ASSUME Base, NEW u \in User, Convidados(u), Cresceram,
           comando'[u] = comando[u], aux'[u] = aux[u], pc'[u] = pc[u],
           /\ comando[u].tipo = "ADD_GROUP" /\ pc[u] \in {"conectar", "esperar"}
           /\ resposta'[u] = "RET_MSG_GROUP_OK"
           => Tem(Alvo(u), u, comando[u].grupo, comando[u].membros)'
    PROVE  Convidados(u)'
<1>. SUFFICES ASSUME comando[u].tipo = "ADD_GROUP", pc[u] \in {"conectar", "esperar"}
              PROVE  Convidados(u)'
    BY DEF Convidados
<1>1. PICK c, n : c = comando[u] /\ n = Perguntados(u)
    OBVIOUS
<1>2. /\ n \in Nat /\ n + 1 \in 1 .. Len(c.membros)
      /\ c.membros \in Seq(User) /\ \A i \in 1 .. Len(c.membros) : c.membros[i] \in User
    <2>1. c.membros \in Seq(User)
        BY <1>1, BasePartes DEF TipoComando, Cmd
    <2>. QED
        BY <1>1, <2>1, BasePartes, Proximo, Funcao
<1>3. comando'[u] = c /\ Perguntados(u)' = n
    BY <1>1 DEF Perguntados
<1>4. aux[u] = n => \A i \in 1 .. n : Tem(c.membros[i], u, c.grupo, c.membros)
    BY <1>1 DEF Convidados
<1>5. ASSUME NEW i \in 1 .. n, Tem(c.membros[i], u, c.grupo, c.membros)
      PROVE  Tem(c.membros[i], u, c.grupo, c.membros)'
    <2>1. PICK m : m = c.membros[i] /\ m \in User
        BY <1>2
    <2>2. Tem(m, u, c.grupo, c.membros)'
        BY <1>5, <2>1, TemFica
    <2>. QED
        BY <2>1, <2>2
<1>6. aux'[u] = n => \A i \in 1 .. n : Tem(c.membros[i], u, c.grupo, c.membros)'
    BY <1>4, <1>5
<1>. QED
    BY <1>3, <1>6 DEF Convidados

LEMMA ConvidadosFicam ==
    ASSUME Base, NEW u \in User, Convidados(u), Cresceram,
           comando'[u] = comando[u], aux'[u] = aux[u], pc'[u] = pc[u],
           resposta'[u] \in {resposta[u], "RET_MSG_GROUP_FAIL"}
    PROVE  Convidados(u)'
<1>1. ASSUME comando[u].tipo = "ADD_GROUP", pc[u] \in {"conectar", "esperar"},
             resposta'[u] = "RET_MSG_GROUP_OK"
      PROVE  Tem(Alvo(u), u, comando[u].grupo, comando[u].membros)'
    <2>1. PICK a, c : a = Alvo(u) /\ c = comando[u]
        OBVIOUS
    <2>2. a \in User /\ Tem(a, u, c.grupo, c.membros)
        BY <1>1, <2>1, BasePartes, Proximo DEF Convidados
    <2>3. Tem(a, u, c.grupo, c.membros)'
        BY <2>2, TemFica
    <2>4. Alvo(u)' = a /\ comando'[u] = c
        BY <2>1 DEF Alvo
    <2>. QED
        BY <2>3, <2>4
<1>. QED
    BY <1>1, ConvidadosComResposta

LEMMA CompletosFicam ==
    ASSUME Base, Completos, UNCHANGED grupos
    PROVE  Completos' /\ Cresceram
<1>1. Cresceram
    BY DEF Cresceram
<1>2. ASSUME NEW w \in User, NEW k \in DOMAIN grupos[w], NEW h, h = grupos[w][k], h.criador = w
      PROVE  Todos(w, h.nome, h.membros)'
    <2>1. grupos[w] \in Seq(Grupo)
        BY BasePartes DEF TipoGrupos
    <2>2. h \in Grupo
        BY <1>2, <2>1
    <2>3. h.membros \in Seq(User)
        BY <2>2 DEF Grupo
    <2>4. Todos(w, h.nome, h.membros)
        BY <1>2 DEF Completos, Todos
    <2>. QED
        BY <1>1, <2>3, <2>4, TodosFicam
<1>. QED
    BY <1>1, <1>2 DEF Completos, Todos

LEMMA CompletosUm ==
    ASSUME Base, Completos, NEW v \in User, NEW g \in Grupo, Entrou(v, g),
           g.criador = v => Todos(v, g.nome, g.membros)
    PROVE  Completos' /\ Cresceram
<1>1. /\ \A w \in User \ {v} : grupos'[w] = grupos[w]
      /\ \A k \in DOMAIN grupos[v] : k \in DOMAIN grupos'[v] /\ grupos'[v][k] = grupos[v][k]
      /\ \A k \in DOMAIN grupos'[v] : \/ k \in DOMAIN grupos[v] /\ grupos'[v][k] = grupos[v][k]
                                      \/ grupos'[v][k] = g
      /\ Len(grupos[v]) = MaxGrupos => Len(grupos'[v]) = MaxGrupos
    BY BasePartes, NovaEntrada
<1>2. Cresceram
    BY <1>1 DEF Cresceram
<1>3. ASSUME NEW w \in User, NEW k \in DOMAIN grupos'[w], NEW h, h = grupos'[w][k], h.criador = w
      PROVE  Todos(w, h.nome, h.membros)'
    <2>1. CASE k \in DOMAIN grupos[w] /\ grupos'[w][k] = grupos[w][k]
        <3>1. grupos[w] \in Seq(Grupo)
            BY BasePartes DEF TipoGrupos
        <3>2. h \in Grupo
            BY <1>3, <2>1, <3>1
        <3>3. h.membros \in Seq(User)
            BY <3>2 DEF Grupo
        <3>4. Todos(w, h.nome, h.membros)
            BY <1>3, <2>1 DEF Completos, Todos
        <3>. QED
            BY <1>2, <3>3, <3>4, TodosFicam
    <2>2. CASE w = v /\ h = g
        <3>1. g.membros \in Seq(User) /\ Todos(w, g.nome, g.membros)
            BY <1>3, <2>2 DEF Grupo
        <3>. QED
            BY <1>2, <2>2, <3>1, TodosFicam
    <2>. QED
        BY <1>1, <1>3, <2>1, <2>2
<1>4. Completos'
    BY <1>3 DEF Completos, Todos
<1>. QED
    BY <1>2, <1>4

LEMMA DigitarCalma ==
    ASSUME Base, Calma, NEW u \in User, Digitar(u)
    PROVE  Calma'
<1>1. /\ pc[u] = "ocioso" /\ UNCHANGED <<grupos, fila, resposta>>
      /\ \E tipo, g, ms, txt : Comecar(u, tipo, g, ms, txt)
    BY DEF Digitar, executeCommandInsertionGroup, executeCommandSend, executeCommandList, Livre
<1>2. PICK tipo, g, ms, txt : Comecar(u, tipo, g, ms, txt)
    BY <1>1
<1>3. /\ comando \in [User -> Cmd] /\ aux \in [User -> Nat]
      /\ pc \in [User -> {"ocioso", "conectar", "esperar", "girando"}]
    BY BasePartes DEF TipoComando
<1>4. /\ comando'[u].membros = ms /\ comando'[u].faltam = ms
      /\ \A w \in User \ {u} : /\ comando'[w] = comando[w] /\ aux'[w] = aux[w]
                               /\ pc'[w] = pc[w] /\ resposta'[w] = resposta[w]
    BY <1>1, <1>2, <1>3 DEF Comecar
<1>5. resposta[u] = "nenhuma" /\ resposta'[u] = "nenhuma"
    BY <1>1 DEF Calma, Esperas, SoQuemEspera
<1>6. Esperas'
    BY <1>1, <1>4, <1>5, ClienteEsperas DEF Calma
<1>7. Completos' /\ Cresceram
    BY <1>1, CompletosFicam DEF Calma
<1>8. Convidados(u)'
    <2>1. ms \in Seq(User)
        <3>1. Base'
            BY DigitarBase
        <3>2. comando' \in [User -> Cmd]
            BY <3>1, PartesDepois DEF Base, TipoComando
        <3>. QED
            BY <1>4, <3>2 DEF Cmd
    <2>2. Perguntados(u)' = 0
        BY <1>4, <2>1 DEF Perguntados
    <2>. QED
        BY <1>5, <2>2 DEF Convidados
<1>9. \A w \in User : Convidados(w)'
    BY <1>4, <1>7, <1>8, ConvidadosFicam DEF Calma
<1>. QED
    BY <1>6, <1>7, <1>9 DEF Calma

LEMMA ConectarCalma ==
    ASSUME Base, Calma, NEW u \in User, Conectar(u)
    PROVE  Calma'
<1>1. /\ pc[u] = "conectar" /\ UNCHANGED <<grupos, resposta, aux>>
      /\ \A w \in User \ {u} : comando'[w] = comando[w] /\ pc'[w] = pc[w]
      /\ comando'[u].tipo = comando[u].tipo
      /\ comando[u].tipo # "READ_MSGS_GROUP" => comando'[u] = comando[u] /\ pc'[u] = "esperar"
    <2>1. pc \in [User -> {"ocioso", "conectar", "esperar", "girando"}] /\ comando \in [User -> Cmd]
        BY BasePartes DEF TipoComando
    <2>2. comando[u] \in Cmd
        BY <2>1
    <2>. QED
        BY <2>1, <2>2 DEF Conectar, Cmd
<1>2. Completos' /\ Cresceram
    BY <1>1, CompletosFicam DEF Calma
<1>3. Esperas'
    BY ConectarEsperas DEF Calma
<1>4. resposta[u] = "nenhuma"
    BY <1>1 DEF Calma, Esperas, SoQuemEspera
<1>5. Convidados(u)'
    <2>. SUFFICES ASSUME comando[u].tipo = "ADD_GROUP"
                  PROVE  Convidados(u)'
        BY <1>1 DEF Convidados
    <2>1. PICK c, n : c = comando[u] /\ n = Perguntados(u)
        OBVIOUS
    <2>2. comando'[u] = c /\ Perguntados(u)' = n /\ aux' = aux /\ resposta'[u] = "nenhuma"
        BY <1>1, <1>4, <2>1 DEF Perguntados
    <2>3. aux[u] = n => \A i \in 1 .. n : Tem(c.membros[i], u, c.grupo, c.membros)
        BY <1>1, <2>1 DEF Calma, Convidados
    <2>4. ASSUME NEW m, Tem(m, u, c.grupo, c.membros) PROVE Tem(m, u, c.grupo, c.membros)'
        BY <1>1, <2>4 DEF Tem, Igual
    <2>5. aux'[u] = n => \A i \in 1 .. n : Tem(c.membros[i], u, c.grupo, c.membros)'
        BY <2>2, <2>3, <2>4
    <2>. QED
        BY <2>2, <2>5 DEF Convidados
<1>6. \A w \in User : Convidados(w)'
    BY <1>1, <1>2, <1>5, ConvidadosFicam DEF Calma
<1>. QED
    BY <1>2, <1>3, <1>6 DEF Calma

LEMMA ReceberRespostaCalma ==
    ASSUME Base, Calma, NEW u \in User, ReceberResposta(u)
    PROVE  Calma'
<1>1. /\ pc[u] = "esperar" /\ resposta[u] # "nenhuma" /\ resposta[u] # "perdida"
      /\ resposta' = [resposta EXCEPT ![u] = "nenhuma"] /\ fila' = fila
    BY DEF ReceberResposta, Calma, Esperas, SoQuemEspera
<1>2. PICK c, r, n, a : /\ c = comando[u] /\ r = Tail(comando[u].faltam)
                        /\ n = Perguntados(u) /\ a = Alvo(u)
    OBVIOUS
<1>3. PICK aceitou \in 0 .. 1 :
         /\ resposta[u] = "RET_MSG_GROUP_FAIL" => aceitou = 0
         /\ aux' = [aux EXCEPT ![u] = @ + aceitou]
         /\ comando' = [comando EXCEPT ![u].faltam = r]
         /\ IF r = <<>>
            THEN Concluir(u, aux[u] + aceitou) /\ pc' = [pc EXCEPT ![u] = "ocioso"]
            ELSE UNCHANGED <<grupos, arquivo>> /\ pc' = [pc EXCEPT ![u] = "conectar"]
    BY <1>1, <1>2 DEF ReceberResposta
<1>4. /\ comando \in [User -> Cmd] /\ aux \in [User -> Nat] /\ resposta \in [User -> Ret]
      /\ pc \in [User -> {"ocioso", "conectar", "esperar", "girando"}]
      /\ c \in Cmd /\ c.membros \in Seq(User) /\ c.faltam \in Seq(User)
    BY <1>2, BasePartes DEF TipoComando, TipoResto, Cmd
<1>5. /\ comando'[u] = [c EXCEPT !.faltam = r]
      /\ resposta'[u] = "nenhuma" /\ aux'[u] = aux[u] + aceitou
      /\ \A w \in User \ {u} : /\ comando'[w] = comando[w] /\ aux'[w] = aux[w]
                               /\ pc'[w] = pc[w] /\ resposta'[w] = resposta[w]
    BY <1>1, <1>2, <1>3, <1>4
<1>6. /\ n \in Nat /\ n + 1 \in 1 .. Len(c.membros) /\ a = c.membros[n + 1] /\ a \in User
      /\ r \in Seq(User) /\ Len(r) = Len(c.faltam) - 1 /\ (r = <<>> <=> n + 1 = Len(c.membros))
    BY <1>1, <1>2, BasePartes, Proximo
<1>7. aux[u] \in Nat /\ aux[u] <= n
    <2>1. aux[u] \in 0 .. Len(c.membros) - Len(c.faltam)
        BY <1>2, BasePartes DEF TipoComando
    <2>2. n = Len(c.membros) - Len(c.faltam)
        BY <1>2 DEF Perguntados
    <2>3. \A x, k, l \in Nat : x \in 0 .. k - l => x <= k - l
        OBVIOUS
    <2>4. Len(c.membros) \in Nat /\ Len(c.faltam) \in Nat /\ aux[u] \in Nat
        BY <1>4
    <2>. QED
        BY <2>1, <2>2, <2>3, <2>4
<1>8. Esperas'
    BY <1>1, <1>5, ClienteEsperas DEF Calma
\* If all have accepted so far, and this one too, all of them have the group.
<1>9. ASSUME c.tipo = "ADD_GROUP", aux[u] + aceitou = n + 1
      PROVE  \A i \in 1 .. n + 1 : Tem(c.membros[i], u, c.grupo, c.membros)
    <2>1. aceitou = 1 /\ aux[u] = n
        BY <1>6, <1>7, <1>9
    <2>2. resposta[u] = "RET_MSG_GROUP_OK"
        BY <1>1, <1>3, <1>4, <2>1 DEF Ret
    <2>3. Tem(a, u, c.grupo, c.membros)
        BY <1>1, <1>2, <1>9, <2>2 DEF Calma, Convidados
    <2>4. \A i \in 1 .. n : Tem(c.membros[i], u, c.grupo, c.membros)
        BY <1>1, <1>2, <1>9, <2>1 DEF Calma, Convidados
    <2>5. \A i \in 1 .. n + 1 : i \in 1 .. n \/ i = n + 1
        BY <1>6
    <2>. QED
        BY <1>6, <2>3, <2>4, <2>5
<1>10. Completos' /\ Cresceram
    <2>1. CASE grupos' = grupos
        BY <2>1, CompletosFicam DEF Calma
    <2>2. CASE grupos' # grupos
        <3>1. r = <<>> /\ Concluir(u, aux[u] + aceitou)
            BY <1>3, <2>2
        <3>2. aux[u] + aceitou = Len(c.membros) /\ c.tipo = "ADD_GROUP" /\ Entrou(u, Feito(u))
            BY <1>2, <2>2, <3>1 DEF Concluir, AddGroup, Registrar, Entrou, Feito
        <3>3. \A i \in 1 .. Len(c.membros) : Tem(c.membros[i], u, c.grupo, c.membros)
            BY <1>6, <1>9, <3>1, <3>2
        <3>4. ToSet(c.membros) = {c.membros[i] : i \in 1 .. Len(c.membros)}
            BY <1>4, Funcao
        <3>5. Todos(u, c.grupo, c.membros)
            BY <3>3, <3>4 DEF Todos
        <3>6. /\ Feito(u) \in Grupo /\ Feito(u).nome = c.grupo /\ Feito(u).membros = c.membros
            BY <1>1, <1>2, FeitoTipo DEF Feito
        <3>. QED
            BY <3>2, <3>5, <3>6, CompletosUm DEF Calma
    <2>. QED
        BY <2>1, <2>2
<1>11. Convidados(u)'
    <2>. SUFFICES ASSUME c.tipo = "ADD_GROUP", pc'[u] \in {"conectar", "esperar"}
                  PROVE  Convidados(u)'
        BY <1>4, <1>5 DEF Convidados, Cmd
    <2>1. grupos' = grupos
        BY <1>3, <1>4
    <2>2. comando'[u].membros = c.membros /\ comando'[u].grupo = c.grupo /\ comando'[u].faltam = r
        BY <1>4, <1>5 DEF Cmd
    <2>3. Perguntados(u)' = n + 1
        <3>1. Perguntados(u)' = Len(c.membros) - Len(r) /\ n = Len(c.membros) - Len(c.faltam)
            BY <1>2, <2>2 DEF Perguntados
        <3>2. Len(c.membros) \in Nat /\ Len(c.faltam) \in Nat
            BY <1>4
        <3>. QED
            BY <1>6, <3>1, <3>2
    <2>4. ASSUME aux'[u] = n + 1, NEW i \in 1 .. n + 1
          PROVE  Tem(c.membros[i], u, c.grupo, c.membros)'
        <3>1. Tem(c.membros[i], u, c.grupo, c.membros)
            BY <1>5, <1>9, <2>4
        <3>. QED
            BY <2>1, <3>1 DEF Tem, Igual
    <2>. QED
        BY <1>5, <2>2, <2>3, <2>4 DEF Convidados
<1>12. \A w \in User : Convidados(w)'
    BY <1>5, <1>10, <1>11, ConvidadosFicam DEF Calma
<1>. QED
    BY <1>8, <1>10, <1>12 DEF Calma

LEMMA TratarGrupoCalma ==
    ASSUME Base, Calma, NinguemCaiu, NEW v \in User, TratarGrupo(v)
    PROVE  Calma'
<1>1. PICK m, x : m = Atendida(v) /\ x = m.from
    OBVIOUS
<1>2. /\ m.tipo = "ADD_GROUP" /\ fila[v] # <<>> /\ fila' = [fila EXCEPT ![v] = Tail(@)]
      /\ UNCHANGED <<pc, comando, aux>>
    BY <1>1 DEF TratarGrupo, Receber
<1>3. /\ m \in Msg /\ x \in User /\ Pendente(m) /\ Devida(x, v, m)
      /\ IsInjective(m.to) /\ x \notin ToSet(m.to) /\ m.to \in Seq(User)
    <2>1. 1 \in DOMAIN fila[v] /\ m = fila[v][1] /\ m \in Msg
        BY <1>1, <1>2, Desenfileira
    <2>2. Pendente(m)
        BY <1>2 DEF Pendente
    <2>. QED
        BY <1>1, <1>2, <2>1, <2>2, BasePartes DEF Msg, Calma, Esperas, Devidas, FormaFila
<1>4. PICK t \in {"RET_MSG_GROUP_OK", "RET_MSG_GROUP_FAIL"} :
         /\ resposta' = [resposta EXCEPT ![x] = t]
         /\ t = "RET_MSG_GROUP_OK" => x \in contatos[v]
    <2>1. vivo[x]
        BY <1>3 DEF NinguemCaiu
    <2>. QED
        BY <1>1, <2>1 DEF TratarGrupo, Responder
<1>5. /\ resposta'[x] = t /\ \A w \in User \ {x} : resposta'[w] = resposta[w]
    BY <1>3, <1>4, BasePartes DEF TipoResto
<1>6. Esperas'
    BY <1>1, <1>2, <1>3, <1>4, ServidorEsperas DEF Calma
\* The message is of the command of x, of which v is a member and x is not.
<1>7. PICK c : c = comando[x]
    OBVIOUS
<1>8. /\ c.tipo = "ADD_GROUP" /\ m.grupo = c.grupo /\ m.to = c.membros
      /\ v \in ToSet(c.membros) /\ x \notin ToSet(c.membros) /\ v = Alvo(x)
    <2>1. pc[x] = "esperar" /\ v = Alvo(x) /\ m = Mensagem(x)
        BY <1>3 DEF Devida
    <2>2. c.tipo = "ADD_GROUP"
        BY <1>2, <1>7, <2>1 DEF Mensagem
    <2>3. v \in ToSet(c.membros)
        BY <1>3, <1>7, <2>1, BasePartes, Proximo
    <2>. QED
        BY <1>3, <1>7, <2>1, <2>2, <2>3, BasePartes DEF Mensagem, FormaComando
<1>9. CASE x \in contatos[v]
    <2>1. contatos' = [contatos EXCEPT ![v] = Apresentar(v, m.to)] /\ AddGroupRcv(v, m)
        BY <1>1, <1>9 DEF TratarGrupo
    <2>2. PICK g : g = _createGroupRcv(v, m)
        OBVIOUS
    <2>3. /\ g \in Grupo /\ Entrou(v, g) /\ ToSet(g.membros) = {x} \cup (ToSet(m.to) \ {v})
        BY <1>1, <1>2, <1>3, <1>9, <2>1, <2>2, Apresentou
    <2>4. g.nome = c.grupo /\ g.criador = x
        BY <1>1, <1>8, <2>2 DEF _createGroupRcv
    <2>5. Completos' /\ Cresceram
        BY <1>8, <2>3, <2>4, CompletosUm DEF Calma
    <2>6. Tem(v, x, c.grupo, c.membros)'
        <3>1. (\E k \in DOMAIN grupos'[v] : grupos'[v][k] = g) \/ Len(grupos'[v]) = MaxGrupos
            BY <2>3, BasePartes, NovaEntrada
        <3>2. Igual(g, v, x, c.grupo, c.membros)
            BY <1>8, <2>3, <2>4 DEF Igual
        <3>. QED
            BY <3>1, <3>2 DEF Tem, Igual
    <2>7. Convidados(x)'
        <3>1. comando'[x] = c /\ Alvo(x)' = v
            BY <1>2, <1>7, <1>8 DEF Alvo
        <3>2. Tem(Alvo(x), x, comando[x].grupo, comando[x].membros)'
            BY <2>6, <3>1
        <3>. QED
            BY <1>2, <1>3, <2>5, <3>2, ConvidadosComResposta DEF Calma
    <2>8. \A w \in User : Convidados(w)'
        BY <1>2, <1>5, <2>5, <2>7, ConvidadosFicam DEF Calma
    <2>. QED
        BY <1>6, <2>5, <2>8 DEF Calma
<1>10. CASE x \notin contatos[v]
    <2>1. grupos' = grupos /\ t = "RET_MSG_GROUP_FAIL"
        BY <1>1, <1>4, <1>10 DEF TratarGrupo
    <2>2. Completos' /\ Cresceram
        BY <2>1, CompletosFicam DEF Calma
    <2>3. \A w \in User : Convidados(w)'
        BY <1>2, <1>5, <2>1, <2>2, ConvidadosFicam DEF Calma
    <2>. QED
        BY <1>6, <2>2, <2>3 DEF Calma
<1>. QED
    BY <1>9, <1>10

LEMMA TextoCalma ==
    ASSUME Base, Calma, NinguemCaiu, NEW v \in User, TratarTextoGrupo(v)
    PROVE  Calma'
<1>1. PICK m, x : m = Atendida(v) /\ x = m.from
    OBVIOUS
<1>2. /\ m.tipo = "MSG_TXT_GROUP" /\ fila[v] # <<>> /\ fila' = [fila EXCEPT ![v] = Tail(@)]
      /\ UNCHANGED <<pc, comando, aux, grupos>>
    BY <1>1 DEF TratarTextoGrupo, Receber
<1>3. m \in Msg /\ x \in User /\ Pendente(m) /\ Devida(x, v, m)
    <2>1. 1 \in DOMAIN fila[v] /\ m = fila[v][1] /\ m \in Msg
        BY <1>1, <1>2, Desenfileira
    <2>2. Pendente(m)
        BY <1>2 DEF Pendente
    <2>. QED
        BY <1>1, <2>1, <2>2 DEF Msg, Calma, Esperas, Devidas
<1>4. PICK t \in {"RET_MSG_GROUP_OK", "RET_MSG_GROUP_FAIL"} : resposta' = [resposta EXCEPT ![x] = t]
    <2>1. vivo[x]
        BY <1>3 DEF NinguemCaiu
    <2>. QED
        BY <1>1, <2>1 DEF TratarTextoGrupo, Responder
<1>5. \A w \in User \ {x} : resposta'[w] = resposta[w]
    BY <1>3, <1>4, BasePartes DEF TipoResto
<1>6. Esperas'
    BY <1>1, <1>2, <1>3, <1>4, ServidorEsperas DEF Calma
<1>7. Completos' /\ Cresceram
    BY <1>2, CompletosFicam DEF Calma
<1>8. Convidados(x)'
    <2>1. comando[x].tipo = "MSG_TXT_GROUP"
        BY <1>2, <1>3 DEF Devida, Mensagem
    <2>. QED
        BY <1>2, <2>1 DEF Convidados
<1>9. \A w \in User : Convidados(w)'
    BY <1>2, <1>5, <1>7, <1>8, ConvidadosFicam DEF Calma
<1>. QED
    BY <1>6, <1>7, <1>9 DEF Calma

LEMMA LeituraCalma ==
    ASSUME Base, Calma, NEW v \in User, TratarLeituraGrupo(v)
    PROVE  Calma'
<1>1. /\ Atendida(v).tipo = "READ_MSGS_GROUP" /\ fila[v] # <<>>
      /\ fila' = [fila EXCEPT ![v] = Tail(@)]
      /\ UNCHANGED <<pc, comando, aux, grupos, resposta>>
    BY DEF TratarLeituraGrupo, Receber
<1>2. Esperas'
    <2>1. /\ ~ Pendente(Atendida(v))
          /\ "RET_MSG_GROUP_OK" \in {"RET_MSG_GROUP_OK", "RET_MSG_GROUP_FAIL"}
        BY <1>1 DEF Pendente
    <2>2. PICK t \in {"RET_MSG_GROUP_OK", "RET_MSG_GROUP_FAIL"} : TRUE
        BY <2>1
    <2>. QED
        BY <1>1, <2>1, <2>2, ServidorEsperas DEF Calma
<1>3. Completos' /\ Cresceram
    BY <1>1, CompletosFicam DEF Calma
<1>4. \A w \in User : Convidados(w)'
    BY <1>1, <1>3, ConvidadosFicam DEF Calma
<1>. QED
    BY <1>2, <1>3, <1>4 DEF Calma

\* The steps in which no process dies.
Passo(u) ==
    \/ Digitar(u) \/ Conectar(u) \/ ReceberResposta(u)
    \/ TratarGrupo(u) \/ TratarTextoGrupo(u) \/ TratarLeituraGrupo(u)

LEMMA NinguemCai ==
    ASSUME Base, [Next]_vars, NinguemCaiu'
    PROVE  NinguemCaiu /\ (UNCHANGED vars \/ \E u \in User : Passo(u))
<1>1. \A u \in User : \A r : ~ Cai(u, r)
    <2>1. vivo \in [User -> BOOLEAN]
        BY BasePartes DEF TipoResto
    <2>. QED
        BY <2>1 DEF Cai, NinguemCaiu
<1>2. UNCHANGED vars \/ \E u \in User : Passo(u)
    BY <1>1 DEF Next, Passo, initClient, ConectarFalha, serverThread, TratarGrupoFalha,
                TratarLeituraGrupoFalha
<1>3. vivo' = vivo
    BY <1>2 DEF vars, Passo, Digitar, executeCommandInsertionGroup, executeCommandSend,
                executeCommandList, Conectar, ReceberResposta, TratarGrupo, TratarTextoGrupo,
                TratarLeituraGrupo
<1>. QED
    BY <1>2, <1>3 DEF NinguemCaiu

LEMMA NextCalma ==
    ASSUME Base, [Next]_vars, NinguemCaiu => Calma
    PROVE  NinguemCaiu' => Calma'
<1>. SUFFICES ASSUME NinguemCaiu' PROVE Calma'
    OBVIOUS
<1>1. NinguemCaiu /\ Calma /\ (UNCHANGED vars \/ \E u \in User : Passo(u))
    BY NinguemCai
<1>2. CASE UNCHANGED vars
    <2>1. Completos' /\ Cresceram
        BY <1>1, <1>2, CompletosFicam DEF vars, Calma
    <2>2. Esperas'
        <3>1. UNCHANGED <<fila, pc, comando, resposta>> /\ Esperas
            BY <1>1, <1>2 DEF vars, Calma
        <3>2. SoQuemEspera'
            BY <3>1 DEF Esperas, SoQuemEspera
        <3>3. Devidas'
            BY <3>1 DEF Esperas, Devidas, Devida, Pendente, Alvo, Mensagem
        <3>4. UmaSo'
            BY <3>1 DEF Esperas, UmaSo, Pendente
        <3>. QED
            BY <3>2, <3>3, <3>4 DEF Esperas
    <2>3. \A w \in User : Convidados(w)'
        BY <1>1, <1>2, <2>1, ConvidadosFicam DEF vars, Calma
    <2>. QED
        BY <2>1, <2>2, <2>3 DEF Calma
<1>. QED
    BY <1>1, <1>2, DigitarCalma, ConectarCalma, ReceberRespostaCalma, TratarGrupoCalma,
       TextoCalma, LeituraCalma DEF Passo

LEMMA InitCalma == Init => Calma
<1>. SUFFICES ASSUME Init PROVE Calma
    OBVIOUS
<1>1. Esperas
    BY DEF Init, Esperas, SoQuemEspera, Devidas, UmaSo
<1>2. Completos /\ \A u \in User : Convidados(u)
    BY DEF Init, Completos, Convidados, Nada
<1>. QED
    BY <1>1, <1>2 DEF Calma

-----------------------------------------------------------------------------
(***************************************************************************)
(* The texts of the groups, while no process dies.                         *)
(***************************************************************************)
\* The first entry of that name, in any list of entries.
DeNome(s, g) == {i \in 1 .. Len(s) : s[i].nome = g}

LEMMA Primeiro ==
    ASSUME NEW s \in Seq(Grupo), NEW g, NEW l,
           l = IF DeNome(s, g) # {} THEN Min(DeNome(s, g)) ELSE 0
    PROVE  \/ l = 0 /\ \A i \in 1 .. Len(s) : s[i].nome # g
           \/ /\ l \in 1 .. Len(s) /\ s[l].nome = g
              /\ \A i \in 1 .. Len(s) : s[i].nome = g => l <= i
<1>. DEFINE I == DeNome(s, g)
<1>1. I = {i \in 1 .. Len(s) : s[i].nome = g}
    BY DEF DeNome
<1>2. CASE I = {}
    BY <1>1, <1>2
<1>3. CASE I # {}
    <2>1. I \in SUBSET Nat
        BY <1>1
    <2>2. l \in I /\ \A i \in I : l <= i
        BY <1>3, <2>1, MinTipo
    <2>. QED
        BY <1>1, <2>2
<1>. QED
    BY <1>2, <1>3

\* The group found under a name stays the one that is found.
LEMMA LocFica ==
    ASSUME TipoGrupos, TipoGrupos', Cresceram, NEW u \in User, NEW g, GroupwithNameExist(u, g) # 0
    PROVE  LET loc == GroupwithNameExist(u, g) IN
           /\ GroupwithNameExist(u, g)' = loc /\ loc # 0
           /\ loc \in DOMAIN grupos[u] /\ grupos'[u][loc] = grupos[u][loc]
<1>1. PICK s, t, l, k : /\ s = grupos[u] /\ t = grupos'[u]
                        /\ l = GroupwithNameExist(u, g) /\ k = GroupwithNameExist(u, g)'
    OBVIOUS
<1>2. /\ s \in Seq(Grupo) /\ t \in Seq(Grupo)
      /\ \A i \in 1 .. Len(s) : i \in 1 .. Len(t) /\ t[i] = s[i]
    BY <1>1 DEF TipoGrupos, Cresceram
<1>3. /\ l = IF DeNome(s, g) # {} THEN Min(DeNome(s, g)) ELSE 0
      /\ k = IF DeNome(t, g) # {} THEN Min(DeNome(t, g)) ELSE 0
    BY <1>1 DEF GroupwithNameExist, SelectInSeq, DeNome
<1>4. /\ l \in 1 .. Len(s) /\ s[l].nome = g
      /\ \A i \in 1 .. Len(s) : s[i].nome = g => l <= i
    BY <1>1, <1>2, <1>3, Primeiro
<1>5. /\ k \in 1 .. Len(t) /\ t[k].nome = g
      /\ \A i \in 1 .. Len(t) : t[i].nome = g => k <= i
    <2>1. l \in 1 .. Len(t) /\ t[l].nome = g
        BY <1>2, <1>4
    <2>2. \/ k = 0 /\ \A i \in 1 .. Len(t) : t[i].nome # g
          \/ /\ k \in 1 .. Len(t) /\ t[k].nome = g
             /\ \A i \in 1 .. Len(t) : t[i].nome = g => k <= i
        BY <1>2, <1>3, Primeiro
    <2>. QED
        BY <2>1, <2>2
<1>6. k <= l
    BY <1>2, <1>4, <1>5
<1>7. k \in 1 .. Len(s) /\ s[k].nome = g
    BY <1>2, <1>4, <1>5, <1>6
<1>8. k = l
    BY <1>4, <1>5, <1>6, <1>7
<1>. QED
    BY <1>1, <1>2, <1>4, <1>8

LEMMA Crescem ==
    ASSUME Base, UNCHANGED grupos \/ \E v \in User : \E g \in Grupo : Entrou(v, g)
    PROVE  Cresceram
<1>1. CASE UNCHANGED grupos
    BY <1>1 DEF Cresceram
<1>2. ASSUME NEW v \in User, NEW g \in Grupo, Entrou(v, g) PROVE Cresceram
    BY <1>2, BasePartes, NovaEntrada DEF Cresceram
<1>. QED
    BY <1>1, <1>2

\* What a step does to the records of the files.
SaiFica == \A m \in User, g \in Nome : arquivo'[m][g].sai = arquivo[m][g].sai
EntFica == \A m \in User, g \in Nome : arquivo'[m][g].ent = arquivo[m][g].ent

\* Received records stay where they are; there may be new ones, but not of u.
EntCresce ==
    \A m \in User, g \in Nome : \A j \in DOMAIN arquivo[m][g].ent :
        j \in DOMAIN arquivo'[m][g].ent /\ arquivo'[m][g].ent[j] = arquivo[m][g].ent[j]
NadaDe(u) ==
    \A m \in User, g \in Nome : \A j \in DOMAIN arquivo'[m][g].ent :
        arquivo'[m][g].ent[j].from = u =>
            j \in DOMAIN arquivo[m][g].ent /\ arquivo'[m][g].ent[j] = arquivo[m][g].ent[j]

LEMMA EntIgual == EntFica => EntCresce /\ \A u \in User : NadaDe(u)
BY DEF EntFica, EntCresce, NadaDe

\* A step that marks records adds none.
LEMMA Marcado ==
    ASSUME Base, NEW u \in User, NEW g \in Nome, NEW n,
           \/ arquivo' = arquivo
           \/ arquivo' = [arquivo EXCEPT ![u][g].vistas = n]
           \/ arquivo' = [arquivo EXCEPT ![u][g].marcadas = n]
    PROVE  SaiFica /\ EntFica
<1>1. arquivo \in Pasta
    BY BasePartes DEF TipoArquivo
<1>2. \A m \in User, h \in Nome : arquivo[m][h] \in Arquivo
    BY <1>1 DEF Pasta
<1>3. CASE arquivo' = arquivo
    BY <1>3 DEF SaiFica, EntFica
<1>4. CASE arquivo' = [arquivo EXCEPT ![u][g].vistas = n]
    BY <1>1, <1>2, <1>4 DEF Pasta, Arquivo, SaiFica, EntFica
<1>5. CASE arquivo' = [arquivo EXCEPT ![u][g].marcadas = n]
    BY <1>1, <1>2, <1>5 DEF Pasta, Arquivo, SaiFica, EntFica
<1>. QED
    BY <1>3, <1>4, <1>5

LEMMA TextoGuardado ==
    ASSUME Base, NEW u \in User, NEW g \in Nome, NEW txt \in Nat,
           arquivo' = [arquivo EXCEPT ![u][g].sai = Append(@, txt)]
    PROVE  /\ EntFica
           /\ \A m \in User, h \in Nome : m # u \/ h # g => arquivo'[m][h].sai = arquivo[m][h].sai
           /\ \A k \in DOMAIN arquivo'[u][g].sai :
                 \/ k \in DOMAIN arquivo[u][g].sai /\ arquivo'[u][g].sai[k] = arquivo[u][g].sai[k]
                 \/ arquivo'[u][g].sai[k] = txt
<1>1. arquivo \in Pasta /\ arquivo[u][g].sai \in Seq(Nat)
    <2>1. arquivo \in Pasta
        BY BasePartes DEF TipoArquivo
    <2>2. arquivo[u][g] \in Arquivo
        BY <2>1 DEF Pasta
    <2>. QED
        BY <2>1, <2>2 DEF Arquivo
<1>2. \A m \in User, h \in Nome : arquivo[m][h] \in Arquivo
    BY <1>1 DEF Pasta
<1>3. PICK s, t : s = arquivo[u][g].sai /\ t = Append(s, txt)
    OBVIOUS
<1>4. \A k \in DOMAIN t : (k \in DOMAIN s /\ t[k] = s[k]) \/ t[k] = txt
    BY <1>1, <1>3
<1>5. arquivo' = [arquivo EXCEPT ![u][g].sai = t]
    BY <1>3
<1>6. /\ EntFica /\ arquivo'[u][g].sai = t
      /\ \A m \in User, h \in Nome : m # u \/ h # g => arquivo'[m][h].sai = arquivo[m][h].sai
    BY <1>1, <1>2, <1>5 DEF Pasta, Arquivo, EntFica
<1>. QED
    BY <1>3, <1>4, <1>6

\* The text x sends has come to the file of v, which has the record r more.
Chegou(v, g, x) ==
    arquivo' = [arquivo EXCEPT ![v][g].ent = Append(@, [from |-> x, txt |-> comando[x].txt])]

UmMais(v, g, r) ==
    /\ \A m \in User, h \in Nome : m # v \/ h # g => arquivo'[m][h].ent = arquivo[m][h].ent
    /\ \E n \in Nat : /\ DOMAIN arquivo[v][g].ent = 1 .. n
                      /\ DOMAIN arquivo'[v][g].ent = 1 .. n + 1
                      /\ arquivo'[v][g].ent[n + 1] = r
                      /\ \A j \in 1 .. n : arquivo'[v][g].ent[j] = arquivo[v][g].ent[j]

LEMMA TextoRecebido ==
    ASSUME Base, NEW v \in User, NEW g \in Nome, NEW x \in User, comando[x].txt \in Nat,
           Chegou(v, g, x)
    PROVE  SaiFica /\ EntCresce /\ UmMais(v, g, [from |-> x, txt |-> comando[x].txt])
<1>. DEFINE r == [from |-> x, txt |-> comando[x].txt]
<1>1. arquivo \in Pasta /\ arquivo[v][g].ent \in Seq([from : User, txt : Nat])
    <2>1. arquivo \in Pasta
        BY BasePartes DEF TipoArquivo
    <2>2. arquivo[v][g] \in Arquivo
        BY <2>1 DEF Pasta
    <2>. QED
        BY <2>1, <2>2 DEF Arquivo
<1>2. \A m \in User, h \in Nome : arquivo[m][h] \in Arquivo
    BY <1>1 DEF Pasta
<1>. HIDE DEF r
<1>3. PICK s, t, n : s = arquivo[v][g].ent /\ t = Append(s, r) /\ n = Len(s)
    OBVIOUS
<1>4. /\ n \in Nat /\ DOMAIN s = 1 .. n /\ DOMAIN t = 1 .. n + 1 /\ t[n + 1] = r
      /\ \A j \in 1 .. n : t[j] = s[j]
    <2>1. r \in [from : User, txt : Nat]
        BY DEF r
    <2>2. s \in Seq([from : User, txt : Nat])
        BY <1>1, <1>3
    <2>. QED
        BY <1>3, <2>1, <2>2
<1>5. arquivo' = [arquivo EXCEPT ![v][g].ent = t]
    BY <1>3 DEF Chegou, r
<1>6. /\ SaiFica /\ arquivo'[v][g].ent = t
      /\ \A m \in User, h \in Nome : m # v \/ h # g => arquivo'[m][h].ent = arquivo[m][h].ent
    <2>1. arquivo'[v][g] = [arquivo[v][g] EXCEPT !.ent = t]
        <3>1. arquivo[v] \in [Nome -> Arquivo]
            BY <1>1 DEF Pasta
        <3>2. arquivo' = [arquivo EXCEPT ![v] = [arquivo[v] EXCEPT ![g] = [arquivo[v][g] EXCEPT !.ent = t]]]
            BY <1>5
        <3>. QED
            BY <1>1, <3>1, <3>2 DEF Pasta
    <2>2. \A m \in User, h \in Nome : m # v \/ h # g => arquivo'[m][h] = arquivo[m][h]
        BY <1>1, <1>5 DEF Pasta
    <2>3. arquivo'[v][g].ent = t /\ arquivo'[v][g].sai = arquivo[v][g].sai
        BY <1>2, <2>1 DEF Arquivo
    <2>. QED
        BY <2>2, <2>3 DEF SaiFica
<1>7. EntCresce
    <2>1. \A j \in 1 .. n : j \in 1 .. n + 1
        BY <1>4
    <2>. QED
        BY <1>3, <1>4, <1>6, <2>1 DEF EntCresce
<1>8. UmMais(v, g, r)
    BY <1>3, <1>4, <1>6 DEF UmMais
<1>. QED
    BY <1>6, <1>7, <1>8 DEF r

LEMMA RecebeuFica ==
    ASSUME EntCresce, NEW m \in User, NEW g \in Nome, NEW u, NEW txt, Recebeu(m, u, g, txt)
    PROVE  Recebeu(m, u, g, txt)'
BY DEF EntCresce, Recebeu

LEMMA AntesFica ==
    ASSUME NEW u, NadaDe(u), NEW m \in User, NEW g \in Nome, NEW txt, Antes(m, u, g, txt)
    PROVE  Antes(m, u, g, txt)'
BY DEF NadaDe, Antes

\* What is known of the members of the command of u, and of the one it waits for.
LEMMA Destinos ==
    ASSUME Base, NEW u \in User, comando[u].tipo = "MSG_TXT_GROUP"
    PROVE  LET c == comando[u] IN
           /\ c \in Cmd /\ c.grupo \in Nome /\ c.txt \in Nat
           /\ \A i \in 1 .. Len(c.membros) : c.membros[i] \in User
           /\ Len(c.membros) \in Nat
           /\ pc[u] \in {"conectar", "esperar"} =>
                 /\ Perguntados(u) \in Nat /\ Perguntados(u) + 1 \in 1 .. Len(c.membros)
                 /\ Alvo(u) = c.membros[Perguntados(u) + 1] /\ Alvo(u) \in User
<1>1. comando[u] \in Cmd
    BY BasePartes DEF TipoComando
<1>2. comando[u].grupo \in Nome
    BY BasePartes DEF FormaComando
<1>3. comando[u].membros \in Seq(User) /\ comando[u].txt \in Nat
    BY <1>1 DEF Cmd
<1>4. \A i \in 1 .. Len(comando[u].membros) : comando[u].membros[i] \in User
    BY <1>3, Funcao
<1>. QED
    BY <1>1, <1>2, <1>3, <1>4, BasePartes, Proximo

\* u sends on as it did, or not at all any more, while others go on.
LEMMA ConversaFica ==
    ASSUME Base, Base', Cresceram, NEW u \in User, Conversa(u), EntCresce, NadaDe(u),
           comando'[u] = comando[u], digitados'[u] = digitados[u], aux'[u] = aux[u],
           pc'[u] \in {"conectar", "esperar"} => pc[u] \in {"conectar", "esperar"},
           resposta'[u] = resposta[u] \/ resposta'[u] = "RET_MSG_GROUP_FAIL"
    PROVE  Conversa(u)'
<1>. SUFFICES ASSUME comando[u].tipo = "MSG_TXT_GROUP" PROVE Conversa(u)'
    BY DEF Conversa
<1>1. PICK c, n, g, l, a : /\ c = comando[u] /\ n = Perguntados(u) /\ g = c.grupo
                           /\ l = GroupwithNameExist(u, g) /\ a = Alvo(u)
    OBVIOUS
<1>2. /\ g \in Nome /\ c.tipo = "MSG_TXT_GROUP"
      /\ \A i \in 1 .. Len(c.membros) : c.membros[i] \in User
    BY <1>1, Destinos
<1>3. c.txt = digitados[u] /\ l # 0 /\ c.membros = grupos[u][l].membros
    BY <1>1, <1>2 DEF Conversa
<1>4. GroupwithNameExist(u, g)' = l /\ grupos'[u][l] = grupos[u][l]
    <2>1. TipoGrupos /\ TipoGrupos'
        BY BasePartes, PartesDepois DEF Base
    <2>. QED
        BY <1>1, <1>3, <2>1, LocFica
<1>5. comando'[u] = c /\ Perguntados(u)' = n /\ Alvo(u)' = a
    BY <1>1 DEF Perguntados, Alvo
<1>6. ASSUME pc'[u] \in {"conectar", "esperar"}
      PROVE  /\ \A i \in n + 1 .. Len(c.membros) :
                    \/ i = n + 1 /\ resposta'[u] # "nenhuma"
                    \/ Antes(c.membros[i], u, g, c.txt)'
             /\ aux'[u] = n => \A i \in 1 .. n : Recebeu(c.membros[i], u, g, c.txt)'
             /\ resposta'[u] = "RET_MSG_GROUP_OK" => Recebeu(a, u, g, c.txt)'
    <2>1. pc[u] \in {"conectar", "esperar"}
        BY <1>6
    <2>2. /\ \A i \in n + 1 .. Len(c.membros) :
                \/ i = n + 1 /\ resposta[u] # "nenhuma"
                \/ Antes(c.membros[i], u, g, c.txt)
          /\ aux[u] = n => \A i \in 1 .. n : Recebeu(c.membros[i], u, g, c.txt)
          /\ resposta[u] = "RET_MSG_GROUP_OK" => Recebeu(a, u, g, c.txt)
        BY <1>1, <1>2, <2>1 DEF Conversa
    <2>3. n \in Nat /\ n + 1 \in 1 .. Len(c.membros) /\ Len(c.membros) \in Nat /\ a \in User
        BY <1>1, <1>2, <2>1, Destinos
    <2>4. /\ \A i \in n + 1 .. Len(c.membros) : i \in 1 .. Len(c.membros)
          /\ \A i \in 1 .. n : i \in 1 .. Len(c.membros)
        BY <2>3
    <2>5. ASSUME NEW i \in n + 1 .. Len(c.membros), Antes(c.membros[i], u, g, c.txt)
          PROVE  Antes(c.membros[i], u, g, c.txt)'
        <3>1. PICK m : m = c.membros[i] /\ m \in User
            BY <1>2, <2>4
        <3>2. Antes(m, u, g, c.txt)'
            BY <1>2, <2>5, <3>1, AntesFica
        <3>. QED
            BY <3>1, <3>2
    <2>6. ASSUME NEW m \in User, Recebeu(m, u, g, c.txt) PROVE Recebeu(m, u, g, c.txt)'
        BY <1>2, <2>6, RecebeuFica
    <2>7. ASSUME NEW i \in 1 .. n, Recebeu(c.membros[i], u, g, c.txt)
          PROVE  Recebeu(c.membros[i], u, g, c.txt)'
        <3>1. PICK m : m = c.membros[i] /\ m \in User
            BY <1>2, <2>4
        <3>2. Recebeu(m, u, g, c.txt)'
            BY <2>6, <2>7, <3>1
        <3>. QED
            BY <3>1, <3>2
    <2>8. \A i \in n + 1 .. Len(c.membros) :
                \/ i = n + 1 /\ resposta'[u] # "nenhuma"
                \/ Antes(c.membros[i], u, g, c.txt)'
        BY <2>2, <2>5
    <2>9. aux'[u] = n => \A i \in 1 .. n : Recebeu(c.membros[i], u, g, c.txt)'
        BY <2>2, <2>7
    <2>10. resposta'[u] = "RET_MSG_GROUP_OK" => Recebeu(a, u, g, c.txt)'
        BY <2>2, <2>3, <2>6
    <2>. QED
        BY <2>8, <2>9, <2>10
<1>7. c.txt = digitados'[u]
    BY <1>3
<1>. QED
    BY <1>1, <1>3, <1>4, <1>5, <1>6, <1>7 DEF Conversa

LEMMA OrdemFica ==
    ASSUME Base, Ordem, EntFica, \A u \in User : digitados[u] <= digitados'[u],
           \A u \in User : digitados'[u] \in Nat
    PROVE  Ordem'
<1>. SUFFICES ASSUME NEW m \in User, NEW g \in Nome
              PROVE  LET ent == arquivo'[m][g].ent IN
                     /\ \A j \in DOMAIN ent : ent[j].txt <= digitados'[ent[j].from]
                     /\ \A i, j \in DOMAIN ent :
                           ent[i].from = ent[j].from /\ i < j => ent[i].txt < ent[j].txt
    BY DEF Ordem
<1>1. PICK e : e = arquivo[m][g].ent /\ e = arquivo'[m][g].ent
    BY DEF EntFica
<1>2. e \in Seq([from : User, txt : Nat])
    <2>1. arquivo[m][g] \in Arquivo
        BY BasePartes DEF TipoArquivo, Pasta
    <2>. QED
        BY <1>1, <2>1 DEF Arquivo
<1>3. /\ \A j \in DOMAIN e : e[j].txt <= digitados[e[j].from]
      /\ \A i, j \in DOMAIN e : e[i].from = e[j].from /\ i < j => e[i].txt < e[j].txt
    BY <1>1 DEF Ordem
<1>4. ASSUME NEW j \in DOMAIN e PROVE e[j].txt <= digitados'[e[j].from]
    <2>1. e[j] \in [from : User, txt : Nat]
        <3>1. j \in 1 .. Len(e)
            BY <1>2
        <3>. QED
            BY <1>2, <3>1, Funcao
    <2>2. e[j].from \in User /\ e[j].txt \in Nat
        BY <2>1
    <2>3. digitados[e[j].from] \in Nat
        BY <2>2, BasePartes DEF TipoResto
    <2>. QED
        BY <1>3, <2>2, <2>3
<1>. QED
    BY <1>1, <1>3, <1>4

\* The members of a group that is found are users.
LEMMA MembrosDoGrupo ==
    ASSUME Base, NEW u \in User, NEW g, GroupwithNameExist(u, g) # 0
    PROVE  ToSet(grupos[u][GroupwithNameExist(u, g)].membros) \subseteq User
<1>1. grupos[u][GroupwithNameExist(u, g)].membros \in Seq(User)
    BY BasePartes, Achado
<1>. QED
    BY <1>1, Funcao

LEMMA GuardadosFicam ==
    ASSUME Base, Base', Guardados, Cresceram, EntCresce, NEW u \in User, NEW g \in Nome,
           arquivo'[u][g].sai = arquivo[u][g].sai, arquivo[u][g].sai # <<>>
    PROVE  /\ GroupwithNameExist(u, g)' # 0
           /\ \A m \in ToSet(grupos[u][GroupwithNameExist(u, g)].membros)' :
                 \A k \in DOMAIN arquivo'[u][g].sai : Recebeu(m, u, g, arquivo[u][g].sai[k])'
<1>1. PICK l, s : l = GroupwithNameExist(u, g) /\ s = arquivo[u][g].sai
    OBVIOUS
<1>2. /\ l # 0
      /\ \A m \in ToSet(grupos[u][l].membros) : \A k \in DOMAIN s : Recebeu(m, u, g, s[k])
    BY <1>1 DEF Guardados
<1>3. GroupwithNameExist(u, g)' = l /\ grupos'[u][l] = grupos[u][l]
    <2>1. TipoGrupos /\ TipoGrupos'
        BY BasePartes, PartesDepois DEF Base
    <2>. QED
        BY <1>1, <1>2, <2>1, LocFica
<1>4. ASSUME NEW m \in ToSet(grupos[u][l].membros), NEW k \in DOMAIN s
      PROVE  Recebeu(m, u, g, s[k])'
    <2>1. m \in User
        BY <1>1, <1>2, MembrosDoGrupo
    <2>2. PICK t : t = s[k]
        OBVIOUS
    <2>3. Recebeu(m, u, g, t)'
        BY <1>2, <2>1, <2>2, RecebeuFica
    <2>. QED
        BY <2>2, <2>3
<1>5. arquivo'[u][g].sai = s
    BY <1>1
<1>. QED
    BY <1>2, <1>3, <1>4, <1>5

LEMMA GuardadosTodos ==
    ASSUME Base, Base', Guardados, Cresceram, EntCresce, SaiFica
    PROVE  Guardados'
BY GuardadosFicam DEF SaiFica, Guardados

-----------------------------------------------------------------------------
\* Every step of a client or a server, and the texts.
LEMMA DigitarFalada ==
    ASSUME Base, Base', Calma, Falada, NEW u \in User, Digitar(u)
    PROVE  Falada'
<1>1. /\ pc[u] = "ocioso" /\ UNCHANGED <<grupos, resposta>>
      /\ \E tipo, g, ms, txt : Comecar(u, tipo, g, ms, txt)
    BY DEF Digitar, executeCommandInsertionGroup, executeCommandSend, executeCommandList, Livre
<1>2. /\ comando \in [User -> Cmd] /\ aux \in [User -> Nat] /\ digitados \in [User -> Nat]
      /\ pc \in [User -> {"ocioso", "conectar", "esperar", "girando"}]
    BY BasePartes DEF TipoComando, TipoResto
<1>3. \A w \in User \ {u} : comando'[w] = comando[w] /\ aux'[w] = aux[w] /\ pc'[w] = pc[w]
    BY <1>1, <1>2 DEF Comecar
<1>4. SaiFica /\ EntFica
    <2>1. CASE arquivo' = arquivo
        BY <2>1 DEF SaiFica, EntFica
    <2>2. CASE executeCommandList(u)
        BY <2>2, Marcado DEF executeCommandList
    <2>. QED
        BY <2>1, <2>2 DEF Digitar, executeCommandInsertionGroup, executeCommandSend
<1>5. Cresceram /\ EntCresce /\ \A w \in User : NadaDe(w)
    BY <1>1, <1>4, Crescem, EntIgual
<1>6. /\ \A w \in User \ {u} : digitados'[w] = digitados[w]
      /\ digitados'[u] = digitados[u] \/ digitados'[u] = digitados[u] + 1
    BY <1>2 DEF Digitar, executeCommandInsertionGroup, executeCommandSend, executeCommandList
<1>7. \A w \in User : digitados[w] <= digitados'[w] /\ digitados'[w] \in Nat
    BY <1>2, <1>6
<1>8. Ordem'
    BY <1>4, <1>7, OrdemFica DEF Falada
<1>9. Guardados'
    BY <1>4, <1>5, GuardadosTodos DEF Falada
<1>10. Conversa(u)'
    <2>1. CASE executeCommandSend(u)
        <3>1. PICK g \in Nome :
                /\ GroupwithNameExist(u, g) # 0
                /\ Comecar(u, "MSG_TXT_GROUP", g, grupos[u][GroupwithNameExist(u, g)].membros,
                           digitados[u] + 1)
            BY <2>1 DEF executeCommandSend
        <3>2. PICK ms, t : ms = grupos[u][GroupwithNameExist(u, g)].membros /\ t = digitados[u] + 1
            OBVIOUS
        <3>3. /\ comando'[u] = [tipo |-> "MSG_TXT_GROUP", grupo |-> g, membros |-> ms,
                                faltam |-> ms, txt |-> t]
              /\ aux'[u] = 0 /\ pc'[u] = "conectar"
            BY <1>2, <3>1, <3>2 DEF Comecar
        <3>4. ms \in Seq(User) /\ GroupwithNameExist(u, g)' = GroupwithNameExist(u, g)
            <4>1. PICK l : l = GroupwithNameExist(u, g)
                OBVIOUS
            <4>2. grupos[u][l].membros \in Seq(User)
                BY <3>1, <4>1, Achado, BasePartes
            <4>3. GroupwithNameExist(u, g)' = l
                BY <1>1, <4>1 DEF GroupwithNameExist, SelectInSeq
            <4>. QED
                BY <3>2, <4>1, <4>2, <4>3
        <3>5. Perguntados(u)' = 0
            BY <3>3, <3>4 DEF Perguntados
        <3>6. digitados'[u] = t /\ resposta'[u] = "nenhuma"
            BY <1>1, <1>2, <2>1, <3>2 DEF executeCommandSend, Calma, Esperas, SoQuemEspera
        <3>7. ASSUME NEW i \in 1 .. Len(ms) PROVE Antes(ms[i], u, g, t)'
            <4>1. PICK m, e : m = ms[i] /\ m \in User /\ e = arquivo[m][g].ent
                BY <3>4, Funcao
            <4>2. \A j \in DOMAIN e : e[j].txt <= digitados[e[j].from]
                BY <4>1 DEF Falada, Ordem
            <4>3. e \in Seq([from : User, txt : Nat])
                <5>1. arquivo[m][g] \in Arquivo
                    BY <4>1, BasePartes DEF TipoArquivo, Pasta
                <5>. QED
                    BY <4>1, <5>1 DEF Arquivo
            <4>4. ASSUME NEW j \in DOMAIN e, e[j].from = u PROVE e[j].txt < t
                <5>1. j \in 1 .. Len(e)
                    BY <4>3
                <5>2. e[j] \in [from : User, txt : Nat]
                    BY <4>3, <5>1, Funcao
                <5>3. e[j].txt \in Nat /\ e[j].txt <= digitados[u] /\ digitados[u] \in Nat
                    BY <1>2, <4>2, <4>4, <5>2
                <5>. QED
                    BY <3>2, <5>3
            <4>5. arquivo'[m][g].ent = e
                BY <1>4, <4>1 DEF EntFica
            <4>. QED
                BY <4>1, <4>4, <4>5 DEF Antes
        <3>. QED
            BY <1>1, <3>1, <3>2, <3>3, <3>4, <3>5, <3>6, <3>7 DEF Conversa
    <2>2. CASE ~ executeCommandSend(u)
        <3>1. PICK tipo, g, ms, txt : tipo # "MSG_TXT_GROUP" /\ Comecar(u, tipo, g, ms, txt)
            BY <2>2 DEF Digitar, executeCommandInsertionGroup, executeCommandList
        <3>2. comando'[u].tipo = tipo
            BY <1>2, <3>1 DEF Comecar
        <3>. QED
            BY <3>1, <3>2 DEF Conversa
    <2>. QED
        BY <2>1, <2>2
<1>11. \A w \in User : Conversa(w)'
    BY <1>1, <1>3, <1>5, <1>6, <1>10, ConversaFica DEF Falada
<1>. QED
    BY <1>8, <1>9, <1>11 DEF Falada

\* A step that sends, receives and types no text, and goes no further with any.
LEMMA SemTexto ==
    ASSUME Base, Base', Falada, Cresceram, SaiFica, EntFica, UNCHANGED digitados,
           \A u \in User :
              \/ comando'[u].tipo # "MSG_TXT_GROUP"
              \/ /\ comando'[u] = comando[u] /\ aux'[u] = aux[u]
                 /\ pc'[u] \in {"conectar", "esperar"} => pc[u] \in {"conectar", "esperar"}
                 /\ resposta'[u] = resposta[u] \/ resposta'[u] = "RET_MSG_GROUP_FAIL"
    PROVE  Falada'
<1>1. EntCresce /\ \A u \in User : NadaDe(u)
    BY EntIgual
<1>2. ASSUME NEW u \in User PROVE Conversa(u)'
    <2>1. CASE comando'[u].tipo # "MSG_TXT_GROUP"
        BY <2>1 DEF Conversa
    <2>2. CASE comando'[u].tipo = "MSG_TXT_GROUP"
        BY <1>1, <2>2, ConversaFica DEF Falada
    <2>. QED
        BY <2>1, <2>2
<1>3. Ordem'
    <2>1. \A u \in User : digitados[u] \in Nat
        BY BasePartes DEF TipoResto
    <2>. QED
        BY <2>1, OrdemFica DEF Falada
<1>4. Guardados'
    BY <1>1, GuardadosTodos DEF Falada
<1>. QED
    BY <1>2, <1>3, <1>4 DEF Falada

LEMMA ConectarFalada ==
    ASSUME Base, Base', Falada, NEW u \in User, Conectar(u)
    PROVE  Falada'
<1>1. /\ pc[u] = "conectar" /\ UNCHANGED <<grupos, arquivo, resposta, aux, digitados>>
      /\ \A w \in User \ {u} : comando'[w] = comando[w] /\ pc'[w] = pc[w]
      /\ comando'[u].tipo = comando[u].tipo
      /\ comando[u].tipo # "READ_MSGS_GROUP" => comando'[u] = comando[u]
    <2>1. pc \in [User -> {"ocioso", "conectar", "esperar", "girando"}] /\ comando \in [User -> Cmd]
        BY BasePartes DEF TipoComando
    <2>2. comando[u] \in Cmd
        BY <2>1
    <2>. QED
        BY <2>1, <2>2 DEF Conectar, Cmd
<1>2. Cresceram /\ SaiFica /\ EntFica
    BY <1>1, Crescem DEF SaiFica, EntFica
<1>. QED
    BY <1>1, <1>2, SemTexto

LEMMA TratarGrupoFalada ==
    ASSUME Base, Base', Calma, Falada, NinguemCaiu, NEW v \in User, TratarGrupo(v)
    PROVE  Falada'
<1>1. PICK m, x : m = Atendida(v) /\ x = m.from
    OBVIOUS
<1>2. /\ m.tipo = "ADD_GROUP" /\ fila[v] # <<>> /\ fila' = [fila EXCEPT ![v] = Tail(@)]
      /\ UNCHANGED <<pc, comando, aux, arquivo, digitados>>
    BY <1>1 DEF TratarGrupo, Receber
<1>3. /\ m \in Msg /\ x \in User /\ Pendente(m) /\ Devida(x, v, m)
      /\ IsInjective(m.to) /\ x \notin ToSet(m.to)
    <2>1. 1 \in DOMAIN fila[v] /\ m = fila[v][1] /\ m \in Msg
        BY <1>1, <1>2, Desenfileira
    <2>2. Pendente(m)
        BY <1>2 DEF Pendente
    <2>. QED
        BY <1>1, <1>2, <2>1, <2>2, BasePartes DEF Msg, Calma, Esperas, Devidas, FormaFila
<1>4. \A w \in User \ {x} : resposta'[w] = resposta[w]
    <2>1. \E t : Responder(v, t)
        BY DEF TratarGrupo
    <2>. QED
        BY <1>1, <1>3, <2>1, BasePartes DEF Responder, TipoResto
<1>5. comando'[x].tipo # "MSG_TXT_GROUP"
    BY <1>2, <1>3 DEF Devida, Mensagem
<1>6. Cresceram
    <2>1. CASE x \in contatos[v]
        <3>1. contatos' = [contatos EXCEPT ![v] = Apresentar(v, m.to)] /\ AddGroupRcv(v, m)
            BY <1>1, <2>1 DEF TratarGrupo
        <3>2. PICK g : g = _createGroupRcv(v, m)
            OBVIOUS
        <3>3. g \in Grupo /\ Entrou(v, g)
            BY <1>1, <1>2, <1>3, <2>1, <3>1, <3>2, Apresentou
        <3>. QED
            BY <3>3, Crescem
    <2>2. CASE x \notin contatos[v]
        BY <1>1, <2>2, Crescem DEF TratarGrupo
    <2>. QED
        BY <2>1, <2>2
<1>7. SaiFica /\ EntFica
    BY <1>2 DEF SaiFica, EntFica
<1>. QED
    BY <1>2, <1>4, <1>5, <1>6, <1>7, SemTexto

LEMMA LeituraFalada ==
    ASSUME Base, Base', Falada, NEW v \in User, TratarLeituraGrupo(v)
    PROVE  Falada'
<1>1. UNCHANGED <<pc, comando, aux, grupos, resposta, digitados>>
    BY DEF TratarLeituraGrupo
<1>2. Cresceram
    BY <1>1, Crescem
<1>3. SaiFica /\ EntFica
    <2>1. PICK g, n : g = Atendida(v).grupo /\ n = Len(arquivo[v][g].sai)
        OBVIOUS
    <2>2. arquivo' = arquivo \/ arquivo' = [arquivo EXCEPT ![v][g].marcadas = n]
        BY <2>1 DEF TratarLeituraGrupo
    <2>3. g \in Nome
        <3>1. fila[v] # <<>> /\ fila' = [fila EXCEPT ![v] = Tail(@)]
            BY DEF TratarLeituraGrupo, Receber
        <3>. QED
            BY <2>1, <3>1, Desenfileira DEF Msg
    <2>. QED
        BY <2>2, <2>3, Marcado
<1>. QED
    BY <1>1, <1>2, <1>3, SemTexto

LEMMA ReceberRespostaFalada ==
    ASSUME Base, Base', Calma, Falada, NEW u \in User, ReceberResposta(u)
    PROVE  Falada'
<1>1. /\ pc[u] = "esperar" /\ resposta[u] # "nenhuma" /\ resposta[u] # "perdida"
      /\ resposta' = [resposta EXCEPT ![u] = "nenhuma"] /\ digitados' = digitados
    BY DEF ReceberResposta, Calma, Esperas, SoQuemEspera
<1>2. PICK c, r, n, a, g, l : /\ c = comando[u] /\ r = Tail(comando[u].faltam)
                              /\ n = Perguntados(u) /\ a = Alvo(u) /\ g = c.grupo
                              /\ l = GroupwithNameExist(u, g)
    OBVIOUS
<1>3. PICK aceitou \in 0 .. 1 :
         /\ resposta[u] = "RET_MSG_GROUP_FAIL" => aceitou = 0
         /\ aux' = [aux EXCEPT ![u] = @ + aceitou]
         /\ comando' = [comando EXCEPT ![u].faltam = r]
         /\ IF r = <<>>
            THEN Concluir(u, aux[u] + aceitou) /\ pc' = [pc EXCEPT ![u] = "ocioso"]
            ELSE UNCHANGED <<grupos, arquivo>> /\ pc' = [pc EXCEPT ![u] = "conectar"]
    BY <1>1, <1>2 DEF ReceberResposta
<1>4. /\ comando \in [User -> Cmd] /\ aux \in [User -> Nat] /\ resposta \in [User -> Ret]
      /\ pc \in [User -> {"ocioso", "conectar", "esperar", "girando"}]
      /\ digitados \in [User -> Nat]
      /\ c \in Cmd /\ c.membros \in Seq(User) /\ c.faltam \in Seq(User)
    BY <1>2, BasePartes DEF TipoComando, TipoResto, Cmd
<1>5. /\ comando'[u] = [c EXCEPT !.faltam = r]
      /\ resposta'[u] = "nenhuma" /\ aux'[u] = aux[u] + aceitou
      /\ \A w \in User \ {u} : /\ comando'[w] = comando[w] /\ aux'[w] = aux[w]
                               /\ pc'[w] = pc[w] /\ resposta'[w] = resposta[w]
    BY <1>1, <1>2, <1>3, <1>4
<1>6. /\ n \in Nat /\ n + 1 \in 1 .. Len(c.membros) /\ a = c.membros[n + 1] /\ a \in User
      /\ r \in Seq(User) /\ Len(r) = Len(c.faltam) - 1 /\ (r = <<>> <=> n + 1 = Len(c.membros))
    BY <1>1, <1>2, BasePartes, Proximo
<1>7. aux[u] \in Nat /\ aux[u] <= n
    <2>1. aux[u] \in 0 .. Len(c.membros) - Len(c.faltam)
        BY <1>2, BasePartes DEF TipoComando
    <2>2. n = Len(c.membros) - Len(c.faltam)
        BY <1>2 DEF Perguntados
    <2>3. \A x, k, m \in Nat : x \in 0 .. k - m => x <= k - m
        OBVIOUS
    <2>4. Len(c.membros) \in Nat /\ Len(c.faltam) \in Nat /\ aux[u] \in Nat
        BY <1>4
    <2>. QED
        BY <2>1, <2>2, <2>3, <2>4
<1>8. g \in Nome /\ c.txt \in Nat
    BY <1>1, <1>2, <1>4, BasePartes DEF FormaComando, Cmd
\* No text is received, and one is stored only when a text was sent.
<1>9. \/ UNCHANGED <<grupos, arquivo>>
      \/ c.tipo = "ADD_GROUP" /\ Entrou(u, Feito(u)) /\ arquivo' = arquivo
      \/ /\ r = <<>> /\ aux[u] + aceitou = Len(c.membros) /\ c.tipo = "MSG_TXT_GROUP"
         /\ arquivo' = [arquivo EXCEPT ![u][g].sai = Append(@, c.txt)] /\ grupos' = grupos
    BY <1>2, <1>3 DEF Concluir, AddGroup, Registrar, Entrou, Feito
<1>10. EntFica /\ Cresceram
    <2>1. EntFica
        <3>1. CASE arquivo' = arquivo
            BY <3>1 DEF EntFica
        <3>2. CASE arquivo' = [arquivo EXCEPT ![u][g].sai = Append(@, c.txt)]
            BY <1>8, <3>2, TextoGuardado
        <3>. QED
            BY <1>9, <3>1, <3>2
    <2>2. Feito(u) \in Grupo
        BY <1>1, FeitoTipo
    <2>. QED
        BY <1>9, <2>1, <2>2, Crescem
<1>11. EntCresce /\ \A w \in User : NadaDe(w)
    BY <1>10, EntIgual
<1>12. Ordem'
    BY <1>1, <1>4, <1>10, OrdemFica DEF Falada
\* If all have accepted so far, and this one too, all of them have the text.
<1>13. ASSUME c.tipo = "MSG_TXT_GROUP", aux[u] + aceitou = n + 1
       PROVE  \A i \in 1 .. n + 1 : Recebeu(c.membros[i], u, g, c.txt)
    <2>1. aceitou = 1 /\ aux[u] = n
        BY <1>6, <1>7, <1>13
    <2>2. resposta[u] = "RET_MSG_GROUP_OK"
        BY <1>1, <1>3, <1>4, <2>1 DEF Ret
    <2>3. Recebeu(a, u, g, c.txt)
        BY <1>1, <1>2, <1>13, <2>2 DEF Falada, Conversa
    <2>4. \A i \in 1 .. n : Recebeu(c.membros[i], u, g, c.txt)
        BY <1>1, <1>2, <1>13, <2>1 DEF Falada, Conversa
    <2>5. \A i \in 1 .. n + 1 : i \in 1 .. n \/ i = n + 1
        BY <1>6
    <2>. QED
        BY <1>6, <2>3, <2>4, <2>5
<1>14. ASSUME NEW t, NEW i \in 1 .. Len(c.membros), Recebeu(c.membros[i], u, g, t)
       PROVE  Recebeu(c.membros[i], u, g, t)'
    <2>1. PICK m : m = c.membros[i] /\ m \in User
        BY <1>4, Funcao
    <2>2. Recebeu(m, u, g, t)'
        BY <1>8, <1>11, <1>14, <2>1, RecebeuFica
    <2>. QED
        BY <2>1, <2>2
<1>15. c.tipo = "MSG_TXT_GROUP" =>
          /\ c.txt = digitados[u] /\ l # 0 /\ c.membros = grupos[u][l].membros
          /\ grupos' = grupos /\ GroupwithNameExist(u, g)' = l
    <2>. SUFFICES ASSUME c.tipo = "MSG_TXT_GROUP"
                  PROVE  /\ c.txt = digitados[u] /\ l # 0 /\ c.membros = grupos[u][l].membros
                         /\ grupos' = grupos /\ GroupwithNameExist(u, g)' = l
        OBVIOUS
    <2>1. c.txt = digitados[u] /\ l # 0 /\ c.membros = grupos[u][l].membros
        BY <1>2 DEF Falada, Conversa
    <2>2. grupos' = grupos
        BY <1>9
    <2>. QED
        BY <1>2, <2>1, <2>2 DEF GroupwithNameExist, SelectInSeq
<1>16. Conversa(u)'
    <2>1. /\ comando'[u].tipo = c.tipo /\ comando'[u].grupo = g /\ comando'[u].txt = c.txt
          /\ comando'[u].membros = c.membros /\ comando'[u].faltam = r
        BY <1>2, <1>4, <1>5 DEF Cmd
    <2>. SUFFICES ASSUME c.tipo = "MSG_TXT_GROUP" PROVE Conversa(u)'
        BY <2>1 DEF Conversa
    <2>2. Perguntados(u)' = n + 1
        <3>1. Perguntados(u)' = Len(c.membros) - Len(r) /\ n = Len(c.membros) - Len(c.faltam)
            BY <1>2, <2>1 DEF Perguntados
        <3>2. Len(c.membros) \in Nat /\ Len(c.faltam) \in Nat
            BY <1>4
        <3>. QED
            BY <1>6, <3>1, <3>2
    <2>3. \A i \in (n + 1) + 1 .. Len(c.membros) : Antes(c.membros[i], u, g, c.txt)'
        <3>1. ASSUME NEW i \in (n + 1) + 1 .. Len(c.membros)
              PROVE  Antes(c.membros[i], u, g, c.txt)'
            <4>1. i \in n + 1 .. Len(c.membros) /\ i # n + 1 /\ i \in 1 .. Len(c.membros)
                BY <1>6
            <4>2. PICK m : m = c.membros[i] /\ m \in User
                BY <1>4, <4>1, Funcao
            <4>3. Antes(m, u, g, c.txt)
                BY <1>1, <1>2, <4>1, <4>2 DEF Falada, Conversa
            <4>4. Antes(m, u, g, c.txt)'
                BY <1>8, <1>11, <4>2, <4>3, AntesFica
            <4>. QED
                BY <4>2, <4>4
        <3>. QED
            BY <3>1
    <2>4. aux'[u] = n + 1 => \A i \in 1 .. n + 1 : Recebeu(c.membros[i], u, g, c.txt)'
        <3>1. \A i \in 1 .. n + 1 : i \in 1 .. Len(c.membros)
            BY <1>6
        <3>. QED
            BY <1>5, <1>13, <1>14, <3>1
    <2>. QED
        BY <1>1, <1>5, <1>15, <2>1, <2>2, <2>3, <2>4 DEF Conversa
<1>17. \A w \in User : Conversa(w)'
    BY <1>1, <1>5, <1>10, <1>11, <1>16, ConversaFica DEF Falada
<1>18. Guardados'
    <2>1. CASE arquivo' = arquivo
        BY <1>10, <1>11, <2>1, GuardadosTodos DEF SaiFica, Falada
    <2>2. CASE arquivo' # arquivo
        <3>1. /\ r = <<>> /\ aux[u] + aceitou = Len(c.membros) /\ c.tipo = "MSG_TXT_GROUP"
              /\ arquivo' = [arquivo EXCEPT ![u][g].sai = Append(@, c.txt)]
            BY <1>9, <2>2
        <3>2. PICK s : s = arquivo'[u][g].sai
            OBVIOUS
        <3>3. /\ \A w \in User, h \in Nome : w # u \/ h # g => arquivo'[w][h].sai = arquivo[w][h].sai
              /\ \A k \in DOMAIN s : \/ /\ k \in DOMAIN arquivo[u][g].sai
                                        /\ s[k] = arquivo[u][g].sai[k]
                                     \/ s[k] = c.txt
            BY <1>8, <3>1, <3>2, TextoGuardado
        <3>4. /\ grupos'[u][l].membros = c.membros /\ GroupwithNameExist(u, g)' = l /\ l # 0
              /\ ToSet(c.membros) = {c.membros[i] : i \in 1 .. Len(c.membros)}
            <4>1. grupos'[u][l].membros = c.membros /\ GroupwithNameExist(u, g)' = l /\ l # 0
                BY <1>15, <3>1
            <4>2. ToSet(c.membros) = {c.membros[i] : i \in 1 .. Len(c.membros)}
                BY <1>4, Funcao
            <4>. QED
                BY <4>1, <4>2
        <3>5. ASSUME NEW i \in 1 .. Len(c.membros), NEW k \in DOMAIN s
              PROVE  Recebeu(c.membros[i], u, g, s[k])'
            <4>1. CASE s[k] = c.txt
                BY <1>6, <1>13, <1>14, <3>1, <4>1
            <4>2. CASE k \in DOMAIN arquivo[u][g].sai /\ s[k] = arquivo[u][g].sai[k]
                <5>1. arquivo[u][g].sai # <<>>
                    BY <4>2
                <5>2. c.membros[i] \in ToSet(grupos[u][l].membros)
                    BY <1>15, <3>1, <3>4
                <5>3. Recebeu(c.membros[i], u, g, s[k])
                    BY <1>2, <1>8, <4>2, <5>1, <5>2 DEF Falada, Guardados
                <5>. QED
                    BY <1>14, <5>3
            <4>. QED
                BY <3>3, <4>1, <4>2
        <3>6. ASSUME NEW w \in User, NEW h \in Nome, arquivo'[w][h].sai # <<>>
              PROVE  /\ GroupwithNameExist(w, h)' # 0
                     /\ \A m \in ToSet(grupos[w][GroupwithNameExist(w, h)].membros)' :
                           \A k \in DOMAIN arquivo'[w][h].sai :
                               Recebeu(m, w, h, arquivo[w][h].sai[k])'
            <4>1. CASE w = u /\ h = g
                BY <3>2, <3>4, <3>5, <4>1
            <4>2. CASE w # u \/ h # g
                BY <1>10, <1>11, <3>3, <3>6, <4>2, GuardadosFicam DEF Falada
            <4>. QED
                BY <4>1, <4>2
        <3>. QED
            BY <3>6 DEF Guardados
    <2>. QED
        BY <2>1, <2>2
<1>. QED
    BY <1>12, <1>17, <1>18 DEF Falada

\* The text of x has come to v, whom x waits for.
LEMMA ChegouFalada ==
    ASSUME Base, Base', Falada, NEW v \in User, NEW x \in User, NEW g \in Nome,
           comando[x].tipo = "MSG_TXT_GROUP", comando[x].grupo = g, pc[x] = "esperar",
           resposta[x] = "nenhuma", v = Alvo(x),
           Chegou(v, g, x), UNCHANGED <<grupos, pc, comando, aux, digitados>>,
           \A w \in User : resposta'[w] = IF w = x THEN "RET_MSG_GROUP_OK" ELSE resposta[w]
    PROVE  Falada'
<1>1. PICK c, n, l, r : /\ c = comando[x] /\ n = Perguntados(x) /\ l = GroupwithNameExist(x, g)
                        /\ r = [from |-> x, txt |-> c.txt]
    OBVIOUS
<1>2. /\ c \in Cmd /\ c.txt \in Nat /\ Len(c.membros) \in Nat
      /\ \A i \in 1 .. Len(c.membros) : c.membros[i] \in User
      /\ n \in Nat /\ n + 1 \in 1 .. Len(c.membros) /\ v = c.membros[n + 1]
    BY <1>1, Destinos
<1>3. /\ c.txt = digitados[x] /\ l # 0 /\ c.membros = grupos[x][l].membros
      /\ \A i \in n + 1 .. Len(c.membros) :
            \/ i = n + 1 /\ resposta[x] # "nenhuma"
            \/ Antes(c.membros[i], x, g, c.txt)
      /\ aux[x] = n => \A i \in 1 .. n : Recebeu(c.membros[i], x, g, c.txt)
    BY <1>1 DEF Falada, Conversa
<1>4. SaiFica /\ EntCresce /\ UmMais(v, g, r)
    BY <1>1, <1>2, TextoRecebido
<1>. DEFINE e == arquivo[v][g].ent
            f == arquivo'[v][g].ent
<1>5. PICK k : /\ e = arquivo[v][g].ent /\ f = arquivo'[v][g].ent /\ k \in Nat
               /\ DOMAIN e = 1 .. k /\ DOMAIN f = 1 .. k + 1 /\ f[k + 1] = r
               /\ \A j \in 1 .. k : f[j] = e[j]
    BY <1>4 DEF UmMais
<1>. HIDE DEF e, f
<1>6. Cresceram
    BY Crescem
<1>7. \A j \in 1 .. k + 1 : j \in 1 .. k \/ j = k + 1
    BY <1>5
<1>8. \A w \in User \ {x} : NadaDe(w)
    <2>1. ASSUME NEW w \in User \ {x}, NEW m \in User, NEW h \in Nome,
                 NEW j \in DOMAIN arquivo'[m][h].ent, arquivo'[m][h].ent[j].from = w
          PROVE  j \in DOMAIN arquivo[m][h].ent /\ arquivo'[m][h].ent[j] = arquivo[m][h].ent[j]
        <3>1. CASE m = v /\ h = g
            <4>1. j \in 1 .. k + 1 /\ f[j].from = w /\ r.from = x
                BY <1>1, <1>5, <2>1, <3>1
            <4>2. j # k + 1
                BY <1>5, <4>1
            <4>. QED
                BY <1>5, <1>7, <3>1, <4>1, <4>2
        <3>2. CASE m # v \/ h # g
            BY <1>4, <2>1, <3>2 DEF UmMais
        <3>. QED
            BY <3>1, <3>2
    <2>. QED
        BY <2>1 DEF NadaDe
\* v has only older texts of x until now.
<1>9. \A j \in 1 .. k : e[j].from = x => e[j].txt < c.txt
    <2>1. Antes(v, x, g, c.txt)
        <3>1. n + 1 \in n + 1 .. Len(c.membros)
            BY <1>2
        <3>. QED
            BY <1>2, <1>3, <3>1
    <2>. QED
        BY <1>5, <2>1 DEF Antes
<1>10. Conversa(x)'
    <2>1. /\ comando'[x] = c /\ Perguntados(x)' = n /\ Alvo(x)' = v
          /\ GroupwithNameExist(x, g)' = l /\ grupos' = grupos
        BY <1>1 DEF Perguntados, Alvo, GroupwithNameExist, SelectInSeq
    <2>2. Recebeu(v, x, g, c.txt)'
        <3>1. k + 1 \in DOMAIN f
            BY <1>5
        <3>. QED
            BY <1>1, <1>5, <3>1 DEF Recebeu
    <2>3. \A i \in n + 1 .. Len(c.membros) :
             (i = n + 1 /\ resposta'[x] # "nenhuma") \/ Antes(c.membros[i], x, g, c.txt)'
        <3>1. ASSUME NEW i \in n + 1 .. Len(c.membros), i # n + 1
              PROVE  Antes(c.membros[i], x, g, c.txt)'
            <4>1. i \in 1 .. Len(c.membros) /\ Antes(c.membros[i], x, g, c.txt)
                <5>1. i \in 1 .. Len(c.membros)
                    BY <1>2
                <5>2. Antes(c.membros[i], x, g, c.txt)
                    BY <1>3, <3>1
                <5>. QED
                    BY <5>1, <5>2
            <4>2. PICK m : m = c.membros[i] /\ m \in User
                BY <1>2, <4>1
            <4>3. m # v
                <5>1. IsInjective(c.membros)
                    BY <1>1, <1>3, BasePartes, Achado DEF FormaGrupos
                <5>2. DOMAIN c.membros = 1 .. Len(c.membros)
                    BY <1>2 DEF Cmd
                <5>. QED
                    BY <1>2, <3>1, <4>1, <4>2, <5>1, <5>2 DEF IsInjective
            <4>4. arquivo'[m][g].ent = arquivo[m][g].ent
                BY <1>4, <4>2, <4>3 DEF UmMais
            <4>. QED
                BY <4>1, <4>2, <4>4 DEF Antes
        <3>. QED
            BY <3>1
    <2>4. aux'[x] = n => \A i \in 1 .. n : Recebeu(c.membros[i], x, g, c.txt)'
        <3>1. ASSUME NEW i \in 1 .. n, Recebeu(c.membros[i], x, g, c.txt)
              PROVE  Recebeu(c.membros[i], x, g, c.txt)'
            <4>1. i \in 1 .. Len(c.membros)
                BY <1>2
            <4>2. PICK m : m = c.membros[i] /\ m \in User
                BY <1>2, <4>1
            <4>3. Recebeu(m, x, g, c.txt)'
                BY <1>4, <3>1, <4>2, RecebeuFica
            <4>. QED
                BY <4>2, <4>3
        <3>. QED
            BY <1>3, <3>1
    <2>. QED
        BY <1>1, <1>3, <2>1, <2>2, <2>3, <2>4 DEF Conversa
<1>11. \A w \in User : Conversa(w)'
    BY <1>4, <1>6, <1>8, <1>10, ConversaFica DEF Falada
<1>12. Ordem'
    <2>1. ASSUME NEW m \in User, NEW h \in Nome, m # v \/ h # g
          PROVE  LET ent == arquivo'[m][h].ent IN
                 /\ \A j \in DOMAIN ent : ent[j].txt <= digitados'[ent[j].from]
                 /\ \A i, j \in DOMAIN ent :
                       ent[i].from = ent[j].from /\ i < j => ent[i].txt < ent[j].txt
        <3>1. arquivo'[m][h].ent = arquivo[m][h].ent
            BY <1>4, <2>1 DEF UmMais
        <3>2. LET d == arquivo[m][h].ent IN
              /\ \A j \in DOMAIN d : d[j].txt <= digitados[d[j].from]
              /\ \A i, j \in DOMAIN d : d[i].from = d[j].from /\ i < j => d[i].txt < d[j].txt
            BY DEF Falada, Ordem
        <3>3. digitados' = digitados
            OBVIOUS
        <3>. QED
            BY <3>1, <3>2, <3>3
    <2>2. /\ \A j \in 1 .. k : e[j].txt <= digitados[e[j].from]
          /\ \A i, j \in 1 .. k : e[i].from = e[j].from /\ i < j => e[i].txt < e[j].txt
        BY <1>5 DEF Falada, Ordem
    <2>3. r.from = x /\ r.txt = c.txt
        BY <1>1
    <2>4. ASSUME NEW j \in 1 .. k + 1 PROVE f[j].txt <= digitados[f[j].from]
        <3>1. CASE j = k + 1
            <4>1. f[j].txt = c.txt /\ f[j].from = x
                BY <1>5, <2>3, <3>1
            <4>2. c.txt <= digitados[x]
                BY <1>2, <1>3
            <4>. QED
                BY <4>1, <4>2
        <3>2. CASE j # k + 1
            BY <1>5, <1>7, <2>2, <3>2
        <3>. QED
            BY <3>1, <3>2
    <2>5. ASSUME NEW i \in 1 .. k + 1, NEW j \in 1 .. k + 1, f[i].from = f[j].from, i < j
          PROVE  f[i].txt < f[j].txt
        <3>1. i \in 1 .. k /\ f[i] = e[i]
            BY <1>5, <2>5
        <3>2. CASE j = k + 1
            <4>1. f[j].txt = c.txt /\ f[j].from = x
                BY <1>5, <2>3, <3>2
            <4>. QED
                BY <1>9, <2>5, <3>1, <4>1
        <3>3. CASE j # k + 1
            <4>1. j \in 1 .. k /\ f[j] = e[j]
                BY <1>5, <1>7, <3>3
            <4>. QED
                BY <2>2, <2>5, <3>1, <4>1
        <3>. QED
            BY <3>2, <3>3
    <2>6. digitados' = digitados
        OBVIOUS
    <2>7. LET ent == arquivo'[v][g].ent IN
          /\ \A j \in DOMAIN ent : ent[j].txt <= digitados'[ent[j].from]
          /\ \A i, j \in DOMAIN ent :
                ent[i].from = ent[j].from /\ i < j => ent[i].txt < ent[j].txt
        <3>1. \A j \in DOMAIN f : f[j].txt <= digitados'[f[j].from]
            BY <1>5, <2>4, <2>6
        <3>2. \A i, j \in DOMAIN f : f[i].from = f[j].from /\ i < j => f[i].txt < f[j].txt
            BY <1>5, <2>5
        <3>. QED
            BY <1>5, <3>1, <3>2
    <2>. QED
        BY <2>1, <2>7 DEF Ordem
<1>13. Guardados'
    BY <1>4, <1>6, GuardadosTodos DEF Falada
<1>. QED
    BY <1>11, <1>12, <1>13 DEF Falada

LEMMA TextoFalada ==
    ASSUME Base, Base', Calma, Falada, NinguemCaiu, NEW v \in User, TratarTextoGrupo(v)
    PROVE  Falada'
<1>1. PICK m, x, g : m = Atendida(v) /\ x = m.from /\ g = m.grupo
    OBVIOUS
<1>2. /\ m.tipo = "MSG_TXT_GROUP" /\ fila[v] # <<>> /\ fila' = [fila EXCEPT ![v] = Tail(@)]
      /\ UNCHANGED <<pc, comando, aux, grupos, digitados>>
    BY <1>1 DEF TratarTextoGrupo, Receber
<1>3. m \in Msg /\ x \in User /\ g \in Nome /\ Pendente(m) /\ Devida(x, v, m)
    <2>1. 1 \in DOMAIN fila[v] /\ m = fila[v][1] /\ m \in Msg
        BY <1>1, <1>2, Desenfileira
    <2>2. Pendente(m)
        BY <1>2 DEF Pendente
    <2>. QED
        BY <1>1, <2>1, <2>2 DEF Msg, Calma, Esperas, Devidas
<1>4. /\ comando[x].tipo = "MSG_TXT_GROUP" /\ comando[x].grupo = g /\ comando[x].txt = m.txt
      /\ pc[x] = "esperar" /\ resposta[x] = "nenhuma" /\ v = Alvo(x)
    BY <1>1, <1>2, <1>3 DEF Devida, Mensagem
<1>5. /\ vivo[x] /\ resposta \in [User -> Ret]
    BY <1>3, BasePartes DEF NinguemCaiu, TipoResto
<1>6. CASE GroupwithNameExist(v, g) # 0
    <2>1. /\ arquivo' = [arquivo EXCEPT ![v][g].ent = Append(@, [from |-> x, txt |-> m.txt])]
          /\ resposta' = [resposta EXCEPT ![x] = "RET_MSG_GROUP_OK"]
        BY <1>1, <1>5, <1>6 DEF TratarTextoGrupo, Responder
    <2>2. \A w \in User : resposta'[w] = IF w = x THEN "RET_MSG_GROUP_OK" ELSE resposta[w]
        BY <1>5, <2>1
    <2>. QED
        BY <1>2, <1>3, <1>4, <2>1, <2>2, ChegouFalada DEF Chegou
<1>7. CASE ~ (GroupwithNameExist(v, g) # 0)
    <2>1. arquivo' = arquivo /\ resposta' = [resposta EXCEPT ![x] = "RET_MSG_GROUP_FAIL"]
        BY <1>1, <1>5, <1>7 DEF TratarTextoGrupo, Responder
    <2>2. \A w \in User : resposta'[w] = resposta[w] \/ resposta'[w] = "RET_MSG_GROUP_FAIL"
        BY <1>5, <2>1
    <2>3. SaiFica /\ EntFica /\ Cresceram
        BY <1>2, <2>1, Crescem DEF SaiFica, EntFica
    <2>. QED
        BY <1>2, <2>2, <2>3, SemTexto
<1>. QED
    BY <1>6, <1>7

LEMMA NextFalada ==
    ASSUME Base, Base', [Next]_vars, NinguemCaiu => Calma /\ Falada
    PROVE  NinguemCaiu' => Falada'
<1>. SUFFICES ASSUME NinguemCaiu' PROVE Falada'
    OBVIOUS
<1>1. NinguemCaiu /\ Calma /\ Falada /\ (UNCHANGED vars \/ \E u \in User : Passo(u))
    BY NinguemCai
<1>2. CASE UNCHANGED vars
    <2>1. Cresceram /\ SaiFica /\ EntFica
        BY <1>2, Crescem DEF vars, SaiFica, EntFica
    <2>. QED
        BY <1>1, <1>2, <2>1, SemTexto DEF vars
<1>. QED
    BY <1>1, <1>2, DigitarFalada, ConectarFalada, ReceberRespostaFalada, TratarGrupoFalada,
       TextoFalada, LeituraFalada DEF Passo

LEMMA InitFalada == Init => Falada
<1>. SUFFICES ASSUME Init PROVE Falada
    OBVIOUS
<1>1. \A u \in User : Conversa(u)
    BY DEF Init, Conversa, Nada
<1>2. \A u \in User, g \in Nome : arquivo[u][g].ent = <<>> /\ arquivo[u][g].sai = <<>>
    BY DEF Init, Vazio
<1>. QED
    BY <1>1, <1>2 DEF Falada, Ordem, Guardados

-----------------------------------------------------------------------------
LEMMA InitIInv == Init => IInv
BY InitBase, InitCalma, InitFalada DEF IInv

LEMMA NextIInv == IInv /\ [Next]_vars => IInv'
BY NextBase, NextCalma, NextFalada DEF IInv

\* While no process has died, a group is in its creator's list only when every
\* member has it with the same people, or has no room for groups (utils.c:253,
\* server.c:184, user.c:64-71).
THEOREM GroupsAreComplete == Spec => []GrupoCompleto
<1>1. IInv => GrupoCompleto
    BY DEF IInv, Calma, Completos, Tem, Igual, GrupoCompleto
<1>. QED
    BY <1>1, InitIInv, NextIInv, PTL DEF Spec

\* While no process has died, a text its sender has recorded is in the file of every
\* member of the group, and the texts of one sender are there in the order in which
\* they were typed (utils.c:306-322, server.c:109-126).
THEOREM TextsReachAll == Spec => []EntregueATodos
<1>1. IInv => EntregueATodos
    <2>. SUFFICES ASSUME IInv, NinguemCaiu, NEW u \in User, NEW g \in Nome,
                         arquivo[u][g].sai # <<>>,
                         NEW m \in ToSet(grupos[u][GroupwithNameExist(u, g)].membros)
                  PROVE  LET sai == arquivo[u][g].sai
                             ent == arquivo[m][g].ent
                         IN  /\ \A k \in DOMAIN sai : \E j \in DOMAIN ent :
                                    ent[j] = [from |-> u, txt |-> sai[k]]
                             /\ \A i, j \in DOMAIN ent :
                                    ent[i].from = u /\ ent[j].from = u /\ i < j
                                    => ent[i].txt < ent[j].txt
        BY DEF EntregueATodos
    <2>1. Base /\ Ordem /\ Guardados
        BY DEF IInv, Falada
    <2>2. GroupwithNameExist(u, g) # 0 /\ \A k \in DOMAIN arquivo[u][g].sai :
                                              Recebeu(m, u, g, arquivo[u][g].sai[k])
        BY <2>1 DEF Guardados
    <2>3. m \in User
        BY <2>1, <2>2, MembrosDoGrupo
    <2>. QED
        BY <2>1, <2>2, <2>3 DEF Recebeu, Ordem
<1>. QED
    BY <1>1, InitIInv, NextIInv, PTL DEF Spec
=============================================================================
