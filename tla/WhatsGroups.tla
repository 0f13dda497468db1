----------------------------- MODULE WhatsGroups -----------------------------
(***************************************************************************)
(* PPD/WhatsPPD: the groups.  A group is made (#g), written to (#s #name)  *)
(* and listed (#l #name) by the main thread of one user, which goes        *)
(* through the members one by one with initClient; the server threads of   *)
(* the members answer.  Nobody keeps a group for the others: every member  *)
(* has an entry of its own, which nothing ever brings together again.      *)
(*                                                                         *)
(* Here every user has made its contacts (module WhatsPPD has the #i that  *)
(* did, and the processes that are killed and come back).  A process dies  *)
(* of its own errors only, and stays dead, so what saveUser writes is not  *)
(* seen again.  A connection is made and its message sent in one step: no  *)
(* client dies between the two.  A user is known by one name, its user     *)
(* name and address.                                                       *)
(*                                                                         *)
(* A file Messages/#name.msg holds records "--> text" and "<-- text" as in *)
(* WhatsPPD; the ones marked as read are always the oldest, so a number of *)
(* them is kept for each kind.                                             *)
(***************************************************************************)
EXTENDS Naturals, Sequences, FiniteSets, SequencesExt

CONSTANTS
    User,
    Pessoa,        \* whoever may be a contact, with a process or without
    Conhecidos,    \* the lists of contacts the users may have made
    Convites,      \* the commands #g a user may type: <<user, name, members>>
    MaxContatos,   \* capacity of the list of contacts (8 in the code)
    MaxGrupos,     \* capacity of the list of groups (8 in the code)
    Backlog,       \* connections that may wait for a server
    MaxTextos,     \* bound: texts each user sends
    MaxListas      \* bound: listings of each user

Nome == {c[2] : c \in Convites}

ASSUME GruposAssumption ==
    /\ User \subseteq Pessoa
    /\ Conhecidos \subseteq [User -> SUBSET Pessoa]
    /\ \A f \in Conhecidos, u \in User :
          /\ u \notin f[u]
          /\ IsFiniteSet(f[u]) /\ Cardinality(f[u]) <= MaxContatos
    /\ \A c \in Convites :
          /\ c = <<c[1], c[2], c[3]>> /\ c[1] \in User
          /\ c[3] \in Seq(User \ {c[1]}) /\ c[3] # <<>> /\ IsInjective(c[3])
ASSUME LimitesAssumption ==
    /\ MaxContatos \in Nat /\ MaxGrupos \in Nat \ {0} /\ Backlog \in Nat \ {0}
    /\ MaxTextos \in [User -> Nat] /\ MaxListas \in [User -> Nat]

VARIABLES
    vivo,       \* vivo[u]: the process of u runs
    contatos,   \* contatos[u]: the contacts of u
    grupos,     \* grupos[u]: the groups of u; criador serves the properties only
    arquivo,    \* arquivo[u][g]: the file of group g of u
    pc,         \* pc[u]: where the main thread is
    comando,    \* comando[u]: the command, and whom it still has to reach
    aux,        \* aux[u]: members that have accepted so far
    resposta,   \* resposta[u]: what has come back on its connection
    fila,       \* fila[v]: connections the server of v has not taken
    pedidos,    \* pedidos[u]: commands #g typed
    digitados,  \* digitados[u]: texts typed
    listas      \* listas[u]: listings typed

vars == <<vivo, contatos, grupos, arquivo, pc, comando, aux, resposta, fila,
          pedidos, digitados, listas>>

Vazio == [sai |-> <<>>, ent |-> <<>>, marcadas |-> 0, vistas |-> 0]
Existe(u, g) == arquivo[u][g].sai # <<>> \/ arquivo[u][g].ent # <<>>

\* The first group of that name, as GroupwithNameExist finds it; 0 for none.
GroupwithNameExist(u, g) == SelectInSeq(grupos[u], LAMBDA x : x.nome = g)

-----------------------------------------------------------------------------
Nada == [tipo |-> "nada", grupo |-> "nenhum", membros |-> <<>>, faltam |-> <<>>, txt |-> 0]

Init ==
    /\ vivo = [u \in User |-> TRUE]
    /\ contatos \in Conhecidos
    /\ grupos = [u \in User |-> <<>>]
    /\ arquivo = [u \in User |-> [g \in Nome |-> Vazio]]
    /\ pc = [u \in User |-> "ocioso"]
    /\ comando = [u \in User |-> Nada]
    /\ aux = [u \in User |-> 0]
    /\ resposta = [u \in User |-> "nenhuma"]
    /\ fila = [u \in User |-> <<>>]
    /\ pedidos = [u \in User |-> {}]
    /\ digitados = [u \in User |-> 0] /\ listas = [u \in User |-> 0]

(***************************************************************************)
(* The commands of the main thread.                                        *)
(***************************************************************************)
Livre(u) == vivo[u] /\ pc[u] = "ocioso"

Comecar(u, tipo, grupo, membros, txt) ==
    /\ comando' = [comando EXCEPT ![u] =
          [tipo |-> tipo, grupo |-> grupo, membros |-> membros, faltam |-> membros,
           txt |-> txt]]
    /\ aux' = [aux EXCEPT ![u] = 0]
    /\ pc' = [pc EXCEPT ![u] = "conectar"]

\* #g name members: all of them contacts.  That the name is taken is not looked at.
executeCommandInsertionGroup(u) ==
    /\ Livre(u)
    /\ \E c \in Convites \ pedidos[u] :
          /\ c[1] = u /\ ToSet(c[3]) \subseteq contatos[u]
          /\ Comecar(u, "ADD_GROUP", c[2], c[3], 0)
          /\ pedidos' = [pedidos EXCEPT ![u] = @ \cup {c}]
    /\ UNCHANGED <<vivo, contatos, grupos, arquivo, resposta, fila, digitados, listas>>

\* #s #name text
executeCommandSend(u) ==
    /\ Livre(u) /\ digitados[u] < MaxTextos[u]
    /\ \E g \in Nome :
          LET loc == GroupwithNameExist(u, g) IN
          /\ loc # 0
          /\ Comecar(u, "MSG_TXT_GROUP", g, grupos[u][loc].membros, digitados[u] + 1)
    /\ digitados' = [digitados EXCEPT ![u] = @ + 1]
    /\ UNCHANGED <<vivo, contatos, grupos, arquivo, resposta, fila, pedidos, listas>>

\* #l #name: the file is shown and its received records marked.
executeCommandList(u) ==
    /\ Livre(u) /\ listas[u] < MaxListas[u]
    /\ \E g \in Nome :
          LET loc == GroupwithNameExist(u, g) IN
          /\ loc # 0 /\ Existe(u, g)
          /\ arquivo' = [arquivo EXCEPT ![u][g].vistas = Len(arquivo[u][g].ent)]
          /\ Comecar(u, "READ_MSGS_GROUP", g, grupos[u][loc].membros, 0)
    /\ listas' = [listas EXCEPT ![u] = @ + 1]
    /\ UNCHANGED <<vivo, contatos, grupos, resposta, fila, pedidos, digitados>>

(***************************************************************************)
(* initClient, once for each member.                                       *)
(***************************************************************************)
Alvo(u) == Head(comando[u].faltam)

Mensagem(u) ==
    [tipo |-> comando[u].tipo, from |-> u, grupo |-> comando[u].grupo,
     to |-> IF comando[u].tipo = "ADD_GROUP" THEN comando[u].membros ELSE <<>>,
     txt |-> comando[u].txt]

\* The process of u is gone, and all connections with it.  r is what its server
\* had answered before.
Cai(u, r) ==
    /\ vivo' = [vivo EXCEPT ![u] = FALSE]
    /\ pc' = [pc EXCEPT ![u] = "ocioso"]
    /\ fila' = [fila EXCEPT ![u] = <<>>]
    /\ resposta' = [w \in User |->
          IF w = u THEN "nenhuma"
          ELSE IF pc[w] = "esperar" /\ r[w] = "nenhuma" /\ Alvo(w) = u
               THEN "perdida" ELSE r[w]]
    /\ UNCHANGED <<contatos, grupos, arquivo, comando, aux, pedidos, digitados, listas>>

\* Nobody waits for an answer to READ_MSGS_GROUP.
Conectar(u) ==
    LET v == Alvo(u)
        lendo == comando[u].tipo = "READ_MSGS_GROUP"
    IN  /\ pc[u] = "conectar" /\ vivo[v] /\ Len(fila[v]) < Backlog
        /\ fila' = [fila EXCEPT ![v] = Append(@, Mensagem(u))]
        /\ comando' = IF lendo THEN [comando EXCEPT ![u].faltam = Tail(@)] ELSE comando
        /\ pc' = [pc EXCEPT ![u] =
              IF ~ lendo THEN "esperar"
              ELSE IF Tail(comando[u].faltam) = <<>> THEN "ocioso" ELSE "conectar"]
        /\ UNCHANGED <<vivo, contatos, grupos, arquivo, aux, resposta, pedidos,
                       digitados, listas>>

\* Nobody listens: send on the unconnected socket ends the process.
ConectarFalha(u) ==
    /\ pc[u] = "conectar" /\ ~ vivo[Alvo(u)]
    /\ Cai(u, resposta)

\* The group is entered at its creator, as long as there is room.
AddGroup(u) ==
    LET c == comando[u] IN
    /\ grupos' = [grupos EXCEPT ![u] =
          IF Len(@) < MaxGrupos
          THEN Append(@, [nome |-> c.grupo, membros |-> c.membros, criador |-> u]) ELSE @]
    /\ arquivo' = arquivo

\* The text is recorded as sent to the group.
Registrar(u) ==
    /\ arquivo' = [arquivo EXCEPT ![u][comando[u].grupo].sai = Append(@, comando[u].txt)]
    /\ grupos' = grupos

\* Mutant: one member that accepts is enough.
Concluir_UmBasta(u, n) ==
    IF n = 0 THEN UNCHANGED <<grupos, arquivo>>
    ELSE \/ comando[u].tipo = "ADD_GROUP" /\ AddGroup(u)
         \/ comando[u].tipo = "MSG_TXT_GROUP" /\ Registrar(u)

\* The last member has answered and n have accepted: only all of them will do.
Concluir(u, n) ==
    IF n # Len(comando[u].membros) THEN UNCHANGED <<grupos, arquivo>>
    ELSE \/ comando[u].tipo = "ADD_GROUP" /\ AddGroup(u)
         \/ comando[u].tipo = "MSG_TXT_GROUP" /\ Registrar(u)

\* The answer of one member.  A refusal does not stop the round.  On a broken
\* connection ret_msg is what was on the stack: any answer, or none of the four,
\* and then the loop never ends.
ReceberResposta(u) ==
    /\ pc[u] = "esperar" /\ resposta[u] # "nenhuma"
    /\ LET faltam == Tail(comando[u].faltam) IN
       \/ \E aceitou \in 0 .. 1 :
             /\ resposta[u] = "RET_MSG_GROUP_OK" => aceitou = 1
             /\ resposta[u] = "RET_MSG_GROUP_FAIL" => aceitou = 0
             /\ aux' = [aux EXCEPT ![u] = @ + aceitou]
             /\ comando' = [comando EXCEPT ![u].faltam = faltam]
             /\ IF faltam = <<>>
                THEN /\ Concluir(u, aux[u] + aceitou)
                     /\ pc' = [pc EXCEPT ![u] = "ocioso"]
                ELSE /\ UNCHANGED <<grupos, arquivo>>
                     /\ pc' = [pc EXCEPT ![u] = "conectar"]
       \/ /\ resposta[u] = "perdida"
          /\ pc' = [pc EXCEPT ![u] = "girando"]
          /\ UNCHANGED <<grupos, arquivo, comando, aux>>
    /\ resposta' = [resposta EXCEPT ![u] = "nenhuma"]
    /\ UNCHANGED <<vivo, contatos, fila, pedidos, digitados, listas>>

-----------------------------------------------------------------------------
(***************************************************************************)
(* serverThread: one action per kind of message.                           *)
(***************************************************************************)
Atendida(v) == Head(fila[v])

Receber(v, tipo) ==
    /\ vivo[v] /\ fila[v] # <<>> /\ Atendida(v).tipo = tipo

\* The client may have died meanwhile.
Responder(v, tipo) ==
    resposta' = IF vivo[Atendida(v).from]
                THEN [resposta EXCEPT ![Atendida(v).from] = tipo] ELSE resposta

\* Mutant: no contact is made of the others.
Apresentar_Ninguem(v, lista) == contatos[v]

\* The contacts of v after it was told of the members lista: one by one, each it
\* does not know is added as long as there is room.
Apresentar(v, lista) ==
    LET Ate[k \in 0 .. Len(lista)] ==
            IF k = 0 THEN contatos[v]
            ELSE Ate[k - 1] \cup {x \in {lista[k]} \ {v} : Cardinality(Ate[k - 1]) < MaxContatos}
    IN  Ate[Len(lista)]

Recusados(v, lista) == (ToSet(lista) \ {v}) \ Apresentar(v, lista)

\* The creator first, then the others without v itself (they are distinct).
_createGroupRcv(v, m) ==
    [nome |-> m.grupo, criador |-> m.from,
     membros |-> <<m.from>> \o RemoveFirst(m.to, v)]

\* Mutant: the capacity is not checked.
AddGroupRcv_SemLimite(v, m) ==
    grupos' = [grupos EXCEPT ![v] = Append(@, _createGroupRcv(v, m))]

AddGroupRcv(v, m) ==
    grupos' = [grupos EXCEPT ![v] =
        IF Len(@) < MaxGrupos THEN Append(@, _createGroupRcv(v, m)) ELSE @]

\* Mutant: a stranger gets no answer.
TratarGrupo_SemRecusa(v) ==
    LET m == Atendida(v) IN
    /\ Receber(v, "ADD_GROUP")
    /\ IF m.from \in contatos[v]
       THEN /\ contatos' = [contatos EXCEPT ![v] = Apresentar(v, m.to)]
            /\ AddGroupRcv(v, m)
            /\ Responder(v, IF Recusados(v, m.to) = {} THEN "RET_MSG_GROUP_OK"
                            ELSE "RET_MSG_GROUP_FAIL")
       ELSE UNCHANGED <<contatos, grupos, resposta>>
    /\ fila' = [fila EXCEPT ![v] = Tail(@)]
    /\ UNCHANGED <<vivo, arquivo, pc, comando, aux, pedidos, digitados, listas>>

\* Each member there is no room for is refused with an answer of its own, the
\* group is entered all the same, and accepted: the client reads the first answer.
TratarGrupo(v) ==
    LET m == Atendida(v) IN
    /\ Receber(v, "ADD_GROUP")
    /\ IF m.from \in contatos[v]
       THEN /\ contatos' = [contatos EXCEPT ![v] = Apresentar(v, m.to)]
            /\ AddGroupRcv(v, m)
            /\ Responder(v, IF Recusados(v, m.to) = {} THEN "RET_MSG_GROUP_OK"
                            ELSE "RET_MSG_GROUP_FAIL")
       ELSE /\ UNCHANGED <<contatos, grupos>>
            /\ Responder(v, "RET_MSG_GROUP_FAIL")
    /\ fila' = [fila EXCEPT ![v] = Tail(@)]
    /\ UNCHANGED <<vivo, arquivo, pc, comando, aux, pedidos, digitados, listas>>

\* The client closes after the first answer: the second is sent to a connection
\* closed at the other end, which resets it, and the third may find it reset, and
\* SIGPIPE ends the process.  With a client that has died, the second may.
TratarGrupoFalha(v) ==
    LET m == Atendida(v) IN
    /\ Receber(v, "ADD_GROUP")
    /\ m.from \in contatos[v]
    /\ Recusados(v, m.to) # {}
    /\ vivo[m.from] => Cardinality(Recusados(v, m.to)) > 1
    /\ Cai(v, IF vivo[m.from] THEN [resposta EXCEPT ![m.from] = "RET_MSG_GROUP_FAIL"]
              ELSE resposta)

\* Mutant: a text to a group that is not known is accepted.
TratarTextoGrupo_SemRecusa(v) ==
    LET m == Atendida(v) IN
    /\ Receber(v, "MSG_TXT_GROUP")
    /\ arquivo' = IF GroupwithNameExist(v, m.grupo) # 0
                  THEN [arquivo EXCEPT ![v][m.grupo].ent =
                          Append(@, [from |-> m.from, txt |-> m.txt])]
                  ELSE arquivo
    /\ Responder(v, "RET_MSG_GROUP_OK")
    /\ fila' = [fila EXCEPT ![v] = Tail(@)]
    /\ UNCHANGED <<vivo, contatos, grupos, pc, comando, aux, pedidos, digitados, listas>>

\* A text to a known group goes to its file, whoever sent it.
TratarTextoGrupo(v) ==
    LET m == Atendida(v) IN
    /\ Receber(v, "MSG_TXT_GROUP")
    /\ IF GroupwithNameExist(v, m.grupo) # 0
       THEN /\ arquivo' = [arquivo EXCEPT ![v][m.grupo].ent =
                              Append(@, [from |-> m.from, txt |-> m.txt])]
            /\ Responder(v, "RET_MSG_GROUP_OK")
       ELSE /\ arquivo' = arquivo
            /\ Responder(v, "RET_MSG_GROUP_FAIL")
    /\ fila' = [fila EXCEPT ![v] = Tail(@)]
    /\ UNCHANGED <<vivo, contatos, grupos, pc, comando, aux, pedidos, digitados, listas>>

\* Every record "-->" of the file is marked.
TratarLeituraGrupo(v) ==
    LET g == Atendida(v).grupo IN
    /\ Receber(v, "READ_MSGS_GROUP")
    /\ GroupwithNameExist(v, g) # 0 => Existe(v, g)
    /\ arquivo' = IF GroupwithNameExist(v, g) # 0
                  THEN [arquivo EXCEPT ![v][g].marcadas = Len(arquivo[v][g].sai)]
                  ELSE arquivo
    /\ fila' = [fila EXCEPT ![v] = Tail(@)]
    /\ UNCHANGED <<vivo, contatos, grupos, pc, comando, aux, resposta, pedidos,
                   digitados, listas>>

\* The group has no file yet, fopen returns NULL and fread dereferences it.
TratarLeituraGrupoFalha(v) ==
    LET g == Atendida(v).grupo IN
    /\ Receber(v, "READ_MSGS_GROUP")
    /\ GroupwithNameExist(v, g) # 0 /\ ~ Existe(v, g)
    /\ Cai(v, resposta)

-----------------------------------------------------------------------------
Digitar(u) ==
    executeCommandInsertionGroup(u) \/ executeCommandSend(u) \/ executeCommandList(u)

initClient(u) == Conectar(u) \/ ConectarFalha(u) \/ ReceberResposta(u)

serverThread(v) ==
    \/ TratarGrupo(v) \/ TratarGrupoFalha(v) \/ TratarTextoGrupo(v)
    \/ TratarLeituraGrupo(v) \/ TratarLeituraGrupoFalha(v)

Next == \E u \in User : Digitar(u) \/ initClient(u) \/ serverThread(u)

Spec == Init /\ [][Next]_vars

\* Both threads of a process run; users need not type.
FairSpec ==
    Spec /\ \A u \in User : WF_vars(initClient(u)) /\ WF_vars(serverThread(u))

-----------------------------------------------------------------------------
(***************************************************************************)
(* Properties.                                                             *)
(***************************************************************************)
Tipo == {"ADD_GROUP", "MSG_TXT_GROUP", "READ_MSGS_GROUP"}
Grupo == [nome : Nome, membros : Seq(User), criador : User]
Arquivo == [sai : Seq(Nat), ent : Seq([from : User, txt : Nat]), marcadas : Nat, vistas : Nat]

\* The type invariant (user.h:9-16, grupo.h:8-13, mensagem.h:27-36); no list
\* outgrows its array, and no more records are marked than there are.
TypeOK ==
    /\ vivo \in [User -> BOOLEAN]
    /\ contatos \in [User -> SUBSET Pessoa]
    /\ grupos \in [User -> Seq(Grupo)]
    /\ \A u \in User : /\ Cardinality(contatos[u]) <= MaxContatos
                       /\ Len(grupos[u]) <= MaxGrupos
    /\ arquivo \in [User -> [Nome -> Arquivo]]
    /\ \A u \in User, g \in Nome : /\ arquivo[u][g].marcadas <= Len(arquivo[u][g].sai)
                                   /\ arquivo[u][g].vistas <= Len(arquivo[u][g].ent)
    /\ pc \in [User -> {"ocioso", "conectar", "esperar", "girando"}]
    /\ comando \in [User -> [tipo : Tipo \cup {"nada"}, grupo : Nome \cup {"nenhum"},
                             membros : Seq(User), faltam : Seq(User), txt : Nat]]
    /\ aux \in [User -> Nat]
    /\ \A u \in User : /\ IsSuffix(comando[u].faltam, comando[u].membros)
                       /\ aux[u] \in 0 .. Len(comando[u].membros) - Len(comando[u].faltam)
                       /\ pc[u] \in {"conectar", "esperar"} => comando[u].faltam # <<>>
    /\ resposta \in [User -> {"nenhuma", "RET_MSG_GROUP_OK", "RET_MSG_GROUP_FAIL", "perdida"}]
    /\ fila \in [User -> Seq([tipo : Tipo, from : User, grupo : Nome, to : Seq(User), txt : Nat])]
    /\ pedidos \in [User -> SUBSET Convites]
    /\ digitados \in [User -> Nat] /\ listas \in [User -> Nat]

NinguemCaiu == \A u \in User : vivo[u]

\* While no process has died, a group is in its creator's list only when every
\* member has it with the same people, but for those whose list of groups is
\* full, who accept and enter nothing (utils.c:253, server.c:184, user.c:64-71).
GrupoCompleto ==
    NinguemCaiu =>
        \A u \in User : \A k \in DOMAIN grupos[u] :
            LET g == grupos[u][k] IN
            g.criador = u =>
                \A m \in ToSet(g.membros) :
                    \/ \E j \in DOMAIN grupos[m] :
                          LET h == grupos[m][j] IN
                          /\ h.nome = g.nome /\ h.criador = u
                          /\ ToSet(h.membros) \cup {m} = ToSet(g.membros) \cup {u}
                    \/ Len(grupos[m]) = MaxGrupos

\* Whoever is in a group of u is a contact of u, unless there was no room left
\* (server.c:170-182, utils.c:237).
MembrosConhecidos ==
    \A u \in User : \A k \in DOMAIN grupos[u] :
        \/ ToSet(grupos[u][k].membros) \subseteq contatos[u]
        \/ Cardinality(contatos[u]) = MaxContatos

\* While no process has died, a text recorded as sent to a group is in the file
\* of every member the sender knows, once, and the texts of one user are there in
\* the order they were sent (utils.c:306-322, server.c:109-126).
EntregueATodos ==
    NinguemCaiu =>
        \A u \in User, g \in Nome :
            LET sai == arquivo[u][g].sai IN
            sai # <<>> => \A m \in ToSet(grupos[u][GroupwithNameExist(u, g)].membros) :
                LET ent == arquivo[m][g].ent IN
                /\ \A k \in DOMAIN sai : \E j \in DOMAIN ent : ent[j] = [from |-> u, txt |-> sai[k]]
                /\ \A i, j \in DOMAIN ent :
                      ent[i].from = u /\ ent[j].from = u /\ i < j => ent[i].txt < ent[j].txt

\* Every command comes to an end, to the endless loop of a lost answer, or with
\* the death of its process (client.c:52-71).
CommandEnds ==
    \A u \in User : pc[u] # "ocioso" ~> pc[u] \in {"ocioso", "girando"}

Parados == \A u \in User : pc[u] = "ocioso" /\ fila[u] = <<>>

\* When nobody has anything left to do, whoever is in a group of somebody has that
\* group (Docs/Trabalho2-definicao.pdf, item 6).
MesmosMembros ==
    NinguemCaiu /\ Parados =>
        \A u \in User : \A k \in DOMAIN grupos[u] :
            \A m \in ToSet(grupos[u][k].membros) : GroupwithNameExist(m, grupos[u][k].nome) # 0
=============================================================================
