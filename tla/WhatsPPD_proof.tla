--------------------------- MODULE WhatsPPD_proof ---------------------------
(***************************************************************************)
(* Proofs about WhatsPPD for any users, names and bounds: its types;       *)
(* Delivery, that the file of a sender is the file of the receiver up to   *)
(* one text under way; Acquainted; and FifoReceipt, that texts are stored  *)
(* in the order they were sent, deaths and logins included.                *)
(*                                                                         *)
(* Delivery is not inductive: it also takes that a process which has sent  *)
(* one message waits for it, and for no other (Ligacoes), and that names   *)
(* are addresses (Nomes).  What the others need is said where they begin.  *)
(***************************************************************************)
EXTENDS WhatsPPD, TLAPS

\* Until a process dies, every process lives and no connection breaks.
SemQueda ==
    /\ \A u \in User : vivo[u] /\ resposta[u] # "perdida" /\ pc[u] # "girando"
    /\ \A v \in User : \A k \in DOMAIN fila[v] :
          fila[v][k].estado \in {"aberta", "enviada"}

\* A connection on which its client still has something to do.
Pendente(c) == c.estado = "aberta" \/ c.msg.tipo # "READ_MSGS"

\* A pending connection belongs to the command its client executes now, and is
\* the only one of that client; an answer comes only to a client that waits.
Ligacoes ==
    /\ \A v \in User : \A k \in DOMAIN fila[v] :
          LET c == fila[v][k] IN
          /\ c.msg.from = c.ip
          /\ Pendente(c) =>
                /\ comando[c.ip].ip = v
                /\ c.msg.tipo = comando[c.ip].tipo /\ c.msg.txt = comando[c.ip].txt
                /\ pc[c.ip] = IF c.estado = "aberta" THEN "enviar" ELSE "esperar"
                /\ resposta[c.ip] = "nenhuma"
    /\ \A v \in User : \A j, k \in DOMAIN fila[v] :
          /\ Pendente(fila[v][j]) /\ Pendente(fila[v][k])
          /\ fila[v][j].ip = fila[v][k].ip
          => j = k
    /\ \A u \in User : resposta[u] # "nenhuma" => pc[u] = "esperar"

\* Contacts are stored under the user names.
Nomes ==
    /\ \A u \in User : \A k \in DOMAIN contatos[u] :
          contatos[u][k].name = contatos[u][k].ip
    /\ \A u \in User : comando[u].nome = comando[u].ip

\* The text that u sends now to v is stored there, and u does not know yet.
Chegou(u, v) ==
    /\ pc[u] = "esperar" /\ resposta[u] = "RET_MSG_OK"
    /\ comando[u].tipo = "MSG_TXT" /\ comando[u].ip = v

\* How the file of the sender s and the file of the receiver r compare.
Iguais(s, r, u, v) ==
    /\ \A k \in DOMAIN s : k \in DOMAIN r /\ r[k].txt = s[k].txt
    /\ ~ Chegou(u, v) => Len(r) = Len(s)
    /\ Chegou(u, v) => Len(r) = Len(s) + 1 /\ r[Len(r)].txt = comando[u].txt

Arquivos == \A u, v \in User : Iguais(arquivo[u][v].sai, arquivo[v][u].ent, u, v)

IInv ==
    /\ TypeOK
    /\ quedas = 0 /\ NomesVerdadeiros => SemQueda /\ Ligacoes /\ Nomes /\ Arquivos

-----------------------------------------------------------------------------
(***************************************************************************)
(* Types.                                                                  *)
(***************************************************************************)
LEMMA AgendaTipo ==
    ASSUME NEW a \in Agenda
    PROVE  a[1] \in User /\ a[2] \in Nome /\ a[3] \in User
BY AgendaAssumption DEF Nome

LEMMA AddContactTipo ==
    ASSUME NEW lista \in Seq(Contato), Len(lista) <= MaxContatos,
           NEW n \in Nome, NEW ip \in User
    PROVE  AddContact(lista, n, ip) \in Seq(Contato)
           /\ Len(AddContact(lista, n, ip)) <= MaxContatos
<1>1. [name |-> n, ip |-> ip] \in Contato
    BY DEF Contato
<1>2. Append(lista, [name |-> n, ip |-> ip]) \in Seq(Contato)
    BY <1>1
<1>3. Len(Append(lista, [name |-> n, ip |-> ip])) = Len(lista) + 1
    BY <1>1
<1>. QED
    BY <1>2, <1>3, BoundsAssumption DEF AddContact

\* Marking the records of a file as read changes no text.
LEMMA LidasTipo ==
    ASSUME NEW regs \in Seq(Registro)
    PROVE  /\ Lidas(regs) \in Seq(Registro) /\ Len(Lidas(regs)) = Len(regs)
           /\ DOMAIN Lidas(regs) = DOMAIN regs
           /\ \A k \in DOMAIN regs : Lidas(regs)[k].txt = regs[k].txt
<1>1. /\ DOMAIN regs = 1 .. Len(regs) /\ Len(regs) \in Nat
      /\ \A k \in 1 .. Len(regs) : regs[k] \in Registro
    OBVIOUS
<1>2. /\ Lidas(regs) = [k \in 1 .. Len(regs) |-> [regs[k] EXCEPT !.lida = TRUE]]
    BY <1>1 DEF Lidas
<1>3. \A k \in 1 .. Len(regs) : /\ [regs[k] EXCEPT !.lida = TRUE] \in Registro
                                /\ [regs[k] EXCEPT !.lida = TRUE].txt = regs[k].txt
    BY <1>1 DEF Registro
<1>4. Lidas(regs) \in [1 .. Len(regs) -> Registro]
    BY <1>2, <1>3
<1>5. Lidas(regs) \in Seq(Registro) /\ Len(Lidas(regs)) = Len(regs)
    BY <1>1, <1>4
<1>. QED
    BY <1>1, <1>2, <1>3, <1>5

\* Writing one half of one file.
GravaSai(f, a, b, s) == [f EXCEPT ![a][b].sai = s]
GravaEnt(f, a, b, s) == [f EXCEPT ![a][b].ent = s]

\* The files of all users.
Pasta == [User -> [Nome -> Arquivo]]

LEMMA GravaTipo ==
    ASSUME NEW f \in Pasta, NEW u \in User, NEW n \in Nome, NEW s \in Seq(Registro)
    PROVE  /\ GravaSai(f, u, n, s) \in Pasta /\ GravaEnt(f, u, n, s) \in Pasta
           /\ \A x \in User, y \in Nome :
                 /\ GravaSai(f, u, n, s)[x][y].ent = f[x][y].ent
                 /\ GravaEnt(f, u, n, s)[x][y].sai = f[x][y].sai
                 /\ GravaSai(f, u, n, s)[x][y].sai =
                       IF x = u /\ y = n THEN s ELSE f[x][y].sai
                 /\ GravaEnt(f, u, n, s)[x][y].ent =
                       IF x = u /\ y = n THEN s ELSE f[x][y].ent
BY DEF GravaSai, GravaEnt, Pasta, Arquivo

\* The types alone, for the steps that need no more.
LEMMA GravaPasta ==
    ASSUME NEW f \in Pasta, NEW u \in User, NEW n \in Nome, NEW s \in Seq(Registro)
    PROVE  GravaSai(f, u, n, s) \in Pasta /\ GravaEnt(f, u, n, s) \in Pasta
BY GravaTipo

LEMMA PastaTipo == TypeOK => arquivo \in Pasta
BY DEF TypeOK, Pasta

LEMMA ComandoTipo ==
    ASSUME NEW tipo \in Tipo, NEW n \in Nome, NEW ip \in User, NEW txt \in Nat
    PROVE  [tipo |-> tipo, nome |-> n, ip |-> ip, txt |-> txt] \in Comando
BY DEF Comando

\* The connections of s, those of u that wait for their message having it.
Enviadas(s, u) ==
    [k \in DOMAIN s |-> IF s[k].ip = u /\ s[k].estado = "aberta"
                        THEN [s[k] EXCEPT !.estado = "enviada"] ELSE s[k]]

\* The connections of s after the death of u.
Rompidas(s, u) ==
    [k \in DOMAIN s |->
       IF s[k].ip # u THEN s[k]
       ELSE [s[k] EXCEPT !.estado =
               IF @ \in {"aberta", "fechada"} THEN "fechada" ELSE "orfa"]]

LEMMA EnviadasTipo ==
    ASSUME NEW s \in Seq(Conn), NEW u \in User
    PROVE  /\ Enviadas(s, u) \in Seq(Conn)
           /\ DOMAIN Enviadas(s, u) = DOMAIN s
           /\ \A k \in DOMAIN s :
                 /\ Enviadas(s, u)[k].ip = s[k].ip /\ Enviadas(s, u)[k].msg = s[k].msg
                 /\ Enviadas(s, u)[k].estado =
                       IF s[k].ip = u /\ s[k].estado = "aberta"
                       THEN "enviada" ELSE s[k].estado
<1>1. DOMAIN s = 1 .. Len(s) /\ Len(s) \in Nat /\ \A k \in DOMAIN s : s[k] \in Conn
    OBVIOUS
<1>2. \A k \in DOMAIN s : /\ Enviadas(s, u)[k] \in Conn
                          /\ Enviadas(s, u)[k].ip = s[k].ip
                          /\ Enviadas(s, u)[k].msg = s[k].msg
                          /\ Enviadas(s, u)[k].estado =
                                IF s[k].ip = u /\ s[k].estado = "aberta"
                                THEN "enviada" ELSE s[k].estado
    BY <1>1 DEF Enviadas, Conn
<1>3. Enviadas(s, u) \in [1 .. Len(s) -> Conn]
    BY <1>1, <1>2 DEF Enviadas
<1>. QED
    BY <1>1, <1>2, <1>3

LEMMA RompidasTipo ==
    ASSUME NEW s \in Seq(Conn), NEW u \in User
    PROVE  Rompidas(s, u) \in Seq(Conn)
<1>1. DOMAIN s = 1 .. Len(s) /\ Len(s) \in Nat /\ \A k \in DOMAIN s : s[k] \in Conn
    OBVIOUS
<1>2. \A k \in DOMAIN s : Rompidas(s, u)[k] \in Conn
    BY <1>1 DEF Rompidas, Conn
<1>3. Rompidas(s, u) \in [1 .. Len(s) -> Conn]
    BY <1>1, <1>2 DEF Rompidas
<1>. QED
    BY <1>1, <1>3

LEMMA InitTypeOK == Init => TypeOK
<1>. SUFFICES ASSUME Init PROVE TypeOK
    OBVIOUS
<1>. USE DEF Init
<1>1. /\ vivo \in [User -> BOOLEAN]
      /\ contatos \in [User -> Seq(Contato)] /\ disco \in [User -> Seq(Contato)]
      /\ \A u \in User : Len(contatos[u]) <= MaxContatos /\ Len(disco[u]) <= MaxContatos
    BY BoundsAssumption
<1>2. Vazio \in Arquivo
    BY DEF Vazio, Arquivo
<1>3. arquivo \in Pasta
    BY <1>2 DEF Pasta
<1>4. /\ pc \in [User -> {"ocioso", "marcar", "conectar", "enviar", "esperar", "girando"}]
      /\ resposta \in [User -> {"nenhuma", "RET_MSG_OK", "RET_MSG_FAIL", "perdida"}]
      /\ fila \in [User -> Seq(Conn)]
      /\ digitados \in [User -> Nat] /\ quedas \in Nat
    OBVIOUS
<1>5. comando \in [User -> Comando] /\ ultima \in [User -> Msg]
    BY DEF Comando, Msg, Tipo, Nome, SemMensagem
<1>. QED
    BY <1>1, <1>3, <1>4, <1>5 DEF TypeOK, Pasta

LEMMA CaiTypeOK ==
    ASSUME TypeOK, NEW u \in User, Cai(u)
    PROVE  TypeOK'
<1>1. fila' \in [User -> Seq(Conn)]
    <2>. SUFFICES ASSUME NEW v \in User, v # u
                  PROVE  fila'[v] \in Seq(Conn)
        BY DEF Cai
    <2>1. fila[v] \in Seq(Conn)
        BY DEF TypeOK
    <2>2. fila'[v] = Rompidas(fila[v], u)
        BY DEF Cai, Rompidas
    <2>. QED  BY <2>1, <2>2, RompidasTipo
<1>2. /\ vivo' \in [User -> BOOLEAN] /\ quedas' \in Nat
      /\ pc' \in [User -> {"ocioso", "marcar", "conectar", "enviar", "esperar", "girando"}]
    BY DEF Cai, TypeOK
<1>3. resposta' \in [User -> {"nenhuma", "RET_MSG_OK", "RET_MSG_FAIL", "perdida"}]
    BY DEF Cai, TypeOK
<1>. QED
    BY <1>1, <1>2, <1>3 DEF Cai, TypeOK

LEMMA DigitarTypeOK ==
    ASSUME TypeOK, NEW u \in User, Digitar(u)
    PROVE  TypeOK'
<1>. USE DEF TypeOK, Comecar, Tipo
<1>1. CASE executeCommandInsertion(u)
    <2>1. PICK a \in Agenda : Comecar(u, "ADD_CONTACT", a[2], a[3], 0)
        BY <1>1 DEF executeCommandInsertion
    <2>2. [tipo |-> "ADD_CONTACT", nome |-> a[2], ip |-> a[3], txt |-> 0] \in Comando
        BY AgendaTipo, ComandoTipo
    <2>. QED
        BY <1>1, <2>1, <2>2 DEF executeCommandInsertion
<1>2. CASE executeCommandSend(u)
    <2>1. PICK k \in DOMAIN contatos[u] :
             Comecar(u, "MSG_TXT", contatos[u][k].name, contatos[u][k].ip,
                     digitados[u] + 1)
        BY <1>2 DEF executeCommandSend
    <2>2. contatos[u][k] \in Contato
        OBVIOUS
    <2>3. /\ contatos[u][k].name \in Nome /\ contatos[u][k].ip \in User
          /\ digitados[u] + 1 \in Nat
        <3>1. contatos[u][k].name \in Nome /\ contatos[u][k].ip \in User
            BY <2>2 DEF Contato
        <3>2. digitados[u] + 1 \in Nat
            OBVIOUS
        <3>. QED  BY <3>1, <3>2
    <2>4. [tipo |-> "MSG_TXT", nome |-> contatos[u][k].name,
           ip |-> contatos[u][k].ip, txt |-> digitados[u] + 1] \in Comando
        BY <2>3, ComandoTipo
    <2>. QED
        BY <1>2, <2>1, <2>4 DEF executeCommandSend
<1>3. CASE executeCommandList(u)
    <2>1. PICK k \in DOMAIN contatos[u] :
             comando' = [comando EXCEPT ![u] =
                   [tipo |-> "READ_MSGS", nome |-> contatos[u][k].name,
                    ip |-> contatos[u][k].ip, txt |-> 0]]
        BY <1>3 DEF executeCommandList
    <2>2. contatos[u][k] \in Contato
        OBVIOUS
    <2>3. contatos[u][k].name \in Nome /\ contatos[u][k].ip \in User
        BY <2>2 DEF Contato
    <2>4. comando' \in [User -> Comando]
        BY <2>1, <2>3, ComandoTipo
    <2>. QED
        BY <1>3, <2>4 DEF executeCommandList
<1>. QED
    BY <1>1, <1>2, <1>3 DEF Digitar

LEMMA ConfirmadoTypeOK ==
    ASSUME TypeOK, NEW u \in User, Confirmado(u)
    PROVE  /\ contatos' \in [User -> Seq(Contato)] /\ disco' \in [User -> Seq(Contato)]
           /\ \A v \in User : /\ Len(contatos'[v]) <= MaxContatos
                              /\ Len(disco'[v]) <= MaxContatos
           /\ arquivo' \in Pasta
<1>1. /\ comando[u].nome \in Nome /\ comando[u].ip \in User /\ comando[u].txt \in Nat
      /\ contatos[u] \in Seq(Contato) /\ Len(contatos[u]) <= MaxContatos
    BY DEF TypeOK, Comando
<1>2. CASE comando[u].tipo = "ADD_CONTACT"
    <2> DEFINE lista == AddContact(contatos[u], comando[u].nome, comando[u].ip)
    <2>1. lista \in Seq(Contato) /\ Len(lista) <= MaxContatos
        BY <1>1, AddContactTipo
    <2>2. /\ contatos' = [contatos EXCEPT ![u] = lista]
          /\ disco' = [disco EXCEPT ![u] = lista]
          /\ arquivo' = arquivo
        BY <1>2 DEF Confirmado
    <2> HIDE DEF lista
    <2>3. /\ contatos' \in [User -> Seq(Contato)]
          /\ \A v \in User : Len(contatos'[v]) <= MaxContatos
        BY <2>1, <2>2 DEF TypeOK
    <2>4. /\ disco' \in [User -> Seq(Contato)]
          /\ \A v \in User : Len(disco'[v]) <= MaxContatos
        BY <2>1, <2>2 DEF TypeOK
    <2>5. arquivo' \in Pasta
        BY <2>2 DEF TypeOK, Pasta
    <2>. QED
        BY <2>3, <2>4, <2>5
<1>3. CASE comando[u].tipo # "ADD_CONTACT"
    <2>1. arquivo[u][comando[u].nome] \in Arquivo
        BY <1>1 DEF TypeOK
    <2>2. Append(arquivo[u][comando[u].nome].sai, Novo(comando[u].txt)) \in Seq(Registro)
        BY <1>1, <2>1 DEF Novo, Registro, Arquivo
    <2>3. arquivo' = GravaSai(arquivo, u, comando[u].nome,
                         Append(arquivo[u][comando[u].nome].sai, Novo(comando[u].txt)))
        BY <1>3 DEF Confirmado, GravaSai
    <2>4. arquivo' \in Pasta
        BY <1>1, <2>2, <2>3, GravaPasta, PastaTipo
    <2>. QED
        BY <1>3, <2>4 DEF Confirmado, TypeOK
<1>. QED  BY <1>2, <1>3

LEMMA ClienteTypeOK ==
    ASSUME TypeOK, NEW u \in User, initClient(u)
    PROVE  TypeOK'
<1>1. /\ comando[u].nome \in Nome /\ comando[u].ip \in User
      /\ comando[u].txt \in Nat /\ comando[u].tipo \in Tipo \cup {"nada"}
    BY DEF TypeOK, Comando
<1>2. CASE MarcarLidas(u)
    <2>1. Lidas(arquivo[u][comando[u].nome].ent) \in Seq(Registro)
        BY <1>1, LidasTipo DEF TypeOK, Arquivo
    <2>2. arquivo' = GravaEnt(arquivo, u, comando[u].nome,
                         Lidas(arquivo[u][comando[u].nome].ent))
        BY <1>2 DEF MarcarLidas, GravaEnt
    <2>3. arquivo' \in Pasta
        BY <1>1, <2>1, <2>2, GravaPasta, PastaTipo
    <2>. QED
        BY <1>2, <2>3 DEF MarcarLidas, TypeOK, Pasta
<1>3. CASE Conectar(u)
    <2>1. Conexao(u) \in Conn
        BY <1>1 DEF Conexao, Conn, Msg
    <2>. QED
        <3>1. fila' = [fila EXCEPT ![comando[u].ip] = Append(@, Conexao(u))]
            BY <1>3 DEF Conectar
        <3>2. fila' \in [User -> Seq(Conn)]
            BY <1>1, <2>1, <3>1 DEF TypeOK
        <3>. QED
            BY <1>3, <3>2 DEF Conectar, TypeOK
<1>4. CASE ConectarFalha(u)
    BY <1>4, CaiTypeOK DEF ConectarFalha
<1>5. CASE Enviar(u)
    <2>1. fila[comando[u].ip] \in Seq(Conn)
        BY <1>1 DEF TypeOK
    <2>2. fila' = [fila EXCEPT ![comando[u].ip] = Enviadas(fila[comando[u].ip], u)]
        BY <1>5 DEF Enviar, Enviadas
    <2>3. Enviadas(fila[comando[u].ip], u) \in Seq(Conn)
        BY <2>1, EnviadasTipo
    <2>4. fila' \in [User -> Seq(Conn)]
        BY <2>2, <2>3 DEF TypeOK
    <2>. QED
        BY <1>5, <2>4 DEF Enviar, TypeOK
<1>6. CASE ReceberResposta(u)
    <2>1. /\ pc' \in [User -> {"ocioso", "marcar", "conectar", "enviar", "esperar", "girando"}]
          /\ resposta' \in [User -> {"nenhuma", "RET_MSG_OK", "RET_MSG_FAIL", "perdida"}]
        BY <1>6 DEF ReceberResposta, TypeOK
    <2>2. CASE Confirmado(u)
        BY <1>6, <2>1, <2>2, ConfirmadoTypeOK DEF ReceberResposta, TypeOK, Pasta
    <2>3. CASE UNCHANGED <<contatos, disco, arquivo>>
        BY <1>6, <2>1, <2>3 DEF ReceberResposta, TypeOK
    <2>. QED
        BY <1>6, <2>2, <2>3 DEF ReceberResposta
<1>. QED
    BY <1>2, <1>3, <1>4, <1>5, <1>6 DEF initClient

LEMMA ServidorTypeOK ==
    ASSUME TypeOK, NEW v \in User, serverThread(v)
    PROVE  TypeOK'
<1>1. CASE TratarLeituraFalha(v)
    BY <1>1, CaiTypeOK DEF TratarLeituraFalha
<1>2. ASSUME NEW tipo, Receber(v, tipo)
      PROVE  /\ fila' \in [User -> Seq(Conn)] /\ ultima' \in [User -> Msg]
             /\ Atendida(v).ip \in User /\ Mensagem(v) \in Msg
             /\ Mensagem(v).from \in User /\ Mensagem(v).txt \in Nat
             /\ User \subseteq Nome
    <2>1. fila[v] \in Seq(Conn) /\ fila[v] # <<>> /\ ultima[v] \in Msg
        BY <1>2 DEF Receber, TypeOK
    <2>2. Atendida(v) \in Conn /\ Tail(fila[v]) \in Seq(Conn)
        BY <2>1 DEF Atendida
    <2>3. Mensagem(v) \in Msg
        BY <2>1, <2>2 DEF Mensagem, Conn
    <2>. QED
        BY <1>2, <2>1, <2>2, <2>3 DEF Receber, TypeOK, Conn, Msg, Nome
<1>3. ASSUME NEW r \in {"RET_MSG_OK", "RET_MSG_FAIL"}, Responder(v, r),
             Atendida(v).ip \in User
      PROVE  resposta' \in [User -> {"nenhuma", "RET_MSG_OK", "RET_MSG_FAIL", "perdida"}]
    BY <1>3 DEF Responder, TypeOK
<1>4. CASE TratarTexto(v)
    <2>1. Receber(v, "MSG_TXT")
        BY <1>4 DEF TratarTexto
    <2>2. resposta' \in [User -> {"nenhuma", "RET_MSG_OK", "RET_MSG_FAIL", "perdida"}]
        BY <1>2, <1>3, <1>4, <2>1 DEF TratarTexto
    <2>3. arquivo[v][Mensagem(v).from] \in Arquivo
        BY <1>2, <2>1 DEF TypeOK
    <2> DEFINE regs == Append(arquivo[v][Mensagem(v).from].ent, Novo(Mensagem(v).txt))
    <2>4. regs \in Seq(Registro)
        BY <1>2, <2>1, <2>3 DEF Novo, Registro, Arquivo
    <2>5. \/ arquivo' = arquivo
          \/ arquivo' = GravaEnt(arquivo, v, Mensagem(v).from, regs)
        BY <1>4 DEF TratarTexto, GravaEnt
    <2> HIDE DEF regs
    <2>6. arquivo' \in Pasta
        BY <1>2, <2>1, <2>4, <2>5, GravaPasta, PastaTipo
    <2>. QED
        BY <1>2, <1>4, <2>1, <2>2, <2>6 DEF TratarTexto, TypeOK, Pasta
<1>5. CASE TratarInsercao(v)
    <2>1. Receber(v, "ADD_CONTACT")
        BY <1>5 DEF TratarInsercao
    <2>2. resposta' \in [User -> {"nenhuma", "RET_MSG_OK", "RET_MSG_FAIL", "perdida"}]
        BY <1>2, <1>3, <1>5, <2>1 DEF TratarInsercao
    <2> DEFINE lista == AddContact(contatos[v], Mensagem(v).from, Atendida(v).ip)
    <2>3. lista \in Seq(Contato) /\ Len(lista) <= MaxContatos
        BY <1>2, <2>1, AddContactTipo DEF TypeOK
    <2>4. \/ contatos' = [contatos EXCEPT ![v] = lista] /\ disco' = [disco EXCEPT ![v] = lista]
          \/ UNCHANGED <<contatos, disco>>
        BY <1>5 DEF TratarInsercao
    <2> HIDE DEF lista
    <2>5. /\ contatos' \in [User -> Seq(Contato)] /\ disco' \in [User -> Seq(Contato)]
          /\ \A w \in User : Len(contatos'[w]) <= MaxContatos /\ Len(disco'[w]) <= MaxContatos
        <3>1. /\ contatos \in [User -> Seq(Contato)] /\ disco \in [User -> Seq(Contato)]
              /\ \A w \in User : Len(contatos[w]) <= MaxContatos /\ Len(disco[w]) <= MaxContatos
            BY DEF TypeOK
        <3>2. /\ contatos' \in [User -> Seq(Contato)]
              /\ \A w \in User : Len(contatos'[w]) <= MaxContatos
            BY <2>3, <2>4, <3>1
        <3>3. /\ disco' \in [User -> Seq(Contato)]
              /\ \A w \in User : Len(disco'[w]) <= MaxContatos
            BY <2>3, <2>4, <3>1
        <3>. QED
            BY <3>2, <3>3
    <2>. QED
        BY <1>2, <1>5, <2>1, <2>2, <2>5 DEF TratarInsercao, TypeOK
<1>6. CASE TratarLeitura(v)
    <2>1. Receber(v, "READ_MSGS")
        BY <1>6 DEF TratarLeitura
    <2>2. arquivo[v][Mensagem(v).from] \in Arquivo
        BY <1>2, <2>1 DEF TypeOK
    <2>3. Lidas(arquivo[v][Mensagem(v).from].sai) \in Seq(Registro)
        BY <2>2, LidasTipo DEF Arquivo
    <2>4. \/ arquivo' = arquivo
          \/ arquivo' = GravaSai(arquivo, v, Mensagem(v).from,
                                 Lidas(arquivo[v][Mensagem(v).from].sai))
        BY <1>6 DEF TratarLeitura, GravaSai
    <2>5. arquivo' \in Pasta
        BY <1>2, <2>1, <2>3, <2>4, GravaPasta, PastaTipo
    <2>. QED
        BY <1>2, <1>6, <2>1, <2>5 DEF TratarLeitura, TypeOK, Pasta
<1>7. CASE TratarNada(v)
    BY <1>2, <1>7 DEF TratarNada, TypeOK
<1>. QED
    BY <1>1, <1>4, <1>5, <1>6, <1>7 DEF serverThread

LEMMA NextTypeOK == TypeOK /\ [Next]_vars => TypeOK'
<1>. SUFFICES ASSUME TypeOK, [Next]_vars PROVE TypeOK'
    OBVIOUS
<1>1. ASSUME NEW u \in User, Matar(u) PROVE TypeOK'
    BY <1>1, CaiTypeOK DEF Matar
<1>2. ASSUME NEW u \in User, Login(u) PROVE TypeOK'
    BY <1>2 DEF Login, TypeOK, SemMensagem, Msg
<1>3. CASE UNCHANGED vars
    BY <1>3 DEF vars, TypeOK
<1>. QED
    BY <1>1, <1>2, <1>3, DigitarTypeOK, ClienteTypeOK, ServidorTypeOK DEF Next

\* Every variable keeps its type and no list of contacts outgrows its array,
\* for any users, names and bounds, deaths and restarts included.
THEOREM TypeCorrect == Spec => []TypeOK
BY InitTypeOK, NextTypeOK, PTL DEF Spec

-----------------------------------------------------------------------------
(***************************************************************************)
(* Delivery.  While no process dies, a step keeps the parts of IInv.       *)
(***************************************************************************)
Bom == TypeOK /\ NomesVerdadeiros /\ SemQueda /\ Ligacoes /\ Nomes /\ Arquivos

\* The command of u has no pending connection.
SemPendente(u) ==
    \A v \in User : \A k \in DOMAIN fila[v] : Pendente(fila[v][k]) => fila[v][k].ip # u

LEMMA ConnTipo ==
    ASSUME TypeOK, NEW v \in User, NEW k \in DOMAIN fila[v]
    PROVE  /\ fila[v][k] \in Conn /\ fila[v][k].ip \in User
           /\ fila[v][k].msg.from \in User /\ fila[v][k].msg.txt \in Nat
<1>1. fila[v] \in Seq(Conn)
    BY DEF TypeOK
<1>2. fila[v][k] \in Conn
    BY <1>1
<1>. QED
    BY <1>2 DEF Conn, Msg

\* A client that has not connected yet, or has its answer, has nothing pending.
LEMMA NadaPendente ==
    ASSUME Bom, NEW u \in User,
           pc[u] \notin {"enviar", "esperar"} \/ resposta[u] # "nenhuma"
    PROVE  SemPendente(u)
<1>. SUFFICES ASSUME NEW v \in User, NEW k \in DOMAIN fila[v], Pendente(fila[v][k]),
                     fila[v][k].ip = u
              PROVE  FALSE
    BY DEF SemPendente
<1>1. /\ pc[u] = IF fila[v][k].estado = "aberta" THEN "enviar" ELSE "esperar"
      /\ resposta[u] = "nenhuma"
    BY DEF Bom, Ligacoes
<1>. QED
    BY <1>1

\* Such a client may change its command and move on.
LEMMA ClienteLigacoes ==
    ASSUME Bom, NEW u \in User, SemPendente(u), fila' = fila,
           \A w \in User \ {u} : /\ comando'[w] = comando[w] /\ pc'[w] = pc[w]
                                /\ resposta'[w] = resposta[w],
           resposta'[u] = "nenhuma"
    PROVE  Ligacoes'
<1>1. ASSUME NEW v \in User, NEW k \in DOMAIN fila[v]
      PROVE  LET c == fila[v][k] IN
             /\ c.msg.from = c.ip
             /\ Pendente(c) =>
                /\ comando'[c.ip].ip = v
                /\ c.msg.tipo = comando'[c.ip].tipo /\ c.msg.txt = comando'[c.ip].txt
                /\ pc'[c.ip] = IF c.estado = "aberta" THEN "enviar" ELSE "esperar"
                /\ resposta'[c.ip] = "nenhuma"
    BY ConnTipo DEF Bom, Ligacoes, SemPendente
<1>2. \A w \in User : resposta'[w] # "nenhuma" => pc'[w] = "esperar"
    BY DEF Bom, Ligacoes
<1>. QED
    BY <1>1, <1>2 DEF Bom, Ligacoes, Pendente

\* Texts that are stored stay as they are, and so does who knows of them.
LEMMA MesmosArquivos ==
    ASSUME Bom, NEW u \in User, arquivo' = arquivo,
           \A w \in User \ {u} : /\ comando'[w] = comando[w] /\ pc'[w] = pc[w]
                                /\ resposta'[w] = resposta[w],
           \A v \in User : ~ Chegou(u, v) /\ ~ Chegou(u, v)'
    PROVE  Arquivos'
<1>. SUFFICES ASSUME NEW w \in User, NEW v \in User
              PROVE  Iguais(arquivo[w][v].sai, arquivo[v][w].ent, w, v)'
    BY DEF Arquivos
<1>1. Iguais(arquivo[w][v].sai, arquivo[v][w].ent, w, v)
    BY DEF Bom, Arquivos
<1>2. CASE w = u
    BY <1>1, <1>2 DEF Iguais
<1>3. CASE w # u
    BY <1>1, <1>3 DEF Iguais, Chegou
<1>. QED  BY <1>2, <1>3

\* #i, #s and #l: a command begins.
LEMMA DigitarBom ==
    ASSUME Bom, NEW u \in User, Digitar(u)
    PROVE  SemQueda' /\ Ligacoes' /\ Nomes' /\ Arquivos'
<1>1. /\ pc[u] = "ocioso" /\ pc'[u] \in {"conectar", "marcar"}
      /\ resposta' = resposta /\ fila' = fila /\ arquivo' = arquivo
      /\ vivo' = vivo /\ contatos' = contatos
      /\ pc' = [pc EXCEPT ![u] = pc'[u]] /\ comando' = [comando EXCEPT ![u] = comando'[u]]
    BY DEF Digitar, executeCommandInsertion, executeCommandSend, executeCommandList,
           Livre, Comecar, Bom, TypeOK
<1>2. resposta[u] = "nenhuma"
    BY <1>1 DEF Bom, Ligacoes
<1>3. comando'[u].nome = comando'[u].ip
    <2>1. CASE executeCommandInsertion(u)
        <3>1. PICK a \in Agenda : Comecar(u, "ADD_CONTACT", a[2], a[3], 0)
            BY <2>1 DEF executeCommandInsertion
        <3>2. comando'[u] = [tipo |-> "ADD_CONTACT", nome |-> a[2], ip |-> a[3], txt |-> 0]
            BY <3>1 DEF Comecar, Bom, TypeOK
        <3>. QED
            BY <3>2 DEF Bom, NomesVerdadeiros
    <2>2. CASE executeCommandSend(u)
        <3>1. PICK k \in DOMAIN contatos[u] :
                 Comecar(u, "MSG_TXT", contatos[u][k].name, contatos[u][k].ip,
                         digitados[u] + 1)
            BY <2>2 DEF executeCommandSend
        <3>2. comando'[u] = [tipo |-> "MSG_TXT", nome |-> contatos[u][k].name,
                             ip |-> contatos[u][k].ip, txt |-> digitados[u] + 1]
            BY <3>1 DEF Comecar, Bom, TypeOK
        <3>. QED
            BY <3>2 DEF Bom, Nomes
    <2>3. CASE executeCommandList(u)
        <3>1. PICK k \in DOMAIN contatos[u] :
                 comando' = [comando EXCEPT ![u] =
                   [tipo |-> "READ_MSGS", nome |-> contatos[u][k].name,
                    ip |-> contatos[u][k].ip, txt |-> 0]]
            BY <2>3 DEF executeCommandList
        <3>2. comando'[u] = [tipo |-> "READ_MSGS", nome |-> contatos[u][k].name,
                             ip |-> contatos[u][k].ip, txt |-> 0]
            BY <3>1 DEF Bom, TypeOK
        <3>. QED
            BY <3>2 DEF Bom, Nomes
    <2>. QED
        BY <2>1, <2>2, <2>3 DEF Digitar
<1>4. /\ \A w \in User \ {u} : /\ comando'[w] = comando[w] /\ pc'[w] = pc[w]
                               /\ resposta'[w] = resposta[w]
      /\ \A v \in User : ~ Chegou(u, v) /\ ~ Chegou(u, v)'
    BY <1>1, <1>2 DEF Bom, TypeOK, Chegou
<1>5. SemQueda'
    BY <1>1, <1>4 DEF Bom, SemQueda
<1>6. Ligacoes'
    BY <1>1, <1>2, <1>4, NadaPendente, ClienteLigacoes
<1>7. Nomes'
    BY <1>1, <1>3, <1>4 DEF Bom, Nomes
<1>8. Arquivos'
    BY <1>1, <1>4, MesmosArquivos
<1>. QED
    BY <1>5, <1>6, <1>7, <1>8

LEMMA UserNome == User \subseteq Nome
BY DEF Nome

LEMMA ArquivoTipo ==
    ASSUME TypeOK, NEW u \in User, NEW n \in Nome
    PROVE  arquivo[u][n].sai \in Seq(Registro) /\ arquivo[u][n].ent \in Seq(Registro)
BY DEF TypeOK, Arquivo

LEMMA GravaUser ==
    ASSUME TypeOK, NEW u \in User, NEW n \in Nome, NEW s \in Seq(Registro),
           NEW x \in User, NEW y \in User
    PROVE  /\ GravaSai(arquivo, u, n, s)[x][y].ent = arquivo[x][y].ent
           /\ GravaEnt(arquivo, u, n, s)[x][y].sai = arquivo[x][y].sai
           /\ GravaSai(arquivo, u, n, s)[x][y].sai =
                 IF x = u /\ y = n THEN s ELSE arquivo[x][y].sai
           /\ GravaEnt(arquivo, u, n, s)[x][y].ent =
                 IF x = u /\ y = n THEN s ELSE arquivo[x][y].ent
BY GravaTipo, PastaTipo, UserNome

\* r and s hold the same texts, whichever are marked as read.
Mesmos(r, s) ==
    Len(r) = Len(s) /\ DOMAIN r = DOMAIN s /\ \A k \in DOMAIN r : r[k].txt = s[k].txt

LEMMA IguaisMesmos ==
    ASSUME NEW u \in User, NEW v \in User,
           arquivo[u][v].sai \in Seq(Registro), arquivo[v][u].ent \in Seq(Registro),
           Iguais(arquivo[u][v].sai, arquivo[v][u].ent, u, v),
           Mesmos(arquivo[u][v].sai, arquivo'[u][v].sai),
           Mesmos(arquivo[v][u].ent, arquivo'[v][u].ent),
           Chegou(u, v)' <=> Chegou(u, v), comando'[u] = comando[u]
    PROVE  Iguais(arquivo[u][v].sai, arquivo[v][u].ent, u, v)'
<1> DEFINE s == arquivo[u][v].sai
           r == arquivo[v][u].ent
<1>1. Chegou(u, v) => Len(r) \in DOMAIN r
    BY DEF Iguais
<1>. QED
    BY <1>1 DEF Iguais, Mesmos

LEMMA AppendTipo ==
    ASSUME NEW s \in Seq(Registro), NEW e \in Registro
    PROVE  /\ Append(s, e) \in Seq(Registro) /\ Len(Append(s, e)) = Len(s) + 1
           /\ \A k \in DOMAIN s : Append(s, e)[k] = s[k]
           /\ Append(s, e)[Len(Append(s, e))] = e
           /\ DOMAIN Append(s, e) = DOMAIN s \cup {Len(Append(s, e))}
OBVIOUS

\* A contact stored under its address leaves the names addresses.
LEMMA AddContactNomes ==
    ASSUME NEW lista \in Seq(Contato), NEW ip \in User,
           \A k \in DOMAIN lista : lista[k].name = lista[k].ip
    PROVE  \A k \in DOMAIN AddContact(lista, ip, ip) :
              AddContact(lista, ip, ip)[k].name = AddContact(lista, ip, ip)[k].ip
<1> DEFINE c == [name |-> ip, ip |-> ip]
<1>1. c \in Contato /\ c.name = c.ip
    BY DEF Contato, Nome
<1> HIDE DEF c
<1>2. \A k \in DOMAIN Append(lista, c) : Append(lista, c)[k].name = Append(lista, c)[k].ip
    BY <1>1
<1>. QED
    BY <1>2 DEF AddContact, c

\* Marking received records as read changes no text.
LEMMA MarcarLidasBom ==
    ASSUME Bom, NEW u \in User, MarcarLidas(u)
    PROVE  SemQueda' /\ Ligacoes' /\ Nomes' /\ Arquivos'
<1>1. /\ pc[u] = "marcar" /\ pc' = [pc EXCEPT ![u] = "conectar"]
      /\ resposta' = resposta /\ fila' = fila /\ comando' = comando
      /\ vivo' = vivo /\ contatos' = contatos
    BY DEF MarcarLidas
<1>2. resposta[u] = "nenhuma"
    BY <1>1 DEF Bom, Ligacoes
<1>3. SemQueda' /\ Nomes'
    BY <1>1 DEF Bom, SemQueda, Nomes, TypeOK
<1>4. Ligacoes'
    BY <1>1, <1>2, NadaPendente, ClienteLigacoes DEF Bom, TypeOK
<1>5. comando[u].nome \in Nome
    BY DEF Bom, TypeOK, Comando
<1> DEFINE regs == arquivo[u][comando[u].nome].ent
           novos == Lidas(regs)
<1>6. /\ regs \in Seq(Registro)
      /\ \A w \in User : comando[u].nome = w => regs = arquivo[u][w].ent
    BY <1>5, ArquivoTipo DEF Bom
<1>7. arquivo' = GravaEnt(arquivo, u, comando[u].nome, novos)
    BY DEF MarcarLidas, GravaEnt
<1>8. novos \in Seq(Registro) /\ Mesmos(regs, novos)
    BY <1>6, LidasTipo DEF Mesmos
<1> HIDE DEF regs, novos
<1>9. Arquivos'
    <2>. SUFFICES ASSUME NEW w \in User, NEW v \in User
                  PROVE  Iguais(arquivo[w][v].sai, arquivo[v][w].ent, w, v)'
        BY DEF Arquivos
    <2>1. Iguais(arquivo[w][v].sai, arquivo[v][w].ent, w, v)
        BY DEF Bom, Arquivos
    <2>2. Chegou(w, v)' <=> Chegou(w, v)
        BY <1>1 DEF Chegou, Bom, TypeOK
    <2>3. /\ arquivo'[w][v].sai = arquivo[w][v].sai
          /\ arquivo'[v][w].ent = IF v = u /\ w = comando[u].nome
                                 THEN novos ELSE arquivo[v][w].ent
        BY <1>5, <1>7, <1>8, GravaUser, UserNome DEF Bom
    <2>4. Mesmos(arquivo[v][w].ent, arquivo'[v][w].ent)
        BY <1>6, <1>8, <2>3 DEF Mesmos
    <2>5. Mesmos(arquivo[w][v].sai, arquivo'[w][v].sai)
        BY <2>3 DEF Mesmos
    <2>. QED
        BY <1>1, <2>1, <2>2, <2>4, <2>5, ArquivoTipo, UserNome, IguaisMesmos DEF Bom
<1>. QED
    BY <1>3, <1>4, <1>9

\* The client connects: its command has now one pending connection.
LEMMA ConectarBom ==
    ASSUME Bom, NEW u \in User, Conectar(u)
    PROVE  SemQueda' /\ Ligacoes' /\ Nomes' /\ Arquivos'
<1> DEFINE d == comando[u].ip
           c == Conexao(u)
<1>1. /\ pc[u] = "conectar" /\ pc' = [pc EXCEPT ![u] = "enviar"]
      /\ resposta' = resposta /\ comando' = comando /\ arquivo' = arquivo
      /\ vivo' = vivo /\ contatos' = contatos
      /\ fila' = [fila EXCEPT ![d] = Append(fila[d], c)]
    BY DEF Conectar
<1>2. /\ c.ip = u /\ c.estado = "aberta" /\ c.msg.from = u
      /\ c.msg.tipo = comando[u].tipo /\ c.msg.txt = comando[u].txt
      /\ d \in User /\ fila[d] \in Seq(Conn) /\ c \in Conn
    BY DEF Conexao, Bom, TypeOK, Comando, Conn, Msg
<1>3. resposta[u] = "nenhuma" /\ SemPendente(u)
    BY <1>1, NadaPendente DEF Bom, Ligacoes
<1> HIDE DEF c, d
<1>4. ASSUME NEW w \in User, NEW k \in DOMAIN fila'[w]
      PROVE  \/ k \in DOMAIN fila[w] /\ fila'[w][k] = fila[w][k]
             \/ k \notin DOMAIN fila[w] /\ w = d /\ k = Len(fila[d]) + 1 /\ fila'[w][k] = c
    BY <1>1, <1>2 DEF Bom, TypeOK
<1>5. \A w \in User \ {u} : pc'[w] = pc[w]
    BY <1>1 DEF Bom, TypeOK
<1>6. pc'[u] = "enviar"
    BY <1>1 DEF Bom, TypeOK
<1>7. SemQueda'
    <2>1. \A w \in User : \A k \in DOMAIN fila'[w] : fila'[w][k].estado \in {"aberta", "enviada"}
        BY <1>2, <1>4 DEF Bom, SemQueda
    <2>. QED
        BY <1>1, <1>5, <1>6, <2>1 DEF Bom, SemQueda
<1>8. Nomes'
    BY <1>1 DEF Bom, Nomes
<1>9. Ligacoes'
    <2>1. ASSUME NEW w \in User, NEW k \in DOMAIN fila'[w]
          PROVE  LET e == fila'[w][k] IN
                 /\ e.msg.from = e.ip
                 /\ Pendente(e) =>
                    /\ comando'[e.ip].ip = w
                    /\ e.msg.tipo = comando'[e.ip].tipo /\ e.msg.txt = comando'[e.ip].txt
                    /\ pc'[e.ip] = IF e.estado = "aberta" THEN "enviar" ELSE "esperar"
                    /\ resposta'[e.ip] = "nenhuma"
        <3>1. CASE k \in DOMAIN fila[w] /\ fila'[w][k] = fila[w][k]
            <4>1. Pendente(fila[w][k]) => fila[w][k].ip \in User \ {u}
                BY <1>3, <3>1, ConnTipo DEF Bom, SemPendente
            <4>. QED
                <5>1. LET o == fila[w][k] IN
                      /\ o.msg.from = o.ip
                      /\ Pendente(o) =>
                         /\ comando[o.ip].ip = w
                         /\ o.msg.tipo = comando[o.ip].tipo /\ o.msg.txt = comando[o.ip].txt
                         /\ pc[o.ip] = IF o.estado = "aberta" THEN "enviar" ELSE "esperar"
                         /\ resposta[o.ip] = "nenhuma"
                    BY <3>1 DEF Bom, Ligacoes
                <5>. QED
                    BY <1>1, <1>5, <3>1, <4>1, <5>1
        <3>2. CASE w = d /\ fila'[w][k] = c
            BY <1>1, <1>2, <1>3, <1>6, <3>2 DEF d
        <3>. QED  BY <1>4, <3>1, <3>2
    <2>2. ASSUME NEW w \in User, NEW j \in DOMAIN fila'[w], NEW k \in DOMAIN fila'[w],
                 Pendente(fila'[w][j]), Pendente(fila'[w][k]), fila'[w][j].ip = fila'[w][k].ip
          PROVE  j = k
        BY <1>2, <1>3, <1>4, <2>2 DEF Bom, Ligacoes, SemPendente
    <2>3. \A w \in User : resposta'[w] # "nenhuma" => pc'[w] = "esperar"
        BY <1>1, <1>3, <1>5 DEF Bom, Ligacoes
    <2>. QED
        BY <2>1, <2>2, <2>3 DEF Ligacoes, Pendente
<1>10. Arquivos'
    <2>1. \A v \in User : ~ Chegou(u, v) /\ ~ Chegou(u, v)'
        BY <1>1, <1>6 DEF Chegou
    <2>. QED
        BY <1>1, <1>5, <2>1, MesmosArquivos
<1>. QED
    BY <1>7, <1>8, <1>9, <1>10

\* The client sends: its connection stays pending if the command has an answer.
LEMMA EnviarBom ==
    ASSUME Bom, NEW u \in User, Enviar(u)
    PROVE  SemQueda' /\ Ligacoes' /\ Nomes' /\ Arquivos'
<1> DEFINE d == comando[u].ip
<1>1. /\ pc[u] = "enviar"
      /\ pc' = [pc EXCEPT ![u] = IF comando[u].tipo = "READ_MSGS" THEN "ocioso" ELSE "esperar"]
      /\ comando' = comando /\ arquivo' = arquivo
      /\ vivo' = vivo /\ contatos' = contatos
      /\ fila' = [fila EXCEPT ![d] = Enviadas(fila[d], u)]
    BY DEF Enviar, Enviadas
<1>2. d \in User /\ fila[d] \in Seq(Conn)
    BY DEF Bom, TypeOK, Comando
<1>3. resposta[u] = "nenhuma"
    BY <1>1 DEF Bom, Ligacoes
<1>4. resposta' = resposta
    BY <1>3 DEF Enviar, Bom, TypeOK
<1> HIDE DEF d
<1>5. ASSUME NEW w \in User
      PROVE  /\ DOMAIN fila'[w] = DOMAIN fila[w]
             /\ \A k \in DOMAIN fila[w] :
                   /\ fila'[w][k].ip = fila[w][k].ip /\ fila'[w][k].msg = fila[w][k].msg
                   /\ fila'[w][k].estado =
                         IF w = d /\ fila[w][k].ip = u /\ fila[w][k].estado = "aberta"
                         THEN "enviada" ELSE fila[w][k].estado
    <2>1. CASE w = d
        <3>1. fila'[w] = Enviadas(fila[w], u) /\ fila[w] \in Seq(Conn)
            BY <1>1, <1>2, <2>1 DEF Bom, TypeOK
        <3>. QED
            BY <2>1, <3>1, EnviadasTipo
    <2>2. CASE w # d
        <3>1. fila'[w] = fila[w]
            BY <1>1, <1>2, <2>2 DEF Bom, TypeOK
        <3>. QED
            BY <2>2, <3>1
    <2>. QED  BY <2>1, <2>2
<1>6. /\ \A w \in User \ {u} : pc'[w] = pc[w]
      /\ pc'[u] = IF comando[u].tipo = "READ_MSGS" THEN "ocioso" ELSE "esperar"
    BY <1>1 DEF Bom, TypeOK
<1>7. SemQueda'
    <2>1. \A w \in User : \A k \in DOMAIN fila'[w] : fila'[w][k].estado \in {"aberta", "enviada"}
        BY <1>5 DEF Bom, SemQueda
    <2>. QED
        BY <1>1, <1>4, <1>6, <2>1 DEF Bom, SemQueda
<1>8. Nomes'
    BY <1>1 DEF Bom, Nomes
<1>9. ASSUME NEW w \in User, NEW k \in DOMAIN fila[w], Pendente(fila'[w][k])
      PROVE  Pendente(fila[w][k])
    BY <1>5, <1>9 DEF Pendente
<1>10. Ligacoes'
    <2>1. ASSUME NEW w \in User, NEW k \in DOMAIN fila'[w]
          PROVE  LET e == fila'[w][k] IN
                 /\ e.msg.from = e.ip
                 /\ Pendente(e) =>
                    /\ comando'[e.ip].ip = w
                    /\ e.msg.tipo = comando'[e.ip].tipo /\ e.msg.txt = comando'[e.ip].txt
                    /\ pc'[e.ip] = IF e.estado = "aberta" THEN "enviar" ELSE "esperar"
                    /\ resposta'[e.ip] = "nenhuma"
        <3> DEFINE e == fila'[w][k]
                   o == fila[w][k]
        <3>1. /\ k \in DOMAIN fila[w] /\ e.ip = o.ip /\ e.msg = o.msg
              /\ e.estado = IF w = d /\ o.ip = u /\ o.estado = "aberta"
                            THEN "enviada" ELSE o.estado
            BY <1>5
        <3>2. o.msg.from = o.ip /\ o.ip \in User
            BY <3>1, ConnTipo DEF Bom, Ligacoes
        <3>3. ASSUME Pendente(e)
              PROVE  /\ comando[o.ip].ip = w /\ o.msg.tipo = comando[o.ip].tipo
                     /\ o.msg.txt = comando[o.ip].txt /\ resposta[o.ip] = "nenhuma"
                     /\ pc[o.ip] = IF o.estado = "aberta" THEN "enviar" ELSE "esperar"
            <4>1. Pendente(o)
                BY <1>9, <3>1, <3>3
            <4>. QED
                BY <3>1, <4>1 DEF Bom, Ligacoes
        <3>4. ASSUME Pendente(e)
              PROVE  pc'[e.ip] = IF e.estado = "aberta" THEN "enviar" ELSE "esperar"
            <4>1. CASE o.ip = u
                <5>1. o.estado = "aberta" /\ w = d
                    BY <1>1, <3>3, <3>4, <4>1 DEF d
                <5>2. e.estado = "enviada"
                    BY <3>1, <4>1, <5>1
                <5>3. comando[u].tipo # "READ_MSGS"
                    BY <3>1, <3>3, <3>4, <4>1, <5>2 DEF Pendente
                <5>. QED
                    BY <1>1, <1>6, <3>1, <4>1, <5>2, <5>3
            <4>2. CASE o.ip # u
                BY <1>6, <3>1, <3>2, <3>3, <3>4, <4>2
            <4>. QED  BY <4>1, <4>2
        <3> HIDE DEF e, o
        <3>. QED
            BY <1>1, <1>4, <3>1, <3>2, <3>3, <3>4 DEF e
    <2>2. ASSUME NEW w \in User, NEW j \in DOMAIN fila'[w], NEW k \in DOMAIN fila'[w],
                 Pendente(fila'[w][j]), Pendente(fila'[w][k]), fila'[w][j].ip = fila'[w][k].ip
          PROVE  j = k
        <3>1. /\ j \in DOMAIN fila[w] /\ k \in DOMAIN fila[w]
              /\ fila[w][j].ip = fila[w][k].ip
            BY <1>5, <2>2
        <3>2. Pendente(fila[w][j]) /\ Pendente(fila[w][k])
            BY <1>9, <2>2, <3>1
        <3>. QED
            BY <3>1, <3>2 DEF Bom, Ligacoes
    <2>3. \A w \in User : resposta'[w] # "nenhuma" => pc'[w] = "esperar"
        BY <1>3, <1>4, <1>6 DEF Bom, Ligacoes
    <2>. QED
        BY <2>1, <2>2, <2>3 DEF Ligacoes, Pendente
<1>11. Arquivos'
    <2>1. \A v \in User : ~ Chegou(u, v) /\ ~ Chegou(u, v)'
        BY <1>1, <1>3, <1>4 DEF Chegou
    <2>. QED
        BY <1>1, <1>4, <1>6, <2>1, MesmosArquivos
<1>. QED
    BY <1>7, <1>8, <1>10, <1>11

\* The answer arrives: a text that was stored is now in the file of the sender too.
LEMMA ReceberRespostaBom ==
    ASSUME Bom, NEW u \in User, ReceberResposta(u)
    PROVE  SemQueda' /\ Ligacoes' /\ Nomes' /\ Arquivos'
<1>1. /\ pc[u] = "esperar" /\ resposta[u] \in {"RET_MSG_OK", "RET_MSG_FAIL"}
      /\ resposta' = [resposta EXCEPT ![u] = "nenhuma"]
      /\ comando' = comando /\ vivo' = vivo /\ fila' = fila
    BY DEF ReceberResposta, Bom, SemQueda, TypeOK
<1>2. /\ pc' = [pc EXCEPT ![u] = "ocioso"]
      /\ \/ resposta[u] = "RET_MSG_OK" /\ Confirmado(u)
         \/ resposta[u] = "RET_MSG_FAIL" /\ UNCHANGED <<contatos, disco, arquivo>>
    BY <1>1 DEF ReceberResposta
<1>3. /\ \A w \in User \ {u} : pc'[w] = pc[w] /\ resposta'[w] = resposta[w]
      /\ pc'[u] = "ocioso" /\ resposta'[u] = "nenhuma"
    BY <1>1, <1>2 DEF Bom, TypeOK
<1>4. SemQueda'
    BY <1>1, <1>3 DEF Bom, SemQueda
<1>5. Ligacoes'
    <2>1. SemPendente(u)
        BY <1>1, NadaPendente
    <2>. QED
        BY <1>1, <1>3, <2>1, ClienteLigacoes
<1>6. /\ comando[u].nome = comando[u].ip /\ comando[u].ip \in User
      /\ comando[u].nome \in Nome /\ comando[u].txt \in Nat
    BY DEF Bom, Nomes, TypeOK, Comando
<1>7. Nomes'
    <2>1. CASE contatos' = contatos
        BY <1>1, <2>1 DEF Bom, Nomes
    <2>2. CASE contatos' = [contatos EXCEPT ![u] =
                               AddContact(contatos[u], comando[u].nome, comando[u].ip)]
        <3>1. \A w \in User : contatos'[w] =
                 IF w = u THEN AddContact(contatos[u], comando[u].nome, comando[u].ip)
                 ELSE contatos[w]
            BY <2>2 DEF Bom, TypeOK
        <3>2. \A k \in DOMAIN contatos'[u] : contatos'[u][k].name = contatos'[u][k].ip
            <4>1. contatos[u] \in Seq(Contato)
                BY DEF Bom, TypeOK
            <4>2. \A k \in DOMAIN contatos[u] : contatos[u][k].name = contatos[u][k].ip
                BY DEF Bom, Nomes
            <4>3. contatos'[u] = AddContact(contatos[u], comando[u].ip, comando[u].ip)
                BY <1>6, <3>1
            <4>. QED
                BY <1>6, <4>1, <4>2, <4>3, AddContactNomes
        <3>. QED
            BY <1>1, <3>1, <3>2 DEF Bom, Nomes
    <2>. QED
        BY <1>2, <2>1, <2>2 DEF Confirmado
<1>8. Arquivos'
    <2>1. CASE ~ \E v \in User : Chegou(u, v)
        <3>1. arquivo' = arquivo
            BY <1>1, <1>2, <1>6, <2>1 DEF Confirmado, Chegou
        <3>2. \A v \in User : ~ Chegou(u, v) /\ ~ Chegou(u, v)'
            BY <1>3, <2>1 DEF Chegou
        <3>. QED
            BY <1>1, <1>3, <3>1, <3>2, MesmosArquivos
    <2>2. ASSUME NEW d \in User, Chegou(u, d)
          PROVE  Arquivos'
        <3> DEFINE regs == Append(arquivo[u][d].sai, Novo(comando[u].txt))
        <3>1. /\ comando[u].ip = d /\ comando[u].nome = d /\ d \in Nome
              /\ arquivo' = GravaSai(arquivo, u, d, regs)
            BY <1>2, <1>6, <2>2 DEF Chegou, Confirmado, GravaSai
        <3>2. arquivo[u][d].sai \in Seq(Registro) /\ arquivo[d][u].ent \in Seq(Registro)
            BY <3>1, UserNome, ArquivoTipo DEF Bom
        <3>3. Novo(comando[u].txt) \in Registro /\ Novo(comando[u].txt).txt = comando[u].txt
            BY <1>6 DEF Novo, Registro
        <3>4. /\ regs \in Seq(Registro) /\ Len(regs) = Len(arquivo[u][d].sai) + 1
              /\ \A k \in DOMAIN arquivo[u][d].sai : regs[k] = arquivo[u][d].sai[k]
              /\ regs[Len(regs)].txt = comando[u].txt
              /\ DOMAIN regs = DOMAIN arquivo[u][d].sai \cup {Len(regs)}
            BY <3>2, <3>3, AppendTipo
        <3> HIDE DEF regs
        <3>5. SUFFICES ASSUME NEW w \in User, NEW v \in User
                       PROVE  Iguais(arquivo[w][v].sai, arquivo[v][w].ent, w, v)'
            BY DEF Arquivos
        <3>6. Iguais(arquivo[w][v].sai, arquivo[v][w].ent, w, v)
            BY DEF Bom, Arquivos
        <3>7. /\ arquivo'[v][w].ent = arquivo[v][w].ent
              /\ arquivo'[w][v].sai = IF w = u /\ v = d THEN regs ELSE arquivo[w][v].sai
            BY <3>1, <3>4, GravaUser DEF Bom
        <3>8. CASE w = u /\ v = d
            <4>1. ~ Chegou(w, v)' /\ Chegou(w, v)
                BY <1>3, <2>2, <3>8 DEF Chegou
            <4>2. DOMAIN arquivo[d][u].ent = 1 .. Len(arquivo[d][u].ent)
                BY <3>2
            <4>3. Len(regs) \in DOMAIN arquivo[d][u].ent
                BY <3>2, <3>4, <3>6, <3>8, <4>1, <4>2 DEF Iguais
            <4>4. /\ Len(arquivo[d][u].ent) = Len(regs)
                  /\ arquivo[d][u].ent[Len(regs)].txt = regs[Len(regs)].txt
                BY <3>4, <3>6, <3>8, <4>1 DEF Iguais
            <4>5. \A k \in DOMAIN regs : /\ k \in DOMAIN arquivo[d][u].ent
                                         /\ arquivo[d][u].ent[k].txt = regs[k].txt
                BY <3>4, <3>6, <3>8, <4>3, <4>4 DEF Iguais
            <4>. QED
                BY <3>7, <3>8, <4>1, <4>4, <4>5 DEF Iguais
        <3>9. CASE ~ (w = u /\ v = d)
            <4>1. Chegou(w, v)' <=> Chegou(w, v)
                BY <1>1, <1>3, <3>1, <3>9 DEF Chegou
            <4>. QED
                BY <1>1, <3>6, <3>7, <3>9, <4>1 DEF Iguais
        <3>. QED  BY <3>8, <3>9
    <2>. QED  BY <2>1, <2>2
<1>. QED
    BY <1>4, <1>5, <1>7, <1>8

\* What the server takes is a message that was sent, from the contact it names.
LEMMA ReceberCabeca ==
    ASSUME Bom, NEW v \in User, NEW tipo, Receber(v, tipo)
    PROVE  /\ 1 \in DOMAIN fila[v] /\ Atendida(v) = fila[v][1]
           /\ Atendida(v).estado = "enviada" /\ Mensagem(v) = Atendida(v).msg
           /\ Mensagem(v).tipo = tipo /\ Mensagem(v).from = Atendida(v).ip
           /\ Atendida(v).ip \in User /\ Mensagem(v).txt \in Nat
<1>1. fila[v] \in Seq(Conn) /\ fila[v] # <<>>
    BY DEF Receber, Bom, TypeOK
<1>2. 1 \in DOMAIN fila[v] /\ Atendida(v) = fila[v][1]
    BY <1>1 DEF Atendida
<1>3. Atendida(v).estado = "enviada"
    BY <1>2 DEF Receber, Bom, SemQueda
<1>. QED
    BY <1>2, <1>3, ConnTipo DEF Mensagem, Receber, Bom, Ligacoes

\* Removing the oldest connection shifts those of that server by one.
Passo(w, v) == IF w = v THEN 1 ELSE 0

LEMMA ReceberCauda ==
    ASSUME Bom, NEW v \in User, NEW tipo, Receber(v, tipo),
           NEW w \in User, NEW k \in DOMAIN fila'[w]
    PROVE  /\ k \in Nat /\ k + Passo(w, v) \in DOMAIN fila[w]
           /\ fila'[w][k] = fila[w][k + Passo(w, v)]
           /\ w = v => k + Passo(w, v) # 1
<1>1. fila[w] \in Seq(Conn) /\ fila[v] \in Seq(Conn) /\ fila[v] # <<>>
    BY DEF Receber, Bom, TypeOK
<1>2. fila' = [fila EXCEPT ![v] = Tail(fila[v])]
    BY DEF Receber
<1>3. CASE w = v
    <2>1. fila'[w] = Tail(fila[w])
        BY <1>2, <1>3 DEF Bom, TypeOK
    <2>. QED
        BY <1>1, <1>3, <2>1 DEF Passo
<1>4. CASE w # v
    <2>1. fila'[w] = fila[w]
        BY <1>2, <1>4 DEF Bom, TypeOK
    <2>. QED
        BY <1>1, <1>4, <2>1 DEF Passo
<1>. QED  BY <1>3, <1>4

\* A message is handled and, if its client waits, answered.
LEMMA ServidorLigacoes ==
    ASSUME Bom, NEW v \in User, NEW tipo, Receber(v, tipo), vivo' = vivo,
           pc' = pc, comando' = comando,
           \/ resposta' = resposta
           \/ /\ tipo # "READ_MSGS"
              /\ \E r \in {"RET_MSG_OK", "RET_MSG_FAIL"} :
                    resposta' = [resposta EXCEPT ![Atendida(v).ip] = r]
    PROVE  SemQueda' /\ Ligacoes'
<1> DEFINE a == Atendida(v)
<1>1. /\ 1 \in DOMAIN fila[v] /\ a = fila[v][1] /\ a.estado = "enviada"
      /\ a.msg.tipo = tipo /\ a.ip \in User
    BY ReceberCabeca
<1>2. ASSUME tipo # "READ_MSGS"
      PROVE  Pendente(a) /\ pc[a.ip] = "esperar" /\ comando[a.ip].ip = v
    <2>1. Pendente(a)
        BY <1>1, <1>2 DEF Pendente
    <2>. QED
        BY <1>1, <2>1 DEF Bom, Ligacoes
<1> HIDE DEF a
<1>3. \A w \in User : \/ resposta'[w] = resposta[w]
                      \/ /\ w = a.ip /\ tipo # "READ_MSGS"
                         /\ resposta'[w] \in {"RET_MSG_OK", "RET_MSG_FAIL"}
    BY <1>1 DEF a, Bom, TypeOK
<1>4. SemQueda'
    <2>1. \A w \in User : vivo'[w] /\ resposta'[w] # "perdida" /\ pc'[w] # "girando"
        BY <1>3 DEF Bom, SemQueda
    <2>2. \A w \in User : \A k \in DOMAIN fila'[w] : fila'[w][k].estado \in {"aberta", "enviada"}
        BY ReceberCauda DEF Bom, SemQueda
    <2>. QED
        BY <2>1, <2>2 DEF SemQueda
<1>5. Ligacoes'
    <2>1. ASSUME NEW w \in User, NEW k \in DOMAIN fila'[w]
          PROVE  LET c == fila'[w][k] IN
                 /\ c.msg.from = c.ip
                 /\ Pendente(c) =>
                    /\ comando'[c.ip].ip = w
                    /\ c.msg.tipo = comando'[c.ip].tipo /\ c.msg.txt = comando'[c.ip].txt
                    /\ pc'[c.ip] = IF c.estado = "aberta" THEN "enviar" ELSE "esperar"
                    /\ resposta'[c.ip] = "nenhuma"
        <3> DEFINE j == k + Passo(w, v)
                   c == fila'[w][k]
        <3>1. j \in DOMAIN fila[w] /\ c = fila[w][j] /\ (w = v => j # 1)
            BY ReceberCauda
        <3>2. c.ip \in User
            BY <3>1, ConnTipo DEF Bom
        <3> HIDE DEF j, c
        <3>3. /\ c.msg.from = c.ip
              /\ Pendente(c) =>
                 /\ comando[c.ip].ip = w
                 /\ c.msg.tipo = comando[c.ip].tipo /\ c.msg.txt = comando[c.ip].txt
                 /\ pc[c.ip] = IF c.estado = "aberta" THEN "enviar" ELSE "esperar"
                 /\ resposta[c.ip] = "nenhuma"
            BY <3>1 DEF Bom, Ligacoes
        <3>4. ASSUME Pendente(c), tipo # "READ_MSGS" PROVE c.ip # a.ip
            <4>1. SUFFICES ASSUME c.ip = a.ip PROVE FALSE
                OBVIOUS
            <4>2. w = v
                BY <1>2, <3>3, <3>4, <4>1
            <4>. QED
                BY <1>1, <1>2, <3>1, <3>4, <4>1, <4>2 DEF Bom, Ligacoes
        <3>5. Pendente(c) => resposta'[c.ip] = resposta[c.ip]
            BY <1>3, <3>2, <3>4
        <3>. QED
            BY <3>3, <3>5 DEF c
    <2>2. ASSUME NEW w \in User, NEW j \in DOMAIN fila'[w], NEW k \in DOMAIN fila'[w],
                 Pendente(fila'[w][j]), Pendente(fila'[w][k]), fila'[w][j].ip = fila'[w][k].ip
          PROVE  j = k
        <3>1. /\ j + Passo(w, v) \in DOMAIN fila[w] /\ k + Passo(w, v) \in DOMAIN fila[w]
              /\ fila'[w][j] = fila[w][j + Passo(w, v)]
              /\ fila'[w][k] = fila[w][k + Passo(w, v)]
              /\ j \in Nat /\ k \in Nat
            BY ReceberCauda
        <3>2. j + Passo(w, v) = k + Passo(w, v)
            BY <2>2, <3>1 DEF Bom, Ligacoes
        <3>. QED
            BY <3>1, <3>2 DEF Passo
    <2>3. \A w \in User : resposta'[w] # "nenhuma" => pc'[w] = "esperar"
        BY <1>2, <1>3 DEF Bom, Ligacoes
    <2>. QED
        BY <2>1, <2>2, <2>3 DEF Ligacoes, Pendente
<1>. QED  BY <1>4, <1>5

\* A text is stored, and the sender is told of it in the same step.
LEMMA TratarTextoBom ==
    ASSUME Bom, NEW v \in User, TratarTexto(v)
    PROVE  SemQueda' /\ Ligacoes' /\ Nomes' /\ Arquivos'
<1>1. Receber(v, "MSG_TXT") /\ UNCHANGED <<vivo, contatos, pc, comando>>
    BY DEF TratarTexto
<1>. PICK u \in User : u = Mensagem(v).from
    BY <1>1, ReceberCabeca
<1> DEFINE novo == Novo(Mensagem(v).txt)
           regs == Append(arquivo[v][u].ent, novo)
<1>2. /\ 1 \in DOMAIN fila[v] /\ Atendida(v) = fila[v][1]
      /\ fila[v][1].estado = "enviada" /\ fila[v][1].msg.tipo = "MSG_TXT"
      /\ fila[v][1].ip = u /\ Mensagem(v) = fila[v][1].msg
      /\ u \in User /\ Mensagem(v).txt \in Nat
    BY <1>1, ReceberCabeca
<1>3. /\ pc[u] = "esperar" /\ resposta[u] = "nenhuma" /\ comando[u].ip = v
      /\ comando[u].tipo = "MSG_TXT" /\ comando[u].txt = Mensagem(v).txt
    <2>1. Pendente(fila[v][1])
        BY <1>2 DEF Pendente
    <2>. QED
        BY <1>2, <2>1 DEF Bom, Ligacoes
<1>4. \/ /\ resposta' = [resposta EXCEPT ![u] = "RET_MSG_OK"]
         /\ arquivo' = GravaEnt(arquivo, v, u, regs)
      \/ /\ resposta' = [resposta EXCEPT ![u] = "RET_MSG_FAIL"]
         /\ arquivo' = arquivo
    BY <1>2 DEF TratarTexto, Responder, GravaEnt
<1>5. novo \in Registro /\ novo.txt = Mensagem(v).txt
    BY <1>2 DEF Novo, Registro
<1>6. u \in Nome /\ arquivo[v][u].ent \in Seq(Registro) /\ arquivo[u][v].sai \in Seq(Registro)
    BY <1>2, UserNome, ArquivoTipo DEF Bom
<1>7. /\ regs \in Seq(Registro) /\ Len(regs) = Len(arquivo[v][u].ent) + 1
      /\ \A k \in DOMAIN arquivo[v][u].ent : regs[k] = arquivo[v][u].ent[k]
      /\ regs[Len(regs)].txt = Mensagem(v).txt
      /\ DOMAIN regs = DOMAIN arquivo[v][u].ent \cup {Len(regs)}
    BY <1>5, <1>6, AppendTipo
<1> HIDE DEF novo, regs
<1>8. SemQueda' /\ Ligacoes'
    BY <1>1, <1>2, <1>4, ServidorLigacoes
<1>9. Nomes'
    BY <1>1 DEF Bom, Nomes
<1>10. /\ \A w \in User \ {u} : resposta'[w] = resposta[w]
       /\ \/ resposta'[u] = "RET_MSG_OK" /\ arquivo' = GravaEnt(arquivo, v, u, regs)
          \/ resposta'[u] = "RET_MSG_FAIL" /\ arquivo' = arquivo
    BY <1>2, <1>4 DEF Bom, TypeOK
<1>11. \A d \in User : ~ Chegou(u, d)
    BY <1>3 DEF Chegou
<1>12. Arquivos'
    <2>1. CASE resposta'[u] = "RET_MSG_FAIL" /\ arquivo' = arquivo
        <3>1. \A d \in User : ~ Chegou(u, d)'
            BY <2>1 DEF Chegou
        <3>. QED
            BY <1>1, <1>2, <1>10, <1>11, <2>1, <3>1, MesmosArquivos
    <2>2. CASE resposta'[u] = "RET_MSG_OK" /\ arquivo' = GravaEnt(arquivo, v, u, regs)
        <3>1. SUFFICES ASSUME NEW w \in User, NEW d \in User
                       PROVE  Iguais(arquivo[w][d].sai, arquivo[d][w].ent, w, d)'
            BY DEF Arquivos
        <3>2. Iguais(arquivo[w][d].sai, arquivo[d][w].ent, w, d)
            BY DEF Bom, Arquivos
        <3>3. /\ arquivo'[w][d].sai = arquivo[w][d].sai
              /\ arquivo'[d][w].ent = IF d = v /\ w = u THEN regs ELSE arquivo[d][w].ent
            <4>1. TypeOK /\ u \in Nome /\ regs \in Seq(Registro)
                BY <1>6, <1>7 DEF Bom
            <4>2. /\ GravaEnt(arquivo, v, u, regs)[w][d].sai = arquivo[w][d].sai
                  /\ GravaEnt(arquivo, v, u, regs)[d][w].ent =
                        IF d = v /\ w = u THEN regs ELSE arquivo[d][w].ent
                BY <4>1, GravaUser
            <4>. QED
                BY <2>2, <4>2
        <3>4. CASE d = v /\ w = u
            <4>1. Chegou(u, v)' /\ ~ Chegou(u, v)
                BY <1>1, <1>3, <1>11, <2>2 DEF Chegou
            <4>2. /\ \A k \in DOMAIN arquivo[u][v].sai :
                        k \in DOMAIN regs /\ regs[k].txt = arquivo[u][v].sai[k].txt
                  /\ Len(regs) = Len(arquivo[u][v].sai) + 1
                BY <1>7, <3>2, <3>4, <4>1 DEF Iguais
            <4>3. /\ arquivo'[v][u].ent = regs /\ arquivo'[u][v].sai = arquivo[u][v].sai
                  /\ comando'[u].txt = Mensagem(v).txt
                BY <1>1, <1>3, <3>3, <3>4
            <4>4. regs[Len(regs)].txt = comando'[u].txt
                BY <1>7, <4>3
            <4>. QED
                BY <3>4, <4>1, <4>2, <4>3, <4>4 DEF Iguais
        <3>5. CASE ~ (d = v /\ w = u)
            <4>1. Chegou(w, d)' <=> Chegou(w, d)
                BY <1>1, <1>3, <1>10, <3>5 DEF Chegou
            <4>. QED
                BY <1>1, <3>2, <3>3, <3>5, <4>1 DEF Iguais
        <3>. QED  BY <3>4, <3>5
    <2>. QED  BY <1>10, <2>1, <2>2
<1>. QED
    BY <1>8, <1>9, <1>12

\* A user asks to be a contact: no file changes.
LEMMA TratarInsercaoBom ==
    ASSUME Bom, NEW v \in User, TratarInsercao(v)
    PROVE  SemQueda' /\ Ligacoes' /\ Nomes' /\ Arquivos'
<1>1. /\ Receber(v, "ADD_CONTACT")
      /\ vivo' = vivo /\ pc' = pc /\ comando' = comando /\ arquivo' = arquivo
    BY DEF TratarInsercao
<1>. PICK u \in User : u = Atendida(v).ip
    BY <1>1, ReceberCabeca
<1>2. /\ Atendida(v).estado = "enviada" /\ u \in User /\ Mensagem(v).from = u
      /\ 1 \in DOMAIN fila[v] /\ Atendida(v) = fila[v][1] /\ fila[v][1].msg.tipo = "ADD_CONTACT"
    BY <1>1, ReceberCabeca
<1>3. /\ \E r \in {"RET_MSG_OK", "RET_MSG_FAIL"} : resposta' = [resposta EXCEPT ![u] = r]
      /\ \/ contatos' = contatos
         \/ contatos' = [contatos EXCEPT ![v] = AddContact(contatos[v], u, u)]
    BY <1>2 DEF TratarInsercao, Responder
<1>4. comando[u].tipo = "ADD_CONTACT"
    <2>1. Pendente(fila[v][1])
        BY <1>2 DEF Pendente
    <2>. QED
        BY <1>2, <2>1 DEF Bom, Ligacoes
<1>5. SemQueda' /\ Ligacoes'
    BY <1>1, <1>3, ServidorLigacoes
<1>6. Nomes'
    <2>1. CASE contatos' = contatos
        BY <1>1, <2>1 DEF Bom, Nomes
    <2>2. CASE contatos' = [contatos EXCEPT ![v] = AddContact(contatos[v], u, u)]
        <3>1. \A w \in User : contatos'[w] =
                 IF w = v THEN AddContact(contatos[v], u, u) ELSE contatos[w]
            BY <2>2 DEF Bom, TypeOK
        <3>2. contatos[v] \in Seq(Contato)
            BY DEF Bom, TypeOK
        <3>3. \A k \in DOMAIN contatos[v] : contatos[v][k].name = contatos[v][k].ip
            BY DEF Bom, Nomes
        <3>4. \A k \in DOMAIN contatos'[v] : contatos'[v][k].name = contatos'[v][k].ip
            BY <1>2, <3>1, <3>2, <3>3, AddContactNomes
        <3>. QED
            BY <1>1, <3>1, <3>4 DEF Bom, Nomes
    <2>. QED  BY <1>3, <2>1, <2>2
<1>7. Arquivos'
    <2>1. /\ \A d \in User : ~ Chegou(u, d) /\ ~ Chegou(u, d)'
          /\ \A w \in User \ {u} : resposta'[w] = resposta[w]
        BY <1>1, <1>3, <1>4 DEF Chegou, Bom, TypeOK
    <2>. QED
        BY <1>1, <1>2, <2>1, MesmosArquivos
<1>. QED
    BY <1>5, <1>6, <1>7

\* Marking sent records as read changes no text.
LEMMA TratarLeituraBom ==
    ASSUME Bom, NEW v \in User, TratarLeitura(v)
    PROVE  SemQueda' /\ Ligacoes' /\ Nomes' /\ Arquivos'
<1> DEFINE n == Mensagem(v).from
           regs == arquivo[v][n].sai
           novos == Lidas(regs)
<1>1. /\ Receber(v, "READ_MSGS") /\ vivo' = vivo /\ contatos' = contatos
      /\ pc' = pc /\ comando' = comando /\ resposta' = resposta
    BY DEF TratarLeitura
<1>2. n \in Nome
    BY <1>1, ReceberCabeca, UserNome
<1>3. /\ regs \in Seq(Registro)
      /\ \A w \in User : w = n => regs = arquivo[v][w].sai
    BY <1>2, ArquivoTipo DEF Bom
<1>4. arquivo' = arquivo \/ arquivo' = GravaSai(arquivo, v, n, novos)
    BY DEF TratarLeitura, GravaSai
<1>5. novos \in Seq(Registro) /\ Mesmos(regs, novos)
    BY <1>3, LidasTipo DEF Mesmos
<1> HIDE DEF n, regs, novos
<1>6. SemQueda' /\ Ligacoes' /\ Nomes'
    BY <1>1, ServidorLigacoes DEF Bom, Nomes
<1>7. ASSUME NEW w \in User, NEW d \in User
      PROVE  /\ Mesmos(arquivo[w][d].sai, arquivo'[w][d].sai)
             /\ Mesmos(arquivo[d][w].ent, arquivo'[d][w].ent)
    <2>1. CASE arquivo' = arquivo
        BY <2>1 DEF Mesmos
    <2>2. CASE arquivo' = GravaSai(arquivo, v, n, novos)
        <3>1. /\ arquivo'[d][w].ent = arquivo[d][w].ent
              /\ arquivo'[w][d].sai = IF w = v /\ d = n THEN novos ELSE arquivo[w][d].sai
            BY <1>2, <1>5, <2>2, GravaUser DEF Bom
        <3>. QED
            BY <1>3, <1>5, <3>1 DEF Mesmos
    <2>. QED  BY <1>4, <2>1, <2>2
<1>8. Arquivos'
    <2>. SUFFICES ASSUME NEW w \in User, NEW d \in User
                  PROVE  Iguais(arquivo[w][d].sai, arquivo[d][w].ent, w, d)'
        BY DEF Arquivos
    <2>1. Iguais(arquivo[w][d].sai, arquivo[d][w].ent, w, d)
        BY DEF Bom, Arquivos
    <2>2. Chegou(w, d)' <=> Chegou(w, d)
        BY <1>1 DEF Chegou
    <2>. QED
        BY <1>1, <1>7, <2>1, <2>2, ArquivoTipo, UserNome, IguaisMesmos DEF Bom
<1>. QED
    BY <1>6, <1>8

LEMMA IInvStep == IInv /\ [Next]_vars => IInv'
<1>. SUFFICES ASSUME IInv, [Next]_vars PROVE IInv'
    OBVIOUS
<1>1. TypeOK'
    BY NextTypeOK DEF IInv
<1>2. SUFFICES ASSUME quedas' = 0, NomesVerdadeiros
               PROVE  SemQueda' /\ Ligacoes' /\ Nomes' /\ Arquivos'
    BY <1>1 DEF IInv, NomesVerdadeiros
<1>3. quedas \in Nat
    BY DEF IInv, TypeOK
<1>4. ASSUME NEW u \in User, Cai(u) PROVE FALSE
    BY <1>2, <1>3, <1>4 DEF Cai
<1>5. CASE UNCHANGED vars
    <2>1. SemQueda /\ Ligacoes /\ Nomes /\ Arquivos
        BY <1>2, <1>5 DEF vars, IInv
    <2>2. SemQueda' /\ Nomes'
        BY <1>5, <2>1 DEF vars, SemQueda, Nomes
    <2>3. Ligacoes'
        BY <1>5, <2>1 DEF vars, Ligacoes, Pendente
    <2>4. Arquivos'
        BY <1>5, <2>1 DEF vars, Arquivos, Iguais, Chegou
    <2>. QED
        BY <2>2, <2>3, <2>4
<1>6. ASSUME NEW u \in User,
             Digitar(u) \/ initClient(u) \/ serverThread(u) \/ Matar(u) \/ Login(u)
      PROVE  SemQueda' /\ Ligacoes' /\ Nomes' /\ Arquivos'
    <2>1. quedas = 0 \/ Cai(u)
        BY <1>2, <1>6 DEF Digitar, executeCommandInsertion, executeCommandSend,
           executeCommandList, initClient, MarcarLidas, Conectar, ConectarFalha, Enviar,
           ReceberResposta, serverThread, TratarTexto, TratarInsercao, TratarLeitura,
           TratarLeituraFalha, TratarNada, Matar, Login
    <2>2. Bom
        BY <1>2, <1>4, <2>1 DEF IInv, Bom
    <2>3. CASE Digitar(u)
        BY <2>2, <2>3, DigitarBom
    <2>4. CASE initClient(u)
        BY <1>4, <2>2, <2>4, MarcarLidasBom, ConectarBom, EnviarBom, ReceberRespostaBom
           DEF initClient, ConectarFalha
    <2>5. CASE serverThread(u)
        <3>1. CASE TratarNada(u)
            <4>1. /\ Receber(u, "nada") /\ vivo' = vivo /\ contatos' = contatos
                  /\ pc' = pc /\ comando' = comando /\ resposta' = resposta
                  /\ arquivo' = arquivo
                BY <3>1 DEF TratarNada
            <4>. QED
                BY <2>2, <4>1, ServidorLigacoes
                   DEF Bom, Nomes, Arquivos, Iguais, Chegou
        <3>. QED
            BY <1>4, <2>2, <2>5, <3>1, TratarTextoBom, TratarInsercaoBom, TratarLeituraBom
               DEF serverThread, TratarLeituraFalha
    <2>6. CASE Matar(u)
        BY <1>4, <2>6 DEF Matar
    <2>7. CASE Login(u)
        BY <2>2, <2>7 DEF Login, Bom, SemQueda
    <2>. QED
        BY <1>6, <2>3, <2>4, <2>5, <2>6, <2>7
<1>. QED
    BY <1>5, <1>6 DEF Next

LEMMA IInvInit == Init => IInv
<1>. SUFFICES ASSUME Init PROVE SemQueda /\ Ligacoes /\ Nomes /\ Arquivos
    BY InitTypeOK DEF IInv
<1>1. \A u \in User : fila[u] = <<>> /\ contatos[u] = <<>> /\ resposta[u] = "nenhuma"
                     /\ pc[u] = "ocioso" /\ vivo[u]
    BY DEF Init
<1>2. \A u, v \in User : arquivo[u][v].sai = <<>> /\ arquivo[u][v].ent = <<>>
    BY UserNome DEF Init, Vazio
<1>3. \A u \in User : comando[u].nome = comando[u].ip
    BY DEF Init
<1>4. SemQueda /\ Ligacoes
    BY <1>1 DEF SemQueda, Ligacoes
<1>5. Nomes
    BY <1>1, <1>3 DEF Nomes
<1>6. Arquivos
    BY <1>1, <1>2 DEF Arquivos, Iguais, Chegou
<1>. QED
    BY <1>4, <1>5, <1>6

LEMMA IInvDelivery == IInv => Delivery
<1>. SUFFICES ASSUME IInv, quedas = 0, NomesVerdadeiros, NEW u \in User, NEW v \in User
              PROVE  LET enviados == arquivo[u][v].sai
                         recebidos == arquivo[v][u].ent
                     IN  /\ \A k \in DOMAIN enviados :
                               k \in DOMAIN recebidos /\ recebidos[k].txt = enviados[k].txt
                         /\ \/ Len(recebidos) = Len(enviados)
                            \/ /\ Len(recebidos) = Len(enviados) + 1
                               /\ pc[u] = "esperar" /\ comando[u].ip = v
                               /\ recebidos[Len(recebidos)].txt = comando[u].txt
    BY DEF Delivery
<1>1. Iguais(arquivo[u][v].sai, arquivo[v][u].ent, u, v)
    BY DEF IInv, Arquivos
<1>. QED
    BY <1>1 DEF Iguais, Chegou

\* While no process has died and users are added under their names, the sender
\* has recorded exactly what the receiver has stored, in the same order, but for
\* the one text whose answer is on its way: for any users, commands and bounds.
THEOREM TextsDelivered == Spec => []Delivery
<1>1. Spec => []IInv
    BY IInvInit, IInvStep, PTL DEF Spec
<1>. QED
    BY <1>1, IInvDelivery, PTL

-----------------------------------------------------------------------------
(***************************************************************************)
(* Acquainted: while no process has died contacts know each other, unless  *)
(* a list is full or an acceptance is on its way.  The list of the server  *)
(* that accepts is written before the answer leaves, and that of the       *)
(* client after it comes (Aceito); lists only grow, so whoever knew        *)
(* somebody still does.                                                    *)
(***************************************************************************)
\* v has accepted u, which has not seen the answer yet.
Aceito(u, v) ==
    /\ pc[u] = "esperar" /\ resposta[u] = "RET_MSG_OK"
    /\ comando[u].tipo = "ADD_CONTACT" /\ comando[u].ip = v

Cheia(u) == Len(contatos[u]) >= MaxContatos

Apresentados ==
    \A u, v \in User :
        /\ Conhece(u, v) => Conhece(v, u) \/ Cheia(v) \/ Aceito(v, u)
        /\ Aceito(u, v) => Conhece(v, u)

\* A step after which everybody still knows whom it knew.
LEMMA ApresentadosPasso ==
    ASSUME Apresentados,
           \A x, y \in User : Conhece(x, y) => Conhece(x, y)',
           \A x \in User : Cheia(x) => Cheia(x)',
           \A x, y \in User : Conhece(x, y)' => Conhece(x, y) \/ Conhece(y, x)' \/ Aceito(y, x)',
           \A x, y \in User : Aceito(x, y)' => Aceito(x, y) \/ Conhece(y, x)',
           \A x, y \in User : Aceito(x, y) => Aceito(x, y)' \/ Conhece(x, y)' \/ Cheia(x)'
    PROVE  Apresentados'
<1>. SUFFICES ASSUME NEW x \in User, NEW y \in User
              PROVE  /\ Conhece(x, y)' => Conhece(y, x)' \/ Cheia(y)' \/ Aceito(y, x)'
                     /\ Aceito(x, y)' => Conhece(y, x)'
    BY DEF Apresentados
<1>1. /\ Conhece(x, y) => Conhece(y, x) \/ Cheia(y) \/ Aceito(y, x)
      /\ Aceito(x, y) => Conhece(y, x)
    BY DEF Apresentados
<1>. QED
    BY <1>1

\* In particular one that leaves the lists alone.
LEMMA MesmosContatos ==
    ASSUME Apresentados, contatos' = contatos,
           \A x, y \in User : Aceito(x, y)' <=> Aceito(x, y)
    PROVE  Apresentados'
BY DEF Apresentados, Conhece, Cheia

\* Who is in a list to which somebody was added.
LEMMA AddContactConhece ==
    ASSUME NEW lista \in Seq(Contato), NEW n \in Nome, NEW ip \in User,
           NEW nova, nova = AddContact(lista, n, ip)
    PROVE  /\ \A y \in User : (\E k \in DOMAIN lista : lista[k].ip = y) =>
                                 \E k \in DOMAIN nova : nova[k].ip = y
           /\ \A y \in User : (\E k \in DOMAIN nova : nova[k].ip = y) =>
                                 y = ip \/ \E k \in DOMAIN lista : lista[k].ip = y
           /\ Len(lista) >= MaxContatos => nova = lista
           /\ Len(lista) < MaxContatos => \E k \in DOMAIN nova : nova[k].ip = ip
<1> DEFINE c == [name |-> n, ip |-> ip]
<1>1. c \in Contato /\ c.ip = ip
    BY DEF Contato
<1>2. nova = IF Len(lista) < MaxContatos THEN Append(lista, c) ELSE lista
    BY DEF AddContact
<1>3. /\ DOMAIN lista = 1 .. Len(lista) /\ Len(lista) \in Nat
      /\ DOMAIN Append(lista, c) = 1 .. Len(lista) + 1
      /\ \A k \in 1 .. Len(lista) : Append(lista, c)[k] = lista[k]
      /\ Append(lista, c)[Len(lista) + 1] = c
    BY <1>1
<1> HIDE DEF c
<1>4. CASE Len(lista) < MaxContatos
    <2>1. nova = Append(lista, c)
        BY <1>2, <1>4
    <2>2. /\ DOMAIN nova = 1 .. Len(lista) + 1
          /\ \A k \in 1 .. Len(lista) : nova[k] = lista[k]
          /\ nova[Len(lista) + 1].ip = ip
        BY <1>1, <1>3, <2>1
    <2>. QED
        BY <1>3, <1>4, <2>2, BoundsAssumption
<1>5. CASE ~ (Len(lista) < MaxContatos)
    BY <1>2, <1>5, <1>3, BoundsAssumption
<1>. QED
    BY <1>4, <1>5

-----------------------------------------------------------------------------
LEMMA ClienteApresentados ==
    ASSUME Bom, Apresentados, NEW u \in User,
           Digitar(u) \/ MarcarLidas(u) \/ Conectar(u) \/ Enviar(u)
    PROVE  Apresentados'
<1>1. contatos' = contatos
    BY DEF Digitar, executeCommandInsertion, executeCommandSend, executeCommandList,
           MarcarLidas, Conectar, Enviar
<1>2. pc[u] # "esperar"
    BY DEF Digitar, executeCommandInsertion, executeCommandSend, executeCommandList,
           Livre, MarcarLidas, Conectar, Enviar
<1>3. resposta[u] = "nenhuma"
    BY <1>2 DEF Bom, Ligacoes
<1>4. pc'[u] # "esperar" \/ resposta'[u] = "nenhuma"
    BY <1>3 DEF Digitar, executeCommandInsertion, executeCommandSend, executeCommandList,
           Comecar, MarcarLidas, Conectar, Enviar, Bom, TypeOK
<1>5. \A x \in User \ {u} : pc'[x] = pc[x] /\ resposta'[x] = resposta[x] /\ comando'[x] = comando[x]
    <2>. USE DEF Bom, TypeOK
    <2>1. CASE executeCommandInsertion(u)
        BY <2>1 DEF executeCommandInsertion, Comecar
    <2>2. CASE executeCommandSend(u)
        BY <2>2 DEF executeCommandSend, Comecar
    <2>3. CASE executeCommandList(u)
        BY <2>3 DEF executeCommandList
    <2>4. CASE MarcarLidas(u)
        BY <2>4 DEF MarcarLidas
    <2>5. CASE Conectar(u)
        BY <2>5 DEF Conectar
    <2>6. CASE Enviar(u)
        BY <2>6 DEF Enviar
    <2>. QED
        BY <2>1, <2>2, <2>3, <2>4, <2>5, <2>6 DEF Digitar
<1>6. \A x, y \in User : Aceito(x, y)' <=> Aceito(x, y)
    BY <1>2, <1>4, <1>5 DEF Aceito
<1>. QED
    BY <1>1, <1>6, MesmosContatos

LEMMA RespostaApresentados ==
    ASSUME Bom, Apresentados, NEW u \in User, ReceberResposta(u)
    PROVE  Apresentados'
<1>1. /\ pc[u] = "esperar" /\ resposta[u] \in {"RET_MSG_OK", "RET_MSG_FAIL"}
      /\ comando' = comando /\ pc'[u] = "ocioso"
      /\ \A x \in User \ {u} : pc'[x] = pc[x] /\ resposta'[x] = resposta[x]
      /\ \/ resposta[u] = "RET_MSG_OK" /\ Confirmado(u)
         \/ resposta[u] = "RET_MSG_FAIL" /\ contatos' = contatos
    BY DEF ReceberResposta, Bom, SemQueda, TypeOK
<1>2. CASE contatos' = contatos /\ \A y \in User : ~ Aceito(u, y)
    <2>1. \A x, y \in User : Aceito(x, y)' <=> Aceito(x, y)
        BY <1>1, <1>2 DEF Aceito
    <2>. QED
        BY <1>2, <2>1, MesmosContatos
<1>3. CASE /\ resposta[u] = "RET_MSG_OK" /\ comando[u].tipo = "ADD_CONTACT"
           /\ contatos' = [contatos EXCEPT ![u] =
                              AddContact(contatos[u], comando[u].nome, comando[u].ip)]
    <2>. PICK v \in User : v = comando[u].ip
        BY DEF Bom, TypeOK, Comando
    <2>1. comando[u].nome \in Nome /\ contatos[u] \in Seq(Contato)
        BY DEF Bom, TypeOK, Comando
    <2>2. /\ contatos'[u] = AddContact(contatos[u], comando[u].nome, v)
          /\ \A x \in User \ {u} : contatos'[x] = contatos[x]
        BY <1>3 DEF Bom, TypeOK
    <2>3. /\ \A y \in User : Conhece(u, y) => Conhece(u, y)'
          /\ \A y \in User : Conhece(u, y)' => y = v \/ Conhece(u, y)
          /\ Cheia(u) => Cheia(u)'
          /\ Conhece(u, v)' \/ Cheia(u)'
        <3>1. CASE Len(contatos[u]) < MaxContatos
            BY <2>1, <2>2, <3>1, AddContactConhece DEF Conhece, Cheia
        <3>2. CASE ~ (Len(contatos[u]) < MaxContatos)
            <4>1. Cheia(u) /\ contatos'[u] = contatos[u]
                BY <2>1, <2>2, <3>2, AddContactConhece, BoundsAssumption DEF Cheia
            <4>. QED
                BY <4>1 DEF Conhece, Cheia
        <3>. QED
            BY <3>1, <3>2
    <2>4. Aceito(u, v) /\ Conhece(v, u)
        BY <1>1, <1>3 DEF Aceito, Apresentados
    <2>5. \A x \in User \ {u} : \A y \in User : /\ Conhece(x, y)' <=> Conhece(x, y)
                                                /\ Aceito(x, y)' <=> Aceito(x, y)
        BY <1>1, <2>2 DEF Conhece, Aceito
    <2>6. \A x \in User \ {u} : Cheia(x) => Cheia(x)'
        BY <2>2 DEF Cheia
    <2>7. \A y \in User : ~ Aceito(u, y)' /\ (Aceito(u, y) => y = v)
        BY <1>1 DEF Aceito
    <2>. QED
        BY <2>3, <2>4, <2>5, <2>6, <2>7, ApresentadosPasso
<1>4. CASE comando[u].tipo # "ADD_CONTACT" \/ resposta[u] # "RET_MSG_OK"
    BY <1>1, <1>2, <1>4 DEF Aceito, Confirmado
<1>. QED
    BY <1>1, <1>3, <1>4 DEF Confirmado

\* The client of a message that waits for an answer.
LEMMA PedidoDe ==
    ASSUME Bom, NEW v \in User, NEW tipo \in {"MSG_TXT", "ADD_CONTACT"}, Receber(v, tipo)
    PROVE  LET u == Atendida(v).ip IN
           /\ u \in User /\ Atendida(v).estado = "enviada" /\ Mensagem(v).from = u
           /\ comando[u].tipo = tipo /\ comando[u].ip = v
           /\ pc[u] = "esperar" /\ resposta[u] = "nenhuma"
<1>1. /\ 1 \in DOMAIN fila[v] /\ Atendida(v) = fila[v][1]
      /\ Atendida(v).estado = "enviada" /\ Mensagem(v) = Atendida(v).msg
      /\ Mensagem(v).tipo = tipo /\ Mensagem(v).from = Atendida(v).ip
      /\ Atendida(v).ip \in User
    BY ReceberCabeca
<1>2. Pendente(fila[v][1])
    BY <1>1 DEF Pendente
<1>. QED
    BY <1>1, <1>2 DEF Bom, Ligacoes

LEMMA ServidorApresentados ==
    ASSUME Bom, Apresentados, NEW v \in User,
           TratarTexto(v) \/ TratarInsercao(v) \/ TratarLeitura(v) \/ TratarNada(v)
    PROVE  Apresentados'
<1>1. CASE TratarTexto(v)
    <2>1. Receber(v, "MSG_TXT") /\ UNCHANGED <<contatos, pc, comando>>
        BY <1>1 DEF TratarTexto
    <2>. PICK u \in User : u = Atendida(v).ip
        BY <2>1, PedidoDe
    <2>2. comando[u].tipo = "MSG_TXT" /\ \A x \in User \ {u} : resposta'[x] = resposta[x]
        <3>1. comando[u].tipo = "MSG_TXT"
            BY <2>1, PedidoDe
        <3>2. Responder(v, "RET_MSG_OK") \/ Responder(v, "RET_MSG_FAIL")
            BY <1>1 DEF TratarTexto
        <3>3. \A x \in User \ {u} : resposta'[x] = resposta[x]
            BY <3>2 DEF Responder, Bom, TypeOK
        <3>. QED
            BY <3>1, <3>3
    <2>3. \A x, y \in User : Aceito(x, y)' <=> Aceito(x, y)
        BY <2>1, <2>2 DEF Aceito
    <2>. QED
        BY <2>1, <2>3, MesmosContatos
<1>2. CASE TratarInsercao(v)
    <2>1. Receber(v, "ADD_CONTACT") /\ UNCHANGED <<pc, comando>>
        BY <1>2 DEF TratarInsercao
    <2>. PICK u \in User : u = Atendida(v).ip
        BY <2>1, PedidoDe
    <2>2. /\ Atendida(v).estado = "enviada" /\ Mensagem(v).from = u
          /\ comando[u].tipo = "ADD_CONTACT" /\ comando[u].ip = v
          /\ pc[u] = "esperar" /\ resposta[u] = "nenhuma"
        BY <2>1, PedidoDe
    <2>3. /\ \A x \in User \ {u} : resposta'[x] = resposta[x]
          /\ \/ /\ Len(contatos[v]) < MaxContatos /\ resposta'[u] = "RET_MSG_OK"
                /\ contatos' = [contatos EXCEPT ![v] = AddContact(contatos[v], u, u)]
             \/ contatos' = contatos /\ resposta'[u] = "RET_MSG_FAIL"
        <3>1. /\ \/ /\ Len(contatos[v]) < MaxContatos /\ Responder(v, "RET_MSG_OK")
                    /\ contatos' = [contatos EXCEPT ![v] = AddContact(contatos[v], u, u)]
                 \/ contatos' = contatos /\ Responder(v, "RET_MSG_FAIL")
              /\ Atendida(v).estado = "enviada"
            BY <1>2, <2>2 DEF TratarInsercao
        <3>2. \A r : Responder(v, r) => resposta' = [resposta EXCEPT ![u] = r]
            BY <2>2 DEF Responder
        <3>. QED
            BY <3>1, <3>2 DEF Bom, TypeOK
    <2>4. CASE contatos' = contatos /\ resposta'[u] = "RET_MSG_FAIL"
        <3>1. \A x, y \in User : Aceito(x, y)' <=> Aceito(x, y)
            BY <2>1, <2>2, <2>3, <2>4 DEF Aceito
        <3>. QED
            BY <2>4, <3>1, MesmosContatos
    <2>5. CASE /\ Len(contatos[v]) < MaxContatos /\ resposta'[u] = "RET_MSG_OK"
               /\ contatos' = [contatos EXCEPT ![v] = AddContact(contatos[v], u, u)]
        <3>1. /\ contatos'[v] = AddContact(contatos[v], u, u)
              /\ \A x \in User \ {v} : contatos'[x] = contatos[x]
              /\ contatos[v] \in Seq(Contato)
            BY <2>5 DEF Bom, TypeOK
        <3>2. /\ \A y \in User : Conhece(v, y) => Conhece(v, y)'
              /\ \A y \in User : Conhece(v, y)' => y = u \/ Conhece(v, y)
              /\ Conhece(v, u)'
            BY <2>5, <3>1, UserNome, AddContactConhece DEF Conhece
        <3>3. \A x \in User \ {v} : /\ \A y \in User : Conhece(x, y)' <=> Conhece(x, y)
                                    /\ Cheia(x) => Cheia(x)'
            BY <3>1 DEF Conhece, Cheia
        <3>4. ~ Cheia(v)
            BY <2>5, <3>1, BoundsAssumption DEF Cheia
        <3>5. /\ Aceito(u, v)' /\ \A y \in User : Aceito(u, y)' => y = v
              /\ \A x \in User \ {u} : \A y \in User : Aceito(x, y)' <=> Aceito(x, y)
              /\ \A y \in User : ~ Aceito(u, y)
            BY <2>1, <2>2, <2>3, <2>5 DEF Aceito
        <3>. QED
            BY <3>2, <3>3, <3>4, <3>5, ApresentadosPasso
    <2>. QED
        BY <2>3, <2>4, <2>5
<1>3. CASE TratarLeitura(v) \/ TratarNada(v)
    BY <1>3, MesmosContatos DEF TratarLeitura, TratarNada, Aceito
<1>. QED
    BY <1>1, <1>2, <1>3

-----------------------------------------------------------------------------
\* Together with the invariant of Delivery.
Conhecidos == IInv /\ (quedas = 0 /\ NomesVerdadeiros => Apresentados)

LEMMA InitConhecidos == Init => Conhecidos
<1>. SUFFICES ASSUME Init PROVE Apresentados
    BY IInvInit DEF Conhecidos
<1>1. \A u \in User : contatos[u] = <<>> /\ pc[u] = "ocioso"
    BY DEF Init
<1>. QED
    BY <1>1 DEF Apresentados, Conhece, Aceito

LEMMA NextConhecidos == Conhecidos /\ [Next]_vars => Conhecidos'
<1>. SUFFICES ASSUME Conhecidos, [Next]_vars, quedas' = 0, NomesVerdadeiros
              PROVE  Apresentados'
    BY IInvStep DEF Conhecidos, NomesVerdadeiros
<1>1. quedas \in Nat
    BY DEF Conhecidos, IInv, TypeOK
<1>2. ASSUME NEW u \in User, Cai(u) PROVE FALSE
    BY <1>1, <1>2 DEF Cai
<1>3. CASE UNCHANGED vars
    BY <1>3 DEF vars, Conhecidos, Apresentados, Conhece, Cheia, Aceito
<1>4. ASSUME NEW u \in User,
             Digitar(u) \/ initClient(u) \/ serverThread(u) \/ Matar(u) \/ Login(u)
      PROVE  Apresentados'
    <2>1. quedas = 0 \/ Cai(u)
        BY <1>4 DEF Digitar, executeCommandInsertion, executeCommandSend,
           executeCommandList, initClient, MarcarLidas, Conectar, ConectarFalha, Enviar,
           ReceberResposta, serverThread, TratarTexto, TratarInsercao, TratarLeitura,
           TratarLeituraFalha, TratarNada, Matar, Login
    <2>2. Bom /\ Apresentados
        BY <1>2, <2>1 DEF Conhecidos, IInv, Bom
    <2>3. CASE Login(u)
        BY <2>2, <2>3 DEF Login, Bom, SemQueda
    <2>4. CASE Matar(u)
        BY <1>2, <2>4 DEF Matar
    <2>. QED
        BY <1>2, <1>4, <2>2, <2>3, <2>4, ClienteApresentados, RespostaApresentados,
           ServidorApresentados
           DEF initClient, ConectarFalha, serverThread, TratarLeituraFalha
<1>. QED
    BY <1>3, <1>4 DEF Next

\* While no process has died and users are added under their names, contacts know
\* each other, but for an answer on its way and lists that are full: for any
\* users, commands and bounds.
THEOREM ContactsKnowEachOther == Spec => []Acquainted
<1>1. Conhecidos => Acquainted
    BY DEF Conhecidos, Apresentados, Acquainted, Aceito, Cheia
<1>2. Spec => []Conhecidos
    BY InitConhecidos, NextConhecidos, PTL DEF Spec
<1>. QED
    BY <1>1, <1>2, PTL
-----------------------------------------------------------------------------
(***************************************************************************)
(* FifoReceipt, deaths and logins included.  The texts of u that v has     *)
(* stored, the one its server handled last and may handle again, those     *)
(* that wait for it and the one u is about to send are in that order       *)
(* (Ordem).  A death empties queues and cuts commands off, but changes no  *)
(* text and overtakes none; and the numbers of the texts go on after a     *)
(* login.                                                                  *)
(***************************************************************************)

Texto(m, u) == m.tipo = "MSG_TXT" /\ m.from = u

\* No text of u that v has stored or handled is later than t.
Ate(u, v, t) ==
    /\ \A j \in DOMAIN arquivo[v][u].ent : arquivo[v][u].ent[j].txt <= t
    /\ Texto(ultima[v], u) => ultima[v].txt <= t

\* A text that waits for v is not earlier than those before it, nor later than
\* what u has typed.
NaFila(u, v) ==
    \A k \in DOMAIN fila[v] : Texto(fila[v][k].msg, u) =>
        /\ Ate(u, v, fila[v][k].msg.txt)
        /\ fila[v][k].msg.txt <= digitados[u]
        /\ \A j \in 1 .. k - 1 :
              Texto(fila[v][j].msg, u) => fila[v][j].msg.txt <= fila[v][k].msg.txt

\* A text about to be sent is the last one typed.
APartir(u) ==
    pc[u] \in {"marcar", "conectar"} /\ comando[u].tipo = "MSG_TXT" =>
        comando[u].txt = digitados[u]

Ordem ==
    /\ \A u, v \in User : /\ Texto(ultima[v], u) => Ate(u, v, ultima[v].txt)
                          /\ NaFila(u, v)
                          /\ Ate(u, v, digitados[u])
    /\ \A u \in User : APartir(u)
    /\ FifoReceipt

\* The types the order is about.
LEMMA OrdemTipo ==
    ASSUME TypeOK, NEW u \in User, NEW v \in User
    PROVE  /\ \A j \in DOMAIN arquivo[v][u].ent : arquivo[v][u].ent[j].txt \in Nat
           /\ DOMAIN arquivo[v][u].ent = 1 .. Len(arquivo[v][u].ent)
           /\ Len(arquivo[v][u].ent) \in Nat
           /\ ultima[v].txt \in Nat /\ digitados[u] \in Nat
           /\ fila[v] \in Seq(Conn)
           /\ \A k \in DOMAIN fila[v] : fila[v][k].msg.txt \in Nat
<1>1. arquivo[v][u].ent \in Seq(Registro)
    BY UserNome, ArquivoTipo
<1>2. \A j \in DOMAIN arquivo[v][u].ent : arquivo[v][u].ent[j].txt \in Nat
    <2>1. \A j \in DOMAIN arquivo[v][u].ent : arquivo[v][u].ent[j] \in Registro
        BY <1>1
    <2>. QED
        BY <2>1 DEF Registro
<1>3. ultima[v].txt \in Nat /\ digitados[u] \in Nat /\ fila[v] \in Seq(Conn)
    BY DEF TypeOK, Msg
<1>. QED
    BY <1>1, <1>2, <1>3, ConnTipo

\* A place of a list with one more is one of the list or the last one.
LEMMA UmaAMais ==
    ASSUME NEW n \in Nat, NEW j \in 1 .. n + 1
    PROVE  j \in 1 .. n \/ j = n + 1
OBVIOUS

LEMMA AppendTexto ==
    ASSUME NEW s \in Seq(Registro), NEW n \in Nat
    PROVE  /\ DOMAIN s = 1 .. Len(s) /\ Len(s) \in Nat
           /\ DOMAIN Append(s, Novo(n)) = 1 .. Len(s) + 1
           /\ \A i \in DOMAIN s : Append(s, Novo(n))[i] = s[i]
           /\ Append(s, Novo(n))[Len(s) + 1].txt = n
<1>1. Novo(n) \in Registro /\ Novo(n).txt = n
    BY DEF Novo, Registro
<1>2. /\ DOMAIN s = 1 .. Len(s) /\ Len(s) \in Nat
      /\ DOMAIN Append(s, Novo(n)) = 1 .. Len(s) + 1
      /\ \A i \in 1 .. Len(s) : Append(s, Novo(n))[i] = s[i]
      /\ Append(s, Novo(n))[Len(s) + 1] = Novo(n)
    BY <1>1
<1>. QED
    BY <1>1, <1>2

\* The texts of u at v are the same after the step.
MesmosTextos(u, v) ==
    /\ DOMAIN arquivo'[v][u].ent = DOMAIN arquivo[v][u].ent
    /\ \A j \in DOMAIN arquivo[v][u].ent :
          arquivo'[v][u].ent[j].txt = arquivo[v][u].ent[j].txt

LEMMA FifoMesmos ==
    ASSUME FifoReceipt, NEW u \in User, NEW v \in User, MesmosTextos(u, v),
           arquivo[v][u].ent \in Seq(Registro)
    PROVE  \A k \in DOMAIN arquivo'[v][u].ent :
              \A j \in 1 .. k : arquivo'[v][u].ent[j].txt <= arquivo'[v][u].ent[k].txt
<1>. SUFFICES ASSUME NEW k \in DOMAIN arquivo[v][u].ent, NEW j \in 1 .. k
              PROVE  arquivo'[v][u].ent[j].txt <= arquivo'[v][u].ent[k].txt
    BY DEF MesmosTextos
<1>1. DOMAIN arquivo[v][u].ent = 1 .. Len(arquivo[v][u].ent) /\ Len(arquivo[v][u].ent) \in Nat
    OBVIOUS
<1>2. j \in DOMAIN arquivo[v][u].ent
    BY <1>1
<1>. QED
    BY <1>2 DEF FifoReceipt, MesmosTextos

-----------------------------------------------------------------------------
(***************************************************************************)
(* A step that stores no text, takes none from a queue and puts none there.*)
(***************************************************************************)
LEMMA OrdemMantida ==
    ASSUME TypeOK, TypeOK', Ordem,
           \A u, v \in User : MesmosTextos(u, v),
           \A v \in User : ultima'[v] = ultima[v] \/ ultima'[v].tipo # "MSG_TXT",
           \A v \in User : \A k \in DOMAIN fila'[v] :
              k \in DOMAIN fila[v] /\ fila'[v][k].msg = fila[v][k].msg,
           \A u \in User : digitados'[u] \in Nat /\ digitados[u] <= digitados'[u],
           \A u \in User : APartir(u)'
    PROVE  Ordem'
<1>1. ASSUME NEW u \in User, NEW v \in User, NEW t \in Nat, Ate(u, v, t)
      PROVE  Ate(u, v, t)'
    BY <1>1 DEF Ate, MesmosTextos, Texto
<1>2. ASSUME NEW u \in User, NEW v \in User, Texto(ultima[v], u)'
      PROVE  Ate(u, v, ultima[v].txt)'
    <2>1. ultima'[v] = ultima[v]
        BY <1>2 DEF Texto
    <2>2. Ate(u, v, ultima[v].txt)
        BY <1>2, <2>1 DEF Ordem, Texto
    <2>. QED
        BY <2>1, <2>2 DEF Ate, MesmosTextos, Texto
<1>3. ASSUME NEW u \in User, NEW v \in User
      PROVE  NaFila(u, v)'
    <2>. SUFFICES ASSUME NEW k \in DOMAIN fila'[v], Texto(fila'[v][k].msg, u)
                  PROVE  /\ Ate(u, v, fila[v][k].msg.txt)'
                         /\ fila'[v][k].msg.txt <= digitados'[u]
                         /\ \A j \in 1 .. k - 1 :
                               Texto(fila'[v][j].msg, u) =>
                                  fila'[v][j].msg.txt <= fila'[v][k].msg.txt
        BY DEF NaFila, Texto
    <2>1. /\ k \in DOMAIN fila[v] /\ fila'[v][k].msg = fila[v][k].msg
          /\ fila[v][k].msg.txt \in Nat
        BY OrdemTipo
    <2>2. /\ Ate(u, v, fila[v][k].msg.txt) /\ fila[v][k].msg.txt <= digitados[u]
          /\ \A j \in 1 .. k - 1 :
                Texto(fila[v][j].msg, u) => fila[v][j].msg.txt <= fila[v][k].msg.txt
        BY <2>1 DEF Ordem, NaFila
    <2>3. Ate(u, v, fila[v][k].msg.txt)'
        BY <2>1, <2>2 DEF Ate, MesmosTextos, Texto
    <2>4. fila'[v][k].msg.txt <= digitados'[u]
        BY <2>1, <2>2, OrdemTipo
    <2>5. ASSUME NEW j \in 1 .. k - 1, Texto(fila'[v][j].msg, u)
          PROVE  fila'[v][j].msg.txt <= fila'[v][k].msg.txt
        <3>1. fila'[v] \in Seq(Conn)
            BY DEF TypeOK
        <3>2. j \in DOMAIN fila'[v]
            BY <3>1
        <3>3. fila'[v][j].msg = fila[v][j].msg
            BY <3>2
        <3>. QED
            BY <2>1, <2>2, <2>5, <3>3
    <2>. QED
        BY <2>3, <2>4, <2>5
<1>4. ASSUME NEW u \in User, NEW v \in User
      PROVE  Ate(u, v, digitados[u])'
    <2>1. Ate(u, v, digitados[u]) /\ MesmosTextos(u, v)
        BY DEF Ordem
    <2>2. /\ \A j \in DOMAIN arquivo[v][u].ent : arquivo[v][u].ent[j].txt \in Nat
          /\ ultima[v].txt \in Nat /\ digitados[u] \in Nat
          /\ digitados'[u] \in Nat /\ digitados[u] <= digitados'[u]
        BY OrdemTipo
    <2>3. \A j \in DOMAIN arquivo'[v][u].ent : arquivo'[v][u].ent[j].txt <= digitados'[u]
        BY <2>1, <2>2 DEF Ate, MesmosTextos
    <2>4. Texto(ultima'[v], u) => ultima'[v].txt <= digitados'[u]
        BY <2>1, <2>2 DEF Ate, Texto
    <2>. QED
        BY <2>3, <2>4 DEF Ate
<1>5. FifoReceipt'
    BY FifoMesmos, UserNome, ArquivoTipo DEF FifoReceipt, Ordem
<1>. QED
    BY <1>2, <1>3, <1>4, <1>5 DEF Ordem

-----------------------------------------------------------------------------
(***************************************************************************)
(* A connection is made: the text of its command comes behind all others.  *)
(***************************************************************************)
LEMMA ConectarOrdem ==
    ASSUME TypeOK, Ordem, NEW u \in User, Conectar(u)
    PROVE  Ordem'
<1> DEFINE w == comando[u].ip
<1>1. /\ w \in User /\ Conexao(u).msg.from = u
      /\ Conexao(u).msg.tipo = comando[u].tipo /\ Conexao(u).msg.txt = comando[u].txt
      /\ Conexao(u) \in Conn
    BY DEF TypeOK, Comando, Conexao, Conn, Msg
<1>2. /\ fila' = [fila EXCEPT ![w] = Append(fila[w], Conexao(u))]
      /\ arquivo' = arquivo /\ ultima' = ultima /\ digitados' = digitados
      /\ comando' = comando /\ pc' = [pc EXCEPT ![u] = "enviar"]
    BY DEF Conectar
<1> HIDE DEF w
<1>3. ASSUME NEW x \in User, NEW v \in User
      PROVE  NaFila(x, v)'
    <2>1. fila[v] \in Seq(Conn) /\ digitados[x] \in Nat
          /\ \A k \in DOMAIN fila[v] : fila[v][k].msg.txt \in Nat
        BY OrdemTipo
    <2>2. CASE v # w
        <3>1. fila'[v] = fila[v]
            BY <1>1, <1>2, <2>2
        <3>2. NaFila(x, v)
            BY DEF Ordem
        <3>3. \A t : Ate(x, v, t)' <=> Ate(x, v, t)
            BY <1>2 DEF Ate, Texto
        <3>. QED
            BY <1>2, <3>1, <3>2, <3>3 DEF NaFila, Texto
    <2>3. CASE v = w
        <3>1. /\ fila'[v] = Append(fila[v], Conexao(u))
              /\ Len(fila[v]) \in Nat /\ DOMAIN fila[v] = 1 .. Len(fila[v])
              /\ DOMAIN fila'[v] = 1 .. Len(fila[v]) + 1
              /\ \A k \in 1 .. Len(fila[v]) : fila'[v][k] = fila[v][k]
              /\ fila'[v][Len(fila[v]) + 1] = Conexao(u)
            <4>1. fila'[v] = Append(fila[v], Conexao(u))
                BY <1>1, <1>2, <2>3 DEF TypeOK
            <4>. QED
                BY <1>1, <2>1, <4>1
        <3>2. ASSUME NEW k \in 1 .. Len(fila[v]), Texto(fila'[v][k].msg, x)
              PROVE  /\ Ate(x, v, fila[v][k].msg.txt)'
                     /\ fila'[v][k].msg.txt <= digitados'[x]
                     /\ \A j \in 1 .. k - 1 :
                           Texto(fila'[v][j].msg, x) => fila'[v][j].msg.txt <= fila'[v][k].msg.txt
            <4>1. k \in DOMAIN fila[v] /\ Texto(fila[v][k].msg, x)
                BY <3>1, <3>2 DEF Texto
            <4>2. /\ Ate(x, v, fila[v][k].msg.txt) /\ fila[v][k].msg.txt <= digitados[x]
                  /\ \A j \in 1 .. k - 1 :
                        Texto(fila[v][j].msg, x) => fila[v][j].msg.txt <= fila[v][k].msg.txt
                BY <4>1 DEF Ordem, NaFila
            <4>3. \A j \in 1 .. k : fila'[v][j] = fila[v][j]
                BY <3>1
            <4>4. fila'[v][k] = fila[v][k]
                BY <3>1
            <4>5. Ate(x, v, fila[v][k].msg.txt)'
                BY <1>2, <4>2, <4>4 DEF Ate, Texto
            <4>6. ASSUME NEW j \in 1 .. k - 1, Texto(fila'[v][j].msg, x)
                  PROVE  fila'[v][j].msg.txt <= fila'[v][k].msg.txt
                <5>1. fila'[v][j] = fila[v][j]
                    BY <3>1
                <5>. QED
                    BY <4>2, <4>4, <4>6, <5>1
            <4>. QED
                BY <1>2, <4>2, <4>4, <4>5, <4>6
        <3>3. ASSUME NEW k \in DOMAIN fila'[v], k = Len(fila[v]) + 1, Texto(fila'[v][k].msg, x)
              PROVE  /\ Ate(x, v, fila[v][k].msg.txt)'
                     /\ fila'[v][k].msg.txt <= digitados'[x]
                     /\ \A j \in 1 .. k - 1 :
                           Texto(fila'[v][j].msg, x) => fila'[v][j].msg.txt <= fila'[v][k].msg.txt
            <4>1. x = u /\ fila'[v][k].msg.txt = digitados[x]
                <5>1. pc[u] = "conectar" /\ APartir(u)
                    BY DEF Conectar, Ordem
                <5>2. fila'[v][k] = Conexao(u)
                    BY <3>1, <3>3
                <5>. QED
                    BY <1>1, <3>3, <5>1, <5>2 DEF Texto, APartir
            <4>2. Ate(x, v, digitados[x])
                BY DEF Ordem
            <4>3. Ate(x, v, fila[v][k].msg.txt)'
                BY <1>2, <4>1, <4>2 DEF Ate, Texto
            <4>4. ASSUME NEW j \in 1 .. k - 1, Texto(fila'[v][j].msg, x)
                  PROVE  fila'[v][j].msg.txt <= digitados[x]
                <5>1. j \in DOMAIN fila[v] /\ fila'[v][j] = fila[v][j]
                    BY <3>1, <3>3
                <5>. QED
                    BY <4>4, <5>1 DEF Ordem, NaFila
            <4>5. fila'[v][k].msg.txt <= digitados'[x]
                BY <1>2, <2>1, <4>1
            <4>6. \A j \in 1 .. k - 1 :
                     Texto(fila'[v][j].msg, x) => fila'[v][j].msg.txt <= fila'[v][k].msg.txt
                BY <4>1, <4>4
            <4>. QED
                BY <4>3, <4>5, <4>6
        <3>4. \A k \in DOMAIN fila'[v] : k \in 1 .. Len(fila[v]) \/ k = Len(fila[v]) + 1
            BY <3>1
        <3>. QED
            BY <3>2, <3>3, <3>4 DEF NaFila
    <2>. QED
        BY <2>2, <2>3
<1>4. \A x \in User : APartir(x)'
    BY <1>2 DEF APartir, Ordem, TypeOK
<1>5. FifoReceipt'
    BY <1>2 DEF FifoReceipt, Ordem
<1>6. ASSUME NEW x \in User, NEW v \in User, Texto(ultima[v], x)'
      PROVE  Ate(x, v, ultima[v].txt)'
    BY <1>2, <1>6 DEF Ordem, Ate, Texto
<1>7. ASSUME NEW x \in User, NEW v \in User
      PROVE  Ate(x, v, digitados[x])'
    BY <1>2 DEF Ordem, Ate, Texto
<1>. QED
    BY <1>3, <1>4, <1>5, <1>6, <1>7 DEF Ordem

-----------------------------------------------------------------------------
(***************************************************************************)
(* A message is handled: a text, the oldest that waits or the last one     *)
(* again, comes behind all that are stored.                                *)
(***************************************************************************)
LEMMA ReceberOrdem ==
    ASSUME TypeOK, TypeOK', Ordem, NEW v \in User, NEW tipo, Receber(v, tipo),
           UNCHANGED <<pc, comando, digitados>>,
           \A x, w \in User :
              \/ MesmosTextos(x, w)
              \/ /\ w = v /\ tipo = "MSG_TXT" /\ x = Mensagem(v).from
                 /\ arquivo'[w][x].ent = Append(arquivo[w][x].ent, Novo(Mensagem(v).txt))
    PROVE  Ordem'
<1> DEFINE m == Mensagem(v)
<1>1. /\ fila' = [fila EXCEPT ![v] = Tail(fila[v])] /\ ultima' = [ultima EXCEPT ![v] = m]
      /\ fila[v] # <<>> /\ fila[v] \in Seq(Conn) /\ m.tipo = tipo
      /\ m = fila[v][1].msg \/ m = ultima[v]
    BY DEF Receber, TypeOK, Mensagem, Atendida
<1>2. /\ Len(fila[v]) \in Nat \ {0} /\ DOMAIN fila[v] = 1 .. Len(fila[v])
      /\ fila'[v] = Tail(fila[v]) /\ ultima'[v] = m
      /\ DOMAIN fila'[v] = 1 .. Len(fila[v]) - 1
      /\ \A k \in 1 .. Len(fila[v]) - 1 : fila'[v][k] = fila[v][k + 1]
      /\ \A w \in User \ {v} : fila'[w] = fila[w] /\ ultima'[w] = ultima[w]
    BY <1>1 DEF TypeOK
<1>3. m.txt \in Nat
    BY <1>1, <1>2, OrdemTipo
<1> HIDE DEF m
\* Where the text of m stands among those of its sender.
<1>4. ASSUME NEW u \in User, Texto(m, u)
      PROVE  /\ Ate(u, v, m.txt) /\ m.txt <= digitados[u]
             /\ \A k \in 2 .. Len(fila[v]) :
                   Texto(fila[v][k].msg, u) => m.txt <= fila[v][k].msg.txt
    <2>1. NaFila(u, v) /\ Ate(u, v, digitados[u]) /\ (Texto(ultima[v], u) => Ate(u, v, ultima[v].txt))
        BY DEF Ordem
    <2>2. CASE m = fila[v][1].msg
        <3>1. 1 \in DOMAIN fila[v] /\ Texto(fila[v][1].msg, u)
            BY <1>2, <1>4, <2>2
        <3>2. Ate(u, v, m.txt) /\ m.txt <= digitados[u]
            BY <2>1, <2>2, <3>1 DEF NaFila
        <3>3. ASSUME NEW k \in 2 .. Len(fila[v]), Texto(fila[v][k].msg, u)
              PROVE  m.txt <= fila[v][k].msg.txt
            <4>1. k \in DOMAIN fila[v] /\ 1 \in 1 .. k - 1
                BY <1>2
            <4>. QED
                BY <2>1, <2>2, <3>1, <3>3, <4>1 DEF NaFila
        <3>. QED
            BY <3>2, <3>3
    <2>3. CASE m = ultima[v]
        BY <1>2, <1>4, <2>1, <2>3 DEF NaFila, Ate
    <2>. QED
        BY <1>1, <2>2, <2>3
\* What is at or behind m stays in order.
<1>5. ASSUME NEW u \in User, NEW w \in User, NEW t \in Nat, Ate(u, w, t),
             w = v /\ Texto(m, u) => m.txt <= t
      PROVE  Ate(u, w, t)'
    <2>1. \A j \in DOMAIN arquivo'[w][u].ent : arquivo'[w][u].ent[j].txt <= t
        <3>1. CASE MesmosTextos(u, w)
            BY <1>5, <3>1 DEF MesmosTextos, Ate
        <3>2. CASE /\ w = v /\ tipo = "MSG_TXT" /\ u = m.from
                   /\ arquivo'[w][u].ent = Append(arquivo[w][u].ent, Novo(m.txt))
            <4>1. arquivo[w][u].ent \in Seq(Registro)
                BY UserNome, ArquivoTipo
            <4>2. m.txt <= t
                BY <1>1, <1>5, <3>2 DEF Texto, m
            <4>3. /\ DOMAIN arquivo'[w][u].ent = 1 .. Len(arquivo[w][u].ent) + 1
                  /\ DOMAIN arquivo[w][u].ent = 1 .. Len(arquivo[w][u].ent)
                  /\ Len(arquivo[w][u].ent) \in Nat
                  /\ \A i \in DOMAIN arquivo[w][u].ent :
                        arquivo'[w][u].ent[i] = arquivo[w][u].ent[i]
                  /\ arquivo'[w][u].ent[Len(arquivo[w][u].ent) + 1].txt = m.txt
                <5>1. LET s == arquivo[w][u].ent
                          a == Append(s, Novo(m.txt))
                      IN  /\ DOMAIN s = 1 .. Len(s) /\ Len(s) \in Nat /\ DOMAIN a = 1 .. Len(s) + 1
                          /\ \A i \in DOMAIN s : a[i] = s[i]
                          /\ a[Len(s) + 1].txt = m.txt
                    BY <1>3, <4>1, AppendTexto
                <5>2. arquivo'[w][u].ent = Append(arquivo[w][u].ent, Novo(m.txt))
                    BY <3>2
                <5>. QED
                    BY <5>1, <5>2
            <4>4. \A i \in DOMAIN arquivo[w][u].ent : arquivo[w][u].ent[i].txt <= t
                BY <1>5 DEF Ate
            <4>5. ASSUME NEW j \in DOMAIN arquivo'[w][u].ent
                  PROVE  arquivo'[w][u].ent[j].txt <= t
                <5>1. j \in DOMAIN arquivo[w][u].ent \/ j = Len(arquivo[w][u].ent) + 1
                    BY <4>3, UmaAMais
                <5>2. CASE j \in DOMAIN arquivo[w][u].ent
                    BY <4>3, <4>4, <5>2
                <5>3. CASE j = Len(arquivo[w][u].ent) + 1
                    BY <4>2, <4>3, <5>3
                <5>. QED
                    BY <5>1, <5>2, <5>3
            <4>. QED
                BY <4>5
        <3>. QED
            BY <3>1, <3>2 DEF m
    <2>2. Texto(ultima'[w], u) => ultima'[w].txt <= t
        BY <1>2, <1>5 DEF Ate
    <2>. QED
        BY <2>1, <2>2 DEF Ate
<1>6. ASSUME NEW u \in User, NEW w \in User, Texto(ultima'[w], u)
      PROVE  Ate(u, w, ultima[w].txt)'
    <2>1. CASE w = v
        <3>1. ultima'[w] = m /\ Texto(m, u)
            BY <1>2, <1>6, <2>1
        <3>2. Ate(u, w, m.txt)
            BY <1>4, <2>1, <3>1
        <3>3. ASSUME NEW t, t = m.txt
              PROVE  Ate(u, w, t)'
            BY <1>3, <1>5, <3>2, <3>3
        <3>. QED
            BY <3>1, <3>3 DEF Ate
    <2>2. CASE w # v
        <3>1. ultima'[w] = ultima[w] /\ ultima[w].txt \in Nat
            BY <1>2, <2>2, OrdemTipo
        <3>2. Ate(u, w, ultima[w].txt)
            BY <1>6, <3>1 DEF Ordem
        <3>3. ASSUME NEW t, t = ultima[w].txt
              PROVE  Ate(u, w, t)'
            BY <1>5, <2>2, <3>1, <3>2, <3>3
        <3>. QED
            BY <3>1, <3>3 DEF Ate
    <2>. QED
        BY <2>1, <2>2
<1>7. ASSUME NEW u \in User, NEW w \in User
      PROVE  Ate(u, w, digitados[u])'
    <2>1. Ate(u, w, digitados[u]) /\ digitados[u] \in Nat
        BY OrdemTipo DEF Ordem
    <2>2. ASSUME NEW t, t = digitados[u]
          PROVE  Ate(u, w, t)'
        BY <1>4, <1>5, <2>1, <2>2
    <2>. QED
        BY <2>2 DEF Ate
<1>8. ASSUME NEW u \in User, NEW w \in User
      PROVE  NaFila(u, w)'
    <2> DEFINE d == IF w = v THEN 1 ELSE 0
    <2>1. /\ fila[w] \in Seq(Conn) /\ DOMAIN fila[w] = 1 .. Len(fila[w]) /\ Len(fila[w]) \in Nat
          /\ \A k \in DOMAIN fila[w] : fila[w][k].msg.txt \in Nat
        BY OrdemTipo
    <2>2. \A k \in DOMAIN fila'[w] : /\ k \in Nat /\ k + d \in DOMAIN fila[w]
                                     /\ \A j \in 1 .. k : fila'[w][j] = fila[w][j + d]
        <3>1. CASE w = v
            <4>1. /\ d = 1 /\ Len(fila[w]) \in Nat \ {0} /\ DOMAIN fila'[w] = 1 .. Len(fila[w]) - 1
                  /\ DOMAIN fila[w] = 1 .. Len(fila[w])
                  /\ \A k \in 1 .. Len(fila[w]) - 1 : fila'[w][k] = fila[w][k + 1]
                BY <1>2, <3>1
            <4> HIDE DEF d
            <4>. QED
                BY <4>1
        <3>2. CASE w # v
            <4>1. d = 0 /\ fila'[w] = fila[w]
                BY <1>2, <3>2
            <4> HIDE DEF d
            <4>. QED
                BY <2>1, <4>1
        <3>. QED
            BY <3>1, <3>2
    <2>3. d \in {0, 1} /\ (w = v <=> d = 1)
        OBVIOUS
    <2> HIDE DEF d
    <2>. SUFFICES ASSUME NEW k \in DOMAIN fila'[w], Texto(fila'[w][k].msg, u)
                  PROVE  /\ Ate(u, w, fila[w][k].msg.txt)'
                         /\ fila'[w][k].msg.txt <= digitados[u]
                         /\ \A j \in 1 .. k - 1 :
                               Texto(fila'[w][j].msg, u) =>
                                  fila'[w][j].msg.txt <= fila'[w][k].msg.txt
        BY DEF NaFila
    <2>4. k \in Nat \ {0}
        <3>1. fila'[w] \in Seq(Conn)
            BY DEF TypeOK
        <3>. QED
            BY <3>1
    <2>5. PICK q \in DOMAIN fila[w] : q = k + d
        BY <2>2
    <2>6. fila'[w][k] = fila[w][q] /\ Texto(fila[w][q].msg, u) /\ fila[w][q].msg.txt \in Nat
        BY <2>1, <2>2, <2>4, <2>5
    <2>7. /\ Ate(u, w, fila[w][q].msg.txt) /\ fila[w][q].msg.txt <= digitados[u]
          /\ \A j \in 1 .. q - 1 :
                Texto(fila[w][j].msg, u) => fila[w][j].msg.txt <= fila[w][q].msg.txt
        BY <2>6 DEF Ordem, NaFila
    <2>8. w = v /\ Texto(m, u) => m.txt <= fila[w][q].msg.txt
        BY <1>4, <2>1, <2>3, <2>4, <2>5, <2>6
    <2>9. ASSUME NEW t, t = fila[w][q].msg.txt
          PROVE  Ate(u, w, t)'
        BY <1>5, <2>6, <2>7, <2>8, <2>9
    <2>10. Ate(u, w, fila[w][k].msg.txt)'
        BY <2>6, <2>9 DEF Ate
    <2>11. ASSUME NEW j \in 1 .. k - 1, Texto(fila'[w][j].msg, u)
          PROVE  fila'[w][j].msg.txt <= fila'[w][k].msg.txt
        <3>1. fila'[w][j] = fila[w][j + d] /\ j + d \in 1 .. q - 1
            BY <2>2, <2>3, <2>4, <2>5
        <3>. QED
            BY <2>6, <2>7, <2>11, <3>1
    <2>. QED
        BY <2>6, <2>7, <2>10, <2>11
<1>9. FifoReceipt'
    <2>. SUFFICES ASSUME NEW u \in User, NEW w \in User,
                         NEW k \in DOMAIN arquivo'[w][u].ent, NEW j \in 1 .. k
                  PROVE  arquivo'[w][u].ent[j].txt <= arquivo'[w][u].ent[k].txt
        BY DEF FifoReceipt
    <2>1. arquivo[w][u].ent \in Seq(Registro) /\ FifoReceipt
        BY UserNome, ArquivoTipo DEF Ordem
    <2>2. CASE MesmosTextos(u, w)
        BY <2>1, <2>2, FifoMesmos
    <2>3. CASE /\ w = v /\ tipo = "MSG_TXT" /\ u = m.from
               /\ arquivo'[w][u].ent = Append(arquivo[w][u].ent, Novo(m.txt))
        <3>1. Ate(u, v, m.txt)
            BY <1>1, <1>4, <2>3 DEF Texto, m
        <3>2. \A i \in DOMAIN arquivo[w][u].ent : arquivo[w][u].ent[i].txt <= m.txt
            BY <2>3, <3>1 DEF Ate
        <3>3. /\ DOMAIN arquivo[w][u].ent = 1 .. Len(arquivo[w][u].ent)
              /\ Len(arquivo[w][u].ent) \in Nat
              /\ DOMAIN arquivo'[w][u].ent = 1 .. Len(arquivo[w][u].ent) + 1
              /\ \A i \in DOMAIN arquivo[w][u].ent : arquivo'[w][u].ent[i] = arquivo[w][u].ent[i]
              /\ arquivo'[w][u].ent[Len(arquivo[w][u].ent) + 1].txt = m.txt
            <4>1. LET s == arquivo[w][u].ent
                      a == Append(s, Novo(m.txt))
                  IN  /\ DOMAIN s = 1 .. Len(s) /\ Len(s) \in Nat /\ DOMAIN a = 1 .. Len(s) + 1
                      /\ \A i \in DOMAIN s : a[i] = s[i]
                      /\ a[Len(s) + 1].txt = m.txt
                BY <1>3, <2>1, AppendTexto
            <4>2. arquivo'[w][u].ent = Append(arquivo[w][u].ent, Novo(m.txt))
                BY <2>3
            <4>. QED
                BY <4>1, <4>2
        <3>4. CASE k \in DOMAIN arquivo[w][u].ent
            <4>1. j \in DOMAIN arquivo[w][u].ent
                <5>. PICK n \in Nat : DOMAIN arquivo[w][u].ent = 1 .. n
                    BY <3>3
                <5>. QED
                    BY <3>4
            <4>2. arquivo[w][u].ent[j].txt <= arquivo[w][u].ent[k].txt
                BY <2>1, <3>4 DEF FifoReceipt
            <4>3. /\ arquivo'[w][u].ent[j] = arquivo[w][u].ent[j]
                  /\ arquivo'[w][u].ent[k] = arquivo[w][u].ent[k]
                BY <3>3, <3>4, <4>1
            <4>. QED
                BY <4>2, <4>3
        <3>5. CASE k = Len(arquivo[w][u].ent) + 1
            <4>1. arquivo'[w][u].ent[k].txt = m.txt
                BY <3>3, <3>5
            <4>2. CASE j \in DOMAIN arquivo[w][u].ent
                BY <3>2, <3>3, <4>1, <4>2
            <4>3. CASE j = k
                BY <1>3, <4>1, <4>3
            <4>4. j \in DOMAIN arquivo[w][u].ent \/ j = k
                BY <3>3, <3>5, UmaAMais
            <4>. QED
                BY <4>2, <4>3, <4>4
        <3>6. k \in DOMAIN arquivo[w][u].ent \/ k = Len(arquivo[w][u].ent) + 1
            BY <3>3, UmaAMais
        <3>. QED
            BY <3>4, <3>5, <3>6
    <2>. QED
        BY <2>2, <2>3 DEF m
<1>10. \A u \in User : APartir(u)'
    BY DEF APartir, Ordem
<1>. QED
    BY <1>6, <1>7, <1>8, <1>9, <1>10 DEF Ordem

-----------------------------------------------------------------------------
(***************************************************************************)
(* The actions.                                                            *)
(***************************************************************************)
LEMMA InitOrdem == Init => Ordem
<1>. SUFFICES ASSUME Init PROVE Ordem
    OBVIOUS
<1>1. \A u, v \in User : /\ arquivo[v][u].ent = <<>> /\ fila[v] = <<>>
                         /\ ultima[v].tipo = "nada" /\ digitados[u] = 0 /\ pc[u] = "ocioso"
    BY UserNome DEF Init, Vazio, SemMensagem
<1>2. FifoReceipt
    BY <1>1 DEF FifoReceipt
<1>3. \A u \in User : APartir(u)
    BY <1>1 DEF APartir
<1>4. \A u, v \in User : NaFila(u, v) /\ ~ Texto(ultima[v], u) /\ Ate(u, v, digitados[u])
    BY <1>1 DEF NaFila, Ate, Texto
<1>. QED
    BY <1>2, <1>3, <1>4 DEF Ordem

\* A death: queues lose connections or keep them, in their places.
LEMMA CaiOrdem ==
    ASSUME TypeOK, TypeOK', Ordem, NEW u \in User, Cai(u)
    PROVE  Ordem'
<1>1. /\ arquivo' = arquivo /\ ultima' = ultima /\ digitados' = digitados
      /\ comando' = comando /\ pc' = [pc EXCEPT ![u] = "ocioso"]
    BY DEF Cai
<1>2. ASSUME NEW v \in User, NEW k \in DOMAIN fila'[v]
      PROVE  k \in DOMAIN fila[v] /\ fila'[v][k].msg = fila[v][k].msg
    <2>1. CASE v = u
        <3>1. fila'[v] = <<>>
            BY <2>1 DEF Cai
        <3>. QED
            BY <1>2, <3>1
    <2>2. CASE v # u
        <3>1. fila'[v] = Rompidas(fila[v], u)
            BY <2>2 DEF Cai, Rompidas
        <3>2. k \in DOMAIN fila[v]
            BY <1>2, <3>1 DEF Rompidas
        <3>3. fila[v][k] \in Conn
            BY <3>2, ConnTipo
        <3>. QED
            BY <3>1, <3>2, <3>3 DEF Rompidas, Conn
    <2>. QED
        BY <2>1, <2>2
<1>3. \A x \in User : APartir(x)'
    BY <1>1 DEF APartir, Ordem, TypeOK
<1>4. \A x \in User : digitados'[x] \in Nat /\ digitados[x] <= digitados'[x]
    BY <1>1 DEF TypeOK
<1>5. \A x, v \in User : MesmosTextos(x, v)
    BY <1>1 DEF MesmosTextos
<1>. QED
    BY <1>1, <1>2, <1>3, <1>4, <1>5, OrdemMantida

LEMMA DigitarOrdem ==
    ASSUME TypeOK, TypeOK', Ordem, NEW u \in User, Digitar(u)
    PROVE  Ordem'
<1>1. arquivo' = arquivo /\ ultima' = ultima /\ fila' = fila
    BY DEF Digitar, executeCommandInsertion, executeCommandSend, executeCommandList
<1>2. \A x \in User : digitados'[x] \in Nat /\ digitados[x] <= digitados'[x]
    <2>1. \/ digitados' = digitados
          \/ digitados' = [digitados EXCEPT ![u] = @ + 1]
        BY DEF Digitar, executeCommandInsertion, executeCommandSend, executeCommandList
    <2>2. digitados \in [User -> Nat]
        BY DEF TypeOK
    <2>. QED
        BY <2>1, <2>2
<1>3. \A x \in User \ {u} : /\ pc'[x] = pc[x] /\ comando'[x] = comando[x]
                             /\ digitados'[x] = digitados[x]
    <2>. USE DEF TypeOK
    <2>1. CASE executeCommandInsertion(u)
        BY <2>1 DEF executeCommandInsertion, Comecar
    <2>2. CASE executeCommandSend(u)
        BY <2>2 DEF executeCommandSend, Comecar
    <2>3. CASE executeCommandList(u)
        BY <2>3 DEF executeCommandList
    <2>. QED
        BY <2>1, <2>2, <2>3 DEF Digitar
<1>4. pc'[u] \in {"marcar", "conectar"} /\ comando'[u].tipo = "MSG_TXT" =>
         comando'[u].txt = digitados'[u]
    <2>1. CASE executeCommandInsertion(u)
        <3>1. PICK a \in Agenda : Comecar(u, "ADD_CONTACT", a[2], a[3], 0)
            BY <2>1 DEF executeCommandInsertion
        <3>. QED
            BY <3>1 DEF Comecar, TypeOK
    <2>2. CASE executeCommandSend(u)
        <3>1. PICK n, ip : Comecar(u, "MSG_TXT", n, ip, digitados[u] + 1)
            BY <2>2 DEF executeCommandSend
        <3>. QED
            BY <2>2, <3>1 DEF executeCommandSend, Comecar, TypeOK
    <2>3. CASE executeCommandList(u)
        BY <2>3 DEF executeCommandList, TypeOK
    <2>. QED
        BY <2>1, <2>2, <2>3 DEF Digitar
<1>5. \A x \in User : APartir(x)'
    BY <1>3, <1>4 DEF APartir, Ordem
<1>6. \A x, v \in User : MesmosTextos(x, v)
    BY <1>1 DEF MesmosTextos
<1>. QED
    BY <1>1, <1>2, <1>5, <1>6, OrdemMantida

LEMMA ClienteOrdem ==
    ASSUME TypeOK, TypeOK', Ordem, NEW u \in User, initClient(u)
    PROVE  Ordem'
<1>1. CASE MarcarLidas(u)
    <2>1. comando[u].nome \in Nome /\ pc[u] = "marcar"
        BY <1>1 DEF MarcarLidas, TypeOK, Comando
    <2>2. arquivo[u][comando[u].nome].ent \in Seq(Registro)
        BY <2>1, ArquivoTipo
    <2>3. arquivo' = GravaEnt(arquivo, u, comando[u].nome,
                         Lidas(arquivo[u][comando[u].nome].ent))
        BY <1>1 DEF MarcarLidas, GravaEnt
    <2> DEFINE lidas == Lidas(arquivo[u][comando[u].nome].ent)
    <2>4. /\ lidas \in Seq(Registro)
          /\ DOMAIN lidas = DOMAIN arquivo[u][comando[u].nome].ent
          /\ \A k \in DOMAIN arquivo[u][comando[u].nome].ent :
                lidas[k].txt = arquivo[u][comando[u].nome].ent[k].txt
        BY <2>2, LidasTipo
    <2> HIDE DEF lidas
    <2>5. ASSUME NEW x \in User, NEW v \in User
          PROVE  MesmosTextos(x, v)
        <3>1. arquivo'[v][x].ent = IF v = u /\ x = comando[u].nome THEN lidas
                                   ELSE arquivo[v][x].ent
            <4>1. x \in Nome /\ lidas \in Seq(Registro)
                BY <2>4, UserNome
            <4>2. arquivo' = GravaEnt(arquivo, u, comando[u].nome, lidas)
                BY <2>3 DEF lidas
            <4>. QED
                BY <2>1, <4>1, <4>2, GravaUser
        <3>. QED
            BY <2>4, <3>1 DEF MesmosTextos
    <2>6. /\ fila' = fila /\ ultima' = ultima /\ digitados' = digitados /\ comando' = comando
          /\ pc' = [pc EXCEPT ![u] = "conectar"]
        BY <1>1 DEF MarcarLidas
    <2>7. \A x \in User : APartir(x)'
        BY <2>1, <2>6 DEF APartir, Ordem, TypeOK
    <2>8. \A x \in User : digitados'[x] \in Nat /\ digitados[x] <= digitados'[x]
        BY <2>6 DEF TypeOK
    <2>. QED
        BY <2>5, <2>6, <2>7, <2>8, OrdemMantida
<1>2. CASE Conectar(u)
    BY <1>2, ConectarOrdem
<1>3. CASE ConectarFalha(u)
    BY <1>3, CaiOrdem DEF ConectarFalha
<1>4. CASE Enviar(u)
    <2>1. /\ arquivo' = arquivo /\ ultima' = ultima /\ digitados' = digitados
          /\ comando' = comando /\ comando[u].ip \in User
          /\ \A x \in User : pc'[x] = pc[x] \/ pc'[x] \notin {"marcar", "conectar"}
        BY <1>4 DEF Enviar, TypeOK, Comando
    <2>2. fila' = [fila EXCEPT ![comando[u].ip] = Enviadas(fila[comando[u].ip], u)]
        BY <1>4 DEF Enviar, Enviadas
    <2>3. ASSUME NEW v \in User, NEW k \in DOMAIN fila'[v]
          PROVE  k \in DOMAIN fila[v] /\ fila'[v][k].msg = fila[v][k].msg
        <3>1. fila[v] \in Seq(Conn) /\ (fila'[v] = fila[v] \/ fila'[v] = Enviadas(fila[v], u))
            BY <2>1, <2>2 DEF TypeOK
        <3>. QED
            BY <2>3, <3>1, EnviadasTipo
    <2>4. \A x \in User : APartir(x)'
        BY <2>1 DEF APartir, Ordem
    <2>6. \A x \in User : digitados'[x] \in Nat /\ digitados[x] <= digitados'[x]
        BY <2>1 DEF TypeOK
    <2>5. \A x, v \in User : MesmosTextos(x, v)
        BY <2>1 DEF MesmosTextos
    <2>. QED
        BY <2>1, <2>3, <2>4, <2>5, <2>6, OrdemMantida
<1>5. CASE ReceberResposta(u)
    <2>1. /\ fila' = fila /\ ultima' = ultima /\ digitados' = digitados /\ comando' = comando
          /\ \A x \in User : pc'[x] = pc[x] \/ pc'[x] \notin {"marcar", "conectar"}
        BY <1>5 DEF ReceberResposta, TypeOK
    <2>2. \/ arquivo' = arquivo
          \/ arquivo' = GravaSai(arquivo, u, comando[u].nome,
                         Append(arquivo[u][comando[u].nome].sai, Novo(comando[u].txt)))
        BY <1>5 DEF ReceberResposta, Confirmado, GravaSai
    <2>3. ASSUME NEW x \in User, NEW v \in User
          PROVE  arquivo'[v][x].ent = arquivo[v][x].ent
        <3>1. comando[u].nome \in Nome /\ comando[u].txt \in Nat
            BY DEF TypeOK, Comando
        <3>2. arquivo[u][comando[u].nome].sai \in Seq(Registro) /\ Novo(comando[u].txt) \in Registro
            BY <3>1, ArquivoTipo DEF Novo, Registro
        <3>3. Append(arquivo[u][comando[u].nome].sai, Novo(comando[u].txt)) \in Seq(Registro)
            BY <3>2, AppendTipo
        <3> DEFINE regs == Append(arquivo[u][comando[u].nome].sai, Novo(comando[u].txt))
        <3>4. /\ regs \in Seq(Registro)
              /\ arquivo' = arquivo \/ arquivo' = GravaSai(arquivo, u, comando[u].nome, regs)
            BY <2>2, <3>3
        <3> HIDE DEF regs
        <3>. QED
            BY <3>1, <3>4, GravaUser
    <2>4. \A x \in User : APartir(x)'
        BY <2>1 DEF APartir, Ordem
    <2>6. \A x \in User : digitados'[x] \in Nat /\ digitados[x] <= digitados'[x]
        BY <2>1 DEF TypeOK
    <2>5. \A x, v \in User : MesmosTextos(x, v)
        BY <2>3 DEF MesmosTextos
    <2>. QED
        BY <2>1, <2>4, <2>5, <2>6, OrdemMantida
<1>. QED
    BY <1>1, <1>2, <1>3, <1>4, <1>5 DEF initClient

LEMMA ServidorOrdem ==
    ASSUME TypeOK, TypeOK', Ordem, NEW v \in User, serverThread(v)
    PROVE  Ordem'
<1>1. CASE TratarLeituraFalha(v)
    BY <1>1, CaiOrdem DEF TratarLeituraFalha
<1>2. ASSUME NEW tipo, Receber(v, tipo)
      PROVE  Mensagem(v).from \in Nome /\ Mensagem(v).from \in User /\ Mensagem(v).txt \in Nat
    <2>1. fila[v] \in Seq(Conn) /\ fila[v] # <<>> /\ ultima[v] \in Msg
        BY <1>2 DEF Receber, TypeOK
    <2>2. Atendida(v) \in Conn
        BY <2>1 DEF Atendida
    <2>3. Mensagem(v) \in Msg
        BY <2>1, <2>2 DEF Mensagem, Conn
    <2>. QED
        BY <2>3, UserNome DEF Msg
<1>3. CASE TratarTexto(v)
    <2>1. Receber(v, "MSG_TXT") /\ UNCHANGED <<pc, comando, digitados>>
        BY <1>3 DEF TratarTexto
    <2>2. /\ Mensagem(v).from \in Nome /\ Mensagem(v).from \in User
          /\ arquivo[v][Mensagem(v).from].ent \in Seq(Registro)
          /\ Novo(Mensagem(v).txt) \in Registro
        BY <1>2, <2>1, ArquivoTipo DEF Novo, Registro
    <2>3. Append(arquivo[v][Mensagem(v).from].ent, Novo(Mensagem(v).txt)) \in Seq(Registro)
        BY <2>2, AppendTipo
    <2>4. \/ arquivo' = arquivo
          \/ arquivo' = GravaEnt(arquivo, v, Mensagem(v).from,
                         Append(arquivo[v][Mensagem(v).from].ent, Novo(Mensagem(v).txt)))
        BY <1>3 DEF TratarTexto, GravaEnt
    <2>5. ASSUME NEW x \in User, NEW w \in User
          PROVE  \/ arquivo'[w][x].ent = arquivo[w][x].ent
                 \/ /\ w = v /\ x = Mensagem(v).from
                    /\ arquivo'[w][x].ent = Append(arquivo[w][x].ent, Novo(Mensagem(v).txt))
        <3> DEFINE regs == Append(arquivo[v][Mensagem(v).from].ent, Novo(Mensagem(v).txt))
        <3>1. /\ regs \in Seq(Registro)
              /\ arquivo' = arquivo \/ arquivo' = GravaEnt(arquivo, v, Mensagem(v).from, regs)
            BY <2>3, <2>4
        <3> HIDE DEF regs
        <3>2. \/ arquivo'[w][x].ent = arquivo[w][x].ent
              \/ w = v /\ x = Mensagem(v).from /\ arquivo'[w][x].ent = regs
            BY <2>2, <3>1, GravaUser
        <3>. QED
            BY <3>2 DEF regs
    <2>. QED
        BY <2>1, <2>5, ReceberOrdem DEF MesmosTextos
<1>4. CASE TratarInsercao(v)
    <2>1. Receber(v, "ADD_CONTACT") /\ UNCHANGED <<arquivo, pc, comando, digitados>>
        BY <1>4 DEF TratarInsercao
    <2>. QED
        BY <2>1, ReceberOrdem DEF MesmosTextos
<1>5. CASE TratarLeitura(v)
    <2>1. Receber(v, "READ_MSGS") /\ UNCHANGED <<pc, comando, digitados>>
        BY <1>5 DEF TratarLeitura
    <2>2. /\ Mensagem(v).from \in Nome
          /\ Lidas(arquivo[v][Mensagem(v).from].sai) \in Seq(Registro)
        BY <1>2, <2>1, ArquivoTipo, LidasTipo
    <2>3. \/ arquivo' = arquivo
          \/ arquivo' = GravaSai(arquivo, v, Mensagem(v).from,
                                 Lidas(arquivo[v][Mensagem(v).from].sai))
        BY <1>5 DEF TratarLeitura, GravaSai
    <2>4. \A x, w \in User : arquivo'[w][x].ent = arquivo[w][x].ent
        BY <2>2, <2>3, GravaUser
    <2>. QED
        BY <2>1, <2>4, ReceberOrdem DEF MesmosTextos
<1>6. CASE TratarNada(v)
    <2>1. Receber(v, "nada") /\ UNCHANGED <<arquivo, pc, comando, digitados>>
        BY <1>6 DEF TratarNada
    <2>. QED
        BY <2>1, ReceberOrdem DEF MesmosTextos
<1>. QED
    BY <1>1, <1>3, <1>4, <1>5, <1>6 DEF serverThread

LEMMA LoginOrdem ==
    ASSUME TypeOK, TypeOK', Ordem, NEW u \in User, Login(u)
    PROVE  Ordem'
<1>1. /\ arquivo' = arquivo /\ fila' = fila /\ digitados' = digitados
      /\ pc' = pc /\ comando' = comando
    BY DEF Login
<1>2. \A v \in User : ultima'[v] = ultima[v] \/ ultima'[v].tipo # "MSG_TXT"
    BY DEF Login, SemMensagem, TypeOK
<1>3. \A x \in User : /\ APartir(x)'
                      /\ digitados'[x] \in Nat /\ digitados[x] <= digitados'[x]
    BY <1>1 DEF APartir, Ordem, TypeOK
<1>4. \A x, v \in User : MesmosTextos(x, v)
    BY <1>1 DEF MesmosTextos
<1>. QED
    BY <1>1, <1>2, <1>3, <1>4, OrdemMantida

LEMMA NextOrdem == TypeOK /\ Ordem /\ [Next]_vars => Ordem'
<1>. SUFFICES ASSUME TypeOK, Ordem, [Next]_vars PROVE Ordem'
    OBVIOUS
<1>1. TypeOK'
    BY NextTypeOK
<1>2. ASSUME NEW u \in User, Matar(u) PROVE Ordem'
    BY <1>1, <1>2, CaiOrdem DEF Matar
<1>3. CASE UNCHANGED vars
    BY <1>3 DEF vars, Ordem, NaFila, Ate, Texto, APartir, FifoReceipt
<1>. QED
    BY <1>1, <1>2, <1>3, DigitarOrdem, ClienteOrdem, ServidorOrdem, LoginOrdem DEF Next

\* Deaths, logins, broken connections and messages handled twice included, the
\* texts of one user never overtake each other in the file of another, for any
\* users, names and bounds.
THEOREM TextsInOrder == Spec => []FifoReceipt
<1>1. Ordem => FifoReceipt
    BY DEF Ordem
<1>2. Init => TypeOK /\ Ordem
    BY InitTypeOK, InitOrdem
<1>3. TypeOK /\ Ordem /\ [Next]_vars => (TypeOK /\ Ordem)'
    BY NextTypeOK, NextOrdem
<1>. QED
    BY <1>1, <1>2, <1>3, PTL DEF Spec
=============================================================================
