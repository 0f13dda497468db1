------------------------------ MODULE WhatsPPD ------------------------------
(***************************************************************************)
(* PPD/WhatsPPD: a messenger between machines.  Every user runs one        *)
(* process with two threads.  The main thread reads commands and, for a    *)
(* command that needs another user, opens a connection to that user's      *)
(* server, sends one message and waits for the answer (initClient).  The   *)
(* server thread takes the connections in the order they were made and     *)
(* handles each to its end (serverThread).  The two threads share the list *)
(* of contacts and the files of messages; only the server takes the lock,  *)
(* so it keeps nobody out.                                                 *)
(*                                                                         *)
(* This module has the contacts (#i), the texts (#s), the listings (#l)    *)
(* and the life of the processes: a process is killed, or dies of its own  *)
(* errors, and logs in again.  A user is known by its user name and by its *)
(* IP address; both are written u here.  The name a contact is stored      *)
(* under is the one typed in #i, which need not be the user name.          *)
(*                                                                         *)
(* A file Messages/<name>.msg holds records "--> text" and "<-- text", a   *)
(* second '*' marking the ones that were read.  Nothing depends on how the *)
(* two kinds interleave, so a file is a pair of sequences.  A text is the  *)
(* number of the #s command that sent it.                                  *)
(***************************************************************************)
EXTENDS Naturals, Sequences

CONSTANTS
    User,
    Agenda,        \* the commands #i a user may type: <<user, name, ip>>
    MaxContatos,   \* capacity of the list of contacts (8 in the code)
    Backlog,       \* connections that may wait for a server (listen)
    MaxTextos,     \* bound: texts each user sends
    MaxQuedas      \* bound: deaths of processes after which nobody is killed

Nome == User \cup {a[2] : a \in Agenda}

ASSUME AgendaAssumption ==
    \A a \in Agenda : a = <<a[1], a[2], a[3]>> /\ a[1] \in User /\ a[3] \in User
ASSUME BoundsAssumption ==
    /\ MaxContatos \in Nat /\ Backlog \in Nat \ {0}
    /\ MaxTextos \in [User -> Nat] /\ MaxQuedas \in Nat

VARIABLES
    vivo,       \* vivo[u]: the process of u runs
    contatos,   \* contatos[u]: the contacts in memory
    disco,      \* disco[u]: the contacts in Users/<u>.u
    arquivo,    \* arquivo[u][n]: Messages/<n>.msg of u
    pc,         \* pc[u]: where the main thread is
    comando,    \* comando[u]: the command the main thread executes
    resposta,   \* resposta[u]: what has come back on its connection
    fila,       \* fila[v]: connections the server of v has not finished
    ultima,     \* ultima[v]: the buffer msg of the server, kept between messages
    digitados,  \* digitados[u]: texts u has sent or tried to send
    quedas      \* deaths of processes so far

vars == <<vivo, contatos, disco, arquivo, pc, comando, resposta, fila,
          ultima, digitados, quedas>>

Contato == [name : Nome, ip : User]
Registro == [txt : Nat, lida : BOOLEAN]
Arquivo == [sai : Seq(Registro), ent : Seq(Registro)]
Tipo == {"MSG_TXT", "ADD_CONTACT", "READ_MSGS"}
SemMensagem(v) == [tipo |-> "nada", from |-> v, txt |-> 0]

-----------------------------------------------------------------------------
(***************************************************************************)
(* user.c: the list of contacts.                                           *)
(***************************************************************************)
ContactExist(u, name, ip) ==
    \E k \in DOMAIN contatos[u] :
        contatos[u][k].name = name \/ contatos[u][k].ip = ip

\* Mutant: the capacity is not checked.
AddContact_SemLimite(lista, name, ip) ==
    Append(lista, [name |-> name, ip |-> ip])

\* AddContact: when the list is full, only a line is printed.
AddContact(lista, name, ip) ==
    IF Len(lista) < MaxContatos
    THEN Append(lista, [name |-> name, ip |-> ip])
    ELSE lista

(***************************************************************************)
(* The files of messages.                                                  *)
(***************************************************************************)
Vazio == [sai |-> <<>>, ent |-> <<>>]
Existe(u, n) == arquivo[u][n] # Vazio
Novo(txt) == [txt |-> txt, lida |-> FALSE]
Lidas(regs) == [k \in DOMAIN regs |-> [regs[k] EXCEPT !.lida = TRUE]]

-----------------------------------------------------------------------------
\* compile.sh has removed Users/* and Messages/*; everybody logs in.
Init ==
    /\ vivo = [u \in User |-> TRUE]
    /\ contatos = [u \in User |-> <<>>]
    /\ disco = [u \in User |-> <<>>]
    /\ arquivo = [u \in User |-> [n \in Nome |-> Vazio]]
    /\ pc = [u \in User |-> "ocioso"]
    /\ comando = [u \in User |-> [tipo |-> "nada", nome |-> u, ip |-> u, txt |-> 0]]
    /\ resposta = [u \in User |-> "nenhuma"]
    /\ fila = [u \in User |-> <<>>]
    /\ ultima = [u \in User |-> SemMensagem(u)]
    /\ digitados = [u \in User |-> 0]
    /\ quedas = 0

(***************************************************************************)
(* The commands of the main thread.  A command that prints an error and    *)
(* does nothing else is left out.                                          *)
(***************************************************************************)
Comecar(u, tipo, nome, ip, txt) ==
    /\ comando' = [comando EXCEPT ![u] =
                      [tipo |-> tipo, nome |-> nome, ip |-> ip, txt |-> txt]]
    /\ pc' = [pc EXCEPT ![u] = "conectar"]

Livre(u) == vivo[u] /\ pc[u] = "ocioso"

\* #i name ip
executeCommandInsertion(u) ==
    /\ Livre(u)
    /\ \E a \in Agenda :
          /\ a[1] = u /\ ~ ContactExist(u, a[2], a[3])
          /\ Comecar(u, "ADD_CONTACT", a[2], a[3], 0)
    /\ UNCHANGED <<vivo, contatos, disco, arquivo, resposta, fila,
                   ultima, digitados, quedas>>

\* #s name text: to the first contact of that name.
executeCommandSend(u) ==
    /\ Livre(u)
    /\ digitados[u] < MaxTextos[u]
    /\ \E k \in DOMAIN contatos[u] :
          /\ \A j \in 1 .. k - 1 : contatos[u][j].name # contatos[u][k].name
          /\ Comecar(u, "MSG_TXT", contatos[u][k].name, contatos[u][k].ip,
                     digitados[u] + 1)
    /\ digitados' = [digitados EXCEPT ![u] = @ + 1]
    /\ UNCHANGED <<vivo, contatos, disco, arquivo, resposta, fila,
                   ultima, quedas>>

\* #l name: the first pass over the file prints it, and changes nothing.
executeCommandList(u) ==
    /\ Livre(u)
    /\ \E k \in DOMAIN contatos[u] :
          LET n == contatos[u][k].name IN
          /\ \A j \in 1 .. k - 1 : contatos[u][j].name # n
          /\ Existe(u, n)
          /\ comando' = [comando EXCEPT ![u] =
                [tipo |-> "READ_MSGS", nome |-> n, ip |-> contatos[u][k].ip, txt |-> 0]]
    /\ pc' = [pc EXCEPT ![u] = "marcar"]
    /\ UNCHANGED <<vivo, contatos, disco, arquivo, resposta, fila, ultima,
                   digitados, quedas>>

\* The second pass marks every received record as read.
MarcarLidas(u) ==
    /\ pc[u] = "marcar"
    /\ arquivo' = [arquivo EXCEPT ![u][comando[u].nome].ent = Lidas(@)]
    /\ pc' = [pc EXCEPT ![u] = "conectar"]
    /\ UNCHANGED <<vivo, contatos, disco, comando, resposta, fila,
                   ultima, digitados, quedas>>

(***************************************************************************)
(* initClient: connect, send one message, wait for the answer.  A          *)
(* connection is "aberta" until its message is sent, then "enviada"; if    *)
(* the client dies it is "fechada" (nothing was sent) or "orfa".           *)
(***************************************************************************)
Conexao(u) ==
    [ip |-> u, estado |-> "aberta",
     msg |-> [tipo |-> comando[u].tipo, from |-> u, txt |-> comando[u].txt]]

\* The process of u is gone: its server refuses and breaks connections, its
\* own connections break, and memory is lost.
Cai(u) ==
    /\ vivo' = [vivo EXCEPT ![u] = FALSE]
    /\ pc' = [pc EXCEPT ![u] = "ocioso"]
    /\ fila' = [v \in User |-> IF v = u THEN <<>> ELSE
                  [k \in DOMAIN fila[v] |->
                     IF fila[v][k].ip # u THEN fila[v][k]
                     ELSE [fila[v][k] EXCEPT !.estado =
                             IF @ \in {"aberta", "fechada"} THEN "fechada" ELSE "orfa"]]]
    /\ resposta' = [w \in User |->
                      IF w = u THEN "nenhuma"
                      ELSE IF /\ pc[w] \in {"enviar", "esperar"}
                              /\ comando[w].ip = u /\ resposta[w] = "nenhuma"
                           THEN "perdida" ELSE resposta[w]]
    /\ quedas' = quedas + 1
    /\ UNCHANGED <<contatos, disco, arquivo, comando, ultima, digitados>>

Conectar(u) ==
    LET v == comando[u].ip IN
    /\ pc[u] = "conectar" /\ vivo[v]
    /\ Len(fila[v]) < Backlog
    /\ fila' = [fila EXCEPT ![v] = Append(@, Conexao(u))]
    /\ pc' = [pc EXCEPT ![u] = "enviar"]
    /\ UNCHANGED <<vivo, contatos, disco, arquivo, comando, resposta,
                   ultima, digitados, quedas>>

\* Nobody listens: the message is sent on the unconnected socket all the same,
\* and SIGPIPE ends the process.
ConectarFalha(u) ==
    /\ pc[u] = "conectar" /\ ~ vivo[comando[u].ip]
    /\ Cai(u)

\* Mutant: no command waits for an answer.
Enviar_SemEspera(u) ==
    LET v == comando[u].ip IN
    /\ pc[u] = "enviar"
    /\ fila' = [fila EXCEPT ![v] = [k \in DOMAIN @ |->
                  IF @[k].ip = u /\ @[k].estado = "aberta"
                  THEN [@[k] EXCEPT !.estado = "enviada"] ELSE @[k]]]
    /\ pc' = [pc EXCEPT ![u] = "ocioso"]
    /\ resposta' = [resposta EXCEPT ![u] = "nenhuma"]
    /\ UNCHANGED <<vivo, contatos, disco, arquivo, comando, ultima,
                   digitados, quedas>>

\* Nobody waits for an answer to READ_MSGS.
Enviar(u) ==
    LET v == comando[u].ip IN
    /\ pc[u] = "enviar"
    /\ fila' = [fila EXCEPT ![v] = [k \in DOMAIN @ |->
                  IF @[k].ip = u /\ @[k].estado = "aberta"
                  THEN [@[k] EXCEPT !.estado = "enviada"] ELSE @[k]]]
    /\ IF comando[u].tipo = "READ_MSGS"
       THEN /\ pc' = [pc EXCEPT ![u] = "ocioso"]
            /\ resposta' = [resposta EXCEPT ![u] = "nenhuma"]
       ELSE /\ pc' = [pc EXCEPT ![u] = "esperar"]
            /\ resposta' = resposta
    /\ UNCHANGED <<vivo, contatos, disco, arquivo, comando, ultima,
                   digitados, quedas>>

\* What the main thread does with RET_MSG_OK.
Confirmado(u) ==
    LET c == comando[u] IN
    \/ /\ c.tipo = "ADD_CONTACT"
       /\ contatos' = [contatos EXCEPT ![u] = AddContact(@, c.nome, c.ip)]
       /\ disco' = [disco EXCEPT ![u] = AddContact(contatos[u], c.nome, c.ip)]
       /\ arquivo' = arquivo
    \/ /\ c.tipo = "MSG_TXT"
       /\ arquivo' = [arquivo EXCEPT ![u][c.nome].sai = Append(@, Novo(c.txt))]
       /\ UNCHANGED <<contatos, disco>>

\* When the connection broke, recv leaves ret_msg as it found it on the stack:
\* any answer, or none of the four, and then the loop never ends.
ReceberResposta(u) ==
    /\ pc[u] = "esperar" /\ resposta[u] # "nenhuma"
    /\ \/ /\ resposta[u] \in {"RET_MSG_OK", "perdida"}
          /\ Confirmado(u)
          /\ pc' = [pc EXCEPT ![u] = "ocioso"]
       \/ /\ resposta[u] \in {"RET_MSG_FAIL", "perdida"}
          /\ pc' = [pc EXCEPT ![u] = "ocioso"]
          /\ UNCHANGED <<contatos, disco, arquivo>>
       \/ /\ resposta[u] = "perdida"
          /\ pc' = [pc EXCEPT ![u] = "girando"]
          /\ UNCHANGED <<contatos, disco, arquivo>>
    /\ resposta' = [resposta EXCEPT ![u] = "nenhuma"]
    /\ UNCHANGED <<vivo, comando, fila, ultima, digitados, quedas>>

-----------------------------------------------------------------------------
(***************************************************************************)
(* serverThread.  Each action takes the oldest connection, handles one     *)
(* kind of message with the whole answer, and closes the connection.  recv *)
(* on a connection closed by its client returns 0, which nobody looks at:  *)
(* the buffer still holds the message handled before.                      *)
(***************************************************************************)
Atendida(v) == Head(fila[v])
Mensagem(v) == IF Atendida(v).estado = "fechada" THEN ultima[v] ELSE Atendida(v).msg

Receber(v, tipo) ==
    /\ vivo[v] /\ fila[v] # <<>> /\ Atendida(v).estado # "aberta"
    /\ Mensagem(v).tipo = tipo
    /\ ultima' = [ultima EXCEPT ![v] = Mensagem(v)]
    /\ fila' = [fila EXCEPT ![v] = Tail(@)]

\* The answer reaches a client that still waits on this connection.
Responder(v, tipo) ==
    resposta' = IF Atendida(v).estado = "enviada"
                THEN [resposta EXCEPT ![Atendida(v).ip] = tipo]
                ELSE resposta

Conhecido(v) == ContactExist(v, Mensagem(v).from, Atendida(v).ip)

\* Mutant: the newest text is written at the beginning of the file.
TratarTexto_NoInicio(v) ==
    /\ Receber(v, "MSG_TXT")
    /\ IF Conhecido(v)
       THEN /\ arquivo' = [arquivo EXCEPT ![v][Mensagem(v).from].ent =
                              <<Novo(Mensagem(v).txt)>> \o @]
            /\ Responder(v, "RET_MSG_OK")
       ELSE /\ arquivo' = arquivo
            /\ Responder(v, "RET_MSG_FAIL")
    /\ UNCHANGED <<vivo, contatos, disco, pc, comando, digitados, quedas>>

\* A text of a contact goes to Messages/<from>.msg.
TratarTexto(v) ==
    /\ Receber(v, "MSG_TXT")
    /\ IF Conhecido(v)
       THEN /\ arquivo' = [arquivo EXCEPT ![v][Mensagem(v).from].ent =
                              Append(@, Novo(Mensagem(v).txt))]
            /\ Responder(v, "RET_MSG_OK")
       ELSE /\ arquivo' = arquivo
            /\ Responder(v, "RET_MSG_FAIL")
    /\ UNCHANGED <<vivo, contatos, disco, pc, comando, digitados, quedas>>

\* Mutant: a known contact, or a full list, gets no answer.
TratarInsercao_SemRecusa(v) ==
    /\ Receber(v, "ADD_CONTACT")
    /\ IF ~ Conhecido(v) /\ Len(contatos[v]) < MaxContatos
       THEN LET lista == AddContact(contatos[v], Mensagem(v).from, Atendida(v).ip) IN
            /\ contatos' = [contatos EXCEPT ![v] = lista]
            /\ disco' = [disco EXCEPT ![v] = lista]
            /\ Responder(v, "RET_MSG_OK")
       ELSE UNCHANGED <<contatos, disco, resposta>>
    /\ UNCHANGED <<vivo, arquivo, pc, comando, digitados, quedas>>

\* Mutant: the new contact is saved but not kept in memory.
TratarInsercao_SoNoDisco(v) ==
    /\ Receber(v, "ADD_CONTACT")
    /\ IF ~ Conhecido(v) /\ Len(contatos[v]) < MaxContatos
       THEN /\ disco' = [disco EXCEPT ![v] =
                  AddContact(@, Mensagem(v).from, Atendida(v).ip)]
            /\ Responder(v, "RET_MSG_OK")
       ELSE disco' = disco /\ Responder(v, "RET_MSG_FAIL")
    /\ UNCHANGED <<vivo, contatos, arquivo, pc, comando, digitados, quedas>>

TratarInsercao(v) ==
    /\ Receber(v, "ADD_CONTACT")
    /\ IF ~ Conhecido(v) /\ Len(contatos[v]) < MaxContatos
       THEN LET lista == AddContact(contatos[v], Mensagem(v).from, Atendida(v).ip) IN
            /\ contatos' = [contatos EXCEPT ![v] = lista]
            /\ disco' = [disco EXCEPT ![v] = lista]
            /\ Responder(v, "RET_MSG_OK")
       ELSE /\ UNCHANGED <<contatos, disco>>
            /\ Responder(v, "RET_MSG_FAIL")
    /\ UNCHANGED <<vivo, arquivo, pc, comando, digitados, quedas>>

\* Every record "-->" of the file becomes read.  There is no answer.
TratarLeitura(v) ==
    LET n == Mensagem(v).from IN
    /\ Receber(v, "READ_MSGS")
    /\ Conhecido(v) => Existe(v, n)
    /\ arquivo' = IF Conhecido(v)
                  THEN [arquivo EXCEPT ![v][n].sai = Lidas(@)]
                  ELSE arquivo
    /\ UNCHANGED <<vivo, contatos, disco, pc, comando, resposta,
                   digitados, quedas>>

\* The file does not exist yet, fopen returns NULL and fread dereferences it.
TratarLeituraFalha(v) ==
    /\ vivo[v] /\ fila[v] # <<>> /\ Atendida(v).estado # "aberta"
    /\ Mensagem(v).tipo = "READ_MSGS"
    /\ Conhecido(v) /\ ~ Existe(v, Mensagem(v).from)
    /\ Cai(v)

\* The connection closed before any message ever arrived here.
TratarNada(v) ==
    /\ Receber(v, "nada")
    /\ UNCHANGED <<vivo, contatos, disco, arquivo, pc, comando,
                   resposta, digitados, quedas>>

(***************************************************************************)
(* The life of a process.                                                  *)
(***************************************************************************)
\* ^C, or the end of the machine, at any moment.
Matar(u) ==
    /\ vivo[u] /\ quedas < MaxQuedas
    /\ Cai(u)

Login(u) ==
    /\ ~ vivo[u] /\ quedas <= MaxQuedas
    /\ vivo' = [vivo EXCEPT ![u] = TRUE]
    /\ contatos' = [contatos EXCEPT ![u] = disco[u]]
    /\ ultima' = [ultima EXCEPT ![u] = SemMensagem(u)]
    /\ UNCHANGED <<disco, arquivo, pc, comando, resposta, fila,
                   digitados, quedas>>

-----------------------------------------------------------------------------
Digitar(u) ==
    executeCommandInsertion(u) \/ executeCommandSend(u) \/ executeCommandList(u)

initClient(u) ==
    MarcarLidas(u) \/ Conectar(u) \/ ConectarFalha(u) \/ Enviar(u) \/ ReceberResposta(u)

serverThread(v) ==
    \/ TratarTexto(v) \/ TratarInsercao(v) \/ TratarLeitura(v)
    \/ TratarLeituraFalha(v) \/ TratarNada(v)

Next ==
    \E u \in User :
        Digitar(u) \/ initClient(u) \/ serverThread(u) \/ Matar(u) \/ Login(u)

Spec == Init /\ [][Next]_vars

\* Both threads of a process run; users need not type, nor log in.
FairSpec ==
    Spec /\ \A u \in User : WF_vars(initClient(u)) /\ WF_vars(serverThread(u))

-----------------------------------------------------------------------------
(***************************************************************************)
(* Properties.                                                             *)
(***************************************************************************)
Comando == [tipo : Tipo \cup {"nada"}, nome : Nome, ip : User, txt : Nat]
Msg == [tipo : Tipo \cup {"nada"}, from : User, txt : Nat]
Conn == [ip : User, estado : {"aberta", "enviada", "fechada", "orfa"}, msg : Msg]

\* The type invariant (user.h:9-16, mensagem.h:27-36); no list of contacts
\* outgrows its array.
TypeOK ==
    /\ vivo \in [User -> BOOLEAN]
    /\ contatos \in [User -> Seq(Contato)] /\ disco \in [User -> Seq(Contato)]
    /\ \A u \in User : Len(contatos[u]) <= MaxContatos /\ Len(disco[u]) <= MaxContatos
    /\ arquivo \in [User -> [Nome -> Arquivo]]
    /\ pc \in [User -> {"ocioso", "marcar", "conectar", "enviar", "esperar", "girando"}]
    /\ comando \in [User -> Comando]
    /\ resposta \in [User -> {"nenhuma", "RET_MSG_OK", "RET_MSG_FAIL", "perdida"}]
    /\ fila \in [User -> Seq(Conn)]
    /\ ultima \in [User -> Msg]
    /\ digitados \in [User -> Nat]
    /\ quedas \in Nat

\* Every user is added under the user name.
NomesVerdadeiros == \A a \in Agenda : a[2] = a[3]

Conhece(u, v) == \E k \in DOMAIN contatos[u] : contatos[u][k].ip = v

\* While no process has died, the file of the sender holds the texts the
\* receiver has stored, in the same order, except one at most: the text whose
\* answer is on its way (server.c:81-99, utils.c:333-346).
Delivery ==
    quedas = 0 /\ NomesVerdadeiros =>
        \A u, v \in User :
            LET enviados == arquivo[u][v].sai
                recebidos == arquivo[v][u].ent
            IN  /\ \A k \in DOMAIN enviados :
                      k \in DOMAIN recebidos /\ recebidos[k].txt = enviados[k].txt
                /\ \/ Len(recebidos) = Len(enviados)
                   \/ /\ Len(recebidos) = Len(enviados) + 1
                      /\ pc[u] = "esperar" /\ comando[u].ip = v
                      /\ recebidos[Len(recebidos)].txt = comando[u].txt

\* While no process has died, two users are contacts of each other, unless one
\* still waits for the other to accept, or has no room (server.c:136-163,
\* utils.c:179-193).
Acquainted ==
    quedas = 0 /\ NomesVerdadeiros =>
        \A u, v \in User : Conhece(u, v) =>
            \/ Conhece(v, u)
            \/ Len(contatos[v]) >= MaxContatos
            \/ /\ pc[v] = "esperar" /\ comando[v].ip = u
               /\ comando[v].tipo = "ADD_CONTACT"

\* Deaths of processes included, the texts of one user never overtake each
\* other in the file of another.
FifoReceipt ==
    \A u, v \in User : \A k \in DOMAIN arquivo[v][u].ent :
        \A j \in 1 .. k : arquivo[v][u].ent[j].txt <= arquivo[v][u].ent[k].txt

\* Every command comes to an end, or to the endless loop of a lost answer:
\* no user waits forever for another (client.c:52-71).
CommandEnds ==
    \A u \in User : pc[u] # "ocioso" ~> pc[u] \in {"ocioso", "girando"}

\* No name and no address is twice in a list of contacts.
NoDuplicateContacts ==
    \A u \in User : \A j, k \in DOMAIN contatos[u] :
        j # k => /\ contatos[u][j].name # contatos[u][k].name
                 /\ contatos[u][j].ip # contatos[u][k].ip
=============================================================================
