# A TLA+ project for PUCRS

The repository is a collection of course works: programs in C, hardware in
VHDL, scripts and layouts.  There is no single system in it.  What can go wrong
in ways that a test hardly reaches is in the works where several processes,
threads or clocked machines meet; this project models those, one after the
other, and leaves aside the works that only compute a number or move packets.

This file has the inventory of the repository, the modules and how they follow
the code, what the runs check, what is proved, what is only model-checked, what
is not modelled, and the plan for the rest.

File names below are relative to `src/`.

## 1. Inventory

### Dining philosophers (`SYSOP/src/threads/main.c`), modelled

* State: the flag `fim`, the semaphore `liberador`, the array `filosofo[]` (the
  record of each philosopher with its mutex, its right neighbour and its
  counters), and where main and each of the N threads are.
* Operations: main creates mutex and thread, fills the record, posts the
  semaphore N times, sleeps, clears `fim`, prints, joins, destroys.  A thread
  waits for the semaphore and repeats: trylock its fork, trylock the right one,
  eat, unlock both, think; or put back and try again.
* Interaction: shared memory.  Nothing but the semaphore keeps a thread from
  records not filled yet; nothing but join keeps main from mutexes in use.
* Hard: every interleaving of trylock and unlock; a failed second trylock; a
  thread started before its record exists; the report read while it changes.
* Correct when: a fork has one holder, is used only while it exists, neighbours
  never eat at the same time, no mutex is destroyed locked, the program ends.

### WhatsPPD (`PPD/WhatsPPD`), contacts, texts, listings and groups modelled

* State of a user: the list of contacts in memory and in `Users/<u>.u`, the list
  of groups, the files `Messages/<name>.msg` and `Messages/#<group>.msg`, the
  command under way, the queue of connections at its server, and the buffers
  `msg` and `ret_msg`, which keep old messages.
* Operations: `#i` adds a contact, `#s` sends a text to a contact or a group,
  `#l` lists and tells the others that it has read, `#g` makes a group; the
  server handles `ADD_CONTACT`, `MSG_TXT`, `READ_MSGS`, `ADD_GROUP`,
  `MSG_TXT_GROUP` and `READ_MSGS_GROUP`; a user logs in and the process dies.
* Interaction: one connection per message between the main thread of one user
  and the server thread of another; a command for a group goes from member to
  member; the two threads of one process share contacts, groups and files, and a
  lock that only the server takes.
* Hard: checks made before an exchange and used after it, requests that cross,
  a peer that dies before, during or after its answer, a member that refuses
  after others have accepted, lists that fill, results of `recv` and `connect`
  that nobody looks at, files written on two machines in any order.
* Correct when: the two files of a pair of users agree, a text recorded as sent
  to a group is with every member, no contact is there twice, contacts know each
  other, a group has the same people at all of them, every command ends.

### The MPI sorters (`PPD/MPI`), modelled but for their branches for one process

* T1 `master-slave.c`: a master deals out tasks and merges results in the order
  they come.  State: counters of tasks sent, pending and received, the sorted
  part, what each slave's vector holds.
* T2 `pipeline.c`: an insertion sort in np stages, each with its share, and a
  token that lets them print in turn.
* T3 `dc.c`: vectors are halved down a tree of ranks and merged on the way up.
  State: the vector of each rank, its level, where its task came from and the
  parts it waits for.
* T4 `maiki.c`: neighbours exchange borders in even and odd rounds with
  barriers and a reduction, until every process says it is sorted.  State: the
  slice of each rank with its copy of the next one's border, its flag.
* Interaction: blocking sends and receives (in T4 barriers and reductions).
* Hard: sends that wait for a receive when the library offers no room, results
  in any order and from any source, messages told apart by value or by order
  only, loops that end on counters or flags kept apart from what was sent.
* Correct when: the sorted input is printed, whoever is first and whatever the
  library buffers, and every process comes to its end.

### Polling server scheduler (`STR/ps.c`), modelled

* State: the vector of periodic and aperiodic tasks with what is left to
  process, the chart built so far, the count of preemptions.
* Operations: read a case, one tick of the loop (release, flag, choose, count),
  print chart and counters, next case.
* Hard: a new period overwrites what is left of the last one (`ps.c:54`); flags
  that two loops set decide on the next tick; preemptions are counted from
  counters that have already been updated for the tick (`ps.c:82`).
* Correct when: the chart is the one of fixed priorities under a server, a set
  of tasks that passes the response time test misses no period, and the counters
  are those that can be read off the chart.

### Not modelled

| Part | Why |
|---|---|
| The contact table of `WhatsPPD` statement by statement (`user.c:75-150`) | planned: both threads of a process run `AddContact` and `saveUser` on one `struct user`; see the plan |
| `SYSOP/src/network` | one file over one connection: each side counts for itself, the server never hears from the client after the name, and nothing is shared.  What goes wrong (a short `recv` is written as a whole block, `client.c:79`) is seen in one line and in one step |
| `VLSI2/pif2wb/src/BEHAVIORAL` | a third party bridge between two buses; the repository's own part is its synthesis |
| `VLSI2/pif2wb/src/LOGICAL`, `PHYSICAL` | a reader of simulation dumps; netlists, reports and scripts of the synthesis tools |
| `VLSI2/8051` | a third party microcontroller core |
| `RDS2`, `LABRDS` | packet formatting and printing on raw sockets: pure I/O |
| `GERDS` | straight-line scripts around an SNMP library |
| `METCOMP` | floating point numerical methods: real numbers are out of TLC's reach |
| `PSC` | Matlab and Simulink over continuous signals |
| `uElectronic` | circuit layouts and tool output |
| `PPD/MPI/random_ints.c`, `ppd.sh` | write the input and start the programs; the range of the values written (0 and up, with repetitions) is used for the inputs of the models |

## 2. The modules

| Module | Models |
|---|---|
| `Banquet` | abstract: people at a round table, no two neighbours eating |
| `Philosophers` | the dining program, one action per statement that touches shared state |
| `Philosophers_proof` | its theorems |
| `WhatsPPD` | the messenger: commands, connections, servers, deaths, logins |
| `MCWhatsPPD` | users and the contacts each may add, for the runs |
| `WhatsPPD_proof` | its types, `Delivery`, `Acquainted` and `FifoReceipt` |
| `WhatsGroups` | the messenger's groups: made, written to and listed member by member |
| `MCWhatsGroups` | users, their contacts and the groups they may make |
| `WhatsGroups_proof` | its types, `MembrosConhecidos`, `GrupoCompleto`, `EntregueATodos` |
| `Sorter` | abstract: prints the input in ascending order, some values at a time |
| `Sorter_proof` | lemmas about sorted vectors, for the proofs that implement it |
| `MPI` | external: blocking sends and receives with any room in the library |
| `MasterSlave` | T1; uses `MPI`, implements `Sorter` |
| `MCMasterSlave` | vectors for the runs |
| `MasterSlave_proof` | `UmaTarefa`, `NadaSePerde`, and that it implements `Sorter` |
| `Pipeline` | T2; uses `MPI`, implements `Sorter` |
| `MCPipeline` | vectors for the run |
| `Pipeline_proof` | its types, `TudoNoLugar`, `Particao`, and that it implements `Sorter` |
| `DivideConquer` | T3; uses `MPI`, implements `Sorter` |
| `MCDivideConquer` | vectors for the run |
| `ParallelPhases` | T4; uses `MPI` and adds barrier and reduction, implements `Sorter` |
| `MCParallelPhases` | vectors for the run |
| `ParallelPhases_proof` | its types, `Sobreposicao`, `SaidaEmOrdem`, and that it implements `Sorter` |
| `FixedPriority` | abstract: periodic tasks by priority, a server, idle time |
| `PollingServer` | `ps.c`, one action per tick; implements `FixedPriority` |
| `MCPollingServer` | task sets and the cases of `input.in`, with the answers of `answer.ans` |
| `PollingServer_proof` | its types, `Preempcoes`, `PrazosCumpridos`, and that it implements `FixedPriority` |

### Philosophers

`pc[p]` names the next statement of thread p and `mpc` the one of main.  A
pthread mutex of the default kind does not know its owner, so `garfo[f]` is only
`absent`, `free`, `held` or `destroyed`, and who holds a fork follows from the
program counters, as it does in the code.

| Code | Action |
|---|---|
| `criarFilosofo`, main 120-129 | `CriarThread`, `CriarThreadFalha` (pthread_create fails, main returns), `criarFilosofo` |
| `sem_post` loop, `sleep`, `fim = 0` | `Liberar`, `Terminar` |
| `Imprimir` | `Imprimir(campo)`, one per printf argument that reads a counter |
| `pthread_join`, `pthread_mutex_destroy` loops | `Juntar`, `Destruir` |
| `Testar` | `EsperarLiberador`, `Continuar`, `Sair`, `Comer`, `Pensar` |
| `Verificar` | `TentarProprio`, `TentarDireita`, `Devolver`, `pensarAleatorio`, `LargarProprio`, `LargarDireita` |

### WhatsPPD

A user is known by user name and by address; both are written `u`.  The name a
contact is stored under is the one typed, which may be another.  A file holds
sent and received records, and nothing depends on how the two kinds interleave,
so it is a pair of sequences.  A text is the number of the command that sent it.

| Code | Action |
|---|---|
| `executeCommandInsertion`, `Send`, `List` (utils.c) | the actions of these names; a listing's second pass is `MarcarLidas` |
| `initClient` (client.c) | `Conectar`, `ConectarFalha`, `Enviar`, `ReceberResposta` |
| `serverThread` (server.c) | `TratarTexto`, `TratarInsercao`, `TratarLeitura`, `TratarLeituraFalha`, `TratarNada` |
| death and login | `Matar`, `Cai`, `Login` |

Results that the code ignores are modelled by what follows in C: a `recv` that
returns 0 leaves the buffer as it was, so the server handles its previous
message again (`ultima`), and a client sees whatever its stack holds: an answer
it never got, or none of the known types, in which case its loop never ends (`girando`).
A `connect` that fails is followed by a `send` on an unconnected socket, which
ends the process.  `READ_MSGS` for a file that does not exist ends the server's
process.

A command that is refused before it starts, with one line printed, changes
nothing and is not an action.  The server's handling of one message is one
action, from `recv` to `close`; the only other thread that touches the same
memory is the main thread of the same process.  The race of `AddContact` and
`saveUser` between these two is not in this module (see the plan).

### WhatsGroups

| Code | Action |
|---|---|
| `executeCommandInsertionGroup`, `Send` and `List` with `#name` (utils.c) | the actions of these names |
| `initClient`, once for each member | `Conectar`, `ConectarFalha`, `ReceberResposta` |
| `AddGroup`, the record of the text, when all have accepted | `AddGroup` and `Registrar` in `Concluir`, part of the last `ReceberResposta` |
| `serverThread` (server.c) | `TratarGrupo`, `TratarGrupoFalha`, `TratarTextoGrupo`, `TratarLeituraGrupo`, `TratarLeituraGrupoFalha` |

It has its own copy of the exchange between client and server, simpler than the
one of `WhatsPPD`: a connection is made and its message sent in one step, because
nobody is killed here.  Processes still die of the code's errors, and stay dead.
`comando[u].faltam` is what is left of the loop over the members, `aux[u]` the
code's count of those who have accepted.  A server whose list of contacts fills
while it is told of a group sends a refusal for every member it cannot add,
enters the group, and sends an acceptance too; the client reads one answer and
closes, so a third answer may end the server's process, and a second one when
the client has died (`TratarGrupoFalha`).
The server's loop over the members is a recursive function (`Apresentar`).

### MPI and the four sorters

`MPI` is external: it says of the library what the programs rely on.  A message
is put in its channel when it is sent, and the sender goes on (`Livre`) when no
more than `folga` messages of any of its channels are left, so with `folga = 0`
a send waits for its receive.  The room is chosen once, in the initial state.
`Sorter` is what all four promise; `saida` is what has been printed.  The sorted
input (`Ordenada`) is defined by counting, without an algorithm: the value in
place k has fewer than k smaller ones and at least k that are not greater.

In `MasterSlave` a round of the master's loop, which receives a result, merges
it and sends the next task, is one action (`Coletar`): the master reads and
writes nothing shared in between, and its send is left in the channel.
`rankSort` keeps what the result vector held at the places that are the rank of
no value, because the code does; the vector starts with any value of `Lixo`.

In `Pipeline` the first stage takes its values from the file and all others from
a channel; their loops are otherwise the same, and so is `Rodada`.  Its inner
loop, in which the new value meets the kept ones and is swapped with the greater
(`Troca`), is a recursive function (`Passagem`).  Values, token
and time are plain numbers, as in the code, and differ only in when they come.

In `DivideConquer` every statement of `dc.c` that sends or receives is an action:

| Code | Action |
|---|---|
| `MPI_Recv` of task and level | `ReceberTarefa`, `ReceberNivel` |
| `processD`: send the half, send the level | `processD`, `EnviarNivel`; `Abortar` when the rank called does not exist |
| `sort` | `Ordenar` |
| `processC` | `processC`, one part received and merged |
| the way back, the report | `Devolver`, `Imprimir` |

The number of processes is chosen in the initial state among `Tamanhos`, so one
run has powers of two and other sizes.  Nothing in the code checks the size, and
with three ranks, say, one is called that does not exist, which ends them all.

In `ParallelPhases` the loop of a rank is a list of steps (`Roteiro`), one for
even and one for odd ranks, and `ponto[p]` is the step p is at.  A barrier, and
the reduction of the flags, is one step of all processes.  The file is dealt out
before the loop (`Distribuir`, `ReceberFatia`, `Largada`) and the slices printed
in turn after it (`Imprimir`, `EnviarTempo`, `ReceberTempo`).

### PollingServer

| Code (`STR/ps.c`) | Definition |
|---|---|
| the body of the loop of main | `Escalonar` |
| `verifyPeriod`, `wantProcess`, `chooseTask`, `getIdleProcess`, `sortPeriod` | the operators of these names |
| `previousWantProcess`, `doPreemptions`, `getContextSwitch` | the operators of these names |
| the report of a case and the next one | `calculateMetrics` |

The program is sequential; what is hard is the sequence of ticks, where the
flags and counters of one decide on the next.  `FixedPriority` says what the
chart should be without vector or flags: who has work left, and who comes first.

## 3. The runs

| Run | Instance | States | What it shows |
|---|---|---|---|
| `philosophers_dinner` | N = 3, two rounds each | 1 414 043 | `TypeOK`, `OneHolder`, `ForksAlive`, `ReportAlmostFinal`, `DestroyedWhenFree`, that the program implements `Banquet`, and that it ends |
| `whatsppd_delivery` | three users, lists of one, one connection waiting, two texts of one user and one of each other | 565 528 | `TypeOK`, `Delivery`, `Acquainted` |
| `whatsppd_deaths` | two users, one known by another name, two texts of one, one killed, logins | 163 496 | `FifoReceipt`, `CommandEnds` |
| `whatsppd_duplicate` | two users add each other | violation | one of them has the other twice |
| `whatsgroups_talk` | four users, three groups of one name, lists with and without room | 52 529 | `TypeOK`, `GrupoCompleto`, `MembrosConhecidos`, `EntregueATodos`, `CommandEnds` |
| `whatsgroups_members` | the same | violation | members have a group that its creator has not |
| `masterslave_sort` | np = 4, eight tasks of two values, four vectors, room 0 and 1 | 13 823 | `UmaTarefa`, `NadaSePerde`, `SorterSpec`, `Termina` |
| `pipeline_sort` | np = 3, stages of two, 731 vectors, room 0 and 1 | 34 357 | `TypeOK`, `Particao`, `TudoNoLugar`, `SorterSpec`, `Termina` |
| `divideconquer_sort` | np of 2, 3, 4, 6 and 8, 22 vectors of four to twelve values, room 0 and 1 | 71 749 | `TypeOK`, `Arvore`, `NadaSePerde`, `SorterSpec`, `Termina` |
| `parallelphases_sort` | np = 4, slices of two, borders of one and two, 259 vectors, room 0 and 1 | 129 968 | `TypeOK`, `Sobreposicao`, `SaidaEmOrdem`, `SorterSpec`, `Termina` |
| `pollingserver_charts` | 709 files of cases | 10 067 | `TypeOK`, `PrazosCumpridos`, `Preempcoes`, `QuadroSpec` |
| `pollingserver_answers` | the cases of `input.in` | violation | the chart of the seventh is not that of `answer.ans` |

### Why the bounds are enough to be interesting

* Philosophers: with three at the table every fork has two neighbours that
  differ, and the third may hold what both wait for.  Two rounds each
  (`MaxTurns`) make every order of trylock, unlock, `fim`, print, join and
  destroy happen, with a counter that is not at its first value when it is
  printed.  The safety properties are also proved for every N and every number
  of rounds.
* Delivery: two users may add each other at the same time while the third adds
  one of them, lists take one contact (8 in the code) so that they fill, and a
  server has room for one connection so that clients wait for it.  Two texts
  of one user are what it takes to see order, and the others' cross them.  Both
  invariants speak of the time before the first death; both, and `TypeOK`, are
  also proved for all bounds.
* Deaths: one user is killed at any moment, of either side, and logs in
  afterwards, with two texts: this has a text stored and answered whose
  sender dies before it records it, a stale message handled again, and a sender
  that is killed in the endless loop of a lost answer and sends its next text after a
  login.  Processes also die of the code's own errors, as often as these happen;
  `MaxQuedas` bounds how often one is killed or comes back.  `FifoReceipt` is
  also proved for any number of deaths.  A receiver that dies between storing a
  text and answering is not among them, as its handling is one action.
* Groups: ana, who makes a group of all, knows everybody; in one instance bia has
  no room for the others and davi does not know ana, so that one member refuses
  while it accepts and one refuses outright, after others have accepted; in the
  other all have room.  Three groups of one name, one of them made by a member,
  fill lists of two groups and make texts of two groups share one file.
  With one text per user, the order in `EntregueATodos` is shown by its proof and
  not by the run.
* T1: np = 4 gives three slaves whose results come in all six orders; eight
  tasks make each slave come back for more.  The vectors hold a descending
  one, one with only two values, a mixed one with repetitions across tasks, and
  one where a task begins with a negative value, which ends a slave.  No task
  has the same value twice: those `rankSort` loses (see section 5).  The safety
  properties are also proved for any number of ranks and any such vectors.
* T2: every vector of six values out of three, the value of the token among
  them, and two of six different values; three stages are the least that have
  one in the middle.  Two, where the token and the time share a channel, are
  covered by the theorems, and not by `Termina`.
* T3: eight ranks make a tree of three levels, with parents whose parts come in
  any order; three and six are sizes that call a rank that does not exist or
  lose a part.
* T4: four ranks are the least with two that have both neighbours, one even and
  one odd.  Borders of one and of two values, in slices of two: a border that is
  part of a slice, and one that is all of it.  All vectors of zeros and ones are
  there because a sorting network that orders them orders everything; the
  program is no network, so there are orders of eight different values as well,
  and a length that four does not divide.  The safety properties are also proved
  for any even number of ranks, any vector and any borders.
* Polling server: two and three periodic tasks under and over the capacity, with
  equal periods and with the server's, aperiodic tasks there from the start,
  later, and in either order, over a common period; and the cases of `input.in`,
  one after the other, so that what one leaves behind could spoil the next.  The
  safety properties are also proved for any file of cases.
* Room in the library: none makes every send wait; one lets every process be a
  message ahead, so that waiting messages build up behind each other.

### Fairness

* Philosophers: weak fairness of main and of each thread.  The operating system
  runs every thread that can run.  A thread that tries locks never blocks, and
  the semaphore is posted once for each thread, so weak fairness is enough.
  `DinnerEnds` does not rest on anybody eating: a thread that always fails its
  trylock still sees `fim`.  The code does not promise that a philosopher eats,
  and the project does not state it.
* WhatsPPD and WhatsGroups: weak fairness of the main thread while a command is
  under way, and of the server thread.  Users need not type, and a user need not
  log in again.  Under this fairness a command may still end in the endless loop
  of a lost answer, so `CommandEnds` says "ends, or loops there", and shows that
  nobody waits for ever: a queue of connections drains, or breaks with its server.
* T1 and T2: weak fairness of each process: mpirun runs them all.  `MPI_ANY_SOURCE`
  is not assumed to be fair; `Coletar` is under one fairness condition for all
  slaves.
* T3 and T4: weak fairness of the next step as a whole.  It is less than one
  condition per process, and enough, because no process can run on for ever
  while another could: in T3 each has a bounded number of steps, in T4 a barrier
  stops it.
* PollingServer: none, and no liveness: its loop is bounded by the case's length.

`CHECK_DEADLOCK FALSE` is set for the messenger, where users may simply stop
typing, for the MPI programs, which end (and for one vector of T1, and for the
sizes of T3 that are no powers of two, stop before the end, see below), and for
the scheduler, which ends with its file.  That they do end is `Termina`.
Philosophers has an explicit step for the state after the end and is checked for
deadlock.

### Abstract specifications

`Banquet` is implemented by `Philosophers`, `Sorter` by the four MPI programs,
`FixedPriority` by `PollingServer`; each is an `INSTANCE` with a refinement
mapping and a `PROPERTY` of the run (`BanquetSpec`, `SorterSpec`, `QuadroSpec`).
For `ParallelPhases` the sorter's input is what is dealt out (`Repartidos`): what
`maiki.c` leaves over when np does not divide the length is never looked at.

## 4. What is proved

TLAPS proves the following for all values of the constants that satisfy the
named assumptions; the lemmas are in the same modules.

**Philosophers_proof**, from `NAssumption` (N is a positive number).

* `TypeCorrect`: `Spec => []TypeOK`.
* `ForksHaveOneHolder`: `Spec => []OneHolder`.  A fork is locked exactly while
  one philosopher is between a trylock that succeeded and its unlock.  The
  argument is by the two uses of a fork: as own and as right fork; that p is the
  only one with right fork `DIREITA(p)` is a lemma about the modulus.
* `ForksUsedAlive`: `Spec => []ForksAlive`.  The invariant has to know what main
  has done at each of its statements: which records are filled, that no thread
  is past the semaphore before the first post, and that every thread main has
  joined is done.
* `ForksDestroyedFree`: `Spec => DestroyedWhenFree`, a step property that follows
  from the invariant: when main destroys, all threads are done, so by
  `OneHolder` every fork that exists is free.
* `ImplementsBanquet`: `Spec => BanquetSpec`, by the same invariant: to eat, a
  philosopher holds both forks, so no neighbour does.  (Of one philosopher
  alone it says nothing: nobody sits beside him.)
* `ReportMissesOneRound`: `Spec => []ReportAlmostFinal`.  Main prints while the
  threads still run, so what it prints may lack something.  The invariant
  (`Relato`, with `EmCurso`) says for each counter whether the round its
  philosopher is in may still add to it: after `fim` is cleared a thread ends the
  round it is in and no other, so while that round can still add, nothing is
  missing yet, and when it has added, one is.

The inductive invariant of the first five is `TypeOK /\ OneHolder /\ Fases`, where
`Fases` is what main has done so far, statement by statement.

**WhatsPPD_proof**, from `AgendaAssumption` and `BoundsAssumption`.

* `TypeCorrect`: `Spec => []TypeOK`; in particular no list outgrows its array.
* `TextsDelivered`: `Spec => []Delivery`.  `Delivery` is not inductive.  The
  invariant adds, for the time before the first death: nothing is orphaned or
  lost (`SemQueda`); a client in `enviar` or `esperar` at most one
  connection on which it still has something to do, in the queue of the server
  it called and with the message of its command, and none once it has its
  answer (`Ligacoes`); names are user names everywhere (`Nomes`); and the two files
  agree up to one record, which is the text of the command whose answer is under
  way (`Arquivos`).  The proof goes through the actions one at a time.
* `ContactsKnowEachOther`: `Spec => []Acquainted`.  The invariant `Apresentados`
  keeps what the order of the writes gives: the list of the server that accepts is
  written before the answer leaves, so while the answer is under way (`Aceito`)
  the server knows the client already; the client writes when it comes; and
  lists only grow.  It needs the invariant of `Delivery` beside it, for an answer
  must be that to the command the client waits with.

* `TextsInOrder`: `Spec => []FifoReceipt`, deaths, logins, broken connections
  and messages handled twice included.  The texts of one user at another are in
  four places: stored, last handled (`ultima`, which the server handles again
  when a client dies after connecting), waiting in `fila`, and about to be sent.
  The invariant `Ordem` orders them all: nothing stored is later than what was
  handled last (`Ate`), what waits is in order and behind both (`NaFila`), and
  a text about to be sent is the last one typed (`APartir`).  Most steps store no
  text and put none in a queue; one lemma, `OrdemMantida`, serves them all,
  deaths among them, and leaves `ConectarOrdem` and `ReceberOrdem`.

**MasterSlave_proof**, from `NpAssumption`, `FolgasAssumption`,
`FatorAssumption`, `EntradasAssumption` and `LixoAssumption`.

* `OneTaskEach`: `Spec => []UmaTarefa` for any number of processes and tasks,
  any input without negative values and any room in the library.  The invariant
  is `Tipos /\ Contas /\ (Naturais => Fases)`: types of what the argument reads
  (`Tipos`); how the counters of the master add up at each of its phases
  (`Contas`); and who is busy, idle, or has a STOP on its way at each phase
  (`Fases`), from which the number of pending results is the number of busy
  slaves.  The counting step uses the library's facts on `Cardinality`.
* `NothingLost`: `Spec => []NadaSePerde`.  The property speaks of the values of
  the input while tasks are out; the invariant `Intacto` adds to the one above a
  count for every value and every phase (`Contadas`): it is, in what has not been
  dealt out, in the messages (`Onde`) and in the merged part together, never more
  often than in the input, and exactly as often when no value reads as STOP.  A
  send or a reception moves one block (`OndeMais`, `OndeMenos`).  A slave and the
  master must not lose values on the way, so the invariant also says that no
  task under way holds a value twice and every result is sorted (`Certas`).
* `ImplementsSorter`: `Spec /\ Distintos => SorterSpec`.  When all results are
  back the counts of the merged part are those of the input, so it is the input
  in another order, and as it is sorted, the sorted input (`TudoEmOrdem`).  That
  values may be negative does no harm here: the master prints only when as many
  values have come back as there are, and none is counted too often.

What the two algorithms do to vectors of any length: `rankSort` puts values that
differ each in a place of its own, by counting the smaller ones (`OrdemCerta`);
each round of `mergeSort` takes the smaller of two heads and leaves the rest as it
was (`RodadaCerta`), and the first round to break that would have one before it
that had (`MesclaCerta`).  `Distintos` is there for `rankSort` alone: of equal
values it writes one.

**WhatsGroups_proof**, from `GruposAssumption` and
`LimitesAssumption`.

* `TypesHold`: `Spec => []TypeOK`, and `MembersAreKnown`:
  `Spec => []MembrosConhecidos`.  They rest on `Base`, which every step keeps,
  those included in which a process dies of the code's own errors: the types, the
  form of commands, messages and lists (`Formas`: members are distinct, a command
  under way is one that was typed), and `MembrosConhecidos` itself.  What a server
  that is told of a group does to its contacts is shown turn by turn of its loop
  (`Apresentados`): contacts only grow, none but members are added, and a member
  is missing afterwards only if the list is full.
* `GroupsAreComplete`: `Spec => []GrupoCompleto`.  A group is entered by its
  creator after a round of all members, so the invariant has to hold that round
  together.  A message under way belongs to the command its client executes now
  and is the client's only one, and a client that waits is owed exactly one
  answer (`Esperas`); every member that has said yes has the group or no room for
  it, and so has the one whose yes is under way (`Convidados`).  From these, when
  the last answer comes and as many have accepted as were asked, all have it.
  The groups entered before stay complete because lists only grow (`Completos`).
* `TextsReachAll`: `Spec => []EntregueATodos`.  A text is recorded by its sender
  when all members have accepted it, so the same round is kept for the file of
  each member (`Conversa`); the group a name stands for must stay the same during
  it, and what is stored of one sender must be in order and never later than the
  text under way (`Ordem`, `Guardados`), so that no text comes to a file twice.

`Esperas`, `Convidados`, `Completos` (together `Calma`), and `Conversa`, `Ordem`,
`Guardados` (together `Falada`) hold only while nobody has died, so the inductive
invariant is `Base /\ (NinguemCaiu => Calma /\ Falada)`.

**Pipeline_proof**, from `NpAssumption`, `FolgasAssumption` and
`EntradasAssumption`: any number of stages, any vector np divides, any room in
the library.

* `TypesHold`: `Spec => []TypeOK`; no stage keeps more than its share.
* `EverythingInPlace`: `Spec => []TudoNoLugar`.  The stages know of each other
  only by counting rounds.  `Conta` says where the values a stage has taken are:
  kept up to `task_size`, the others with the next stage or on the way to it.
  `Fases` adds that no stage ends before the one before it, and that nobody hears
  of the end before the last stage announces it; then the numbers leave no value
  in a channel.
* `StagesPartition`: `Spec => []Particao`.  It needs what the swapping loop does
  to a vector of any length: from a sorted vector and a value it makes a sorted
  vector of the same values and one left over, that is none of them smaller
  (`InserirInsere`).  This is induction over the loop: the turns for which the
  claim `Meio` fails have a smallest one, and its predecessor refutes it.

  The inductive invariant of these three is `Tipos /\ Contas /\ Particao`, `Tipos`
  being the types without their bounds, which `Contas` gives.
* `ImplementsSorter`: `Spec => SorterSpec`: all that the stages print, in the
  order they do, is at every moment the beginning of the sorted input, whatever
  the values, equal ones and -1, the token's, among them.  Three things are added
  to the invariant.  `Conservado`: every value still in the file, kept or on its
  way comes from a value of the input of its own, so none is lost, doubled or
  made; a round of the loop rearranges the vector and the value (`InserirOrdem`,
  by induction over the loop), and so moves values from places to places
  (`Mudanca`).  `Ficha`: the token is in front of the channel behind the last
  stage it has been through, it has been through all stages before that, and only
  the token goes from the last stage to the first; so what a stage that waits for
  the token receives is the token, never a value or the time.  `Impresso`: the
  shares of the stages the token has been through are printed, each at its
  place, and nothing else.  With everything in place (`TudoNoLugar`), `Particao`
  makes the shares one after the other a sorted vector and `Conservado` makes it
  one of the input's values, and there is only one such vector
  (`OrdenadaUnica`, by counting the values below and above a place).

**ParallelPhases_proof**, from `NpAssumption`, `NpParAssumption`,
`FolgasAssumption`, `ConexoesAssumption` and `EntradasAssumption`: any even number
of processes, any vector, any width of the borders up to that of a slice, any
room in the library.

* `Invariante`: `Spec => []IInv`, with
  `IInv == Tipos /\ (Distribuindo \/ Rodando \/ Saindo)`: the program deals out, is
  in the loop or on its way out, all processes together.  In the loop (`Rodando`)
  the steps of a round are numbered alike for all ranks (`Etapa`).  All are in the
  same part of it, between two meetings (`MesmoTrecho`); a channel holds one
  border, from when its sender has passed the send until its receiver has passed
  the receive, and nothing else (`Correio`, `Causa`).  Of the two copies of a
  border one counts, the even rank's until the odd rank sorts and the odd one's
  from then on (`Vale`), and the values that count are at every step a
  rearrangement of those dealt out (`Valores`).  When the two copies must be
  equal is `Devem`, and then they are (`Concordam`).  A flag that is set says that
  the buffer is in order (`Ordenados`).
* `TiposCorretos`: `Spec => []TypeOK`.
* `BordasIguais`: `Spec => []Sobreposicao`: at a barrier all borders have been
  received and all copies agree, so `Valores` speaks of the slices themselves.
* `FimDoLaco`: `Spec => []SaidaEmOrdem`.  The point that is hard to see in the
  code: the flags of the even ranks are from before the odd ones sorted, and the
  copies have not been exchanged since.  But an odd rank whose flag is set has
  changed nothing, so its borders are still those its neighbours sent (the case
  of `Devem` with `sorted[o]`).  Slices that are in order and overlap in equal
  borders are one vector in order (`FatiasCrescem`), and a rearrangement in order
  is the sorted vector (`Sorter_proof`).
* `ImplementsSorter`: `Spec => SorterSpec`.  `Saindo` counts who has printed; from
  that number follow the place of the token (`ComFicha`), that of the time
  (`ComTempo`), and what has been printed.

What `bubbleSort` does to a vector of any length (`bubbleSortRearranja`,
`bubbleSortParado`: it rearranges, and a first pass that changes nothing means
that the vector was in order) is shown by induction over its passes and swaps.

**Sorter_proof** has what these refinements share: induction up to a number,
over a set (`Inducao`); that a rearrangement that is in order is the vector
`Sorter` defines by counting (`OrdenadaUnica`); and that rearranged vectors have
the same sorted one (`MesmaOrdem`).

**PollingServer_proof**, from `EntradasAssumption`: any file of cases, with
periods that are not zero and no more ticks and tasks than the vectors have room
for.

* `Tipos`: `Spec => []TypeOK`.  The counters are unsigned and only `chooseTask`
  and `getIdleProcess` take from them, from a task that has work left.
* `PreempcoesDaCarta`: `Spec => []Preempcoes`.  The code counts a preemption from
  the flag and the counter of the task before, after the tick has been given; the
  property reads it off the printed chart.  The invariant that joins them is
  `Conta`: what a task has left is its work less the ticks the chart gives it
  since its release, which for a periodic task is the last multiple of its
  period; with it, that an aperiodic task has no tick before it arrives
  (`Chegados`).  A tick more leaves the ticks counted before as they were
  (`PreemptaFica`) and adds its own exactly when doPreemptions says so
  (`UltimaPreempta`, `FundoSe`).
* `ImplementaPrioridades`: `Spec => QuadroSpec`: the charts are those of fixed
  priorities under a server, whatever the tasks.  Sorting gives each task one
  place, by counting those that go before it (`SortPeriodOrdena`), so the first
  place a scan of the vector finds is the task that comes before all others that
  want the tick (`MesmaEscolha`); the counters, by task number, are the work left
  (`FaltaDe`).
* `PrazosDeTodos`: `Spec => []PrazosCumpridos`.  `Escalonavel` is the response time
  test: within some r, no longer than the period, there is room for the work of
  the task, for the server's ticks and for what the tasks before it can ask for.
  The test assumes that all begin at once; the proof shows that no other moment
  is worse.  The invariant `Justa` says of the chart so far that while a task has
  work in its period, only it, those before it and the server get ticks
  (`Prioridade`), and that nobody gets more in a period than its work (`Medida`).
  Take a period at whose end the task has work left, and go back from its
  beginning to where those before the task began to be at work without a break
  (`Arranque`).  Of the r ticks from there on, the server has no more than its
  share (`ServidorCabe`), and those before the task no more than they ask for,
  because none carries work over (`MaioresCabem`, by an injection of the ticks into
  the units of work).  The task itself has not had all its work, so these ticks
  are fewer than r (`Prazo`).  That a task before it might itself be late does no
  harm: `verifyPeriod` would throw its work away.

### Only model-checked

* Liveness: `DinnerEnds`, `CommandEnds`, `Termina`; fairness and ENABLED are out
  of the prover's reach.
* What the processes of T3 compute: the type invariant, `NadaSePerde` and
  `SorterSpec` of `DivideConquer`.  They rest on `Arvore`, and on `SortSeq` and
  `FlattenSeq` of the standard and community modules, which the provers cannot
  expand.  (The library's induction theorems take the claim as an operator
  parameter, which the provers cannot instantiate; where a proof here needs
  induction, it takes the smallest counterexample in a set of numbers, `Menor`,
  from `WFMin` and `NatLessThanWellFounded`.)
* `Arvore`: its ranks are sums of powers of two, of which the provers know nothing.

## 5. Where the code and what is said of it differ

Three have a run whose counterexample shows it step by step.  TLC stops at the
first state that breaks the property, and what follows it is not in the trace.

1. `PPD/WhatsPPD/utils.c:187` (`whatsppd_duplicate`): `#i` looks for the contact,
   waits for the answer, and adds without looking again.  Of two users who add
   each other at the same time, the one who reads its answer first then has the
   other twice, against the comment at `utils.c:178` and the assignment, which says
   that names or addresses already there cannot be inserted again.  The trace ends
   there; nothing keeps the other list from the same when its answer is read.
2. `PPD/WhatsPPD/utils.c:253` (`whatsgroups_members`): a group is announced to one
   member after the other and entered by its creator when all have accepted.
   When one refuses, those who accepted keep a group that its creator has not,
   and so does the refuser when it refused for want of room for contacts, as
   it enters the group all the same (`server.c:184`; bia in the trace).  Item 6 of
   `Docs/Trabalho2-definicao.pdf` says that all have the group.
3. `STR/ps.c:106` (`pollingserver_answers`): for case 7 of `input.in` the chart is
   BABCBABDBDBA, and `answer.ans:19`, with which `compile.sh` compares it, has
   BCBABABDBDBA.  In the code the server's ticks are the multiples of its period,
   3 here, whatever its budget, so C, which arrives at tick 1 when A has work
   left, waits for tick 3.  The run stops there.  Outside of it, the program
   compiled and run on `input.in` differs from `answer.ans` once more, in case 10
   (`answer.ans:28`), and in no other case.

Seen while modelling, and left as observations.  In `WhatsPPD`:

* `READ_MSGS` marks every sent record as read, also texts that arrived after the
  listing it reports (`server.c:202`); and it may overtake the sender's own
  record of the text, written only after the answer (`utils.c:343`), which then
  stays unread until the next listing.  `READ_MSGS_GROUP` of one member marks
  the text as read for all.
* The result of `recv` is ignored and `ret_msg` is read uninitialised
  (`client.c:53`): a text nobody stored may be recorded as sent.
* Texts are filed under the user name of the sender, and `#l` opens the file of
  the name the contact was added under (`server.c:83`): under another name, it
  never shows them.
* `Acquainted` allows one exception: when the list of the requester fills
  while it waits, the other has the contact and it has not (`user.c:75`,
  `utils.c:187`).  A full list of groups is refused by nobody: the member says
  yes and enters nothing (`user.c:66`), the exception of `GrupoCompleto`.
* Nothing looks whether a group's name is taken (`utils.c:200`): texts of two
  groups of one name share one file.  `#g` reads up to eight names into arrays
  of seven (`utils.c:212`).
* A member sees the texts of one sender in order, but two members may see the
  texts of two senders in different orders.
* `close` is called on a `FILE*` (`server.c:94` and the like), and after
  `READ_MSGS` the client returns without closing (`client.c:49`): texts and
  listings leak descriptors until `accept` fails.
* `saveUser` truncates the file before it writes it (`user.c:113`).

Elsewhere:

* The report of the dinner is printed before the threads are joined, after "O
  jantar dos filosofos terminou." (`main.c:137`).  `ReportAlmostFinal` says how
  much it may lack.
* `rankSort` puts equal values in one place; the next places are never written
  (`master-slave.c:51`), and the list printed is then not the sorted input.
  `NadaSePerde` and the theorem `ImplementsSorter` are stated for inputs in which no
  task holds a value twice (`Distintos`).
* A task of T1 that begins with a negative value is taken for STOP
  (`master-slave.c:193`): its slave ends, and the master waits for ever.
  `random_ints` writes no such value; `UmaTarefa`, `NadaSePerde` and `Termina`
  are stated for inputs without one, `SorterSpec` for all: nothing wrong is
  printed, because nothing is.
* T3 with a number of processes that is no power of two calls ranks that do not
  exist, or drops the odd value of a half (`dc.c:71`); `NadaSePerde` and `Termina`
  are stated for the sizes its header names.  `SorterSpec` and `Arvore` are stated
  for all, and do not exclude it: they hold of a program that prints nothing.
* T4 never deals out the remainder of a length that np does not divide
  (`maiki.c:99`).
* The chart has room for 729 ticks, which no one checks (`ps.c:178`), and the
  server's budget is read and never used.
* A short `recv` of the file transfer is written as a whole block (`client.c:79`),
  and an error, -1, is added to the count (`server.c:67`).

## 6. What the models leave out

* Philosophers: reading and checking the two numbers, the frees of
  `Destruidor`, `pthread_join` failing, how long anything takes.
* WhatsPPD and WhatsGroups: the split of `AddContact` and `saveUser` into
  statements, descriptors (and so what the endless loop of a lost answer does
  when it closes a descriptor that its own server has opened anew), a machine
  that is cut off without its process dying, a message cut into several `recv`,
  and the text.  WhatsGroups: processes that are killed or log in, making
  contacts, texts to one contact, names other than the user name, names of one
  member given twice.
* MPI programs: the branches for one process, which call the sequential
  algorithm, reading the file, refused sizes, the measured time; T4 on an odd
  number of processes, whose last rank sends to one that does not exist, and
  with borders wider than a slice, which are read from behind the vector.
* PollingServer: reading the numbers, cases longer than the chart, and a server
  or task of period zero.

## 7. Plan

The order puts first what most depends on interleavings.  The models of 1 to 6
are done; the others follow.

1. `Philosophers` with `Banquet`.
2. `WhatsPPD`: contacts, texts, listings, deaths.
3. `MPI`, `Sorter`, `MasterSlave`, `Pipeline`.
4. `DivideConquer` (T3) and `ParallelPhases` (T4), on `MPI` and `Sorter`.
5. `WhatsGroups`.
6. `FixedPriority` and `PollingServer`.
7. `ContactTable`: `AddContact` and `saveUser` of the two threads of one
   process, one action per statement, with a death in between: the number of
   contacts never passes the array; what the race may lose, against the atomic
   step of `WhatsPPD`.
8. Theorems about the last sorter: the types of `DivideConquer`, `Arvore`, and
   that it implements `Sorter`.
