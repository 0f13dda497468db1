SPECIFICATION FairSpec

CONSTANTS
    ana = ana
    bia = bia
    caio = caio
    davi = davi
    x = x
    y = y
    colegas = colegas
    User <- Quatro
    Pessoa <- Todos
    Conhecidos <- Listas
    Convites <- Pedidos
    MaxContatos = 3
    MaxGrupos = 2
    Backlog = 2
    MaxTextos <- DeAnaECaio
    MaxListas <- SoCaio

INVARIANTS
    TypeOK
    GrupoCompleto
    MembrosConhecidos
    EntregueATodos
PROPERTIES
    CommandEnds

CHECK_DEADLOCK FALSE
