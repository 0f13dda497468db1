SPECIFICATION FairSpec

CONSTANTS
    np = 4
    Folgas = {0, 1}
    Conexoes = {1, 2}
    Entradas <- Vetores

INVARIANTS
    TypeOK
    Sobreposicao
    SaidaEmOrdem
PROPERTIES
    SorterSpec
    Termina

CHECK_DEADLOCK FALSE
