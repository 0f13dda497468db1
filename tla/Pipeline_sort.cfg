SPECIFICATION FairSpec

CONSTANTS
    np = 3
    Folgas = {0, 1}
    Entradas <- SeisValores

INVARIANTS
    TypeOK
    Particao
    TudoNoLugar
PROPERTIES
    SorterSpec
    Termina

CHECK_DEADLOCK FALSE
