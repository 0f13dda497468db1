SPECIFICATION FairSpec

CONSTANTS
    np = 4
    Folgas = {0, 1}
    Fator = 2
    Entradas <- SemRepeticao
    Lixo = {7}

INVARIANTS
    UmaTarefa
    NadaSePerde
PROPERTIES
    SorterSpec
    Termina

CHECK_DEADLOCK FALSE
