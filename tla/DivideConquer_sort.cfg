SPECIFICATION FairSpec

CONSTANTS
    np = 8
    Folgas = {0, 1}
    Tamanhos = {2, 3, 4, 6, 8}
    Entradas <- Vetores

INVARIANTS
    TypeOK
    Arvore
    NadaSePerde
PROPERTIES
    SorterSpec
    Termina

CHECK_DEADLOCK FALSE
