SPECIFICATION Spec

CONSTANTS
    Entradas <- Files

INVARIANTS
    TypeOK
    PrazosCumpridos
    Preempcoes
PROPERTIES
    QuadroSpec

CHECK_DEADLOCK FALSE
