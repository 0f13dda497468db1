SPECIFICATION Spec

CONSTANTS
    Entradas <- Files_Arquivo

INVARIANTS
    Gabarito

CHECK_DEADLOCK FALSE
