SPECIFICATION FairSpec

CONSTANTS
    N = 3
    MaxTurns = 2

INVARIANTS
    TypeOK
    OneHolder
    ForksAlive
    ReportAlmostFinal
PROPERTIES
    DestroyedWhenFree
    BanquetSpec
    DinnerEnds
