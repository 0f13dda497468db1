SPECIFICATION FairSpec

CONSTANTS
    ana = ana
    bia = bia
    caio = caio
    apelido = apelido
    User <- Dois
    Agenda <- ComApelido
    MaxContatos = 1
    Backlog = 2
    MaxTextos <- DoisDeAna
    MaxQuedas = 1

INVARIANTS
    FifoReceipt
PROPERTIES
    CommandEnds

CHECK_DEADLOCK FALSE
