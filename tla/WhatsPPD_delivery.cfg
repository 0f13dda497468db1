SPECIFICATION Spec

CONSTANTS
    ana = ana
    bia = bia
    caio = caio
    apelido = apelido
    User <- Tres
    Agenda <- Trio
    MaxContatos = 1
    Backlog = 1
    MaxTextos <- DoisDeAna
    MaxQuedas = 0

INVARIANTS
    TypeOK
    Delivery
    Acquainted

CHECK_DEADLOCK FALSE
