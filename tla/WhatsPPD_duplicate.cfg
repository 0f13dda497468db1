SPECIFICATION Spec

CONSTANTS
    ana = ana
    bia = bia
    caio = caio
    apelido = apelido
    User <- Dois
    Agenda <- Todos
    MaxContatos = 2
    Backlog = 2
    MaxTextos <- NenhumTexto
    MaxQuedas = 0

INVARIANT
    NoDuplicateContacts

CHECK_DEADLOCK FALSE
