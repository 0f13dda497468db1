---------------------------- MODULE MCWhatsGroups ----------------------------
(* Finite instances of WhatsGroups.                                        *)
EXTENDS WhatsGroups

CONSTANTS ana, bia, caio, davi, x, y, colegas

Quatro == {ana, bia, caio, davi}
Todos == Quatro \cup {x, y}

\* ana knows everybody.  bia has no room left, and davi does not know ana.
Apertados ==
    (ana :> {bia, caio, davi}) @@ (bia :> {ana, x, y}) @@ (caio :> {ana, bia})
        @@ (davi :> {caio})

\* Everybody knows ana and has room.
Folgados ==
    (ana :> {bia, caio, davi}) @@ (bia :> {ana}) @@ (caio :> {ana}) @@ (davi :> {ana})

Listas == {Apertados, Folgados}

\* Three groups of one name: of all, of three, and one that caio makes.
Pedidos ==
    { <<ana, colegas, <<bia, caio, davi>> >>, <<ana, colegas, <<caio, bia>> >>,
      <<caio, colegas, <<ana>> >> }

DeAnaECaio == [u \in User |-> IF u \in {ana, caio} THEN 1 ELSE 0]
SoCaio == [u \in User |-> IF u = caio THEN 1 ELSE 0]
=============================================================================
