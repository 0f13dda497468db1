----------------------------- MODULE MCWhatsPPD -----------------------------
(* Finite instances of WhatsPPD.                                           *)
EXTENDS WhatsPPD

CONSTANTS ana, bia, caio, apelido

Dois == {ana, bia}
Tres == {ana, bia, caio}

\* Two users may add each other, under the user name.
Todos == {<<ana, bia, bia>>, <<bia, ana, ana>>}

\* ana and bia may add each other at the same time, caio adds ana.
Trio == {<<ana, bia, bia>>, <<bia, ana, ana>>, <<caio, ana, ana>>}

\* Only ana adds, and knows bia under another name: the texts of bia go to one
\* file and those of ana to another.
ComApelido == {<<ana, apelido, bia>>}

\* How many texts each user may send.
NenhumTexto == [u \in User |-> 0]
DoisDeAna == [u \in User |-> IF u = ana THEN 2 ELSE 1]
=============================================================================
