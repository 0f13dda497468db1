--------------------------- MODULE MCMasterSlave ---------------------------
(* Finite instances of MasterSlave: three slaves, two values per task.     *)
EXTENDS MasterSlave

\* No task holds the same value twice, which rankSort would lose.  The task that
\* begins with a negative value ends the slave that gets it.
SemRepeticao ==
    { <<15, 14, 13, 12, 11, 10, 9, 8, 7, 6, 5, 4, 3, 2, 1, 0>>,
      <<3, 0, 0, 3, 3, 0, 0, 3, 3, 0, 0, 3, 0, 3, 3, 0>>,
      <<5, 9, 9, 2, 0, 5, 2, 9, 7, 5, 0, 2, 1, 4, 4, 1>>,
      <<5, 9, 9, 2, 0, 5, 2, 9, -3, 5, 0, 2, 1, 4, 7, 1>> }
=============================================================================
