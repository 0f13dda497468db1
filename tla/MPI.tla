-------------------------------- MODULE MPI --------------------------------
(***************************************************************************)
(* The part of the MPI library that the programs of PPD/MPI call: blocking *)
(* sends and receives between the np processes of one communicator, with   *)
(* one tag.  Messages of one process to another arrive in order.  MPI_Send *)
(* returns when the message has been received or has found room in the     *)
(* library; how much room there is is up to the library, none being        *)
(* allowed, and is chosen once here.                                       *)
(***************************************************************************)
EXTENDS Integers, Sequences

CONSTANTS
    np,     \* number of processes
    Folgas  \* the room a library may offer, in messages per channel

ASSUME NpAssumption == np \in Nat /\ np > 1
ASSUME FolgasAssumption == Folgas \subseteq Nat /\ Folgas # {}

VARIABLES
    canal,  \* canal[p][q]: messages from p to q not received yet
    folga   \* the room of this execution

Processo == 0 .. np - 1

InitMPI ==
    /\ canal = [p \in Processo |-> [q \in Processo |-> <<>>]]
    /\ folga \in Folgas

\* The channels after p has sent m to q, and after q has received from p.
MPI_Send(c, p, q, m) == [c EXCEPT ![p][q] = Append(@, m)]
MPI_Recv(c, p, q) == [c EXCEPT ![p][q] = Tail(@)]

\* Every send of p has returned.
Livre(p) == \A q \in Processo : Len(canal[p][q]) <= folga

\* A message from p waits at q.
Chegou(p, q) == canal[p][q] # <<>>
=============================================================================
