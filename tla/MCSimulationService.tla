------------------------ MODULE MCSimulationService ------------------------
(***************************************************************************)
(* A client with one command, a client with a burst of two that has come   *)
(* by the same key, and a reader; each asks twice.                         *)
(***************************************************************************)
EXTENDS SimulationService

CONSTANTS client, burst, reader

MCClients == {client, burst, reader}
MCKey == [c \in MCClients |-> IF c = reader THEN None ELSE "key"]
MCBody == [c \in MCClients |-> c]
MCSize == [c \in MCClients |-> CASE c = client -> 1 [] c = burst -> 2 [] c = reader -> 0]
MCAttempts == [c \in MCClients |-> 2]
=============================================================================
