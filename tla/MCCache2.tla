------------------------------- MODULE MCCache2 -------------------------------
(* Bounds for model checking cache2_t on its own.                            *)
EXTENDS Cache2Clients

CONSTANT MaxTime  \* the clock stops here

Clock == now <= MaxTime
=============================================================================
