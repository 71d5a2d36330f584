------------------------------ MODULE MC_Broker ------------------------------
EXTENDS Broker

CONSTANTS c1, c2, p1

MC_Clients == {c1, c2}

\* Two subscribers with IDs of their own.
MC_Id == [c \in MC_Clients |-> IF c = c1 THEN "a" ELSE "b"]

\* Two subscribers that ask for the same ID, as two tabs of one user do.
MC_SameId == [c \in MC_Clients |-> "a"]

MC_OnePublisher == {p1}


=============================================================================
