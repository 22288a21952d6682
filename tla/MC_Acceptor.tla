---------------------------- MODULE MC_Acceptor ----------------------------
EXTENDS Acceptor

\* Every connection but one comes from the same address.
MCAddress == [c \in Clients |-> IF c = 3 THEN "b" ELSE "a"]
=============================================================================
