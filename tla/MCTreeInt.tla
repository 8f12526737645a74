------------------------------ MODULE MCTreeInt ------------------------------
EXTENDS TreeInt

MCKey == 0 .. 9
MCRandom == [o \in Ops |-> IF o = "s-tree" THEN 0 .. 4 ELSE 0 .. 6]
=============================================================================
