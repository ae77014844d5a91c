------------------------- MODULE MCVtaGemmProtocol -------------------------
EXTENDS VtaGemmProtocol

\* Rows of alu_test; one and two threads, one tile and several, the shortest
\* reductions and one in which the input slots are reused within a tile.
SomeCalls ==
  {[T |-> t, N |-> 1, V |-> 0] : t \in {1, 2, 4}} \cup
  {[T |-> t, N |-> n, V |-> 1] : t \in {1, 2, 4}, n \in {1, 2, 4}} \cup
  {[T |-> t, N |-> n, V |-> 2] : t \in {1, 2, 4}, n \in {2, 4, 6}}
MCCalls == SomeCalls
=============================================================================
