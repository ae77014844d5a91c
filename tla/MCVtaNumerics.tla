---------------------------- MODULE MCVtaNumerics ----------------------------
EXTENDS VtaNumerics

\* No bias, a small one, and the largest: the accumulator wraps around.
SomeBiases == {0, 5, AccHalf - 1}
MCBiases == SomeBiases

Powers == [n \in 0 .. ShiftHalf |-> 2^n]
MCPow2 == Powers
=============================================================================
