--------------------------- MODULE MCMaxpoolBench ---------------------------
(***************************************************************************)
(* Well-formed files of every pair of lengths up to MaxLen, and two pairs  *)
(* long enough for polls to happen while commands are still being issued,  *)
(* and after one of the files is exhausted.                                *)
(***************************************************************************)
EXTENDS MaxpoolBench

CONSTANTS MaxLen, Short, Long

Numbered(m, n) == [i \in 1 .. n + 1 |-> IF i = n + 1 THEN End[m] ELSE <<m, i>>]

SomeFiles ==
  {[relay |-> Numbered("relay", n), flex |-> Numbered("flex", k)] :
      n \in 0 .. MaxLen, k \in 0 .. MaxLen}
  \cup {[relay |-> Numbered("relay", n), flex |-> Numbered("flex", Short + Long - n)] :
           n \in {Short, Long}}

MCFiles == SomeFiles
=============================================================================
