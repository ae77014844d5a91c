---------------------------- MODULE MCVtaPipeline ----------------------------
(***************************************************************************)
(* The calls of vta_test.cc:40-68 in their order, scaled down to a few     *)
(* blocks, with the blocked GEMM on two virtual threads that is commented  *)
(* out there (vta_test.cc:60).                                             *)
(***************************************************************************)
EXTENDS VtaHost

Alu(rows) == [kind |-> "alu", rows |-> rows]
Gemm      == [kind |-> "gemm"]
BlockedGemm(B, C, vt) == [kind |-> "blocked", B |-> B, C |-> C, vt |-> vt]

SmallCalls ==
  << Alu(1), Alu(3),
     BlockedGemm(1, 1, 1), BlockedGemm(1, 2, 1), BlockedGemm(2, 2, 1), BlockedGemm(1, 3, 1),
     BlockedGemm(1, 2, 2), BlockedGemm(2, 2, 2), BlockedGemm(1, 4, 2),
     Gemm >>
MCCalls == SmallCalls

\* Queues longer than the units run ahead, and queues that block as often as they can.
SomeDepths == {[cmd |-> 8, dep |-> 4], [cmd |-> 1, dep |-> 1]}
MCDepths == SomeDepths
=============================================================================
