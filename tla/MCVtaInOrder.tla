---------------------------- MODULE MCVtaInOrder ----------------------------
(***************************************************************************)
(* Calls of the three tests with a geometry in which the three block sizes *)
(* differ, so that one taken for another shows: matrices of one to four    *)
(* blocks, one and two virtual threads, compressed and plain micro-ops.    *)
(***************************************************************************)
EXTENDS VtaInOrder

Call(kind, batch, in, out, block, vt) ==
  [kind : {kind}, batch : {batch}, in : {in}, out : {out}, block : {block},
   comp : BOOLEAN, vt : {vt}, imm : {FALSE}]

AluCalls ==
  [kind : {"alu"}, batch : {2}, in : {0}, out : {4, 12}, block : {0},
   comp : BOOLEAN, vt : {1}, imm : BOOLEAN]

SmallCalls ==
  AluCalls \cup Call("gemm", 1, 2, 4, 0, 1) \cup Call("gemm", 4, 8, 12, 0, 1)
  \cup Call("blocked", 4, 4, 4, 4, 1) \cup Call("blocked", 8, 8, 8, 4, 1)
  \cup Call("blocked", 8, 8, 8, 4, 2) \cup Call("blocked", 4, 12, 12, 4, 1)
  \cup Call("blocked", 8, 16, 16, 8, 2)
  \cup Call("gemm", 20, 8, 12, 0, 1)   \* too large for the buffers
MCTests == SmallCalls

\* A call that just fits the buffers with one virtual thread, made with two.
FullBlock == Call("blocked", 4, 8, 8, 4, 1) \cup Call("blocked", 4, 8, 8, 4, 2)
MCFullBlock == FullBlock
=============================================================================
