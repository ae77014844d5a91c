----------------------------- MODULE VtaTestLib -----------------------------
(***************************************************************************)
(* The instruction streams of the three test generators of                 *)
(* vta/backup/test_lib.cc, and the reference results they compute in C.    *)
(* A test is a record of its stream, the number of instructions its buffer *)
(* is allocated for, the number of input slots and the expected output     *)
(* blocks.  Loop indices are in units of blocks: i, j, k, l of the C code  *)
(* divided by "block" (by VTA_BATCH in alu_test).                          *)
(***************************************************************************)
EXTENDS VtaIsa

When(cond, flag) == IF cond THEN {flag} ELSE {}

\* f(0) \o f(1) \o ... \o f(n - 1): what a loop of n iterations appends when
\* each of them appends w instructions.
Loop(n, w, f(_)) == [x \in 1 .. n * w |-> f((x - 1) \div w)[1 + ((x - 1) % w)]]

LoadUop == Insn("LOAD", "UOP", 0, NoBlock, {})
FinishPopPrev == Insn("FINISH", "NONE", 0, NoBlock, {"popPrev"})   \* (mutant: wrong queue)
Finish  == Insn("FINISH", "NONE", 0, NoBlock, {"popNext"})
Store(block) == Insn("STORE", "OUT", 0, block, {"popPrev", "pushPrev"})

-----------------------------------------------------------------------------
(* alu_test: one LOAD, ALU, STORE per batch row                             *)

AluInsns(rows) ==
  LET Row(b) == << Insn("LOAD", "ACC", 0, <<b>>, When(b > 0, "popNext")),
                   Insn("ALU", "NONE", 0, <<b>>, {"pushNext"}),
                   Store(<<b>>) >>
  IN  <<LoadUop>> \o Loop(rows, 3, Row) \o <<Finish>>

AluTest(rows) ==
  [insns   |-> AluInsns(rows),
   insSize |-> 3 * rows + 2,
   slots   |-> {0},
   ref     |-> [blk \in {<<b>> : b \in 0 .. rows - 1} |-> Value(blk, <<AluTerm(blk)>>)]]

-----------------------------------------------------------------------------
(* blocked_gemm_test: B x C tiles, each accumulated over C input blocks     *)

\* "pop": the load waits until a GEMM has released the slot it overwrites.
DepPopNever(vt, i, j, kl) == FALSE   \* (mutant: the weight load does not wait)
DepPop(vt, i, j, kl) == vt = 1 \/ ((i > 0 \/ j > 0 \/ kl > 0) /\ kl # vt - 1)

\* "push_prev": the GEMM releases its slot, unless no later load pops the token.
DepPushPrevAlways(B, C, vt, i, j, kl) == TRUE   \* (mutant: the last GEMM too)
DepPushPrev(B, C, vt, i, j, kl) ==
  IF vt = 1 THEN kl # C - 1
  ELSE kl # C - vt /\ (kl # C - 1 \/ j # C - 1 \/ i # B - 1)

\* One pass of the two inner loops; kl is k + l and l selects the thread's slot.
KStep(B, C, vt, i, j, kl) ==
  LET l == kl % vt
  IN  << Insn("LOAD", "WGT", l, <<j, kl>>, When(DepPop(vt, i, j, kl), "popNext")),
         Insn("LOAD", "INP", l, <<i, kl>>, {"pushNext"}),
         Insn("GEMM", "NONE", l, NoBlock,
              {"popPrev"} \cup When(DepPushPrev(B, C, vt, i, j, kl), "pushPrev")
                          \cup When(kl = C - 1, "pushNext")) >>

\* The inner loops run to a multiple of vt, also when vt does not divide C.
KStepsExtra(C, vt) == C + vt   \* (mutant: k <= in_feat)
KSteps(C, vt) == vt * ((C + vt - 1) \div vt)

LoadAccDepsNoWait(vt, i, j) ==   \* (mutant: does not wait for the previous store)
  When(vt = 1, "pushPrev")
LoadAccDeps(vt, i, j) == When(i > 0 \/ j > 0, "popNext") \cup When(vt = 1, "pushPrev")

Tile(B, C, vt, i, j) ==
  LET Step(kl) == KStep(B, C, vt, i, j, kl)
  IN  << Insn("LOAD", "ACC", 0, <<i, j>>, LoadAccDeps(vt, i, j)) >>
      \o Loop(KSteps(C, vt), 3, Step)
      \o <<Store(<<i, j>>)>>

BlockedGemmInsns(B, C, vt) ==
  LET TileNo(t) == Tile(B, C, vt, t \div C, t % C)
  IN  <<LoadUop>> \o Loop(B * C, 2 + 3 * KSteps(C, vt), TileNo) \o <<Finish>>

\* outputs_ref[i][j] = biases[i][j] + the sum over k of inputs[i][k] * weights[j][k]
GemmRef(B, C, O) ==
  [blk \in (0 .. B - 1) \X (0 .. O - 1) |->
     Value(blk, [k \in 1 .. C |-> GemmTerm(<<blk[1], k - 1>>, <<blk[2], k - 1>>)])]

BlockedGemmTest(B, C, vt) ==
  [insns   |-> BlockedGemmInsns(B, C, vt),
   insSize |-> B * C * (2 + C * 3) + 2,
   slots   |-> 0 .. vt - 1,
   ref     |-> GemmRef(B, C, C)]

-----------------------------------------------------------------------------
(* gemm_test: the whole matrices are one block                              *)

GemmInsns ==
  << LoadUop,
     Insn("LOAD", "ACC", 0, <<0, 0>>, {"pushPrev"}),
     Insn("LOAD", "WGT", 0, <<0, 0>>, {"popNext"}),
     Insn("LOAD", "INP", 0, <<0, 0>>, {"pushNext"}),
     Insn("GEMM", "NONE", 0, NoBlock, {"popPrev", "pushNext"}),
     Store(<<0, 0>>),
     Finish >>

GemmTest == [insns |-> GemmInsns, insSize |-> 7, slots |-> {0}, ref |-> GemmRef(1, 1, 1)]

-----------------------------------------------------------------------------
(* The calls                                                                *)

\* The calls that a program may make, in units of blocks.  The virtual threads
\* are one or two, and divide the blocks of a row.
BlockedGemmCalls ==
  {c \in [kind : {"blocked"}, B : Nat \ {0}, C : Nat \ {0}, vt : {1, 2}] : c.C % c.vt = 0}
TestCalls == [kind : {"alu"}, rows : Nat \ {0}] \cup [kind : {"gemm"}] \cup BlockedGemmCalls

TestOf(c) ==
  CASE c.kind = "alu"     -> AluTest(c.rows)
    [] c.kind = "gemm"    -> GemmTest
    [] c.kind = "blocked" -> BlockedGemmTest(c.B, c.C, c.vt)

\* The tiles of a test (the rows of alu_test), the steps of a tile (GEMMs, or the
\* one ALU instruction), and the input slots it uses.
Shape(tiles, steps, threads) == [T |-> tiles, N |-> steps, V |-> threads]
ShapeOf(c) ==
  CASE c.kind = "alu"     -> Shape(c.rows, 1, 0)
    [] c.kind = "gemm"    -> Shape(1, 1, 1)
    [] c.kind = "blocked" -> Shape(c.B * c.C, c.C, c.vt)

-----------------------------------------------------------------------------
(* Where a unit is in its part of the stream when it has executed r          *)
(* instructions of it: the tile, the step and, in the terms of               *)
(* VtaGemmProtocol, the stage of the step.                                   *)

\* LOAD WGT and LOAD INP for each step.
LoadTile(c, r) == (r \div 2) \div ShapeOf(c).N
LoadStep(c, r) == (r \div 2) % ShapeOf(c).N
LoadStage(r, running) ==
  IF r % 2 = 0 THEN IF running THEN "wgtRun" ELSE "wgt"
  ELSE IF running THEN "inpRun" ELSE "inp"

\* LOAD UOP; LOAD ACC, as part 0, and the GEMMs of each tile; FINISH.
ComputeTile(c, r) == IF r = 0 THEN 0 ELSE (r - 1) \div (ShapeOf(c).N + 1)
ComputePart(c, r) == IF r = 0 THEN 0 ELSE (r - 1) % (ShapeOf(c).N + 1)
ComputeStep(c, r) == IF ComputePart(c, r) = 0 THEN 0 ELSE ComputePart(c, r) - 1
ComputeStage(c, r, running) ==
  IF r = 0 THEN IF running THEN "uopRun" ELSE "uop"
  ELSE IF r > 1 + (ShapeOf(c).N + 1) * ShapeOf(c).T THEN "done"
  ELSE IF ComputeTile(c, r) = ShapeOf(c).T THEN IF running THEN "finRun" ELSE "acc"
  ELSE IF ComputePart(c, r) = 0 THEN IF running THEN "accRun" ELSE "acc"
  ELSE IF running THEN "gemmRun" ELSE "gemm"

\* A STORE for each tile.
StoreStage(running) == IF running THEN "run" ELSE "wait"
=============================================================================
