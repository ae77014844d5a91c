----------------------------- MODULE VtaInOrder -----------------------------
(***************************************************************************)
(* A test of vta/backup/test_lib.cc executed in the order of its buffer,   *)
(* as the ILA model does with the commands of the testbench: one transfer  *)
(* or one micro-op a step, ignoring the dependency flags.  Beside it, the  *)
(* four queue counters that printInstruction keeps over the same stream.   *)
(*                                                                         *)
(* VtaTestLib has the streams at the granularity of a block; here are the  *)
(* addresses: the 2D transfers with their strides, the micro-ops and the   *)
(* loop factors.  A buffer slot holds one element (VTA_BATCH x             *)
(* VTA_BLOCK_IN inputs, and so on), named by its index in the packed DRAM  *)
(* buffer.                                                                 *)
(***************************************************************************)
EXTENDS VtaTestLib

CONSTANTS
  Tests,   \* calls: [kind, batch, in, out, block, comp, vt, imm]
  VTA_BATCH, VTA_BLOCK_IN, VTA_BLOCK_OUT,
  VTA_UOP_BUFF_DEPTH, VTA_INP_BUFF_DEPTH, VTA_WGT_BUFF_DEPTH, VTA_ACC_BUFF_DEPTH

ASSUME GeometryAssumption ==
  {VTA_BATCH, VTA_BLOCK_IN, VTA_BLOCK_OUT, VTA_UOP_BUFF_DEPTH, VTA_INP_BUFF_DEPTH,
   VTA_WGT_BUFF_DEPTH, VTA_ACC_BUFF_DEPTH} \subseteq Nat \ {0}

\* The calls that a program may make.  Matrices and blocks are not empty (a call of
\* alu_test has neither "in" nor "block"); the virtual threads of
\* blocked_gemm_test are one or two and divide the blocks of a row.
ASSUME TestsAssumption ==
  \A t \in Tests :
    /\ t.kind \in {"alu", "gemm", "blocked"} /\ {t.comp, t.imm} \subseteq BOOLEAN
    /\ {t.batch, t.out} \subseteq Nat \ {0}
    /\ t.kind # "alu" => t.in \in Nat \ {0}
    /\ t.kind # "blocked" => t.vt = 1
    /\ t.kind = "blocked" =>
         t.block \in Nat \ {0} /\ t.vt \in {1, 2} /\ (t.in \div t.block) % t.vt = 0

VARIABLES
  test,             \* the call
  pc, m,            \* the instruction, and how many of its micro-ops are done
  inp, wgt, acc,    \* the buffers: slot -> what it holds, for slots written so far
  dram,             \* the output elements stored so far
  queue             \* the counters of printInstruction
mems == <<inp, wgt, acc, dram>>
vars == <<test, pc, m, mems, queue>>

\* packBuffer: where element (row, col) of a matrix of the given width lies.
PackIndex(row, col, width) == (row * width) + col

Rows(t) == t.batch \div VTA_BATCH
InW(t)  == t.in \div VTA_BLOCK_IN
OutW(t) == t.out \div VTA_BLOCK_OUT

\* Rows, input and output columns of a block.  A call of gemm_test is one block.
BRows(t) == IF t.kind = "blocked" THEN t.block \div VTA_BATCH ELSE Rows(t)
BIn(t)   == IF t.kind = "blocked" THEN t.block \div VTA_BLOCK_IN ELSE InW(t)
BOut(t)  == IF t.kind = "blocked" THEN t.block \div VTA_BLOCK_OUT ELSE OutW(t)
InputSets(t) == IF t.imm THEN 1 ELSE 2

UopSize(t) ==
  IF t.kind = "alu" THEN (IF t.comp THEN 1 ELSE OutW(t))
  ELSE (IF t.comp THEN BRows(t) ELSE BRows(t) * BIn(t) * BOut(t)) * t.vt

\* The assertions at the head of the three tests: what they accept.
AssertsNoBounds(t) == t.in % VTA_BLOCK_IN = 0 /\ t.out % VTA_BLOCK_OUT = 0   \* (mutant)
Asserts(t) ==
  /\ t.batch % VTA_BATCH = 0 /\ t.in % VTA_BLOCK_IN = 0 /\ t.out % VTA_BLOCK_OUT = 0
  /\ t.kind = "blocked" =>
       /\ \A d \in {VTA_BATCH, VTA_BLOCK_IN, VTA_BLOCK_OUT} : t.block % d = 0
       /\ t.in = t.out /\ t.in % t.block = 0 /\ t.batch % t.block = 0
  /\ UopSize(t) <= VTA_UOP_BUFF_DEPTH
  /\ IF t.kind = "alu" THEN OutW(t) * InputSets(t) <= VTA_ACC_BUFF_DEPTH
     ELSE /\ BRows(t) * BIn(t) <= VTA_INP_BUFF_DEPTH
          /\ BIn(t) * BOut(t) <= VTA_WGT_BUFF_DEPTH
          /\ BRows(t) * BOut(t) <= VTA_ACC_BUFF_DEPTH

-----------------------------------------------------------------------------
(* Micro-ops                                                                *)

\* One half of getGEMMUops: micro-op u, with the blocks' base addresses.
GemmUop(t, u, src, w) ==
  LET i == u \div (BIn(t) * BOut(t))
      j == (u \div BOut(t)) % BIn(t)
      k == u % BOut(t)
  IN  IF t.comp THEN [dst |-> u * BOut(t), src |-> src + (u * BIn(t)), wgt |-> w]
      ELSE [dst |-> (i * BOut(t)) + k, src |-> src + (i * BIn(t)) + j,
            wgt |-> w + (k * BIn(t)) + j]

\* Two virtual threads: the second half addresses the second block of a buffer.
GemmUops(t) ==
  LET half == UopSize(t) \div t.vt
      size == IF t.vt > 1 THEN 2 * half ELSE half
  IN  [u \in 0 .. size - 1 |->
         IF u < half THEN GemmUop(t, u, 0, 0)
         ELSE GemmUop(t, u - half, BRows(t) * BIn(t), BOut(t) * BIn(t))]

MapAluUops(t) ==
  [u \in 0 .. UopSize(t) - 1 |-> [dst |-> u, src |-> OutW(t) + u, wgt |-> 0]]

Uops(t) == IF t.kind = "alu" THEN MapAluUops(t) ELSE GemmUops(t)

-----------------------------------------------------------------------------
(* Instructions                                                             *)

\* get2DLoadStoreInsn, with get1DLoadStoreInsn as its one-row case.
Transfer2D(op, memory, sram, base, y, x, stride) ==
  [op |-> op, memory |-> memory, sram |-> sram, dram |-> base,
   y |-> y, x |-> x, stride |-> stride]
Transfer1D(op, memory, size) == Transfer2D(op, memory, 0, 0, 1, size, size)

\* The loops of a GEMM or ALU instruction; each factor is <<dst, src, wgt>>, and
\* imm is immediate[row] of the row of an ALU instruction.
Loops(op, bgn, end, outer, inner, fout, fin, imm) ==
  [op |-> op, memory |-> "NONE", bgn |-> bgn, end |-> end,
   outer |-> outer, inner |-> inner, fout |-> fout, fin |-> fin, imm |-> imm]

GemmInsnNoWgt(t, bgn) ==   \* (mutant: wgt_factor_in left at 0)
  IF ~t.comp
  THEN Loops("GEMM", bgn, bgn + (BRows(t) * BIn(t) * BOut(t)), 1, 1, <<0, 0, 0>>, <<0, 0, 0>>, 0)
  ELSE Loops("GEMM", bgn, bgn + BRows(t), BIn(t), BOut(t), <<0, 1, 1>>, <<1, 0, 0>>, 0)
GemmInsn(t, bgn) ==
  IF ~t.comp
  THEN Loops("GEMM", bgn, bgn + (BRows(t) * BIn(t) * BOut(t)), 1, 1, <<0, 0, 0>>, <<0, 0, 0>>, 0)
  ELSE Loops("GEMM", bgn, bgn + BRows(t), BIn(t), BOut(t), <<0, 1, 1>>, <<1, 0, BIn(t)>>, 0)

AluInsn(t, row) ==
  IF ~t.comp THEN Loops("ALU", 0, OutW(t), 1, 1, <<0, 0, 0>>, <<0, 0, 0>>, row)
  ELSE Loops("ALU", 0, 1, 1, OutW(t), <<0, 0, 0>>, <<1, 1, 0>>, row)

FinishInsn == [op |-> "FINISH", memory |-> "NONE"]

\* A pass of the inner loops of blocked_gemm_test; i, j are in units of the
\* matrix, and l is the thread's part of kl.
BlockStepWide(t, i, j, kl) ==   \* (mutant: x stride in scalars, not elements)
  LET l == kl % (t.block * t.vt) IN
  << Transfer2D("LOAD", "WGT", ((l \div VTA_BLOCK_IN) * t.block) \div VTA_BLOCK_OUT,
                (((j \div VTA_BLOCK_OUT) * t.in) + kl) \div VTA_BLOCK_IN, BOut(t), BIn(t), t.in),
     Transfer2D("LOAD", "INP", ((l \div VTA_BLOCK_IN) * t.block) \div VTA_BATCH,
                (((i \div VTA_BATCH) * t.in) + kl) \div VTA_BLOCK_IN, BRows(t), BIn(t), t.in),
     GemmInsn(t, ((l \div t.block) * UopSize(t)) \div t.vt) >>
BlockStep(t, i, j, kl) ==
  LET l == kl % (t.block * t.vt) IN
  << Transfer2D("LOAD", "WGT", ((l \div VTA_BLOCK_IN) * t.block) \div VTA_BLOCK_OUT,
                (((j \div VTA_BLOCK_OUT) * t.in) + kl) \div VTA_BLOCK_IN, BOut(t), BIn(t), InW(t)),
     Transfer2D("LOAD", "INP", ((l \div VTA_BLOCK_IN) * t.block) \div VTA_BATCH,
                (((i \div VTA_BATCH) * t.in) + kl) \div VTA_BLOCK_IN, BRows(t), BIn(t), InW(t)),
     GemmInsn(t, ((l \div t.block) * UopSize(t)) \div t.vt) >>

BlockTile(t, i, j) ==
  LET base == (((i \div VTA_BATCH) * t.out) + j) \div VTA_BLOCK_OUT
      Step(n) == BlockStep(t, i, j, n * t.block)
  IN  << Transfer2D("LOAD", "ACC", 0, base, BRows(t), BOut(t), OutW(t)) >>
      \o Loop(KSteps(t.in \div t.block, t.vt), 3, Step)
      \o << Transfer2D("STORE", "OUT", 0, base, BRows(t), BOut(t), OutW(t)) >>

BlockedInsns(t) ==
  LET C == t.out \div t.block
      TileNo(n) == BlockTile(t, (n \div C) * t.block, (n % C) * t.block)
  IN  Loop((t.batch \div t.block) * C, 2 + (3 * KSteps(C, t.vt)), TileNo)

GemmTestInsns(t) ==
  << Transfer1D("LOAD", "ACC", Rows(t) * OutW(t)),
     Transfer1D("LOAD", "WGT", InW(t) * OutW(t)),
     Transfer1D("LOAD", "INP", Rows(t) * InW(t)),
     GemmInsn(t, 0),
     Transfer1D("STORE", "OUT", Rows(t) * OutW(t)) >>

AluTestInsnsTwice(t) ==   \* (mutant: stores twice and forgets to load)
  LET tx == OutW(t)
      Row(b) == << AluInsn(t, b), Transfer2D("STORE", "OUT", 0, b * tx, 1, tx, tx),
                   Transfer2D("STORE", "OUT", 0, b * tx, 1, tx, tx) >>
  IN  Loop(Rows(t), 3, Row)
AluTestInsns(t) ==
  LET tx == OutW(t)
      all == tx * InputSets(t)
      Row(b) == << Transfer2D("LOAD", "ACC", 0, b * all, 1, all, all),
                   AluInsn(t, b),
                   Transfer2D("STORE", "OUT", 0, b * tx, 1, tx, tx) >>
  IN  Loop(Rows(t), 3, Row)

Insns(t) ==
  << Transfer1D("LOAD", "UOP", UopSize(t)) >>
  \o (CASE t.kind = "blocked" -> BlockedInsns(t)
        [] t.kind = "gemm"    -> GemmTestInsns(t)
        [] t.kind = "alu"     -> AluTestInsns(t))
  \o << FinishInsn >>

\* The same test at block level: its stream with the dependency flags, and the
\* number of instructions its buffer is allocated for.
CallOf(t) ==
  CASE t.kind = "alu"  -> [kind |-> "alu", rows |-> Rows(t)]
    [] t.kind = "gemm" -> [kind |-> "gemm"]
    [] t.kind = "blocked" -> [kind |-> "blocked", B |-> t.batch \div t.block,
                              C |-> t.in \div t.block, vt |-> t.vt]
BlockTest(t) == TestOf(CallOf(t))

-----------------------------------------------------------------------------
(* Execution                                                                *)

Init ==
  /\ test \in {t \in Tests : Asserts(t)}
  /\ pc = 1 /\ m = 0
  /\ inp = <<>> /\ wgt = <<>> /\ acc = <<>> /\ dram = <<>>
  /\ queue = [q \in Queues |-> 0]

Current == Insns(test)[pc]
BlockInsn(n) == BlockTest(test).insns[n]

\* What printInstruction adds to each counter for one instruction.
Balance(insn, q) ==
  (IF q \in Pushes(insn) THEN 1 ELSE 0) - (IF q \in Pops(insn) THEN 1 ELSE 0)
NextInsn ==
  /\ pc' = pc + 1
  /\ queue' = [q \in DOMAIN queue |-> queue[q] + Balance(BlockInsn(pc), q)]

\* Slot -> DRAM element of a 2D transfer.
Elements(i) ==
  [s \in i.sram .. i.sram + (i.y * i.x) - 1 |->
     i.dram + (((s - i.sram) \div i.x) * i.stride) + ((s - i.sram) % i.x)]

\* A buffer after a transfer has written some of its slots.
Over(new, old) ==
  [s \in DOMAIN new \cup DOMAIN old |-> IF s \in DOMAIN new THEN new[s] ELSE old[s]]

\* What a slot holds; -1 if nothing was written to it.
At(buffer, slot) == IF slot \in DOMAIN buffer THEN buffer[slot] ELSE -1

\* An accumulator element: its bias and the operands folded into it, once each.
Acc(bias, terms, n) == [bias |-> bias, terms |-> terms, n |-> n]
AccAt(slot) == IF slot \in DOMAIN acc THEN acc[slot] ELSE Acc(-1, {}, 0)

ExecLoad ==
  /\ Current.op = "LOAD"
  /\ LET new == Elements(Current) IN
       /\ inp' = IF Current.memory = "INP" THEN Over(new, inp) ELSE inp
       /\ wgt' = IF Current.memory = "WGT" THEN Over(new, wgt) ELSE wgt
       /\ acc' = IF Current.memory = "ACC"
                 THEN Over([s \in DOMAIN new |-> Acc(new[s], {}, 0)], acc) ELSE acc
  /\ NextInsn
  /\ UNCHANGED <<test, m, dram>>

\* The micro-op for the m-th pass through the loops: outer, inner, micro-ops.
MicroOp(i) ==
  LET n == i.end - i.bgn
      uop == Uops(test)[i.bgn + (m % n)]
      Index(field, f) ==
        uop[field] + ((m \div (n * i.inner)) * i.fout[f]) + (((m \div n) % i.inner) * i.fin[f])
  IN  [dst |-> Index("dst", 1), src |-> Index("src", 2), wgt |-> Index("wgt", 3)]

ExecMicroOp ==
  /\ Current.op \in {"GEMM", "ALU"}
  /\ LET uop == MicroOp(Current)
         old == AccAt(uop.dst)
         term == IF Current.op = "GEMM" THEN <<At(inp, uop.src), At(wgt, uop.wgt)>>
                 ELSE IF test.imm THEN <<Current.imm, -1>>
                 ELSE <<AccAt(uop.src).bias, AccAt(uop.src).n>>
     IN  acc' = With(acc, uop.dst, Acc(old.bias, old.terms \cup {term}, old.n + 1))
  /\ IF m + 1 = Current.outer * Current.inner * (Current.end - Current.bgn)
     THEN m' = 0 /\ NextInsn
     ELSE m' = m + 1 /\ UNCHANGED <<pc, queue>>
  /\ UNCHANGED <<test, inp, wgt, dram>>

ExecStore ==
  /\ Current.op = "STORE"
  /\ LET e == Elements(Current) IN
       dram' = Over([d \in {e[s] : s \in DOMAIN e} |->
                       AccAt(CHOOSE s \in DOMAIN e : e[s] = d)], dram)
  /\ NextInsn
  /\ UNCHANGED <<test, m, inp, wgt, acc>>

Done == pc > Len(Insns(test))

ExecFinish ==
  /\ Current.op = "FINISH"
  /\ NextInsn
  /\ UNCHANGED <<test, m, mems>>

Terminated == Done /\ UNCHANGED vars

Next == (~Done /\ (ExecLoad \/ ExecMicroOp \/ ExecStore \/ ExecFinish)) \/ Terminated

Spec == Init /\ [][Next]_vars

-----------------------------------------------------------------------------

\* What alu_test and the GEMM tests compute in C for output element e.
CReference(e) ==
  LET row == e \div OutW(test)
      col == e % OutW(test)
      input == PackIndex(row, col, OutW(test) * InputSets(test))
  IN  IF test.kind = "alu"
      THEN Acc(input, {IF test.imm THEN <<row, -1>> ELSE <<input + OutW(test), 0>>}, 1)
      ELSE Acc(e, {<<PackIndex(row, k, InW(test)), PackIndex(col, k, InW(test))>> :
                     k \in 0 .. InW(test) - 1}, InW(test))

\* Compressed or not, blocked or not, on one virtual thread or two: every output
\* element is stored with the bias, and with each product of the C reference
\* loop folded in exactly once.
OutputIsReference ==
  /\ \A e \in DOMAIN dram : dram[e] = CReference(e)
  /\ Done => DOMAIN dram = 0 .. (Rows(test) * OutW(test)) - 1

\* Read in program order, no instruction pops a token that an earlier one has
\* not pushed, and FINISH leaves the four counters of printInstruction at zero
\* (test_lib.cc:698-699): program order is itself a schedule the flags allow.
QueuesBalance ==
  /\ \A q \in DOMAIN queue : queue[q] >= 0
  /\ Done => \A q \in DOMAIN queue : queue[q] = 0

\* The generator fills exactly the ins_size instructions it allocates, and the
\* last one is FINISH: neither an overrun of insn_buf nor garbage after it.
BufferExact ==
  /\ pc <= BlockTest(test).insSize + 1
  /\ Done => /\ pc = BlockTest(test).insSize + 1
             /\ Insns(test)[pc - 1].op = "FINISH"

\* The testbench triggers the model by a change of its inputs
\* (vta/testbench.cc:60-77): two equal instructions in a row would be seen once.
\* They differ even without their dependency flags.
AdjacentInsnsDiffer == (pc > 1 /\ ~Done) => Current # Insns(test)[pc - 1]

\* The purpose of the assertions ("Make sure we don't exceed buffer bounds",
\* test_lib.cc:981): no instruction writes beyond the end of a buffer.
WithinBuffers ==
  /\ DOMAIN inp \subseteq 0 .. VTA_INP_BUFF_DEPTH - 1
  /\ DOMAIN wgt \subseteq 0 .. VTA_WGT_BUFF_DEPTH - 1
  /\ DOMAIN acc \subseteq 0 .. VTA_ACC_BUFF_DEPTH - 1

\* The elements of block <<r, c>> of a matrix, blocks being h x w elements.
ElementsOf(blk, h, w, width) ==
  {PackIndex((blk[1] * h) + y, (blk[2] * w) + x, width) : y \in 0 .. h - 1, x \in 0 .. w - 1}

\* Each transfer of blocked_gemm_test moves exactly the elements of the block
\* that the block-level stream of VtaTestLib names, to or from the slots of its
\* virtual thread: the dependency flags checked there are the right ones here.
TransfersItsBlock ==
  (test.kind = "blocked" /\ ~Done /\ Current.op \in {"LOAD", "STORE"} /\ Current.memory # "UOP") =>
    LET abs == BlockInsn(pc)
        e == Elements(Current)
        h == IF Current.memory = "WGT" THEN BOut(test) ELSE BRows(test)
        w == IF Current.memory \in {"WGT", "INP"} THEN BIn(test) ELSE BOut(test)
        width == IF Current.memory \in {"WGT", "INP"} THEN InW(test) ELSE OutW(test)
    IN  /\ <<abs.op, abs.memory>> = <<Current.op, Current.memory>>
        /\ {e[s] : s \in DOMAIN e} = ElementsOf(abs.dram, h, w, width)
        /\ DOMAIN e = abs.sram * h * w .. ((abs.sram + 1) * h * w) - 1
=============================================================================
