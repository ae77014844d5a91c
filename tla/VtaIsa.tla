------------------------------- MODULE VtaIsa -------------------------------
(***************************************************************************)
(* The VTA instructions that vta/backup/test_lib.cc emits, at the          *)
(* granularity of one block: a 2D transfer or a GEMM over a block is one   *)
(* step, an SRAM address is the number of a block-sized slot and a DRAM    *)
(* address names the block it starts.  The word-level counterpart, which   *)
(* micro-op touches which element, is in module VtaInOrder.                *)
(***************************************************************************)
EXTENDS Integers, Sequences

Opcodes  == {"LOAD", "STORE", "GEMM", "ALU", "FINISH"}
MemTypes == {"UOP", "WGT", "INP", "ACC", "OUT", "NONE"}
Flags    == {"popPrev", "popNext", "pushPrev", "pushNext"}

\* The four dependency bits of an instruction are the set of those that are 1.
Insn(op, memory, slot, block, deps) ==
  [op |-> op, memory |-> memory, sram |-> slot, dram |-> block, deps |-> deps]

-----------------------------------------------------------------------------
(* Which unit executes an instruction, and its dependency queues.           *)

Units == {"load", "compute", "store"}

\* Only loads of inputs and weights go to the load unit: loads of micro-ops
\* and of the accumulator are executed by the compute unit.
Unit(insn) ==
  IF insn.op = "STORE" THEN "store"
  ELSE IF insn.op = "LOAD" /\ insn.memory \in {"INP", "WGT"} THEN "load"
  ELSE "compute"

\* A queue is named by its two ends; g2l of the C code is <<"compute","load">>.
Queues == {<<"load", "compute">>, <<"compute", "load">>,
           <<"compute", "store">>, <<"store", "compute">>}

Prev(u) == IF u = "store" THEN "compute" ELSE "load"
Next_(u) == IF u = "load" THEN "compute" ELSE "store"

\* The queues an instruction pops before it runs and pushes after it ran.  A
\* flag that names a neighbour the unit has not got selects no queue.
Pops(insn) ==
  LET u == Unit(insn) IN
  {q \in Queues : \/ q = <<Prev(u), u>> /\ "popPrev" \in insn.deps
                  \/ q = <<Next_(u), u>> /\ "popNext" \in insn.deps}

Pushes(insn) ==
  LET u == Unit(insn) IN
  {q \in Queues : \/ q = <<u, Prev(u)>> /\ "pushPrev" \in insn.deps
                  \/ q = <<u, Next_(u)>> /\ "pushNext" \in insn.deps}

-----------------------------------------------------------------------------
(* What an instruction does to the memories of the accelerator.             *)

NoBlock == <<>>

\* An accumulator block: the block it was loaded from and, in order, the
\* operations folded into it since.
Value(init, terms) == [init |-> init, terms |-> terms]
GemmTerm(i, w) == [op |-> "GEMM", a |-> i, b |-> w]
AluTerm(imm)   == [op |-> "ALU", a |-> imm, b |-> NoBlock]

\* The memories at reset: slots 0 .. vt-1 of the input and weight buffers, one
\* accumulator and one output block; dram holds the blocks stored so far.
InitMem(slots) ==
  [inp  |-> [s \in slots |-> NoBlock],
   wgt  |-> [s \in slots |-> NoBlock],
   acc  |-> Value(NoBlock, <<>>),
   out  |-> Value(NoBlock, <<>>),
   dram |-> <<>>]

\* f with the value v at x, whether or not it had one there.
With(f, x, v) == [y \in DOMAIN f \cup {x} |-> IF y = x THEN v ELSE f[y]]

\* GEMM and ALU write the accumulator and, narrowed, the output buffer.
Compute(mem, term) ==
  LET v == Value(mem.acc.init, Append(mem.acc.terms, term))
  IN  [mem EXCEPT !.acc = v, !.out = v]

Exec(insn, mem) ==
  CASE insn.op = "LOAD" /\ insn.memory = "INP" -> [mem EXCEPT !.inp[insn.sram] = insn.dram]
    [] insn.op = "LOAD" /\ insn.memory = "WGT" -> [mem EXCEPT !.wgt[insn.sram] = insn.dram]
    [] insn.op = "LOAD" /\ insn.memory = "ACC" -> [mem EXCEPT !.acc = Value(insn.dram, <<>>)]
    [] insn.op = "STORE" -> [mem EXCEPT !.dram = With(@, insn.dram, mem.out)]
    [] insn.op = "GEMM"  -> Compute(mem, GemmTerm(mem.inp[insn.sram], mem.wgt[insn.sram]))
    [] insn.op = "ALU"   -> Compute(mem, AluTerm(insn.dram))
    [] OTHER             -> mem

\* The buffer slots an instruction reads and writes while it runs.
Reads(insn) ==
  CASE insn.op = "GEMM"  -> {<<"INP", insn.sram>>, <<"WGT", insn.sram>>, <<"ACC", 0>>}
    [] insn.op = "ALU"   -> {<<"ACC", 0>>}
    [] insn.op = "STORE" -> {<<"OUT", 0>>}
    [] OTHER             -> {}

Writes(insn) ==
  CASE insn.op = "LOAD"            -> {<<insn.memory, insn.sram>>}
    [] insn.op \in {"GEMM", "ALU"} -> {<<"ACC", 0>>, <<"OUT", 0>>}
    [] OTHER                       -> {}

\* Two instructions must not run at the same time.
Conflict(a, b) ==
  \/ Writes(a) \cap (Reads(b) \cup Writes(b)) # {}
  \/ Writes(b) \cap Reads(a) # {}
=============================================================================
