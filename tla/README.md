# 3LA simulation testbenches: TLA+ specifications and proofs

This repository holds the testbenches with which instruction-level models (ILA
models, simulated in SystemC) of three machine-learning accelerators are
validated against reference simulators: VTA, hlscnn and FlexNLP. The models and
the accelerators are not in it. What is, is the code around them: test
generators that emit accelerator programs, tools that turn logs of the reference
simulation into programs and expected results, SystemC testbenches that feed the
programs to a model and compare, and a co-simulation of two models.

A testbench is worth something only if the program it runs is right for every
legal execution of the accelerator, if the model receives the program that the
reference simulator executed, and if its verdict means what it says. Those are
the three questions of this project.

Paths are relative to the root of the repository; `flex/` stands for
`flexnlp/ila2_with_flex_numerics/`.

## 1. Inventory

### VTA test generator (`vta/backup/test_lib.cc`, `vta_test.cc`)

* State: the instruction buffer `insn_buf`, the micro-op buffer, packed input
  matrices, reference outputs; during printing, four queue counters.
* Operations: `alu_test`, `gemm_test`, `blocked_gemm_test`; below them
  `get1DLoadStoreInsn`, `get2DLoadStoreInsn`, `getGEMMInsn`, `getAluInsn`,
  `getFinishInsn`, `getGEMMUops`, `getMapALUUops`, `packBuffer`,
  `printInstruction`.
* Interaction: the buffers go to `vta()`, the accelerator. Its load, compute and
  store units run concurrently and are ordered by nothing but the four
  dependency bits that the generator puts into each instruction.
* Hard: the bits. A missing pop is a data race that the C simulation, which
  executes in program order, cannot show; a missing push is a deadlock; a push
  too many is a token left for the next run. They are conditions on the indices
  of four nested loops. Next, strides, offsets and loop factors in three
  different units of size.
* Correct if: no two units touch one buffer slot at a time, the result of every
  interleaving is that of the C loops, FINISH is last, nothing blocks for ever,
  each transfer moves the block that the flags were written for, and
  all of it fits the buffers.

### VTA host program (`vta()` in `test_lib.cc`, `main` in `vta_test.cc`)

* State: which units have been started, the position in the list of tests, the
  status; in the accelerator, all that the last test left behind.
* Operations: start the units in a fixed order, poll the done register at most
  ten million times, compare, free the buffers, go on to the next test.
* Hard: nobody resets the accelerator between tests; after the last poll `vta()`
  returns as if the accelerator had finished; starts come one by one while earlier
  units already run.
* Correct if: a run of tests behaves as each of them alone, and nothing but giving
  up too early makes a test fail.

### VTA operator functions (`vta/uninterpreted_func.cc`)

* State: none; the ILA model calls them for each element of its registers.
* Operations: `GemmMac`, `AccumAddSum`, `Acc2Out`, `Accum2Out`, `Imm2Acc`, `AccMin`,
  `AccMax`, `AccAdd`, `AccShr`.
* Hard: numbers are passed as unsigned bit patterns of different widths, and every
  function restores the sign itself; products, sums and accumulators are
  truncated at three places.
* Correct if: the output element is that of the C reference in `test_lib.cc`.

### VTA log tools (`vta/tool/extract_sim_log.cc`, `input_gen.cc`)

* State: an input stream shared by two nested loops; output files named after
  tests. Hard: failed tests, names that collide.
* Correct if: each test gets a file with exactly its lines, and the program and
  the expected results of a fragment belong together.

### Single-model testbenches

`vta/testbench.cc`, `hlscnn/conv_testbench.cc`, six in `flex/testbench/`
(lstm, rnn, gru, layernorm, maxp, attention), and
`flexnlp/ila1_testbench/lstm_testbench.cc`.

* State: the signals to the model, two threads `Source` and `run`, the counts of
  the comparison.
* Interaction: `Source` writes commands, the model is triggered by their change,
  `run` polls a signal (vta, hlscnn) or a variable of the model (flex), then reads
  the model's memory.
* Hard: the model sees changes, not writes; threads meet at the same instant in
  an order SystemC leaves open; the end marker may be early or missing.
* Correct if: the model executes the program in order, the comparison sees a
  definite part of it, and the run ends.

### Log tools and comparison of hlscnn and FlexNLP

`hlscnn/tool/*.cc`, `flex/tool/*.cc`, and the comparison loops of the testbenches.

* State: the lines of the log, program fragment and result file, the counts.
* Hard: numbers are printed by SystemC without leading zeros, or with one too
  many, and four programs each bring them back to width in their own way;
  addresses and data are on different lines; results read in the middle of
  a program are compared with the memory at its end; two buffers.
* Correct if: the simulator and the model execute the same program, and the
  testbench passes exactly if all that was read agrees.

### Maxpool co-simulation (`flexnlp/maxpool_cosim/`)

* `maxpool_sim_main.cc`: one `Source` with two input files drives a relay model
  and a FlexNLP model; `run` polls for both end markers, which are variables of the
  models, every 100 ns. Hard: unequal files, a marker that must stay visible.
* `maxp_test_gen.cc`, `prog_frag_gen.cc` and the comparison: three translations
  between the layouts of two memories. Hard: groups of 16 input timesteps become
  half groups after pooling.

### External parts that the models need

The VTA accelerator (modelled by the queue discipline `test_lib.cc` programs
against), the SystemC kernel (vendored under `ac_include`), and the ILA models
(as something that executes a command when its ports change, with a memory).

### Not modelled

* `hlscnn/uninterpreted_func.cc`, `flex/uninterpreted_func.cc` and the copy in
  maxpool_cosim: AdpFloat and fixed-point arithmetic on classes and formats of the
  accelerators (`SM6Spec.h`, `AdpfloatSpec.h`, `common.h`), which are not in the
  repository. Nor is the order in which the ILA models call these functions, nor
  a reference that their results must agree with. What is left, a comparison with
  a constant nobody here defines, is not worth a model.
* In the driver: mapping of the registers and the clock.
* The packing of instruction fields into 128 bits; random data; printing.
* `prog_frag_gen` modes `f` and `r` (they cut a file for no program here),
  `extract_float_data.cc` (for reading by people), `adpfloat2float32.cc` (does
  not compile), `flex/Top/temp.py` (builds a network in TVM; not used).
* `ac_include`, `ap_include`, `vivado_include`, `json_helper`: vendored. Recorded
  logs and data: inputs. They are more than nine tenths of the files' lines.

## 2. The modules

| module | models | kind |
|---|---|---|
| `VtaIsa` | instructions, queues and memories at the granularity of a block | operators |
| `VtaTestLib` | streams and reference results of the three generators, and their calls | operators |
| `VtaTestLib_proofs` | lemmas about them: which instruction is where in a stream | proofs |
| `VtaReference` | what running the tests promises | abstract specification |
| `VtaPipeline` | fetch, load, compute and store units with bounded queues | state machine |
| `VtaHost` | the driver and `main`, around the pipeline | state machine |
| `VtaHost_proofs` | theorems about both, for all calls and queues | proofs |
| `VtaGemmProtocol` | the tokens of the tests, with no, one or two input slots | state machine |
| `VtaGemmProtocol_proofs` | theorems about it | proofs |
| `VtaInOrder` | the same tests micro-op by micro-op, in program order | state machine |
| `VtaInOrder_proofs` | theorems about it | proofs |
| `VtaNumerics` | the operator functions and the C reference, element by element | state machine |
| `VtaTools` | `extract_sim_log` and `input_gen` | state machine |
| `VtaData_proofs` | theorems about both | proofs |
| `SystemC` | the kernel as the testbenches use it | actions to compose |
| `CommandBench` | threads and waits of all single-model testbenches | state machine |
| `CommandBench_proofs` | theorems about it | proofs |
| `MaxpoolBench` | the threads of `maxpool_sim_main` | state machine |
| `MaxpoolLayout` | the address arithmetic of the co-simulation | state machine |
| `Maxpool_proofs` | theorems about both | proofs |
| `ResultCheck` | text, log, result file and comparison of flex and hlscnn | state machine |
| `ResultCheck_proofs` | theorems about it | proofs |
| `MC...` | small instances | model checking |

How they compose:

    VtaIsa <- VtaTestLib <- VtaPipeline <- VtaHost <- MCVtaPipeline
                                              |
                       implements VtaReference and VtaGemmProtocol
    VtaTestLib <- VtaTestLib_proofs <- VtaHost_proofs
    VtaGemmProtocol <- VtaGemmProtocol_proofs -- P == INSTANCE in VtaHost_proofs
    VtaTestLib <- VtaInOrder: the same stream at both levels
    VtaInOrder, VtaTestLib_proofs <- VtaInOrder_proofs
    VtaNumerics, VtaTools <- VtaData_proofs    the element operations VtaIsa abstracts; the tools
    SystemC <- CommandBench <- proofs
    SystemC <- MaxpoolBench, and MaxpoolLayout <- Maxpool_proofs
    ResultCheck <- proofs

The VTA tests are modelled at three levels because each level decides a different
question. In `VtaTestLib` an instruction moves or uses a whole block; that is
where the dependency flags matter, and where all interleavings can be explored.
In `VtaInOrder` every micro-op and every element has its address; program order
is enough there, because `TransfersItsBlock` shows that each transfer moves
exactly the block, to exactly the slot, that the block-level instruction at the same
position names. Both have symbolic values; what becomes of one element is the
question of `VtaNumerics`.

### Correspondence

**VtaTestLib.** `AluInsns`, `BlockedGemmInsns` and `GemmInsns` are the loops that
fill `insn_buf`; `i, j, k, l` are in blocks and `kl` is `k + l`. `DepPop`,
`DepPushPrev` and `LoadAccDeps` are the flag conditions. `insSize` is the formula
for the allocation. `AluTest`, `GemmTest` and `BlockedGemmTest` are the calls, with
`GemmRef` for the C reference loops: a value is symbolic, the bias block and
the ordered products, so that two results are equal only if all operands are.
`TestCalls` are the calls in units of blocks and `TestOf` the test of a call. The
last section, `LoadTile` and so on, is the refinement mapping: where in the nested
loops a unit is when it has executed r instructions of its part of the stream.

**VtaPipeline.** `Fetch` blocks on a full command queue; `Begin(u)` pops the tokens,
`End(u)` moves the data, pushes tokens and retires. Between them the unit is
`busy`, so that overlap is a state. `depth` is the capacity of the queues, which the
repository does not fix. `Calls` is the sequence of calls in `main`. `retired`, the
number of instructions a unit has executed, is a history variable: no guard reads
it. The accelerator is external; its discipline is what
`printInstruction` counts and what the comments on each flag say.

**VtaHost.** `Start` is one write of a start bit, in the order of `vta()`; a unit
moves only once it is started (`Running`). `Poll` is the read that sees the done
flag, `TimeOut` the last read when it does not; reads in between change nothing.
`Compare` is the check at the end of each test, `NextTest` and `Exit` free the
buffers and go on: buffers and tokens of the accelerator stay as they are, and
fetch must be started again. The flag is cleared before the driver polls for the
next run. `FreeTooEarly` frees the buffers while the accelerator still works on
them; what it then does is undefined, and the model stops there (`pc = "lost"`).
`Ref` and `Protocol` are the two abstract specifications under their mappings.

**VtaGemmProtocol.** `lt, ln` and `ct, cn` are the tile and step that load and
compute unit are at, `lst`, `cst`, `sst` the stage of a unit within a step. `Pop`
and `PushPrev` are the flag conditions in terms of tile and step; `NextCall` is the next
test. Input slots are not in the state: step n uses slot n % V. `alu_test` is a call
with V = 0: nothing for the load unit, and a row is a tile of one step, whose GEMM is
its ALU instruction.

**VtaNumerics.** One action per product (`Mac`), per sum added to the accumulator
(`AddSum`), for the output (`WriteOut`), and for an ALU micro-op (`Alu`), each with
the C reference's step on numbers in `ref`. A register of w bits is given by its
half range 2^(w-1), so that no width is built in. The order of the calls, a sum
of BlockIn products for each addition, is the GEMM core's (external). The C sum
is an `int`; where it overflows we take the wrap-around that the compilers in use
produce. `AluInputs` are the ranges of the test's random data: for a shift by 16
and more, function and reference differ, but `alu_test` draws -8 to 7.

**VtaInOrder.** `Transfer2D`, `GemmInsn`, `AluInsn`, `GemmUops`, `MapAluUops` are
the functions that build instructions and micro-ops; `Asserts` is the assertions
at their heads; `ExecLoad`, `ExecMicroOp`, `ExecStore` and `ExecFinish` execute one
transfer or one micro-op, whose addresses are `MicroOp`; `queue` are the counters of
`printInstruction`. `CallOf` is the call in units of blocks and `BlockTest` its test in
`VtaTestLib`, which has the flags. `TestsAssumption` says which calls there are:
matrices and blocks are not empty, and the virtual threads of `blocked_gemm_test` are
one or two and divide the blocks of a row, the condition under which its loops over pairs
take all blocks (true of every call in `vta_test.cc`, and not enforced by an assertion of
`blocked_gemm_test`: for other calls nothing is claimed of `insn_buf`); `GeometryAssumption`, that no size of the accelerator is zero. The
other conditions on a call are the code's assertions, and not assumed.

**CommandBench.** `kind` selects the testbench; `Delay` holds its waits in
nanoseconds, as in the code. `Reset`, `Issue`, `SourceEnd` are `Source`; `RunStart`,
`Poll`, `Compare`, `ScStop` are `run`; `Execute` is the model. The files differ in
names, and hence share these actions; the map names a different one of the
nine where several show the same code.

**MaxpoolBench.** `RelayTurn`, `RelayEof`, `FlexTurn`, `FlexEof` are the two
halves of the loop in `Source`, with `record` for `rd_record`.

**SystemC.** Threads and methods in `ready` run in any order within a delta cycle,
writes are pending until `Update`, and time passes in `Advance`.

**VtaTools.** `SkipLine`, `OpenLog`, `CopyLine`, `CloseLog` are the branches of the
two loops of `extract_sim_log`, one line each (`test` and `line` say which). In `input_gen`,
`OpenFile` takes an entry of `file_list`, `ReadCommand` and `ReadResult` are its
branches for a line, with `cmd_v` and `result_v`, and `WriteFiles` is the end of a file.
`Body` has the order of the shipped `vivado_hls.log`, which another version of the tests
than `vta/backup` printed (section 7).

**ResultCheck.** `Simulate` and `Dump` write the reference log (external);
`ConvertLine` is a line of `extract_input_seq`, which ends in `fragment` (the fragment of
flex has a command per line of the program from the start), `Format` and `DataIn` are `Source`,
`ExtractLine` is a line of `extract_flexnlp_result` or `extract_sim_result`,
`CompareFlex` and `CompareConv` are a row of the comparison, `Judge` the verdict.
`Feed` is the ILA model (external): it may get one byte of one write wrong,
as a wrong result of the accelerator would. Computation is left out: what a
layer computes arrives like a write. The stages run one after the other, as
`hlscnn/run.sh` and `vta/run_all.sh` call them. Left out: carriage
returns, which both extractors strip.

**MaxpoolLayout.** Its specification is `LayoutSpec`. `GenRow` is a row of `maxp_test_gen`, `CompareOne` an entry of
the comparison; `MapEntry` is the map that `prog_frag_gen` writes.

## 3. What each run checks, and its bounds

The runs check at most one type invariant per module; where a module has an inductive
invariant `IInv`, that stands for it.

**vta_pipeline.** Ten tests one after another (ALU with one and three rows, GEMM,
blocked GEMM of 1x1 to 2x2 tiles and up to three steps on one thread, up to 2x2 and 1x4
on two) on queues of [8 commands, 4 tokens] and of [1, 1], with the driver and
`main`; 201,466 states. `NoBufferRace`; `QuiescentAtFinish`: FINISH leaves no busy unit, no
command and no token; `ImplementsReference`: each block reaches DRAM once, with
the C result, before FINISH; `ImplementsProtocol`: in all three tests the pipeline makes only
steps of `VtaGemmProtocol`, the refinement mapping counting the instructions that a unit
has retired; `FailsOnlyByTimeOut`: a status other than 0, and buffers freed under a running
accelerator, are preceded by a time-out; `Finishes`; no deadlock. Bounds: the
flag conditions tell apart the first and last index of each loop, and 2x2 tiles with two
steps, with three steps, and with two pairs on two threads have a first, a last and one in
between. A queue of one blocks as often as it can; in one of four no more than two
tokens are ever seen, so that the long dependency queues never block a push. A time-out
may come at any poll, which is more than ten million reads allow.

**vta_gemm_protocol.** The protocol for 21 shapes of calls in any order, 1, 2 or 4
rows of `alu_test`, 1, 2 or 4 tiles of 1, 2 or 4 steps on one thread and 2, 4 or 6 on
two; 2,289 states. Operands are loaded
and not yet overwritten (`GemmReadsItsBlocks`), a tile is not touched while stored
(`StoreReadsItsTile`), `FinishIsLast`, `NoDeadlock`, and `IInv`, the inductive
invariant of the proofs.

**vta_numerics.** Registers of 3 (data), 7 (product), 9 (sum), 10 (accumulator), 6
(immediate) and 4 bits (shift), all pairs of operands, two sums of four products,
and biases up to the largest, with which the accumulator wraps around; 55,084
states. `SumIsExact`: the sum never overflows; `AccumIsReference`;
`OutIsReference`: what is stored is the reference narrowed to the output's width, for
GEMM and each ALU function with either source of its second operand; and `IInv`. The
proofs are for all widths, so the run need only be small enough to be complete.

**vta_in_order.** 22 calls with VTA_BATCH, VTA_BLOCK_IN and VTA_BLOCK_OUT
= 1, 2, 4, which differ so that one cannot stand for another; matrices of one to
four blocks, one or two threads, compressed or not, and two that the
assertions reject. `OutputIsReference`: each product exactly once in each output element;
`TransfersItsBlock`; `WithinBuffers`; `QueuesBalance`; `BufferExact`: the buffer is
allocated for exactly the instructions that fill it; `AdjacentInsnsDiffer`: no
instruction is lost by a testbench that is triggered by changes.

**vta_two_threads_overflow** (violation). See section 7.

**vta_tools.** Logs of up to three different tests of three operations, successful
or failed. `NothingLost`: concatenated, the files hold every information line, in
the order of the log and nothing else;
`FragmentsOfOneTest`; `Completes`. Three is enough for one test to be between two
others. **vta_tools_shr**, **vta_tools_failed** (violations): section 7.

**command_bench.** All programs of up to three commands over two commands and, for
flex, `0xdeaddead` anywhere, with the delays of the code. `ExecutedInOrder`:
up to equal neighbours, the model executes the program. `VerdictIsDeterministic`:
whatever the order of the threads at an instant, the comparison sees the whole
program, or for flex the part up to one command behind the marker. `Terminates`: a run
ends, except that of a flex program without a marker, which must poll for ever. `IInv`, the inductive invariant
of the proofs. Three commands are enough for
equal neighbours, a marker in the middle and two commands behind it; the
threads meet every 10 ns, so longer programs repeat the same meetings.

**maxpool_bench.** Files of all pairs of lengths up to three, and of 60 and 150
lines both ways with the real 1000 ns and 100 ns: the first poll is after all short
files are exhausted, so only the long ones have polls during and between the two ends.
`ExecutedInOrder`, `JudgedComplete` (both have executed everything when compared),
`Terminates`, `IInv`. Files are as generated: one marker, at the end, no equal
neighbours (`BothWellFormed`).

**maxpool_layout.** (timesteps, vectors) = (2,1), the smallest shipped input; one
group; two and three groups with one to three vectors, since odd and even groups
are different. `RelayIsRowMajor`, `NoFalseError`, `MapInvertsCompare`.

**result_check.** All programs of up to three writes and reads for three kinds of
testbench, with texts that are short, full with a low or high first digit, and one
digit too long, and every single wrong byte. A beat has two bytes, not 16: digits
are handled alike by position, and two bytes of two digits have a first, a last
and both orders. `SameProgram`; `RowsAreReads`; `NoFalseFailure`, for programs that
do not overwrite what they have read; `VerdictIsExact`: passes exactly if all bytes
that were read agree, and counts them, also for programs that do overwrite them and so
fail with a model that is right. The result file is always that of the program.

## 4. Fairness

* `VtaHost`: weak fairness of fetch and of begin and end of each unit. Each is
  a circuit of its own that runs while it can; none chooses between two enabled
  things, so strong fairness is not needed. Weak fairness of the host program. None
  of `TimeOut`: that the reads run out before the accelerator is done is possible, never
  certain, and `Finishes` says what holds either way.
* `CommandBench`, `MaxpoolBench`: weak fairness of `Next`. The SystemC scheduler
  is a loop that runs a process, updates or advances as long as one is possible.
  Nothing is assumed of single threads: that they all run follows from the phases.
* `VtaTools`: weak fairness of `Next`, a sequential program.
* The others state safety only.

## 5. Proofs

Eight modules hold theorems or lemmas. The theorems of VtaHost_proofs are about `HostSpec`;
those of Maxpool_proofs are about `Spec` of `MaxpoolBench` and `LayoutSpec` of
`MaxpoolLayout`, those of VtaData_proofs about `Spec` of `VtaNumerics` and `ToolsSpec` of
`VtaTools`; those of the other modules are about `Spec` of the module they are named
after. Where there is a theorem `Invariance`, it says that the specification implies always
the inductive invariant, which the others use.

### VtaGemmProtocol_proofs: every number of tiles, steps and calls

`TypeCorrect`: no dependency queue holds more tokens than there are threads, so that
queues of capacity two never block a push. `GemmOperands`, `StoredTile`,
`FinishLast`, `DeadlockFree`: the four properties of the run vta_gemm_protocol.

Assumed, as `CallsAssumption`: T and N are positive, there are no, one or two input
slots, without any N is 1, and with two N is even. The first follows from the assertions
on the shape at the head of `blocked_gemm_test` for matrices that are not empty, the
last from its loops over pairs (as in all calls, the number of blocks is a multiple of
the threads).

None of the properties is inductive: that a GEMM finds its operands depends on how
many tokens are on the way, and that on which part of its stream each unit is in. `IInv`
says it by ownership. Load and compute unit are in the same tile, or load has
finished the tile of compute and waits, or all is computed (`SlotInv`): in each case the
tokens between them are determined by their positions, and a slot
that is loaded is not the one that is read. The output buffer is being filled,
being stored, or stored (`OutInv`): the same for compute and store. `StageInv` ties
the ends of the streams to the tile numbers. Load touches only the first, store only the
second, and GEMM hands over both; the lemmas `LoadIInv`, `ComputeIInv` and `StoreIInv`
have one step per action. That the queues are empty when FINISH runs is then the
case "stored" with the token popped and every slot free; hence the next call
starts as the first.

### VtaTestLib_proofs: every stream in closed form

The generators append to a buffer in nested loops; the units see the subsequence of
it that is theirs. The lemmas turn one into the other: `Stream` gives the instruction
at every position of the stream of any call, with its flags; `PosOf(c, u, r)` is the
position of unit u's r-th instruction and `InsnOf(c, u, r)` that instruction; positions
increase with r, and every position is that of exactly one unit. `FlagsOfInsns` reads
off which queues each instruction pops and pushes. `Reference` gives the expected block of each
tile.

### VtaHost_proofs: every sequence of tests, every capacity of the queues

* `FollowsProtocol`: pipeline and host implement `VtaGemmProtocol`.
* `BuffersApart`: no two units use a buffer slot in conflicting ways.
* `QuiescentWhenDone`: FINISH leaves no busy unit, no command and no token.
* `ComputesReference`: pipeline and host implement `VtaReference`, so that each block
  gets to DRAM once, with the value of the C loops, before FINISH.
* `FailureIsTimeOut`: only a time-out makes a test fail or frees a buffer in use.
* `TypeCorrect`: the types, with the bounds of all queues.

Assumed: `CallsAssumption`, the calls are `alu_test` with at least one row, `gemm_test`
and `blocked_gemm_test` with at least one block, on one thread or on two that divide the
blocks of a row (what the calls of `vta_test.cc` are, in blocks); `DepthsAssumption`, each queue
has room for one entry.

None of these is inductive, since none says what is on the way between the units. `Inv`
has four parts on top of the types (`Base`). `CmdInv`: each command queue holds the next
instructions of its unit, in order, up to what is fetched; so what a unit begins is
`InsnOf` of the number it has retired, whatever the capacities. `P!IInv`: the
invariant of the protocol, under the refinement mapping; it is kept because every step of the
pipeline is a step of the protocol (`ProtocolStep`, one lemma for the begin and the end of
each unit), so that nothing about tokens is proved twice. `MemInv`: what the buffers hold at
these positions, namely the operands that are loaded and not yet computed, the partial sum of the
tile, the tile to be stored, and the blocks stored. `HostInv`: what the host may conclude
from the flag it has read. In the step of `MemInv` for a load the protocol's ownership of slots is
needed, to show that the block overwritten is one already used; in that for a store, that
the output buffer holds a complete tile. `BuffersApart` is the same ownership once more, for the
time during which two units are both busy. `QuiescentWhenDone` joins the protocol's empty dependency
queues with `CmdInv`: when all instructions are retired, the command queues are empty.
`NextTest` then restores all of `Inv`, though it resets neither tokens nor command queues.

### VtaInOrder_proofs: every size, shape and form of the micro-ops

All six properties of the run vta_in_order, for every call that the assertions accept and
every geometry.

* `Results`: every output is stored with its bias and with each product of the C loops
  folded in exactly once, and in the end all outputs are (`OutputIsReference`). It holds
  compressed or not, blocked or not, on one virtual thread or two.
* `BlockTransfers`: each transfer moves the block that the block-level stream names.
* `Bounded`: nothing is written beyond a buffer, *if* the inputs and weights of all virtual
  threads have room (`ThreadsFit`). The assertions guarantee that only for one thread
  (`OneThread`, where `WithinBuffers` needs no such hypothesis): this is the finding of
  section 7, from the other side.
* `Balanced`: read in order, no counter of `printInstruction` is ever negative, and all
  are zero in the end.
* `Exactness` and `Distinctness`: the buffer is filled exactly; neighbours differ.

Assumed: `GeometryAssumption` and `TestsAssumption` of section 2.

The proofs rest on one picture of a stream. `TestStream` turns the nested loops that
append to the buffer into a function of the position: `AccPos`, `PartPos` and `OutPos` are
where a tile loads its accumulator, where part e of step n is, and where the tile is stored.
`NextPlace` says which place follows which. The inductive invariants say what holds at each
place:

* `PosInv`: the next instruction is at a place, and only a GEMM or ALU instruction is half
  done. It is enough for `Exactness`, `Distinctness` and `BlockTransfers`.
* `QueueInv`: the tokens at each place, with the flags from `VtaTestLib_proofs`. That no
  counter is negative is not inductive by itself: what a tile may pop depends on what the
  tile before has pushed.
* `BoundInv`: the slots written so far are within the blocks of the virtual threads.
* `DataInv`: the outputs of the tiles before are stored (`StoredTiles`); in a GEMM the
  inputs and weights of the step are loaded, and the sum of row x and column k has its
  bias, the products of the steps before, and of this step the first J, where J is the
  number of its passes among those that the loops have made (`SumsAt`, `Depth`); in an
  ALU instruction the first so many elements of the row are combined (`RowAt`).

Where the arithmetic is: `Digits` and `Passes` say that the passes of the loops are numbered
in mixed radix, so that each row, input column and output column meet exactly once and those
of one sum meet in order; the digits are in a different order in compressed and in
full micro-ops, and `GemmMicroOp` is proved for both. `Operands` turns a slot of a buffer
into the element there, `Chain`, `RowAddress` and `OutAddress` the divisions in the
addresses into products, and `OutCovers` says that the tiles are all of the matrix.

### VtaData_proofs: every width, every log

`ExactSum`, `AccumMatches`, `OutMatches`: the three properties of the run. Assumed:
`WidthsAssumption` (each half range is positive, data and shift widths divide the accumulator's,
as powers of two do), `FitAssumption` (BlockIn products fit the sum; it holds of the
code's 8, 17 and 21 bits and blocks of 16), `BiasesAssumption` (biases are not
negative and fit, as the test's are), `Pow2Assumption`. The argument is modular: `Wrap` depends
only on the residue, so that truncating at each step equals truncating at the end,
and the sum never wraps because `FitAssumption` bounds it; `IInv` says that the
reference is ahead of the accumulator by exactly the products in the sum.

`Extraction` and `OneTestEach`: the two invariants of the run vta_tools, for logs of any
number of tests. Assumed: `CallsAssumption` (a log comes from a sequence of calls). `ToolsInv`
has a part for each question. `LogInv`: between the header and the end of a test a log is open,
and an open log is that of the last entry. `OrderInv`, if the names differ: no
entry comes twice, each information line that has been passed is in a file, and the lines are
in order; a line that is kept comes last because all others have been passed. `OneTestInv`, if
all tests succeed: the open log is that of the test being read and has only its lines, so that
a file has lines of one test even when two tests share its name. `GenInv`: what is
generated from a file has the tests of lines in it. The proofs need the two
properties' hypotheses where they are used and no further: a failed test breaks `OneTestInv` but
not `OrderInv`, an equal name the other way round.

### Maxpool_proofs: every shape, all files, all poll periods

`Generated`, `NoErrors`, `MapIsInverse`: the properties of the run maxpool_layout, for
timesteps that are a multiple of 16, or one vector and an even number of timesteps
(`ShapesAssumption`: full groups, or whole pairs of timesteps; with several vectors and
a group that is not full the layouts are not permutations of each other). Each
address is written in mixed radix (group, vector, timestep within the group), and
the three translations are shown to permute the digits.

`InOrder` and `Complete`. Assumed: no line of a file equals the reset values
(`FilesAssumption`) and waits are positive (`PollAssumption`); the properties
themselves speak of well-formed files. Time is not in the invariant: the last line of
each file is `Written`, `Due` or `Settled`, and `Source` moves on only when it is
settled, because time advances only when nothing else can be done.

### CommandBench_proofs: programs of every length

`InOrder` and `Verdict`, for the three kinds of testbench. Assumed: no command equals
the reset values (`CasesAssumption`). The order of execution is untimed again
(`OrderInv`); `Rank(n)` counts the commands among the first n that differ from
their predecessor. That the verdict of a flex testbench is deterministic does depend
on time: both threads wait 20 ns and then 10 ns per turn, so that `run` looks exactly once after
each command. `PaceInv` says so: whoever has had its turn sleeps as long as the other
one will. `LookInv` then says which commands `run` finds, and that the marker was not among
the earlier ones.

### ResultCheck_proofs: every program, every printed length

`SameMemories`, `ReadsAreRows`, `CorrectPasses` and `Exact`: the four properties of the run
result_check, for programs and numbers of any length. Assumed: beats have an even
number of bytes, and a whole number of them fit into the part of the memories that is
used, which is at most the megabyte that the comparison's `% 0x100000` tells apart
(`BeatAssumption`); programs address whole beats of the buffers of their testbench,
and hlscnn prints no number longer than a beat (`CasesAssumption`: `extract_input_seq`
pads with 32 minus the length, which is unsigned). Accesses that are not aligned
to beats are outside: the layouts the tests use are. `CorrectPasses` speaks of programs
that do not overwrite what they have read; others may fail with a correct
model, because there is one comparison, at the end.

The argument has three layers. Numbers: `Full(data)` are the digits of a beat, and
`Pad`, `Format` and `Trim` restore them, whatever number of zeros SystemC printed (`PadRestores`,
`FormatRestores`, `TrimPrinted`), so that every text arrives with its `Value`. Memory:
`Content(m, b, n)` is the byte that the last of the first n commands to cover it
wrote; that beats at different addresses do not overlap (`Apart`) makes it the same
as `Before`, what was last written to the address. Counting: `Rank(n)` is the number of
reads up to n, so that command n of flex begins at line `At(n) = 2 + n + 2 * Rank(n - 1)` of the
log and its row is row `Rank(n)`. The inductive invariant `IInv` has one part for each
stage, in these terms: memories hold `Content`, log lines belong to their command,
the fragment is the program, rows are reads, and `err_total` is the number
of the `WrongBytes` of the rows compared so far. Two facts about stages need each other and
make the properties alone not inductive: nothing reads the log before it is
complete, and nothing is compared before the last line is extracted.

## 6. What is only model-checked

* Liveness (`Finishes`, `Terminates`, `Completes`): the prover has no rules for
  fairness. `DeadlockFree` is its safety half for the protocol,
  as long as no dependency queue is full; that full queues do no harm either is
  checked, with queues of capacity one.

Every invariant and action property of a run is a theorem. Induction over data is out of the
prover's reach, so nothing is stated by folding over a sequence: `NothingLost` says by its places
and their order what a concatenation of the files would say.

## 7. Findings

* **Two virtual threads overflow the buffers**
  (`vta/backup/test_lib.cc:983`, run vta_two_threads_overflow). "Make sure we don't
  exceed buffer bounds" (line 981) precedes assertions about one block; with two
  threads the second block is loaded behind the first. A call that fills the
  buffers passes and writes beyond their end. No call that is not commented out
  has two threads.
* **Two tests, one name** (`vta/backup/test_lib.cc:140`, run vta_tools_shr).
  `getOpcodeString` returns "shr" with and without an immediate; the name is a
  file name, and the second test's log replaces the first's, though
  `vta/README.md:17` promises one "for each given testcase".
* **A failed test swallows the next** (`vta/tool/extract_sim_log.cc:28`, run
  vta_tools_failed). The inner loop ends at "test successful!" only.

Seen on the way, and no disagreement with a document: an empty or missing result
file passes, since 0 = 0 (`VerdictIsExact` has programs without reads, but a missing file
is not modelled). `vta/backup/test_lib.cc:590` prints an instruction without the "info:" at
whose colon `input_gen.cc:143` cuts, and before the data instead of after it (line 1108): its
logs are not in the format of the shipped one, which the tools read. The shipped
hlscnn fragment has nine equal neighbours and two flex fragments have two and
one, which the model sees once: repeated writes of a register, without effect.

All hazards, with their lines and the properties that cover them, are in
`PROJECT.json`.

## 8. Plan

The order was by importance: dependency flags, addresses, testbench threads, tools,
comparison; then two virtual threads, the driver and repeated tests, the operator
functions, and the proofs about protocol, numbers, layout, testbenches, the pipeline with
its host, the comparison, the tests micro-op by micro-op and the log tools. Left: what
section 1 leaves out.

## 9. Running

    tlc -config MCVtaPipeline.cfg MCVtaPipeline          # and the other MC modules
    tlc -config MCVtaInOrderTwoThreads.cfg MCVtaInOrder  # a violation
    tlapm VtaGemmProtocol_proofs.tla
    tlapm VtaTestLib_proofs.tla
    tlapm VtaHost_proofs.tla
    tlapm VtaData_proofs.tla
    tlapm VtaInOrder_proofs.tla
    tlapm Maxpool_proofs.tla
    tlapm CommandBench_proofs.tla
    tlapm ResultCheck_proofs.tla

`PROJECT.json` lists the runs with what they show, the source lines of every
definition, and for every property a plausible bug (the definitions marked
"mutant") that violates it.
