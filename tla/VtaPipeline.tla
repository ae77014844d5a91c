---------------------------- MODULE VtaPipeline ----------------------------
(***************************************************************************)
(* A test executed by the accelerator: fetch hands each instruction to the *)
(* command queue of its unit, and the load, compute and store units run    *)
(* concurrently, held back by nothing but the four dependency queues that  *)
(* the flags of the instructions pop and push.  The units are not part of  *)
(* this repository; they are modelled by the discipline that test_lib.cc   *)
(* programs against (printInstruction, and the comments on each flag).     *)
(* VtaHost adds the program that starts the units and waits for them.      *)
(*                                                                         *)
(* An instruction occupies its unit from Begin, which pops its tokens, to  *)
(* End, which has moved the data and pushes its tokens.  Two units that    *)
(* are busy with conflicting instructions are a data race.                 *)
(***************************************************************************)
EXTENDS VtaTestLib

CONSTANTS
  Calls,    \* the sequence of calls of tests
  Depths    \* the capacities to consider: [cmd, dep], of the command queues and
            \* of the dependency queues

ASSUME CallsAssumption == Calls \in Seq(TestCalls)
ASSUME DepthsAssumption == Depths \subseteq [cmd : Nat \ {0}, dep : Nat \ {0}]

Tests == [n \in DOMAIN Calls |-> TestOf(Calls[n])]

VARIABLES
  test,       \* the number of the test that runs
  depth,      \* the capacities of the accelerator it runs on
  fetched,    \* instructions fetched so far
  cmds,       \* per unit: the command queue, positions of instructions
  busy,       \* per unit: is it executing its next instruction
  token,      \* tokens in each dependency queue
  mem,        \* the memories of the accelerator
  done,       \* FINISH has been executed
  retired     \* history: per unit, the instructions of the test it has executed

vars == <<test, depth, fetched, cmds, busy, token, mem, done, retired>>

Insns == Tests[test].insns

\* The instruction a unit executes, or will execute next.  It leaves the
\* command queue when it is complete.
Current(u) == Insns[Head(cmds[u])]

Init ==
  /\ test \in DOMAIN Tests /\ depth \in Depths
  /\ fetched = 0
  /\ cmds = [u \in Units |-> <<>>]
  /\ busy = [u \in Units |-> FALSE]
  /\ token = [q \in Queues |-> 0]
  /\ mem = InitMem(Tests[test].slots)
  /\ done = FALSE
  /\ retired = [u \in Units |-> 0]

FetchUnbounded ==   \* (mutant: does not look for room in the command queue)
  /\ fetched < Len(Insns)
  /\ LET u == Unit(Insns[fetched + 1]) IN
       cmds' = [cmds EXCEPT ![u] = Append(@, fetched + 1)]
  /\ fetched' = fetched + 1
  /\ UNCHANGED <<test, depth, busy, token, mem, done, retired>>

\* Fetch blocks on a full command queue, also when another unit is starved.
Fetch ==
  /\ fetched < Len(Insns)
  /\ LET u == Unit(Insns[fetched + 1]) IN
       /\ Len(cmds[u]) < depth.cmd
       /\ cmds' = [cmds EXCEPT ![u] = Append(@, fetched + 1)]
  /\ fetched' = fetched + 1
  /\ UNCHANGED <<test, depth, busy, token, mem, done, retired>>

Begin(u) ==
  /\ ~busy[u]
  /\ cmds[u] # <<>>
  /\ \A q \in Pops(Current(u)) : token[q] > 0
  /\ token' = [q \in Queues |-> IF q \in Pops(Current(u)) THEN token[q] - 1 ELSE token[q]]
  /\ busy' = [busy EXCEPT ![u] = TRUE]
  /\ UNCHANGED <<test, depth, fetched, cmds, mem, done, retired>>

End(u) ==
  /\ busy[u]
  /\ \A q \in Pushes(Current(u)) : token[q] < depth.dep
  /\ token' = [q \in Queues |-> IF q \in Pushes(Current(u)) THEN token[q] + 1 ELSE token[q]]
  /\ mem' = Exec(Current(u), mem)
  /\ done' = (done \/ Current(u).op = "FINISH")
  /\ cmds' = [cmds EXCEPT ![u] = Tail(@)]
  /\ busy' = [busy EXCEPT ![u] = FALSE]
  /\ retired' = [retired EXCEPT ![u] = @ + 1]
  /\ UNCHANGED <<test, depth, fetched>>

-----------------------------------------------------------------------------

TypeOK ==
  /\ test \in DOMAIN Tests /\ depth \in Depths
  /\ fetched \in 0 .. Len(Insns)
  /\ cmds \in [Units -> Seq(1 .. fetched)]
  /\ \A u \in Units : Len(cmds[u]) <= depth.cmd
  /\ busy \in [Units -> BOOLEAN]
  /\ token \in [Queues -> 0 .. depth.dep]
  /\ DOMAIN mem.dram \subseteq DOMAIN Tests[test].ref
  /\ done \in BOOLEAN

\* No unit writes a buffer slot while another one reads or writes it: a load
\* never overwrites the block a GEMM is reading, and no GEMM or ALU overwrites
\* the output block that is being stored.
NoBufferRace ==
  \A u, v \in Units :
    (u # v /\ busy[u] /\ busy[v]) => ~Conflict(Current(u), Current(v))

\* FINISH is the last thing to happen: the other units are idle with empty
\* command queues, and no token is left over for the next run.
QuiescentAtFinish ==
  done => /\ \A u \in Units : ~busy[u] /\ cmds[u] = <<>>
          /\ \A q \in Queues : token[q] = 0
=============================================================================
