--------------------------- MODULE VtaHost_proofs ---------------------------
(***************************************************************************)
(* Proofs about the tests on a board, for every sequence of calls of the   *)
(* three tests and for every capacity of the queues: the accelerator that  *)
(* executes the streams follows the token protocol, no two units touch the *)
(* same buffer slot, the blocks that reach DRAM are the C reference, and   *)
(* the program fails only when it has stopped polling.                     *)
(*                                                                         *)
(* VtaTestLib_proofs says what the streams are, VtaGemmProtocol_proofs     *)
(* proves the protocol.  The inductive invariant Inv adds what ties the    *)
(* two together: what is in the command queues, which positions the tokens *)
(* stand for, and what the buffers hold at these positions.                *)
(***************************************************************************)
EXTENDS VtaHost, VtaTestLib_proofs

P == INSTANCE VtaGemmProtocol_proofs WITH
  Calls <- {ShapeOf(Calls[n]) : n \in DOMAIN Calls}, call <- ShapeOf(ThisCall),
  lt <- LoadTile(ThisCall, Loads), ln <- LoadStep(ThisCall, Loads),
  lst <- LoadStage(Loads, busy["load"]),
  ct <- ComputeTile(ThisCall, Computes), cn <- ComputeStep(ThisCall, Computes),
  cst <- ComputeStage(ThisCall, Computes, busy["compute"]),
  st <- retired["store"], sst <- StoreStage(busy["store"]),
  l2g <- token[<<"load", "compute">>], g2l <- token[<<"compute", "load">>],
  g2s <- token[<<"compute", "store">>], s2g <- token[<<"store", "compute">>]

-----------------------------------------------------------------------------
(* The inductive invariant                                                  *)

Base ==
  /\ test \in DOMAIN Calls /\ depth \in Depths
  /\ fetched \in 0 .. Length(ThisCall)
  /\ cmds = [u \in Units |-> cmds[u]]
  /\ busy \in [Units -> BOOLEAN]
  /\ retired \in [Units -> Nat]
  /\ token \in [Queues -> 0 .. depth.dep]
  /\ done \in BOOLEAN
  /\ done <=> retired["compute"] = Count(ThisCall, "compute")

\* The command queue q of a unit that has executed r instructions of call c, when f
\* instructions are fetched: it holds the next ones of the unit, all up to f.
InOrder(c, u, r, q, f) ==
  /\ q \in Seq(Nat)
  /\ r + Len(q) <= Count(c, u)
  /\ \A k \in 1 .. Len(q) : q[k] = PosOf(c, u, r + k - 1)
  /\ \A s \in 0 .. Count(c, u) - 1 : s < r + Len(q) <=> PosOf(c, u, s) <= f

CmdInv ==
  \A u \in Units :
    /\ InOrder(ThisCall, u, retired[u], cmds[u], fetched)
    /\ Len(cmds[u]) <= depth.cmd
    /\ busy[u] => cmds[u] # <<>>

\* The memories, for whoever wants to change a part of them.
IsFun(f) == f = [x \in DOMAIN f |-> f[x]]
IsMem(m) ==
  /\ m = [inp |-> m.inp, wgt |-> m.wgt, acc |-> m.acc, out |-> m.out, dram |-> m.dram]
  /\ IsFun(m.inp) /\ IsFun(m.wgt)

\* The input slots from step n to step k - 1 of tile t hold the blocks of these.
Operands(c, m, t, n, k) ==
  \A i \in n .. k - 1 : /\ m.inp[i % SlotsOf(c)] = InpBlock(c, t, i)
                        /\ m.wgt[i % SlotsOf(c)] = WgtBlock(c, t, i)

\* The first n tiles are in DRAM, and nothing else.
Stored(c, n) ==
  [b \in {BlockOf(c, t) : t \in 0 .. n - 1} |-> TestOf(c).ref[b]]

\* The steps loaded of the tile that the compute unit is at, when the load unit
\* has executed x instructions and the compute unit y.
LoadedHere(c, x, y) ==
  IF LoadTile(c, x) = ComputeTile(c, y) THEN LoadStep(c, x) ELSE StepsOf(c)

\* What is in the memories when the store unit has executed z instructions, and
\* the compute unit is running its next one or not: the operands of the steps
\* that are loaded and not computed, the tile in progress, and the results.
MemOK(c, m, x, y, running, z) ==
  LET t == ComputeTile(c, y)
      n == ComputeStep(c, y)
      stage == ComputeStage(c, y, running)
  IN  /\ IsMem(m)
      /\ 0 .. SlotsOf(c) - 1 \subseteq DOMAIN m.inp
      /\ 0 .. SlotsOf(c) - 1 \subseteq DOMAIN m.wgt
      /\ SlotsOf(c) # 0 => Operands(c, m, t, n, LoadedHere(c, x, y))
      /\ x % 2 = 1 => m.wgt[LoadStep(c, x) % SlotsOf(c)] = WgtBlock(c, LoadTile(c, x), LoadStep(c, x))
      /\ stage \in {"gemm", "gemmRun"} => m.acc = Partial(c, t, n)
      /\ stage = "acc" /\ t > 0 => m.out = Result(c, t - 1)
      /\ m.dram = Stored(c, z)

MemInv == MemOK(ThisCall, mem, Loads, Computes, busy["compute"], retired["store"])

HostInv ==
  /\ pc \in {"compare", "free", "exit"} /\ ~timedOut => done
  /\ pc = "lost" => timedOut
  /\ status # 0 => timedOut

Inv == Base /\ CmdInv /\ P!IInv /\ MemInv /\ HostInv

-----------------------------------------------------------------------------
(* The command queues                                                       *)

\* A queue holds nothing when the run starts.
LEMMA EmptyInOrder ==
  ASSUME NEW c \in TestCalls, NEW u \in Units
  PROVE  InOrder(c, u, 0, <<>>, 0)
<1>1. Count(c, u) \in Nat
  BY Counts
<1>2. ASSUME NEW s \in 0 .. Count(c, u) - 1
      PROVE  ~(PosOf(c, u, s) <= 0)
  <2>1. PosOf(c, u, s) \in 1 .. Length(c)
    BY <1>1, PosIsUnits
  <2> QED BY <2>1
<1> QED BY <1>1, <1>2 DEF InOrder

\* The instruction at the head of a queue is the next one of its unit.
LEMMA HeadInOrder ==
  ASSUME NEW c \in TestCalls, NEW u \in Units, NEW r \in Nat, NEW q, NEW f \in Nat,
         InOrder(c, u, r, q, f), q # <<>>
  PROVE  /\ r < Count(c, u)
         /\ TestOf(c).insns[Head(q)] = InsnOf(c, u, r)
<1>1. q \in Seq(Nat) /\ Len(q) \in Nat \ {0} /\ Count(c, u) \in Nat
  BY Counts DEF InOrder
<1>2. r < Count(c, u)
  BY <1>1 DEF InOrder
<1>3. Head(q) = PosOf(c, u, r)
  <2>1. q[1] = PosOf(c, u, r + 1 - 1) /\ r + 1 - 1 = r
    BY <1>1 DEF InOrder
  <2> QED BY <1>1, <2>1
<1>4. PosOf(c, u, r) \in 1 .. Length(c) /\ InsnAt(c, PosOf(c, u, r)) = InsnOf(c, u, r)
  BY <1>2, PosIsUnits
<1>5. TestOf(c).insns[PosOf(c, u, r)] = InsnAt(c, PosOf(c, u, r))
  BY <1>4, Stream
<1> QED BY <1>2, <1>3, <1>4, <1>5, Zenon

\* An instruction that leaves its queue.
LEMMA RetireInOrder ==
  ASSUME NEW c \in TestCalls, NEW u \in Units, NEW r \in Nat, NEW q, NEW f \in Nat,
         InOrder(c, u, r, q, f), q # <<>>
  PROVE  InOrder(c, u, r + 1, Tail(q), f) /\ Len(Tail(q)) = Len(q) - 1
<1>1. q \in Seq(Nat) /\ Len(q) \in Nat \ {0} /\ Count(c, u) \in Nat
  BY Counts DEF InOrder
<1>2. /\ Tail(q) \in Seq(Nat) /\ Len(Tail(q)) = Len(q) - 1
      /\ \A k \in 1 .. Len(q) - 1 : Tail(q)[k] = q[k + 1]
  BY <1>1
<1>3. ASSUME NEW k \in 1 .. Len(Tail(q))
      PROVE  Tail(q)[k] = PosOf(c, u, (r + 1) + k - 1)
  <2>1. k + 1 \in 1 .. Len(q) /\ r + (k + 1) - 1 = (r + 1) + k - 1
    BY <1>1, <1>2
  <2>2. q[k + 1] = PosOf(c, u, r + (k + 1) - 1)
    BY <2>1 DEF InOrder
  <2> QED BY <1>2, <2>1, <2>2
<1>4. (r + 1) + Len(Tail(q)) = r + Len(q)
  BY <1>1, <1>2
<1> QED BY <1>1, <1>2, <1>3, <1>4 DEF InOrder

\* An instruction that is fetched goes to its unit's queue.
LEMMA FetchInOrder ==
  ASSUME NEW c \in TestCalls, NEW u \in Units, NEW r \in Nat, NEW q, NEW f \in Nat,
         InOrder(c, u, r, q, f), f < Length(c), Unit(InsnAt(c, f + 1)) = u
  PROVE  InOrder(c, u, r, Append(q, f + 1), f + 1)
<1>1. q \in Seq(Nat) /\ Len(q) \in Nat /\ Count(c, u) \in Nat /\ r + Len(q) <= Count(c, u)
  BY Counts DEF InOrder
<1>2. f + 1 \in 1 .. Length(c)
  BY Widths
<1>3. PICK v \in Units, s \in Nat : s < Count(c, v) /\ f + 1 = PosOf(c, v, s)
  BY <1>2, PosCovers
<1>4. v = u
  BY <1>3, PosIsUnits
<1>5. s < Count(c, u) /\ f + 1 = PosOf(c, u, s) /\ s \in 0 .. Count(c, u) - 1
  BY <1>1, <1>3, <1>4
<1>6. s = r + Len(q)
  <2>1. ~(s < r + Len(q))
    BY <1>5 DEF InOrder
  <2>2. ASSUME r + Len(q) < s PROVE FALSE
    <3> DEFINE n == r + Len(q)
    <3>1. n \in 0 .. Count(c, u) - 1 /\ n \in Nat /\ n < s
      BY <1>1, <1>5, <2>2
    <3>2. PosOf(c, u, n) < PosOf(c, u, s) /\ PosOf(c, u, n) \in 1 .. Length(c)
      <4> HIDE DEF n
      <4>1. n < Count(c, u)
        BY <1>1, <3>1
      <4> QED BY <1>5, <3>1, <4>1, PosMonotone, PosIsUnits
    <3>3. n < n
      BY <1>5, <3>1, <3>2 DEF InOrder
    <3> QED BY <1>1, <3>3
  <2> QED BY <1>1, <1>3, <2>1, <2>2
<1>7. /\ Append(q, f + 1) \in Seq(Nat) /\ Len(Append(q, f + 1)) = Len(q) + 1
      /\ \A k \in 1 .. Len(q) : Append(q, f + 1)[k] = q[k]
      /\ Append(q, f + 1)[Len(q) + 1] = f + 1
  BY <1>1
<1>8. ASSUME NEW k \in 1 .. Len(Append(q, f + 1))
      PROVE  Append(q, f + 1)[k] = PosOf(c, u, r + k - 1)
  <2>1. CASE k \in 1 .. Len(q)
    BY <1>7, <2>1 DEF InOrder
  <2>2. CASE k = Len(q) + 1
    <3>1. r + k - 1 = s
      BY <1>1, <1>6, <2>2
    <3> QED BY <1>5, <1>7, <2>2, <3>1
  <2> QED BY <1>1, <1>7, <2>1, <2>2
<1>9. ASSUME NEW n \in 0 .. Count(c, u) - 1
      PROVE  n < r + (Len(q) + 1) <=> PosOf(c, u, n) <= f + 1
  <2>1. PosOf(c, u, n) \in 1 .. Length(c) /\ PosOf(c, u, s) \in 1 .. Length(c)
    BY <1>1, <1>5, PosIsUnits
  <2>2. CASE n < s
    <3>1. PosOf(c, u, n) < PosOf(c, u, s)
      BY <1>5, <2>2, PosMonotone
    <3> QED BY <1>1, <1>5, <1>6, <2>1, <2>2, <3>1
  <2>3. CASE n = s
    BY <1>1, <1>5, <1>6, <2>1, <2>3
  <2>4. CASE s < n
    <3>1. PosOf(c, u, s) < PosOf(c, u, n)
      BY <1>1, <2>4, PosMonotone
    <3> QED BY <1>1, <1>5, <1>6, <2>1, <2>4, <3>1
  <2> QED BY <1>3, <2>2, <2>3, <2>4
<1>a. r + (Len(q) + 1) <= Count(c, u)
  BY <1>1, <1>5, <1>6
<1> QED BY <1>7, <1>8, <1>9, <1>a DEF InOrder

\* The other units' queues are still right.
LEMMA FetchElsewhere ==
  ASSUME NEW c \in TestCalls, NEW u \in Units, NEW r \in Nat, NEW q, NEW f \in Nat,
         InOrder(c, u, r, q, f), f < Length(c), Unit(InsnAt(c, f + 1)) # u
  PROVE  InOrder(c, u, r, q, f + 1)
<1>1. ASSUME NEW s \in 0 .. Count(c, u) - 1
      PROVE  PosOf(c, u, s) <= f <=> PosOf(c, u, s) <= f + 1
  <2>1. PosOf(c, u, s) \in 1 .. Length(c) /\ Unit(InsnAt(c, PosOf(c, u, s))) = u
    BY Counts, PosIsUnits
  <2>2. PosOf(c, u, s) # f + 1
    BY <2>1
  <2> QED BY <2>1, <2>2
<1> QED BY <1>1 DEF InOrder

\* A unit that has executed all its instructions has none left in its queue.
LEMMA AllRetired ==
  ASSUME NEW c \in TestCalls, NEW u \in Units, NEW q, NEW f, InOrder(c, u, Count(c, u), q, f)
  PROVE  q = <<>>
<1>1. q \in Seq(Nat) /\ Len(q) \in Nat /\ Count(c, u) \in Nat
  BY Counts DEF InOrder
<1>2. Len(q) = 0
  BY <1>1 DEF InOrder
<1> QED BY <1>1, <1>2

-----------------------------------------------------------------------------
(* What a unit does when it begins and when it ends an instruction          *)

\* The calls are those of TestCalls, and each has its test.
LEMMA CallOf ==
  ASSUME NEW n \in DOMAIN Calls
  PROVE  Calls[n] \in TestCalls /\ Tests[n] = TestOf(Calls[n])
BY CallsAssumption DEF Tests

\* In particular the call of the test that runs.
LEMMA ThisCallOK == Base => ThisCall \in TestCalls /\ Tests[test] = TestOf(ThisCall)
BY CallOf DEF Base, ThisCall

\* The instruction at the head of the command queue.
LEMMA CurrentInsn ==
  ASSUME Base, CmdInv, NEW u \in Units, cmds[u] # <<>>
  PROVE  /\ ThisCall \in TestCalls /\ retired[u] \in Nat
         /\ retired[u] < Count(ThisCall, u)
         /\ Current(u) = InsnOf(ThisCall, u, retired[u])
<1>1. ThisCall \in TestCalls /\ Tests[test] = TestOf(ThisCall)
  BY ThisCallOK
<1>2. retired[u] \in Nat /\ fetched \in Nat /\ InOrder(ThisCall, u, retired[u], cmds[u], fetched)
  BY <1>1, Widths DEF Base, CmdInv
<1>3. /\ retired[u] < Count(ThisCall, u)
      /\ TestOf(ThisCall).insns[Head(cmds[u])] = InsnOf(ThisCall, u, retired[u])
  BY <1>1, <1>2, HeadInOrder
<1> QED BY <1>1, <1>2, <1>3 DEF Current, Insns

\* Begin pops the tokens of the next instruction in the unit's part of the stream.
LEMMA BeginStep ==
  ASSUME Base, CmdInv, NEW u \in Units, Begin(u)
  PROVE  LET insn == InsnOf(ThisCall, u, retired[u])
         IN  /\ ThisCall \in TestCalls /\ retired[u] \in Nat /\ retired[u] < Count(ThisCall, u)
             /\ ~busy[u] /\ busy'[u]
             /\ \A v \in Units : v # u => busy'[v] = busy[v]
             /\ retired' = retired /\ ThisCall' = ThisCall
             /\ \A q \in Pops(insn) : token[q] > 0
             /\ \A q \in Queues : token'[q] = IF q \in Pops(insn) THEN token[q] - 1 ELSE token[q]
<1>1. Current(u) = InsnOf(ThisCall, u, retired[u])
  BY CurrentInsn DEF Begin
<1>2. busy'[u] /\ \A v \in Units : v # u => busy'[v] = busy[v]
  BY DEF Begin, Base
<1>3. /\ ThisCall \in TestCalls /\ retired[u] \in Nat /\ retired[u] < Count(ThisCall, u)
  BY CurrentInsn DEF Begin
<1>4. retired' = retired /\ ThisCall' = ThisCall /\ ~busy[u]
  BY DEF Begin, ThisCall
<1> HIDE DEF Begin
<1>5. \A q \in Pops(Current(u)) : token[q] > 0
  BY DEF Begin
<1>6. \A q \in Queues : token'[q] = IF q \in Pops(Current(u)) THEN token[q] - 1 ELSE token[q]
  BY DEF Begin
<1> QED BY <1>1, <1>2, <1>3, <1>4, <1>5, <1>6, Zenon

\* End executes this instruction, pushes its tokens and goes on to the one after it.
LEMMA EndStep ==
  ASSUME Base, CmdInv, NEW u \in Units, End(u)
  PROVE  LET insn == InsnOf(ThisCall, u, retired[u])
         IN  /\ ThisCall \in TestCalls /\ retired[u] \in Nat /\ retired[u] < Count(ThisCall, u)
             /\ busy[u] /\ ~busy'[u]
             /\ \A v \in Units : v # u => busy'[v] = busy[v]
             /\ retired'[u] = retired[u] + 1
             /\ \A v \in Units : v # u => retired'[v] = retired[v]
             /\ ThisCall' = ThisCall
             /\ \A q \in Pushes(insn) : token[q] < depth.dep
             /\ \A q \in Queues : token'[q] = IF q \in Pushes(insn) THEN token[q] + 1 ELSE token[q]
             /\ mem' = Exec(insn, mem)
             /\ done' = (done \/ insn.op = "FINISH")
<1>0. cmds[u] # <<>>
  BY DEF End, CmdInv
<1>1. Current(u) = InsnOf(ThisCall, u, retired[u])
  BY <1>0, CurrentInsn
<1>2. /\ ~busy'[u] /\ \A v \in Units : v # u => busy'[v] = busy[v]
      /\ retired'[u] = retired[u] + 1
      /\ \A v \in Units : v # u => retired'[v] = retired[v]
  BY DEF End, Base
<1>3. /\ ThisCall \in TestCalls /\ retired[u] \in Nat /\ retired[u] < Count(ThisCall, u)
  BY <1>0, CurrentInsn
<1>4. ThisCall' = ThisCall /\ busy[u]
  BY DEF End, ThisCall
<1>5. \A q \in Pushes(Current(u)) : token[q] < depth.dep
  BY DEF End
<1>6. \A q \in Queues : token'[q] = IF q \in Pushes(Current(u)) THEN token[q] + 1 ELSE token[q]
  BY DEF End
<1>7. mem' = Exec(Current(u), mem) /\ done' = (done \/ Current(u).op = "FINISH")
  BY DEF End
<1> QED BY <1>1, <1>2, <1>3, <1>4, <1>5, <1>6, <1>7, Zenon

\* The fields of the instructions.
LEMMA Fields ==
  ASSUME NEW c, NEW t, NEW n
  PROVE  /\ LoadUop.op = "LOAD" /\ LoadUop.memory = "UOP" /\ LoadUop.sram = 0
         /\ Finish.op = "FINISH"
         /\ AccInsn(c, t).op = "LOAD" /\ AccInsn(c, t).memory = "ACC"
         /\ AccInsn(c, t).sram = 0 /\ AccInsn(c, t).dram = BlockOf(c, t)
         /\ WgtInsn(c, t, n).op = "LOAD" /\ WgtInsn(c, t, n).memory = "WGT"
         /\ WgtInsn(c, t, n).sram = n % SlotsOf(c)
         /\ WgtInsn(c, t, n).dram = WgtBlock(c, t, n)
         /\ InpInsn(c, t, n).op = "LOAD" /\ InpInsn(c, t, n).memory = "INP"
         /\ InpInsn(c, t, n).sram = n % SlotsOf(c)
         /\ InpInsn(c, t, n).dram = InpBlock(c, t, n)
         /\ SlotsOf(c) = 0 => /\ StepInsn(c, t, n).op = "ALU"
                              /\ StepInsn(c, t, n).dram = BlockOf(c, t)
         /\ SlotsOf(c) # 0 => /\ StepInsn(c, t, n).op = "GEMM"
                              /\ StepInsn(c, t, n).sram = n % SlotsOf(c)
         /\ StoreInsn(c, t).op = "STORE" /\ StoreInsn(c, t).dram = BlockOf(c, t)
<1>1. LoadUop.op = "LOAD" /\ LoadUop.memory = "UOP" /\ LoadUop.sram = 0 /\ Finish.op = "FINISH"
  BY DEF LoadUop, Finish, Insn
<1>2. /\ AccInsn(c, t).op = "LOAD" /\ AccInsn(c, t).memory = "ACC"
      /\ AccInsn(c, t).sram = 0 /\ AccInsn(c, t).dram = BlockOf(c, t)
  BY DEF AccInsn, Insn
<1>3. /\ WgtInsn(c, t, n).op = "LOAD" /\ WgtInsn(c, t, n).memory = "WGT"
      /\ WgtInsn(c, t, n).sram = n % SlotsOf(c)
      /\ WgtInsn(c, t, n).dram = WgtBlock(c, t, n)
  BY DEF WgtInsn, Insn
<1>4. /\ InpInsn(c, t, n).op = "LOAD" /\ InpInsn(c, t, n).memory = "INP"
      /\ InpInsn(c, t, n).sram = n % SlotsOf(c)
      /\ InpInsn(c, t, n).dram = InpBlock(c, t, n)
  BY DEF InpInsn, Insn
<1>5. /\ SlotsOf(c) = 0 => /\ StepInsn(c, t, n).op = "ALU"
                           /\ StepInsn(c, t, n).dram = BlockOf(c, t)
      /\ SlotsOf(c) # 0 => /\ StepInsn(c, t, n).op = "GEMM"
                           /\ StepInsn(c, t, n).sram = n % SlotsOf(c)
  BY DEF StepInsn, Insn
<1>6. StoreInsn(c, t).op = "STORE" /\ StoreInsn(c, t).dram = BlockOf(c, t)
  BY DEF StoreInsn, Store, Insn
<1> QED BY <1>1, <1>2, <1>3, <1>4, <1>5, <1>6

\* Only the last instruction of the compute unit is FINISH.
LEMMA FinishIsTheLast ==
  ASSUME NEW c \in TestCalls, NEW u \in Units, NEW r \in Nat, r < Count(c, u)
  PROVE  InsnOf(c, u, r).op = "FINISH" <=> u = "compute" /\ r + 1 = Count(c, "compute")
<1>1. CASE u = "load"
  <2>1. InsnOf(c, "load", r).op = "LOAD"
    BY <1>1, AtLoad, Fields
  <2> QED BY <1>1, <2>1
<1>2. CASE u = "store"
  <2>1. InsnOf(c, "store", r).op = "STORE"
    BY Fields DEF InsnOf
  <2> QED BY <1>2, <2>1
<1>3. CASE u = "compute"
  <2>1. r + 1 = Count(c, "compute") => ComputeStage(c, r + 1, TRUE) = "done"
    <3>1. r + 1 = Count(c, "compute") => AtEnd(c, r + 1)
      BY ComputeEnd
    <3>2. AtEnd(c, r + 1) => ComputeStage(c, r + 1, TRUE) = "done"
      BY Zenon DEF AtEnd
    <3> QED BY <3>1, <3>2
  <2>n. r < Count(c, "compute")
    BY <1>3
  <2>2. CASE AtUop(c, r)
    <3>1. ComputeStage(c, r + 1, TRUE) = "accRun"
      BY <2>n, <2>2, ComputeNext DEF AtAcc
    <3>2. InsnOf(c, "compute", r).op = "LOAD"
      BY <2>2, Fields DEF AtUop
    <3> QED BY <1>3, <2>1, <3>1, <3>2
  <2>3. CASE AtAcc(c, r)
    <3>1. ComputeStage(c, r + 1, TRUE) = "gemmRun"
      BY <2>n, <2>3, ComputeNext DEF AtGemm
    <3>2. InsnOf(c, "compute", r).op = "LOAD"
      BY <2>3, Fields DEF AtAcc
    <3> QED BY <1>3, <2>1, <3>1, <3>2
  <2>4. CASE AtGemm(c, r)
    <3>1. AtGemm(c, r + 1) \/ AtAcc(c, r + 1) \/ AtFinish(c, r + 1)
      BY <2>n, <2>4, ComputeNext
    <3>2. ComputeStage(c, r + 1, TRUE) \in {"gemmRun", "accRun", "finRun"}
      BY <3>1, Zenon DEF AtGemm, AtAcc, AtFinish
    <3>3. InsnOf(c, "compute", r) = StepInsn(c, ComputeTile(c, r), ComputeStep(c, r))
      BY <2>4 DEF AtGemm
    <3>4. InsnOf(c, "compute", r).op \in {"ALU", "GEMM"}
      BY <3>3, Fields
    <3> QED BY <1>3, <2>1, <3>2, <3>4
  <2>5. CASE AtFinish(c, r)
    <3>1. r + 1 = Count(c, "compute")
      BY <2>n, <2>5, ComputeNext
    <3>2. InsnOf(c, "compute", r).op = "FINISH"
      BY <2>5, Fields DEF AtFinish
    <3> QED BY <1>3, <3>1, <3>2
  <2> QED BY <2>n, <2>2, <2>3, <2>4, <2>5, ComputePlaces
<1> QED BY <1>1, <1>2, <1>3 DEF Units

-----------------------------------------------------------------------------
(* Every step of the accelerator is one of the protocol                     *)

\* What the protocol calls T, N and V, and its flags.
LEMMA ProtocolSizes ==
  /\ P!T = TilesOf(ThisCall) /\ P!N = StepsOf(ThisCall) /\ P!V = SlotsOf(ThisCall)
  /\ \A t, n : /\ P!Pop(t, n) <=> Pop(ThisCall, t, n)
               /\ P!PushPrev(t, n) <=> PushPrev(ThisCall, t, n)
BY DEF P!T, P!N, P!V, P!Pop, P!PushPrev, TilesOf, StepsOf, SlotsOf, Pop, PushPrev

\* The stages of the load and the store unit.
LEMMA Stages ==
  ASSUME NEW r \in Nat
  PROVE  /\ r % 2 = 0 => LoadStage(r, TRUE) = "wgtRun" /\ LoadStage(r, FALSE) = "wgt"
         /\ r % 2 = 1 => LoadStage(r, TRUE) = "inpRun" /\ LoadStage(r, FALSE) = "inp"
         /\ StoreStage(TRUE) = "run" /\ StoreStage(FALSE) = "wait"
BY DEF LoadStage, StoreStage

\* The tokens, one queue at a time.
LEMMA TokensBegin ==
  ASSUME Base, CmdInv, NEW u \in Units, Begin(u), NEW pops,
         pops = Pops(InsnOf(ThisCall, u, retired[u]))
  PROVE  /\ token'[l2g] = IF l2g \in pops THEN token[l2g] - 1 ELSE token[l2g]
         /\ token'[g2l] = IF g2l \in pops THEN token[g2l] - 1 ELSE token[g2l]
         /\ token'[g2s] = IF g2s \in pops THEN token[g2s] - 1 ELSE token[g2s]
         /\ token'[s2g] = IF s2g \in pops THEN token[s2g] - 1 ELSE token[s2g]
         /\ \A q \in pops : token[q] > 0
BY BeginStep, QueueNames

\* The four queues after an End, in terms of the tokens it pushes.
LEMMA TokensEnd ==
  ASSUME Base, CmdInv, NEW u \in Units, End(u), NEW pushes,
         pushes = Pushes(InsnOf(ThisCall, u, retired[u]))
  PROVE  /\ token'[l2g] = IF l2g \in pushes THEN token[l2g] + 1 ELSE token[l2g]
         /\ token'[g2l] = IF g2l \in pushes THEN token[g2l] + 1 ELSE token[g2l]
         /\ token'[g2s] = IF g2s \in pushes THEN token[g2s] + 1 ELSE token[g2s]
         /\ token'[s2g] = IF s2g \in pushes THEN token[s2g] + 1 ELSE token[s2g]
BY EndStep, QueueNames

\* The flags, one instruction at a time.
LEMMA WgtFlags ==
  ASSUME NEW c \in TestCalls, NEW t \in Nat, NEW n \in Nat
  PROVE  /\ Pops(WgtInsn(c, t, n)) = IF Pop(c, t, n) THEN {g2l} ELSE {}
         /\ Pushes(WgtInsn(c, t, n)) = {}
BY FlagsOfInsns

\* The flags of each instruction, one lemma each, as FlagsOfInsns has them all.
LEMMA InpFlags ==
  ASSUME NEW c \in TestCalls, NEW t \in Nat, NEW n \in Nat
  PROVE  Pops(InpInsn(c, t, n)) = {} /\ Pushes(InpInsn(c, t, n)) = {l2g}
BY FlagsOfInsns

\* A bias is loaded when the store has read the previous tile (popNext).
LEMMA AccFlags ==
  ASSUME NEW c \in TestCalls, NEW t \in Nat
  PROVE  /\ Pops(AccInsn(c, t)) = IF t > 0 THEN {s2g} ELSE {}
         /\ Pushes(AccInsn(c, t)) = IF SlotsOf(c) = 1 THEN {g2l} ELSE {}
BY FlagsOfInsns

\* A GEMM pops its operands, releases its slot and, as the last of a tile, wakes the store.
LEMMA StepFlags ==
  ASSUME NEW c \in TestCalls, NEW t \in Nat, NEW n \in Nat
  PROVE  /\ Pops(StepInsn(c, t, n)) = IF SlotsOf(c) = 0 THEN {} ELSE {l2g}
         /\ Pushes(StepInsn(c, t, n)) =
              (IF SlotsOf(c) # 0 /\ PushPrev(c, t, n) THEN {g2l} ELSE {})
                \cup (IF SlotsOf(c) = 0 \/ n = StepsOf(c) - 1 THEN {g2s} ELSE {})
BY FlagsOfInsns

\* A STORE waits for the tile and gives the output buffer back.
LEMMA StoreFlags ==
  ASSUME NEW c \in TestCalls, NEW t \in Nat
  PROVE  Pops(StoreInsn(c, t)) = {g2s} /\ Pushes(StoreInsn(c, t)) = {s2g}
BY FlagsOfInsns

\* What the load unit begins is what the load unit of the protocol begins.
LEMMA LoadBegins ==
  ASSUME Base, CmdInv, Begin("load")
  PROVE  P!LoadWgtBegin \/ P!LoadInpBegin
<1> DEFINE c == ThisCall
           r == Loads
<1>u. "load" \in Units /\ "compute" \in Units /\ "store" \in Units
  BY DEF Units
<1>1. /\ c \in TestCalls /\ r \in Nat /\ r < Count(c, "load") /\ r = retired["load"]
      /\ busy["load"] = FALSE /\ busy'["load"] = TRUE
      /\ busy'["compute"] = busy["compute"] /\ busy'["store"] = busy["store"]
      /\ c' = c /\ Loads' = Loads /\ Computes' = Computes /\ retired'["store"] = retired["store"]
  BY <1>u, BeginStep DEF Loads, Computes, Base
<1>2. /\ SlotsOf(c) # 0 /\ SlotsOf(c) \in {0, 1, 2}
      /\ LoadTile(c, r) \in 0 .. TilesOf(c) - 1 /\ LoadStep(c, r) \in 0 .. StepsOf(c) - 1
  BY <1>1, AtLoad, Sizes
<1>3. CASE /\ r % 2 = 0
           /\ InsnOf(c, "load", r) = WgtInsn(c, LoadTile(c, r), LoadStep(c, r))
  <2>1. Pops(InsnOf(c, "load", r)) = IF Pop(c, LoadTile(c, r), LoadStep(c, r)) THEN {g2l} ELSE {}
    <3>1. LoadTile(c, r) \in Nat /\ LoadStep(c, r) \in Nat
      BY <1>1, <1>2, LoadCoordinates, Sizes
    <3>2. Pops(WgtInsn(c, LoadTile(c, r), LoadStep(c, r))) =
            IF Pop(c, LoadTile(c, r), LoadStep(c, r)) THEN {g2l} ELSE {}
      <4> HIDE DEF c, r
      <4> QED BY <1>1, <3>1, WgtFlags, Zenon
    <3> QED BY <1>3, <3>2, Zenon
  <2>2. /\ token'[l2g] = token[l2g] /\ token'[g2s] = token[g2s] /\ token'[s2g] = token[s2g]
        /\ IF Pop(c, LoadTile(c, r), LoadStep(c, r)) THEN token[g2l] > 0 /\ token'[g2l] = token[g2l] - 1
           ELSE token'[g2l] = token[g2l]
    BY <1>u, <1>1, <2>1, TokensBegin, QueueNames
  <2>3. LoadStage(Loads, busy["load"]) = "wgt" /\ LoadStage(Loads', busy'["load"]) = "wgtRun"
    BY <1>1, <1>3, Stages
  <2>4. /\ P!V > 0 /\ LoadTile(c, r) < P!T
        /\ P!Pop(LoadTile(c, r), LoadStep(c, r)) <=> Pop(c, LoadTile(c, r), LoadStep(c, r))
    BY <1>1, <1>2, ProtocolSizes, Sizes
  <2> QED
    BY <1>1, <2>2, <2>3, <2>4 DEF P!LoadWgtBegin, P!cvars, P!svars, l2g, g2l, g2s, s2g
<1>4. CASE /\ r % 2 = 1
           /\ InsnOf(c, "load", r) = InpInsn(c, LoadTile(c, r), LoadStep(c, r))
  <2>1. Pops(InsnOf(c, "load", r)) = {}
    BY <1>1, <1>2, <1>4, FlagsOfInsns
  <2>2. /\ token'[l2g] = token[l2g] /\ token'[g2s] = token[g2s] /\ token'[s2g] = token[s2g]
        /\ token'[g2l] = token[g2l]
    BY <1>u, <1>1, <2>1, TokensBegin
  <2>3. LoadStage(Loads, busy["load"]) = "inp" /\ LoadStage(Loads', busy'["load"]) = "inpRun"
    BY <1>1, <1>4, Stages
  <2> QED
    BY <1>1, <2>2, <2>3 DEF P!LoadInpBegin, P!cvars, P!svars, l2g, g2l, g2s, s2g
<1> QED BY <1>1, <1>3, <1>4, AtLoad

\* And what it ends.
LEMMA LoadEnds ==
  ASSUME Base, CmdInv, End("load")
  PROVE  P!LoadWgtEnd \/ P!LoadInpEnd
<1> DEFINE c == ThisCall
           r == Loads
<1>u. "load" \in Units /\ "compute" \in Units /\ "store" \in Units
  BY DEF Units
<1>1. /\ c \in TestCalls /\ r \in Nat /\ r < Count(c, "load") /\ r = retired["load"]
      /\ busy["load"] = TRUE /\ busy'["load"] = FALSE
      /\ busy'["compute"] = busy["compute"] /\ busy'["store"] = busy["store"]
      /\ c' = c /\ Loads' = r + 1 /\ Computes' = Computes
      /\ retired'["store"] = retired["store"]
  <2>1. /\ busy["load"] /\ busy \in [Units -> BOOLEAN] /\ ~busy'["load"] /\ busy'["load"] \in BOOLEAN
    BY <1>u, EndStep DEF Base, End
  <2> QED BY <1>u, <2>1, EndStep DEF Loads, Computes
<1>2. /\ LoadTile(c, r) \in Nat /\ LoadStep(c, r) \in Nat
      /\ LoadTile(c, r) \in 0 .. TilesOf(c) - 1 /\ LoadStep(c, r) \in 0 .. StepsOf(c) - 1
  BY <1>1, AtLoad, Sizes
<1>3. CASE /\ r % 2 = 0
           /\ InsnOf(c, "load", r) = WgtInsn(c, LoadTile(c, r), LoadStep(c, r))
  <2>1. Pushes(InsnOf(c, "load", r)) = {}
    <3>1. Pushes(WgtInsn(c, LoadTile(c, r), LoadStep(c, r))) = {}
      <4> HIDE DEF c, r
      <4> QED BY <1>1, <1>2, WgtFlags, Zenon
    <3> QED BY <1>3, <3>1, Zenon
  <2>2. /\ token'[l2g] = token[l2g] /\ token'[g2s] = token[g2s] /\ token'[s2g] = token[s2g]
        /\ token'[g2l] = token[g2l]
    BY <1>u, <1>1, <2>1, TokensEnd
  <2>3. LoadStage(Loads, busy["load"]) = "wgtRun" /\ LoadStage(Loads', busy'["load"]) = "inp"
    <3>1. r + 1 \in Nat /\ (r + 1) % 2 = 1
      BY <1>1, <1>3, LoadNext
    <3>2. LoadStage(r, TRUE) = "wgtRun" /\ LoadStage(r + 1, FALSE) = "inp"
      BY <1>1, <1>3, <3>1, Stages
    <3> QED BY <1>1, <3>2
  <2>4. LoadTile(c, r + 1) = LoadTile(c, r) /\ LoadStep(c, r + 1) = LoadStep(c, r)
    BY <1>1, <1>3, LoadNext
  <2> QED
    BY <1>1, <2>2, <2>3, <2>4 DEF P!LoadWgtEnd, P!cvars, P!svars, l2g, g2l, g2s, s2g
<1>4. CASE /\ r % 2 = 1
           /\ InsnOf(c, "load", r) = InpInsn(c, LoadTile(c, r), LoadStep(c, r))
  <2>1. Pushes(InsnOf(c, "load", r)) = {l2g}
    <3>1. Pushes(InpInsn(c, LoadTile(c, r), LoadStep(c, r))) = {l2g}
      <4> HIDE DEF c, r
      <4> QED BY <1>1, <1>2, InpFlags, Zenon
    <3> QED BY <1>4, <3>1, Zenon
  <2>2. /\ token'[l2g] = token[l2g] + 1
        /\ token'[g2s] = token[g2s] /\ token'[s2g] = token[s2g] /\ token'[g2l] = token[g2l]
    BY <1>u, <1>1, <2>1, TokensEnd, QueueNames
  <2>3. LoadStage(Loads, busy["load"]) = "inpRun" /\ LoadStage(Loads', busy'["load"]) = "wgt"
    <3>1. r + 1 \in Nat /\ (r + 1) % 2 = 0
      BY <1>1, <1>4, LoadNext
    <3>2. LoadStage(r, TRUE) = "inpRun" /\ LoadStage(r + 1, FALSE) = "wgt"
      BY <1>1, <1>4, <3>1, Stages
    <3> QED BY <1>1, <3>2
  <2>4. /\ LoadTile(c, r + 1) =
             IF LoadStep(c, r) = P!N - 1 THEN LoadTile(c, r) + 1 ELSE LoadTile(c, r)
        /\ LoadStep(c, r + 1) = IF LoadStep(c, r) = P!N - 1 THEN 0 ELSE LoadStep(c, r) + 1
    BY <1>1, <1>4, LoadNext, ProtocolSizes
  <2> QED
    BY <1>1, <2>2, <2>3, <2>4 DEF P!LoadInpEnd, P!cvars, P!svars, l2g, g2l, g2s, s2g
<1> QED BY <1>1, <1>3, <1>4, AtLoad

\* What the compute unit begins is LOAD UOP, LOAD ACC, GEMM or FINISH of the protocol.
LEMMA ComputeBegins ==
  ASSUME Base, CmdInv, Begin("compute")
  PROVE  P!LoadUopBegin \/ P!LoadAccBegin \/ P!GemmBegin \/ P!FinishBegin
<1> DEFINE c == ThisCall
           r == Computes
           t == ComputeTile(c, r)
           n == ComputeStep(c, r)
<1>u. "load" \in Units /\ "compute" \in Units /\ "store" \in Units
  BY DEF Units
<1>1. /\ c \in TestCalls /\ r \in Nat /\ r < Count(c, "compute") /\ r = retired["compute"]
      /\ busy["compute"] = FALSE /\ busy'["compute"] = TRUE
      /\ busy'["load"] = busy["load"] /\ busy'["store"] = busy["store"]
      /\ c' = c /\ Loads' = Loads /\ Computes' = r /\ retired'["store"] = retired["store"]
  BY <1>u, BeginStep DEF Loads, Computes, Base
<1>2. TilesOf(c) \in Nat \ {0} /\ StepsOf(c) \in Nat \ {0} /\ SlotsOf(c) \in {0, 1, 2}
  BY <1>1, Sizes
<1>3. CASE AtUop(c, r)
  <2>1. Pops(InsnOf(c, "compute", r)) = {}
    <3>1. Pops(LoadUop) = {}
      BY <1>1, FlagsOfInsns
    <3> QED BY <1>3, <3>1, Zenon DEF AtUop
  <2>2. /\ token'[l2g] = token[l2g] /\ token'[g2s] = token[g2s] /\ token'[s2g] = token[s2g]
        /\ token'[g2l] = token[g2l]
    BY <1>u, <1>1, <2>1, TokensBegin
  <2>3. ComputeStage(c, r, busy["compute"]) = "uop" /\ ComputeStage(c, r, busy'["compute"]) = "uopRun"
    BY <1>1, <1>3, Zenon DEF AtUop
  <2> QED
    BY <1>1, <2>2, <2>3 DEF P!LoadUopBegin, P!lvars, P!svars, l2g, g2l, g2s, s2g
<1>4. CASE AtAcc(c, r)
  <2>0. t \in Nat /\ n \in Nat /\ t < TilesOf(c)
    BY <1>2, <1>4 DEF AtAcc
  <2>1. Pops(InsnOf(c, "compute", r)) = IF t > 0 THEN {s2g} ELSE {}
    <3>1. Pops(AccInsn(c, t)) = IF t > 0 THEN {s2g} ELSE {}
      <4> HIDE DEF c, r, t, n
      <4> QED BY <1>1, <2>0, AccFlags, Zenon
    <3> QED BY <1>4, <3>1, Zenon DEF AtAcc
  <2>2. /\ token'[l2g] = token[l2g] /\ token'[g2s] = token[g2s] /\ token'[g2l] = token[g2l]
        /\ IF t > 0 THEN token[s2g] > 0 /\ token'[s2g] = token[s2g] - 1
           ELSE token'[s2g] = token[s2g]
    <3> HIDE DEF t
    <3> QED BY <1>u, <1>1, <2>1, TokensBegin, QueueNames
  <2>3. ComputeStage(c, r, busy["compute"]) = "acc" /\ ComputeStage(c, r, busy'["compute"]) = "accRun"
    BY <1>1, <1>4, Zenon DEF AtAcc
  <2>4. t < P!T
    BY <2>0, ProtocolSizes
  <2> QED
    BY <1>1, <2>0, <2>2, <2>3, <2>4 DEF P!LoadAccBegin, P!lvars, P!svars, l2g, g2l, g2s, s2g
<1>5. CASE AtGemm(c, r)
  <2>0. t \in Nat /\ n \in Nat
    BY <1>2, <1>5 DEF AtGemm
  <2>1. Pops(InsnOf(c, "compute", r)) = IF SlotsOf(c) = 0 THEN {} ELSE {l2g}
    <3>1. Pops(StepInsn(c, t, n)) = IF SlotsOf(c) = 0 THEN {} ELSE {l2g}
      <4> HIDE DEF c, r, t, n
      <4> QED BY <1>1, <2>0, StepFlags, Zenon
    <3> QED BY <1>5, <3>1, Zenon DEF AtGemm
  <2>2. /\ token'[g2l] = token[g2l] /\ token'[g2s] = token[g2s] /\ token'[s2g] = token[s2g]
        /\ IF SlotsOf(c) = 0 THEN token'[l2g] = token[l2g]
           ELSE token[l2g] > 0 /\ token'[l2g] = token[l2g] - 1
    BY <1>u, <1>1, <2>1, TokensBegin, QueueNames
  <2>3. ComputeStage(c, r, busy["compute"]) = "gemm" /\ ComputeStage(c, r, busy'["compute"]) = "gemmRun"
    BY <1>1, <1>5, Zenon DEF AtGemm
  <2>4. P!V = SlotsOf(c) /\ (P!V = 0 \/ P!V > 0)
    BY <1>2, ProtocolSizes
  <2> QED
    BY <1>1, <2>2, <2>3, <2>4 DEF P!GemmBegin, P!lvars, P!svars, l2g, g2l, g2s, s2g
<1>6. CASE AtFinish(c, r)
  <2>1. Pops(InsnOf(c, "compute", r)) = {s2g}
    <3>1. Pops(Finish) = {s2g}
      BY <1>1, FlagsOfInsns
    <3> QED BY <1>6, <3>1, Zenon DEF AtFinish
  <2>2. /\ token'[l2g] = token[l2g] /\ token'[g2s] = token[g2s] /\ token'[g2l] = token[g2l]
        /\ token[s2g] > 0 /\ token'[s2g] = token[s2g] - 1
    BY <1>u, <1>1, <2>1, TokensBegin, QueueNames
  <2>3. ComputeStage(c, r, busy["compute"]) = "acc" /\ ComputeStage(c, r, busy'["compute"]) = "finRun"
    BY <1>1, <1>6, Zenon DEF AtFinish
  <2>4. t = P!T
    BY <1>6, ProtocolSizes DEF AtFinish
  <2> QED
    BY <1>1, <2>2, <2>3, <2>4 DEF P!FinishBegin, P!lvars, P!svars, l2g, g2l, g2s, s2g
<1> QED BY <1>1, <1>3, <1>4, <1>5, <1>6, ComputePlaces

\* And what it ends.
LEMMA ComputeEnds ==
  ASSUME Base, CmdInv, End("compute")
  PROVE  P!LoadUopEnd \/ P!LoadAccEnd \/ P!GemmEnd \/ P!FinishEnd
<1> DEFINE c == ThisCall
           r == Computes
           t == ComputeTile(c, r)
           n == ComputeStep(c, r)
<1>u. "load" \in Units /\ "compute" \in Units /\ "store" \in Units
  BY DEF Units
<1>1. /\ c \in TestCalls /\ r \in Nat /\ r < Count(c, "compute") /\ r = retired["compute"]
      /\ busy["compute"] = TRUE /\ busy'["compute"] = FALSE
      /\ busy'["load"] = busy["load"] /\ busy'["store"] = busy["store"]
      /\ c' = c /\ Loads' = Loads /\ Computes' = r + 1
      /\ retired'["store"] = retired["store"]
  <2>1. /\ busy["compute"] /\ busy \in [Units -> BOOLEAN]
        /\ ~busy'["compute"] /\ busy'["compute"] \in BOOLEAN
    BY <1>u, EndStep DEF Base, End
  <2> QED BY <1>u, <2>1, EndStep DEF Loads, Computes
<1>2. TilesOf(c) \in Nat \ {0} /\ StepsOf(c) \in Nat \ {0} /\ SlotsOf(c) \in {0, 1, 2}
  BY <1>1, Sizes
<1>3. CASE AtUop(c, r)
  <2>1. Pushes(InsnOf(c, "compute", r)) = {}
    <3>1. Pushes(LoadUop) = {}
      BY <1>1, FlagsOfInsns
    <3> QED BY <1>3, <3>1, Zenon DEF AtUop
  <2>2. /\ token'[l2g] = token[l2g] /\ token'[g2s] = token[g2s] /\ token'[s2g] = token[s2g]
        /\ token'[g2l] = token[g2l]
    BY <1>u, <1>1, <2>1, TokensEnd
  <2>n. AtAcc(c, r + 1) /\ ComputeTile(c, r + 1) = 0
    BY <1>1, <1>3, ComputeNext
  <2>3. /\ ComputeStage(c, r, busy["compute"]) = "uopRun"
        /\ ComputeStage(c, r + 1, busy'["compute"]) = "acc"
    BY <1>1, <1>3, <2>n, Zenon DEF AtUop, AtAcc
  <2>4. t = 0 /\ n = 0 /\ ComputeStep(c, r + 1) = 0
    BY <1>3, <2>n DEF AtUop, AtAcc
  <2> QED
    BY <1>1, <2>2, <2>n, <2>3, <2>4 DEF P!LoadUopEnd, P!lvars, P!svars, l2g, g2l, g2s, s2g
<1>4. CASE AtAcc(c, r)
  <2>0. t \in Nat /\ n \in Nat /\ n = 0
    BY <1>2, <1>4 DEF AtAcc
  <2>1. Pushes(InsnOf(c, "compute", r)) = IF SlotsOf(c) = 1 THEN {g2l} ELSE {}
    <3>1. Pushes(AccInsn(c, t)) = IF SlotsOf(c) = 1 THEN {g2l} ELSE {}
      <4> HIDE DEF c, r, t, n
      <4> QED BY <1>1, <2>0, AccFlags, Zenon
    <3> QED BY <1>4, <3>1, Zenon DEF AtAcc
  <2>2. /\ token'[l2g] = token[l2g] /\ token'[g2s] = token[g2s] /\ token'[s2g] = token[s2g]
        /\ token'[g2l] = IF P!V = 1 THEN token[g2l] + 1 ELSE token[g2l]
    BY <1>u, <1>1, <2>1, TokensEnd, QueueNames, ProtocolSizes
  <2>n. AtGemm(c, r + 1) /\ ComputeTile(c, r + 1) = t /\ ComputeStep(c, r + 1) = 0
    BY <1>1, <1>4, ComputeNext
  <2>3. /\ ComputeStage(c, r, busy["compute"]) = "accRun"
        /\ ComputeStage(c, r + 1, busy'["compute"]) = "gemm"
    BY <1>1, <1>4, <2>n, Zenon DEF AtGemm, AtAcc
  <2> QED
    BY <1>1, <2>0, <2>2, <2>n, <2>3 DEF P!LoadAccEnd, P!lvars, P!svars, l2g, g2l, g2s, s2g
<1>5. CASE AtGemm(c, r)
  <2>0. t \in 0 .. TilesOf(c) - 1 /\ n \in 0 .. StepsOf(c) - 1 /\ t \in Nat /\ n \in Nat
    BY <1>2, <1>5 DEF AtGemm
  <2>1. Pushes(InsnOf(c, "compute", r)) =
          (IF SlotsOf(c) # 0 /\ PushPrev(c, t, n) THEN {g2l} ELSE {})
            \cup (IF SlotsOf(c) = 0 \/ n = StepsOf(c) - 1 THEN {g2s} ELSE {})
    <3>1. Pushes(StepInsn(c, t, n)) =
          (IF SlotsOf(c) # 0 /\ PushPrev(c, t, n) THEN {g2l} ELSE {})
            \cup (IF SlotsOf(c) = 0 \/ n = StepsOf(c) - 1 THEN {g2s} ELSE {})
      <4> HIDE DEF c, r, t, n
      <4> QED BY <1>1, <2>0, StepFlags, Zenon
    <3> QED BY <1>5, <3>1, Zenon DEF AtGemm
  <2>2. /\ token'[l2g] = token[l2g] /\ token'[s2g] = token[s2g]
        /\ token'[g2l] = IF P!PushPrev(t, n) THEN token[g2l] + 1 ELSE token[g2l]
        /\ token'[g2s] = IF n = P!N - 1 THEN token[g2s] + 1 ELSE token[g2s]
    <3>1. SlotsOf(c) # 0 /\ PushPrev(c, t, n) <=> P!PushPrev(t, n)
      BY <1>2, ProtocolSizes DEF PushPrev
    <3>2. (SlotsOf(c) = 0 \/ n = StepsOf(c) - 1) <=> n = P!N - 1
      BY <1>1, <2>0, ProtocolSizes, Sizes
    <3>3. Pushes(InsnOf(c, "compute", r)) =
            (IF P!PushPrev(t, n) THEN {g2l} ELSE {}) \cup (IF n = P!N - 1 THEN {g2s} ELSE {})
      BY <2>1, <3>1, <3>2
    <3> QED BY <1>u, <1>1, <3>3, TokensEnd, QueueNames
  <2>3. ComputeStage(c, r, busy["compute"]) = "gemmRun"
    BY <1>1, <1>5, Zenon DEF AtGemm
  <2>4. CASE n = P!N - 1
    <3>1. (AtAcc(c, r + 1) \/ AtFinish(c, r + 1)) /\ ComputeTile(c, r + 1) = t + 1
      BY <1>1, <1>5, <2>4, ComputeNext, ProtocolSizes
    <3>2. ComputeStage(c, r + 1, busy'["compute"]) = "acc" /\ ComputeStep(c, r + 1) = 0
      BY <1>1, <3>1, Zenon DEF AtAcc, AtFinish
    <3> QED
      BY <1>1, <2>2, <2>3, <2>4, <3>1, <3>2
         DEF P!GemmEnd, P!lvars, P!svars, l2g, g2l, g2s, s2g
  <2>5. CASE n # P!N - 1
    <3>1. /\ AtGemm(c, r + 1) /\ ComputeTile(c, r + 1) = t
          /\ ComputeStep(c, r + 1) = n + 1
      BY <1>1, <1>5, <2>5, ComputeNext, ProtocolSizes
    <3>2. ComputeStage(c, r + 1, busy'["compute"]) = "gemm"
      BY <1>1, <3>1, Zenon DEF AtGemm
    <3> QED
      BY <1>1, <2>2, <2>3, <2>5, <3>1, <3>2
         DEF P!GemmEnd, P!lvars, P!svars, l2g, g2l, g2s, s2g
  <2> QED BY <2>4, <2>5
<1>6. CASE AtFinish(c, r)
  <2>1. Pushes(InsnOf(c, "compute", r)) = {}
    <3>1. Pushes(Finish) = {}
      BY <1>1, FlagsOfInsns
    <3> QED BY <1>6, <3>1, Zenon DEF AtFinish
  <2>2. /\ token'[l2g] = token[l2g] /\ token'[g2s] = token[g2s] /\ token'[s2g] = token[s2g]
        /\ token'[g2l] = token[g2l]
    BY <1>u, <1>1, <2>1, TokensEnd
  <2>n. AtEnd(c, r + 1)
    BY <1>1, <1>6, ComputeNext
  <2>3. /\ ComputeStage(c, r, busy["compute"]) = "finRun"
        /\ ComputeStage(c, r + 1, busy'["compute"]) = "done"
    BY <1>1, <1>6, <2>n, Zenon DEF AtFinish, AtEnd
  <2>4. ComputeTile(c, r + 1) = t /\ ComputeStep(c, r + 1) = n
    BY <1>6, <2>n DEF AtFinish, AtEnd
  <2> QED
    BY <1>1, <2>2, <2>3, <2>4 DEF P!FinishEnd, P!lvars, P!svars, l2g, g2l, g2s, s2g
<1> QED BY <1>1, <1>3, <1>4, <1>5, <1>6, ComputePlaces

\* What the store unit begins is the STORE of the protocol.
LEMMA StoreBegins ==
  ASSUME Base, CmdInv, Begin("store")
  PROVE  P!StoreBegin
<1> DEFINE c == ThisCall
           r == retired["store"]
<1>u. "load" \in Units /\ "compute" \in Units /\ "store" \in Units
  BY DEF Units
<1>1. /\ c \in TestCalls /\ r \in Nat /\ r < Count(c, "store")
      /\ busy["store"] = FALSE /\ busy'["store"] = TRUE
      /\ busy'["load"] = busy["load"] /\ busy'["compute"] = busy["compute"]
      /\ c' = c /\ Loads' = Loads /\ Computes' = Computes /\ retired'["store"] = r
  BY <1>u, BeginStep DEF Loads, Computes, Base
<1>2. Pops(InsnOf(c, "store", r)) = {g2s}
  <2>1. InsnOf(c, "store", r) = StoreInsn(c, r)
    BY DEF InsnOf
  <2> QED BY <1>1, <2>1, StoreFlags
<1>3. /\ token'[l2g] = token[l2g] /\ token'[g2l] = token[g2l] /\ token'[s2g] = token[s2g]
      /\ token[g2s] > 0 /\ token'[g2s] = token[g2s] - 1
  BY <1>u, <1>1, <1>2, TokensBegin, QueueNames
<1>4. /\ StoreStage(busy["store"]) = "wait" /\ StoreStage(busy'["store"]) = "run"
      /\ r < P!T
  BY <1>1, ProtocolSizes, Counts DEF StoreStage
<1> QED BY <1>1, <1>3, <1>4 DEF P!StoreBegin, P!lvars, P!cvars, l2g, g2l, g2s, s2g

\* And what it ends.
LEMMA StoreEnds ==
  ASSUME Base, CmdInv, End("store")
  PROVE  P!StoreEnd
<1> DEFINE c == ThisCall
           r == retired["store"]
<1>u. "load" \in Units /\ "compute" \in Units /\ "store" \in Units
  BY DEF Units
<1>1. /\ c \in TestCalls /\ r \in Nat /\ r < Count(c, "store")
      /\ busy["store"] = TRUE /\ busy'["store"] = FALSE
      /\ busy'["load"] = busy["load"] /\ busy'["compute"] = busy["compute"]
      /\ c' = c /\ Loads' = Loads /\ Computes' = Computes /\ retired'["store"] = r + 1
  <2>1. /\ busy["store"] /\ busy \in [Units -> BOOLEAN]
        /\ ~busy'["store"] /\ busy'["store"] \in BOOLEAN
    BY <1>u, EndStep DEF Base, End
  <2> QED BY <1>u, <2>1, EndStep DEF Loads, Computes
<1>2. Pushes(InsnOf(c, "store", r)) = {s2g}
  <2>1. InsnOf(c, "store", r) = StoreInsn(c, r)
    BY DEF InsnOf
  <2> QED BY <1>1, <2>1, StoreFlags
<1>3. /\ token'[l2g] = token[l2g] /\ token'[g2l] = token[g2l] /\ token'[g2s] = token[g2s]
      /\ token'[s2g] = token[s2g] + 1
  BY <1>u, <1>1, <1>2, TokensEnd, QueueNames
<1>4. StoreStage(busy["store"]) = "run" /\ StoreStage(busy'["store"]) = "wait"
  BY <1>1 DEF StoreStage
<1> QED BY <1>1, <1>3, <1>4 DEF P!StoreEnd, P!lvars, P!cvars, l2g, g2l, g2s, s2g

\* The calls are as the protocol assumes.
LEMMA ProtocolCalls == P!CallsAssumption
<1> SUFFICES ASSUME NEW n \in DOMAIN Calls, NEW c, c = Calls[n]
             PROVE  /\ TilesOf(c) \in Nat \ {0} /\ StepsOf(c) \in Nat \ {0}
                    /\ SlotsOf(c) \in {0, 1, 2}
                    /\ SlotsOf(c) = 0 => StepsOf(c) = 1
                    /\ SlotsOf(c) = 2 => \E pairs \in 1 .. StepsOf(c) : StepsOf(c) = 2 * pairs
  BY DEF P!CallsAssumption, TilesOf, StepsOf, SlotsOf
<1> QED BY CallOf, Sizes

\* The first test finds the protocol in its initial state.
LEMMA InitProtocol ==
  ASSUME HostInit
  PROVE  P!Init
<1>1. test \in DOMAIN Calls
  BY DEF HostInit, Init, Tests
<1>2. ThisCall \in TestCalls
  BY <1>1, CallOf DEF ThisCall
<1>3. /\ Loads = 0 /\ Computes = 0 /\ retired["store"] = 0
      /\ busy["load"] = FALSE /\ busy["compute"] = FALSE /\ busy["store"] = FALSE
  BY DEF HostInit, Init, Loads, Computes, Units
<1>4. /\ token[l2g] = 0 /\ token[g2l] = 0 /\ token[g2s] = 0 /\ token[s2g] = 0
  BY QueueNames DEF HostInit, Init
<1>5. /\ LoadTile(ThisCall, 0) = 0 /\ LoadStep(ThisCall, 0) = 0 /\ LoadStage(0, FALSE) = "wgt"
  <2>1. /\ StepsOf(ThisCall) \in Nat \ {0} /\ 0 = 2 * (StepsOf(ThisCall) * 0 + 0) + 0
        /\ 0 \in 0 .. StepsOf(ThisCall) - 1 /\ 0 \in 0 .. 1
    BY <1>2, Sizes
  <2> QED BY <1>2, <2>1, LoadNumber DEF LoadStage
<1>6. /\ ComputeTile(ThisCall, 0) = 0 /\ ComputeStep(ThisCall, 0) = 0
      /\ ComputeStage(ThisCall, 0, FALSE) = "uop" /\ StoreStage(FALSE) = "wait"
  BY DEF ComputeTile, ComputeStep, ComputePart, ComputeStage, StoreStage
<1>7. ShapeOf(ThisCall) \in {ShapeOf(Calls[n]) : n \in DOMAIN Calls}
  BY <1>1 DEF ThisCall
<1> QED BY <1>3, <1>4, <1>5, <1>6, <1>7 DEF P!Init, l2g, g2l, g2s, s2g

\* Steps that leave the accelerator's position alone.
LEMMA StutterProtocol ==
  ASSUME UNCHANGED <<test, busy, retired, token>>
  PROVE  UNCHANGED P!vars
<1>1. ThisCall' = ThisCall /\ Loads' = Loads /\ Computes' = Computes
  BY DEF ThisCall, Loads, Computes
<1> QED BY <1>1 DEF P!vars

\* When FINISH has been executed, every unit has executed its part of the stream
\* and waits with an empty command queue.
LEMMA Quiescent ==
  ASSUME Base, CmdInv, P!IInv, done
  PROVE  /\ \A u \in Units : ~busy[u] /\ cmds[u] = <<>> /\ retired[u] = Count(ThisCall, u)
         /\ \A q \in Queues : token[q] = 0
<1> DEFINE c == ThisCall
<1>1. /\ c \in TestCalls /\ retired \in [Units -> Nat] /\ Computes = Count(c, "compute")
      /\ "load" \in Units /\ "compute" \in Units /\ "store" \in Units
      /\ Loads \in Nat /\ Computes \in Nat
  BY ThisCallOK DEF Base, Computes, Loads, Units
<1>2. AtEnd(c, Computes)
  BY <1>1, ComputeEnd
<1>3. ComputeStage(c, Computes, busy["compute"]) = "done"
  BY <1>2 DEF AtEnd
<1>4. /\ retired["store"] = P!T
      /\ LoadTile(c, Loads) = (IF P!V = 0 THEN 0 ELSE P!T)
      /\ LoadStage(Loads, busy["load"]) = "wgt"
      /\ token[<<"load", "compute">>] = 0 /\ token[<<"compute", "load">>] = 0
      /\ token[<<"compute", "store">>] = 0 /\ token[<<"store", "compute">>] = 0
      /\ LoadStep(c, Loads) = 0
  <2>1. P!FinishIsLast
    BY P!FinishIInv, ProtocolCalls
  <2>2. LoadStep(c, Loads) = 0
    BY <1>3, P!DoneIInv, ProtocolCalls
  <2> QED BY <1>3, <2>1, <2>2 DEF P!FinishIsLast
<1>5. Loads = Count(c, "load")
  <2>1. Loads % 2 = 0
    BY <1>4 DEF LoadStage
  <2>2. Loads = 2 * (StepsOf(c) * LoadTile(c, Loads) + LoadStep(c, Loads)) + (Loads % 2)
    BY <1>1, LoadCoordinates
  <2>3. Loads = 2 * (StepsOf(c) * LoadTile(c, Loads))
    <3>1. StepsOf(c) * LoadTile(c, Loads) \in Nat
      <4>1. StepsOf(c) \in Nat /\ LoadTile(c, Loads) \in Nat
        BY <1>1, Sizes, LoadCoordinates
      <4> QED BY <4>1
    <3> QED BY <1>4, <2>1, <2>2, <3>1
  <2>4. CASE SlotsOf(c) = 0
    <3>1. LoadTile(c, Loads) = 0
      BY <1>4, <2>4, ProtocolSizes
    <3>2. StepsOf(c) \in Nat
      BY <1>1, Sizes
    <3> QED BY <2>3, <2>4, <3>1, <3>2 DEF Count
  <2>5. CASE SlotsOf(c) # 0
    <3>1. LoadTile(c, Loads) = TilesOf(c)
      BY <1>4, <2>5, ProtocolSizes
    <3> QED BY <2>3, <2>5, <3>1 DEF Count
  <2> QED BY <2>4, <2>5
<1>6. \A u \in Units : retired[u] = Count(c, u)
  BY <1>1, <1>4, <1>5, ProtocolSizes, Counts DEF Loads, Computes, Units
<1>7. \A u \in Units : cmds[u] = <<>>
  BY <1>1, <1>6, AllRetired DEF CmdInv
<1>8. \A u \in Units : ~busy[u]
  BY <1>7 DEF CmdInv
<1>9. \A q \in Queues : token[q] = 0
  BY <1>4 DEF Queues
<1> QED BY <1>6, <1>7, <1>8, <1>9

\* The next test finds the protocol where the first one did.
LEMMA NextTestCalls ==
  ASSUME Base, CmdInv, P!IInv, NextTest
  PROVE  P!NextCall /\ test' \in DOMAIN Calls
<1>1. /\ done /\ busy' = busy /\ token' = token /\ retired' = [u \in Units |-> 0]
      /\ test' = test + 1 /\ test < Len(Tests)
  BY DEF NextTest
<1>2. test' \in DOMAIN Calls
  BY <1>1, CallsAssumption DEF Base, Tests
<1>3. ThisCall' \in TestCalls /\ ShapeOf(ThisCall') \in {ShapeOf(Calls[n]) : n \in DOMAIN Calls}
  <2>1. ThisCall' = Calls[test']
    BY DEF ThisCall
  <2> QED BY <1>2, <2>1, CallOf
<1>4. /\ Loads' = 0 /\ Computes' = 0 /\ retired'["store"] = 0
      /\ busy'["load"] = FALSE /\ busy'["compute"] = FALSE /\ busy'["store"] = FALSE
  BY <1>1, Quiescent DEF Loads, Computes, Units, Base
<1>5. /\ LoadTile(ThisCall', 0) = 0 /\ LoadStep(ThisCall', 0) = 0 /\ LoadStage(0, FALSE) = "wgt"
  <2>1. /\ StepsOf(ThisCall') \in Nat \ {0} /\ 0 = 2 * (StepsOf(ThisCall') * 0 + 0) + 0
        /\ 0 \in 0 .. StepsOf(ThisCall') - 1 /\ 0 \in 0 .. 1
    BY <1>3, Sizes
  <2> QED BY <1>3, <2>1, LoadNumber DEF LoadStage
<1>6. /\ ComputeTile(ThisCall', 0) = 0 /\ ComputeStep(ThisCall', 0) = 0
      /\ ComputeStage(ThisCall', 0, FALSE) = "uop" /\ StoreStage(FALSE) = "wait"
  BY DEF ComputeTile, ComputeStep, ComputePart, ComputeStage, StoreStage
<1>7. ComputeStage(ThisCall, Computes, busy["compute"]) = "done"
  <2>1. ThisCall \in TestCalls /\ Computes \in Nat /\ Computes = Count(ThisCall, "compute")
    BY <1>1, ThisCallOK DEF Base, Computes, Units
  <2>2. AtEnd(ThisCall, Computes)
    BY <2>1, ComputeEnd
  <2> QED BY <2>2 DEF AtEnd
<1>8. P!NextCall
  BY <1>1, <1>3, <1>4, <1>5, <1>6, <1>7 DEF P!NextCall
<1> QED BY <1>2, <1>8

-----------------------------------------------------------------------------
(* The queues, step by step                                                 *)

\* The stream of the test that runs.
LEMMA InsnsOfThisCall ==
  ASSUME Base
  PROVE  /\ ThisCall \in TestCalls /\ Length(ThisCall) \in Nat /\ fetched \in Nat
         /\ Len(Insns) = Length(ThisCall)
         /\ \A p \in 1 .. Length(ThisCall) : Insns[p] = InsnAt(ThisCall, p)
<1>1. ThisCall \in TestCalls /\ Insns = TestOf(ThisCall).insns
  BY ThisCallOK DEF Insns
<1>2. Insns = [p \in 1 .. Length(ThisCall) |-> InsnAt(ThisCall, p)]
  BY <1>1, Stream
<1>3. Length(ThisCall) \in Nat /\ fetched \in Nat
  BY <1>1, Widths DEF Base
<1> QED BY <1>1, <1>2, <1>3

\* At the start nothing is fetched.
LEMMA InitQueues ==
  ASSUME HostInit
  PROVE  Base /\ CmdInv
<1>1. test \in DOMAIN Calls /\ ThisCall \in TestCalls
  BY CallOf DEF HostInit, Init, Tests, ThisCall
<1>2. depth \in Depths /\ depth.dep \in Nat /\ depth.cmd \in Nat
  BY DepthsAssumption DEF HostInit, Init
<1>3. Length(ThisCall) \in Nat /\ Count(ThisCall, "compute") # 0
  BY <1>1, Widths, Counts
<1>4. Base
  <2>1. retired["compute"] = 0 /\ done = FALSE /\ 0 # Count(ThisCall, "compute")
    BY <1>3 DEF HostInit, Init, Units
  <2>2. ~(retired["compute"] = Count(ThisCall, "compute")) /\ ~done /\ done \in BOOLEAN
    BY <2>1
  <2> HIDE DEF HostInit
  <2>3. /\ fetched = 0 /\ cmds = [u \in Units |-> <<>>] /\ busy = [u \in Units |-> FALSE]
        /\ token = [q \in Queues |-> 0] /\ retired = [u \in Units |-> 0]
    BY DEF HostInit, Init
  <2>4. /\ fetched \in 0 .. Length(ThisCall) /\ busy \in [Units -> BOOLEAN]
        /\ cmds = [u \in Units |-> cmds[u]]
        /\ token \in [Queues -> 0 .. depth.dep] /\ retired \in [Units -> Nat]
    BY <1>2, <1>3, <2>3
  <2> QED BY <1>1, <1>2, <2>2, <2>4 DEF Base
<1>5. CmdInv
  <2> SUFFICES ASSUME NEW u \in Units
               PROVE  /\ InOrder(ThisCall, u, retired[u], cmds[u], fetched)
                      /\ Len(cmds[u]) <= depth.cmd
                      /\ busy[u] => cmds[u] # <<>>
    BY DEF CmdInv
  <2>1. retired[u] = 0 /\ cmds[u] = <<>> /\ fetched = 0 /\ ~busy[u]
    BY DEF HostInit, Init
  <2> QED BY <1>1, <1>2, <2>1, EmptyInOrder
<1> QED BY <1>4, <1>5

\* Steps of the host and stuttering do not touch the queues.
LEMMA StutterQueues ==
  ASSUME Base, CmdInv, UNCHANGED <<test, depth, fetched, cmds, busy, token, done, retired>>
  PROVE  Base' /\ CmdInv'
<1>1. ThisCall' = ThisCall
  BY DEF ThisCall
<1>2. Base'
  BY <1>1 DEF Base
<1>3. CmdInv'
  BY <1>1 DEF CmdInv
<1> QED BY <1>2, <1>3

\* Fetch appends to a command queue the next instruction of that unit.
LEMMA FetchQueues ==
  ASSUME Base, CmdInv, Fetch
  PROVE  Base' /\ CmdInv'
<1> DEFINE c == ThisCall
           v == Unit(InsnAt(c, fetched + 1))
<1>1. /\ c \in TestCalls /\ fetched \in Nat /\ Length(c) \in Nat /\ fetched < Length(c)
      /\ Insns[fetched + 1] = InsnAt(c, fetched + 1)
  BY InsnsOfThisCall DEF Fetch
<1>2. v \in Units /\ cmds = [u \in Units |-> cmds[u]]
  BY DEF Unit, Units, Base
<1>3. /\ cmds'[v] = Append(cmds[v], fetched + 1) /\ Len(cmds[v]) < depth.cmd
      /\ \A u \in Units : u # v => cmds'[u] = cmds[u]
      /\ cmds' = [u \in Units |-> cmds'[u]]
  BY <1>1, <1>2 DEF Fetch
<1>4. /\ fetched' = fetched + 1 /\ c' = c
      /\ UNCHANGED <<test, depth, busy, token, done, retired>>
  BY DEF Fetch, ThisCall
<1> HIDE DEF c, v
<1>5. Base'
  BY <1>1, <1>3, <1>4 DEF Base, c
<1>6. CmdInv'
  <2> SUFFICES ASSUME NEW u \in Units
               PROVE  /\ InOrder(c, u, retired[u], cmds'[u], fetched + 1)
                      /\ Len(cmds'[u]) <= depth.cmd
                      /\ busy[u] => cmds'[u] # <<>>
    BY <1>4 DEF CmdInv, c
  <2>1. /\ InOrder(c, u, retired[u], cmds[u], fetched) /\ Len(cmds[u]) <= depth.cmd
        /\ busy[u] => cmds[u] # <<>>
        /\ retired[u] \in Nat /\ depth.cmd \in Nat
    BY DepthsAssumption DEF CmdInv, Base, c
  <2>2. CASE u = v
    <3>1. InOrder(c, u, retired[u], Append(cmds[u], fetched + 1), fetched + 1)
      BY <1>1, <2>1, <2>2, FetchInOrder DEF v
    <3>2. /\ Len(Append(cmds[u], fetched + 1)) = Len(cmds[u]) + 1 /\ Len(cmds[u]) \in Nat
          /\ Append(cmds[u], fetched + 1) # <<>>
      <4>1. cmds[u] \in Seq(Nat) /\ fetched + 1 \in Nat
        BY <1>1, <2>1 DEF InOrder
      <4> QED BY <4>1
    <3>3. cmds'[u] = Append(cmds[u], fetched + 1) /\ Len(cmds[u]) < depth.cmd
      BY <1>3, <2>2
    <3>4. Len(cmds'[u]) <= depth.cmd
      BY <2>1, <3>2, <3>3
    <3> QED BY <3>1, <3>2, <3>3, <3>4
  <2>3. CASE u # v
    <3>1. InOrder(c, u, retired[u], cmds[u], fetched + 1)
      BY <1>1, <2>1, <2>3, FetchElsewhere DEF v
    <3> QED BY <1>3, <2>1, <2>3, <3>1
  <2> QED BY <2>2, <2>3
<1> QED BY <1>5, <1>6

\* Begin leaves the command queues alone.
LEMMA BeginQueues ==
  ASSUME Base, CmdInv, NEW u \in Units, Begin(u)
  PROVE  Base' /\ CmdInv'
<1>1. /\ ThisCall' = ThisCall /\ UNCHANGED <<test, depth, fetched, cmds, done, retired>>
      /\ busy' = [busy EXCEPT ![u] = TRUE] /\ cmds[u] # <<>>
  BY DEF Begin, ThisCall
<1>2. token' \in [Queues -> 0 .. depth.dep]
  <2>1. /\ token' = [q \in Queues |-> IF q \in Pops(Current(u)) THEN token[q] - 1 ELSE token[q]]
        /\ \A q \in Pops(Current(u)) : token[q] > 0
    BY DEF Begin
  <2>2. ASSUME NEW q \in Queues
        PROVE  (IF q \in Pops(Current(u)) THEN token[q] - 1 ELSE token[q]) \in 0 .. depth.dep
    <3>1. token[q] \in 0 .. depth.dep /\ depth.dep \in Nat
      BY DepthsAssumption DEF Base
    <3> QED BY <2>1, <3>1
  <2> QED BY <2>1, <2>2
<1>3. Base'
  BY <1>1, <1>2 DEF Base
<1>4. CmdInv'
  BY <1>1 DEF CmdInv, Base
<1> QED BY <1>3, <1>4

\* End removes the first command and counts it as retired.
LEMMA EndQueues ==
  ASSUME Base, CmdInv, NEW u \in Units, End(u)
  PROVE  Base' /\ CmdInv'
<1>1. /\ ThisCall' = ThisCall /\ UNCHANGED <<test, depth, fetched>>
      /\ busy' = [busy EXCEPT ![u] = FALSE] /\ cmds[u] # <<>>
      /\ cmds' = [cmds EXCEPT ![u] = Tail(@)] /\ retired' = [retired EXCEPT ![u] = @ + 1]
  BY DEF End, ThisCall, CmdInv
<1>2. token' \in [Queues -> 0 .. depth.dep]
  <2>1. /\ token' = [q \in Queues |-> IF q \in Pushes(Current(u)) THEN token[q] + 1 ELSE token[q]]
        /\ \A q \in Pushes(Current(u)) : token[q] < depth.dep
    BY DEF End
  <2>2. ASSUME NEW q \in Queues
        PROVE  (IF q \in Pushes(Current(u)) THEN token[q] + 1 ELSE token[q]) \in 0 .. depth.dep
    <3>1. token[q] \in 0 .. depth.dep /\ depth.dep \in Nat
      BY DepthsAssumption DEF Base
    <3> QED BY <2>1, <3>1
  <2> QED BY <2>1, <2>2
<1>3. done' \in BOOLEAN /\ (done' <=> retired'["compute"] = Count(ThisCall, "compute"))
  <2> DEFINE c == ThisCall
             r == retired[u]
             insn == InsnOf(c, u, r)
  <2>1. /\ c \in TestCalls /\ r \in Nat /\ r < Count(c, u)
        /\ done' = (done \/ insn.op = "FINISH")
    BY EndStep
  <2>2. insn.op = "FINISH" <=> u = "compute" /\ r + 1 = Count(c, "compute")
    BY <2>1, FinishIsTheLast
  <2>3. /\ "compute" \in Units /\ done \in BOOLEAN
        /\ done <=> retired["compute"] = Count(c, "compute")
    BY DEF Units, Base
  <2>4. CASE u = "compute"
    <3>1. retired'["compute"] = r + 1
      BY <1>1, <2>3, <2>4 DEF Base
    <3>2. ~done
      <4>1. retired["compute"] # Count(c, "compute")
        BY <2>1, <2>3, <2>4, Counts
      <4> QED BY <2>3, <4>1
    <3> QED BY <2>1, <2>2, <2>4, <3>1, <3>2
  <2>5. CASE u # "compute"
    <3>1. retired'["compute"] = retired["compute"]
      BY <1>1, <2>3, <2>5 DEF Base
    <3> QED BY <2>1, <2>2, <2>3, <2>5, <3>1
  <2> QED BY <2>4, <2>5
<1>4. Base'
  <2>1. busy' \in [Units -> BOOLEAN] /\ retired' \in [Units -> Nat]
    BY <1>1 DEF Base
  <2>2. cmds' = [v \in Units |-> cmds'[v]]
    <3>1. cmds = [v \in Units |-> cmds[v]] /\ cmds' = [cmds EXCEPT ![u] = Tail(@)]
      BY <1>1 DEF Base
    <3> QED BY <3>1
  <2> QED BY <1>1, <1>2, <1>3, <2>1, <2>2 DEF Base
<1>5. CmdInv'
  <2> SUFFICES ASSUME NEW v \in Units
               PROVE  /\ InOrder(ThisCall, v, retired'[v], cmds'[v], fetched)
                      /\ Len(cmds'[v]) <= depth.cmd
                      /\ busy'[v] => cmds'[v] # <<>>
    BY <1>1 DEF CmdInv
  <2>1. /\ InOrder(ThisCall, v, retired[v], cmds[v], fetched) /\ Len(cmds[v]) <= depth.cmd
        /\ busy[v] => cmds[v] # <<>>
        /\ retired[v] \in Nat /\ depth.cmd \in Nat
    BY DepthsAssumption DEF CmdInv, Base
  <2>2. CASE v = u
    <3>1. retired'[v] = retired[v] + 1 /\ cmds'[v] = Tail(cmds[v]) /\ busy'[v] = FALSE
      BY <1>1, <2>2 DEF Base
    <3>2. /\ InOrder(ThisCall, v, retired[v] + 1, Tail(cmds[v]), fetched)
          /\ Len(Tail(cmds[v])) = Len(cmds[v]) - 1
      BY <1>1, <2>1, <2>2, InsnsOfThisCall, RetireInOrder
    <3>3. Len(cmds[v]) \in Nat
      BY <2>1 DEF InOrder
    <3> QED BY <2>1, <3>1, <3>2, <3>3
  <2>3. CASE v # u
    BY <1>1, <2>1, <2>3 DEF Base
  <2> QED BY <2>2, <2>3
<1> QED BY <1>4, <1>5

\* The next test starts with empty queues, because the last one left none filled.
LEMMA NextTestQueues ==
  ASSUME Base, CmdInv, P!IInv, NextTest
  PROVE  Base' /\ CmdInv'
<1>1. /\ done /\ fetched' = 0 /\ done' = FALSE /\ retired' = [u \in Units |-> 0]
      /\ UNCHANGED <<depth, cmds, busy, token>>
  BY DEF NextTest
<1>2. test' \in DOMAIN Calls /\ ThisCall' \in TestCalls
  <2>1. test' \in DOMAIN Calls
    BY NextTestCalls
  <2> QED BY <2>1, CallOf DEF ThisCall
<1>3. Length(ThisCall') \in Nat /\ Count(ThisCall', "compute") # 0
  BY <1>2, Widths, Counts
<1>4. Base'
  <2>1. retired'["compute"] = 0 /\ done' = FALSE /\ 0 # Count(ThisCall', "compute")
    BY <1>1, <1>3 DEF Units
  <2>2. ~(retired'["compute"] = Count(ThisCall', "compute")) /\ ~done' /\ done' \in BOOLEAN
    BY <2>1
  <2>3. fetched' \in 0 .. Length(ThisCall') /\ retired' \in [Units -> Nat]
    BY <1>1, <1>3
  <2> QED BY <1>1, <1>2, <2>2, <2>3 DEF Base
<1>5. CmdInv'
  <2> SUFFICES ASSUME NEW u \in Units
               PROVE  /\ InOrder(ThisCall', u, 0, cmds[u], 0)
                      /\ Len(cmds[u]) <= depth.cmd
                      /\ busy[u] => cmds[u] # <<>>
    BY <1>1 DEF CmdInv
  <2>1. cmds[u] = <<>> /\ ~busy[u]
    BY <1>1, Quiescent
  <2>2. Len(cmds[u]) <= depth.cmd
    BY DEF CmdInv
  <2> QED BY <1>2, <2>1, <2>2, EmptyInOrder
<1> QED BY <1>4, <1>5

-----------------------------------------------------------------------------
(* What the instructions do to the memories                                 *)

\* The effect of each instruction, with the memory written out as a record.
LEMMA ExecEffects ==
  ASSUME NEW m, IsMem(m), NEW c, NEW t, NEW n
  PROVE  /\ Exec(LoadUop, m) = m /\ Exec(Finish, m) = m
         /\ Exec(AccInsn(c, t), m) =
              [inp |-> m.inp, wgt |-> m.wgt, acc |-> Value(BlockOf(c, t), <<>>),
               out |-> m.out, dram |-> m.dram]
         /\ Exec(WgtInsn(c, t, n), m) =
              [inp |-> m.inp,
               wgt |-> [m.wgt EXCEPT ![n % SlotsOf(c)] = WgtBlock(c, t, n)],
               acc |-> m.acc, out |-> m.out, dram |-> m.dram]
         /\ Exec(InpInsn(c, t, n), m) =
              [inp |-> [m.inp EXCEPT ![n % SlotsOf(c)] = InpBlock(c, t, n)],
               wgt |-> m.wgt, acc |-> m.acc, out |-> m.out, dram |-> m.dram]
         /\ Exec(StoreInsn(c, t), m) =
              [inp |-> m.inp, wgt |-> m.wgt, acc |-> m.acc, out |-> m.out,
               dram |-> With(m.dram, BlockOf(c, t), m.out)]
         /\ Exec(StepInsn(c, t, n), m) =
              Compute(m, IF SlotsOf(c) = 0 THEN AluTerm(BlockOf(c, t))
                         ELSE GemmTerm(m.inp[n % SlotsOf(c)], m.wgt[n % SlotsOf(c)]))
<1>m. m = [inp |-> m.inp, wgt |-> m.wgt, acc |-> m.acc, out |-> m.out, dram |-> m.dram]
  BY DEF IsMem
<1>1. Exec(LoadUop, m) = m /\ Exec(Finish, m) = m
  BY Fields DEF Exec
<1>2. Exec(AccInsn(c, t), m) = [m EXCEPT !.acc = Value(BlockOf(c, t), <<>>)]
  BY Fields DEF Exec
<1>3. Exec(WgtInsn(c, t, n), m) = [m EXCEPT !.wgt[n % SlotsOf(c)] = WgtBlock(c, t, n)]
  BY Fields DEF Exec
<1>4. Exec(InpInsn(c, t, n), m) = [m EXCEPT !.inp[n % SlotsOf(c)] = InpBlock(c, t, n)]
  BY Fields DEF Exec
<1>5. Exec(StoreInsn(c, t), m) = [m EXCEPT !.dram = With(@, BlockOf(c, t), m.out)]
  BY Fields DEF Exec
<1>6. Exec(StepInsn(c, t, n), m) =
        Compute(m, IF SlotsOf(c) = 0 THEN AluTerm(BlockOf(c, t))
                   ELSE GemmTerm(m.inp[n % SlotsOf(c)], m.wgt[n % SlotsOf(c)]))
  <2>1. CASE SlotsOf(c) = 0
    <3>1. StepInsn(c, t, n).op = "ALU" /\ StepInsn(c, t, n).dram = BlockOf(c, t)
      BY <2>1, Fields
    <3> QED BY <2>1, <3>1 DEF Exec
  <2>2. CASE SlotsOf(c) # 0
    <3>1. StepInsn(c, t, n).op = "GEMM" /\ StepInsn(c, t, n).sram = n % SlotsOf(c)
      BY <2>2, Fields
    <3> QED BY <2>2, <3>1 DEF Exec
  <2> QED BY <2>1, <2>2
<1>7. [m EXCEPT !.acc = Value(BlockOf(c, t), <<>>)] =
        [inp |-> m.inp, wgt |-> m.wgt, acc |-> Value(BlockOf(c, t), <<>>),
         out |-> m.out, dram |-> m.dram]
  BY <1>m
<1>8. [m EXCEPT !.wgt[n % SlotsOf(c)] = WgtBlock(c, t, n)] =
        [inp |-> m.inp,
         wgt |-> [m.wgt EXCEPT ![n % SlotsOf(c)] = WgtBlock(c, t, n)],
         acc |-> m.acc, out |-> m.out, dram |-> m.dram]
  BY <1>m
<1>9. [m EXCEPT !.inp[n % SlotsOf(c)] = InpBlock(c, t, n)] =
        [inp |-> [m.inp EXCEPT ![n % SlotsOf(c)] = InpBlock(c, t, n)],
         wgt |-> m.wgt, acc |-> m.acc, out |-> m.out, dram |-> m.dram]
  BY <1>m
<1>a. [m EXCEPT !.dram = With(@, BlockOf(c, t), m.out)] =
        [inp |-> m.inp, wgt |-> m.wgt, acc |-> m.acc, out |-> m.out,
         dram |-> With(m.dram, BlockOf(c, t), m.out)]
  BY <1>m
<1> QED BY <1>1, <1>2, <1>3, <1>4, <1>5, <1>6, <1>7, <1>8, <1>9, <1>a, Zenon

\* The effects that do not depend on a step.
LEMMA StoreEffect ==
  ASSUME NEW m, IsMem(m), NEW c, NEW t
  PROVE  Exec(StoreInsn(c, t), m) =
           [inp |-> m.inp, wgt |-> m.wgt, acc |-> m.acc, out |-> m.out,
            dram |-> With(m.dram, BlockOf(c, t), m.out)]
<1> DEFINE n == 0
<1> HIDE DEF n
<1>1. /\ Exec(StoreInsn(c, t), m) =
           [inp |-> m.inp, wgt |-> m.wgt, acc |-> m.acc, out |-> m.out,
            dram |-> With(m.dram, BlockOf(c, t), m.out)]
      /\ Exec(WgtInsn(c, t, n), m).out = m.out
  BY ExecEffects
<1> QED BY <1>1

\* The effects that do not depend on a step.
LEMMA AccEffect ==
  ASSUME NEW m, IsMem(m), NEW c, NEW t
  PROVE  /\ Exec(LoadUop, m) = m /\ Exec(Finish, m) = m
         /\ Exec(AccInsn(c, t), m) =
              [inp |-> m.inp, wgt |-> m.wgt, acc |-> Value(BlockOf(c, t), <<>>),
               out |-> m.out, dram |-> m.dram]
<1> DEFINE n == 0
<1> HIDE DEF n
<1>1. /\ Exec(LoadUop, m) = m /\ Exec(Finish, m) = m
      /\ Exec(AccInsn(c, t), m) =
           [inp |-> m.inp, wgt |-> m.wgt, acc |-> Value(BlockOf(c, t), <<>>),
            out |-> m.out, dram |-> m.dram]
      /\ Exec(WgtInsn(c, t, n), m).out = m.out
  BY ExecEffects
<1> QED BY <1>1

\* One more step of a tile.
LEMMA PartialNext ==
  ASSUME NEW c, NEW t, NEW n \in Nat, NEW m, IsMem(m), m.acc = Partial(c, t, n)
  PROVE  Compute(m, TermOf(c, t, n)) =
           [inp |-> m.inp, wgt |-> m.wgt, acc |-> Partial(c, t, n + 1),
            out |-> Partial(c, t, n + 1), dram |-> m.dram]
<1>1. /\ m.acc.init = BlockOf(c, t)
      /\ m.acc.terms = [k \in 1 .. n |-> TermOf(c, t, k - 1)]
  BY DEF Partial, Value
<1>2. Append([k \in 1 .. n |-> TermOf(c, t, k - 1)], TermOf(c, t, n)) =
        [k \in 1 .. n + 1 |-> TermOf(c, t, k - 1)]
  <2> DEFINE S == {TermOf(c, t, k) : k \in Int}
             x == TermOf(c, t, n)
             s == [k \in 1 .. n |-> TermOf(c, t, k - 1)]
             a == Append(s, x)
  <2>1. /\ s \in Seq(S) /\ Len(s) = n /\ x \in S
        /\ \A k \in 1 .. n : s[k] = TermOf(c, t, k - 1)
    OBVIOUS
  <2> HIDE DEF s, S
  <2>2. /\ a \in Seq(S) /\ Len(a) = n + 1 /\ a[n + 1] = TermOf(c, t, n)
        /\ \A k \in 1 .. n : a[k] = s[k]
    <3> HIDE DEF x
    <3>1. /\ a \in Seq(S) /\ Len(a) = n + 1 /\ a[n + 1] = x
          /\ \A k \in 1 .. n : a[k] = s[k]
      BY <2>1
    <3> QED BY <3>1 DEF x
  <2> HIDE DEF a
  <2>3. a = [k \in 1 .. n + 1 |-> a[k]]
    BY <2>2
  <2>5. \A k \in 1 .. n + 1 : a[k] = TermOf(c, t, k - 1)
    BY <2>1, <2>2
  <2>6. a = [k \in 1 .. n + 1 |-> TermOf(c, t, k - 1)]
    BY <2>3, <2>5
  <2>4. Append(s, TermOf(c, t, n)) = [k \in 1 .. n + 1 |-> TermOf(c, t, k - 1)]
    BY <2>6 DEF a
  <2> QED BY <2>4 DEF s, x
<1>3. Value(m.acc.init, Append(m.acc.terms, TermOf(c, t, n))) = Partial(c, t, n + 1)
  BY <1>1, <1>2, Zenon DEF Partial
<1>4. m = [inp |-> m.inp, wgt |-> m.wgt, acc |-> m.acc, out |-> m.out, dram |-> m.dram]
  BY DEF IsMem
<1>5. Compute(m, TermOf(c, t, n)) =
        [m EXCEPT !.acc = Partial(c, t, n + 1), !.out = Partial(c, t, n + 1)]
  BY <1>3, Zenon DEF Compute
<1> QED BY <1>4, <1>5

\* Steps less than the number of slots apart use different slots.
LEMMA SlotsDiffer ==
  ASSUME NEW v \in {1, 2}, NEW i \in Nat, NEW n \in Nat, i < n, n <= i + v - 1
  PROVE  i % v # n % v
<1>1. v = 2 /\ n = i + 1
  OBVIOUS
<1> QED BY <1>1

\* Storing one more tile.
LEMMA StoredNext ==
  ASSUME NEW c \in TestCalls, NEW z \in Nat, z < TilesOf(c)
  PROVE  With(Stored(c, z), BlockOf(c, z), Result(c, z)) = Stored(c, z + 1)
<1> DEFINE Blocks(n) == {BlockOf(c, t) : t \in 0 .. n - 1}
           ref == TestOf(c).ref
<1>1. Blocks(z) \cup {BlockOf(c, z)} = Blocks(z + 1)
  OBVIOUS
<1>2. ref[BlockOf(c, z)] = Result(c, z)
  <2>1. z \in 0 .. TilesOf(c) - 1
    BY Sizes
  <2> QED BY <2>1, Reference
<1>3. With(Stored(c, z), BlockOf(c, z), Result(c, z)) =
        [b \in Blocks(z) \cup {BlockOf(c, z)} |->
           IF b = BlockOf(c, z) THEN Result(c, z) ELSE Stored(c, z)[b]]
  BY DEF With, Stored
<1>4. ASSUME NEW b \in Blocks(z) \cup {BlockOf(c, z)}
      PROVE  (IF b = BlockOf(c, z) THEN Result(c, z) ELSE Stored(c, z)[b]) = ref[b]
  <2>1. b # BlockOf(c, z) => b \in Blocks(z)
    OBVIOUS
  <2>2. b \in Blocks(z) => Stored(c, z)[b] = ref[b]
    BY DEF Stored
  <2> HIDE DEF Blocks, ref
  <2> QED BY <1>2, <2>1, <2>2
<1> HIDE DEF ref, Blocks
<1>5. With(Stored(c, z), BlockOf(c, z), Result(c, z)) = [b \in Blocks(z + 1) |-> ref[b]]
  BY <1>1, <1>3, <1>4
<1> QED BY <1>5 DEF ref, Blocks, Stored

\* When all tiles are stored, the results are those of the C reference.
LEMMA AllStored ==
  ASSUME NEW c \in TestCalls
  PROVE  Stored(c, TilesOf(c)) = TestOf(c).ref
BY Reference DEF Stored

\* LOAD WGT, while the operands of earlier steps are still to be used.
LEMMA WgtLoaded ==
  ASSUME NEW c \in TestCalls, NEW m, NEW x \in Nat, NEW y, NEW running, NEW z,
         MemOK(c, m, x, y, running, z), x < Count(c, "load"), x % 2 = 0,
         LoadTile(c, x) = ComputeTile(c, y), ComputeStep(c, y) \in Nat,
         LoadStep(c, x) <= ComputeStep(c, y) + SlotsOf(c) - 1
  PROVE  MemOK(c, Exec(InsnOf(c, "load", x), m), x + 1, y, running, z)
<1> DEFINE v == SlotsOf(c)
           t == LoadTile(c, x)
           n == LoadStep(c, x)
           b == WgtBlock(c, t, n)
           k == Exec(InsnOf(c, "load", x), m)
<1>1. IsMem(m)
  BY DEF MemOK
<1>2. InsnOf(c, "load", x) = WgtInsn(c, t, n) /\ v \in {1, 2} /\ n \in Nat
  BY AtLoad, Sizes
<1>3. k = [inp |-> m.inp, wgt |-> [m.wgt EXCEPT ![n % v] = b],
           acc |-> m.acc, out |-> m.out, dram |-> m.dram]
  BY <1>1, <1>2, ExecEffects
<1>4. /\ (x + 1) % 2 = 1 /\ LoadTile(c, x + 1) = t /\ LoadStep(c, x + 1) = n
  BY LoadNext
<1>5. /\ k.inp = m.inp /\ k.wgt = [m.wgt EXCEPT ![n % v] = b]
      /\ k.acc = m.acc /\ k.out = m.out /\ k.dram = m.dram
      /\ IsFun(m.wgt) /\ IsFun(m.inp)
  BY <1>1, <1>3 DEF IsMem
<1>6. 0 .. v - 1 \subseteq DOMAIN m.wgt /\ n % v \in 0 .. v - 1
  BY <1>2 DEF MemOK
<1>7. /\ DOMAIN k.wgt = DOMAIN m.wgt /\ k.wgt[n % v] = b
      /\ \A i : i # n % v /\ i \in DOMAIN m.wgt => k.wgt[i] = m.wgt[i]
      /\ IsFun(k.wgt)
  <2> HIDE DEF b, k, v, n
  <2> QED BY <1>5, <1>6 DEF IsFun
<1>8. IsMem(k)
  BY <1>3, <1>5, <1>7 DEF IsMem
<1>9. Operands(c, k, ComputeTile(c, y), ComputeStep(c, y), LoadedHere(c, x + 1, y))
  <2>1. LoadedHere(c, x + 1, y) = n /\ LoadedHere(c, x, y) = n
    BY <1>4 DEF LoadedHere
  <2>2. Operands(c, m, ComputeTile(c, y), ComputeStep(c, y), n)
    BY <1>2, <2>1 DEF MemOK
  <2>3. ASSUME NEW i \in ComputeStep(c, y) .. n - 1
        PROVE  i % v # n % v /\ i % v \in 0 .. v - 1
    <3>1. i \in Nat /\ i < n /\ n <= i + v - 1
      BY <1>2
    <3> HIDE DEF v, n
    <3> QED BY <1>2, <3>1, SlotsDiffer
  <2> HIDE DEF b, k, v, n
  <2> QED BY <1>5, <1>6, <1>7, <2>1, <2>2, <2>3 DEF Operands, v
<1>a. k.wgt[LoadStep(c, x + 1) % SlotsOf(c)] = WgtBlock(c, LoadTile(c, x + 1), LoadStep(c, x + 1))
  BY <1>4, <1>7
<1>b. /\ ComputeStage(c, y, running) \in {"gemm", "gemmRun"} =>
           k.acc = Partial(c, ComputeTile(c, y), ComputeStep(c, y))
      /\ ComputeStage(c, y, running) = "acc" /\ ComputeTile(c, y) > 0 =>
           k.out = Result(c, ComputeTile(c, y) - 1)
      /\ k.dram = Stored(c, z)
      /\ 0 .. SlotsOf(c) - 1 \subseteq DOMAIN m.inp
  BY <1>5 DEF MemOK
<1> HIDE DEF k
<1>q. MemOK(c, k, x + 1, y, running, z)
  BY <1>5, <1>6, <1>7, <1>8, <1>9, <1>a, <1>b DEF MemOK
<1> QED BY <1>q DEF k

\* LOAD INP, which completes the operands of a step.
LEMMA InpLoaded ==
  ASSUME NEW c \in TestCalls, NEW m, NEW x \in Nat, NEW y, NEW running, NEW z,
         MemOK(c, m, x, y, running, z), x < Count(c, "load"), x % 2 = 1,
         LoadTile(c, x) = ComputeTile(c, y), ComputeStep(c, y) \in Nat,
         LoadStep(c, x) <= ComputeStep(c, y) + SlotsOf(c) - 1
  PROVE  MemOK(c, Exec(InsnOf(c, "load", x), m), x + 1, y, running, z)
<1> DEFINE v == SlotsOf(c)
           t == LoadTile(c, x)
           n == LoadStep(c, x)
           b == InpBlock(c, t, n)
           k == Exec(InsnOf(c, "load", x), m)
<1>1. IsMem(m)
  BY DEF MemOK
<1>2. /\ InsnOf(c, "load", x) = InpInsn(c, t, n) /\ v \in {1, 2} /\ n \in Nat /\ t \in Nat
      /\ n <= StepsOf(c) - 1 /\ StepsOf(c) \in Nat
  BY AtLoad, Sizes
<1>3. k = [inp |-> [m.inp EXCEPT ![n % v] = b], wgt |-> m.wgt,
           acc |-> m.acc, out |-> m.out, dram |-> m.dram]
  BY <1>1, <1>2, ExecEffects
<1>4. /\ (x + 1) % 2 = 0
      /\ n = StepsOf(c) - 1 => LoadTile(c, x + 1) = t + 1
      /\ n # StepsOf(c) - 1 => LoadTile(c, x + 1) = t /\ LoadStep(c, x + 1) = n + 1
  BY LoadNext
<1>5. /\ k.wgt = m.wgt /\ k.inp = [m.inp EXCEPT ![n % v] = b]
      /\ k.acc = m.acc /\ k.out = m.out /\ k.dram = m.dram
      /\ IsFun(m.wgt) /\ IsFun(m.inp)
  BY <1>1, <1>3 DEF IsMem
<1>6. 0 .. v - 1 \subseteq DOMAIN m.inp /\ n % v \in 0 .. v - 1
  BY <1>2 DEF MemOK
<1>7. /\ DOMAIN k.inp = DOMAIN m.inp /\ k.inp[n % v] = b
      /\ \A i : i # n % v /\ i \in DOMAIN m.inp => k.inp[i] = m.inp[i]
      /\ IsFun(k.inp)
  <2> HIDE DEF b, k, v, n
  <2> QED BY <1>5, <1>6 DEF IsFun
<1>8. IsMem(k)
  BY <1>3, <1>5, <1>7 DEF IsMem
<1>9. Operands(c, k, t, ComputeStep(c, y), LoadedHere(c, x + 1, y))
  <2>1. LoadedHere(c, x + 1, y) = n + 1 /\ LoadedHere(c, x, y) = n
    BY <1>2, <1>4 DEF LoadedHere
  <2>2. Operands(c, m, t, ComputeStep(c, y), n)
    BY <1>2, <2>1 DEF MemOK
  <2>3. m.wgt[n % v] = WgtBlock(c, t, n)
    BY DEF MemOK
  <2> SUFFICES ASSUME NEW i \in ComputeStep(c, y) .. n
               PROVE  /\ k.inp[i % v] = InpBlock(c, t, i)
                      /\ k.wgt[i % v] = WgtBlock(c, t, i)
    BY <1>2, <2>1 DEF Operands
  <2>4. CASE i = n
    BY <1>5, <1>7, <2>3, <2>4
  <2>5. CASE i # n
    <3>1. i \in Nat /\ i < n /\ n <= i + v - 1 /\ i \in ComputeStep(c, y) .. n - 1
      BY <1>2, <2>5
    <3>2. i % v # n % v /\ i % v \in 0 .. v - 1
      <4> HIDE DEF v, n
      <4> QED BY <1>2, <3>1, SlotsDiffer
    <3>3. m.inp[i % v] = InpBlock(c, t, i) /\ m.wgt[i % v] = WgtBlock(c, t, i)
      BY <2>2, <3>1 DEF Operands
    <3> HIDE DEF b, k, v, n, t
    <3> QED BY <1>5, <1>6, <1>7, <3>2, <3>3
  <2> QED BY <2>4, <2>5
<1>b. /\ ComputeStage(c, y, running) \in {"gemm", "gemmRun"} =>
           k.acc = Partial(c, ComputeTile(c, y), ComputeStep(c, y))
      /\ ComputeStage(c, y, running) = "acc" /\ ComputeTile(c, y) > 0 =>
           k.out = Result(c, ComputeTile(c, y) - 1)
      /\ k.dram = Stored(c, z)
      /\ 0 .. SlotsOf(c) - 1 \subseteq DOMAIN m.wgt
  BY <1>5 DEF MemOK
<1> HIDE DEF k
<1>q. MemOK(c, k, x + 1, y, running, z)
  BY <1>4, <1>5, <1>6, <1>7, <1>8, <1>9, <1>b DEF MemOK
<1> QED BY <1>q DEF k

\* The compute unit begins its next instruction.
LEMMA MemBegun ==
  ASSUME NEW c \in TestCalls, NEW m, NEW x, NEW y \in Nat, NEW z,
         MemOK(c, m, x, y, FALSE, z), y < Count(c, "compute")
  PROVE  MemOK(c, m, x, y, TRUE, z)
<1>1. \/ ComputeStage(c, y, TRUE) \in {"uopRun", "accRun", "finRun"}
      \/ ComputeStage(c, y, TRUE) = "gemmRun" /\ ComputeStage(c, y, FALSE) = "gemm"
  BY ComputePlaces, Zenon DEF AtUop, AtAcc, AtGemm, AtFinish
<1>2. CASE ComputeStage(c, y, TRUE) \in {"uopRun", "accRun", "finRun"}
  BY <1>2 DEF MemOK
<1>3. CASE ComputeStage(c, y, TRUE) = "gemmRun" /\ ComputeStage(c, y, FALSE) = "gemm"
  BY <1>3 DEF MemOK
<1> QED BY <1>1, <1>2, <1>3

\* STORE puts the tile that is complete into DRAM.
LEMMA TileStored ==
  ASSUME NEW c \in TestCalls, NEW m, NEW x, NEW y, NEW running, NEW z \in Nat,
         MemOK(c, m, x, y, running, z), z < TilesOf(c),
         ComputeStage(c, y, running) = "acc", ComputeTile(c, y) = z + 1
  PROVE  /\ MemOK(c, Exec(InsnOf(c, "store", z), m), x, y, running, z + 1)
         /\ m.dram = Stored(c, z)
         /\ Exec(InsnOf(c, "store", z), m).dram = With(m.dram, BlockOf(c, z), Result(c, z))
<1> DEFINE k == Exec(InsnOf(c, "store", z), m)
<1>1. IsMem(m) /\ m.dram = Stored(c, z)
  BY DEF MemOK
<1>2. InsnOf(c, "store", z) = StoreInsn(c, z)
  BY DEF InsnOf
<1>3. k = [inp |-> m.inp, wgt |-> m.wgt, acc |-> m.acc, out |-> m.out,
           dram |-> With(m.dram, BlockOf(c, z), m.out)]
  <2>1. Exec(StoreInsn(c, z), m) =
          [inp |-> m.inp, wgt |-> m.wgt, acc |-> m.acc, out |-> m.out,
           dram |-> With(m.dram, BlockOf(c, z), m.out)]
    BY <1>1, StoreEffect
  <2> QED BY <1>2, <2>1, Zenon
<1>4. /\ k.inp = m.inp /\ k.wgt = m.wgt /\ k.acc = m.acc /\ k.out = m.out
      /\ k.dram = With(m.dram, BlockOf(c, z), m.out) /\ IsMem(k)
  BY <1>1, <1>3 DEF IsMem
<1>5. m.out = Result(c, z)
  <2>1. z + 1 > 0 /\ (z + 1) - 1 = z
    OBVIOUS
  <2> QED BY <2>1 DEF MemOK
<1>6. k.dram = Stored(c, z + 1)
  BY <1>1, <1>4, <1>5, StoredNext
<1>7. Operands(c, m, ComputeTile(c, y), ComputeStep(c, y), LoadedHere(c, x, y)) =>
        Operands(c, k, ComputeTile(c, y), ComputeStep(c, y), LoadedHere(c, x, y))
  BY <1>4 DEF Operands
<1> HIDE DEF k
<1>8. MemOK(c, k, x, y, running, z + 1)
  BY <1>4, <1>6, <1>7 DEF MemOK
<1> QED BY <1>1, <1>4, <1>5, <1>8 DEF k

\* The end of an instruction of the compute unit.
LEMMA ComputeEnded ==
  ASSUME NEW c \in TestCalls, NEW m, NEW x \in Nat, NEW y \in Nat, NEW z,
         MemOK(c, m, x, y, TRUE, z), y < Count(c, "compute"),
         AtGemm(c, y) /\ SlotsOf(c) # 0 =>
           \/ LoadTile(c, x) = ComputeTile(c, y) /\ ComputeStep(c, y) < LoadStep(c, x)
           \/ LoadTile(c, x) = ComputeTile(c, y) + 1 /\ LoadStep(c, x) = 0
  PROVE  /\ MemOK(c, Exec(InsnOf(c, "compute", y), m), x, y + 1, FALSE, z)
         /\ Exec(InsnOf(c, "compute", y), m).dram = m.dram
<1> DEFINE t == ComputeTile(c, y)
           n == ComputeStep(c, y)
           k == Exec(InsnOf(c, "compute", y), m)
<1>1. /\ IsMem(m) /\ IsFun(m.inp) /\ IsFun(m.wgt)
      /\ 0 .. SlotsOf(c) - 1 \subseteq DOMAIN m.inp
      /\ 0 .. SlotsOf(c) - 1 \subseteq DOMAIN m.wgt
      /\ x % 2 = 1 => m.wgt[LoadStep(c, x) % SlotsOf(c)] =
                        WgtBlock(c, LoadTile(c, x), LoadStep(c, x))
      /\ m.dram = Stored(c, z)
  BY DEF MemOK, IsMem
<1>2. /\ TilesOf(c) \in Nat \ {0} /\ StepsOf(c) \in Nat \ {0} /\ SlotsOf(c) \in {0, 1, 2}
      /\ SlotsOf(c) = 0 => StepsOf(c) = 1
      /\ LoadTile(c, x) \in Nat /\ LoadStep(c, x) \in 0 .. StepsOf(c) - 1
  BY Sizes, LoadCoordinates
<1>3. SlotsOf(c) # 0 => Operands(c, m, t, n, LoadedHere(c, x, y))
  BY DEF MemOK
<1>4. CASE AtUop(c, y)
  <2>1. k = m
    <3>1. InsnOf(c, "compute", y) = LoadUop
      BY <1>4 DEF AtUop
    <3> QED BY <1>1, <3>1, AccEffect
  <2>2. AtAcc(c, y + 1) /\ ComputeTile(c, y + 1) = t /\ ComputeStep(c, y + 1) = n /\ t = 0
    BY <1>4, ComputeNext DEF AtUop, AtAcc
  <2>3. ComputeStage(c, y + 1, FALSE) = "acc"
    BY <2>2 DEF AtAcc
  <2>4. LoadedHere(c, x, y + 1) = LoadedHere(c, x, y)
    BY <2>2 DEF LoadedHere
  <2>5. ComputeTile(c, y + 1) = t /\ ComputeStep(c, y + 1) = n /\ ~(ComputeTile(c, y + 1) > 0)
    BY <2>2
  <2> HIDE DEF k, t, n
  <2>6. MemOK(c, m, x, y + 1, FALSE, z)
    BY <1>1, <1>3, <2>3, <2>4, <2>5 DEF MemOK
  <2> QED BY <2>1, <2>6 DEF k
<1>5. CASE AtAcc(c, y)
  <2>1. k = [inp |-> m.inp, wgt |-> m.wgt, acc |-> Value(BlockOf(c, t), <<>>),
             out |-> m.out, dram |-> m.dram]
    <3>1. InsnOf(c, "compute", y) = AccInsn(c, t)
      BY <1>5 DEF AtAcc
    <3> QED BY <1>1, <3>1, AccEffect
  <2>2. /\ k.inp = m.inp /\ k.wgt = m.wgt /\ k.dram = m.dram /\ IsMem(k)
        /\ k.acc = Value(BlockOf(c, t), <<>>)
    BY <1>1, <2>1 DEF IsMem
  <2>3. /\ AtGemm(c, y + 1) /\ ComputeTile(c, y + 1) = t
        /\ ComputeStep(c, y + 1) = n /\ n = 0
    BY <1>5, ComputeNext DEF AtAcc
  <2>4. ComputeStage(c, y + 1, FALSE) = "gemm"
    BY <2>3 DEF AtGemm
  <2>5. LoadedHere(c, x, y + 1) = LoadedHere(c, x, y)
    BY <2>3 DEF LoadedHere
  <2>6. k.acc = Partial(c, t, n)
    <3>1. <<>> = [i \in 1 .. 0 |-> TermOf(c, t, i - 1)]
      OBVIOUS
    <3> QED BY <2>2, <2>3, <3>1 DEF Partial
  <2>7. SlotsOf(c) # 0 => Operands(c, k, t, n, LoadedHere(c, x, y))
    BY <1>3, <2>2 DEF Operands
  <2> HIDE DEF k, t, n
  <2>8. MemOK(c, k, x, y + 1, FALSE, z)
    BY <1>1, <2>2, <2>3, <2>4, <2>5, <2>6, <2>7 DEF MemOK
  <2> QED BY <2>2, <2>8 DEF k
<1>6. CASE AtGemm(c, y)
  <2>1. /\ t \in 0 .. TilesOf(c) - 1 /\ n \in 0 .. StepsOf(c) - 1
        /\ InsnOf(c, "compute", y) = StepInsn(c, t, n)
        /\ ComputeStage(c, y, TRUE) = "gemmRun"
    BY <1>6 DEF AtGemm
  <2>2. m.acc = Partial(c, t, n)
    BY <2>1 DEF MemOK
  <2>3. SlotsOf(c) # 0 =>
          /\ m.inp[n % SlotsOf(c)] = InpBlock(c, t, n)
          /\ m.wgt[n % SlotsOf(c)] = WgtBlock(c, t, n)
    <3> SUFFICES ASSUME SlotsOf(c) # 0
                 PROVE  /\ m.inp[n % SlotsOf(c)] = InpBlock(c, t, n)
                        /\ m.wgt[n % SlotsOf(c)] = WgtBlock(c, t, n)
      OBVIOUS
    <3>1. LoadedHere(c, x, y) \in Nat /\ n < LoadedHere(c, x, y)
      BY <1>2, <1>6, <2>1 DEF LoadedHere
    <3>2. n \in n .. LoadedHere(c, x, y) - 1
      BY <2>1, <3>1
    <3> QED BY <1>3, <3>2 DEF Operands
  <2>4. k = Compute(m, TermOf(c, t, n))
    <3>1. k = Compute(m, IF SlotsOf(c) = 0 THEN AluTerm(BlockOf(c, t))
                         ELSE GemmTerm(m.inp[n % SlotsOf(c)], m.wgt[n % SlotsOf(c)]))
      BY <1>1, <2>1, ExecEffects
    <3>2. (IF SlotsOf(c) = 0 THEN AluTerm(BlockOf(c, t))
           ELSE GemmTerm(m.inp[n % SlotsOf(c)], m.wgt[n % SlotsOf(c)])) = TermOf(c, t, n)
      BY <2>3, Zenon DEF TermOf
    <3> QED BY <3>1, <3>2, Zenon
  <2>5. k = [inp |-> m.inp, wgt |-> m.wgt, acc |-> Partial(c, t, n + 1),
             out |-> Partial(c, t, n + 1), dram |-> m.dram]
    <3>1. n \in Nat
      BY <2>1
    <3> HIDE DEF k, t, n
    <3>2. Compute(m, TermOf(c, t, n)) =
            [inp |-> m.inp, wgt |-> m.wgt, acc |-> Partial(c, t, n + 1),
             out |-> Partial(c, t, n + 1), dram |-> m.dram]
      BY <1>1, <2>2, <3>1, PartialNext
    <3> QED BY <2>4, <3>2, Zenon
  <2>6. /\ k.inp = m.inp /\ k.wgt = m.wgt /\ k.dram = m.dram /\ IsMem(k)
        /\ k.acc = Partial(c, t, n + 1) /\ k.out = Partial(c, t, n + 1)
    BY <1>1, <2>5 DEF IsMem
  <2>7. CASE n # StepsOf(c) - 1
    <3>1. /\ AtGemm(c, y + 1) /\ ComputeTile(c, y + 1) = t
          /\ ComputeStep(c, y + 1) = n + 1
      BY <1>6, <2>7, ComputeNext
    <3>2. ComputeStage(c, y + 1, FALSE) = "gemm"
      BY <3>1 DEF AtGemm
    <3>3. LoadedHere(c, x, y + 1) = LoadedHere(c, x, y)
      BY <3>1 DEF LoadedHere
    <3>4. SlotsOf(c) # 0 => Operands(c, k, t, n + 1, LoadedHere(c, x, y))
      BY <1>3, <2>1, <2>6 DEF Operands
    <3> HIDE DEF k, t, n
    <3>5. MemOK(c, k, x, y + 1, FALSE, z)
      BY <1>1, <2>6, <3>1, <3>2, <3>3, <3>4 DEF MemOK
    <3> QED BY <2>6, <3>5 DEF k
  <2>8. CASE n = StepsOf(c) - 1
    <3>1. (AtAcc(c, y + 1) \/ AtFinish(c, y + 1)) /\ ComputeTile(c, y + 1) = t + 1
      BY <1>6, <2>8, ComputeNext
    <3>2. ComputeStage(c, y + 1, FALSE) = "acc" /\ ComputeStep(c, y + 1) = 0
      BY <3>1 DEF AtAcc, AtFinish
    <3>3. SlotsOf(c) # 0 => Operands(c, k, t + 1, 0, LoadedHere(c, x, y + 1))
      <4> SUFFICES ASSUME SlotsOf(c) # 0
                   PROVE  Operands(c, k, t + 1, 0, LoadedHere(c, x, y + 1))
        OBVIOUS
      <4>1. LoadTile(c, x) = t + 1 /\ LoadStep(c, x) = 0
        BY <1>2, <1>6, <2>8
      <4>2. LoadedHere(c, x, y + 1) = 0
        BY <3>1, <4>1 DEF LoadedHere
      <4> QED BY <4>2 DEF Operands
    <3>4. k.out = Result(c, (t + 1) - 1)
      <4>1. n + 1 = StepsOf(c) /\ (t + 1) - 1 = t
        BY <1>2, <2>1, <2>8
      <4> QED BY <2>6, <4>1, Zenon DEF Result
    <3> HIDE DEF k, t, n
    <3>5. MemOK(c, k, x, y + 1, FALSE, z)
      BY <1>1, <2>6, <3>1, <3>2, <3>3, <3>4 DEF MemOK
    <3> QED BY <2>6, <3>5 DEF k
  <2> QED BY <2>7, <2>8
<1>7. CASE AtFinish(c, y)
  <2>1. k = m
    <3>1. InsnOf(c, "compute", y) = Finish
      BY <1>7 DEF AtFinish
    <3> QED BY <1>1, <3>1, AccEffect
  <2>2. AtEnd(c, y + 1)
    BY <1>7, ComputeNext
  <2>3. /\ ComputeTile(c, y + 1) = t /\ ComputeStep(c, y + 1) = n
        /\ ComputeStage(c, y + 1, FALSE) = "done"
    BY <1>7, <2>2 DEF AtFinish, AtEnd
  <2>4. LoadedHere(c, x, y + 1) = LoadedHere(c, x, y)
    BY <2>3 DEF LoadedHere
  <2> HIDE DEF k, t, n
  <2>5. MemOK(c, m, x, y + 1, FALSE, z)
    BY <1>1, <1>3, <2>3, <2>4 DEF MemOK
  <2> QED BY <2>1, <2>5 DEF k
<1> QED BY <1>4, <1>5, <1>6, <1>7, ComputePlaces

-----------------------------------------------------------------------------
(* Every step of the program keeps the invariant                            *)

\* The steps, by what they do to the accelerator.
LEMMA Steps ==
  ASSUME [HostNext]_all
  PROVE  \/ Fetch /\ UNCHANGED host
         \/ \E u \in Units : (Begin(u) \/ End(u)) /\ UNCHANGED host
         \/ NextTest
         \/ /\ UNCHANGED vars
            /\ Start \/ Poll \/ Compare \/ Exit \/ FreeTooEarly \/ TimeOut \/ UNCHANGED host
<1>1. CASE HostNext
  <2>1. CASE FetchRuns \/ \E u \in Units : BeginRuns(u) \/ EndRuns(u)
    BY <2>1 DEF FetchRuns, BeginRuns, EndRuns
  <2>2. CASE Host \/ TimeOut
    <3>1. Start \/ Poll \/ Compare \/ Exit \/ FreeTooEarly \/ TimeOut => UNCHANGED vars
      BY DEF Start, Poll, Compare, Exit, FreeTooEarly, TimeOut
    <3> QED BY <2>2, <3>1 DEF Host
  <2>3. CASE Terminated
    BY <2>3 DEF Terminated, all
  <2> QED BY <1>1, <2>1, <2>2, <2>3 DEF HostNext
<1>2. CASE UNCHANGED all
  BY <1>2 DEF all
<1> QED BY <1>1, <1>2

\* Every step of the program keeps the queues in order.
LEMMA QueuesStep ==
  ASSUME Base, CmdInv, P!IInv, [HostNext]_all
  PROVE  Base' /\ CmdInv'
<1>1. CASE UNCHANGED vars
  BY <1>1, StutterQueues DEF vars
<1> QED BY <1>1, Steps, FetchQueues, BeginQueues, EndQueues, NextTestQueues

\* Fetch does not matter to the protocol; the other steps of the units are its steps.
LEMMA ProtocolStep ==
  ASSUME Base, CmdInv, P!IInv, [HostNext]_all
  PROVE  [P!Next]_P!vars
<1>1. CASE UNCHANGED vars \/ Fetch
  <2>1. UNCHANGED <<test, busy, retired, token>>
    BY <1>1 DEF vars, Fetch
  <2> QED BY <2>1, StutterProtocol
<1>2. ASSUME NEW u \in Units, Begin(u) \/ End(u)
      PROVE  P!Next
  <2>1. CASE u = "load"
    <3>1. P!LoadWgtBegin \/ P!LoadInpBegin \/ P!LoadWgtEnd \/ P!LoadInpEnd
      BY <1>2, <2>1, LoadBegins, LoadEnds
    <3> QED BY <3>1 DEF P!Next, P!Load
  <2>2. CASE u = "compute"
    <3>1. \/ P!LoadUopBegin \/ P!LoadAccBegin \/ P!GemmBegin \/ P!FinishBegin
          \/ P!LoadUopEnd \/ P!LoadAccEnd \/ P!GemmEnd \/ P!FinishEnd
      BY <1>2, <2>2, ComputeBegins, ComputeEnds
    <3> QED BY <3>1 DEF P!Next, P!Compute
  <2>3. CASE u = "store"
    <3>1. P!StoreBegin \/ P!StoreEnd
      BY <1>2, <2>3, StoreBegins, StoreEnds
    <3> QED BY <3>1 DEF P!Next, P!Store
  <2> QED BY <2>1, <2>2, <2>3 DEF Units
<1>3. CASE NextTest
  BY <1>3, NextTestCalls DEF P!Next
<1> QED BY <1>1, <1>2, <1>3, Steps

\* Every step keeps the invariant of the protocol, since it is a step of it.
LEMMA ProtocolIInv ==
  ASSUME Base, CmdInv, P!IInv, [HostNext]_all
  PROVE  P!IInv'
BY ProtocolStep, P!NextIInv, ProtocolCalls

\* Every step keeps what the host has seen.
LEMMA HostStep ==
  ASSUME Base, CmdInv, P!IInv, MemInv, HostInv, [HostNext]_all
  PROVE  HostInv'
<1> USE DEF HostInv
<1>1. CASE Fetch /\ UNCHANGED host
  BY <1>1 DEF Fetch, host
<1>2. ASSUME NEW u \in Units, (Begin(u) \/ End(u)) /\ UNCHANGED host
      PROVE  HostInv'
  <2>1. done => done'
    BY <1>2 DEF Begin, End
  <2> QED BY <1>2, <2>1 DEF host
<1>3. CASE NextTest
  BY <1>3 DEF NextTest
<1>4. CASE UNCHANGED vars /\ Compare
  <2>1. ~timedOut => mem.dram = Tests[test].ref
    <3> SUFFICES ASSUME ~timedOut PROVE mem.dram = Tests[test].ref
      OBVIOUS
    <3>1. done /\ ThisCall \in TestCalls /\ Tests[test] = TestOf(ThisCall)
      BY <1>4, ThisCallOK DEF Compare
    <3>2. retired["store"] = TilesOf(ThisCall)
      BY <3>1, Quiescent, Counts DEF Units
    <3>3. mem.dram = Stored(ThisCall, retired["store"])
      BY DEF MemInv, MemOK
    <3> QED BY <3>1, <3>2, <3>3, AllStored
  <2> QED BY <1>4, <2>1 DEF Compare, vars
<1>5. CASE UNCHANGED vars /\ (Start \/ Poll \/ Exit \/ FreeTooEarly \/ TimeOut)
  BY <1>5 DEF vars, Start, StartNext, Poll, Exit, FreeTooEarly, TimeOut
<1>6. CASE UNCHANGED vars /\ UNCHANGED host
  BY <1>6 DEF vars, host
<1> QED BY <1>1, <1>2, <1>3, <1>4, <1>5, <1>6, Steps

\* The memories at the start of a test, whatever the last one left in the buffers.
LEMMA MemStart ==
  ASSUME NEW c \in TestCalls, NEW m, IsMem(m), m.dram = <<>>,
         TestOf(c).slots \subseteq DOMAIN m.inp, TestOf(c).slots \subseteq DOMAIN m.wgt
  PROVE  MemOK(c, m, 0, 0, FALSE, 0)
<1>1. LoadTile(c, 0) = 0 /\ LoadStep(c, 0) = 0
  <2>1. /\ StepsOf(c) \in Nat \ {0} /\ 0 = 2 * (StepsOf(c) * 0 + 0) + 0
        /\ 0 \in 0 .. StepsOf(c) - 1 /\ 0 \in 0 .. 1
    BY Sizes
  <2> QED BY <2>1, LoadNumber
<1>2. ComputeTile(c, 0) = 0 /\ ComputeStep(c, 0) = 0 /\ ComputeStage(c, 0, FALSE) = "uop"
  BY DEF ComputeTile, ComputeStep, ComputePart, ComputeStage
<1>3. Operands(c, m, 0, 0, LoadedHere(c, 0, 0))
  BY <1>1, <1>2 DEF Operands, LoadedHere
<1>4. /\ 0 .. SlotsOf(c) - 1 \subseteq DOMAIN m.inp
      /\ 0 .. SlotsOf(c) - 1 \subseteq DOMAIN m.wgt
  BY Slots
<1>5. m.dram = Stored(c, 0)
  <2>1. {BlockOf(c, t) : t \in 0 .. 0 - 1} = 1 .. 0
    OBVIOUS
  <2>2. Stored(c, 0) = [b \in 1 .. 0 |-> TestOf(c).ref[b]]
    BY <2>1 DEF Stored
  <2> QED BY <2>2
<1>6. ~(0 % 2 = 1) /\ ~(0 > 0) /\ "uop" \notin {"gemm", "gemmRun"} /\ "uop" # "acc"
  OBVIOUS
<1>7. SlotsOf(c) # 0 => Operands(c, m, ComputeTile(c, 0), ComputeStep(c, 0), LoadedHere(c, 0, 0))
  BY <1>2, <1>3
<1>8. /\ ComputeStage(c, 0, FALSE) \notin {"gemm", "gemmRun"}
      /\ ComputeStage(c, 0, FALSE) # "acc"
  BY <1>2
<1> QED BY <1>4, <1>5, <1>6, <1>7, <1>8, Zenon DEF MemOK

\* At the start the buffers of the first test are empty.
LEMMA InitMemInv ==
  ASSUME HostInit
  PROVE  MemInv
<1>1. ThisCall \in TestCalls /\ Tests[test] = TestOf(ThisCall)
  BY CallOf DEF HostInit, Init, Tests, ThisCall
<1>2. Loads = 0 /\ Computes = 0 /\ retired["store"] = 0 /\ busy["compute"] = FALSE
  BY DEF HostInit, Init, Loads, Computes, Units
<1>3. mem = InitMem(TestOf(ThisCall).slots)
  BY <1>1 DEF HostInit, Init
<1>4. /\ IsMem(mem) /\ mem.dram = <<>>
      /\ DOMAIN mem.inp = TestOf(ThisCall).slots /\ DOMAIN mem.wgt = TestOf(ThisCall).slots
  BY <1>3 DEF InitMem, IsMem, IsFun
<1> QED BY <1>1, <1>2, <1>4, MemStart DEF MemInv

\* NextTest empties the output and keeps the slots, which the next test loads again.
LEMMA NextTestMem ==
  ASSUME Base, CmdInv, P!IInv, MemInv, NextTest
  PROVE  MemInv'
<1> DEFINE slots == Tests[test + 1].slots
<1>1. /\ Loads' = 0 /\ Computes' = 0 /\ retired'["store"] = 0 /\ busy'["compute"] = FALSE
      /\ mem' = [mem EXCEPT !.inp = Grown(@, slots), !.wgt = Grown(@, slots), !.dram = <<>>]
      /\ test' = test + 1 /\ done
  BY Quiescent DEF NextTest, Loads, Computes, Units, Base
<1>2. ThisCall' \in TestCalls /\ slots = TestOf(ThisCall').slots
  <2>1. test' \in DOMAIN Calls
    BY NextTestCalls
  <2> QED BY <1>1, <2>1, CallOf DEF ThisCall
<1>3. mem = [inp |-> mem.inp, wgt |-> mem.wgt, acc |-> mem.acc, out |-> mem.out,
             dram |-> mem.dram]
  BY DEF MemInv, MemOK, IsMem
<1>4. mem' = [inp |-> Grown(mem.inp, slots), wgt |-> Grown(mem.wgt, slots),
              acc |-> mem.acc, out |-> mem.out, dram |-> <<>>]
  <2> HIDE DEF slots
  <2> QED BY <1>1, <1>3
<1>5. \A buffer : /\ IsFun(Grown(buffer, slots))
                  /\ slots \subseteq DOMAIN Grown(buffer, slots)
  <2> HIDE DEF slots
  <2> QED BY DEF Grown, IsFun
<1>6. /\ IsMem(mem') /\ mem'.dram = <<>>
      /\ slots \subseteq DOMAIN mem'.inp /\ slots \subseteq DOMAIN mem'.wgt
  <2> HIDE DEF slots
  <2> QED BY <1>4, <1>5 DEF IsMem
<1>7. MemOK(ThisCall', mem', 0, 0, FALSE, 0)
  BY <1>2, <1>6, MemStart
<1> QED BY <1>1, <1>7 DEF MemInv

\* A load that runs: the compute unit is at the same tile, and fewer steps behind
\* than there are slots.
LEMMA LoadMem ==
  ASSUME Base, CmdInv, P!IInv, MemInv, End("load")
  PROVE  MemInv'
<1> DEFINE c == ThisCall
           x == Loads
           y == Computes
<1>1. /\ c \in TestCalls /\ x \in Nat /\ x < Count(c, "load") /\ y \in Nat
      /\ mem' = Exec(InsnOf(c, "load", x), mem)
      /\ Loads' = x + 1 /\ Computes' = y /\ busy'["compute"] = busy["compute"]
      /\ retired'["store"] = retired["store"] /\ c' = c /\ busy["load"] = TRUE
  <2>1. "load" \in Units /\ "compute" \in Units /\ "store" \in Units
    BY DEF Units
  <2> QED BY <2>1, EndStep DEF Loads, Computes, Base
<1>2. LoadStage(x, busy["load"]) # "wgt"
  BY <1>1 DEF LoadStage
<1>3. /\ SlotsOf(c) \in {1, 2} /\ LoadTile(c, x) = ComputeTile(c, y)
      /\ LoadStep(c, x) <= ComputeStep(c, y) + SlotsOf(c) - 1
      /\ ComputeStep(c, y) \in Nat
  <2>1. ComputeStep(c, y) \in Nat
    BY DEF P!IInv, P!TypeOK
  <2> QED BY <1>2, <2>1, P!LoadingIInv, ProtocolCalls, ProtocolSizes
<1>4. MemOK(c, mem, x, y, busy["compute"], retired["store"])
  BY DEF MemInv
<1>5. x % 2 = 0 \/ x % 2 = 1
  BY <1>1
<1>6. MemOK(c, Exec(InsnOf(c, "load", x), mem), x + 1, y, busy["compute"], retired["store"])
  BY <1>1, <1>3, <1>4, <1>5, WgtLoaded, InpLoaded
<1> QED BY <1>1, <1>6 DEF MemInv

\* The compute unit sums the operands that the load unit left in its slot.
LEMMA ComputeMem ==
  ASSUME Base, CmdInv, P!IInv, MemInv, End("compute")
  PROVE  MemInv'
<1> DEFINE c == ThisCall
           x == Loads
           y == Computes
<1>1. /\ c \in TestCalls /\ x \in Nat /\ y < Count(c, "compute") /\ y \in Nat
      /\ mem' = Exec(InsnOf(c, "compute", y), mem)
      /\ Loads' = x /\ Computes' = y + 1
      /\ busy["compute"] = TRUE /\ busy'["compute"] = FALSE
      /\ retired'["store"] = retired["store"] /\ c' = c
  <2>1. "load" \in Units /\ "compute" \in Units /\ "store" \in Units
    BY DEF Units
  <2>2. busy'["compute"] = FALSE /\ busy["compute"] = TRUE
    BY <2>1 DEF Base, End
  <2> QED BY <2>1, <2>2, EndStep DEF Loads, Computes, Base
<1>2. AtGemm(c, y) /\ SlotsOf(c) # 0 =>
        \/ LoadTile(c, x) = ComputeTile(c, y) /\ ComputeStep(c, y) < LoadStep(c, x)
        \/ LoadTile(c, x) = ComputeTile(c, y) + 1 /\ LoadStep(c, x) = 0
  <2>1. AtGemm(c, y) => ComputeStage(c, y, busy["compute"]) = "gemmRun"
    BY <1>1 DEF AtGemm
  <2> QED BY <2>1, P!ComputingIInv, ProtocolCalls, ProtocolSizes
<1>3. MemOK(c, mem, x, y, TRUE, retired["store"])
  BY <1>1 DEF MemInv
<1>4. MemOK(c, Exec(InsnOf(c, "compute", y), mem), x, y + 1, FALSE, retired["store"])
  BY <1>1, <1>2, <1>3, ComputeEnded
<1> QED BY <1>1, <1>4 DEF MemInv

\* The store unit at work: it stores the tile before the one the compute unit is
\* waiting to begin.
LEMMA StoreMem ==
  ASSUME Base, CmdInv, P!IInv, MemInv, End("store")
  PROVE  /\ MemInv'
         /\ retired["store"] \in 0 .. TilesOf(ThisCall) - 1
         /\ mem.dram = Stored(ThisCall, retired["store"])
         /\ mem'.dram = With(mem.dram, BlockOf(ThisCall, retired["store"]),
                             Result(ThisCall, retired["store"]))
<1> DEFINE c == ThisCall
           z == retired["store"]
<1>1. /\ c \in TestCalls /\ z \in Nat /\ z < TilesOf(c)
      /\ mem' = Exec(InsnOf(c, "store", z), mem)
      /\ Loads' = Loads /\ Computes' = Computes /\ busy'["compute"] = busy["compute"]
      /\ retired'["store"] = z + 1 /\ c' = c /\ busy["store"] = TRUE
  <2>1. "load" \in Units /\ "compute" \in Units /\ "store" \in Units
    BY DEF Units
  <2> QED BY <2>1, EndStep, Counts DEF Loads, Computes, Base
<1>2. /\ ComputeStage(c, Computes, busy["compute"]) = "acc"
      /\ ComputeTile(c, Computes) = z + 1
  <2>1. P!StoreReadsItsTile
    BY P!StoringIInv, ProtocolCalls
  <2> QED BY <1>1, <2>1 DEF P!StoreReadsItsTile, StoreStage
<1>3. MemOK(c, mem, Loads, Computes, busy["compute"], z)
  BY DEF MemInv
<1>4. /\ MemOK(c, Exec(InsnOf(c, "store", z), mem), Loads, Computes, busy["compute"], z + 1)
      /\ mem.dram = Stored(c, z)
      /\ Exec(InsnOf(c, "store", z), mem).dram = With(mem.dram, BlockOf(c, z), Result(c, z))
  BY <1>1, <1>2, <1>3, TileStored
<1> QED BY <1>1, <1>4, Sizes DEF MemInv

\* Begin moves no data.
LEMMA BeginMem ==
  ASSUME Base, CmdInv, MemInv, NEW u \in Units, Begin(u)
  PROVE  MemInv'
<1>1. /\ ThisCall \in TestCalls /\ ThisCall' = ThisCall
      /\ Loads' = Loads /\ Computes' = Computes /\ retired'["store"] = retired["store"]
      /\ mem' = mem /\ Computes \in Nat /\ busy["compute"] \in BOOLEAN
  BY BeginStep DEF Loads, Computes, Begin, Base, Units
<1>2. CASE u = "compute"
  <2>1. busy["compute"] = FALSE /\ busy'["compute"] = TRUE
    BY <1>2 DEF Begin, Base, Units
  <2>2. Computes < Count(ThisCall, "compute")
    BY <1>2, BeginStep DEF Computes
  <2> QED BY <1>1, <2>1, <2>2, MemBegun DEF MemInv
<1>3. CASE u # "compute"
  <2>1. busy'["compute"] = busy["compute"]
    BY <1>3, BeginStep DEF Units
  <2> QED BY <1>1, <2>1 DEF MemInv
<1> QED BY <1>2, <1>3

\* Every step keeps the contents of the memories.
LEMMA MemStep ==
  ASSUME Base, CmdInv, P!IInv, MemInv, [HostNext]_all
  PROVE  MemInv'
<1>1. CASE UNCHANGED vars \/ Fetch
  <2>1. UNCHANGED <<test, busy, retired, mem>>
    BY <1>1 DEF vars, Fetch
  <2> QED BY <2>1 DEF MemInv, ThisCall, Loads, Computes
<1>2. ASSUME NEW u \in Units, Begin(u) \/ End(u)
      PROVE  MemInv'
  BY <1>2, BeginMem, LoadMem, ComputeMem, StoreMem DEF Units
<1> QED BY <1>1, <1>2, Steps, NextTestMem

\* The inductive invariant, and that it is one.
LEMMA InitInv == HostInit => Inv
<1> SUFFICES ASSUME HostInit PROVE Inv
  OBVIOUS
<1>1. P!IInv
  BY InitProtocol, P!InitIInv, ProtocolCalls
<1>2. HostInv
  BY DEF HostInit, HostInv
<1> QED BY <1>1, <1>2, InitQueues, InitMemInv DEF Inv

\* Inv is inductive.
LEMMA StepInv == Inv /\ [HostNext]_all => Inv'
BY QueuesStep, ProtocolIInv, MemStep, HostStep DEF Inv

\* The invariant of the program, on which all theorems below rest.
LEMMA Invariant == HostSpec => []Inv
BY InitInv, StepInv, PTL DEF HostSpec

-----------------------------------------------------------------------------
(* What the invariant means for the accelerator                             *)

\* A command queue holds positions of instructions that have been fetched.
LEMMA QueueElements ==
  ASSUME NEW c \in TestCalls, NEW u \in Units, NEW r \in Nat, NEW q, NEW f \in Nat,
         InOrder(c, u, r, q, f)
  PROVE  q \in Seq(1 .. f)
<1>1. q \in Seq(Nat) /\ Len(q) \in Nat /\ Count(c, u) \in Nat /\ r + Len(q) <= Count(c, u)
  BY Counts DEF InOrder
<1>2. ASSUME NEW k \in 1 .. Len(q)
      PROVE  q[k] \in 1 .. f
  <2>1. /\ r + k - 1 \in Nat /\ r + k - 1 < Count(c, u) /\ r + k - 1 \in 0 .. Count(c, u) - 1
        /\ r + k - 1 < r + Len(q)
    BY <1>1
  <2>2. q[k] = PosOf(c, u, r + k - 1) /\ PosOf(c, u, r + k - 1) <= f
    BY <2>1 DEF InOrder
  <2>3. PosOf(c, u, r + k - 1) \in 1 .. Length(c)
    BY <2>1, PosIsUnits
  <2>4. Length(c) \in Nat
    BY Widths
  <2> QED BY <2>2, <2>3, <2>4
<1> QED BY <1>1, <1>2

\* Every variable keeps its type: in particular fetch never runs past the end of a
\* stream, a command queue holds only fetched instructions of the test that runs
\* and never more than its capacity, neither does a dependency queue, and the
\* blocks in DRAM are blocks of the test's output.
THEOREM TypeCorrect == HostSpec => []TypeOK
<1>1. Inv => TypeOK
  <2> SUFFICES ASSUME Inv PROVE TypeOK
    OBVIOUS
  <2> USE DEF Inv
  <2>1. /\ ThisCall \in TestCalls /\ Tests[test] = TestOf(ThisCall)
        /\ fetched \in 0 .. Len(Insns) /\ fetched \in Nat
    BY ThisCallOK, InsnsOfThisCall DEF Base
  <2>2. test \in DOMAIN Tests /\ depth \in Depths
    BY DEF Base, Tests
  <2>3. \A u \in Units : cmds[u] \in Seq(1 .. fetched) /\ Len(cmds[u]) <= depth.cmd
    BY <2>1, QueueElements DEF CmdInv, Base
  <2>4. cmds \in [Units -> Seq(1 .. fetched)]
    BY <2>3 DEF Base
  <2>5. DOMAIN mem.dram \subseteq DOMAIN Tests[test].ref
    <3>1. retired["store"] <= TilesOf(ThisCall) /\ retired["store"] \in Nat
      <4>1. "store" \in Units
        BY DEF Units
      <4>2. /\ InOrder(ThisCall, "store", retired["store"], cmds["store"], fetched)
            /\ retired["store"] \in Nat
        BY <4>1 DEF CmdInv, Base
      <4> QED BY <2>1, <4>2, Counts, Sizes DEF InOrder
    <3>2. DOMAIN mem.dram = {BlockOf(ThisCall, t) : t \in 0 .. retired["store"] - 1}
      BY DEF MemInv, MemOK, Stored
    <3>3. TilesOf(ThisCall) \in Nat
      BY <2>1, Sizes
    <3>4. DOMAIN Tests[test].ref = {BlockOf(ThisCall, t) : t \in 0 .. TilesOf(ThisCall) - 1}
      BY <2>1, Reference
    <3>5. 0 .. retired["store"] - 1 \subseteq 0 .. TilesOf(ThisCall) - 1
      BY <3>1, <3>3
    <3> QED BY <3>2, <3>4, <3>5, Zenon
  <2> QED BY <2>1, <2>2, <2>3, <2>4, <2>5 DEF TypeOK, Base
<1> QED BY <1>1, Invariant, PTL

\* After FINISH nothing is left in the accelerator: the units are idle, the queues
\* empty, so the next test finds it as the first one did, whatever the streams and
\* the capacities.
THEOREM QuiescentWhenDone == HostSpec => []QuiescentAtFinish
<1>1. Inv => QuiescentAtFinish
  BY Quiescent DEF Inv, QuiescentAtFinish
<1> QED BY <1>1, Invariant, PTL

\* A host that polls to the done flag reads complete results and frees buffers
\* nobody works on, in every test of every program: a non-zero status, or buffers
\* freed too early, are the fault of a time-out.
THEOREM FailureIsTimeOut == HostSpec => []FailsOnlyByTimeOut
<1>1. Inv => FailsOnlyByTimeOut
  BY DEF Inv, HostInv, FailsOnlyByTimeOut
<1> QED BY <1>1, Invariant, PTL

\* The units that execute the streams of the tests, dependency flag by dependency
\* flag, make only steps of the token protocol, and the tests follow each other as
\* its calls do: what VtaGemmProtocol_proofs proves of the tokens holds of them.
THEOREM FollowsProtocol == HostSpec => ImplementsProtocol
<1>1. HostInit => Protocol!Init
  <2>1. P!Init => Protocol!Init
    BY DEF P!Init, Protocol!Init
  <2> QED BY <2>1, InitProtocol
<1>2. Inv /\ [HostNext]_all => [Protocol!Next]_Protocol!vars
  <2>1. P!Load => Protocol!Load
    BY DEF P!Load, Protocol!Load, P!LoadWgtBegin, Protocol!LoadWgtBegin, P!LoadWgtEnd,
       Protocol!LoadWgtEnd, P!LoadInpBegin, Protocol!LoadInpBegin, P!LoadInpEnd,
       Protocol!LoadInpEnd, P!Pop, Protocol!Pop, P!N, Protocol!N, P!V, Protocol!V, P!T,
       Protocol!T, P!cvars, Protocol!cvars, P!svars, Protocol!svars
  <2>2. P!Compute => Protocol!Compute
    BY DEF P!Compute, Protocol!Compute, P!LoadUopBegin, Protocol!LoadUopBegin,
       P!LoadUopEnd, Protocol!LoadUopEnd, P!LoadAccBegin, Protocol!LoadAccBegin,
       P!LoadAccEnd, Protocol!LoadAccEnd, P!GemmBegin, Protocol!GemmBegin, P!GemmEnd,
       Protocol!GemmEnd, P!FinishBegin, Protocol!FinishBegin, P!FinishEnd,
       Protocol!FinishEnd, P!PushPrev, Protocol!PushPrev, P!N, Protocol!N, P!V,
       Protocol!V, P!T, Protocol!T, P!lvars, Protocol!lvars, P!svars, Protocol!svars
  <2>3. P!Store => Protocol!Store
    BY DEF P!Store, Protocol!Store, P!StoreBegin, Protocol!StoreBegin, P!StoreEnd,
       Protocol!StoreEnd, P!T, Protocol!T, P!lvars, Protocol!lvars, P!cvars,
       Protocol!cvars
  <2>4. P!NextCall => Protocol!NextCall
    BY DEF P!NextCall, Protocol!NextCall
  <2>5. [P!Next]_P!vars => [Protocol!Next]_Protocol!vars
    BY <2>1, <2>2, <2>3, <2>4 DEF P!Next, Protocol!Next, P!vars, Protocol!vars
  <2> QED BY <2>5, ProtocolStep DEF Inv
<1> QED BY <1>1, <1>2, Invariant, PTL DEF HostSpec, ImplementsProtocol, Protocol!Spec

-----------------------------------------------------------------------------
(* Buffer slots                                                             *)

\* The slots that an instruction of each unit reads and writes.
LEMMA SlotsOfLoads ==
  ASSUME NEW c \in TestCalls, NEW r \in Nat, r < Count(c, "load")
  PROVE  LET insn == InsnOf(c, "load", r)
             slot == LoadStep(c, r) % SlotsOf(c)
         IN  /\ Reads(insn) = {}
             /\ Writes(insn) \in {{<<"WGT", slot>>}, {<<"INP", slot>>}}
<1> DEFINE insn == InsnOf(c, "load", r)
           slot == LoadStep(c, r) % SlotsOf(c)
<1>1. insn.op = "LOAD" /\ insn.memory \in {"WGT", "INP"} /\ insn.sram = slot
  BY AtLoad, Fields
<1> HIDE DEF insn, slot
<1>2. Reads(insn) = {} /\ Writes(insn) \in {{<<"WGT", slot>>}, {<<"INP", slot>>}}
  BY <1>1 DEF Reads, Writes
<1> QED BY <1>2 DEF insn, slot

\* A STORE reads the output buffer.
LEMMA SlotsOfStores ==
  ASSUME NEW c, NEW r
  PROVE  Reads(InsnOf(c, "store", r)) = {<<"OUT", 0>>} /\ Writes(InsnOf(c, "store", r)) = {}
<1>1. InsnOf(c, "store", r).op = "STORE"
  BY Fields DEF InsnOf
<1> QED BY <1>1 DEF Reads, Writes

\* The compute unit reads the operands of its step and writes no input slot.
LEMMA SlotsOfComputes ==
  ASSUME NEW c \in TestCalls, NEW r \in Nat, r < Count(c, "compute"), NEW slot,
         slot = ComputeStep(c, r) % SlotsOf(c)
  PROVE  LET insn == InsnOf(c, "compute", r)
         IN  /\ Writes(insn) \subseteq {<<"UOP", 0>>, <<"ACC", 0>>, <<"OUT", 0>>}
             /\ Reads(insn) \subseteq {<<"ACC", 0>>, <<"INP", slot>>, <<"WGT", slot>>}
             /\ ~AtGemm(c, r) \/ SlotsOf(c) = 0 => Reads(insn) \subseteq {<<"ACC", 0>>}
<1> DEFINE insn == InsnOf(c, "compute", r)
<1>1. CASE AtUop(c, r) \/ AtAcc(c, r)
  <2>1. insn.op = "LOAD" /\ insn.sram = 0 /\ insn.memory \in {"UOP", "ACC"}
    <3>1. insn = LoadUop \/ insn = AccInsn(c, ComputeTile(c, r))
      BY <1>1 DEF AtUop, AtAcc
    <3> HIDE DEF insn
    <3> QED BY <3>1, Fields
  <2> HIDE DEF insn
  <2>2. Reads(insn) = {} /\ Writes(insn) \in {{<<"UOP", 0>>}, {<<"ACC", 0>>}}
    BY <2>1 DEF Reads, Writes
  <2> QED BY <2>2 DEF insn
<1>2. CASE AtGemm(c, r)
  <2>1. /\ SlotsOf(c) = 0 => insn.op = "ALU"
        /\ SlotsOf(c) # 0 => insn.op = "GEMM" /\ insn.sram = slot
    BY <1>2, Fields DEF AtGemm
  <2> HIDE DEF insn
  <2>2. Writes(insn) = {<<"ACC", 0>>, <<"OUT", 0>>}
    BY <2>1 DEF Writes
  <2>3. /\ SlotsOf(c) = 0 => Reads(insn) = {<<"ACC", 0>>}
        /\ SlotsOf(c) # 0 => Reads(insn) = {<<"INP", slot>>, <<"WGT", slot>>, <<"ACC", 0>>}
    BY <2>1 DEF Reads
  <2> QED BY <1>2, <2>2, <2>3 DEF insn
<1>3. CASE AtFinish(c, r)
  <2>1. insn.op = "FINISH"
    BY <1>3, Fields DEF AtFinish
  <2> HIDE DEF insn
  <2>2. Reads(insn) = {} /\ Writes(insn) = {}
    BY <2>1 DEF Reads, Writes
  <2> QED BY <2>2 DEF insn
<1> QED BY <1>1, <1>2, <1>3, ComputePlaces

\* A load and an instruction of the compute unit that run at the same time.
LEMMA LoadComputeApart ==
  ASSUME Inv, busy["load"], busy["compute"]
  PROVE  /\ ~Conflict(Current("load"), Current("compute"))
         /\ ~Conflict(Current("compute"), Current("load"))
<1> DEFINE c == ThisCall
           x == Loads
           y == Computes
           a == Current("load")
           b == Current("compute")
           p == LoadStep(c, x) % SlotsOf(c)
           q == ComputeStep(c, y) % SlotsOf(c)
<1>1. /\ c \in TestCalls /\ x \in Nat /\ x < Count(c, "load") /\ a = InsnOf(c, "load", x)
      /\ y \in Nat /\ y < Count(c, "compute") /\ b = InsnOf(c, "compute", y)
  <2>1. "load" \in Units /\ "compute" \in Units
    BY DEF Units
  <2> QED BY <2>1, CurrentInsn DEF Inv, CmdInv, Loads, Computes
<1>2. AtGemm(c, y) /\ SlotsOf(c) # 0 => p # q
  <2> SUFFICES ASSUME AtGemm(c, y), SlotsOf(c) # 0 PROVE p # q
    OBVIOUS
  <2>1. busy["load"] = TRUE /\ busy["compute"] = TRUE
    BY DEF Inv, Base, Units
  <2>2. LoadStage(x, busy["load"]) \in {"wgtRun", "inpRun"}
    BY <2>1 DEF LoadStage
  <2>3. ComputeStage(c, y, busy["compute"]) = "gemmRun"
    BY <2>1 DEF AtGemm
  <2>4. /\ SlotsOf(c) \in {1, 2}
        /\ LoadStep(c, x) <= ComputeStep(c, y) + SlotsOf(c) - 1
        /\ LoadTile(c, x) = ComputeTile(c, y)
    BY <2>2, P!LoadingIInv, ProtocolCalls, ProtocolSizes DEF Inv
  <2>5. ComputeStep(c, y) < LoadStep(c, x)
    <3>1. \/ LoadTile(c, x) = ComputeTile(c, y) /\ ComputeStep(c, y) < LoadStep(c, x)
          \/ LoadStage(x, busy["load"]) = "wgt"
      BY <2>3, P!ComputingIInv, ProtocolCalls, ProtocolSizes DEF Inv
    <3> QED BY <2>2, <3>1
  <2>6. LoadStep(c, x) \in Nat /\ ComputeStep(c, y) \in Nat
    BY <1>1, Sizes, LoadCoordinates DEF AtGemm
  <2> QED BY <2>4, <2>5, <2>6, SlotsDiffer
<1>3. Reads(a) = {} /\ Writes(a) \in {{<<"WGT", p>>}, {<<"INP", p>>}}
  BY <1>1, SlotsOfLoads
<1>4. /\ Writes(b) \subseteq {<<"UOP", 0>>, <<"ACC", 0>>, <<"OUT", 0>>}
      /\ Reads(b) \subseteq {<<"ACC", 0>>, <<"INP", q>>, <<"WGT", q>>}
      /\ ~AtGemm(c, y) \/ SlotsOf(c) = 0 => Reads(b) \subseteq {<<"ACC", 0>>}
  BY <1>1, SlotsOfComputes
<1> HIDE DEF a, b, p, q
<1>5. Writes(a) \cap (Reads(b) \cup Writes(b)) = {}
  <2>1. CASE AtGemm(c, y) /\ SlotsOf(c) # 0
    BY <1>2, <1>3, <1>4, <2>1
  <2>2. CASE ~(AtGemm(c, y) /\ SlotsOf(c) # 0)
    BY <1>3, <1>4, <2>2
  <2> QED BY <2>1, <2>2
<1>6. ~Conflict(a, b) /\ ~Conflict(b, a)
  BY <1>3, <1>5 DEF Conflict
<1> QED BY <1>6 DEF a, b

\* Load and store units never touch the same buffer.
LEMMA LoadStoreApart ==
  ASSUME Inv, busy["load"], busy["store"]
  PROVE  /\ ~Conflict(Current("load"), Current("store"))
         /\ ~Conflict(Current("store"), Current("load"))
<1>1. /\ ThisCall \in TestCalls /\ Loads \in Nat /\ Loads < Count(ThisCall, "load")
      /\ Current("load") = InsnOf(ThisCall, "load", Loads)
      /\ Current("store") = InsnOf(ThisCall, "store", retired["store"])
  <2>1. "load" \in Units /\ "store" \in Units
    BY DEF Units
  <2> QED BY <2>1, CurrentInsn DEF Inv, CmdInv, Loads
<1>2. /\ Writes(Current("load")) \in
              {{<<"WGT", LoadStep(ThisCall, Loads) % SlotsOf(ThisCall)>>},
               {<<"INP", LoadStep(ThisCall, Loads) % SlotsOf(ThisCall)>>}}
      /\ Reads(Current("load")) = {}
  BY <1>1, SlotsOfLoads
<1>3. Reads(Current("store")) = {<<"OUT", 0>>} /\ Writes(Current("store")) = {}
  BY <1>1, SlotsOfStores
<1> QED BY <1>2, <1>3 DEF Conflict

\* While a tile is stored, the compute unit waits.
LEMMA ComputeWaitsForStore ==
  ASSUME Inv, busy["store"]
  PROVE  ~busy["compute"]
<1>1. SUFFICES ASSUME busy["compute"] PROVE FALSE
  OBVIOUS
<1>2. busy["store"] = TRUE /\ busy["compute"] = TRUE
  BY <1>1 DEF Inv, Base, Units
<1>3. ComputeStage(ThisCall, Computes, busy["compute"]) = "acc"
  <2>1. P!StoreReadsItsTile
    BY P!StoringIInv, ProtocolCalls DEF Inv
  <2> QED BY <1>2, <2>1 DEF P!StoreReadsItsTile, StoreStage
<1>4. ComputeStage(ThisCall, Computes, TRUE) # "acc"
  BY DEF ComputeStage
<1> QED BY <1>2, <1>3, <1>4

\* No unit ever writes a slot that another one is reading or writing: the load unit
\* does not overwrite the operands of a GEMM that runs, nor does the compute unit
\* touch the output block while it is stored.
THEOREM BuffersApart == HostSpec => []NoBufferRace
<1>1. Inv => NoBufferRace
  <2> SUFFICES ASSUME Inv, NEW u \in Units, NEW v \in Units, u # v, busy[u], busy[v]
               PROVE  ~Conflict(Current(u), Current(v))
    BY DEF NoBufferRace
  <2>1. CASE (u = "load" /\ v = "compute") \/ (u = "compute" /\ v = "load")
    BY <2>1, LoadComputeApart
  <2>2. CASE (u = "load" /\ v = "store") \/ (u = "store" /\ v = "load")
    BY <2>2, LoadStoreApart
  <2>3. CASE (u = "compute" /\ v = "store") \/ (u = "store" /\ v = "compute")
    BY <2>3, ComputeWaitsForStore
  <2>4. u \in {"load", "compute", "store"} /\ v \in {"load", "compute", "store"}
    BY DEF Units
  <2>5. \/ (u = "load" /\ v = "compute") \/ (u = "compute" /\ v = "load")
        \/ (u = "load" /\ v = "store") \/ (u = "store" /\ v = "load")
        \/ (u = "compute" /\ v = "store") \/ (u = "store" /\ v = "compute")
    BY <2>4
  <2> QED BY <2>1, <2>2, <2>3, <2>5, Zenon
<1> QED BY <1>1, Invariant, PTL

-----------------------------------------------------------------------------
(* The blocks in DRAM are the C reference                                   *)

\* The results that VtaReference promises are those of the call.
LEMMA ResultsOf ==
  ASSUME NEW n \in DOMAIN Calls
  PROVE  n \in DOMAIN Results /\ Results[n] = TestOf(Calls[n]).ref
BY CallOf DEF Results, Tests

\* Steps that do not concern the output.
LEMMA StutterReference ==
  ASSUME test' = test, mem'.dram = mem.dram, done' = done
  PROVE  UNCHANGED Ref!vars
BY DEF Ref!vars

\* The load unit does not touch DRAM.
LEMMA LoadReference ==
  ASSUME Inv, End("load")
  PROVE  UNCHANGED Ref!vars
<1>1. /\ ThisCall \in TestCalls /\ Loads \in Nat /\ Loads < Count(ThisCall, "load")
      /\ mem' = Exec(InsnOf(ThisCall, "load", Loads), mem)
      /\ done' = (done \/ InsnOf(ThisCall, "load", Loads).op = "FINISH")
      /\ test' = test /\ done \in BOOLEAN
  BY EndStep DEF Inv, Base, Loads, Units, End
<1>2. IsMem(mem)
  BY DEF Inv, MemInv, MemOK
<1>3. mem'.dram = mem.dram
  <2> DEFINE t == LoadTile(ThisCall, Loads)
             n == LoadStep(ThisCall, Loads)
  <2>1. /\ Exec(WgtInsn(ThisCall, t, n), mem).dram = mem.dram
        /\ Exec(InpInsn(ThisCall, t, n), mem).dram = mem.dram
    <3> HIDE DEF t, n
    <3> QED BY <1>2, ExecEffects
  <2>2. \/ InsnOf(ThisCall, "load", Loads) = WgtInsn(ThisCall, t, n)
        \/ InsnOf(ThisCall, "load", Loads) = InpInsn(ThisCall, t, n)
    BY <1>1, AtLoad
  <2> QED BY <1>1, <2>1, <2>2, Zenon
<1>4. InsnOf(ThisCall, "load", Loads).op # "FINISH"
  BY <1>1, FinishIsTheLast DEF Units
<1> QED BY <1>1, <1>3, <1>4, StutterReference

\* FINISH finds every tile in DRAM; the other instructions of the compute unit do
\* not concern the output.
LEMMA ComputeReference ==
  ASSUME Inv, End("compute")
  PROVE  [Ref!Next]_Ref!vars
<1> DEFINE c == ThisCall
           y == Computes
<1>1. /\ c \in TestCalls /\ y \in Nat /\ y < Count(c, "compute")
      /\ mem' = Exec(InsnOf(c, "compute", y), mem)
      /\ done' = (done \/ InsnOf(c, "compute", y).op = "FINISH")
      /\ test' = test /\ done \in BOOLEAN /\ Loads \in Nat
      /\ busy["compute"] = TRUE /\ test \in DOMAIN Calls
  <2>1. "load" \in Units /\ "compute" \in Units /\ busy["compute"] = TRUE
    BY DEF Inv, Base, Units, End
  <2> QED BY <2>1, EndStep DEF Inv, Base, Computes, Loads, End
<1>2. AtGemm(c, y) /\ SlotsOf(c) # 0 =>
        \/ LoadTile(c, Loads) = ComputeTile(c, y) /\ ComputeStep(c, y) < LoadStep(c, Loads)
        \/ LoadTile(c, Loads) = ComputeTile(c, y) + 1 /\ LoadStep(c, Loads) = 0
  <2>1. AtGemm(c, y) => ComputeStage(c, y, busy["compute"]) = "gemmRun"
    BY <1>1 DEF AtGemm
  <2> QED BY <2>1, P!ComputingIInv, ProtocolCalls, ProtocolSizes DEF Inv
<1>3. MemOK(c, mem, Loads, y, TRUE, retired["store"])
  BY <1>1 DEF Inv, MemInv
<1>4. mem'.dram = mem.dram
  BY <1>1, <1>2, <1>3, ComputeEnded
<1>5. CASE InsnOf(c, "compute", y).op # "FINISH"
  BY <1>1, <1>4, <1>5, StutterReference
<1>6. CASE InsnOf(c, "compute", y).op = "FINISH"
  <2>1. y + 1 = Count(c, "compute")
    BY <1>1, <1>6, FinishIsTheLast DEF Units
  <2>2. AtFinish(c, y)
    <3>1. AtEnd(c, y + 1)
      BY <1>1, <2>1, ComputeEnd
    <3>2. ComputeStage(c, y + 1, TRUE) = "done"
      BY <3>1, Zenon DEF AtEnd
    <3>3. ~AtUop(c, y)
      <4>1. AtUop(c, y) => ComputeStage(c, y + 1, TRUE) = "accRun"
        BY <1>1, ComputeNext DEF AtAcc
      <4> QED BY <3>2, <4>1
    <3>4. ~AtAcc(c, y)
      <4>1. AtAcc(c, y) => ComputeStage(c, y + 1, TRUE) = "gemmRun"
        BY <1>1, ComputeNext DEF AtGemm
      <4> QED BY <3>2, <4>1
    <3>5. ~AtGemm(c, y)
      <4>1. AtGemm(c, y) => AtGemm(c, y + 1) \/ AtAcc(c, y + 1) \/ AtFinish(c, y + 1)
        BY <1>1, ComputeNext
      <4>2. AtGemm(c, y) => ComputeStage(c, y + 1, TRUE) \in {"gemmRun", "accRun", "finRun"}
        BY <4>1, Zenon DEF AtGemm, AtAcc, AtFinish
      <4> QED BY <3>2, <4>2
    <3> QED BY <1>1, <3>3, <3>4, <3>5, ComputePlaces
  <2>3. ComputeStage(c, y, busy["compute"]) = "finRun"
    BY <1>1, <2>2 DEF AtFinish
  <2>4. retired["store"] = TilesOf(c)
    <3>1. P!FinishIsLast
      BY P!FinishIInv, ProtocolCalls DEF Inv
    <3>2. retired["store"] = P!T
      BY <2>3, <3>1 DEF P!FinishIsLast
    <3> QED BY <3>2, ProtocolSizes
  <2>5. mem.dram = Results[test]
    <3>1. mem.dram = Stored(c, TilesOf(c))
      BY <1>3, <2>4 DEF MemOK
    <3> QED BY <1>1, <3>1, AllStored, ResultsOf DEF ThisCall
  <2>6. Ref!Finish
    BY <1>1, <1>4, <1>6, <2>5 DEF Ref!Finish
  <2> QED BY <2>6 DEF Ref!Next
<1> QED BY <1>5, <1>6

\* Every STORE writes a result that is not in DRAM yet.
LEMMA StoreReference ==
  ASSUME Inv, End("store")
  PROVE  Ref!StoreBlock
<1> DEFINE c == ThisCall
           z == retired["store"]
           b == BlockOf(c, z)
<1>1. /\ z \in 0 .. TilesOf(c) - 1 /\ mem.dram = Stored(c, z)
      /\ mem'.dram = With(mem.dram, b, Result(c, z))
  BY StoreMem DEF Inv
<1>2. /\ c \in TestCalls /\ z \in Nat /\ z < Count(c, "store")
      /\ done' = (done \/ InsnOf(c, "store", z).op = "FINISH")
      /\ test' = test /\ done \in BOOLEAN /\ test \in DOMAIN Calls
      /\ Results[test] = TestOf(c).ref /\ busy["store"]
  BY EndStep, ResultsOf DEF Inv, Base, Units, End, ThisCall
<1>3. ~done
  BY <1>2, Quiescent DEF Inv, Units
<1>4. done' = done
  <2>1. InsnOf(c, "store", z).op # "FINISH"
    BY <1>2, FinishIsTheLast DEF Units
  <2> QED BY <1>2, <2>1
<1>5. b \in DOMAIN Results[test] /\ Results[test][b] = Result(c, z)
  BY <1>1, <1>2, Reference
<1>6. b \notin DOMAIN mem.dram
  <2>1. DOMAIN mem.dram = {BlockOf(c, t) : t \in 0 .. z - 1}
    BY <1>1 DEF Stored
  <2>2. ASSUME NEW t \in 0 .. z - 1, b = BlockOf(c, t)
        PROVE  FALSE
    <3>1. t \in Nat /\ t < z
      BY <1>2
    <3> QED BY <1>2, <2>2, <3>1, BlocksDiffer
  <2> QED BY <2>1, <2>2
<1>7. mem'.dram = [x \in DOMAIN mem.dram \cup {b} |->
                     IF x = b THEN Results[test][b] ELSE mem.dram[x]]
  BY <1>1, <1>5 DEF With
<1> HIDE DEF b
<1> QED BY <1>2, <1>3, <1>4, <1>5, <1>6, <1>7 DEF Ref!StoreBlock

\* NextTest is the NextTest of VtaReference.
LEMMA NextTestReference ==
  ASSUME Inv, NextTest
  PROVE  Ref!NextTest
<1>1. test' \in DOMAIN Results
  BY NextTestCalls, ResultsOf DEF Inv
<1>2. done /\ done' = FALSE
  BY DEF NextTest
<1>3. mem'.dram = <<>>
  <2>1. mem = [inp |-> mem.inp, wgt |-> mem.wgt, acc |-> mem.acc, out |-> mem.out,
               dram |-> mem.dram]
    BY DEF Inv, MemInv, MemOK, IsMem
  <2> QED BY <2>1 DEF NextTest
<1> QED BY <1>1, <1>2, <1>3 DEF Ref!NextTest

\* Every step of the program is one of VtaReference or leaves the output alone.
LEMMA ReferenceStep ==
  ASSUME Inv, [HostNext]_all
  PROVE  [Ref!Next]_Ref!vars
<1>1. CASE UNCHANGED vars \/ Fetch
  BY <1>1, StutterReference DEF vars, Fetch
<1>2. ASSUME NEW u \in Units, Begin(u)
      PROVE  UNCHANGED Ref!vars
  BY <1>2, StutterReference DEF Begin
<1>3. ASSUME NEW u \in Units, End(u)
      PROVE  [Ref!Next]_Ref!vars
  BY <1>3, LoadReference, ComputeReference, StoreReference DEF Units, Ref!Next
<1>4. CASE NextTest
  BY <1>4, NextTestReference DEF Ref!Next
<1> QED BY <1>1, <1>2, <1>3, <1>4, Steps

\* Whatever the interleaving of the units, the capacities of the queues and the
\* sequence of tests: the blocks that reach DRAM are the C reference results of the
\* test that runs, each is written once, and all of them before FINISH.
THEOREM ComputesReference == HostSpec => ImplementsReference
<1>1. HostInit => Ref!Init
  <2> SUFFICES ASSUME HostInit PROVE Ref!Init
    OBVIOUS
  <2>1. test \in DOMAIN Results /\ done = FALSE
    BY DEF HostInit, Init, Results
  <2>2. mem.dram = <<>>
    BY DEF HostInit, Init, InitMem
  <2> QED BY <2>1, <2>2 DEF Ref!Init
<1>2. Inv /\ [HostNext]_all => [Ref!Next]_Ref!vars
  BY ReferenceStep
<1> QED BY <1>1, <1>2, Invariant, PTL DEF HostSpec, ImplementsReference, Ref!Spec

=============================================================================
