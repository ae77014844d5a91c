-------------------------- MODULE VtaInOrder_proofs --------------------------
(***************************************************************************)
(* Every test that its assertions accept, of whatever shape, computes the  *)
(* reference: the streams of VtaInOrder in closed form, what each transfer *)
(* and each micro-op touches, and the invariants of their execution in the *)
(* order of the buffer.                                                    *)
(***************************************************************************)
EXTENDS VtaInOrder, VtaTestLib_proofs

-----------------------------------------------------------------------------
(* Numbers                                                                  *)

\* A multiple of d, divided by d.
LEMMA Exact ==
  ASSUME NEW d \in Nat \ {0}, NEW q \in Nat
  PROVE  (d * q) \div d = q /\ (d * q) % d = 0 /\ (q * d) \div d = q /\ (q * d) % d = 0
<1>1. d * q + 0 = d * q /\ q * d = d * q /\ 0 \in 0 .. d - 1
  OBVIOUS
<1>2. (d * q + 0) \div d = q /\ (d * q + 0) % d = 0
  BY <1>1, Quotient
<1> QED BY <1>1, <1>2

LEMMA Scaled ==
  ASSUME NEW d \in Nat \ {0}, NEW q \in Nat, NEW a, a = d * q
  PROVE  a \div d = q
BY Exact

\* What a size that d divides is.
LEMMA Divided ==
  ASSUME NEW d \in Nat \ {0}, NEW a \in Nat, a % d = 0
  PROVE  a \div d \in Nat /\ a = d * (a \div d) /\ (a # 0 => a \div d # 0)
<1>1. a \div d \in Nat /\ a = d * (a \div d) + (a % d)
  BY DivMod
<1> DEFINE q == a \div d
<1> HIDE DEF q
<1>2. q \in Nat /\ a = d * q + 0
  BY <1>1 DEF q
<1>3. d * q \in Nat
  BY <1>2
<1>4. a = d * q
  BY <1>2, <1>3
<1>5. q = 0 => a = 0
  BY <1>4
<1> QED BY <1>2, <1>4, <1>5 DEF q

\* Divisions in two steps.
LEMMA Chain ==
  ASSUME NEW d \in Nat \ {0}, NEW b \in Nat \ {0}, NEW a \in Nat, b % d = 0, a % b = 0
  PROVE  a \div d = (a \div b) * (b \div d)
<1> DEFINE q == a \div b
           r == b \div d
<1> HIDE DEF q, r
<1>1. q \in Nat /\ a = b * q /\ r \in Nat /\ b = d * r
  BY Divided DEF q, r
<1>2. q * r \in Nat /\ a = d * (q * r)
  BY <1>1
<1>3. a \div d = q * r
  BY <1>2, Exact
<1> QED BY <1>3 DEF q, r

-----------------------------------------------------------------------------
(* The sizes of a call                                                      *)

\* The rows and columns of blocks: gemm_test has one block.
TileRows(t) == IF t.kind = "blocked" THEN t.batch \div t.block ELSE 1
TileCols(t) == IF t.kind = "blocked" THEN t.in \div t.block ELSE 1

\* The call in blocks is one of VtaTestLib's.
LEMMA CallInBlocks ==
  ASSUME NEW t \in Tests, Asserts(t)
  PROVE  /\ CallOf(t) \in TestCalls /\ CallOf(t).kind = t.kind
         /\ Rows(t) \in Nat \ {0} /\ OutW(t) \in Nat \ {0}
         /\ t.kind = "alu" => /\ TilesOf(CallOf(t)) = Rows(t) /\ StepsOf(CallOf(t)) = 1
                              /\ SlotsOf(CallOf(t)) = 0
         /\ t.kind # "alu" => /\ TileRows(t) \in Nat \ {0} /\ TileCols(t) \in Nat \ {0}
                              /\ TilesOf(CallOf(t)) = TileRows(t) * TileCols(t)
                              /\ StepsOf(CallOf(t)) = TileCols(t)
                              /\ Cols(CallOf(t)) = TileCols(t)
                              /\ SlotsOf(CallOf(t)) = t.vt /\ t.vt \in {1, 2}
<1>1. /\ {VTA_BATCH, VTA_BLOCK_IN, VTA_BLOCK_OUT} \subseteq Nat \ {0}
      /\ t.kind \in {"alu", "gemm", "blocked"}
      /\ t.batch \in Nat \ {0} /\ t.out \in Nat \ {0}
      /\ t.batch % VTA_BATCH = 0 /\ t.out % VTA_BLOCK_OUT = 0
  BY GeometryAssumption, TestsAssumption DEF Asserts
<1>2. Rows(t) \in Nat \ {0} /\ OutW(t) \in Nat \ {0}
  <2>1. /\ t.batch \div VTA_BATCH \in Nat /\ t.batch \div VTA_BATCH # 0
        /\ t.out \div VTA_BLOCK_OUT \in Nat /\ t.out \div VTA_BLOCK_OUT # 0
    BY <1>1, Divided
  <2> QED BY <2>1 DEF Rows, OutW
<1> USE DEF TilesOf, StepsOf, SlotsOf, Cols, ShapeOf, Shape
<1>3. CASE t.kind = "alu"
  <2>1. CallOf(t) = [kind |-> "alu", rows |-> Rows(t)]
    BY <1>3 DEF CallOf
  <2>2. CallOf(t) \in TestCalls
    BY <1>2, <2>1 DEF TestCalls
  <2> QED BY <1>2, <1>3, <2>1, <2>2
<1>4. CASE t.kind = "gemm"
  <2>1. CallOf(t) = [kind |-> "gemm"] /\ t.vt = 1
    BY <1>4, TestsAssumption DEF CallOf
  <2>2. CallOf(t) \in TestCalls
    BY <2>1 DEF TestCalls
  <2>3. TileRows(t) = 1 /\ TileCols(t) = 1
    BY <1>4 DEF TileRows, TileCols
  <2> QED BY <1>2, <1>4, <2>1, <2>2, <2>3
<1>5. CASE t.kind = "blocked"
  <2> DEFINE b == TileRows(t)
             k == TileCols(t)
  <2>1. /\ t.block \in Nat \ {0} /\ t.vt \in {1, 2} /\ t.in \in Nat \ {0}
        /\ t.in % t.block = 0 /\ t.batch % t.block = 0 /\ k % t.vt = 0
    BY <1>5, TestsAssumption DEF Asserts, TileCols
  <2>2. b \in Nat \ {0} /\ k \in Nat \ {0}
    <3>1. t.in \div t.block \in Nat \ {0} /\ t.batch \div t.block \in Nat \ {0}
      BY <1>1, <2>1, Divided
    <3> QED BY <1>5, <3>1 DEF TileRows, TileCols
  <2>3. CallOf(t) = [kind |-> "blocked", B |-> b, C |-> k, vt |-> t.vt]
    BY <1>5 DEF CallOf, TileRows, TileCols
  <2> HIDE DEF b, k
  <2>4. CallOf(t) \in TestCalls
    BY <2>1, <2>2, <2>3 DEF TestCalls, BlockedGemmCalls
  <2> QED BY <1>2, <1>5, <2>1, <2>2, <2>3, <2>4 DEF b, k
<1> QED BY <1>1, <1>3, <1>4, <1>5

\* A matrix is so many blocks of so many elements.
LEMMA Dimensions ==
  ASSUME NEW t \in Tests, Asserts(t), t.kind # "alu"
  PROVE  /\ BRows(t) \in Nat \ {0} /\ BIn(t) \in Nat \ {0} /\ BOut(t) \in Nat \ {0}
         /\ Rows(t) = TileRows(t) * BRows(t)
         /\ InW(t) = TileCols(t) * BIn(t) /\ OutW(t) = TileCols(t) * BOut(t)
         /\ InW(t) \in Nat \ {0}
<1>1. /\ VTA_BATCH \in Nat \ {0} /\ VTA_BLOCK_IN \in Nat \ {0} /\ VTA_BLOCK_OUT \in Nat \ {0}
      /\ t.kind \in {"gemm", "blocked"}
      /\ t.batch \in Nat \ {0} /\ t.out \in Nat \ {0} /\ t.in \in Nat \ {0}
      /\ t.in % VTA_BLOCK_IN = 0
  BY GeometryAssumption, TestsAssumption DEF Asserts
<1>2. Rows(t) \in Nat \ {0} /\ OutW(t) \in Nat \ {0}
  BY CallInBlocks
<1>3. InW(t) \in Nat \ {0}
  BY <1>1, Divided DEF InW
<1>4. CASE t.kind = "gemm"
  <2>1. BRows(t) = Rows(t) /\ BIn(t) = InW(t) /\ BOut(t) = OutW(t)
    BY <1>4 DEF BRows, BIn, BOut
  <2>2. TileRows(t) = 1 /\ TileCols(t) = 1
    BY <1>4 DEF TileRows, TileCols
  <2> QED BY <1>2, <1>3, <2>1, <2>2
<1>5. CASE t.kind = "blocked"
  <2>1. /\ t.block \in Nat \ {0} /\ t.in = t.out
        /\ t.in % t.block = 0 /\ t.batch % t.block = 0
        /\ t.block % VTA_BATCH = 0 /\ t.block % VTA_BLOCK_IN = 0 /\ t.block % VTA_BLOCK_OUT = 0
    BY <1>5, TestsAssumption DEF Asserts
  <2>2. /\ BRows(t) = t.block \div VTA_BATCH /\ BIn(t) = t.block \div VTA_BLOCK_IN
        /\ BOut(t) = t.block \div VTA_BLOCK_OUT
        /\ TileRows(t) = t.batch \div t.block /\ TileCols(t) = t.in \div t.block
    BY <1>5 DEF BRows, BIn, BOut, TileRows, TileCols
  <2>3. BRows(t) \in Nat \ {0} /\ BIn(t) \in Nat \ {0} /\ BOut(t) \in Nat \ {0}
    BY <1>1, <2>1, <2>2, Divided
  <2> t.batch \in Nat /\ t.in \in Nat
    BY <1>1
  <2>4. Rows(t) = TileRows(t) * BRows(t)
    <3>1. t.batch \div VTA_BATCH = (t.batch \div t.block) * (t.block \div VTA_BATCH)
      BY <1>1, <2>1, Chain, Zenon
    <3> QED BY <2>2, <3>1 DEF Rows
  <2>5. InW(t) = TileCols(t) * BIn(t)
    <3>1. t.in \div VTA_BLOCK_IN = (t.in \div t.block) * (t.block \div VTA_BLOCK_IN)
      BY <1>1, <2>1, Chain, Zenon
    <3> QED BY <2>2, <3>1 DEF InW
  <2>6. OutW(t) = TileCols(t) * BOut(t)
    <3>1. t.in \div VTA_BLOCK_OUT = (t.in \div t.block) * (t.block \div VTA_BLOCK_OUT)
      BY <1>1, <2>1, Chain, Zenon
    <3> QED BY <2>1, <2>2, <3>1 DEF OutW
  <2> QED BY <1>3, <2>3, <2>4, <2>5, <2>6
<1> QED BY <1>1, <1>4, <1>5

-----------------------------------------------------------------------------
(* The stream of a test                                                     *)

UopLoad(t) == Transfer1D("LOAD", "UOP", UopSize(t))

\* The first output element of a tile of blocked_gemm_test, as the code has it.
CodeBase(t, tile) ==
  (((((tile \div TileCols(t)) * t.block) \div VTA_BATCH) * t.out)
     + ((tile % TileCols(t)) * t.block)) \div VTA_BLOCK_OUT

\* The instructions of a tile: the load of the accumulator, the steps, the store.
FirstOf(t, tile) ==
  IF t.kind = "blocked"
  THEN Transfer2D("LOAD", "ACC", 0, CodeBase(t, tile), BRows(t), BOut(t), OutW(t))
  ELSE IF t.kind = "gemm" THEN Transfer1D("LOAD", "ACC", Rows(t) * OutW(t))
  ELSE Transfer2D("LOAD", "ACC", 0, tile * (OutW(t) * InputSets(t)), 1,
                  OutW(t) * InputSets(t), OutW(t) * InputSets(t))
StepsAt(t, tile, n) ==
  IF t.kind = "blocked"
  THEN BlockStep(t, (tile \div TileCols(t)) * t.block, (tile % TileCols(t)) * t.block, n * t.block)
  ELSE IF t.kind = "gemm"
  THEN << Transfer1D("LOAD", "WGT", InW(t) * OutW(t)), Transfer1D("LOAD", "INP", Rows(t) * InW(t)),
          GemmInsn(t, 0) >>
  ELSE << AluInsn(t, tile) >>
LastOf(t, tile) ==
  IF t.kind = "blocked"
  THEN Transfer2D("STORE", "OUT", 0, CodeBase(t, tile), BRows(t), BOut(t), OutW(t))
  ELSE IF t.kind = "gemm" THEN Transfer1D("STORE", "OUT", Rows(t) * OutW(t))
  ELSE Transfer2D("STORE", "OUT", 0, tile * OutW(t), 1, OutW(t), OutW(t))

InTile(t, tile, d) ==
  IF d = 1 THEN FirstOf(t, tile)
  ELSE IF d = Width(CallOf(t)) THEN LastOf(t, tile)
  ELSE StepsAt(t, tile, (d - 2) \div PerStep(CallOf(t)))[1 + ((d - 2) % PerStep(CallOf(t)))]
InTest(t, p) ==
  IF p = 1 THEN UopLoad(t)
  ELSE IF p = Length(CallOf(t)) THEN FinishInsn
  ELSE InTile(t, (p - 2) \div Width(CallOf(t)), 1 + ((p - 2) % Width(CallOf(t))))

\* A body of tiles between the load of the micro-ops and FINISH is the stream.
LEMMA FramedTest ==
  ASSUME NEW t \in Tests, Asserts(t), NEW body,
         LET w == Width(CallOf(t))
             k == w * TilesOf(CallOf(t))
         IN  /\ IsBody(body, k)
             /\ \A x \in 1 .. k : body[x] = InTile(t, (x - 1) \div w, 1 + ((x - 1) % w))
  PROVE  << UopLoad(t) >> \o body \o << FinishInsn >>
           = [p \in 1 .. Length(CallOf(t)) |-> InTest(t, p)]
<1> DEFINE c == CallOf(t)
           w == Width(c)
           k == w * TilesOf(c)
<1>1. /\ w \in Nat \ {0, 1, 2} /\ k \in Nat \ {0} /\ Length(c) = k + 2
      /\ IsBody(body, k)
      /\ \A x \in 1 .. k : body[x] = InTile(t, (x - 1) \div w, 1 + ((x - 1) % w))
  BY CallInBlocks, Widths
<1>2. InTest(t, k + 2) = FinishInsn /\ InTest(t, 1) = UopLoad(t)
  BY <1>1 DEF InTest
<1> HIDE DEF k
<1>3. << UopLoad(t) >> \o body \o << FinishInsn >> = Frame(UopLoad(t), body, FinishInsn, k)
  BY <1>1, Framed
<1>4. ASSUME NEW p \in 1 .. k + 2
      PROVE  (IF p = 1 THEN UopLoad(t) ELSE IF p = k + 2 THEN FinishInsn ELSE body[p - 1])
               = InTest(t, p)
  <2>1. CASE p = 1 \/ p = k + 2
    BY <1>1, <1>2, <2>1
  <2>2. CASE p # 1 /\ p # k + 2
    <3>1. p - 1 \in 1 .. k /\ (p - 1) - 1 = p - 2
      BY <1>1, <2>2
    <3> HIDE DEF w
    <3>2. body[p - 1] = InTile(t, (p - 2) \div w, 1 + ((p - 2) % w))
      BY <1>1, <3>1
    <3>3. InTest(t, p) = InTile(t, (p - 2) \div w, 1 + ((p - 2) % w))
      BY <1>1, <2>2 DEF InTest, w
    <3> QED BY <2>2, <3>2, <3>3
  <2> QED BY <2>1, <2>2
<1>5. Frame(UopLoad(t), body, FinishInsn, k) = [p \in 1 .. k + 2 |-> InTest(t, p)]
  BY <1>4, Zenon DEF Frame
<1> QED BY <1>1, <1>3, <1>5

\* alu_test.
LEMMA AluTestStream ==
  ASSUME NEW t \in Tests, Asserts(t), t.kind = "alu"
  PROVE  Insns(t) = [p \in 1 .. Length(CallOf(t)) |-> InTest(t, p)]
<1> DEFINE c == CallOf(t)
           tx == OutW(t)
           all == tx * InputSets(t)
           Row(b) == << Transfer2D("LOAD", "ACC", 0, b * all, 1, all, all), AluInsn(t, b),
                        Transfer2D("STORE", "OUT", 0, b * tx, 1, tx, tx) >>
           k == Rows(t) * 3
           body == [x \in 1 .. k |-> Row((x - 1) \div 3)[1 + ((x - 1) % 3)]]
<1>1. /\ c \in TestCalls /\ Rows(t) \in Nat \ {0} /\ TilesOf(c) = Rows(t)
      /\ PerStep(c) = 1 /\ Width(c) = 3
  BY CallInBlocks DEF PerStep, Width
<1>2. Insns(t) = << UopLoad(t) >> \o body \o << FinishInsn >>
  <2>1. AluTestInsns(t) = body
    BY DEF AluTestInsns, Loop
  <2> HIDE DEF body
  <2>2. Insns(t) = << UopLoad(t) >> \o AluTestInsns(t) \o << FinishInsn >>
    BY DEF Insns, UopLoad
  <2> QED BY <2>1, <2>2
<1>3. k = 3 * TilesOf(c) /\ k \in Nat
  BY <1>1
<1>4. IsBody(body, k)
  BY DEF IsBody
<1>5. ASSUME NEW b \in Nat, NEW d \in 1 .. 3
      PROVE  Row(b)[d] = InTile(t, b, d)
  <2>1. /\ Row(b)[1] = FirstOf(t, b) /\ Row(b)[2] = AluInsn(t, b) /\ Row(b)[3] = LastOf(t, b)
    BY DEF FirstOf, LastOf
  <2>2. StepsAt(t, b, 0)[1] = AluInsn(t, b)
    BY DEF StepsAt
  <2>3. CASE d = 2
    <3>1. (d - 2) \div PerStep(c) = 0 /\ 1 + ((d - 2) % PerStep(c)) = 1
      BY <1>1, <2>3
    <3>2. InTile(t, b, d) = StepsAt(t, b, 0)[1]
      BY <1>1, <2>3, <3>1 DEF InTile
    <3> HIDE DEF Row
    <3> QED BY <2>1, <2>2, <2>3, <3>2
  <2>4. CASE d # 2
    <3> HIDE DEF Row
    <3>1. d = 1 \/ d = 3
      BY <2>4
    <3> QED BY <1>1, <2>1, <3>1 DEF InTile
  <2> QED BY <2>3, <2>4
<1>6. ASSUME NEW x \in 1 .. k
      PROVE  body[x] = InTile(t, (x - 1) \div 3, 1 + ((x - 1) % 3))
  <2>1. (x - 1) \div 3 \in Nat /\ 1 + ((x - 1) % 3) \in 1 .. 3
    BY <1>3
  <2>2. body[x] = Row((x - 1) \div 3)[1 + ((x - 1) % 3)]
    OBVIOUS
  <2> HIDE DEF Row, body
  <2> QED BY <1>5, <2>1, <2>2
<1> HIDE DEF body, k
<1>7. /\ IsBody(body, Width(c) * TilesOf(c))
      /\ \A x \in 1 .. Width(c) * TilesOf(c) :
           body[x] = InTile(t, (x - 1) \div Width(c), 1 + ((x - 1) % Width(c)))
  BY <1>1, <1>3, <1>4, <1>6
<1> QED BY <1>2, <1>7, FramedTest

\* gemm_test.
LEMMA GemmTestStream ==
  ASSUME NEW t \in Tests, Asserts(t), t.kind = "gemm"
  PROVE  Insns(t) = [p \in 1 .. Length(CallOf(t)) |-> InTest(t, p)]
<1> DEFINE c == CallOf(t)
           body == GemmTestInsns(t)
<1>1. /\ c \in TestCalls /\ TilesOf(c) = 1 /\ StepsOf(c) = 1
      /\ PerStep(c) = 3 /\ Width(c) = 5 /\ Width(c) * TilesOf(c) = 5
  <2>1. CallOf(t) = [kind |-> "gemm"]
    BY DEF CallOf
  <2> QED BY <2>1, CallInBlocks DEF PerStep, Width, TilesOf, StepsOf, SlotsOf, ShapeOf, Shape
<1>2. Insns(t) = << UopLoad(t) >> \o body \o << FinishInsn >>
  BY DEF Insns, UopLoad
<1>3. IsBody(body, 5)
  BY DEF IsBody, GemmTestInsns
<1>4. /\ body[1] = FirstOf(t, 0) /\ body[5] = LastOf(t, 0)
      /\ \A e \in 0 .. 2 : body[2 + e] = StepsAt(t, 0, 0)[1 + e]
  <2>1. body[1] = FirstOf(t, 0) /\ body[5] = LastOf(t, 0)
    BY DEF GemmTestInsns, FirstOf, LastOf
  <2>2. /\ body[2] = StepsAt(t, 0, 0)[1] /\ body[3] = StepsAt(t, 0, 0)[2]
        /\ body[4] = StepsAt(t, 0, 0)[3]
    BY DEF GemmTestInsns, StepsAt
  <2> HIDE DEF body
  <2>3. ASSUME NEW e \in 0 .. 2 PROVE body[2 + e] = StepsAt(t, 0, 0)[1 + e]
    <3>1. e = 0 \/ e = 1 \/ e = 2
      OBVIOUS
    <3>2. CASE e = 0  BY <2>2, <3>2
    <3>3. CASE e = 1  BY <2>2, <3>3
    <3>4. CASE e = 2  BY <2>2, <3>4
    <3> QED BY <3>1, <3>2, <3>3, <3>4
  <2> QED BY <2>1, <2>3
<1> HIDE DEF body
<1>5. ASSUME NEW x \in 1 .. 5
      PROVE  body[x] = InTile(t, (x - 1) \div 5, 1 + ((x - 1) % 5))
  <2>1. (x - 1) \div 5 = 0 /\ 1 + ((x - 1) % 5) = x
    OBVIOUS
  <2>2. CASE x = 1 \/ x = 5
    BY <1>1, <1>4, <2>1, <2>2 DEF InTile
  <2>3. CASE x \in 2 .. 4
    <3> DEFINE e == x - 2
    <3>1. e \in 0 .. 2 /\ e \div 3 = 0 /\ e % 3 = e /\ 2 + e = x
      BY <2>3
    <3>2. InTile(t, 0, x) = StepsAt(t, 0, 0)[1 + e]
      BY <1>1, <2>3, <3>1 DEF InTile
    <3> HIDE DEF e
    <3> QED BY <1>4, <2>1, <3>1, <3>2
  <2> QED BY <2>2, <2>3
<1>6. /\ IsBody(body, Width(c) * TilesOf(c))
      /\ \A x \in 1 .. Width(c) * TilesOf(c) :
           body[x] = InTile(t, (x - 1) \div Width(c), 1 + ((x - 1) % Width(c)))
  BY <1>1, <1>3, <1>5
<1> QED BY <1>2, <1>6, FramedTest

\* A tile of blocked_gemm_test.
LEMMA BlockTileIs ==
  ASSUME NEW t \in Tests, Asserts(t), t.kind = "blocked", NEW tile \in Nat,
         NEW d \in 1 .. Width(CallOf(t))
  PROVE  BlockTile(t, (tile \div TileCols(t)) * t.block, (tile % TileCols(t)) * t.block)[d]
           = InTile(t, tile, d)
<1> DEFINE c == CallOf(t)
           i == (tile \div TileCols(t)) * t.block
           j == (tile % TileCols(t)) * t.block
           Step(n) == BlockStep(t, i, j, n * t.block)
           k == TileCols(t) * 3
           body == [x \in 1 .. k |-> Step((x - 1) \div 3)[1 + ((x - 1) % 3)]]
<1>1. /\ c \in TestCalls /\ StepsOf(c) = TileCols(t) /\ TileCols(t) \in Nat \ {0}
      /\ PerStep(c) = 3 /\ Width(c) = 2 + 3 * TileCols(t)
  BY CallInBlocks DEF PerStep, Width
<1>2. KSteps(t.in \div t.block, t.vt) = TileCols(t)
  <2>1. t.in \div t.block = TileCols(t) /\ TileCols(t) % t.vt = 0 /\ t.vt \in {1, 2}
    BY TestsAssumption DEF TileCols
  <2> QED BY <1>1, <2>1 DEF KSteps
<1>3. BlockTile(t, i, j) = << FirstOf(t, tile) >> \o body \o << LastOf(t, tile) >>
  <2>1. FirstOf(t, tile) = Transfer2D("LOAD", "ACC", 0,
          (((i \div VTA_BATCH) * t.out) + j) \div VTA_BLOCK_OUT, BRows(t), BOut(t), OutW(t))
    BY DEF FirstOf, CodeBase
  <2>2. LastOf(t, tile) = Transfer2D("STORE", "OUT", 0,
          (((i \div VTA_BATCH) * t.out) + j) \div VTA_BLOCK_OUT, BRows(t), BOut(t), OutW(t))
    BY DEF LastOf, CodeBase
  <2> HIDE DEF i, j
  <2> QED BY <1>2, <2>1, <2>2, Zenon DEF BlockTile, Loop
<1>4. ASSUME NEW n PROVE Step(n) = StepsAt(t, tile, n)
  BY DEF StepsAt
<1>5. IsBody(body, k) /\ k \in Nat
  BY <1>1 DEF IsBody
<1>6. ASSUME NEW x \in 1 .. k
      PROVE  body[x] = StepsAt(t, tile, (x - 1) \div 3)[1 + ((x - 1) % 3)]
  <2>1. body[x] = Step((x - 1) \div 3)[1 + ((x - 1) % 3)]
    OBVIOUS
  <2> HIDE DEF Step, body
  <2> QED BY <1>4, <2>1
<1>7. d \in 1 .. k + 2 /\ k + 2 = Width(c)
  BY <1>1
<1> HIDE DEF i, j, Step, k, body
<1>8. BlockTile(t, i, j) = Frame(FirstOf(t, tile), body, LastOf(t, tile), k)
  BY <1>3, <1>5, Framed, Zenon
<1>9. Frame(FirstOf(t, tile), body, LastOf(t, tile), k)[d] = InTile(t, tile, d)
  <2>1. CASE d = 1
    BY <1>7, <2>1 DEF Frame, InTile
  <2>2. CASE d = k + 2 /\ d # 1
    BY <1>7, <2>2 DEF Frame, InTile
  <2>3. CASE d # 1 /\ d # k + 2
    <3>1. d - 1 \in 1 .. k /\ (d - 1) - 1 = d - 2
      BY <1>5, <1>7, <2>3
    <3>2. body[d - 1] = StepsAt(t, tile, (d - 2) \div 3)[1 + ((d - 2) % 3)]
      BY <1>6, <3>1
    <3> QED BY <1>1, <1>7, <2>3, <3>2 DEF Frame, InTile
  <2> QED BY <2>1, <2>2, <2>3
<1> QED BY <1>8, <1>9 DEF i, j

\* blocked_gemm_test.
LEMMA BlockedTestStream ==
  ASSUME NEW t \in Tests, Asserts(t), t.kind = "blocked"
  PROVE  Insns(t) = [p \in 1 .. Length(CallOf(t)) |-> InTest(t, p)]
<1> DEFINE c == CallOf(t)
           w == Width(c)
           TileNo(n) == BlockTile(t, (n \div TileCols(t)) * t.block, (n % TileCols(t)) * t.block)
           k == w * TilesOf(c)
           body == [x \in 1 .. k |-> TileNo((x - 1) \div w)[1 + ((x - 1) % w)]]
<1>1. /\ c \in TestCalls /\ StepsOf(c) = TileCols(t) /\ TileCols(t) \in Nat \ {0}
      /\ TilesOf(c) = TileRows(t) * TileCols(t) /\ TileRows(t) \in Nat \ {0}
      /\ Width(c) = 2 + 3 * TileCols(t)
  BY CallInBlocks DEF PerStep, Width
<1>2. BlockedInsns(t) = body
  <2>1. /\ t.in \div t.block = TileCols(t) /\ TileCols(t) % t.vt = 0 /\ t.vt \in {1, 2}
        /\ t.out \div t.block = TileCols(t) /\ t.batch \div t.block = TileRows(t)
    BY TestsAssumption DEF TileCols, TileRows, Asserts
  <2>2. KSteps(TileCols(t), t.vt) = TileCols(t)
    BY <1>1, <2>1 DEF KSteps
  <2>3. BlockedInsns(t) =
          [x \in 1 .. (TileRows(t) * TileCols(t)) * (2 + (3 * TileCols(t))) |->
             TileNo((x - 1) \div (2 + (3 * TileCols(t))))[1 + ((x - 1) % (2 + (3 * TileCols(t))))]]
    BY <2>1, <2>2, Zenon DEF BlockedInsns, Loop
  <2>4. (TileRows(t) * TileCols(t)) * (2 + (3 * TileCols(t))) = k
    <3>1. w \in Nat /\ TilesOf(c) \in Nat
      BY <1>1
    <3> HIDE DEF w
    <3>2. TilesOf(c) * w = w * TilesOf(c)
      BY <3>1
    <3> QED BY <1>1, <3>2 DEF w
  <2> HIDE DEF TileNo, k
  <2> QED BY <1>1, <2>3, <2>4
<1>3. Insns(t) = << UopLoad(t) >> \o body \o << FinishInsn >>
  <2> HIDE DEF body
  <2>1. Insns(t) = << UopLoad(t) >> \o BlockedInsns(t) \o << FinishInsn >>
    BY DEF Insns, UopLoad
  <2> QED BY <1>2, <2>1
<1>4. IsBody(body, k)
  BY DEF IsBody
<1>5. ASSUME NEW x \in 1 .. k
      PROVE  body[x] = InTile(t, (x - 1) \div w, 1 + ((x - 1) % w))
  <2>1. body[x] = TileNo((x - 1) \div w)[1 + ((x - 1) % w)]
    OBVIOUS
  <2>2. (x - 1) \div w \in Nat /\ 1 + ((x - 1) % w) \in 1 .. w
    <3>1. w \in Nat \ {0} /\ x - 1 \in Nat
      BY <1>1
    <3> HIDE DEF w
    <3>2. (x - 1) \div w \in Nat /\ (x - 1) % w \in 0 .. w - 1
      BY <3>1, DivMod
    <3> QED BY <3>1, <3>2
  <2> HIDE DEF TileNo, body
  <2>3. TileNo((x - 1) \div w)[1 + ((x - 1) % w)] = InTile(t, (x - 1) \div w, 1 + ((x - 1) % w))
    BY <2>2, BlockTileIs, Zenon DEF TileNo
  <2> QED BY <2>1, <2>3
<1> HIDE DEF body, TileNo
<1> QED BY <1>3, <1>4, <1>5, FramedTest

\* Every test, in closed form.
LEMMA TestStream ==
  ASSUME NEW t \in Tests, Asserts(t)
  PROVE  /\ Insns(t) = [p \in 1 .. Length(CallOf(t)) |-> InTest(t, p)]
         /\ Len(Insns(t)) = Length(CallOf(t)) /\ Length(CallOf(t)) \in Nat \ {0, 1}
<1>1. Insns(t) = [p \in 1 .. Length(CallOf(t)) |-> InTest(t, p)]
  <2>1. t.kind \in {"alu", "gemm", "blocked"}
    BY TestsAssumption
  <2> QED BY <2>1, AluTestStream, GemmTestStream, BlockedTestStream
<1>2. Length(CallOf(t)) \in Nat \ {0, 1}
  BY CallInBlocks, Widths
<1>3. Len(Insns(t)) = Length(CallOf(t))
  BY <1>1, <1>2
<1> QED BY <1>1, <1>2, <1>3

-----------------------------------------------------------------------------
(* The places of a stream                                                   *)

\* Where the accumulator is loaded, where part e of a step is, and the store.
AccPos(c, tile)        == TilePos(c, tile, 1)
PartPos(c, tile, n, e) == TilePos(c, tile, 2 + PerStep(c) * n + e)
OutPos(c, tile)        == TilePos(c, tile, Width(c))

LastPart(c) == PerStep(c) - 1
Tiles(c) == 0 .. TilesOf(c) - 1
Steps(c) == 0 .. StepsOf(c) - 1
Parts(c) == 0 .. LastPart(c)

\* There are no other places.
LEMMA Places ==
  ASSUME NEW c \in TestCalls, NEW p \in 1 .. Length(c)
  PROVE  \/ p = 1 \/ p = Length(c)
         \/ \E tile \in Tiles(c) : p = AccPos(c, tile)
         \/ \E tile \in Tiles(c), n \in Steps(c), e \in Parts(c) : p = PartPos(c, tile, n, e)
         \/ \E tile \in Tiles(c) : p = OutPos(c, tile)
<1> SUFFICES ASSUME p # 1, p # Length(c)
             PROVE  \/ \E tile \in Tiles(c) : p = AccPos(c, tile)
                    \/ \E tile \in Tiles(c), n \in Steps(c), e \in Parts(c) :
                         p = PartPos(c, tile, n, e)
                    \/ \E tile \in Tiles(c) : p = OutPos(c, tile)
  OBVIOUS
<1>1. p \in 2 .. Length(c) - 1
  <2>1. Length(c) \in Nat
    BY Widths
  <2> QED BY <2>1
<1>2. PICK tile \in Tiles(c), d \in 1 .. Width(c) : p = TilePos(c, tile, d)
  BY <1>1, TilePosCovers DEF Tiles
<1>3. \/ d = 1 \/ d = Width(c)
      \/ \E n \in Steps(c), e \in Parts(c) : d = 2 + PerStep(c) * n + e
  BY StepCovers DEF Steps, Parts, LastPart
<1> QED BY <1>2, <1>3 DEF AccPos, PartPos, OutPos

\* Which place is next.
LEMMA NextPlace ==
  ASSUME NEW c \in TestCalls, NEW tile \in Nat, NEW n \in Nat, NEW e \in Nat
  PROVE  /\ AccPos(c, 0) = 2 /\ AccPos(c, TilesOf(c)) = Length(c)
         /\ PartPos(c, tile, 0, 0) = AccPos(c, tile) + 1
         /\ PartPos(c, tile, n, e + 1) = PartPos(c, tile, n, e) + 1
         /\ PartPos(c, tile, n + 1, 0) = PartPos(c, tile, n, LastPart(c)) + 1
         /\ PartPos(c, tile, StepsOf(c), 0) = OutPos(c, tile)
         /\ AccPos(c, tile + 1) = OutPos(c, tile) + 1
<1> DEFINE w == Width(c)
           s == PerStep(c)
<1>1. /\ w \in Nat /\ s \in {1, 3} /\ StepsOf(c) \in Nat /\ TilesOf(c) \in Nat
      /\ w = 2 + s * StepsOf(c) /\ Length(c) = 2 + w * TilesOf(c)
  BY Sizes, Widths
<1>2. /\ AccPos(c, 0) = 1 + w * 0 + 1 /\ AccPos(c, TilesOf(c)) = 1 + w * TilesOf(c) + 1
      /\ AccPos(c, tile) = 1 + w * tile + 1 /\ AccPos(c, tile + 1) = 1 + w * (tile + 1) + 1
      /\ OutPos(c, tile) = 1 + w * tile + w
      /\ PartPos(c, tile, 0, 0) = 1 + w * tile + (2 + s * 0 + 0)
      /\ PartPos(c, tile, n, e) = 1 + w * tile + (2 + s * n + e)
      /\ PartPos(c, tile, n, e + 1) = 1 + w * tile + (2 + s * n + (e + 1))
      /\ PartPos(c, tile, n + 1, 0) = 1 + w * tile + (2 + s * (n + 1) + 0)
      /\ PartPos(c, tile, n, LastPart(c)) = 1 + w * tile + (2 + s * n + (s - 1))
      /\ PartPos(c, tile, StepsOf(c), 0) = 1 + w * tile + (2 + s * StepsOf(c) + 0)
  BY DEF AccPos, OutPos, PartPos, TilePos, LastPart
<1> HIDE DEF w, s
<1>3. /\ w * tile \in Nat /\ w * 0 = 0 /\ w * (tile + 1) = w * tile + w /\ w * TilesOf(c) \in Nat
      /\ s * n \in Nat /\ s * (n + 1) = s * n + s /\ s * 0 = 0 /\ s * StepsOf(c) \in Nat
  BY <1>1
<1>4. PICK W \in Nat, S \in Nat, A \in Nat, Z \in Nat :
        W = w * tile /\ S = s * n /\ A = s * StepsOf(c) /\ Z = w * TilesOf(c)
  BY <1>3
<1>5. s \in Nat /\ w \in Nat /\ w = 2 + A /\ Length(c) = 2 + Z
  BY <1>1, <1>4
<1>6. AccPos(c, 0) = 2 /\ AccPos(c, TilesOf(c)) = Length(c)
  BY <1>2, <1>3, <1>4, <1>5
<1>7. AccPos(c, tile) = 2 + W /\ OutPos(c, tile) = 1 + W + w /\ AccPos(c, tile + 1) = 2 + W + w
  <2>1. w * (tile + 1) = W + w
    BY <1>3, <1>4
  <2> QED BY <1>2, <1>4, <1>5, <2>1
<1>8. PartPos(c, tile, 0, 0) = 3 + W /\ PartPos(c, tile, StepsOf(c), 0) = 3 + W + A
  BY <1>2, <1>3, <1>4
<1>9. PartPos(c, tile, n, e) = 3 + W + S + e /\ PartPos(c, tile, n, e + 1) = 3 + W + S + e + 1
  BY <1>2, <1>4
<1>10. PartPos(c, tile, n + 1, 0) = 3 + W + S + s /\ PartPos(c, tile, n, LastPart(c)) = 2 + W + S + s
  <2>1. s * (n + 1) = S + s
    BY <1>3, <1>4
  <2> QED BY <1>2, <1>4, <1>5, <2>1
<1>11. PartPos(c, tile, 0, 0) = AccPos(c, tile) + 1 /\ AccPos(c, tile + 1) = OutPos(c, tile) + 1
  BY <1>5, <1>7, <1>8
<1>12. PartPos(c, tile, n, e + 1) = PartPos(c, tile, n, e) + 1
  BY <1>9
<1>13. PartPos(c, tile, n + 1, 0) = PartPos(c, tile, n, LastPart(c)) + 1
  BY <1>5, <1>10
<1>14. PartPos(c, tile, StepsOf(c), 0) = OutPos(c, tile)
  BY <1>5, <1>7, <1>8
<1> QED BY <1>6, <1>11, <1>12, <1>13, <1>14

\* What a place is called is where it is.
LEMMA PlaceBounds ==
  ASSUME NEW c \in TestCalls, NEW tile \in Tiles(c), NEW n \in Steps(c), NEW e \in Parts(c)
  PROVE  /\ {AccPos(c, tile), OutPos(c, tile), PartPos(c, tile, n, e)} \subseteq 2 .. Length(c) - 1
         /\ 2 + PerStep(c) * n + e \in 2 .. Width(c) - 1
         /\ tile \in Nat /\ n \in Nat /\ e \in Nat
         /\ OfTile(c, tile, 2 + PerStep(c) * n + e) = OfStep(c, tile, n, e)
<1>1. /\ TilesOf(c) \in Nat /\ StepsOf(c) \in Nat /\ PerStep(c) \in Nat
      /\ Width(c) \in Nat \ {0, 1, 2}
  BY Sizes, Widths
<1>2. /\ 2 + PerStep(c) * n + e \in 2 .. Width(c) - 1
      /\ OfTile(c, tile, 2 + PerStep(c) * n + e) = OfStep(c, tile, n, e)
  BY AtStep DEF Steps, Parts, LastPart
<1>3. 1 \in 1 .. Width(c) /\ Width(c) \in 1 .. Width(c)
  BY <1>1
<1> DEFINE d == 2 + PerStep(c) * n + e
<1>4. d \in 1 .. Width(c)
  <2>1. d \in 2 .. Width(c) - 1
    BY <1>2
  <2> HIDE DEF d
  <2> QED BY <1>1, <2>1
<1> HIDE DEF d
<1>5. /\ TilePos(c, tile, 1) \in 2 .. Length(c) - 1
      /\ TilePos(c, tile, Width(c)) \in 2 .. Length(c) - 1
      /\ TilePos(c, tile, d) \in 2 .. Length(c) - 1
  BY <1>3, <1>4, AtTilePos DEF Tiles
<1>6. tile \in Nat /\ n \in Nat /\ e \in Nat
  BY <1>1 DEF Tiles, Steps, Parts, LastPart
<1> QED BY <1>2, <1>5, <1>6 DEF AccPos, OutPos, PartPos, d

\* The instructions at these places, and the number of instructions.
LEMMA AtPlace ==
  ASSUME NEW t \in Tests, Asserts(t), NEW tile \in Tiles(CallOf(t)),
         NEW n \in Steps(CallOf(t)), NEW e \in Parts(CallOf(t))
  PROVE  LET c == CallOf(t) IN
         /\ Insns(t)[1] = UopLoad(t) /\ Insns(t)[Length(c)] = FinishInsn
         /\ Insns(t)[AccPos(c, tile)] = FirstOf(t, tile)
         /\ Insns(t)[PartPos(c, tile, n, e)] = StepsAt(t, tile, n)[1 + e]
         /\ Insns(t)[OutPos(c, tile)] = LastOf(t, tile)
<1> DEFINE c == CallOf(t)
           w == Width(c)
<1>1. /\ c \in TestCalls /\ Insns(t) = [p \in 1 .. Length(c) |-> InTest(t, p)]
      /\ Length(c) \in Nat \ {0, 1}
  BY CallInBlocks, TestStream
<1>2. ASSUME NEW d \in 1 .. w
      PROVE  Insns(t)[TilePos(c, tile, d)] = InTile(t, tile, d)
  <2> DEFINE p == TilePos(c, tile, d)
  <2>1. p \in 2 .. Length(c) - 1
    BY <1>1, AtTilePos DEF Tiles
  <2>2. (p - 2) \div w = tile /\ 1 + ((p - 2) % w) = d
    <3>1. w \in Nat \ {0, 1, 2} /\ tile \in Nat /\ d \in 1 .. w
      BY <1>1, Widths, PlaceBounds
    <3>2. p = 1 + w * tile + d
      BY DEF TilePos
    <3> HIDE DEF w, p
    <3>3. w * tile \in Nat
      BY <3>1
    <3>4. p - 2 = w * tile + (d - 1) /\ d - 1 \in 0 .. w - 1
      BY <3>1, <3>2, <3>3
    <3>5. (p - 2) \div w = tile /\ (p - 2) % w = d - 1
      BY <3>1, <3>4, Quotient
    <3> QED BY <3>1, <3>5
  <2> HIDE DEF p
  <2>3. p \in 1 .. Length(c) /\ p # 1 /\ p # Length(c)
    BY <1>1, <2>1
  <2>4. InTest(t, p) = InTile(t, tile, d)
    BY <2>2, <2>3 DEF InTest
  <2>5. Insns(t)[p] = InTest(t, p)
    BY <1>1, <2>3
  <2> QED BY <2>4, <2>5 DEF p
<1>3. w \in Nat \ {0, 1, 2} /\ PerStep(c) \in {1, 3}
  BY <1>1, Widths
<1>4. 1 \in 1 .. w /\ w \in 1 .. w /\ w # 1
  BY <1>3
<1>5. Insns(t)[1] = UopLoad(t) /\ Insns(t)[Length(c)] = FinishInsn
  BY <1>1 DEF InTest
<1>6. Insns(t)[AccPos(c, tile)] = FirstOf(t, tile)
  BY <1>2, <1>4 DEF AccPos, InTile
<1>7. Insns(t)[OutPos(c, tile)] = LastOf(t, tile)
  BY <1>2, <1>4 DEF OutPos, InTile
<1>8. Insns(t)[PartPos(c, tile, n, e)] = StepsAt(t, tile, n)[1 + e]
  <2> DEFINE s == PerStep(c)
             d == 2 + s * n + e
  <2>1. d \in 2 .. w - 1 /\ n \in Nat /\ e \in 0 .. s - 1 /\ s \in Nat \ {0}
    <3>1. d \in 2 .. w - 1 /\ n \in Nat
      BY <1>1, PlaceBounds
    <3>2. e \in 0 .. s - 1
      BY DEF Parts, LastPart
    <3> QED BY <1>3, <3>1, <3>2
  <2>2. d = 2 + s * n + e
    OBVIOUS
  <2>3. (d - 2) \div s = n /\ (d - 2) % s = e
    <3> HIDE DEF s, d
    <3>1. s * n \in Nat
      BY <2>1
    <3>2. d - 2 = s * n + e
      BY <2>1, <2>2, <3>1
    <3> QED BY <2>1, <3>2, Quotient
  <2> HIDE DEF d
  <2>4. d \in 1 .. w /\ d # 1 /\ d # w
    BY <1>3, <2>1
  <2>5. InTile(t, tile, d) = StepsAt(t, tile, n)[1 + e]
    BY <2>3, <2>4 DEF InTile
  <2>6. Insns(t)[TilePos(c, tile, d)] = InTile(t, tile, d)
    BY <1>2, <2>4
  <2> QED BY <2>5, <2>6 DEF d, PartPos
<1> QED BY <1>5, <1>6, <1>7, <1>8

\* The same places at block level.
LEMMA BlockAtPlace ==
  ASSUME NEW t \in Tests, Asserts(t), NEW tile \in Tiles(CallOf(t)),
         NEW n \in Steps(CallOf(t)), NEW e \in Parts(CallOf(t))
  PROVE  LET c == CallOf(t) IN
         /\ BlockTest(t).insns[1] = LoadUop /\ BlockTest(t).insns[Length(c)] = Finish
         /\ BlockTest(t).insns[AccPos(c, tile)] = AccInsn(c, tile)
         /\ BlockTest(t).insns[PartPos(c, tile, n, e)] = OfStep(c, tile, n, e)
         /\ BlockTest(t).insns[OutPos(c, tile)] = StoreInsn(c, tile)
<1> DEFINE c == CallOf(t)
           d == 2 + PerStep(c) * n + e
<1>1. c \in TestCalls /\ BlockTest(t).insns = [p \in 1 .. Length(c) |-> InsnAt(c, p)]
  BY CallInBlocks, Stream DEF BlockTest
<1>2. /\ Width(c) \in Nat \ {0, 1, 2} /\ Length(c) \in Nat \ {0, 1}
      /\ d \in 2 .. Width(c) - 1
  BY <1>1, Widths, PlaceBounds, TestStream
<1>3. OfTile(c, tile, d) = OfStep(c, tile, n, e)
  BY <1>1, PlaceBounds
<1> HIDE DEF d
<1>4. 1 \in 1 .. Width(c) /\ Width(c) \in 1 .. Width(c) /\ Width(c) # 1 /\ d \in 1 .. Width(c)
  BY <1>2
<1>5. ASSUME NEW x \in 1 .. Width(c)
      PROVE  BlockTest(t).insns[TilePos(c, tile, x)] = OfTile(c, tile, x)
  <2>1. TilePos(c, tile, x) \in 2 .. Length(c) - 1 /\ InsnAt(c, TilePos(c, tile, x)) = OfTile(c, tile, x)
    BY <1>1, AtTilePos DEF Tiles
  <2>2. TilePos(c, tile, x) \in 1 .. Length(c)
    BY <1>2, <2>1
  <2> QED BY <1>1, <2>1, <2>2
<1>6. BlockTest(t).insns[1] = LoadUop /\ BlockTest(t).insns[Length(c)] = Finish
  BY <1>1, <1>2 DEF InsnAt
<1>7. BlockTest(t).insns[AccPos(c, tile)] = AccInsn(c, tile)
  BY <1>4, <1>5 DEF AccPos, OfTile
<1>8. BlockTest(t).insns[OutPos(c, tile)] = StoreInsn(c, tile)
  BY <1>4, <1>5 DEF OutPos, OfTile
<1>9. BlockTest(t).insns[PartPos(c, tile, n, e)] = OfStep(c, tile, n, e)
  BY <1>3, <1>4, <1>5 DEF PartPos, d
<1> QED BY <1>6, <1>7, <1>8, <1>9

-----------------------------------------------------------------------------
(* What the instructions are                                                *)

\* Which memory each of them is for.
LEMMA Operations ==
  ASSUME NEW t \in Tests, Asserts(t), NEW tile, NEW n
  PROVE  /\ UopLoad(t).op = "LOAD" /\ UopLoad(t).memory = "UOP"
         /\ FinishInsn.op = "FINISH" /\ FinishInsn.memory = "NONE"
         /\ FirstOf(t, tile).op = "LOAD" /\ FirstOf(t, tile).memory = "ACC"
         /\ LastOf(t, tile).op = "STORE" /\ LastOf(t, tile).memory = "OUT"
         /\ t.kind = "alu" => /\ StepsAt(t, tile, n)[1].op = "ALU"
                              /\ StepsAt(t, tile, n)[1].memory = "NONE"
         /\ t.kind # "alu" => /\ StepsAt(t, tile, n)[1].op = "LOAD"
                              /\ StepsAt(t, tile, n)[1].memory = "WGT"
                              /\ StepsAt(t, tile, n)[2].op = "LOAD"
                              /\ StepsAt(t, tile, n)[2].memory = "INP"
                              /\ StepsAt(t, tile, n)[3].op = "GEMM"
                              /\ StepsAt(t, tile, n)[3].memory = "NONE"
<1>1. t.kind \in {"alu", "gemm", "blocked"}
  BY TestsAssumption
<1>2. \A op, memory, sram, base, y, x, stride :
        /\ Transfer2D(op, memory, sram, base, y, x, stride).op = op
        /\ Transfer2D(op, memory, sram, base, y, x, stride).memory = memory
  BY DEF Transfer2D
<1>3. \A op, memory, size :
        Transfer1D(op, memory, size).op = op /\ Transfer1D(op, memory, size).memory = memory
  BY DEF Transfer1D, Transfer2D
<1>4. UopLoad(t).op = "LOAD" /\ UopLoad(t).memory = "UOP"
  BY <1>3 DEF UopLoad
<1>5. FirstOf(t, tile).op = "LOAD" /\ FirstOf(t, tile).memory = "ACC"
  <2>1. CASE t.kind = "blocked"
    BY <1>2, <2>1 DEF FirstOf
  <2>2. CASE t.kind = "gemm"
    BY <1>3, <2>2 DEF FirstOf
  <2>3. CASE t.kind = "alu"
    BY <1>2, <2>3 DEF FirstOf
  <2> QED BY <1>1, <2>1, <2>2, <2>3
<1>6. LastOf(t, tile).op = "STORE" /\ LastOf(t, tile).memory = "OUT"
  <2>1. CASE t.kind = "blocked"
    BY <1>2, <2>1 DEF LastOf
  <2>2. CASE t.kind = "gemm"
    BY <1>3, <2>2 DEF LastOf
  <2>3. CASE t.kind = "alu"
    BY <1>2, <2>3 DEF LastOf
  <2> QED BY <1>1, <2>1, <2>2, <2>3
<1>7. \A bgn : GemmInsn(t, bgn).op = "GEMM" /\ GemmInsn(t, bgn).memory = "NONE"
  BY DEF GemmInsn, Loops
<1>8. \A row : AluInsn(t, row).op = "ALU" /\ AluInsn(t, row).memory = "NONE"
  BY DEF AluInsn, Loops
<1>9. t.kind = "alu" => StepsAt(t, tile, n)[1] = AluInsn(t, tile)
  BY DEF StepsAt
<1>10. t.kind = "gemm" =>
         /\ StepsAt(t, tile, n)[1] = Transfer1D("LOAD", "WGT", InW(t) * OutW(t))
         /\ StepsAt(t, tile, n)[2] = Transfer1D("LOAD", "INP", Rows(t) * InW(t))
         /\ StepsAt(t, tile, n)[3] = GemmInsn(t, 0)
  BY DEF StepsAt
<1>11. \A i, j, kl :
         /\ BlockStep(t, i, j, kl)[1].op = "LOAD" /\ BlockStep(t, i, j, kl)[1].memory = "WGT"
         /\ BlockStep(t, i, j, kl)[2].op = "LOAD" /\ BlockStep(t, i, j, kl)[2].memory = "INP"
         /\ BlockStep(t, i, j, kl)[3].op = "GEMM" /\ BlockStep(t, i, j, kl)[3].memory = "NONE"
  <2> TAKE i, j, kl
  <2>1. /\ \E a, b, y, x, s : BlockStep(t, i, j, kl)[1] = Transfer2D("LOAD", "WGT", a, b, y, x, s)
        /\ \E a, b, y, x, s : BlockStep(t, i, j, kl)[2] = Transfer2D("LOAD", "INP", a, b, y, x, s)
        /\ \E bgn : BlockStep(t, i, j, kl)[3] = GemmInsn(t, bgn)
    BY DEF BlockStep
  <2> QED BY <1>2, <1>7, <2>1
<1>12. t.kind = "blocked" => \E i, j, kl : StepsAt(t, tile, n) = BlockStep(t, i, j, kl)
  BY Zenon DEF StepsAt
<1>13. FinishInsn.op = "FINISH" /\ FinishInsn.memory = "NONE"
  BY DEF FinishInsn
<1>14. t.kind = "alu" => /\ StepsAt(t, tile, n)[1].op = "ALU"
                         /\ StepsAt(t, tile, n)[1].memory = "NONE"
  BY <1>8, <1>9
<1>15. t.kind = "gemm" => /\ StepsAt(t, tile, n)[1].op = "LOAD"
                          /\ StepsAt(t, tile, n)[1].memory = "WGT"
                          /\ StepsAt(t, tile, n)[2].op = "LOAD"
                          /\ StepsAt(t, tile, n)[2].memory = "INP"
                          /\ StepsAt(t, tile, n)[3].op = "GEMM"
                          /\ StepsAt(t, tile, n)[3].memory = "NONE"
  <2> SUFFICES ASSUME t.kind = "gemm"
               PROVE  /\ StepsAt(t, tile, n)[1].op = "LOAD"
                      /\ StepsAt(t, tile, n)[1].memory = "WGT"
                      /\ StepsAt(t, tile, n)[2].op = "LOAD"
                      /\ StepsAt(t, tile, n)[2].memory = "INP"
                      /\ StepsAt(t, tile, n)[3].op = "GEMM"
                      /\ StepsAt(t, tile, n)[3].memory = "NONE"
    OBVIOUS
  <2>1. StepsAt(t, tile, n)[1].op = "LOAD" /\ StepsAt(t, tile, n)[1].memory = "WGT"
    BY <1>3, <1>10
  <2>2. StepsAt(t, tile, n)[2].op = "LOAD" /\ StepsAt(t, tile, n)[2].memory = "INP"
    BY <1>3, <1>10
  <2>3. StepsAt(t, tile, n)[3].op = "GEMM" /\ StepsAt(t, tile, n)[3].memory = "NONE"
    BY <1>7, <1>10
  <2> QED BY <2>1, <2>2, <2>3
<1>16. t.kind = "blocked" => /\ StepsAt(t, tile, n)[1].op = "LOAD"
                             /\ StepsAt(t, tile, n)[1].memory = "WGT"
                             /\ StepsAt(t, tile, n)[2].op = "LOAD"
                             /\ StepsAt(t, tile, n)[2].memory = "INP"
                             /\ StepsAt(t, tile, n)[3].op = "GEMM"
                             /\ StepsAt(t, tile, n)[3].memory = "NONE"
  BY <1>11, <1>12, Zenon
<1> QED BY <1>1, <1>4, <1>5, <1>6, <1>13, <1>14, <1>15, <1>16, Zenon

\* How many parts a step has.
LEMMA PartsOf ==
  ASSUME NEW t \in Tests, Asserts(t)
  PROVE  LET c == CallOf(t) IN
         /\ t.kind = "alu" => LastPart(c) = 0 /\ Steps(c) = {0} /\ Parts(c) = {0}
         /\ t.kind # "alu" => LastPart(c) = 2 /\ Parts(c) = {0, 1, 2}
         /\ 0 \in Tiles(c) /\ 0 \in Steps(c) /\ 0 \in Parts(c)
         /\ StepsOf(c) - 1 \in Steps(c) /\ LastPart(c) \in Parts(c) /\ LastPart(c) \in Nat
<1> DEFINE c == CallOf(t)
<1>1. c \in TestCalls /\ TilesOf(c) \in Nat \ {0} /\ StepsOf(c) \in Nat \ {0}
  BY CallInBlocks, Sizes
<1>2. t.kind = "alu" => SlotsOf(c) = 0 /\ StepsOf(c) = 1
  BY CallInBlocks
<1>3. t.kind # "alu" => SlotsOf(c) # 0
  BY CallInBlocks
<1> HIDE DEF c
<1>4. (t.kind = "alu" => PerStep(c) = 1) /\ (t.kind # "alu" => PerStep(c) = 3)
  BY <1>2, <1>3 DEF PerStep
<1> QED BY <1>1, <1>2, <1>4 DEF LastPart, Steps, Parts, Tiles, c

\* Two instructions in a row are for different memories, or one of them has none.
LEMMA Neighbours ==
  ASSUME NEW t \in Tests, Asserts(t), NEW p \in 1 .. Length(CallOf(t)) - 1
  PROVE  Insns(t)[p] # Insns(t)[p + 1]
<1> DEFINE c == CallOf(t)
           Differ(a, b) == a.op # b.op \/ a.memory # b.memory
<1> SUFFICES Differ(Insns(t)[p], Insns(t)[p + 1])
  OBVIOUS
<1>1. c \in TestCalls /\ Length(c) \in Nat \ {0, 1} /\ p \in 1 .. Length(c) /\ p # Length(c)
  BY CallInBlocks, TestStream
<1>2. 0 \in Tiles(c) /\ 0 \in Steps(c) /\ 0 \in Parts(c) /\ LastPart(c) \in Parts(c)
  BY PartsOf
<1>3. CASE p = 1
  <2>1. p + 1 = AccPos(c, 0)
    BY <1>1, <1>3, NextPlace
  <2>2. Insns(t)[p] = UopLoad(t) /\ Insns(t)[p + 1] = FirstOf(t, 0)
    BY <1>2, <1>3, <2>1, AtPlace
  <2> QED BY <2>2, Operations
<1>4. ASSUME NEW tile \in Tiles(c), p = AccPos(c, tile)
      PROVE  Differ(Insns(t)[p], Insns(t)[p + 1])
  <2>1. p + 1 = PartPos(c, tile, 0, 0)
    BY <1>1, <1>2, <1>4, PlaceBounds, NextPlace
  <2>2. Insns(t)[p] = FirstOf(t, tile) /\ Insns(t)[p + 1] = StepsAt(t, tile, 0)[1 + 0]
    BY <1>2, <1>4, <2>1, AtPlace
  <2> QED BY <2>2, Operations
<1>5. ASSUME NEW tile \in Tiles(c), NEW n \in Steps(c), NEW e \in Parts(c),
             p = PartPos(c, tile, n, e)
      PROVE  Differ(Insns(t)[p], Insns(t)[p + 1])
  <2>1. Insns(t)[p] = StepsAt(t, tile, n)[1 + e]
    BY <1>5, AtPlace
  <2>2. /\ tile \in Nat /\ n \in Nat /\ e \in Nat /\ StepsOf(c) \in Nat
        /\ n < StepsOf(c)
    BY <1>1, PlaceBounds, Sizes DEF Steps
  <2>3. CASE e = LastPart(c)
    <3>1. Insns(t)[p].op \in {"ALU", "GEMM"}
      BY <2>1, <2>3, Operations, PartsOf
    <3>2. CASE n + 1 = StepsOf(c)
      <4>1. p + 1 = OutPos(c, tile)
        <5>1. p + 1 = PartPos(c, tile, n + 1, 0)
          BY <1>1, <1>5, <2>2, <2>3, NextPlace
        <5> QED BY <1>1, <2>2, <3>2, <5>1, NextPlace
      <4>2. Insns(t)[p + 1].op = "STORE"
        BY <4>1, AtPlace, Operations
      <4> QED BY <3>1, <4>2
    <3>3. CASE n + 1 # StepsOf(c)
      <4>1. p + 1 = PartPos(c, tile, n + 1, 0) /\ n + 1 \in Steps(c)
        <5>1. p + 1 = PartPos(c, tile, n + 1, 0)
          BY <1>1, <1>5, <2>2, <2>3, NextPlace
        <5> QED BY <2>2, <3>3, <5>1 DEF Steps
      <4>2. t.kind # "alu"
        BY <1>1, <2>2, <3>3, PartsOf, CallInBlocks
      <4>3. Insns(t)[p + 1] = StepsAt(t, tile, n + 1)[1 + 0]
        BY <1>2, <4>1, AtPlace
      <4> QED BY <3>1, <4>2, <4>3, Operations
    <3> QED BY <3>2, <3>3
  <2>4. CASE e # LastPart(c)
    <3>1. t.kind # "alu" /\ e \in {0, 1} /\ e + 1 \in Parts(c)
      BY <2>4, PartsOf
    <3>2. p + 1 = PartPos(c, tile, n, e + 1)
      BY <1>1, <1>5, <2>2, NextPlace
    <3>3. Insns(t)[p + 1] = StepsAt(t, tile, n)[1 + (e + 1)]
      BY <3>1, <3>2, AtPlace
    <3>4. CASE e = 0
      BY <2>1, <3>1, <3>3, <3>4, Operations
    <3>5. CASE e = 1
      BY <2>1, <3>1, <3>3, <3>5, Operations
    <3> QED BY <3>1, <3>4, <3>5
  <2> QED BY <2>3, <2>4
<1>6. ASSUME NEW tile \in Tiles(c), p = OutPos(c, tile)
      PROVE  Differ(Insns(t)[p], Insns(t)[p + 1])
  <2>1. tile \in Nat /\ TilesOf(c) \in Nat /\ tile < TilesOf(c)
    BY <1>1, <1>2, PlaceBounds, Sizes DEF Tiles
  <2>2. Insns(t)[p].op = "STORE"
    BY <1>2, <1>6, AtPlace, Operations
  <2>3. p + 1 = AccPos(c, tile + 1)
    BY <1>1, <1>6, <2>1, NextPlace
  <2>4. CASE tile + 1 = TilesOf(c)
    <3>1. p + 1 = Length(c)
      BY <1>1, <2>1, <2>3, <2>4, NextPlace
    <3>2. Insns(t)[p + 1].op = "FINISH"
      BY <1>2, <3>1, AtPlace, Operations
    <3> QED BY <2>2, <3>2
  <2>5. CASE tile + 1 # TilesOf(c)
    <3>1. tile + 1 \in Tiles(c)
      BY <2>1, <2>5 DEF Tiles
    <3>2. Insns(t)[p + 1].op = "LOAD"
      BY <1>2, <2>3, <3>1, AtPlace, Operations
    <3> QED BY <2>2, <3>2
  <2> QED BY <2>4, <2>5
<1> HIDE DEF Differ
<1> QED BY <1>1, <1>3, <1>4, <1>5, <1>6, Places

-----------------------------------------------------------------------------
(* The elements that a transfer moves                                       *)

\* The slots of block number "slot" of a buffer, with a block of h x w elements of
\* a matrix of the given width that starts at element "base".
BlockSlots(slot, h, w) == slot * (h * w) .. ((slot + 1) * (h * w)) - 1
Region(slot, h, w, base, width) ==
  [s \in BlockSlots(slot, h, w) |->
     base + (((s - (slot * (h * w))) \div w) * width) + ((s - (slot * (h * w))) % w)]

\* A 2D transfer moves such a block.
LEMMA ElementsOf2D ==
  ASSUME NEW i, NEW slot \in Nat, i.y \in Nat, i.x \in Nat, i.sram = slot * (i.y * i.x)
  PROVE  Elements(i) = Region(slot, i.y, i.x, i.dram, i.stride)
<1> DEFINE h == i.y
           w == i.x
           z == slot * (h * w)
<1>1. h \in Nat /\ w \in Nat /\ i.sram = z
  OBVIOUS
<1>2. z + (h * w) - 1 = ((slot + 1) * (h * w)) - 1
  <2> HIDE DEF h, w
  <2>1. PICK k \in Nat : k = h * w
    BY <1>1
  <2>2. (slot + 1) * k = slot * k + k /\ slot * k \in Nat
    BY <2>1
  <2> QED BY <2>1, <2>2
<1>3. Elements(i)
        = [s \in z .. z + (h * w) - 1 |-> i.dram + (((s - z) \div w) * i.stride) + ((s - z) % w)]
  BY <1>1 DEF Elements
<1> QED BY <1>2, <1>3 DEF Region, BlockSlots

\* So does a 1D transfer of a matrix of blocks.
LEMMA ElementsOf1D ==
  ASSUME NEW op, NEW memory, NEW h \in Nat \ {0}, NEW w \in Nat \ {0}
  PROVE  Elements(Transfer1D(op, memory, h * w)) = Region(0, h, w, 0, w)
<1> DEFINE i == Transfer1D(op, memory, h * w)
<1>1. PICK k \in Nat \ {0} : k = h * w
  OBVIOUS
<1>2. i.sram = 0 /\ i.dram = 0 /\ i.y = 1 /\ i.x = k /\ i.stride = k
  BY <1>1 DEF Transfer1D, Transfer2D
<1>3. Elements(i) = [s \in 0 .. 0 + (1 * k) - 1 |-> 0 + (((s - 0) \div k) * k) + ((s - 0) % k)]
  BY <1>2 DEF Elements
<1> HIDE DEF i
<1>4. 0 + (1 * k) - 1 = k - 1 /\ 0 * k = 0 /\ (0 + 1) * k = k
  BY <1>1
<1>5. ASSUME NEW s \in 0 .. k - 1
      PROVE  /\ 0 + (((s - 0) \div k) * k) + ((s - 0) % k) = s
             /\ 0 + (((s - 0) \div w) * w) + ((s - 0) % w) = s
  <2>1. s \in Nat /\ s - 0 = s
    OBVIOUS
  <2>2. /\ s \div k \in Nat /\ s % k \in Nat /\ s = k * (s \div k) + (s % k)
        /\ s \div w \in Nat /\ s % w \in Nat /\ s = w * (s \div w) + (s % w)
    BY <2>1, DivMod
  <2> DEFINE p == s \div k
             q == s % k
             a == s \div w
             b == s % w
  <2> HIDE DEF p, q, a, b
  <2>3. /\ p \in Nat /\ q \in Nat /\ s = k * p + q
        /\ a \in Nat /\ b \in Nat /\ s = w * a + b
    BY <2>2 DEF p, q, a, b
  <2>4. 0 + (p * k) + q = s /\ 0 + (a * w) + b = s
    <3>1. k * p = p * k /\ p * k \in Nat /\ w * a = a * w /\ a * w \in Nat
      BY <2>3
    <3> QED BY <2>3, <3>1
  <2> QED BY <2>1, <2>4 DEF p, q, a, b
<1>6. Elements(i) = [s \in 0 .. k - 1 |-> s]
  BY <1>3, <1>4, <1>5
<1>7. Region(0, h, w, 0, w) = [s \in 0 .. k - 1 |-> s]
  <2>1. Region(0, h, w, 0, w) = [s \in 0 .. k - 1 |->  0 + (((s - 0) \div w) * w) + ((s - 0) % w)]
    BY <1>1, <1>4 DEF Region, BlockSlots
  <2> QED BY <1>5, <2>1
<1> QED BY <1>6, <1>7 DEF i

\* The matrix rows and columns of a tile, in blocks.
TileRow(t, tile) == tile \div TileCols(t)
TileCol(t, tile) == tile % TileCols(t)

\* Where the blocks of a tile and of a step start.
OutBase(t, tile)    == ((TileRow(t, tile) * BRows(t)) * OutW(t)) + (TileCol(t, tile) * BOut(t))
WgtBase(t, tile, n) == ((TileCol(t, tile) * BOut(t)) * InW(t)) + (n * BIn(t))
InpBase(t, tile, n) == ((TileRow(t, tile) * BRows(t)) * InW(t)) + (n * BIn(t))

\* The sizes in scalars that the addresses are computed with.
LEMMA BlockSizes ==
  ASSUME NEW t \in Tests, Asserts(t), t.kind = "blocked"
  PROVE  /\ VTA_BATCH \in Nat \ {0} /\ VTA_BLOCK_IN \in Nat \ {0} /\ VTA_BLOCK_OUT \in Nat \ {0}
         /\ t.block \in Nat \ {0} /\ t.vt \in {1, 2}
         /\ t.block = VTA_BATCH * BRows(t) /\ t.block = VTA_BLOCK_IN * BIn(t)
         /\ t.block = VTA_BLOCK_OUT * BOut(t)
         /\ t.in = VTA_BLOCK_IN * InW(t) /\ t.in = VTA_BLOCK_OUT * OutW(t) /\ t.out = t.in
<1>1. /\ VTA_BATCH \in Nat \ {0} /\ VTA_BLOCK_IN \in Nat \ {0} /\ VTA_BLOCK_OUT \in Nat \ {0}
      /\ t.block \in Nat \ {0} /\ t.vt \in {1, 2}
      /\ t.block % VTA_BATCH = 0 /\ t.block % VTA_BLOCK_IN = 0 /\ t.block % VTA_BLOCK_OUT = 0
      /\ t.in = t.out /\ t.in \in Nat /\ t.out \in Nat
      /\ t.in % VTA_BLOCK_IN = 0 /\ t.out % VTA_BLOCK_OUT = 0
  BY GeometryAssumption, TestsAssumption DEF Asserts
<1>2. t.block \in Nat
  BY <1>1
<1>3. /\ t.block = VTA_BATCH * (t.block \div VTA_BATCH)
      /\ t.block = VTA_BLOCK_IN * (t.block \div VTA_BLOCK_IN)
      /\ t.block = VTA_BLOCK_OUT * (t.block \div VTA_BLOCK_OUT)
  BY <1>1, <1>2, Divided, Zenon
<1>4. /\ t.in = VTA_BLOCK_IN * (t.in \div VTA_BLOCK_IN)
      /\ t.out = VTA_BLOCK_OUT * (t.out \div VTA_BLOCK_OUT)
  BY <1>1, Divided, Zenon
<1>5. /\ BRows(t) = t.block \div VTA_BATCH /\ BIn(t) = t.block \div VTA_BLOCK_IN
      /\ BOut(t) = t.block \div VTA_BLOCK_OUT
      /\ InW(t) = t.in \div VTA_BLOCK_IN /\ OutW(t) = t.out \div VTA_BLOCK_OUT
  BY DEF BRows, BIn, BOut, InW, OutW
<1> QED BY <1>1, <1>3, <1>4, <1>5

\* The micro-ops of one virtual thread.
HalfUops(t) == IF t.comp THEN BRows(t) ELSE BRows(t) * BIn(t) * BOut(t)

\* The first row of a block, in elements, and an element of that row.
LEMMA BlockRow ==
  ASSUME NEW t \in Tests, Asserts(t), t.kind = "blocked", NEW a \in Nat
  PROVE  (a * t.block) \div VTA_BATCH = a * BRows(t) /\ (a * t.block) \div VTA_BLOCK_OUT = a * BOut(t)
<1>1. PICK R \in Nat \ {0}, O \in Nat \ {0}, B \in Nat \ {0}, h \in Nat \ {0}, q \in Nat \ {0} :
        R = VTA_BATCH /\ O = VTA_BLOCK_OUT /\ B = t.block /\ h = BRows(t) /\ q = BOut(t)
  BY BlockSizes, Dimensions
<1>2. B = R * h /\ B = O * q
  BY <1>1, BlockSizes
<1>3. a * B = R * (a * h) /\ a * h \in Nat /\ a * B = O * (a * q) /\ a * q \in Nat
  BY <1>2
<1>4. (a * B) \div R = a * h
  BY <1>3, Scaled, Zenon
<1>5. (a * B) \div O = a * q
  BY <1>3, Scaled, Zenon
<1> QED BY <1>1, <1>4, <1>5

LEMMA RowAddress ==
  ASSUME NEW t \in Tests, Asserts(t), t.kind = "blocked", NEW k \in Nat, NEW n \in Nat
  PROVE  ((k * t.in) + (n * t.block)) \div VTA_BLOCK_IN = (k * InW(t)) + (n * BIn(t))
<1>1. PICK I \in Nat \ {0}, B \in Nat \ {0}, p \in Nat \ {0}, W \in Nat \ {0} :
        I = VTA_BLOCK_IN /\ B = t.block /\ p = BIn(t) /\ W = InW(t)
  BY BlockSizes, Dimensions
<1>2. B = I * p /\ t.in = I * W
  BY <1>1, BlockSizes
<1>3. k * t.in = I * (k * W) /\ n * B = I * (n * p)
  BY <1>2
<1>4. PICK y \in Nat, z \in Nat : y = k * W /\ z = n * p
  OBVIOUS
<1>5. (k * t.in) + (n * B) = I * (y + z) /\ y + z \in Nat
  BY <1>3, <1>4
<1>6. ((k * t.in) + (n * B)) \div I = y + z
  BY <1>5, Scaled, Zenon
<1> QED BY <1>1, <1>4, <1>6

\* The addresses of blocked_gemm_test, freed of their divisions.
LEMMA OutAddress ==
  ASSUME NEW t \in Tests, Asserts(t), t.kind = "blocked", NEW a \in Nat, NEW b \in Nat
  PROVE  (((((a * t.block) \div VTA_BATCH) * t.out) + (b * t.block)) \div VTA_BLOCK_OUT)
           = ((a * BRows(t)) * OutW(t)) + (b * BOut(t))
<1>1. PICK O \in Nat \ {0}, B \in Nat \ {0}, h \in Nat \ {0}, q \in Nat \ {0}, U \in Nat \ {0} :
        O = VTA_BLOCK_OUT /\ B = t.block /\ h = BRows(t) /\ q = BOut(t) /\ U = OutW(t)
  BY BlockSizes, Dimensions, CallInBlocks
<1>2. B = O * q /\ t.out = O * U
  BY <1>1, BlockSizes
<1>3. (a * h) * t.out = O * ((a * h) * U) /\ b * B = O * (b * q)
  BY <1>2
<1>4. PICK y \in Nat, z \in Nat : y = (a * h) * U /\ z = b * q
  OBVIOUS
<1>5. ((a * h) * t.out) + (b * B) = O * (y + z) /\ y + z \in Nat
  BY <1>3, <1>4
<1>6. (((a * h) * t.out) + (b * B)) \div O = y + z
  BY <1>5, Scaled, Zenon
<1>7. (a * t.block) \div VTA_BATCH = a * h
  BY <1>1, BlockRow
<1> QED BY <1>1, <1>4, <1>6, <1>7

LEMMA Addresses ==
  ASSUME NEW t \in Tests, Asserts(t), t.kind = "blocked", NEW n \in Nat
  PROVE  LET x == n % t.vt
             l == (n * t.block) % (t.block * t.vt)
         IN
         /\ x \in Nat
         /\ ((l \div VTA_BLOCK_IN) * t.block) \div VTA_BLOCK_OUT = x * (BOut(t) * BIn(t))
         /\ ((l \div VTA_BLOCK_IN) * t.block) \div VTA_BATCH = x * (BRows(t) * BIn(t))
         /\ ((l \div t.block) * UopSize(t)) \div t.vt = x * HalfUops(t)
<1> DEFINE x == n % t.vt
           l == (n * t.block) % (t.block * t.vt)
<1>1. PICK R \in Nat \ {0}, I \in Nat \ {0}, O \in Nat \ {0}, B \in Nat \ {0}, v \in {1, 2} :
        R = VTA_BATCH /\ I = VTA_BLOCK_IN /\ O = VTA_BLOCK_OUT /\ B = t.block /\ v = t.vt
  BY BlockSizes
<1>2. PICK h \in Nat \ {0}, p \in Nat \ {0}, q \in Nat \ {0} :
        h = BRows(t) /\ p = BIn(t) /\ q = BOut(t)
  BY Dimensions
<1>3. B = R * h /\ B = I * p /\ B = O * q
  BY <1>1, <1>2, BlockSizes
<1>4. x \in 0 .. v - 1 /\ n \div v \in Nat /\ n = v * (n \div v) + x
  <2>1. v \in Nat \ {0} /\ n % v = x
    BY <1>1
  <2> HIDE DEF x
  <2>2. n \div v \in Nat /\ n % v \in 0 .. v - 1 /\ n = v * (n \div v) + (n % v)
    BY <2>1, DivMod, Zenon
  <2> QED BY <2>1, <2>2
<1>5. l = B * x
  <2>1. PICK y \in Nat : y = n \div v
    BY <1>4
  <2>2. B * v \in Nat \ {0} /\ B * x \in 0 .. (B * v) - 1
    <3> HIDE DEF x
    <3>1. CASE v = 1
      BY <1>4, <3>1
    <3>2. CASE v = 2
      <4>1. x = 0 \/ x = 1
        BY <1>4, <3>2
      <4> QED BY <3>2, <4>1
    <3> QED BY <3>1, <3>2
  <2>3. n * B = (B * v) * y + B * x
    <3>1. n = v * y + x /\ x \in Nat
      BY <1>4, <2>1
    <3> HIDE DEF x
    <3> QED BY <3>1
  <2> DEFINE d == B * v
             r == B * x
  <2>4. l = (d * y + r) % d
    BY <1>1, <2>3
  <2>5. d \in Nat \ {0} /\ r \in 0 .. d - 1
    BY <2>2
  <2> HIDE DEF l, d, r
  <2>6. (d * y + r) % d = r
    BY <2>5, Quotient
  <2> QED BY <2>4, <2>6 DEF r
<1>6. x \in Nat
  BY <1>4
<1> HIDE DEF x, l
<1>7. l \div I = p * x /\ l \div B = x
  <2>1. l = I * (p * x) /\ p * x \in Nat
    BY <1>3, <1>5, <1>6
  <2> QED BY <1>5, <1>6, <2>1, Exact
<1>8. ((p * x) * B) \div O = x * (q * p) /\ ((p * x) * B) \div R = x * (h * p)
  <2>1. (p * x) * B = O * (x * (q * p)) /\ x * (q * p) \in Nat
    BY <1>3, <1>6
  <2>2. (p * x) * B = R * (x * (h * p)) /\ x * (h * p) \in Nat
    BY <1>3, <1>6
  <2>3. ((p * x) * B) \div O = x * (q * p)
    BY <2>1, Scaled, Zenon
  <2>4. ((p * x) * B) \div R = x * (h * p)
    BY <2>2, Scaled, Zenon
  <2> QED BY <2>3, <2>4
<1>9. (x * UopSize(t)) \div v = x * HalfUops(t)
  <2>1. PICK u \in Nat : u = HalfUops(t)
    BY <1>2 DEF HalfUops
  <2>2. UopSize(t) = u * v
    BY <1>1, <2>1 DEF UopSize, HalfUops
  <2>3. x * UopSize(t) = v * (x * u) /\ x * u \in Nat
    BY <1>6, <2>1, <2>2
  <2> QED BY <2>1, <2>3, Exact
<1>10. /\ ((l \div VTA_BLOCK_IN) * t.block) \div VTA_BLOCK_OUT = x * (BOut(t) * BIn(t))
       /\ ((l \div VTA_BLOCK_IN) * t.block) \div VTA_BATCH = x * (BRows(t) * BIn(t))
  BY <1>1, <1>2, <1>7, <1>8
<1>11. ((l \div t.block) * UopSize(t)) \div t.vt = x * HalfUops(t)
  BY <1>1, <1>7, <1>9
<1> QED BY <1>6, <1>10, <1>11 DEF x, l

\* What the transfers of a GEMM test move, and where its GEMMs find their micro-ops.
LEMMA GemmRegions ==
  ASSUME NEW t \in Tests, Asserts(t), t.kind # "alu",
         NEW tile \in Tiles(CallOf(t)), NEW n \in Steps(CallOf(t))
  PROVE  LET x == n % t.vt IN
         /\ x \in 0 .. t.vt - 1
         /\ Elements(FirstOf(t, tile)) = Region(0, BRows(t), BOut(t), OutBase(t, tile), OutW(t))
         /\ Elements(LastOf(t, tile)) = Region(0, BRows(t), BOut(t), OutBase(t, tile), OutW(t))
         /\ Elements(StepsAt(t, tile, n)[1])
              = Region(x, BOut(t), BIn(t), WgtBase(t, tile, n), InW(t))
         /\ Elements(StepsAt(t, tile, n)[2])
              = Region(x, BRows(t), BIn(t), InpBase(t, tile, n), InW(t))
         /\ StepsAt(t, tile, n)[3] = GemmInsn(t, x * HalfUops(t))
<1> DEFINE c == CallOf(t)
           x == n % t.vt
<1>1. /\ BRows(t) \in Nat \ {0} /\ BIn(t) \in Nat \ {0} /\ BOut(t) \in Nat \ {0}
      /\ HalfUops(t) \in Nat
  BY Dimensions DEF HalfUops
<1>2. /\ c \in TestCalls /\ TilesOf(c) = TileRows(t) * TileCols(t) /\ StepsOf(c) = TileCols(t)
      /\ TileCols(t) \in Nat \ {0} /\ TileRows(t) \in Nat \ {0} /\ t.vt \in {1, 2}
  BY CallInBlocks
<1>3. tile \in Nat /\ n \in Nat
  BY <1>2 DEF Tiles, Steps
<1>4. x \in 0 .. t.vt - 1 /\ x \in Nat
  BY <1>2, <1>3
<1>5. CASE t.kind = "gemm"
  <2>1. TileCols(t) = 1 /\ TileRows(t) = 1 /\ t.vt = 1
    BY <1>5, TestsAssumption DEF TileCols, TileRows
  <2>2. tile = 0 /\ n = 0 /\ x = 0
    BY <1>2, <1>4, <2>1 DEF Tiles, Steps
  <2>3. TileRow(t, tile) = 0 /\ TileCol(t, tile) = 0
    BY <2>1, <2>2 DEF TileRow, TileCol
  <2>4. BRows(t) = Rows(t) /\ BIn(t) = InW(t) /\ BOut(t) = OutW(t)
    BY <1>5 DEF BRows, BIn, BOut
  <2>5. OutBase(t, tile) = 0 /\ WgtBase(t, tile, n) = 0 /\ InpBase(t, tile, n) = 0
    BY <1>1, <2>2, <2>3, <2>4 DEF OutBase, WgtBase, InpBase
  <2>6. /\ FirstOf(t, tile) = Transfer1D("LOAD", "ACC", BRows(t) * BOut(t))
        /\ LastOf(t, tile) = Transfer1D("STORE", "OUT", BRows(t) * BOut(t))
    BY <1>5, <2>4 DEF FirstOf, LastOf
  <2>7. /\ StepsAt(t, tile, n)[1] = Transfer1D("LOAD", "WGT", BOut(t) * BIn(t))
        /\ StepsAt(t, tile, n)[2] = Transfer1D("LOAD", "INP", BRows(t) * BIn(t))
        /\ StepsAt(t, tile, n)[3] = GemmInsn(t, 0)
    <3>1. InW(t) * OutW(t) = BOut(t) * BIn(t)
      BY <1>1, <2>4
    <3> QED BY <1>5, <2>4, <3>1 DEF StepsAt
  <2>8. x * HalfUops(t) = 0
    BY <1>1, <2>2
  <2>9. /\ Elements(FirstOf(t, tile)) = Region(0, BRows(t), BOut(t), 0, BOut(t))
        /\ Elements(LastOf(t, tile)) = Region(0, BRows(t), BOut(t), 0, BOut(t))
        /\ Elements(StepsAt(t, tile, n)[1]) = Region(0, BOut(t), BIn(t), 0, BIn(t))
        /\ Elements(StepsAt(t, tile, n)[2]) = Region(0, BRows(t), BIn(t), 0, BIn(t))
    <3>1. \A op, memory :
            /\ Elements(Transfer1D(op, memory, BRows(t) * BOut(t)))
                 = Region(0, BRows(t), BOut(t), 0, BOut(t))
            /\ Elements(Transfer1D(op, memory, BOut(t) * BIn(t)))
                 = Region(0, BOut(t), BIn(t), 0, BIn(t))
            /\ Elements(Transfer1D(op, memory, BRows(t) * BIn(t)))
                 = Region(0, BRows(t), BIn(t), 0, BIn(t))
      BY <1>1, ElementsOf1D, Zenon
    <3> QED BY <2>6, <2>7, <3>1, Zenon
  <2> HIDE DEF x
  <2> QED BY <1>4, <2>2, <2>4, <2>5, <2>7, <2>8, <2>9 DEF x
<1>6. CASE t.kind = "blocked"
  <2> DEFINE a == TileRow(t, tile)
             b == TileCol(t, tile)
             i == a * t.block
             j == b * t.block
             kl == n * t.block
             l == kl % (t.block * t.vt)
  <2>1. a \in Nat /\ b \in Nat
    BY <1>2, <1>3, DivMod DEF TileRow, TileCol
  <2>2. /\ FirstOf(t, tile)
             = Transfer2D("LOAD", "ACC", 0, CodeBase(t, tile), BRows(t), BOut(t), OutW(t))
        /\ LastOf(t, tile)
             = Transfer2D("STORE", "OUT", 0, CodeBase(t, tile), BRows(t), BOut(t), OutW(t))
    BY <1>6 DEF FirstOf, LastOf
  <2>3. StepsAt(t, tile, n) = BlockStep(t, i, j, kl)
    BY <1>6 DEF StepsAt, TileRow, TileCol
  <2>4. CodeBase(t, tile) = OutBase(t, tile)
    <3>1. CodeBase(t, tile)
            = (((((a * t.block) \div VTA_BATCH) * t.out) + (b * t.block)) \div VTA_BLOCK_OUT)
      BY DEF CodeBase, TileRow, TileCol
    <3> HIDE DEF a, b
    <3>2. (((((a * t.block) \div VTA_BATCH) * t.out) + (b * t.block)) \div VTA_BLOCK_OUT)
              = ((a * BRows(t)) * OutW(t)) + (b * BOut(t))
      BY <1>3, <1>6, <2>1, OutAddress, Zenon
    <3> QED BY <3>1, <3>2 DEF OutBase, a, b
  <2>5. /\ BlockStep(t, i, j, kl)[1]
             = Transfer2D("LOAD", "WGT", ((l \div VTA_BLOCK_IN) * t.block) \div VTA_BLOCK_OUT,
                 (((j \div VTA_BLOCK_OUT) * t.in) + kl) \div VTA_BLOCK_IN, BOut(t), BIn(t), InW(t))
        /\ BlockStep(t, i, j, kl)[2]
             = Transfer2D("LOAD", "INP", ((l \div VTA_BLOCK_IN) * t.block) \div VTA_BATCH,
                 (((i \div VTA_BATCH) * t.in) + kl) \div VTA_BLOCK_IN, BRows(t), BIn(t), InW(t))
        /\ BlockStep(t, i, j, kl)[3] = GemmInsn(t, ((l \div t.block) * UopSize(t)) \div t.vt)
    <3> HIDE DEF i, j, kl
    <3> QED BY DEF BlockStep
  <2>6. /\ ((l \div VTA_BLOCK_IN) * t.block) \div VTA_BLOCK_OUT = x * (BOut(t) * BIn(t))
        /\ ((l \div VTA_BLOCK_IN) * t.block) \div VTA_BATCH = x * (BRows(t) * BIn(t))
        /\ (((j \div VTA_BLOCK_OUT) * t.in) + kl) \div VTA_BLOCK_IN = WgtBase(t, tile, n)
        /\ (((i \div VTA_BATCH) * t.in) + kl) \div VTA_BLOCK_IN = InpBase(t, tile, n)
        /\ ((l \div t.block) * UopSize(t)) \div t.vt = x * HalfUops(t)
    <3> HIDE DEF a, b
    <3>1. ((l \div VTA_BLOCK_IN) * t.block) \div VTA_BLOCK_OUT = x * (BOut(t) * BIn(t))
      BY <1>3, <1>6, <2>1, Addresses, Zenon
    <3>2. ((l \div VTA_BLOCK_IN) * t.block) \div VTA_BATCH = x * (BRows(t) * BIn(t))
      BY <1>3, <1>6, <2>1, Addresses, Zenon
    <3>3. (((j \div VTA_BLOCK_OUT) * t.in) + kl) \div VTA_BLOCK_IN
               = ((b * BOut(t)) * InW(t)) + (n * BIn(t))
      <4>1. (b * t.block) \div VTA_BLOCK_OUT = b * BOut(t) /\ b * BOut(t) \in Nat
        BY <1>1, <1>6, <2>1, BlockRow
      <4>2. (((b * BOut(t)) * t.in) + (n * t.block)) \div VTA_BLOCK_IN
              = ((b * BOut(t)) * InW(t)) + (n * BIn(t))
        BY <1>3, <1>6, <4>1, RowAddress, Zenon
      <4> QED BY <4>1, <4>2, Zenon
    <3>4. (((i \div VTA_BATCH) * t.in) + kl) \div VTA_BLOCK_IN
               = ((a * BRows(t)) * InW(t)) + (n * BIn(t))
      <4>1. (a * t.block) \div VTA_BATCH = a * BRows(t) /\ a * BRows(t) \in Nat
        BY <1>1, <1>6, <2>1, BlockRow
      <4>2. (((a * BRows(t)) * t.in) + (n * t.block)) \div VTA_BLOCK_IN
              = ((a * BRows(t)) * InW(t)) + (n * BIn(t))
        BY <1>3, <1>6, <4>1, RowAddress, Zenon
      <4> QED BY <4>1, <4>2, Zenon
    <3>5. ((l \div t.block) * UopSize(t)) \div t.vt = x * HalfUops(t)
      BY <1>3, <1>6, <2>1, Addresses, Zenon
    <3>6. /\ ((b * BOut(t)) * InW(t)) + (n * BIn(t)) = WgtBase(t, tile, n)
          /\ ((a * BRows(t)) * InW(t)) + (n * BIn(t)) = InpBase(t, tile, n)
      BY DEF WgtBase, InpBase, a, b
    <3> QED BY <3>1, <3>2, <3>3, <3>4, <3>5, <3>6, Zenon
  <2> HIDE DEF i, j, kl, l
  <2>7. StepsAt(t, tile, n)[1]
          = Transfer2D("LOAD", "WGT", x * (BOut(t) * BIn(t)), WgtBase(t, tile, n),
                       BOut(t), BIn(t), InW(t))
    BY <2>3, <2>5, <2>6, Zenon
  <2>8. StepsAt(t, tile, n)[2]
          = Transfer2D("LOAD", "INP", x * (BRows(t) * BIn(t)), InpBase(t, tile, n),
                       BRows(t), BIn(t), InW(t))
    BY <2>3, <2>5, <2>6, Zenon
  <2>9. StepsAt(t, tile, n)[3] = GemmInsn(t, x * HalfUops(t))
    BY <2>3, <2>5, <2>6, Zenon
  <2> HIDE DEF x
  <2>10. /\ Elements(StepsAt(t, tile, n)[1])
              = Region(x, BOut(t), BIn(t), WgtBase(t, tile, n), InW(t))
         /\ Elements(StepsAt(t, tile, n)[2])
              = Region(x, BRows(t), BIn(t), InpBase(t, tile, n), InW(t))
    <3> DEFINE w == StepsAt(t, tile, n)[1]
               p == StepsAt(t, tile, n)[2]
    <3>1. /\ w.y = BOut(t) /\ w.x = BIn(t) /\ w.dram = WgtBase(t, tile, n) /\ w.stride = InW(t)
          /\ w.sram = x * (BOut(t) * BIn(t))
      BY <2>7 DEF Transfer2D
    <3>2. /\ p.y = BRows(t) /\ p.x = BIn(t) /\ p.dram = InpBase(t, tile, n) /\ p.stride = InW(t)
          /\ p.sram = x * (BRows(t) * BIn(t))
      BY <2>8 DEF Transfer2D
    <3> HIDE DEF w, p
    <3>3. Elements(w) = Region(x, w.y, w.x, w.dram, w.stride)
      <4>1. w.y \in Nat /\ w.x \in Nat /\ w.sram = x * (w.y * w.x)
        BY <1>1, <3>1
      <4> QED BY <1>4, <4>1, ElementsOf2D
    <3>4. Elements(p) = Region(x, p.y, p.x, p.dram, p.stride)
      <4>1. p.y \in Nat /\ p.x \in Nat /\ p.sram = x * (p.y * p.x)
        BY <1>1, <3>2
      <4> QED BY <1>4, <4>1, ElementsOf2D
    <3> QED BY <3>1, <3>2, <3>3, <3>4 DEF w, p
  <2>11. /\ Elements(FirstOf(t, tile)) = Region(0, BRows(t), BOut(t), OutBase(t, tile), OutW(t))
         /\ Elements(LastOf(t, tile)) = Region(0, BRows(t), BOut(t), OutBase(t, tile), OutW(t))
    <3> DEFINE f == FirstOf(t, tile)
               g == LastOf(t, tile)
    <3>1. /\ f.y = BRows(t) /\ f.x = BOut(t) /\ f.dram = OutBase(t, tile) /\ f.stride = OutW(t)
          /\ f.sram = 0
      BY <2>2, <2>4 DEF Transfer2D
    <3>2. /\ g.y = BRows(t) /\ g.x = BOut(t) /\ g.dram = OutBase(t, tile) /\ g.stride = OutW(t)
          /\ g.sram = 0
      BY <2>2, <2>4 DEF Transfer2D
    <3> HIDE DEF f, g
    <3>3. Elements(f) = Region(0, f.y, f.x, f.dram, f.stride)
      <4>1. f.y \in Nat /\ f.x \in Nat /\ f.sram = 0 * (f.y * f.x)
        BY <1>1, <3>1
      <4> QED BY <4>1, ElementsOf2D
    <3>4. Elements(g) = Region(0, g.y, g.x, g.dram, g.stride)
      <4>1. g.y \in Nat /\ g.x \in Nat /\ g.sram = 0 * (g.y * g.x)
        BY <1>1, <3>2
      <4> QED BY <4>1, ElementsOf2D
    <3> QED BY <3>1, <3>2, <3>3, <3>4 DEF f, g
  <2> QED BY <1>4, <2>9, <2>10, <2>11 DEF x
<1> QED BY <1>5, <1>6, TestsAssumption

\* What the transfers of alu_test move: a row of inputs, a row of outputs.
LEMMA AluRegions ==
  ASSUME NEW t \in Tests, Asserts(t), t.kind = "alu", NEW tile \in Nat
  PROVE  LET all == OutW(t) * InputSets(t) IN
         /\ all \in Nat \ {0} /\ InputSets(t) \in {1, 2}
         /\ Elements(FirstOf(t, tile)) = Region(0, 1, all, tile * all, all)
         /\ Elements(LastOf(t, tile)) = Region(0, 1, OutW(t), tile * OutW(t), OutW(t))
<1> DEFINE all == OutW(t) * InputSets(t)
           f == FirstOf(t, tile)
           g == LastOf(t, tile)
<1>1. OutW(t) \in Nat \ {0} /\ InputSets(t) \in {1, 2}
  BY CallInBlocks DEF InputSets
<1>2. all \in Nat \ {0}
  BY <1>1
<1>3. f.sram = 0 /\ f.dram = tile * all /\ f.y = 1 /\ f.x = all /\ f.stride = all
  BY DEF FirstOf, Transfer2D
<1>4. g.sram = 0 /\ g.dram = tile * OutW(t) /\ g.y = 1 /\ g.x = OutW(t) /\ g.stride = OutW(t)
  BY DEF LastOf, Transfer2D
<1> HIDE DEF all, f, g
<1>5. Elements(f) = Region(0, f.y, f.x, f.dram, f.stride)
  <2>1. f.y \in Nat /\ f.x \in Nat /\ f.sram = 0 * (f.y * f.x)
    BY <1>2, <1>3
  <2> QED BY <2>1, ElementsOf2D
<1>6. Elements(g) = Region(0, g.y, g.x, g.dram, g.stride)
  <2>1. g.y \in Nat /\ g.x \in Nat /\ g.sram = 0 * (g.y * g.x)
    BY <1>1, <1>4
  <2> QED BY <2>1, ElementsOf2D
<1> QED BY <1>1, <1>2, <1>3, <1>4, <1>5, <1>6 DEF all, f, g

\* The slot of element (y, x) of a block, and what a region has there.
SlotAt(slot, h, w, y, x) == slot * (h * w) + (y * w + x)
Has(buffer, s, value) == s \in DOMAIN buffer /\ buffer[s] = value

LEMMA RegionAt ==
  ASSUME NEW slot \in Nat, NEW h \in Nat \ {0}, NEW w \in Nat \ {0}, NEW base, NEW width,
         NEW y \in 0 .. h - 1, NEW x \in 0 .. w - 1
  PROVE  /\ SlotAt(slot, h, w, y, x) \in BlockSlots(slot, h, w)
         /\ Has(Region(slot, h, w, base, width), SlotAt(slot, h, w, y, x), base + (y * width) + x)
<1> DEFINE k == h * w
           z == slot * k
           s == z + (y * w + x)
<1>1. y * w + x \in 0 .. k - 1
  <2>1. w * y + w <= w * h /\ w * y \in Nat /\ w * h \in Nat
    <3>1. y \in Nat /\ h \in Nat /\ w \in Nat /\ y < h
      OBVIOUS
    <3> QED BY <3>1, Multiples
  <2>2. y * w = w * y /\ h * w = w * h
    OBVIOUS
  <2>3. x \in Nat /\ x <= w - 1 /\ w \in Nat
    OBVIOUS
  <2> QED BY <2>1, <2>2, <2>3
<1>2. z \in Nat /\ k \in Nat /\ (slot + 1) * k = z + k
  <2>1. k \in Nat
    OBVIOUS
  <2> HIDE DEF k
  <2> QED BY <2>1
<1>3. s \in z .. ((slot + 1) * k) - 1 /\ s - z = w * y + x
  <2>1. y * w = w * y /\ y * w \in Nat /\ x \in Nat
    OBVIOUS
  <2> HIDE DEF k, z
  <2> QED BY <1>1, <1>2, <2>1
<1>4. (w * y + x) \div w = y /\ (w * y + x) % w = x
  <2>1. y \in Nat
    OBVIOUS
  <2> QED BY <2>1, Quotient
<1>5. Region(slot, h, w, base, width)[s]
        = base + (((s - z) \div w) * width) + ((s - z) % w)
  BY <1>3 DEF Region, BlockSlots
<1> HIDE DEF s, z, k
<1>6. Region(slot, h, w, base, width)[s] = base + (y * width) + x
  BY <1>3, <1>4, <1>5
<1>7. s \in BlockSlots(slot, h, w) /\ SlotAt(slot, h, w, y, x) = s
  BY <1>3 DEF BlockSlots, SlotAt, s, z, k
<1>8. DOMAIN Region(slot, h, w, base, width) = BlockSlots(slot, h, w)
  BY DEF Region
<1> QED BY <1>6, <1>7, <1>8 DEF Has

\* Every slot of a region is that of an element of the block.
LEMMA RegionCovers ==
  ASSUME NEW slot \in Nat, NEW h \in Nat \ {0}, NEW w \in Nat \ {0},
         NEW s \in BlockSlots(slot, h, w)
  PROVE  \E y \in 0 .. h - 1, x \in 0 .. w - 1 : s = SlotAt(slot, h, w, y, x)
<1> DEFINE k == h * w
           z == slot * k
           a == s - z
<1>1. s \in z .. ((slot + 1) * k) - 1
  BY DEF BlockSlots
<1>2. z \in Nat /\ k \in Nat /\ (slot + 1) * k = z + k
  <2>1. k \in Nat
    OBVIOUS
  <2> HIDE DEF k
  <2> QED BY <2>1
<1>3. k = w * h
  OBVIOUS
<1>4. a \in Nat /\ a < w * h /\ s = z + a
  <2> HIDE DEF k, z
  <2> QED BY <1>1, <1>2, <1>3
<1> HIDE DEF a
<1>5. PICK y \in Nat : y = a \div w /\ y < h
  BY <1>4, QuotientBound, DivMod
<1>6. PICK x \in 0 .. w - 1 : x = a % w /\ a = w * y + x
  BY <1>4, <1>5, DivMod
<1>7. s = z + (y * w + x)
  <2>1. w * y = y * w
    BY <1>5
  <2> QED BY <1>4, <1>6, <2>1
<1>8. y \in 0 .. h - 1
  BY <1>5
<1> QED BY <1>6, <1>7, <1>8 DEF SlotAt

-----------------------------------------------------------------------------
(* The position in the stream                                               *)

\* The passes of the loops of a GEMM or ALU instruction.
Work(t) == IF t.kind = "alu" THEN OutW(t) ELSE BRows(t) * BIn(t) * BOut(t)

\* The next instruction is one of the stream, and between two instructions of the
\* code only a GEMM or ALU instruction is half done.
PosInv ==
  /\ test \in Tests /\ Asserts(test)
  /\ pc \in 1 .. Length(CallOf(test)) + 1
  /\ m \in 0 .. Work(test) - 1
  /\ m # 0 => pc <= Length(CallOf(test)) /\ Current.op \in {"GEMM", "ALU"}

\* The last part of a step has work, and the loops are as long as it says.
LEMMA WorkIs ==
  ASSUME NEW t \in Tests, Asserts(t),
         NEW tile \in Tiles(CallOf(t)), NEW n \in Steps(CallOf(t))
  PROVE  LET i == StepsAt(t, tile, n)[1 + LastPart(CallOf(t))] IN
         /\ Work(t) \in Nat \ {0}
         /\ i.op = IF t.kind = "alu" THEN "ALU" ELSE "GEMM"
         /\ i.outer * i.inner * (i.end - i.bgn) = Work(t)
<1> DEFINE i == StepsAt(t, tile, n)[1 + LastPart(CallOf(t))]
<1>1. CASE t.kind = "alu"
  <2>1. OutW(t) \in Nat \ {0} /\ Work(t) = OutW(t) /\ LastPart(CallOf(t)) = 0
    BY <1>1, CallInBlocks, PartsOf DEF Work
  <2>2. i = AluInsn(t, tile)
    BY <1>1, <2>1 DEF StepsAt
  <2> HIDE DEF i
  <2>3. i.outer * i.inner * (i.end - i.bgn) = Work(t) /\ i.op = "ALU"
    <3>1. CASE ~t.comp
      <4>1. i.op = "ALU" /\ i.outer = 1 /\ i.inner = 1 /\ i.end = OutW(t) /\ i.bgn = 0
        BY <2>2, <3>1 DEF AluInsn, Loops
      <4> QED BY <2>1, <4>1
    <3>2. CASE t.comp
      <4>1. i.op = "ALU" /\ i.outer = 1 /\ i.inner = OutW(t) /\ i.end = 1 /\ i.bgn = 0
        BY <2>2, <3>2 DEF AluInsn, Loops
      <4> QED BY <2>1, <4>1
    <3> QED BY <3>1, <3>2
  <2> QED BY <1>1, <2>1, <2>3 DEF i
<1>2. CASE t.kind # "alu"
  <2>1. PICK h \in Nat \ {0}, p \in Nat \ {0}, q \in Nat \ {0} :
          h = BRows(t) /\ p = BIn(t) /\ q = BOut(t)
    BY <1>2, Dimensions
  <2>2. Work(t) = h * p * q /\ LastPart(CallOf(t)) = 2
    BY <1>2, <2>1, PartsOf DEF Work
  <2> DEFINE bgn == (n % t.vt) * HalfUops(t)
  <2>3. i = GemmInsn(t, bgn)
    BY <1>2, <2>2, GemmRegions
  <2>4. bgn \in Nat
    <3>1. n % t.vt \in Nat /\ HalfUops(t) \in Nat
      <4>1. n % t.vt \in 0 .. t.vt - 1 /\ t.vt \in {1, 2}
        BY <1>2, GemmRegions, CallInBlocks
      <4> QED BY <2>1, <4>1 DEF HalfUops
    <3> QED BY <3>1
  <2> HIDE DEF i, bgn
  <2>5. i.outer * i.inner * (i.end - i.bgn) = Work(t) /\ i.op = "GEMM"
    <3>1. CASE ~t.comp
      <4>1. i.op = "GEMM" /\ i.outer = 1 /\ i.inner = 1 /\ i.end = bgn + (h * p * q) /\ i.bgn = bgn
        BY <2>1, <2>3, <3>1 DEF GemmInsn, Loops
      <4>2. i.end - i.bgn = Work(t) /\ Work(t) \in Nat
        BY <2>2, <2>4, <4>1
      <4> QED BY <4>1, <4>2
    <3>2. CASE t.comp
      <4>1. i.op = "GEMM" /\ i.outer = p /\ i.inner = q /\ i.end = bgn + h /\ i.bgn = bgn
        BY <2>1, <2>3, <3>2 DEF GemmInsn, Loops
      <4>2. i.end - i.bgn = h /\ p * q * h = h * p * q
        BY <2>4, <4>1
      <4> QED BY <2>2, <4>1, <4>2
    <3> QED BY <3>1, <3>2
  <2>6. Work(t) \in Nat \ {0}
    BY <2>2
  <2> QED BY <1>2, <2>5, <2>6 DEF i
<1> QED BY <1>1, <1>2

LEMMA WorkPositive ==
  ASSUME NEW t \in Tests, Asserts(t)
  PROVE  Work(t) \in Nat \ {0}
BY WorkIs, PartsOf

\* An execution that goes on.
Running == ~Done /\ (ExecLoad \/ ExecMicroOp \/ ExecStore \/ ExecFinish)

LEMMA Executing ==
  ASSUME PosInv
  PROVE  /\ CallOf(test) \in TestCalls /\ Length(CallOf(test)) \in Nat \ {0, 1}
         /\ Done <=> pc = Length(CallOf(test)) + 1
         /\ ~Done => pc \in 1 .. Length(CallOf(test))
         /\ Work(test) \in Nat \ {0}
<1>1. /\ Len(Insns(test)) = Length(CallOf(test)) /\ Length(CallOf(test)) \in Nat \ {0, 1}
      /\ CallOf(test) \in TestCalls /\ Work(test) \in Nat \ {0}
  BY TestStream, CallInBlocks, WorkPositive DEF PosInv
<1> QED BY <1>1 DEF PosInv, Done

\* What happens at each place.
LEMMA Moves ==
  ASSUME PosInv, Running, NEW tile \in Tiles(CallOf(test)),
         NEW n \in Steps(CallOf(test)), NEW e \in Parts(CallOf(test))
  PROVE  LET c == CallOf(test) IN
         /\ pc = 1 => ExecLoad /\ Current = UopLoad(test)
         /\ pc = AccPos(c, tile) => ExecLoad /\ Current = FirstOf(test, tile)
         /\ pc = PartPos(c, tile, n, e) =>
              /\ Current = StepsAt(test, tile, n)[1 + e]
              /\ e # LastPart(c) => test.kind # "alu" /\ ExecLoad
              /\ e = LastPart(c) => ExecMicroOp
         /\ pc = OutPos(c, tile) => ExecStore /\ Current = LastOf(test, tile)
         /\ pc = Length(c) => ExecFinish /\ Current = FinishInsn
<1> DEFINE c == CallOf(test)
<1>1. /\ test \in Tests /\ Asserts(test) /\ Current = Insns(test)[pc]
  BY DEF PosInv, Current
<1>2. /\ Current.op = "LOAD" => ExecLoad
      /\ Current.op \in {"GEMM", "ALU"} => ExecMicroOp
      /\ Current.op = "STORE" => ExecStore
      /\ Current.op = "FINISH" => ExecFinish
  BY DEF Running, ExecLoad, ExecMicroOp, ExecStore, ExecFinish
<1>3. pc = 1 => Current = UopLoad(test)
  BY <1>1, AtPlace
<1>4. pc = AccPos(c, tile) => Current = FirstOf(test, tile)
  BY <1>1, AtPlace
<1>5. pc = PartPos(c, tile, n, e) => Current = StepsAt(test, tile, n)[1 + e]
  BY <1>1, AtPlace
<1>6. pc = OutPos(c, tile) => Current = LastOf(test, tile)
  BY <1>1, AtPlace
<1>7. pc = Length(c) => Current = FinishInsn
  BY <1>1, AtPlace
<1>8. e # LastPart(c) => test.kind # "alu" /\ StepsAt(test, tile, n)[1 + e].op = "LOAD"
  <2>1. e # LastPart(c) => test.kind # "alu" /\ e \in {0, 1}
    BY <1>1, PartsOf
  <2> QED BY <1>1, <2>1, Operations
<1>9. e = LastPart(c) => StepsAt(test, tile, n)[1 + e].op \in {"GEMM", "ALU"}
  BY <1>1, WorkIs
<1> HIDE DEF c
<1>10. /\ UopLoad(test).op = "LOAD" /\ FirstOf(test, tile).op = "LOAD"
       /\ LastOf(test, tile).op = "STORE" /\ FinishInsn.op = "FINISH"
  BY <1>1, Operations
<1> QED BY <1>2, <1>3, <1>4, <1>5, <1>6, <1>7, <1>8, <1>9, <1>10 DEF c

\* A micro-op is one of a step.
LEMMA MicroOpPlace ==
  ASSUME PosInv, ~Done, Current.op \in {"GEMM", "ALU"}
  PROVE  \E tile \in Tiles(CallOf(test)), n \in Steps(CallOf(test)) :
           /\ pc = PartPos(CallOf(test), tile, n, LastPart(CallOf(test)))
           /\ Current = StepsAt(test, tile, n)[1 + LastPart(CallOf(test))]
<1> DEFINE c == CallOf(test)
<1>1. /\ test \in Tests /\ Asserts(test) /\ Current = Insns(test)[pc]
      /\ pc \in 1 .. Length(c) /\ c \in TestCalls
  BY Executing DEF PosInv, Current
<1>2. 0 \in Tiles(c) /\ 0 \in Steps(c) /\ 0 \in Parts(c)
  BY <1>1, PartsOf
<1>3. pc # 1 /\ pc # Length(c)
  <2>1. Insns(test)[1] = UopLoad(test) /\ Insns(test)[Length(c)] = FinishInsn
    BY <1>1, <1>2, AtPlace
  <2>2. UopLoad(test).op = "LOAD" /\ FinishInsn.op = "FINISH"
    BY <1>1, Operations
  <2> QED BY <1>1, <2>1, <2>2
<1>4. ASSUME NEW tile \in Tiles(c) PROVE pc # AccPos(c, tile) /\ pc # OutPos(c, tile)
  <2>1. /\ Insns(test)[AccPos(c, tile)] = FirstOf(test, tile)
        /\ Insns(test)[OutPos(c, tile)] = LastOf(test, tile)
    BY <1>1, <1>2, AtPlace
  <2>2. FirstOf(test, tile).op = "LOAD" /\ LastOf(test, tile).op = "STORE"
    BY <1>1, Operations
  <2> QED BY <1>1, <2>1, <2>2
<1>5. PICK tile \in Tiles(c), n \in Steps(c), e \in Parts(c) : pc = PartPos(c, tile, n, e)
  BY <1>1, <1>3, <1>4, Places
<1>6. Current = StepsAt(test, tile, n)[1 + e]
  BY <1>1, <1>5, AtPlace
<1>7. e = LastPart(c)
  <2>1. e # LastPart(c) => test.kind # "alu" /\ e \in {0, 1}
    BY <1>1, PartsOf
  <2>2. e # LastPart(c) => Current.op = "LOAD"
    BY <1>1, <1>6, <2>1, Operations
  <2> QED BY <2>2
<1> QED BY <1>5, <1>6, <1>7

LEMMA PosInit == ASSUME Init PROVE PosInv
<1>1. test \in Tests /\ Asserts(test) /\ pc = 1 /\ m = 0
  BY DEF Init
<1>2. Length(CallOf(test)) \in Nat /\ Work(test) \in Nat \ {0}
  BY <1>1, TestStream, WorkPositive
<1> QED BY <1>1, <1>2 DEF PosInv

\* The micro-ops of an instruction are counted, then it is over.
LEMMA MicroOpCount ==
  ASSUME PosInv, ~Done, ExecMicroOp
  PROVE  /\ m + 1 = Work(test) => m' = 0 /\ NextInsn
         /\ m + 1 # Work(test) => m' = m + 1 /\ UNCHANGED <<pc, queue>>
<1>1. Current.op \in {"GEMM", "ALU"}
  BY DEF ExecMicroOp
<1>2. PICK tile \in Tiles(CallOf(test)), n \in Steps(CallOf(test)) :
        Current = StepsAt(test, tile, n)[1 + LastPart(CallOf(test))]
  BY <1>1, MicroOpPlace
<1>3. Current.outer * Current.inner * (Current.end - Current.bgn) = Work(test)
  BY <1>2, WorkIs DEF PosInv
<1> QED BY <1>3 DEF ExecMicroOp

LEMMA PosStep == ASSUME PosInv, [Next]_vars PROVE PosInv'
<1>1. CASE UNCHANGED vars
  BY <1>1 DEF vars, PosInv, Current
<1>2. CASE Running
  <2>1. /\ pc \in 1 .. Length(CallOf(test)) /\ Length(CallOf(test)) \in Nat
        /\ Work(test) \in Nat \ {0}
    BY <1>2, Executing DEF Running
  <2>2. test' = test
    BY <1>2 DEF Running, ExecLoad, ExecMicroOp, ExecStore, ExecFinish
  <2>3. CASE pc' = pc + 1 /\ m' = 0
    BY <2>1, <2>2, <2>3 DEF PosInv
  <2>4. CASE ExecLoad \/ ExecStore \/ ExecFinish
    <3>1. m = 0
      BY <2>4 DEF PosInv, ExecLoad, ExecStore, ExecFinish
    <3>2. pc' = pc + 1 /\ m' = m
      BY <2>4 DEF ExecLoad, ExecStore, ExecFinish, NextInsn
    <3> QED BY <2>3, <3>1, <3>2
  <2>5. CASE ExecMicroOp
    <3>1. ~Done /\ Current.op \in {"GEMM", "ALU"}
      BY <1>2, <2>5 DEF Running, ExecMicroOp
    <3>2. CASE m + 1 = Work(test)
      BY <2>3, <2>5, <3>1, <3>2, MicroOpCount DEF NextInsn
    <3>3. CASE m + 1 # Work(test)
      <4>1. m' = m + 1 /\ pc' = pc
        BY <2>5, <3>1, <3>3, MicroOpCount
      <4>2. Current' = Current
        BY <2>2, <4>1 DEF Current
      <4>3. m' \in 0 .. Work(test) - 1
        BY <2>1, <3>3, <4>1 DEF PosInv
      <4> QED BY <2>1, <2>2, <3>1, <4>1, <4>2, <4>3 DEF PosInv
    <3> QED BY <3>2, <3>3
  <2> QED BY <1>2, <2>4, <2>5 DEF Running
<1> QED BY <1>1, <1>2 DEF Next, Running, Terminated

\* The stream of the test is run from its first instruction to the last.
THEOREM Position == Spec => []PosInv
<1>1. Init => PosInv
  BY PosInit
<1>2. PosInv /\ [Next]_vars => PosInv'
  BY PosStep
<1> QED BY <1>1, <1>2, PTL DEF Spec

-----------------------------------------------------------------------------
(* The size of the buffer, and equal neighbours                             *)

\* The instructions that the generator allocates.
LEMMA BufferSize ==
  ASSUME NEW c \in TestCalls
  PROVE  TestOf(c).insSize = Length(c)
<1>1. Length(c) = 2 + Width(c) * TilesOf(c) /\ Width(c) = 2 + PerStep(c) * StepsOf(c)
  BY Widths
<1>2. CASE c \in [kind : {"alu"}, rows : Nat \ {0}]
  <2>1. TestOf(c).insSize = 3 * c.rows + 2
    BY <1>2 DEF TestOf, AluTest
  <2>2. PerStep(c) = 1 /\ StepsOf(c) = 1 /\ TilesOf(c) = c.rows
    BY <1>2 DEF PerStep, TilesOf, StepsOf, SlotsOf, ShapeOf, Shape
  <2>3. Width(c) = 3
    BY <1>1, <2>2
  <2> QED BY <1>1, <1>2, <2>1, <2>2, <2>3
<1>3. CASE c \in [kind : {"gemm"}]
  <2>1. TestOf(c).insSize = 7
    BY <1>3 DEF TestOf, GemmTest
  <2>2. PerStep(c) = 3 /\ StepsOf(c) = 1 /\ TilesOf(c) = 1
    BY <1>3 DEF PerStep, TilesOf, StepsOf, SlotsOf, ShapeOf, Shape
  <2> QED BY <1>1, <2>1, <2>2
<1>4. CASE c \in BlockedGemmCalls
  <2>1. PICK b \in Nat \ {0}, k \in Nat \ {0}, v \in {1, 2} : b = c.B /\ k = c.C /\ v = c.vt
    BY <1>4 DEF BlockedGemmCalls
  <2>2. c.kind = "blocked"
    BY <1>4 DEF BlockedGemmCalls
  <2>3. TestOf(c).insSize = b * k * (2 + k * 3) + 2
    BY <2>1, <2>2 DEF TestOf, BlockedGemmTest
  <2>4. PerStep(c) = 3 /\ StepsOf(c) = k /\ TilesOf(c) = b * k
    BY <2>1, <2>2 DEF PerStep, TilesOf, StepsOf, SlotsOf, ShapeOf, Shape
  <2>5. Length(c) = 2 + (2 + 3 * k) * (b * k)
    BY <1>1, <2>4
  <2> QED BY <2>3, <2>5
<1> QED BY <1>2, <1>3, <1>4 DEF TestCalls

\* No generator overruns or underruns the buffer it allocates, and its last
\* instruction is FINISH, for matrices of any size.
THEOREM Exactness == Spec => []BufferExact
<1>1. PosInv => BufferExact
  <2> SUFFICES ASSUME PosInv PROVE BufferExact
    OBVIOUS
  <2> DEFINE c == CallOf(test)
  <2>1. /\ test \in Tests /\ Asserts(test) /\ pc \in 1 .. Length(c) + 1 /\ c \in TestCalls
        /\ Length(c) \in Nat \ {0, 1} /\ (Done <=> pc = Length(c) + 1)
    BY Executing DEF PosInv
  <2>2. BlockTest(test).insSize = Length(c)
    BY <2>1, BufferSize DEF BlockTest
  <2>3. Insns(test)[Length(c)].op = "FINISH"
    BY <2>1, PartsOf, AtPlace, Operations
  <2> HIDE DEF c
  <2> QED BY <2>1, <2>2, <2>3 DEF BufferExact
<1> QED BY <1>1, Position, PTL

\* The testbench sees every instruction of every test: each differs from the one
\* before it.
THEOREM Distinctness == Spec => []AdjacentInsnsDiffer
<1>1. PosInv => AdjacentInsnsDiffer
  <2> SUFFICES ASSUME PosInv, pc > 1, ~Done PROVE Current # Insns(test)[pc - 1]
    BY DEF AdjacentInsnsDiffer
  <2> DEFINE c == CallOf(test)
             p == pc - 1
  <2>1. /\ test \in Tests /\ Asserts(test) /\ pc \in 1 .. Length(c)
        /\ Length(c) \in Nat \ {0, 1}
    BY Executing DEF PosInv
  <2>2. p \in 1 .. Length(c) - 1 /\ p + 1 = pc
    BY <2>1
  <2> HIDE DEF p
  <2>3. Insns(test)[p] # Insns(test)[p + 1]
    BY <2>1, <2>2, Neighbours
  <2> QED BY <2>2, <2>3 DEF Current, p
<1> QED BY <1>1, Position, PTL

-----------------------------------------------------------------------------
(* Transfers and the blocks that the block-level stream names               *)

\* A region that starts at a block moves the elements of that block.
MovesBlock(e, slot, h, w, blk, width) ==
  /\ {e[s] : s \in DOMAIN e} = ElementsOf(blk, h, w, width)
  /\ DOMAIN e = slot * h * w .. ((slot + 1) * h * w) - 1

LEMMA RegionIsBlock ==
  ASSUME NEW slot \in Nat, NEW h \in Nat \ {0}, NEW w \in Nat \ {0}, NEW width \in Nat,
         NEW r \in Nat, NEW k \in Nat
  PROVE  MovesBlock(Region(slot, h, w, ((r * h) * width) + (k * w), width), slot, h, w, <<r, k>>, width)
<1> DEFINE base == ((r * h) * width) + (k * w)
           e == Region(slot, h, w, base, width)
<1>1. ASSUME NEW y \in 0 .. h - 1, NEW x \in 0 .. w - 1
      PROVE  Has(e, SlotAt(slot, h, w, y, x), PackIndex((r * h) + y, (k * w) + x, width))
  <2> DEFINE v == base + (y * width) + x
  <2>1. Has(e, SlotAt(slot, h, w, y, x), v)
    <3> HIDE DEF base
    <3> QED BY RegionAt, Zenon
  <2>2. PackIndex((r * h) + y, (k * w) + x, width) = v
    <3>1. PICK a \in Nat, b \in Nat, z \in Nat, u \in Nat :
            a = r * h /\ b = k * w /\ z = y * width /\ u = a * width
      OBVIOUS
    <3>2. (a + y) * width = u + z
      BY <3>1
    <3>3. PackIndex((r * h) + y, (k * w) + x, width) = ((a + y) * width) + (b + x)
      BY <3>1 DEF PackIndex
    <3> QED BY <3>1, <3>2, <3>3
  <2> QED BY <2>1, <2>2, Zenon
<1>2. DOMAIN e = BlockSlots(slot, h, w)
  BY DEF Region
<1>3. ASSUME NEW s \in DOMAIN e
      PROVE  \E y \in 0 .. h - 1, x \in 0 .. w - 1 : s = SlotAt(slot, h, w, y, x)
  <2> HIDE DEF base, e
  <2>1. s \in BlockSlots(slot, h, w)
    BY <1>2
  <2> QED BY <2>1, RegionCovers
<1>4. DOMAIN e = slot * h * w .. ((slot + 1) * h * w) - 1
  <2>1. slot * (h * w) = slot * h * w /\ (slot + 1) * (h * w) = (slot + 1) * h * w
    OBVIOUS
  <2> QED BY <1>2, <2>1 DEF BlockSlots
<1> HIDE DEF e
<1>5. {e[s] : s \in DOMAIN e} = ElementsOf(<<r, k>>, h, w, width)
  <2>1. ElementsOf(<<r, k>>, h, w, width)
          = {PackIndex((r * h) + y, (k * w) + x, width) : y \in 0 .. h - 1, x \in 0 .. w - 1}
    BY DEF ElementsOf
  <2>2. ASSUME NEW d \in {e[s] : s \in DOMAIN e} PROVE d \in ElementsOf(<<r, k>>, h, w, width)
    <3>1. PICK s \in DOMAIN e : d = e[s]
      OBVIOUS
    <3>2. PICK y \in 0 .. h - 1, x \in 0 .. w - 1 : s = SlotAt(slot, h, w, y, x)
      BY <1>3
    <3>3. d = PackIndex((r * h) + y, (k * w) + x, width)
      BY <1>1, <3>1, <3>2, Zenon DEF Has
    <3> QED BY <2>1, <3>3
  <2>3. ASSUME NEW d \in ElementsOf(<<r, k>>, h, w, width) PROVE d \in {e[s] : s \in DOMAIN e}
    <3>1. PICK y \in 0 .. h - 1, x \in 0 .. w - 1 : d = PackIndex((r * h) + y, (k * w) + x, width)
      BY <2>1
    <3> QED BY <1>1, <3>1, Zenon DEF Has
  <2> QED BY <2>2, <2>3
<1> QED BY <1>4, <1>5, Zenon DEF MovesBlock, e

\* Word for word, the transfers of blocked_gemm_test are those of its blocks.
THEOREM BlockTransfers == Spec => []TransfersItsBlock
<1> DEFINE c == CallOf(test)
           abs == BlockInsn(pc)
           e == Elements(Current)
           Moved(blk, h, w, width) ==
             /\ MovesBlock(e, abs.sram, h, w, blk, width)
             /\ abs.dram = blk /\ abs.op = Current.op /\ abs.memory = Current.memory
<1>1. ASSUME PosInv, test.kind = "blocked", ~Done
      PROVE  /\ Current.op = "LOAD" /\ Current.memory = "WGT" =>
                  \E blk : Moved(blk, BOut(test), BIn(test), InW(test))
             /\ Current.op = "LOAD" /\ Current.memory = "INP" =>
                  \E blk : Moved(blk, BRows(test), BIn(test), InW(test))
             /\ Current.op = "LOAD" => Current.memory \in {"UOP", "WGT", "INP", "ACC"}
             /\ Current.op = "STORE" => Current.memory = "OUT"
             /\ Current.memory \in {"ACC", "OUT"} =>
                  \E blk : Moved(blk, BRows(test), BOut(test), OutW(test))
  <2>1. /\ test \in Tests /\ Asserts(test) /\ c \in TestCalls /\ pc \in 1 .. Length(c)
        /\ Current = Insns(test)[pc] /\ abs = BlockTest(test).insns[pc]
    BY <1>1, Executing DEF PosInv, Current, BlockInsn
  <2>2. /\ BRows(test) \in Nat \ {0} /\ BIn(test) \in Nat \ {0} /\ BOut(test) \in Nat \ {0}
        /\ InW(test) \in Nat /\ OutW(test) \in Nat
        /\ SlotsOf(c) = test.vt /\ Cols(c) = TileCols(test) /\ TileCols(test) \in Nat \ {0}
        /\ c.kind = "blocked" /\ LastPart(c) = 2 /\ PerStep(c) = 3
    BY <1>1, <2>1, Dimensions, CallInBlocks, PartsOf DEF PerStep
  <2>3. 0 \in Tiles(c) /\ 0 \in Steps(c) /\ 0 \in Parts(c)
    BY <2>1, PartsOf
  <2>4. CASE pc = 1 \/ pc = Length(c)
    <3>1. Current = UopLoad(test) \/ Current = FinishInsn
      BY <2>1, <2>3, <2>4, AtPlace
    <3>2. (Current.op = "LOAD" /\ Current.memory = "UOP") \/ (Current.op = "FINISH" /\ Current.memory = "NONE")
      BY <2>1, <3>1, Operations
    <3> QED BY <3>2
  <2>5. ASSUME NEW tile \in Tiles(c)
        PROVE  /\ tile \in Nat /\ TileRow(test, tile) \in Nat /\ TileCol(test, tile) \in Nat
               /\ BlockOf(c, tile) = <<TileRow(test, tile), TileCol(test, tile)>>
    <3>1. tile \in Nat
      BY <2>1, <2>3, PlaceBounds
    <3>2. tile \div TileCols(test) \in Nat /\ tile % TileCols(test) \in Nat
      BY <2>2, <3>1
    <3> QED BY <2>2, <3>1, <3>2 DEF BlockOf, TileRow, TileCol
  <2>6. ASSUME NEW tile \in Tiles(c), pc = AccPos(c, tile) \/ pc = OutPos(c, tile)
        PROVE  /\ Current.op = "LOAD" => Current.memory = "ACC"
               /\ Current.op = "STORE" => Current.memory = "OUT"
               /\ Current.memory \in {"ACC", "OUT"}
               /\ Moved(BlockOf(c, tile), BRows(test), BOut(test), OutW(test))
    <3>1. e = Region(0, BRows(test), BOut(test), OutBase(test, tile), OutW(test))
      BY <1>1, <2>1, <2>3, <2>6, AtPlace, GemmRegions
    <3>2. \/ Current = FirstOf(test, tile) /\ abs = AccInsn(c, tile)
          \/ Current = LastOf(test, tile) /\ abs = StoreInsn(c, tile)
      BY <2>1, <2>3, <2>6, AtPlace, BlockAtPlace
    <3>3. \/ Current.op = "LOAD" /\ Current.memory = "ACC" /\ abs = AccInsn(c, tile)
          \/ Current.op = "STORE" /\ Current.memory = "OUT" /\ abs = StoreInsn(c, tile)
      BY <2>1, <3>2, Operations
    <3>4. /\ abs.dram = BlockOf(c, tile) /\ abs.sram = 0
          /\ abs.op = Current.op /\ abs.memory = Current.memory
      BY <3>3 DEF AccInsn, StoreInsn, Store, Insn
    <3> HIDE DEF e, abs
    <3>5. MovesBlock(e, 0, BRows(test), BOut(test), BlockOf(c, tile), OutW(test))
      <4>1. /\ TileRow(test, tile) \in Nat /\ TileCol(test, tile) \in Nat /\ 0 \in Nat
            /\ BlockOf(c, tile) = <<TileRow(test, tile), TileCol(test, tile)>>
        BY <2>5
      <4>2. e = Region(0, BRows(test), BOut(test),
                  ((TileRow(test, tile) * BRows(test)) * OutW(test))
                    + (TileCol(test, tile) * BOut(test)), OutW(test))
        BY <3>1 DEF OutBase
      <4>3. MovesBlock(Region(0, BRows(test), BOut(test),
                         ((TileRow(test, tile) * BRows(test)) * OutW(test))
                           + (TileCol(test, tile) * BOut(test)), OutW(test)),
                       0, BRows(test), BOut(test),
                       <<TileRow(test, tile), TileCol(test, tile)>>, OutW(test))
        BY <2>2, <4>1, RegionIsBlock, Zenon
      <4> QED BY <4>1, <4>2, <4>3, Zenon
    <3> QED BY <3>3, <3>4, <3>5
  <2>7. ASSUME NEW tile \in Tiles(c), NEW n \in Steps(c), pc = PartPos(c, tile, n, 0)
        PROVE  /\ Current.op = "LOAD" /\ Current.memory = "WGT"
               /\ Moved(WgtBlock(c, tile, n), BOut(test), BIn(test), InW(test))
    <3>1. Current = StepsAt(test, tile, n)[1 + 0] /\ abs = OfStep(c, tile, n, 0)
      BY <2>1, <2>3, <2>7, AtPlace, BlockAtPlace
    <3>2. Current.op = "LOAD" /\ Current.memory = "WGT" /\ abs = WgtInsn(c, tile, n)
      BY <1>1, <2>1, <2>2, <3>1, Operations DEF OfStep
    <3>3. /\ abs.dram = WgtBlock(c, tile, n) /\ abs.sram = n % test.vt
          /\ abs.op = Current.op /\ abs.memory = Current.memory
      BY <2>2, <3>2 DEF WgtInsn, Insn
    <3>4. /\ e = Region(n % test.vt, BOut(test), BIn(test), WgtBase(test, tile, n), InW(test))
          /\ n % test.vt \in 0 .. test.vt - 1
      BY <1>1, <2>1, <3>1, GemmRegions
    <3>5. WgtBlock(c, tile, n) = <<TileCol(test, tile), n>>
      BY <2>2 DEF WgtBlock, TileCol
    <3>6. n \in Nat /\ n % test.vt \in Nat
      BY <2>1, <2>3, <3>4, PlaceBounds
    <3> HIDE DEF e, abs
    <3>7. MovesBlock(e, n % test.vt, BOut(test), BIn(test), WgtBlock(c, tile, n), InW(test))
      <4>1. TileCol(test, tile) \in Nat
        BY <2>5
      <4>2. e = Region(n % test.vt, BOut(test), BIn(test),
                  ((TileCol(test, tile) * BOut(test)) * InW(test)) + (n * BIn(test)), InW(test))
        BY <3>4 DEF WgtBase
      <4>3. MovesBlock(Region(n % test.vt, BOut(test), BIn(test),
                         ((TileCol(test, tile) * BOut(test)) * InW(test)) + (n * BIn(test)), InW(test)),
                       n % test.vt, BOut(test), BIn(test), <<TileCol(test, tile), n>>, InW(test))
        BY <2>2, <3>6, <4>1, RegionIsBlock, Zenon
      <4> QED BY <3>5, <4>2, <4>3, Zenon
    <3> QED BY <3>2, <3>3, <3>7
  <2>8. ASSUME NEW tile \in Tiles(c), NEW n \in Steps(c), pc = PartPos(c, tile, n, 1)
        PROVE  /\ Current.op = "LOAD" /\ Current.memory = "INP"
               /\ Moved(InpBlock(c, tile, n), BRows(test), BIn(test), InW(test))
    <3>0. 1 \in Parts(c)
      BY <1>1, <2>1, PartsOf
    <3>1. Current = StepsAt(test, tile, n)[1 + 1] /\ abs = OfStep(c, tile, n, 1)
      BY <2>1, <2>8, <3>0, AtPlace, BlockAtPlace
    <3>2. Current.op = "LOAD" /\ Current.memory = "INP" /\ abs = InpInsn(c, tile, n)
      BY <1>1, <2>1, <2>2, <3>1, Operations DEF OfStep
    <3>3. /\ abs.dram = InpBlock(c, tile, n) /\ abs.sram = n % test.vt
          /\ abs.op = Current.op /\ abs.memory = Current.memory
      BY <2>2, <3>2 DEF InpInsn, Insn
    <3>4. /\ e = Region(n % test.vt, BRows(test), BIn(test), InpBase(test, tile, n), InW(test))
          /\ n % test.vt \in 0 .. test.vt - 1
      BY <1>1, <2>1, <3>1, GemmRegions
    <3>5. InpBlock(c, tile, n) = <<TileRow(test, tile), n>>
      BY <2>2 DEF InpBlock, TileRow
    <3>6. n \in Nat /\ n % test.vt \in Nat
      BY <2>1, <2>3, <3>4, PlaceBounds
    <3> HIDE DEF e, abs
    <3>7. MovesBlock(e, n % test.vt, BRows(test), BIn(test), InpBlock(c, tile, n), InW(test))
      <4>1. TileRow(test, tile) \in Nat
        BY <2>5
      <4>2. e = Region(n % test.vt, BRows(test), BIn(test),
                  ((TileRow(test, tile) * BRows(test)) * InW(test)) + (n * BIn(test)), InW(test))
        BY <3>4 DEF InpBase
      <4>3. MovesBlock(Region(n % test.vt, BRows(test), BIn(test),
                         ((TileRow(test, tile) * BRows(test)) * InW(test)) + (n * BIn(test)), InW(test)),
                       n % test.vt, BRows(test), BIn(test), <<TileRow(test, tile), n>>, InW(test))
        BY <2>2, <3>6, <4>1, RegionIsBlock, Zenon
      <4> QED BY <3>5, <4>2, <4>3, Zenon
    <3> QED BY <3>2, <3>3, <3>7
  <2>9. ASSUME NEW tile \in Tiles(c), NEW n \in Steps(c), pc = PartPos(c, tile, n, 2)
        PROVE  Current.op = "GEMM" /\ Current.memory = "NONE"
    <3>0. 2 \in Parts(c)
      BY <1>1, <2>1, PartsOf
    <3>1. Current = StepsAt(test, tile, n)[1 + 2]
      BY <2>1, <2>9, <3>0, AtPlace
    <3> QED BY <1>1, <2>1, <3>1, Operations
  <2>10. Parts(c) = {0, 1, 2}
    BY <1>1, <2>1, PartsOf
  <2> HIDE DEF Moved
  <2>11. CASE \E tile \in Tiles(c), n \in Steps(c), x \in Parts(c) : pc = PartPos(c, tile, n, x)
    <3>1. PICK tile \in Tiles(c), n \in Steps(c), x \in Parts(c) : pc = PartPos(c, tile, n, x)
      BY <2>11
    <3>2. CASE x = 0
      BY <2>7, <3>1, <3>2
    <3>3. CASE x = 1
      BY <2>8, <3>1, <3>3
    <3>4. CASE x = 2
      BY <2>9, <3>1, <3>4
    <3> QED BY <2>10, <3>2, <3>3, <3>4
  <2>12. CASE \E tile \in Tiles(c) : pc = AccPos(c, tile) \/ pc = OutPos(c, tile)
    BY <2>6, <2>12
  <2> QED BY <2>1, <2>4, <2>11, <2>12, Places
<1>2. PosInv => TransfersItsBlock
  <2> SUFFICES ASSUME PosInv, test.kind = "blocked", ~Done, Current.op \in {"LOAD", "STORE"},
                      Current.memory # "UOP"
               PROVE  LET h == IF Current.memory = "WGT" THEN BOut(test) ELSE BRows(test)
                          w == IF Current.memory \in {"WGT", "INP"} THEN BIn(test) ELSE BOut(test)
                          width == IF Current.memory \in {"WGT", "INP"} THEN InW(test) ELSE OutW(test)
                      IN  /\ <<abs.op, abs.memory>> = <<Current.op, Current.memory>>
                          /\ {e[s] : s \in DOMAIN e} = ElementsOf(abs.dram, h, w, width)
                          /\ DOMAIN e = abs.sram * h * w .. ((abs.sram + 1) * h * w) - 1
    BY DEF TransfersItsBlock
  <2> HIDE DEF e, abs
  <2>1. CASE Current.memory = "WGT"
    BY <1>1, <2>1 DEF MovesBlock
  <2>2. CASE Current.memory = "INP"
    BY <1>1, <2>2 DEF MovesBlock
  <2>3. CASE Current.memory \in {"ACC", "OUT"}
    BY <1>1, <2>3 DEF MovesBlock
  <2> QED BY <1>1, <2>1, <2>2, <2>3
<1> QED BY <1>2, Position, PTL

-----------------------------------------------------------------------------
(* The tokens in the queues                                                 *)

One(p) == IF p THEN 1 ELSE 0

\* The counters with so many tokens in l2g, g2l, g2s and s2g.
Tokens(toCompute, toLoad, toStore, fromStore) ==
  [q \in Queues |-> IF q = l2g THEN toCompute ELSE IF q = g2l THEN toLoad
                    ELSE IF q = g2s THEN toStore ELSE fromStore]

\* The released slots before a step: with one virtual thread, the slot of that step.
\* With two, the one of the step before, and that of the tile before (of the step
\* before that, once the step waits for it), but the last but one step of a
\* tile releases none.
Before(c, tile, n) ==
  IF SlotsOf(c) = 0 THEN 0
  ELSE IF SlotsOf(c) = 1 THEN 1
  ELSE One(tile > 0 \/ n > 0) + One(n > 1) - One(n > StepsOf(c) - 2)

\* With two, the token that a tile leaves for the next one.
Between(c, tile) == One(SlotsOf(c) = 2 /\ tile > 0 /\ tile < TilesOf(c))

\* The counters before the instruction at a place: a LOAD WGT that waits has popped its
\* token before its step is over, and LOAD INP has pushed one for the GEMM.
TokensAt(c, p, q) ==
  \/ p = 1 /\ q = Tokens(0, 0, 0, 0)
  \/ \E tile \in 0 .. TilesOf(c) :
       /\ p = AccPos(c, tile)
       /\ q = Tokens(0, Between(c, tile), 0, One(tile > 0))
  \/ \E tile \in Tiles(c), n \in Steps(c), e \in Parts(c) :
       /\ p = PartPos(c, tile, n, e)
       /\ q = Tokens(One(e = 2), Before(c, tile, n) - One(e > 0 /\ Pop(c, tile, n)), 0, 0)
  \/ \E tile \in Tiles(c) :
       /\ p = OutPos(c, tile)
       /\ q = Tokens(0, Between(c, tile + 1), 1, 0)
  \/ p = Length(c) + 1 /\ q = Tokens(0, 0, 0, 0)
QueueInv == TokensAt(CallOf(test), pc, queue)

\* The next counters.
LEMMA TokensMove ==
  ASSUME NEW a \in Int, NEW b \in Int, NEW d \in Int, NEW f \in Int,
         queue = Tokens(a, b, d, f), NextInsn, NEW i, i = BlockInsn(pc)
  PROVE  queue' = Tokens(a + One(l2g \in Pushes(i)) - One(l2g \in Pops(i)),
                         b + One(g2l \in Pushes(i)) - One(g2l \in Pops(i)),
                         d + One(g2s \in Pushes(i)) - One(g2s \in Pops(i)),
                         f + One(s2g \in Pushes(i)) - One(s2g \in Pops(i)))
<1>1. DOMAIN queue = Queues
  BY DEF Tokens
<1>2. queue' = [q \in Queues |-> queue[q] + (One(q \in Pushes(i)) - One(q \in Pops(i)))]
  BY <1>1 DEF NextInsn, Balance, One
<1>3. /\ queue[l2g] = a /\ queue[g2l] = b /\ queue[g2s] = d /\ queue[s2g] = f
  BY QueueNames DEF Tokens
<1>4. \A q \in Queues : q = l2g \/ q = g2l \/ q = g2s \/ q = s2g
  BY QueueNames
<1>5. \A p : One(p) \in {0, 1}
  BY DEF One
<1> DEFINE A == a + One(l2g \in Pushes(i)) - One(l2g \in Pops(i))
           B == b + One(g2l \in Pushes(i)) - One(g2l \in Pops(i))
           D == d + One(g2s \in Pushes(i)) - One(g2s \in Pops(i))
           F == f + One(s2g \in Pushes(i)) - One(s2g \in Pops(i))
<1>6. /\ a + (One(l2g \in Pushes(i)) - One(l2g \in Pops(i))) = A
      /\ b + (One(g2l \in Pushes(i)) - One(g2l \in Pops(i))) = B
      /\ d + (One(g2s \in Pushes(i)) - One(g2s \in Pops(i))) = D
      /\ f + (One(s2g \in Pushes(i)) - One(s2g \in Pops(i))) = F
  BY <1>5
<1>7. ASSUME NEW q \in Queues
      PROVE  queue[q] + (One(q \in Pushes(i)) - One(q \in Pops(i)))
               = IF q = l2g THEN A ELSE IF q = g2l THEN B ELSE IF q = g2s THEN D ELSE F
  <2> HIDE DEF A, B, D, F
  <2> QED BY <1>3, <1>4, <1>6, QueueNames, Zenon
<1>8. [q \in Queues |-> queue[q] + (One(q \in Pushes(i)) - One(q \in Pops(i)))]
        = [q \in Queues |-> IF q = l2g THEN A ELSE IF q = g2l THEN B ELSE IF q = g2s THEN D ELSE F]
  <2> HIDE DEF A, B, D, F
  <2> QED BY <1>7, Zenon
<1> QED BY <1>2, <1>8, Zenon DEF Tokens

\* What an instruction adds to a counter.
Change(i, q) == One(q \in Pushes(i)) - One(q \in Pops(i))

LEMMA TokensTo ==
  ASSUME NEW a \in Int, NEW b \in Int, NEW d \in Int, NEW f \in Int,
         queue = Tokens(a, b, d, f), NextInsn, NEW i, i = BlockInsn(pc),
         NEW aa \in Int, NEW bb \in Int, NEW dd \in Int, NEW ff \in Int,
         aa = a + Change(i, l2g), bb = b + Change(i, g2l),
         dd = d + Change(i, g2s), ff = f + Change(i, s2g)
  PROVE  queue' = Tokens(aa, bb, dd, ff)
<1>1. \A p : One(p) \in {0, 1}
  BY DEF One
<1>2. /\ aa = a + One(l2g \in Pushes(i)) - One(l2g \in Pops(i))
      /\ bb = b + One(g2l \in Pushes(i)) - One(g2l \in Pops(i))
      /\ dd = d + One(g2s \in Pushes(i)) - One(g2s \in Pops(i))
      /\ ff = f + One(s2g \in Pushes(i)) - One(s2g \in Pops(i))
  BY <1>1 DEF Change
<1> QED BY <1>2, TokensMove

\* The tokens for the slots, from one step to the next: none is popped that is
\* not there, and the last step leaves the next tile what it waits for.
LEMMA Released ==
  ASSUME NEW c \in TestCalls, NEW tile \in Tiles(c), NEW n \in Steps(c)
  PROVE  /\ Before(c, tile, n) \in Nat /\ Between(c, tile) \in Nat /\ Between(c, tile + 1) \in Nat
         /\ SlotsOf(c) # 0 /\ Pop(c, tile, n) => Before(c, tile, n) > 0
         /\ SlotsOf(c) = 0 => Before(c, tile, n) = 0 /\ Between(c, tile + 1) = 0
         /\ Before(c, tile, 0) = Between(c, tile) + One(SlotsOf(c) = 1)
         /\ n # StepsOf(c) - 1 /\ SlotsOf(c) # 0 =>
              Before(c, tile, n) - One(Pop(c, tile, n)) + One(PushPrev(c, tile, n))
                = Before(c, tile, n + 1)
         /\ n = StepsOf(c) - 1 /\ SlotsOf(c) # 0 =>
              Before(c, tile, n) - One(Pop(c, tile, n)) + One(PushPrev(c, tile, n))
                = Between(c, tile + 1)
<1>1. PICK T \in Nat \ {0}, N \in Nat \ {0}, v \in {0, 1, 2} :
        T = TilesOf(c) /\ N = StepsOf(c) /\ v = SlotsOf(c)
  BY Sizes
<1>2. tile \in 0 .. T - 1 /\ n \in 0 .. N - 1
  BY <1>1 DEF Tiles, Steps
<1>3. v = 2 => N >= 2
  <2> SUFFICES ASSUME v = 2 PROVE N >= 2
    OBVIOUS
  <2>1. PICK pairs \in 1 .. StepsOf(c) : StepsOf(c) = 2 * pairs
    BY <1>1, Sizes
  <2> QED BY <1>1, <2>1
<1>4. \A k : Before(c, tile, k) = IF v = 0 THEN 0 ELSE IF v = 1 THEN 1
                 ELSE One(tile > 0 \/ k > 0) + One(k > 1) - One(k > N - 2)
  BY <1>1 DEF Before
<1>5. \A k : Between(c, k) = One(v = 2 /\ k > 0 /\ k < T)
  BY <1>1 DEF Between
<1>6. Pop(c, tile, n) <=> (v = 1 \/ ((tile > 0 \/ n > 0) /\ n # 1))
  BY <1>1 DEF Pop
<1>7. PushPrev(c, tile, n) <=> \/ v = 1 /\ n # N - 1
                               \/ v = 2 /\ n # N - 2 /\ (n # N - 1 \/ tile # T - 1)
  BY <1>1 DEF PushPrev
<1>8. CASE v = 0
  BY <1>1, <1>2, <1>4, <1>5, <1>8 DEF One
<1>9. CASE v = 1
  BY <1>1, <1>2, <1>4, <1>5, <1>6, <1>7, <1>9 DEF One
<1>10. CASE v = 2
  <2>1. \A k \in Nat : Before(c, tile, k) = One(tile > 0 \/ k > 0) + One(k > 1) - One(k > N - 2)
    BY <1>4, <1>10
  <2>2. \A k : Between(c, k) = One(k > 0 /\ k < T)
    BY <1>5, <1>10
  <2>3. Pop(c, tile, n) <=> ((tile > 0 \/ n > 0) /\ n # 1)
    BY <1>6, <1>10
  <2>4. PushPrev(c, tile, n) <=> (n # N - 2 /\ (n # N - 1 \/ tile # T - 1))
    BY <1>7, <1>10
  <2>5. /\ Before(c, tile, n) \in Nat /\ Between(c, tile) \in Nat /\ Between(c, tile + 1) \in Nat
        /\ Pop(c, tile, n) => Before(c, tile, n) > 0
    BY <1>2, <1>3, <1>10, <2>1, <2>2, <2>3 DEF One
  <2>6. Before(c, tile, 0) = Between(c, tile) + One(SlotsOf(c) = 1)
    <3>1. Before(c, tile, 0) = One(tile > 0) + One(FALSE) - One(FALSE)
      BY <1>2, <1>3, <1>10, <2>1 DEF One
    <3>2. Between(c, tile) = One(tile > 0) /\ ~(SlotsOf(c) = 1)
      BY <1>1, <1>2, <1>10, <2>2 DEF One
    <3> QED BY <3>1, <3>2 DEF One
  <2>7. n # N - 1 =>
          Before(c, tile, n) - One(Pop(c, tile, n)) + One(PushPrev(c, tile, n))
            = Before(c, tile, n + 1)
    BY <1>2, <1>3, <1>10, <2>1, <2>3, <2>4 DEF One
  <2>8. n = N - 1 =>
          Before(c, tile, n) - One(Pop(c, tile, n)) + One(PushPrev(c, tile, n))
            = Between(c, tile + 1)
    <3> SUFFICES ASSUME n = N - 1
                 PROVE  Before(c, tile, n) - One(Pop(c, tile, n)) + One(PushPrev(c, tile, n))
                          = Between(c, tile + 1)
      OBVIOUS
    <3>1. Before(c, tile, n) = One(TRUE) + One(n > 1) - One(TRUE)
      BY <1>2, <1>3, <1>10, <2>1 DEF One
    <3>2. Between(c, tile + 1) = One(tile + 1 < T)
      BY <1>2, <2>2 DEF One
    <3>3. (Pop(c, tile, n) <=> n # 1) /\ (PushPrev(c, tile, n) <=> tile + 1 < T)
      BY <1>1, <1>2, <1>3, <1>10, <2>3, <2>4
    <3>4. n \in Nat \ {0}
      BY <1>2, <1>3, <1>10
    <3> QED BY <3>1, <3>2, <3>3, <3>4 DEF One
  <2> QED BY <1>1, <1>10, <2>5, <2>6, <2>7, <2>8
<1> QED BY <1>8, <1>9, <1>10

LEMMA OneIs == One(TRUE) = 1 /\ One(FALSE) = 0 /\ \A p : One(p) \in {0, 1}
BY DEF One

\* The counters after an instruction.
LEMMA QueueStep == ASSUME PosInv, QueueInv, [Next]_vars PROVE QueueInv'
<1> DEFINE c == CallOf(test)
<1>1. /\ test \in Tests /\ Asserts(test) /\ c \in TestCalls
      /\ TilesOf(c) \in Nat \ {0} /\ StepsOf(c) \in Nat \ {0}
  BY Executing, Sizes DEF PosInv
<1>2. TokensAt(c, pc, queue)
  BY DEF QueueInv
<1>3. /\ 0 \in Tiles(c) /\ 0 \in Steps(c) /\ 0 \in Parts(c)
      /\ c \in TestCalls /\ Length(c) \in Nat \ {0, 1}
  BY <1>1, PartsOf, Executing
<1>4. SUFFICES ASSUME Running, test' = test PROVE TokensAt(c, pc', queue')
  <2>1. CASE UNCHANGED vars
    BY <1>2, <2>1 DEF vars, QueueInv
  <2>2. CASE Running
    <3>1. test' = test
      BY <2>2 DEF Running, ExecLoad, ExecMicroOp, ExecStore, ExecFinish
    <3>2. CallOf(test') = c
      BY <3>1
    <3> QED BY <1>4, <2>2, <3>1, <3>2 DEF QueueInv
  <2> QED BY <2>1, <2>2 DEF Next, Running, Terminated
<1>5. /\ ExecLoad => NextInsn
      /\ ExecStore => NextInsn
      /\ ExecFinish => NextInsn
      /\ ExecMicroOp => NextInsn \/ UNCHANGED <<pc, queue>>
  BY DEF ExecLoad, ExecStore, ExecFinish, ExecMicroOp
<1>6. NextInsn => pc' = pc + 1
  BY DEF NextInsn
<1>7. \A x \in Tiles(c) : x \in Nat
  BY <1>1 DEF Tiles
<1>8. CASE pc = 1 /\ queue = Tokens(0, 0, 0, 0)
  <2>1. NextInsn
    BY <1>3, <1>4, <1>5, <1>8, Moves
  <2>2. BlockInsn(pc) = LoadUop
    BY <1>1, <1>3, <1>8, BlockAtPlace DEF BlockInsn
  <2>3. Pops(LoadUop) = {} /\ Pushes(LoadUop) = {}
    BY <1>1, FlagsOfInsns
  <2>4. queue' = Tokens(0, 0, 0, 0)
    <3>1. \A q : Change(LoadUop, q) = 0
      BY <2>3 DEF Change, One
    <3> QED BY <1>8, <2>1, <2>2, <3>1, TokensTo
  <2>5. pc' = AccPos(c, 0)
    BY <1>1, <1>6, <1>8, <2>1, NextPlace
  <2>6. Between(c, 0) = 0 /\ One(0 > 0) = 0 /\ 0 \in 0 .. TilesOf(c)
    BY <1>1 DEF Between, One
  <2> QED BY <2>4, <2>5, <2>6 DEF TokensAt
<1>9. ASSUME NEW tile \in 0 .. TilesOf(c), pc = AccPos(c, tile),
             queue = Tokens(0, Between(c, tile), 0, One(tile > 0))
      PROVE  TokensAt(c, pc', queue')
  <2>1. CASE tile = TilesOf(c)
    <3>1. pc = Length(c)
      BY <1>1, <1>9, <2>1, NextPlace
    <3>2. NextInsn
      BY <1>3, <1>4, <1>5, <3>1, Moves
    <3>3. BlockInsn(pc) = Finish /\ Pops(Finish) = {s2g} /\ Pushes(Finish) = {}
      BY <1>1, <1>3, <3>1, BlockAtPlace, FlagsOfInsns DEF BlockInsn
    <3>4. Between(c, tile) = 0 /\ One(tile > 0) = 1
      BY <1>1, <2>1 DEF Between, One
    <3>5. queue' = Tokens(0, 0, 0, 0)
      <4>1. queue = Tokens(0, 0, 0, 1)
        BY <1>9, <3>4
      <4>2. /\ Change(Finish, l2g) = 0 /\ Change(Finish, g2l) = 0 /\ Change(Finish, g2s) = 0
            /\ Change(Finish, s2g) = -1
        BY <3>3, QueueNames DEF Change, One
      <4>3. 0 = 1 + Change(Finish, s2g) /\ 0 = 0 + Change(Finish, l2g)
            /\ 0 = 0 + Change(Finish, g2l) /\ 0 = 0 + Change(Finish, g2s)
        BY <4>2
      <4> QED BY <3>2, <3>3, <4>1, <4>3, TokensTo
    <3> QED BY <1>6, <3>1, <3>2, <3>5 DEF TokensAt
  <2>2. CASE tile # TilesOf(c)
    <3>1. tile \in Tiles(c) /\ tile \in Nat
      BY <1>1, <2>2 DEF Tiles
    <3>2. NextInsn
      BY <1>3, <1>4, <1>5, <1>9, <3>1, Moves
    <3>3. BlockInsn(pc) = AccInsn(c, tile)
      BY <1>1, <1>3, <1>9, <3>1, BlockAtPlace DEF BlockInsn
    <3>4. /\ Pops(AccInsn(c, tile)) = IF tile > 0 THEN {s2g} ELSE {}
          /\ Pushes(AccInsn(c, tile)) = IF SlotsOf(c) = 1 THEN {g2l} ELSE {}
      BY <1>1, <3>1, FlagsOfInsns
    <3>5. Between(c, tile) \in Int /\ Before(c, tile, 0) = Between(c, tile) + One(SlotsOf(c) = 1)
      BY <1>1, <1>3, <3>1, Released
    <3>6. queue' = Tokens(0, Before(c, tile, 0), 0, 0)
      <4>1. PICK b \in Int, f \in {0, 1} : b = Between(c, tile) /\ f = One(tile > 0)
        BY <3>5, OneIs
      <4>2. queue = Tokens(0, b, 0, f)
        BY <1>9, <4>1
      <4> DEFINE i == AccInsn(c, tile)
      <4>3. /\ Change(i, l2g) = 0 /\ Change(i, g2s) = 0
            /\ Change(i, g2l) = One(SlotsOf(c) = 1) /\ Change(i, s2g) = 0 - One(tile > 0)
        BY <3>4, QueueNames DEF Change, One
      <4> HIDE DEF i
      <4>4. PICK bb \in Int : bb = Before(c, tile, 0)
        BY <1>1, <1>3, <3>1, Released
      <4>5. 0 = 0 + Change(i, l2g) /\ bb = b + Change(i, g2l) /\ 0 = 0 + Change(i, g2s)
            /\ 0 = f + Change(i, s2g)
        BY <3>5, <4>1, <4>3, <4>4
      <4>6. queue' = Tokens(0, bb, 0, 0)
        BY <3>2, <3>3, <4>1, <4>2, <4>5, TokensTo DEF i
      <4> QED BY <4>4, <4>6
    <3>7. pc' = PartPos(c, tile, 0, 0)
      BY <1>1, <1>6, <1>9, <3>1, <3>2, NextPlace
    <3>8. One(0 = 2) = 0 /\ Before(c, tile, 0) - One(0 > 0 /\ Pop(c, tile, 0)) = Before(c, tile, 0)
      <4>1. Before(c, tile, 0) \in Int
        BY <1>1, <1>3, <3>1, Released
      <4> QED BY <4>1 DEF One
    <3>9. queue' = Tokens(One(0 = 2), Before(c, tile, 0) - One(0 > 0 /\ Pop(c, tile, 0)), 0, 0)
      BY <3>6, <3>8
    <3> QED BY <1>3, <3>1, <3>7, <3>9 DEF TokensAt
  <2> QED BY <2>1, <2>2
<1>10. ASSUME NEW tile \in Tiles(c), pc = OutPos(c, tile),
              queue = Tokens(0, Between(c, tile + 1), 1, 0)
       PROVE  TokensAt(c, pc', queue')
  <2>1. NextInsn /\ tile \in Nat
    BY <1>3, <1>4, <1>5, <1>7, <1>10, Moves
  <2>2. BlockInsn(pc) = StoreInsn(c, tile)
    BY <1>1, <1>3, <1>10, BlockAtPlace DEF BlockInsn
  <2>3. Pops(StoreInsn(c, tile)) = {g2s} /\ Pushes(StoreInsn(c, tile)) = {s2g}
    BY <1>1, <2>1, FlagsOfInsns
  <2>4. Between(c, tile + 1) \in Int
    BY <1>1, <1>3, Released
  <2>5. queue' = Tokens(0, Between(c, tile + 1), 0, 1)
    <3> DEFINE i == StoreInsn(c, tile)
    <3>1. /\ Change(i, l2g) = 0 /\ Change(i, g2l) = 0 /\ Change(i, g2s) = -1
          /\ Change(i, s2g) = 1
      BY <2>3, QueueNames DEF Change, One
    <3> HIDE DEF i
    <3>2. PICK b \in Int : b = Between(c, tile + 1)
      BY <2>4
    <3>3. 0 = 0 + Change(i, l2g) /\ b = b + Change(i, g2l) /\ 0 = 1 + Change(i, g2s)
          /\ 1 = 0 + Change(i, s2g)
      BY <3>1
    <3>4. queue = Tokens(0, b, 1, 0)
      BY <1>10, <3>2
    <3>5. queue' = Tokens(0, b, 0, 1)
      BY <2>1, <2>2, <3>3, <3>4, TokensTo DEF i
    <3> QED BY <3>2, <3>5
  <2>6. pc' = AccPos(c, tile + 1)
    BY <1>1, <1>6, <1>10, <2>1, NextPlace
  <2>7. tile + 1 \in 0 .. TilesOf(c) /\ One(tile + 1 > 0) = 1
    BY <1>1, <2>1 DEF Tiles, One
  <2> QED BY <2>5, <2>6, <2>7 DEF TokensAt
<1>11. ASSUME NEW tile \in Tiles(c), NEW n \in Steps(c), NEW e \in Parts(c),
              pc = PartPos(c, tile, n, e),
              queue = Tokens(One(e = 2), Before(c, tile, n) - One(e > 0 /\ Pop(c, tile, n)), 0, 0)
       PROVE  TokensAt(c, pc', queue')
  <2>0. PICK b \in Nat : b = Before(c, tile, n)
    BY <1>1, Released
  <2>1. tile \in Nat /\ n \in Nat /\ e \in Nat
    BY <1>1, PlaceBounds
  <2>2. BlockInsn(pc) = OfStep(c, tile, n, e)
    BY <1>1, <1>11, BlockAtPlace DEF BlockInsn
  <2>3. /\ SlotsOf(c) = 0 => LastPart(c) = 0 /\ Parts(c) = {0} /\ n = StepsOf(c) - 1
        /\ SlotsOf(c) # 0 => LastPart(c) = 2 /\ Parts(c) = {0, 1, 2}
    BY <1>1, Sizes DEF Parts, LastPart, PerStep, Steps
  <2>4. CASE e # LastPart(c)
    <3>1. NextInsn /\ SlotsOf(c) # 0 /\ e \in {0, 1}
      BY <1>4, <1>5, <1>11, <2>3, <2>4, Moves
    <3>2. pc' = PartPos(c, tile, n, e + 1) /\ e + 1 \in Parts(c)
      BY <1>1, <1>6, <1>11, <2>1, <2>3, <3>1, NextPlace
    <3>3. CASE e = 0
      <4>1. BlockInsn(pc) = WgtInsn(c, tile, n)
        BY <2>2, <3>1, <3>3 DEF OfStep, PerStep
      <4>2. /\ Pops(WgtInsn(c, tile, n)) = IF Pop(c, tile, n) THEN {g2l} ELSE {}
            /\ Pushes(WgtInsn(c, tile, n)) = {}
        BY <1>1, <2>1, FlagsOfInsns
      <4>3. queue = Tokens(0, b, 0, 0)
        <5>1. One(e = 2) = 0 /\ One(e > 0 /\ Pop(c, tile, n)) = 0
          BY <3>3 DEF One
        <5> QED BY <1>11, <2>0, <5>1
      <4> DEFINE x == One(Pop(c, tile, n))
      <4>4. x \in {0, 1}
        BY OneIs
      <4>5. queue' = Tokens(0, b - x, 0, 0)
        <5> DEFINE i == WgtInsn(c, tile, n)
        <5>1. /\ Change(i, l2g) = 0 /\ Change(i, g2s) = 0 /\ Change(i, s2g) = 0
              /\ Change(i, g2l) = 0 - x
          BY <4>2, QueueNames DEF Change, One
        <5> HIDE DEF i, x
        <5>2. PICK bb \in Int : bb = b - x
          BY <4>4
        <5>3. 0 = 0 + Change(i, l2g) /\ bb = b + Change(i, g2l) /\ 0 = 0 + Change(i, g2s)
              /\ 0 = 0 + Change(i, s2g)
          BY <4>4, <5>1, <5>2
        <5>4. queue' = Tokens(0, bb, 0, 0)
          BY <3>1, <4>1, <4>3, <5>3, TokensTo DEF i
        <5> QED BY <5>2, <5>4
      <4>6. /\ One(e + 1 = 2) = 0 /\ One(e + 1 > 0 /\ Pop(c, tile, n)) = x
        BY <3>3 DEF One
      <4> HIDE DEF x
      <4>7. queue' = Tokens(One(e + 1 = 2),
                            Before(c, tile, n) - One(e + 1 > 0 /\ Pop(c, tile, n)), 0, 0)
        BY <2>0, <4>5, <4>6
      <4> QED BY <3>2, <4>7 DEF TokensAt
    <3>4. CASE e = 1
      <4>1. BlockInsn(pc) = InpInsn(c, tile, n)
        BY <2>2, <3>1, <3>4 DEF OfStep, PerStep
      <4>2. Pops(InpInsn(c, tile, n)) = {} /\ Pushes(InpInsn(c, tile, n)) = {l2g}
        BY <1>1, <2>1, FlagsOfInsns
      <4> DEFINE x == One(Pop(c, tile, n))
      <4>3. queue = Tokens(0, b - x, 0, 0)
        <5>1. One(e = 2) = 0 /\ One(e > 0 /\ Pop(c, tile, n)) = x
          BY <3>4 DEF One
        <5> HIDE DEF x
        <5> QED BY <1>11, <2>0, <5>1
      <4>4. x \in {0, 1}
        BY OneIs
      <4>5. One(e + 1 = 2) = 1 /\ One(e + 1 > 0 /\ Pop(c, tile, n)) = x
        BY <3>4 DEF One
      <4> HIDE DEF x
      <4>6. b - x \in Int
        BY <4>4
      <4>7. queue' = Tokens(1, b - x, 0, 0)
        <5> DEFINE i == InpInsn(c, tile, n)
        <5>1. /\ Change(i, l2g) = 1 /\ Change(i, g2s) = 0 /\ Change(i, s2g) = 0
              /\ Change(i, g2l) = 0
          BY <4>2, QueueNames DEF Change, One
        <5> HIDE DEF i
        <5>2. PICK bb \in Int : bb = b - x
          BY <4>6
        <5>3. 1 = 0 + Change(i, l2g) /\ bb = bb + Change(i, g2l) /\ 0 = 0 + Change(i, g2s)
              /\ 0 = 0 + Change(i, s2g)
          BY <5>1
        <5>4. queue = Tokens(0, bb, 0, 0)
          BY <4>3, <5>2
        <5>5. queue' = Tokens(1, bb, 0, 0)
          BY <3>1, <4>1, <5>3, <5>4, TokensTo DEF i
        <5> QED BY <5>2, <5>5
      <4>8. queue' = Tokens(One(e + 1 = 2),
                            Before(c, tile, n) - One(e + 1 > 0 /\ Pop(c, tile, n)), 0, 0)
        BY <2>0, <4>5, <4>7
      <4> QED BY <3>2, <4>8 DEF TokensAt
    <3> QED BY <3>1, <3>3, <3>4
  <2>5. CASE e = LastPart(c)
    <3>1. NextInsn \/ UNCHANGED <<pc, queue>>
      BY <1>4, <1>5, <1>11, <2>5, Moves
    <3>2. CASE UNCHANGED <<pc, queue>>
      BY <1>2, <3>2
    <3>3. CASE NextInsn
      <4>1. BlockInsn(pc) = StepInsn(c, tile, n)
        BY <2>2, <2>5 DEF OfStep, LastPart
      <4>2. /\ Pops(StepInsn(c, tile, n)) = IF SlotsOf(c) = 0 THEN {} ELSE {l2g}
            /\ Pushes(StepInsn(c, tile, n)) =
                 (IF SlotsOf(c) # 0 /\ PushPrev(c, tile, n) THEN {g2l} ELSE {})
                   \cup (IF SlotsOf(c) = 0 \/ n = StepsOf(c) - 1 THEN {g2s} ELSE {})
        BY <1>1, <2>1, FlagsOfInsns
      <4> DEFINE i == StepInsn(c, tile, n)
                 x == One(Pop(c, tile, n))
                 y == One(PushPrev(c, tile, n))
                 last == One(n = StepsOf(c) - 1)
      <4>3. x \in {0, 1} /\ y \in {0, 1}
        BY OneIs
      <4>4. /\ One(l2g \in Pushes(i)) = 0 /\ One(g2l \in Pops(i)) = 0 /\ One(g2s \in Pops(i)) = 0
            /\ One(s2g \in Pushes(i)) = 0 /\ One(s2g \in Pops(i)) = 0
            /\ One(g2s \in Pushes(i)) = last
            /\ SlotsOf(c) # 0 => One(g2l \in Pushes(i)) = y /\ One(l2g \in Pops(i)) = 1
            /\ SlotsOf(c) = 0 => One(g2l \in Pushes(i)) = 0 /\ One(l2g \in Pops(i)) = 0
        BY <2>3, <4>2, QueueNames DEF One
      <4>5. /\ pc' = PartPos(c, tile, n + 1, 0)
            /\ n = StepsOf(c) - 1 => pc' = OutPos(c, tile)
        <5>1. pc' = PartPos(c, tile, n + 1, 0) /\ PartPos(c, tile, StepsOf(c), 0) = OutPos(c, tile)
          BY <1>1, <1>6, <1>11, <2>1, <2>5, <3>3, NextPlace
        <5>2. n = StepsOf(c) - 1 => n + 1 = StepsOf(c)
          BY <1>1
        <5> QED BY <5>1, <5>2
      <4>6. queue' = Tokens(0, IF SlotsOf(c) = 0 THEN 0 ELSE b - x + y, last, 0)
        <5>1. CASE SlotsOf(c) = 0
          <6>1. e = 0 /\ b = 0
            BY <1>1, <2>0, <2>3, <2>5, <5>1, Released
          <6>2. One(e = 2) = 0 /\ One(e > 0 /\ Pop(c, tile, n)) = 0
            BY <6>1 DEF One
          <6>3. queue = Tokens(0, 0, 0, 0)
            <7>1. Before(c, tile, n) - One(e > 0 /\ Pop(c, tile, n)) = 0
              BY <2>0, <6>1, <6>2
            <7> QED BY <1>11, <6>2, <7>1
          <6> HIDE DEF i, x, y, last
          <6>4. queue' = Tokens(0 + One(l2g \in Pushes(i)) - One(l2g \in Pops(i)),
                                0 + One(g2l \in Pushes(i)) - One(g2l \in Pops(i)),
                                0 + One(g2s \in Pushes(i)) - One(g2s \in Pops(i)),
                                0 + One(s2g \in Pushes(i)) - One(s2g \in Pops(i)))
            BY <3>3, <4>1, <6>3, TokensMove DEF i
          <6>5. last \in {0, 1}
            BY OneIs DEF last
          <6> QED BY <4>4, <5>1, <6>4, <6>5
        <5>2. CASE SlotsOf(c) # 0
          <6>1. e = 2
            BY <2>3, <2>5, <5>2
          <6>2. One(e = 2) = 1 /\ One(e > 0 /\ Pop(c, tile, n)) = x
            BY <6>1 DEF One
          <6> HIDE DEF i, x, y, last
          <6>3. queue = Tokens(1, b - x, 0, 0) /\ b - x \in Int
            BY <1>11, <2>0, <4>3, <6>2
          <6>4. queue' = Tokens(1 + One(l2g \in Pushes(i)) - One(l2g \in Pops(i)),
                                (b - x) + One(g2l \in Pushes(i)) - One(g2l \in Pops(i)),
                                0 + One(g2s \in Pushes(i)) - One(g2s \in Pops(i)),
                                0 + One(s2g \in Pushes(i)) - One(s2g \in Pops(i)))
            BY <3>3, <4>1, <6>3, TokensMove DEF i
          <6>5. last \in {0, 1}
            BY OneIs DEF last
          <6> QED BY <4>3, <4>4, <5>2, <6>3, <6>4, <6>5
        <5> QED BY <5>1, <5>2
      <4>7. CASE n = StepsOf(c) - 1
        <5>1. last = 1
          BY <4>7, OneIs
        <5>2. (IF SlotsOf(c) = 0 THEN 0 ELSE b - x + y) = Between(c, tile + 1)
          <6>1. CASE SlotsOf(c) = 0
            BY <1>1, <6>1, Released
          <6>2. CASE SlotsOf(c) # 0
            BY <1>1, <2>0, <4>7, <6>2, Released
          <6> QED BY <6>1, <6>2
        <5> HIDE DEF x, y, last
        <5>3. queue' = Tokens(0, Between(c, tile + 1), 1, 0)
          BY <4>6, <5>1, <5>2
        <5> QED BY <4>5, <4>7, <5>3 DEF TokensAt
      <4>8. CASE n # StepsOf(c) - 1
        <5>1. last = 0 /\ SlotsOf(c) # 0 /\ n + 1 \in Steps(c)
          BY <1>1, <2>3, <4>8 DEF One, Steps
        <5>2. b - x + y = Before(c, tile, n + 1)
          BY <1>1, <2>0, <4>8, <5>1, Released
        <5>3. Before(c, tile, n + 1) \in Nat
          BY <1>1, <5>1, Released
        <5>4. One(0 = 2) = 0 /\ One(0 > 0 /\ Pop(c, tile, n + 1)) = 0
          BY DEF One
        <5> HIDE DEF x, y, last
        <5>5. queue' = Tokens(One(0 = 2),
                              Before(c, tile, n + 1) - One(0 > 0 /\ Pop(c, tile, n + 1)), 0, 0)
          BY <4>6, <5>1, <5>2, <5>3, <5>4
        <5> QED BY <1>3, <4>5, <5>1, <5>5 DEF TokensAt
      <4> QED BY <4>7, <4>8
    <3> QED BY <3>1, <3>2, <3>3
  <2> QED BY <2>4, <2>5
<1>12. ~(pc = Length(c) + 1)
  BY <1>3, <1>4, Executing DEF Running
<1> HIDE DEF c
<1> QED BY <1>2, <1>8, <1>9, <1>10, <1>11, <1>12 DEF TokensAt

LEMMA QueueInit == ASSUME Init PROVE QueueInv
<1>1. queue = [q \in Queues |-> 0] /\ pc = 1
  BY DEF Init
<1>2. Tokens(0, 0, 0, 0) = [q \in Queues |-> 0]
  BY DEF Tokens
<1> QED BY <1>1, <1>2 DEF QueueInv, TokensAt

\* Read in the order of the buffer no counter becomes negative, and FINISH leaves
\* all four at zero, for matrices of any size.
THEOREM Balanced == Spec => []QueuesBalance
<1>1. Init => PosInv /\ QueueInv
  BY PosInit, QueueInit
<1>2. (PosInv /\ QueueInv) /\ [Next]_vars => (PosInv /\ QueueInv)'
  BY PosStep, QueueStep
<1>3. PosInv /\ QueueInv => QueuesBalance
  <2> SUFFICES ASSUME PosInv, QueueInv PROVE QueuesBalance
    OBVIOUS
  <2> DEFINE c == CallOf(test)
             Counted == \E a \in Nat, b \in Nat, d \in Nat, f \in Nat : queue = Tokens(a, b, d, f)
  <2>1. /\ c \in TestCalls /\ Length(c) \in Nat \ {0, 1}
        /\ TilesOf(c) \in Nat \ {0} /\ 0 \in Tiles(c) /\ 0 \in Steps(c) /\ 0 \in Parts(c)
        /\ (Done <=> pc = Length(c) + 1)
    BY Executing, Sizes, PartsOf DEF PosInv
  <2>2. TokensAt(c, pc, queue)
    BY DEF QueueInv
  <2>3. (pc = Length(c) + 1 /\ queue = Tokens(0, 0, 0, 0)) \/ (Counted /\ pc \in 1 .. Length(c))
    <3>1. CASE pc = 1 /\ queue = Tokens(0, 0, 0, 0)
      BY <2>1, <3>1
    <3>2. ASSUME NEW tile \in 0 .. TilesOf(c), pc = AccPos(c, tile),
                 queue = Tokens(0, Between(c, tile), 0, One(tile > 0))
          PROVE  Counted /\ pc \in 1 .. Length(c)
      <4>1. Between(c, tile) \in Nat /\ One(tile > 0) \in Nat
        BY OneIs DEF Between
      <4>2. pc \in 1 .. Length(c)
        <5>1. CASE tile = TilesOf(c)
          BY <2>1, <3>2, <5>1, NextPlace
        <5>2. CASE tile # TilesOf(c)
          <6>1. tile \in Tiles(c)
            BY <2>1, <5>2 DEF Tiles
          <6> QED BY <2>1, <3>2, <6>1, PlaceBounds
        <5> QED BY <5>1, <5>2
      <4> QED BY <3>2, <4>1, <4>2
    <3>3. ASSUME NEW tile \in Tiles(c), NEW n \in Steps(c), NEW e \in Parts(c),
                 pc = PartPos(c, tile, n, e),
                 queue = Tokens(One(e = 2), Before(c, tile, n) - One(e > 0 /\ Pop(c, tile, n)), 0, 0)
          PROVE  Counted /\ pc \in 1 .. Length(c)
      <4>1. pc \in 1 .. Length(c)
        BY <2>1, <3>3, PlaceBounds
      <4>2. One(e = 2) \in Nat
        BY OneIs
      <4>3. Before(c, tile, n) - One(e > 0 /\ Pop(c, tile, n)) \in Nat
        <5>1. Before(c, tile, n) \in Nat /\ (SlotsOf(c) # 0 /\ Pop(c, tile, n) => Before(c, tile, n) > 0)
          BY <2>1, Released
        <5>2. e > 0 => SlotsOf(c) # 0
          BY <2>1, Sizes DEF Parts, LastPart, PerStep
        <5> HIDE DEF c
        <5> QED BY <5>1, <5>2 DEF One
      <4> QED BY <3>3, <4>1, <4>2, <4>3
    <3>4. ASSUME NEW tile \in Tiles(c), pc = OutPos(c, tile),
                 queue = Tokens(0, Between(c, tile + 1), 1, 0)
          PROVE  Counted /\ pc \in 1 .. Length(c)
      <4>1. Between(c, tile + 1) \in Nat
        BY OneIs DEF Between
      <4>2. pc \in 1 .. Length(c)
        BY <2>1, <3>4, PlaceBounds
      <4> QED BY <3>4, <4>1, <4>2
    <3> HIDE DEF Counted, c
    <3> QED BY <2>2, <3>1, <3>2, <3>3, <3>4 DEF TokensAt
  <2>4. ASSUME NEW a \in Nat, NEW b \in Nat, NEW d \in Nat, NEW f \in Nat,
               queue = Tokens(a, b, d, f)
        PROVE  \A q \in DOMAIN queue : queue[q] >= 0
    BY <2>4 DEF Tokens
  <2>5. queue = Tokens(0, 0, 0, 0) => \A q \in DOMAIN queue : queue[q] = 0
    BY DEF Tokens
  <2> HIDE DEF c
  <2> QED BY <2>1, <2>3, <2>4, <2>5 DEF QueuesBalance
<1> QED BY <1>1, <1>2, <1>3, PTL DEF Spec

-----------------------------------------------------------------------------
(* The passes of the loops                                                  *)

\* The number with digits i, j, k, of which j is below v and k below w.
Mixed(v, w, i, j, k) == w * (v * i + j) + k
HasDigits(a, u, v, w, i, j, k) ==
  /\ a \in Nat /\ a < w * (v * u)
  /\ a \div w = v * i + j /\ a % w = k
  /\ (a \div w) \div v = i /\ (a \div w) % v = j
  /\ a \div (w * v) = i
SomeDigits(a, u, v, w) ==
  \E i \in 0 .. u - 1, j \in 0 .. v - 1, k \in 0 .. w - 1 : a = Mixed(v, w, i, j, k)

LEMMA Digits ==
  ASSUME NEW u \in Nat \ {0}, NEW v \in Nat \ {0}, NEW w \in Nat \ {0},
         NEW i \in 0 .. u - 1, NEW j \in 0 .. v - 1, NEW k \in 0 .. w - 1
  PROVE  HasDigits(Mixed(v, w, i, j, k), u, v, w, i, j, k)
<1>1. i \in Nat /\ j \in Nat /\ k \in Nat /\ i < u /\ j < v /\ k < w
  OBVIOUS
<1>2. PICK y \in Nat : y = v * i + j
  BY <1>1
<1>3. PICK a \in Nat : a = w * y + k
  BY <1>1
<1>4. a \div w = y /\ a % w = k
  BY <1>3, Quotient
<1>5. y \div v = i /\ y % v = j
  BY <1>1, <1>2, Quotient
<1>6. y < v * u
  <2>1. v * i + v <= v * u /\ v * i \in Nat /\ v * u \in Nat
    BY <1>1, Multiples
  <2> QED BY <1>1, <1>2, <2>1
<1>7. a < w * (v * u)
  <2>1. PICK z \in Nat : z = v * u
    OBVIOUS
  <2>2. w * y + w <= w * z /\ w * y \in Nat /\ w * z \in Nat
    BY <1>6, <2>1, Multiples
  <2> QED BY <1>1, <1>3, <2>1, <2>2
<1>8. a \div (w * v) = i
  <2>1. PICK d \in Nat \ {0} : d = w * v
    OBVIOUS
  <2>2. PICK r \in Nat : r = w * j + k
    BY <1>1
  <2>3. r < d
    <3>1. w * j + w <= w * v /\ w * j \in Nat
      BY <1>1, Multiples
    <3> QED BY <1>1, <2>1, <2>2, <3>1
  <2>4. a = d * i + r
    <3>1. w * (v * i + j) = (w * v) * i + w * j
      BY <1>1
    <3>2. (w * v) * i \in Nat /\ w * j \in Nat
      BY <1>1
    <3> QED BY <1>1, <1>2, <1>3, <2>1, <2>2, <3>1, <3>2
  <2>5. r \in 0 .. d - 1
    BY <2>3
  <2>6. a \div d = i
    BY <1>1, <2>4, <2>5, Quotient
  <2> QED BY <2>1, <2>6
<1>9. a = Mixed(v, w, i, j, k)
  BY <1>2, <1>3 DEF Mixed
<1>10. HasDigits(a, u, v, w, i, j, k)
  BY <1>2, <1>4, <1>5, <1>7, <1>8 DEF HasDigits
<1> QED BY <1>9, <1>10

LEMMA DigitsCover ==
  ASSUME NEW u \in Nat \ {0}, NEW v \in Nat \ {0}, NEW w \in Nat \ {0},
         NEW a \in Nat, a < w * (v * u)
  PROVE  SomeDigits(a, u, v, w)
<1>1. PICK y \in Nat, k \in 0 .. w - 1 : y = a \div w /\ a = w * y + k
  <2>1. a \div w \in Nat /\ a % w \in 0 .. w - 1 /\ a = w * (a \div w) + (a % w)
    BY DivMod
  <2> QED BY <2>1
<1>2. y < v * u
  <2>1. PICK z \in Nat : z = v * u
    OBVIOUS
  <2>2. a \div w < z
    BY <2>1, QuotientBound
  <2> QED BY <1>1, <2>1, <2>2
<1>3. PICK i \in Nat, j \in 0 .. v - 1 : i = y \div v /\ y = v * i + j
  <2>1. y \div v \in Nat /\ y % v \in 0 .. v - 1 /\ y = v * (y \div v) + (y % v)
    BY DivMod
  <2> QED BY <2>1
<1>4. i < u
  BY <1>1, <1>2, <1>3, QuotientBound
<1>5. i \in 0 .. u - 1
  BY <1>4
<1>6. a = Mixed(v, w, i, j, k)
  BY <1>1, <1>3 DEF Mixed
<1> QED BY <1>5, <1>6 DEF SomeDigits

\* The pass that adds to the output in row x and column k of a block the product
\* of input column b.
Pass(t, x, b, k) ==
  IF t.comp THEN Mixed(BOut(t), BRows(t), b, k, x) ELSE Mixed(BIn(t), BOut(t), x, b, k)
InRows(t) == 0 .. BRows(t) - 1
InCols(t) == 0 .. BIn(t) - 1
OutCols(t) == 0 .. BOut(t) - 1

LEMMA Passes ==
  ASSUME NEW t \in Tests, Asserts(t), t.kind # "alu"
  PROVE  /\ \A x \in InRows(t), b \in InCols(t), k \in OutCols(t) : Pass(t, x, b, k) \in 0 .. Work(t) - 1
         /\ \A a \in 0 .. Work(t) - 1 :
              \E x \in InRows(t), b \in InCols(t), k \in OutCols(t) : a = Pass(t, x, b, k)
<1>1. PICK h \in Nat \ {0}, p \in Nat \ {0}, q \in Nat \ {0} :
        h = BRows(t) /\ p = BIn(t) /\ q = BOut(t)
  BY Dimensions
<1>2. /\ InRows(t) = 0 .. h - 1 /\ InCols(t) = 0 .. p - 1 /\ OutCols(t) = 0 .. q - 1
      /\ \A x, b, k : Pass(t, x, b, k) = IF t.comp THEN Mixed(q, h, b, k, x) ELSE Mixed(p, q, x, b, k)
  BY <1>1 DEF InRows, InCols, OutCols, Pass
<1>3. PICK w \in Nat : w = Work(t) /\ w = h * (q * p) /\ w = q * (p * h)
  <2>1. Work(t) = h * p * q
    BY <1>1 DEF Work
  <2>2. h * p * q = h * (q * p) /\ h * p * q = q * (p * h) /\ h * p * q \in Nat
    OBVIOUS
  <2> QED BY <2>1, <2>2
<1>4. ASSUME NEW x \in 0 .. h - 1, NEW b \in 0 .. p - 1, NEW k \in 0 .. q - 1
      PROVE  /\ Mixed(q, h, b, k, x) \in 0 .. w - 1
             /\ Mixed(p, q, x, b, k) \in 0 .. w - 1
  <2>1. HasDigits(Mixed(q, h, b, k, x), p, q, h, b, k, x)
    BY Digits, Zenon
  <2>2. HasDigits(Mixed(p, q, x, b, k), h, p, q, x, b, k)
    BY Digits, Zenon
  <2>3. Mixed(q, h, b, k, x) \in Nat /\ Mixed(q, h, b, k, x) < w
    BY <1>3, <2>1, Zenon DEF HasDigits
  <2>4. Mixed(p, q, x, b, k) \in Nat /\ Mixed(p, q, x, b, k) < w
    BY <1>3, <2>2, Zenon DEF HasDigits
  <2> QED BY <2>3, <2>4
<1>5. ASSUME NEW a \in 0 .. w - 1
      PROVE  /\ \E x \in 0 .. h - 1, b \in 0 .. p - 1, k \in 0 .. q - 1 : a = Mixed(q, h, b, k, x)
             /\ \E x \in 0 .. h - 1, b \in 0 .. p - 1, k \in 0 .. q - 1 : a = Mixed(p, q, x, b, k)
  <2>1. a \in Nat /\ a < w
    OBVIOUS
  <2>2. a < h * (q * p) /\ a < q * (p * h)
    BY <1>3, <2>1, Zenon
  <2>3. SomeDigits(a, p, q, h) /\ SomeDigits(a, h, p, q)
    BY <2>1, <2>2, DigitsCover, Zenon
  <2> QED BY <2>3, Zenon DEF SomeDigits
<1>6. \A x \in 0 .. h - 1, b \in 0 .. p - 1, k \in 0 .. q - 1 : Pass(t, x, b, k) \in 0 .. w - 1
  <2> TAKE x \in 0 .. h - 1, b \in 0 .. p - 1, k \in 0 .. q - 1
  <2>1. Pass(t, x, b, k) = IF t.comp THEN Mixed(q, h, b, k, x) ELSE Mixed(p, q, x, b, k)
    BY <1>2
  <2> QED BY <1>4, <2>1
<1>7. \A a \in 0 .. w - 1 :
        \E x \in 0 .. h - 1, b \in 0 .. p - 1, k \in 0 .. q - 1 : a = Pass(t, x, b, k)
  <2> TAKE a \in 0 .. w - 1
  <2>1. CASE t.comp
    <3>1. PICK x \in 0 .. h - 1, b \in 0 .. p - 1, k \in 0 .. q - 1 : a = Mixed(q, h, b, k, x)
      BY <1>5
    <3>2. Pass(t, x, b, k) = Mixed(q, h, b, k, x)
      BY <1>2, <2>1
    <3> QED BY <3>1, <3>2
  <2>2. CASE ~t.comp
    <3>1. PICK x \in 0 .. h - 1, b \in 0 .. p - 1, k \in 0 .. q - 1 : a = Mixed(p, q, x, b, k)
      BY <1>5
    <3>2. Pass(t, x, b, k) = Mixed(p, q, x, b, k)
      BY <1>2, <2>2
    <3> QED BY <3>1, <3>2
  <2> QED BY <2>1, <2>2
<1>8. InRows(t) = 0 .. h - 1 /\ InCols(t) = 0 .. p - 1 /\ OutCols(t) = 0 .. q - 1
  BY <1>2
<1>9. Work(t) = w
  BY <1>3
<1>10. \A x \in InRows(t), b \in InCols(t), k \in OutCols(t) : Pass(t, x, b, k) \in 0 .. Work(t) - 1
  BY <1>6, <1>8, <1>9
<1>11. \A a \in 0 .. Work(t) - 1 :
         \E x \in InRows(t), b \in InCols(t), k \in OutCols(t) : a = Pass(t, x, b, k)
  <2> TAKE a \in 0 .. Work(t) - 1
  <2>1. PICK x \in 0 .. h - 1, b \in 0 .. p - 1, k \in 0 .. q - 1 : a = Pass(t, x, b, k)
    BY <1>7, <1>9
  <2>2. x \in InRows(t) /\ b \in InCols(t) /\ k \in OutCols(t)
    BY <1>8
  <2> QED BY <2>1, <2>2
<1> QED BY <1>10, <1>11

\* Each pass is that of one element, and those of an element are in the order of
\* their columns.
LEMMA PassOrder ==
  ASSUME NEW t \in Tests, Asserts(t), t.kind # "alu",
         NEW x \in InRows(t), NEW b \in InCols(t), NEW k \in OutCols(t),
         NEW xx \in InRows(t), NEW bb \in InCols(t), NEW kk \in OutCols(t)
  PROVE  /\ Pass(t, x, b, k) = Pass(t, xx, bb, kk) => x = xx /\ b = bb /\ k = kk
         /\ b < bb => Pass(t, x, b, k) < Pass(t, x, bb, k)
<1>1. PICK h \in Nat \ {0}, p \in Nat \ {0}, q \in Nat \ {0} :
        h = BRows(t) /\ p = BIn(t) /\ q = BOut(t)
  BY Dimensions
<1>2. /\ x \in 0 .. h - 1 /\ b \in 0 .. p - 1 /\ k \in 0 .. q - 1
      /\ xx \in 0 .. h - 1 /\ bb \in 0 .. p - 1 /\ kk \in 0 .. q - 1
  BY <1>1 DEF InRows, InCols, OutCols
<1>3. CASE t.comp
  <2>1. \A y, z, l : Pass(t, y, z, l) = Mixed(q, h, z, l, y)
    BY <1>1, <1>3 DEF Pass
  <2>2. Mixed(q, h, b, k, x) = Mixed(q, h, bb, kk, xx) => x = xx /\ b = bb /\ k = kk
    <3>1. /\ (Mixed(q, h, b, k, x) \div h) \div q = b /\ (Mixed(q, h, b, k, x) \div h) % q = k
          /\ Mixed(q, h, b, k, x) % h = x
      <4>1. HasDigits(Mixed(q, h, b, k, x), p, q, h, b, k, x)
        BY <1>2, Digits, Zenon
      <4> QED BY <4>1, Zenon DEF HasDigits
    <3>2. /\ (Mixed(q, h, bb, kk, xx) \div h) \div q = bb /\ (Mixed(q, h, bb, kk, xx) \div h) % q = kk
          /\ Mixed(q, h, bb, kk, xx) % h = xx
      <4>1. HasDigits(Mixed(q, h, bb, kk, xx), p, q, h, bb, kk, xx)
        BY <1>2, Digits, Zenon
      <4> QED BY <4>1, Zenon DEF HasDigits
    <3> QED BY <3>1, <3>2
  <2>3. b < bb => Mixed(q, h, b, k, x) < Mixed(q, h, bb, k, x)
    <3> SUFFICES ASSUME b < bb PROVE Mixed(q, h, b, k, x) < Mixed(q, h, bb, k, x)
      OBVIOUS
    <3>1. q * b + q <= q * bb /\ q * b \in Nat /\ q * bb \in Nat
      BY <1>2, Multiples
    <3>2. PICK y \in Nat, z \in Nat : y = q * b + k /\ z = q * bb + k /\ y < z
      BY <1>2, <3>1
    <3>3. h * y + h <= h * z /\ h * y \in Nat /\ h * z \in Nat
      BY <3>2, Multiples
    <3> QED BY <1>2, <3>2, <3>3 DEF Mixed
  <2> QED BY <2>1, <2>2, <2>3
<1>4. CASE ~t.comp
  <2>1. \A y, z, l : Pass(t, y, z, l) = Mixed(p, q, y, z, l)
    BY <1>1, <1>4 DEF Pass
  <2>2. Mixed(p, q, x, b, k) = Mixed(p, q, xx, bb, kk) => x = xx /\ b = bb /\ k = kk
    <3>1. /\ (Mixed(p, q, x, b, k) \div q) \div p = x /\ (Mixed(p, q, x, b, k) \div q) % p = b
          /\ Mixed(p, q, x, b, k) % q = k
      <4>1. HasDigits(Mixed(p, q, x, b, k), h, p, q, x, b, k)
        BY <1>2, Digits, Zenon
      <4> QED BY <4>1, Zenon DEF HasDigits
    <3>2. /\ (Mixed(p, q, xx, bb, kk) \div q) \div p = xx /\ (Mixed(p, q, xx, bb, kk) \div q) % p = bb
          /\ Mixed(p, q, xx, bb, kk) % q = kk
      <4>1. HasDigits(Mixed(p, q, xx, bb, kk), h, p, q, xx, bb, kk)
        BY <1>2, Digits, Zenon
      <4> QED BY <4>1, Zenon DEF HasDigits
    <3> QED BY <3>1, <3>2
  <2>3. b < bb => Mixed(p, q, x, b, k) < Mixed(p, q, x, bb, k)
    <3> SUFFICES ASSUME b < bb PROVE Mixed(p, q, x, b, k) < Mixed(p, q, x, bb, k)
      OBVIOUS
    <3>1. p * x \in Nat
      BY <1>2
    <3>2. PICK y \in Nat, z \in Nat : y = p * x + b /\ z = p * x + bb /\ y < z
      BY <1>2, <3>1
    <3>3. q * y + q <= q * z /\ q * y \in Nat /\ q * z \in Nat
      BY <3>2, Multiples
    <3> QED BY <1>2, <3>2, <3>3 DEF Mixed
  <2> QED BY <2>1, <2>2, <2>3
<1> QED BY <1>3, <1>4

-----------------------------------------------------------------------------
(* The micro-ops                                                            *)

\* Micro-op u of thread l of a GEMM test.
LEMMA UopAt ==
  ASSUME NEW t \in Tests, Asserts(t), t.kind # "alu",
         NEW l \in 0 .. t.vt - 1, NEW u \in 0 .. HalfUops(t) - 1
  PROVE  Uops(t)[l * HalfUops(t) + u]
           = GemmUop(t, u, l * (BRows(t) * BIn(t)), l * (BOut(t) * BIn(t)))
<1>1. PICK a \in Nat, b \in Nat, half \in Nat \ {0} :
        a = BRows(t) * BIn(t) /\ b = BOut(t) * BIn(t) /\ half = HalfUops(t)
  <2>1. PICK h \in Nat \ {0}, p \in Nat \ {0}, q \in Nat \ {0} :
          h = BRows(t) /\ p = BIn(t) /\ q = BOut(t)
    BY Dimensions
  <2>2. HalfUops(t) = IF t.comp THEN h ELSE h * p * q
    BY <2>1 DEF HalfUops
  <2>3. h * p * q \in Nat \ {0} /\ h * p \in Nat /\ q * p \in Nat
    OBVIOUS
  <2> QED BY <2>1, <2>2, <2>3
<1>2. t.vt \in {1, 2}
  BY CallInBlocks
<1>3. UopSize(t) = half * t.vt
  BY <1>1 DEF UopSize, HalfUops
<1>4. UopSize(t) \div t.vt = half
  BY <1>2, <1>3, Exact
<1>5. Uops(t) = [y \in 0 .. (IF t.vt > 1 THEN 2 * half ELSE half) - 1 |->
                   IF y < half THEN GemmUop(t, y, 0, 0) ELSE GemmUop(t, y - half, a, b)]
  BY <1>1, <1>4 DEF Uops, GemmUops
<1>6. u \in Nat /\ u < half
  BY <1>1
<1>7. CASE l = 0
  <2>1. l * half + u = u /\ l * a = 0 /\ l * b = 0 /\ u \in 0 .. (IF t.vt > 1 THEN 2 * half ELSE half) - 1
    BY <1>2, <1>6, <1>7
  <2>2. Uops(t)[u] = GemmUop(t, u, 0, 0)
    BY <1>5, <1>6, <2>1
  <2> QED BY <1>1, <2>1, <2>2
<1>8. CASE l = 1
  <2>1. l * half + u = half + u /\ l * a = a /\ l * b = b /\ (half + u) - half = u
        /\ ~(half + u < half) /\ t.vt = 2
    BY <1>1, <1>2, <1>6, <1>8
  <2>2. half + u \in 0 .. (IF t.vt > 1 THEN 2 * half ELSE half) - 1
    BY <1>6, <2>1
  <2>3. Uops(t)[half + u] = GemmUop(t, (half + u) - half, a, b)
    BY <1>5, <2>1, <2>2
  <2> QED BY <1>1, <2>1, <2>3
<1> QED BY <1>2, <1>7, <1>8

\* What the micro-op of a pass addresses: its output, input and weight, the latter
\* in the slots of its thread.
LEMMA GemmMicroOp ==
  ASSUME test \in Tests, Asserts(test), test.kind # "alu", NEW l \in 0 .. test.vt - 1,
         NEW x \in InRows(test), NEW b \in InCols(test), NEW k \in OutCols(test),
         m = Pass(test, x, b, k)
  PROVE  LET uop == MicroOp(GemmInsn(test, l * HalfUops(test))) IN
         /\ uop.dst = SlotAt(0, BRows(test), BOut(test), x, k)
         /\ uop.src = SlotAt(l, BRows(test), BIn(test), x, b)
         /\ uop.wgt = SlotAt(l, BOut(test), BIn(test), k, b)
<1>1. PICK h \in Nat \ {0}, p \in Nat \ {0}, q \in Nat \ {0} :
        h = BRows(test) /\ p = BIn(test) /\ q = BOut(test)
  BY Dimensions
<1>2. x \in 0 .. h - 1 /\ b \in 0 .. p - 1 /\ k \in 0 .. q - 1
  BY <1>1 DEF InRows, InCols, OutCols
<1>3. l \in {0, 1}
  BY CallInBlocks
<1>4. PICK half \in Nat \ {0}, ia \in Nat, wa \in Nat, bgn \in Nat :
        /\ half = HalfUops(test) /\ ia = l * (h * p) /\ wa = l * (q * p) /\ bgn = l * half
        /\ half = IF test.comp THEN h ELSE h * p * q
  <2>1. HalfUops(test) = IF test.comp THEN h ELSE h * p * q
    BY <1>1 DEF HalfUops
  <2>2. h * p * q \in Nat \ {0} /\ h * p \in Nat /\ q * p \in Nat
    OBVIOUS
  <2> QED BY <1>3, <2>1, <2>2
<1> DEFINE i == GemmInsn(test, l * HalfUops(test))
           n == i.end - i.bgn
           uop == Uops(test)[i.bgn + (m % n)]
<1>5. MicroOp(i) =
        [dst |-> uop["dst"] + ((m \div (n * i.inner)) * i.fout[1]) + (((m \div n) % i.inner) * i.fin[1]),
         src |-> uop["src"] + ((m \div (n * i.inner)) * i.fout[2]) + (((m \div n) % i.inner) * i.fin[2]),
         wgt |-> uop["wgt"] + ((m \div (n * i.inner)) * i.fout[3]) + (((m \div n) % i.inner) * i.fin[3])]
  BY DEF MicroOp
<1>6. ASSUME NEW u \in 0 .. half - 1
      PROVE  Uops(test)[bgn + u] = GemmUop(test, u, ia, wa)
  BY <1>1, <1>4, UopAt
<1>7. CASE test.comp
  <2>1. m = Mixed(q, h, b, k, x) /\ half = h
    BY <1>1, <1>4, <1>7 DEF Pass
  <2>2. HasDigits(m, p, q, h, b, k, x)
    BY <1>2, <2>1, Digits, Zenon
  <2>3. /\ m \div h = q * b + k /\ m % h = x /\ (m \div h) % q = k /\ m \div (h * q) = b
    BY <2>2, Zenon DEF HasDigits
  <2>4. /\ i.bgn = bgn /\ i.end = bgn + h /\ i.inner = q
        /\ i.fout = <<0, 1, 1>> /\ i.fin = <<1, 0, p>>
    BY <1>1, <1>4, <1>7 DEF GemmInsn, Loops
  <2>5. n = h /\ bgn + (m % n) = bgn + x
    BY <2>3, <2>4
  <2>6. uop = GemmUop(test, x, ia, wa)
    <3>1. Uops(test)[bgn + x] = GemmUop(test, x, ia, wa)
      BY <1>2, <1>6, <2>1
    <3> QED BY <2>4, <2>5, <3>1
  <2>7. uop = [dst |-> x * q, src |-> ia + (x * p), wgt |-> wa]
    BY <1>1, <1>7, <2>6 DEF GemmUop
  <2>8. /\ uop["dst"] = x * q /\ uop["src"] = ia + (x * p) /\ uop["wgt"] = wa
    <3> HIDE DEF uop
    <3> QED BY <2>7
  <2>9. /\ i.fout[1] = 0 /\ i.fout[2] = 1 /\ i.fout[3] = 1
        /\ i.fin[1] = 1 /\ i.fin[2] = 0 /\ i.fin[3] = p
    <3> HIDE DEF i
    <3> QED BY <2>4
  <2>10. /\ m \div (n * i.inner) = b /\ (m \div n) % i.inner = k
    <3> HIDE DEF i
    <3> QED BY <2>3, <2>4, <2>5
  <2> HIDE DEF i, n, uop
  <2>11. MicroOp(i) = [dst |-> x * q + (b * 0) + (k * 1), src |-> ia + (x * p) + (b * 1) + (k * 0),
                       wgt |-> wa + (b * 1) + (k * p)]
    BY <1>5, <2>8, <2>9, <2>10
  <2>12. /\ x * q + (b * 0) + (k * 1) = 0 * (h * q) + (x * q + k)
         /\ ia + (x * p) + (b * 1) + (k * 0) = ia + (x * p + b)
         /\ wa + (b * 1) + (k * p) = wa + (k * p + b)
    <3>1. PICK y \in Nat, z \in Nat, w \in Nat, s \in Nat : y = x * q /\ z = x * p /\ w = k * p /\ s = h * q
      BY <1>2
    <3> QED BY <1>2, <3>1
  <2>13. /\ MicroOp(i).dst = 0 * (h * q) + (x * q + k) /\ MicroOp(i).src = ia + (x * p + b)
         /\ MicroOp(i).wgt = wa + (k * p + b)
    BY <2>11, <2>12
  <2> QED BY <1>1, <1>4, <2>13 DEF i, SlotAt
<1>8. CASE ~test.comp
  <2>1. m = Mixed(p, q, x, b, k) /\ half = h * p * q
    BY <1>1, <1>4, <1>8 DEF Pass
  <2>2. HasDigits(m, h, p, q, x, b, k)
    BY <1>2, <2>1, Digits, Zenon
  <2>3. /\ m % q = k /\ (m \div q) % p = b /\ m \div (q * p) = x /\ m \in Nat /\ m < q * (p * h)
    BY <2>2, Zenon DEF HasDigits
  <2>4. /\ i.bgn = bgn /\ i.end = bgn + (h * p * q) /\ i.inner = 1
        /\ i.fout = <<0, 0, 0>> /\ i.fin = <<0, 0, 0>>
    BY <1>1, <1>4, <1>8 DEF GemmInsn, Loops
  <2>5. n = half /\ m < half /\ m % n = m
    <3>1. q * (p * h) = h * p * q
      OBVIOUS
    <3>2. m < half
      BY <2>1, <2>3, <3>1
    <3>3. n = half
      <4>1. n = bgn + half - bgn
        BY <2>1, <2>4
      <4> HIDE DEF n
      <4> QED BY <4>1
    <3> HIDE DEF n
    <3>4. m % half = m
      BY <2>3, <3>2
    <3> QED BY <3>2, <3>3, <3>4
  <2>6. uop = GemmUop(test, m, ia, wa)
    <3>1. Uops(test)[bgn + m] = GemmUop(test, m, ia, wa)
      <4>1. m \in 0 .. half - 1
        BY <2>3, <2>5
      <4> QED BY <1>6, <4>1
    <3>2. uop = Uops(test)[bgn + m]
      <4> HIDE DEF n, i
      <4> QED BY <2>4, <2>5
    <3> QED BY <3>1, <3>2
  <2>7. uop = [dst |-> (x * q) + k, src |-> ia + (x * p) + b, wgt |-> wa + (k * p) + b]
    <3>1. p * q = q * p
      OBVIOUS
    <3>2. /\ m \div (BIn(test) * BOut(test)) = x /\ (m \div BOut(test)) % BIn(test) = b
          /\ m % BOut(test) = k
      BY <1>1, <2>3, <3>1
    <3>3. GemmUop(test, m, ia, wa)
            = [dst |-> (x * BOut(test)) + k, src |-> ia + (x * BIn(test)) + b,
               wgt |-> wa + (k * BIn(test)) + b]
      BY <1>8, <3>2, Zenon DEF GemmUop
    <3> QED BY <1>1, <2>6, <3>3
  <2>8. /\ uop["dst"] = (x * q) + k /\ uop["src"] = ia + (x * p) + b /\ uop["wgt"] = wa + (k * p) + b
    <3> HIDE DEF uop
    <3> QED BY <2>7
  <2>9. /\ i.fout[1] = 0 /\ i.fout[2] = 0 /\ i.fout[3] = 0
        /\ i.fin[1] = 0 /\ i.fin[2] = 0 /\ i.fin[3] = 0
    <3> HIDE DEF i
    <3> QED BY <2>4
  <2>10. PICK y \in Int, z \in Int : m \div (n * i.inner) = y /\ (m \div n) % i.inner = z
    <3>1. n \in Nat \ {0} /\ n * i.inner = n /\ i.inner = 1
      <4> HIDE DEF n, i
      <4> QED BY <2>4, <2>5
    <3> HIDE DEF n, i
    <3>2. m \div n \in Nat
      BY <2>3, <3>1, DivMod
    <3>3. (m \div n) % 1 \in Int
      BY <3>2
    <3> QED BY <3>1, <3>2, <3>3
  <2> HIDE DEF i, n, uop
  <2>11. MicroOp(i) = [dst |-> ((x * q) + k) + (y * 0) + (z * 0),
                       src |-> (ia + (x * p) + b) + (y * 0) + (z * 0),
                       wgt |-> (wa + (k * p) + b) + (y * 0) + (z * 0)]
    BY <1>5, <2>8, <2>9, <2>10
  <2>12. /\ ((x * q) + k) + (y * 0) + (z * 0) = 0 * (h * q) + (x * q + k)
         /\ (ia + (x * p) + b) + (y * 0) + (z * 0) = ia + (x * p + b)
         /\ (wa + (k * p) + b) + (y * 0) + (z * 0) = wa + (k * p + b)
    <3>1. PICK c \in Nat, d \in Nat, w \in Nat, s \in Nat : c = x * q /\ d = x * p /\ w = k * p /\ s = h * q
      BY <1>2
    <3> QED BY <1>2, <3>1
  <2>13. /\ MicroOp(i).dst = 0 * (h * q) + (x * q + k) /\ MicroOp(i).src = ia + (x * p + b)
         /\ MicroOp(i).wgt = wa + (k * p + b)
    BY <2>11, <2>12
  <2> QED BY <1>1, <1>4, <2>13 DEF i, SlotAt
<1> QED BY <1>7, <1>8

LEMMA AluMicroOp ==
  ASSUME test \in Tests, Asserts(test), test.kind = "alu", NEW row, m \in 0 .. Work(test) - 1
  PROVE  LET i == AluInsn(test, row) IN
         /\ i.op = "ALU" /\ i.imm = row
         /\ MicroOp(i).dst = m /\ MicroOp(i).src = OutW(test) + m
<1> DEFINE i == AluInsn(test, row)
           n == i.end - i.bgn
           uop == Uops(test)[i.bgn + (m % n)]
<1>1. PICK w \in Nat \ {0} : w = OutW(test) /\ m \in 0 .. w - 1
  BY CallInBlocks DEF Work
<1>2. MicroOp(i) =
        [dst |-> uop["dst"] + ((m \div (n * i.inner)) * i.fout[1]) + (((m \div n) % i.inner) * i.fin[1]),
         src |-> uop["src"] + ((m \div (n * i.inner)) * i.fout[2]) + (((m \div n) % i.inner) * i.fin[2]),
         wgt |-> uop["wgt"] + ((m \div (n * i.inner)) * i.fout[3]) + (((m \div n) % i.inner) * i.fin[3])]
  BY DEF MicroOp
<1>3. Uops(test) = [u \in 0 .. (IF test.comp THEN 1 ELSE w) - 1 |-> [dst |-> u, src |-> w + u, wgt |-> 0]]
  BY <1>1 DEF Uops, MapAluUops, UopSize
<1>4. CASE test.comp
  <2>1. /\ i.bgn = 0 /\ i.end = 1 /\ i.inner = w /\ i.op = "ALU" /\ i.imm = row
        /\ i.fout = <<0, 0, 0>> /\ i.fin = <<1, 1, 0>>
    BY <1>1, <1>4 DEF AluInsn, Loops
  <2>2. /\ i.fout[1] = 0 /\ i.fout[2] = 0 /\ i.fin[1] = 1 /\ i.fin[2] = 1
    <3> HIDE DEF i
    <3> QED BY <2>1
  <2>3. n = 1 /\ i.bgn + (m % n) = 0
    <3> HIDE DEF i
    <3> QED BY <1>1, <2>1
  <2>4. uop = [dst |-> 0, src |-> w + 0, wgt |-> 0]
    <3>1. 0 \in 0 .. (IF test.comp THEN 1 ELSE w) - 1
      BY <1>4
    <3> HIDE DEF i, n
    <3> QED BY <1>3, <2>3, <3>1
  <2>5. uop["dst"] = 0 /\ uop["src"] = w
    <3> HIDE DEF uop
    <3> QED BY <1>1, <2>4
  <2>6. PICK y \in Int : y = m \div (n * i.inner)
    <3>1. n * i.inner = w
      <4> HIDE DEF i, n
      <4> QED BY <1>1, <2>1, <2>3
    <3> HIDE DEF i, n
    <3>2. m \div w \in Int
      BY <1>1
    <3> QED BY <3>1, <3>2
  <2>7. (m \div n) % i.inner = m
    <3> HIDE DEF i, n
    <3> QED BY <1>1, <2>1, <2>3
  <2> HIDE DEF i, n, uop
  <2>8. /\ MicroOp(i).dst = 0 + (y * 0) + (m * 1) /\ MicroOp(i).src = w + (y * 0) + (m * 1)
    BY <1>2, <2>2, <2>5, <2>6, <2>7
  <2>9. 0 + (y * 0) + (m * 1) = m /\ w + (y * 0) + (m * 1) = w + m
    BY <1>1
  <2> QED BY <1>1, <2>1, <2>8, <2>9 DEF i
<1>5. CASE ~test.comp
  <2>1. /\ i.bgn = 0 /\ i.end = w /\ i.inner = 1 /\ i.op = "ALU" /\ i.imm = row
        /\ i.fout = <<0, 0, 0>> /\ i.fin = <<0, 0, 0>>
    BY <1>1, <1>5 DEF AluInsn, Loops
  <2>2. /\ i.fout[1] = 0 /\ i.fout[2] = 0 /\ i.fin[1] = 0 /\ i.fin[2] = 0
    <3> HIDE DEF i
    <3> QED BY <2>1
  <2>3. n = w /\ i.bgn + (m % n) = m
    <3> HIDE DEF i
    <3> QED BY <1>1, <2>1
  <2>4. uop = [dst |-> m, src |-> w + m, wgt |-> 0]
    <3>1. m \in 0 .. (IF test.comp THEN 1 ELSE w) - 1
      BY <1>1, <1>5
    <3> HIDE DEF i, n
    <3> QED BY <1>3, <2>3, <3>1
  <2>5. uop["dst"] = m /\ uop["src"] = w + m
    <3> HIDE DEF uop
    <3> QED BY <2>4
  <2>6. PICK y \in Int, z \in Int : y = m \div (n * i.inner) /\ z = (m \div n) % i.inner
    <3>1. n * i.inner = w /\ i.inner = 1 /\ n = w
      <4> HIDE DEF i, n
      <4> QED BY <1>1, <2>1, <2>3
    <3> HIDE DEF i, n
    <3>2. m \div w \in Int /\ (m \div w) % 1 \in Int
      BY <1>1
    <3> QED BY <3>1, <3>2
  <2> HIDE DEF i, n, uop
  <2>7. /\ MicroOp(i).dst = m + (y * 0) + (z * 0) /\ MicroOp(i).src = (w + m) + (y * 0) + (z * 0)
    BY <1>2, <2>2, <2>5, <2>6
  <2>8. m + (y * 0) + (z * 0) = m /\ (w + m) + (y * 0) + (z * 0) = w + m
    BY <1>1
  <2> QED BY <1>1, <2>1, <2>7, <2>8 DEF i
<1> QED BY <1>4, <1>5

-----------------------------------------------------------------------------
(* The bounds of the buffers                                                *)

\* The slots that a call uses; each virtual thread has its own inputs and weights.
InpSize(t) == IF t.kind = "alu" THEN 0 ELSE t.vt * (BRows(t) * BIn(t))
WgtSize(t) == IF t.kind = "alu" THEN 0 ELSE t.vt * (BOut(t) * BIn(t))
AccSize(t) == IF t.kind = "alu" THEN OutW(t) * InputSets(t) ELSE BRows(t) * BOut(t)

BoundInv ==
  /\ DOMAIN inp \subseteq 0 .. InpSize(test) - 1
  /\ DOMAIN wgt \subseteq 0 .. WgtSize(test) - 1
  /\ DOMAIN acc \subseteq 0 .. AccSize(test) - 1

LEMMA SlotsBound ==
  ASSUME NEW v \in Nat, NEW slot \in 0 .. v - 1, NEW h \in Nat, NEW w \in Nat
  PROVE  BlockSlots(slot, h, w) \subseteq 0 .. v * (h * w) - 1
<1>1. PICK k \in Nat : k = h * w
  OBVIOUS
<1>2. slot \in Nat /\ slot < v
  OBVIOUS
<1>3. k * slot + k <= k * v /\ k * slot \in Nat /\ k * v \in Nat
  BY <1>2, Multiples
<1>4. slot * k = k * slot /\ (slot + 1) * k = k * slot + k /\ v * k = k * v
  BY <1>2
<1> QED BY <1>1, <1>3, <1>4 DEF BlockSlots

\* Where the loads write.
LEMMA LoadBounds ==
  ASSUME PosInv, ~Done, Current.op = "LOAD"
  PROVE  /\ Current.memory = "INP" => DOMAIN Elements(Current) \subseteq 0 .. InpSize(test) - 1
         /\ Current.memory = "WGT" => DOMAIN Elements(Current) \subseteq 0 .. WgtSize(test) - 1
         /\ Current.memory = "ACC" => DOMAIN Elements(Current) \subseteq 0 .. AccSize(test) - 1
<1> DEFINE c == CallOf(test)
           Goal == /\ Current.memory = "INP" => DOMAIN Elements(Current) \subseteq 0 .. InpSize(test) - 1
                   /\ Current.memory = "WGT" => DOMAIN Elements(Current) \subseteq 0 .. WgtSize(test) - 1
                   /\ Current.memory = "ACC" => DOMAIN Elements(Current) \subseteq 0 .. AccSize(test) - 1
<1>1. /\ test \in Tests /\ Asserts(test) /\ Current = Insns(test)[pc]
      /\ pc \in 1 .. Length(c) /\ c \in TestCalls
  BY Executing DEF PosInv, Current
<1>2. 0 \in Tiles(c) /\ 0 \in Steps(c) /\ 0 \in Parts(c)
  BY <1>1, PartsOf
<1>3. \A slot, h, w, base, width : DOMAIN Region(slot, h, w, base, width) = BlockSlots(slot, h, w)
  BY DEF Region
<1>4. CASE pc = 1 \/ pc = Length(c)
  <2>1. Current \in {UopLoad(test), FinishInsn}
    BY <1>1, <1>2, <1>4, AtPlace
  <2>2. Current.memory \in {"UOP", "NONE"}
    BY <1>1, <2>1, Operations
  <2> QED BY <2>2
<1>5. ASSUME NEW tile \in Tiles(c), pc = AccPos(c, tile) PROVE Goal
  <2>1. Current = FirstOf(test, tile)
    BY <1>1, <1>2, <1>5, AtPlace
  <2>2. Current.memory = "ACC"
    BY <1>1, <2>1, Operations
  <2>3. DOMAIN Elements(Current) \subseteq 0 .. AccSize(test) - 1
    <3>1. CASE test.kind = "alu"
      <4>1. PICK all \in Nat : all = OutW(test) * InputSets(test)
        BY <1>1, <3>1, AluRegions
      <4>2. tile \in Nat
        BY <1>1, <1>2, PlaceBounds
      <4>3. Elements(Current) = Region(0, 1, all, tile * all, all)
        BY <1>1, <2>1, <3>1, <4>1, <4>2, AluRegions
      <4>4. BlockSlots(0, 1, all) \subseteq 0 .. 1 * (1 * all) - 1
        BY <4>1, SlotsBound
      <4>5. 1 * (1 * all) = all /\ AccSize(test) = all
        BY <3>1, <4>1 DEF AccSize
      <4> QED BY <1>3, <4>3, <4>4, <4>5
    <3>2. CASE test.kind # "alu"
      <4>1. PICK h \in Nat, q \in Nat : h = BRows(test) /\ q = BOut(test)
        BY <1>1, <3>2, Dimensions
      <4>2. Elements(Current) = Region(0, h, q, OutBase(test, tile), OutW(test))
        BY <1>1, <1>2, <2>1, <3>2, <4>1, GemmRegions
      <4>3. BlockSlots(0, h, q) \subseteq 0 .. 1 * (h * q) - 1
        BY <4>1, SlotsBound
      <4>4. 1 * (h * q) = h * q /\ AccSize(test) = h * q
        BY <3>2, <4>1 DEF AccSize
      <4> QED BY <1>3, <4>2, <4>3, <4>4
    <3> QED BY <3>1, <3>2
  <2> QED BY <2>2, <2>3
<1>6. ASSUME NEW tile \in Tiles(c), NEW n \in Steps(c), NEW e \in Parts(c), pc = PartPos(c, tile, n, e)
      PROVE  Goal
  <2>1. Current = StepsAt(test, tile, n)[1 + e]
    BY <1>1, <1>6, AtPlace
  <2>2. e # LastPart(c)
    BY <1>1, <2>1, WorkIs
  <2>3. test.kind # "alu" /\ e \in {0, 1}
    BY <1>1, <2>2, PartsOf
  <2>4. PICK h \in Nat, p \in Nat, q \in Nat, v \in Nat :
          h = BRows(test) /\ p = BIn(test) /\ q = BOut(test) /\ v = test.vt
    BY <1>1, <2>3, Dimensions, CallInBlocks
  <2>5. n % v \in 0 .. v - 1
    BY <1>1, <2>3, <2>4, GemmRegions
  <2>6. CASE e = 0
    <3>1. Current.memory = "WGT"
      BY <1>1, <2>1, <2>3, <2>6, Operations
    <3>2. DOMAIN Elements(Current) = BlockSlots(n % v, q, p)
      BY <1>1, <1>3, <2>1, <2>3, <2>4, <2>6, GemmRegions
    <3>3. BlockSlots(n % v, q, p) \subseteq 0 .. v * (q * p) - 1
      BY <2>4, <2>5, SlotsBound, Zenon
    <3>4. WgtSize(test) = v * (q * p)
      BY <2>3, <2>4 DEF WgtSize
    <3> QED BY <3>1, <3>2, <3>3, <3>4
  <2>7. CASE e = 1
    <3>1. Current.memory = "INP"
      BY <1>1, <2>1, <2>3, <2>7, Operations
    <3>2. DOMAIN Elements(Current) = BlockSlots(n % v, h, p)
      BY <1>1, <1>3, <2>1, <2>3, <2>4, <2>7, GemmRegions
    <3>3. BlockSlots(n % v, h, p) \subseteq 0 .. v * (h * p) - 1
      BY <2>4, <2>5, SlotsBound, Zenon
    <3>4. InpSize(test) = v * (h * p)
      BY <2>3, <2>4 DEF InpSize
    <3> QED BY <3>1, <3>2, <3>3, <3>4
  <2> QED BY <2>3, <2>6, <2>7
<1>7. ASSUME NEW tile \in Tiles(c) PROVE pc # OutPos(c, tile)
  <2>1. Insns(test)[OutPos(c, tile)] = LastOf(test, tile)
    BY <1>1, <1>2, AtPlace
  <2>2. LastOf(test, tile).op = "STORE"
    BY <1>1, Operations
  <2> QED BY <1>1, <2>1, <2>2
<1> HIDE DEF c
<1> QED BY <1>1, <1>4, <1>5, <1>6, <1>7, Places

\* The pass that a GEMM instruction makes next.
LEMMA GemmPass ==
  ASSUME PosInv, ~Done, test.kind # "alu",
         NEW tile \in Tiles(CallOf(test)), NEW n \in Steps(CallOf(test)),
         pc = PartPos(CallOf(test), tile, n, LastPart(CallOf(test)))
  PROVE  \E x \in InRows(test), b \in InCols(test), k \in OutCols(test) :
           /\ m = Pass(test, x, b, k) /\ Current.op = "GEMM"
           /\ MicroOp(Current).dst = SlotAt(0, BRows(test), BOut(test), x, k)
           /\ MicroOp(Current).src = SlotAt(n % test.vt, BRows(test), BIn(test), x, b)
           /\ MicroOp(Current).wgt = SlotAt(n % test.vt, BOut(test), BIn(test), k, b)
<1>1. test \in Tests /\ Asserts(test) /\ Current = Insns(test)[pc] /\ m \in 0 .. Work(test) - 1
  BY DEF PosInv, Current
<1>2. LastPart(CallOf(test)) = 2 /\ LastPart(CallOf(test)) \in Parts(CallOf(test))
  BY <1>1, PartsOf
<1>3. Current = StepsAt(test, tile, n)[3]
  BY <1>1, <1>2, AtPlace
<1>4. n % test.vt \in 0 .. test.vt - 1 /\ Current = GemmInsn(test, (n % test.vt) * HalfUops(test))
  BY <1>1, <1>3, GemmRegions
<1>5. PICK x \in InRows(test), b \in InCols(test), k \in OutCols(test) : m = Pass(test, x, b, k)
  BY <1>1, Passes
<1>6. Current.op = "GEMM"
  BY <1>1, <1>3, Operations
<1> QED BY <1>1, <1>4, <1>5, <1>6, GemmMicroOp

\* And the one that an ALU instruction makes.
LEMMA AluPass ==
  ASSUME PosInv, ~Done, test.kind = "alu",
         NEW tile \in Tiles(CallOf(test)), NEW n \in Steps(CallOf(test)),
         pc = PartPos(CallOf(test), tile, n, LastPart(CallOf(test)))
  PROVE  /\ Current.op = "ALU" /\ Current.imm = tile /\ m \in 0 .. OutW(test) - 1
         /\ MicroOp(Current).dst = m /\ MicroOp(Current).src = OutW(test) + m
<1>1. test \in Tests /\ Asserts(test) /\ Current = Insns(test)[pc] /\ m \in 0 .. Work(test) - 1
  BY DEF PosInv, Current
<1>2. LastPart(CallOf(test)) = 0 /\ LastPart(CallOf(test)) \in Parts(CallOf(test))
  BY <1>1, PartsOf
<1>3. Current = StepsAt(test, tile, n)[1]
  BY <1>1, <1>2, AtPlace
<1>4. Current = AluInsn(test, tile)
  BY <1>3 DEF StepsAt
<1> QED BY <1>1, <1>4, AluMicroOp DEF Work

\* The accumulator slot that a micro-op writes is one of the call's.
LEMMA MicroOpBound ==
  ASSUME PosInv, ~Done, Current.op \in {"GEMM", "ALU"}
  PROVE  MicroOp(Current).dst \in 0 .. AccSize(test) - 1
<1>1. test \in Tests /\ Asserts(test)
  BY DEF PosInv
<1>2. PICK tile \in Tiles(CallOf(test)), n \in Steps(CallOf(test)) :
        pc = PartPos(CallOf(test), tile, n, LastPart(CallOf(test)))
  BY MicroOpPlace
<1>3. CASE test.kind = "alu"
  <2>1. MicroOp(Current).dst \in 0 .. OutW(test) - 1
    BY <1>2, <1>3, AluPass
  <2>2. OutW(test) \in Nat \ {0} /\ OutW(test) <= AccSize(test) /\ AccSize(test) \in Nat
    <3>1. PICK w \in Nat \ {0}, s \in {1, 2} : w = OutW(test) /\ s = InputSets(test)
      BY <1>1, CallInBlocks DEF InputSets
    <3>2. AccSize(test) = w * s
      BY <1>3, <3>1 DEF AccSize
    <3> QED BY <3>1, <3>2
  <2> QED BY <2>1, <2>2
<1>4. CASE test.kind # "alu"
  <2>1. PICK x \in InRows(test), k \in OutCols(test) :
          MicroOp(Current).dst = SlotAt(0, BRows(test), BOut(test), x, k)
    BY <1>2, <1>4, GemmPass
  <2>2. PICK h \in Nat \ {0}, q \in Nat \ {0} : h = BRows(test) /\ q = BOut(test)
    BY <1>1, <1>4, Dimensions
  <2>3. SlotAt(0, h, q, x, k) \in BlockSlots(0, h, q)
    <3>1. x \in 0 .. h - 1 /\ k \in 0 .. q - 1
      BY <2>2 DEF InRows, OutCols
    <3> QED BY <3>1, RegionAt
  <2>4. BlockSlots(0, h, q) \subseteq 0 .. 1 * (h * q) - 1
    <3>1. 1 \in Nat /\ 0 \in 0 .. 1 - 1 /\ h \in Nat /\ q \in Nat
      OBVIOUS
    <3> QED BY <3>1, SlotsBound, Zenon
  <2>5. 1 * (h * q) = h * q /\ AccSize(test) = h * q
    BY <1>4, <2>2 DEF AccSize
  <2> QED BY <2>1, <2>2, <2>3, <2>4, <2>5
<1> QED BY <1>3, <1>4

LEMMA OverDomain ==
  ASSUME NEW new, NEW old
  PROVE  DOMAIN Over(new, old) = DOMAIN new \cup DOMAIN old
BY DEF Over

LEMMA BoundStep == ASSUME PosInv, BoundInv, [Next]_vars PROVE BoundInv'
<1>1. CASE UNCHANGED vars
  BY <1>1 DEF vars, mems, BoundInv
<1>2. CASE Running
  <2>1. test' = test /\ ~Done
    BY <1>2 DEF Running, ExecLoad, ExecMicroOp, ExecStore, ExecFinish
  <2>2. /\ DOMAIN inp \subseteq 0 .. InpSize(test) - 1
        /\ DOMAIN wgt \subseteq 0 .. WgtSize(test) - 1
        /\ DOMAIN acc \subseteq 0 .. AccSize(test) - 1
    BY DEF BoundInv
  <2>3. CASE ExecLoad
    <3>1. Current.op = "LOAD"
      BY <2>3 DEF ExecLoad
    <3> DEFINE new == Elements(Current)
    <3>2. /\ inp' = IF Current.memory = "INP" THEN Over(new, inp) ELSE inp
          /\ wgt' = IF Current.memory = "WGT" THEN Over(new, wgt) ELSE wgt
          /\ acc' = IF Current.memory = "ACC"
                    THEN Over([s \in DOMAIN new |-> Acc(new[s], {}, 0)], acc) ELSE acc
      BY <2>3 DEF ExecLoad
    <3>3. DOMAIN [s \in DOMAIN new |-> Acc(new[s], {}, 0)] = DOMAIN new
      OBVIOUS
    <3> HIDE DEF new
    <3>4. DOMAIN inp' \subseteq 0 .. InpSize(test) - 1
      BY <2>1, <2>2, <3>1, <3>2, LoadBounds, OverDomain DEF new
    <3>5. DOMAIN wgt' \subseteq 0 .. WgtSize(test) - 1
      BY <2>1, <2>2, <3>1, <3>2, LoadBounds, OverDomain DEF new
    <3>6. DOMAIN acc' \subseteq 0 .. AccSize(test) - 1
      <4>1. CASE Current.memory = "ACC"
        <5>1. DOMAIN acc' = DOMAIN new \cup DOMAIN acc
          BY <3>2, <3>3, <4>1, OverDomain
        <5> QED BY <2>1, <2>2, <3>1, <4>1, <5>1, LoadBounds DEF new
      <4>2. CASE Current.memory # "ACC"
        BY <2>2, <3>2, <4>2
      <4> QED BY <4>1, <4>2
    <3> QED BY <2>1, <3>4, <3>5, <3>6 DEF BoundInv
  <2>4. CASE ExecMicroOp
    <3>1. inp' = inp /\ wgt' = wgt /\ Current.op \in {"GEMM", "ALU"}
      BY <2>4 DEF ExecMicroOp
    <3>2. DOMAIN acc' = DOMAIN acc \cup {MicroOp(Current).dst}
      BY <2>4 DEF ExecMicroOp, With
    <3>3. MicroOp(Current).dst \in 0 .. AccSize(test) - 1
      BY <2>1, <3>1, MicroOpBound
    <3> QED BY <2>1, <2>2, <3>1, <3>2, <3>3 DEF BoundInv
  <2>5. CASE ExecStore \/ ExecFinish
    BY <2>1, <2>2, <2>5 DEF ExecStore, ExecFinish, mems, BoundInv
  <2> QED BY <1>2, <2>3, <2>4, <2>5 DEF Running
<1> QED BY <1>1, <1>2 DEF Next, Running, Terminated

LEMMA BoundInit == ASSUME Init PROVE BoundInv
<1>1. DOMAIN inp = {} /\ DOMAIN wgt = {} /\ DOMAIN acc = {}
  BY DEF Init
<1> QED BY <1>1 DEF BoundInv

\* The inputs and weights of every virtual thread have room.
ThreadsFit(t) ==
  t.kind # "alu" => /\ t.vt * (BRows(t) * BIn(t)) <= VTA_INP_BUFF_DEPTH
                    /\ t.vt * (BOut(t) * BIn(t)) <= VTA_WGT_BUFF_DEPTH

LEMMA Fitting ==
  ASSUME PosInv, BoundInv, ThreadsFit(test)
  PROVE  WithinBuffers
<1>1. /\ test \in Tests /\ Asserts(test)
      /\ VTA_INP_BUFF_DEPTH \in Nat /\ VTA_WGT_BUFF_DEPTH \in Nat /\ VTA_ACC_BUFF_DEPTH \in Nat
  BY GeometryAssumption DEF PosInv
<1>2. \A a \in Nat, b \in Nat : a <= b => 0 .. a - 1 \subseteq 0 .. b - 1
  OBVIOUS
<1>3. /\ InpSize(test) \in Nat /\ InpSize(test) <= VTA_INP_BUFF_DEPTH
      /\ WgtSize(test) \in Nat /\ WgtSize(test) <= VTA_WGT_BUFF_DEPTH
  <2>1. CASE test.kind = "alu"
    BY <1>1, <2>1 DEF InpSize, WgtSize
  <2>2. CASE test.kind # "alu"
    <3>1. PICK h \in Nat, p \in Nat, q \in Nat, v \in Nat :
            h = BRows(test) /\ p = BIn(test) /\ q = BOut(test) /\ v = test.vt
      BY <1>1, <2>2, Dimensions, CallInBlocks
    <3>2. v * (h * p) \in Nat /\ v * (q * p) \in Nat
      OBVIOUS
    <3>3. InpSize(test) = v * (h * p) /\ WgtSize(test) = v * (q * p)
      BY <2>2, <3>1 DEF InpSize, WgtSize
    <3>4. v * (h * p) <= VTA_INP_BUFF_DEPTH /\ v * (q * p) <= VTA_WGT_BUFF_DEPTH
      BY <2>2, <3>1 DEF ThreadsFit
    <3> QED BY <3>2, <3>3, <3>4
  <2> QED BY <2>1, <2>2
<1>4. AccSize(test) \in Nat /\ AccSize(test) <= VTA_ACC_BUFF_DEPTH
  <2>1. CASE test.kind = "alu"
    <3>1. OutW(test) * InputSets(test) \in Nat
      BY <1>1, <2>1, AluRegions
    <3>2. AccSize(test) = OutW(test) * InputSets(test)
      BY <2>1 DEF AccSize
    <3> QED BY <1>1, <2>1, <3>1, <3>2 DEF Asserts
  <2>2. CASE test.kind # "alu"
    <3>1. BRows(test) * BOut(test) \in Nat
      BY <1>1, <2>2, Dimensions
    <3>2. AccSize(test) = BRows(test) * BOut(test)
      BY <2>2 DEF AccSize
    <3> QED BY <1>1, <2>2, <3>1, <3>2 DEF Asserts
  <2> QED BY <2>1, <2>2
<1>5. /\ 0 .. InpSize(test) - 1 \subseteq 0 .. VTA_INP_BUFF_DEPTH - 1
      /\ 0 .. WgtSize(test) - 1 \subseteq 0 .. VTA_WGT_BUFF_DEPTH - 1
      /\ 0 .. AccSize(test) - 1 \subseteq 0 .. VTA_ACC_BUFF_DEPTH - 1
  BY <1>1, <1>2, <1>3, <1>4
<1> QED BY <1>5 DEF BoundInv, WithinBuffers

LEMMA Bounds == Spec => [](PosInv /\ BoundInv)
<1>1. Init => PosInv /\ BoundInv
  BY PosInit, BoundInit
<1>2. (PosInv /\ BoundInv) /\ [Next]_vars => (PosInv /\ BoundInv)'
  BY PosStep, BoundStep
<1> QED BY <1>1, <1>2, PTL DEF Spec

\* No instruction writes beyond the end of a buffer, if there is room for all the
\* virtual threads: the assertions make sure of the accumulator, and of one thread.
THEOREM Bounded == Spec => [](ThreadsFit(test) => WithinBuffers)
<1>1. PosInv /\ BoundInv => (ThreadsFit(test) => WithinBuffers)
  BY Fitting
<1> QED BY <1>1, Bounds, PTL

\* With one virtual thread the assertions suffice.
THEOREM OneThread ==
  ASSUME \A t \in Tests : t.vt = 1
  PROVE  Spec => []WithinBuffers
<1>1. ASSUME PosInv, BoundInv PROVE WithinBuffers
  <2>1. test \in Tests /\ Asserts(test) /\ test.vt = 1
    BY <1>1 DEF PosInv
  <2>2. ThreadsFit(test)
    <3> SUFFICES ASSUME test.kind # "alu"
                 PROVE  /\ test.vt * (BRows(test) * BIn(test)) <= VTA_INP_BUFF_DEPTH
                        /\ test.vt * (BOut(test) * BIn(test)) <= VTA_WGT_BUFF_DEPTH
      BY DEF ThreadsFit
    <3>1. PICK h \in Nat, p \in Nat, q \in Nat : h = BRows(test) /\ p = BIn(test) /\ q = BOut(test)
      BY <2>1, Dimensions
    <3>2. h * p <= VTA_INP_BUFF_DEPTH /\ p * q <= VTA_WGT_BUFF_DEPTH
      BY <2>1, <3>1 DEF Asserts
    <3>3. 1 * (h * p) = h * p /\ 1 * (q * p) = p * q
      OBVIOUS
    <3> QED BY <2>1, <3>1, <3>2, <3>3
  <2> QED BY <1>1, <2>2, Fitting
<1>2. PosInv /\ BoundInv => WithinBuffers
  BY <1>1
<1> QED BY <1>2, Bounds, PTL

-----------------------------------------------------------------------------
(* The results                                                              *)

\* The outputs that a tile computes; a tile of alu_test is one row.
TileH(t) == IF t.kind = "alu" THEN 1 ELSE BRows(t)
TileW(t) == IF t.kind = "alu" THEN OutW(t) ELSE BOut(t)
OutRow(t, tile, x) == TileRow(t, tile) * TileH(t) + x
OutCol(t, tile, k) == TileCol(t, tile) * TileW(t) + k
OutEl(t, tile, x, k) == PackIndex(OutRow(t, tile, x), OutCol(t, tile, k), OutW(t))
OutEls(t, tiles) ==
  {OutEl(t, tile, x, k) : tile \in 0 .. tiles - 1, x \in 0 .. TileH(t) - 1, k \in 0 .. TileW(t) - 1}

\* An output with its first J products folded in, and one of alu_test.
TermsTo(t, row, col, J) ==
  {<<PackIndex(row, j, InW(t)), PackIndex(col, j, InW(t))>> : j \in 0 .. J - 1}
Folded(t, row, col, J) == Acc(PackIndex(row, col, OutW(t)), TermsTo(t, row, col, J), J)
InputAt(t, row, col) == PackIndex(row, col, OutW(t) * InputSets(t))
AluResult(t, row, col) ==
  Acc(InputAt(t, row, col),
      {IF t.imm THEN <<row, -1>> ELSE <<InputAt(t, row, col) + OutW(t), 0>>}, 1)
Expected(t, row, col) ==
  IF t.kind = "alu" THEN AluResult(t, row, col) ELSE Folded(t, row, col, InW(t))

\* After so many passes of a GEMM, the sum of row x and column k has J of its products.
Depth(t, x, k, J, passes) == \A b \in InCols(t) : (b < J) <=> (Pass(t, x, b, k) < passes)

\* The accumulator then, if the inputs start at column "base": the products of the
\* passes done, and no others, are in each sum.
SumsAt(t, a, tile, base, passes) ==
  \A x \in InRows(t), k \in OutCols(t) :
    \E J \in 0 .. BIn(t) :
      /\ Depth(t, x, k, J, passes)
      /\ Has(a, SlotAt(0, BRows(t), BOut(t), x, k),
             Folded(t, OutRow(t, tile, x), OutCol(t, tile, k), base + J))

\* The accumulator after so many passes of an ALU instruction.
RowAt(t, a, tile, passes) ==
  \A s \in 0 .. OutW(t) * InputSets(t) - 1 :
    Has(a, s, IF s < passes THEN AluResult(t, tile, s) ELSE Acc(InputAt(t, tile, s), {}, 0))

\* The accumulator when a tile is complete.
TileDone(t, a, tile) ==
  \A x \in 0 .. TileH(t) - 1, k \in 0 .. TileW(t) - 1 :
    Has(a, SlotAt(0, TileH(t), TileW(t), x, k),
        Expected(t, OutRow(t, tile, x), OutCol(t, tile, k)))

\* A buffer holds what a transfer moved.
Loaded(buffer, region) == \A s \in DOMAIN region : Has(buffer, s, region[s])

\* The results of so many tiles are stored, and nothing else.
StoredTiles(t, d, tiles) ==
  /\ DOMAIN d = OutEls(t, tiles)
  /\ \A e \in DOMAIN d : d[e] = Expected(t, e \div OutW(t), e % OutW(t))

\* What the buffers and the DRAM hold at each place.
DataAt(t, p, passes, i, w, a, d) ==
  LET c == CallOf(t) IN
  \/ p = 1 /\ StoredTiles(t, d, 0)
  \/ \E tile \in 0 .. TilesOf(c) : p = AccPos(c, tile) /\ StoredTiles(t, d, tile)
  \/ \E tile \in Tiles(c), n \in Steps(c), e \in Parts(c) :
       /\ p = PartPos(c, tile, n, e)
       /\ StoredTiles(t, d, tile)
       /\ t.kind = "alu" => RowAt(t, a, tile, passes)
       /\ t.kind # "alu" =>
            /\ SumsAt(t, a, tile, n * BIn(t), passes)
            /\ e > 0 => Loaded(w, Elements(StepsAt(t, tile, n)[1]))
            /\ e > 1 => Loaded(i, Elements(StepsAt(t, tile, n)[2]))
  \/ \E tile \in Tiles(c) :
       p = OutPos(c, tile) /\ StoredTiles(t, d, tile) /\ TileDone(t, a, tile)
  \/ p = Length(c) + 1 /\ StoredTiles(t, d, TilesOf(c))
DataInv == DataAt(test, pc, m, inp, wgt, acc, dram)

\* What the sizes of a tile have to do with those of the matrix.
LEMMA TileSizes ==
  ASSUME NEW t \in Tests, Asserts(t)
  PROVE  /\ TileH(t) \in Nat \ {0} /\ TileW(t) \in Nat \ {0}
         /\ TileRows(t) \in Nat \ {0} /\ TileCols(t) \in Nat \ {0}
         /\ OutW(t) = TileCols(t) * TileW(t) /\ OutW(t) \in Nat \ {0}
         /\ t.kind # "alu" => Rows(t) = TileRows(t) * TileH(t)
                              /\ TilesOf(CallOf(t)) = TileRows(t) * TileCols(t)
         /\ t.kind = "alu" => Rows(t) = TilesOf(CallOf(t)) /\ TileH(t) = 1 /\ TileCols(t) = 1
<1>1. CASE t.kind = "alu"
  <2>1. TileRows(t) = 1 /\ TileCols(t) = 1
    BY <1>1 DEF TileRows, TileCols
  <2>2. OutW(t) \in Nat \ {0} /\ Rows(t) = TilesOf(CallOf(t))
    BY <1>1, CallInBlocks
  <2>3. TileH(t) = 1 /\ TileW(t) = OutW(t)
    BY <1>1 DEF TileH, TileW
  <2> QED BY <1>1, <2>1, <2>2, <2>3
<1>2. CASE t.kind # "alu"
  <2>1. TileH(t) = BRows(t) /\ TileW(t) = BOut(t)
    BY <1>2 DEF TileH, TileW
  <2>2. /\ TileRows(t) \in Nat \ {0} /\ TileCols(t) \in Nat \ {0}
        /\ TilesOf(CallOf(t)) = TileRows(t) * TileCols(t) /\ OutW(t) \in Nat \ {0}
    BY <1>2, CallInBlocks
  <2>3. /\ BRows(t) \in Nat \ {0} /\ BOut(t) \in Nat \ {0} /\ Rows(t) = TileRows(t) * BRows(t)
        /\ OutW(t) = TileCols(t) * BOut(t)
    BY <1>2, Dimensions
  <2> QED BY <1>2, <2>1, <2>2, <2>3
<1> QED BY <1>1, <1>2

\* The row and the column of an output.
LEMMA OutPlace ==
  ASSUME NEW t \in Tests, Asserts(t), NEW tile \in Nat,
         NEW x \in 0 .. TileH(t) - 1, NEW k \in 0 .. TileW(t) - 1
  PROVE  /\ TileRow(t, tile) \in Nat /\ TileCol(t, tile) \in 0 .. TileCols(t) - 1
         /\ OutRow(t, tile, x) \in Nat /\ OutCol(t, tile, k) \in 0 .. OutW(t) - 1
         /\ OutEl(t, tile, x, k) \in Nat
         /\ OutEl(t, tile, x, k) \div OutW(t) = OutRow(t, tile, x)
         /\ OutEl(t, tile, x, k) % OutW(t) = OutCol(t, tile, k)
<1>1. PICK h \in Nat \ {0}, w \in Nat \ {0}, C \in Nat \ {0}, U \in Nat \ {0} :
        h = TileH(t) /\ w = TileW(t) /\ C = TileCols(t) /\ U = OutW(t) /\ U = C * w
  BY TileSizes
<1>2. PICK i \in Nat, j \in 0 .. C - 1 : i = TileRow(t, tile) /\ j = TileCol(t, tile)
  BY <1>1, DivMod DEF TileRow, TileCol
<1>3. PICK r \in Nat : r = i * h + x /\ r = OutRow(t, tile, x)
  BY <1>1, <1>2 DEF OutRow
<1>4. PICK l \in 0 .. U - 1 : l = j * w + k /\ l = OutCol(t, tile, k)
  <2>1. j \in Nat /\ j < C /\ k \in Nat /\ k < w
    BY <1>1, <1>2
  <2>2. w * j + w <= w * C /\ w * j \in Nat /\ w * C \in Nat
    BY <2>1, Multiples
  <2>3. j * w = w * j /\ U = w * C
    BY <1>1, <2>1
  <2>4. j * w + k \in 0 .. U - 1
    BY <2>1, <2>2, <2>3
  <2> QED BY <1>1, <1>2, <2>4 DEF OutCol
<1>5. OutEl(t, tile, x, k) = r * U + l
  BY <1>1, <1>3, <1>4 DEF OutEl, PackIndex
<1>6. r * U + l = U * r + l /\ r * U + l \in Nat
  BY <1>1
<1>7. (U * r + l) \div U = r /\ (U * r + l) % U = l
  BY Quotient
<1> QED BY <1>1, <1>2, <1>3, <1>4, <1>5, <1>6, <1>7

\* The tiles are all of the output matrix.
LEMMA OutCovers ==
  ASSUME NEW t \in Tests, Asserts(t)
  PROVE  OutEls(t, TilesOf(CallOf(t))) = 0 .. (Rows(t) * OutW(t)) - 1
<1> DEFINE T == TilesOf(CallOf(t))
<1>1. PICK h \in Nat \ {0}, w \in Nat \ {0}, C \in Nat \ {0}, U \in Nat \ {0}, R \in Nat \ {0} :
        /\ h = TileH(t) /\ w = TileW(t) /\ C = TileCols(t) /\ U = OutW(t) /\ U = C * w
        /\ R = Rows(t)
  BY TileSizes, CallInBlocks
<1>2. PICK B \in Nat \ {0} : T = C * B /\ R = h * B
  <2>1. CASE t.kind = "alu"
    BY <1>1, <2>1, TileSizes
  <2>2. CASE t.kind # "alu"
    <3>1. PICK B \in Nat \ {0} : B = TileRows(t)
      BY TileSizes
    <3>2. T = B * C /\ R = B * h
      BY <1>1, <2>2, <3>1, TileSizes
    <3> QED BY <3>1, <3>2
  <2> QED BY <2>1, <2>2
<1> HIDE DEF T
<1>3. ASSUME NEW tile \in 0 .. T - 1, NEW x \in 0 .. TileH(t) - 1, NEW k \in 0 .. TileW(t) - 1
      PROVE  OutEl(t, tile, x, k) \in 0 .. (R * U) - 1
  <2>1. tile \in Nat /\ tile < C * B
    BY <1>2
  <2>2. PICK i \in Nat : i = TileRow(t, tile) /\ i < B
    BY <1>1, <1>2, <2>1, QuotientBound, DivMod DEF TileRow
  <2>3. OutRow(t, tile, x) = i * h + x /\ x \in 0 .. h - 1
    BY <1>1, <2>2 DEF OutRow
  <2>4. PICK r \in Nat : r = OutRow(t, tile, x) /\ r < R
    <3>1. h * i + h <= h * B /\ h * i \in Nat
      BY <2>2, Multiples
    <3>2. h * i = i * h
      BY <2>2
    <3> QED BY <1>2, <2>3, <3>1, <3>2
  <2>5. PICK l \in 0 .. U - 1 : l = OutCol(t, tile, k)
    BY <1>1, <2>1, OutPlace
  <2>6. OutEl(t, tile, x, k) = r * U + l
    BY <1>1, <2>4, <2>5 DEF OutEl, PackIndex
  <2>7. U * r + U <= U * R /\ U * r \in Nat /\ U * R \in Nat /\ U * r = r * U /\ U * R = R * U
    BY <2>4, Multiples
  <2> QED BY <2>5, <2>6, <2>7
<1>4. ASSUME NEW e \in 0 .. (R * U) - 1
      PROVE  \E tile \in 0 .. T - 1, x \in 0 .. TileH(t) - 1, k \in 0 .. TileW(t) - 1 :
               e = OutEl(t, tile, x, k)
  <2>1. e \in Nat /\ e < U * R
    <3>1. PICK z \in Nat : z = R * U /\ z = U * R
      OBVIOUS
    <3> QED BY <3>1
  <2>2. PICK r \in Nat, l \in 0 .. U - 1 : e = U * r + l /\ r < R
    <3>1. e \div U \in Nat /\ e % U \in 0 .. U - 1 /\ e = U * (e \div U) + (e % U)
      BY <2>1, DivMod
    <3>2. e \div U < R
      BY <2>1, QuotientBound
    <3> QED BY <3>1, <3>2
  <2>3. PICK i \in Nat, x \in 0 .. h - 1 : r = h * i + x /\ i < B
    <3>1. r \div h \in Nat /\ r % h \in 0 .. h - 1 /\ r = h * (r \div h) + (r % h)
      BY <2>2, DivMod
    <3>2. r < h * B
      BY <1>2, <2>2
    <3>3. r \div h < B
      BY <2>2, <3>2, QuotientBound
    <3> QED BY <3>1, <3>3
  <2>4. PICK j \in Nat, k \in 0 .. w - 1 : l = w * j + k /\ j < C
    <3>1. l \in Nat
      BY <2>2
    <3>2. l \div w \in Nat /\ l % w \in 0 .. w - 1 /\ l = w * (l \div w) + (l % w)
      BY <3>1, DivMod
    <3>3. l < w * C
      <4>1. w * C = U
        BY <1>1
      <4> QED BY <2>2, <4>1
    <3>4. l \div w < C
      BY <3>1, <3>3, QuotientBound
    <3> QED BY <3>2, <3>4
  <2>5. PICK tile \in Nat : tile = C * i + j
    BY <2>3, <2>4
  <2>6. j \in 0 .. C - 1
    BY <2>4
  <2>7. tile \div C = i /\ tile % C = j
    BY <2>3, <2>5, <2>6, Quotient
  <2>8. tile \in 0 .. T - 1
    <3>1. C * i + C <= C * B /\ C * i \in Nat /\ C * B \in Nat
      BY <2>3, Multiples
    <3> QED BY <1>2, <2>4, <2>5, <3>1
  <2>9. OutRow(t, tile, x) = i * h + x /\ OutCol(t, tile, k) = j * w + k
    BY <1>1, <2>7 DEF OutRow, OutCol, TileRow, TileCol
  <2>10. OutRow(t, tile, x) = r /\ OutCol(t, tile, k) = l
    <3>1. i * h = h * i /\ j * w = w * j
      BY <2>3, <2>4
    <3> QED BY <2>3, <2>4, <2>9, <3>1
  <2>11. e = OutEl(t, tile, x, k)
    <3>1. OutEl(t, tile, x, k) = r * U + l
      BY <1>1, <2>10 DEF OutEl, PackIndex
    <3>2. r * U = U * r
      BY <2>2
    <3> QED BY <2>2, <3>1, <3>2
  <2>12. x \in 0 .. TileH(t) - 1 /\ k \in 0 .. TileW(t) - 1
    BY <1>1, <2>3, <2>4
  <2> QED BY <2>8, <2>11, <2>12
<1>5. OutEls(t, T) \subseteq 0 .. (R * U) - 1
  BY <1>3 DEF OutEls
<1>6. 0 .. (R * U) - 1 \subseteq OutEls(t, T)
  <2> SUFFICES ASSUME NEW e \in 0 .. (R * U) - 1 PROVE e \in OutEls(t, T)
    OBVIOUS
  <2>1. PICK tile \in 0 .. T - 1, x \in 0 .. TileH(t) - 1, k \in 0 .. TileW(t) - 1 :
          e = OutEl(t, tile, x, k)
    BY <1>4
  <2> QED BY <2>1 DEF OutEls
<1> QED BY <1>1, <1>5, <1>6 DEF T

\* The elements that the transfers of a tile move, and where.
LEMMA TileElements ==
  ASSUME NEW t \in Tests, Asserts(t), NEW tile \in Tiles(CallOf(t))
  PROVE  LET last == Elements(LastOf(t, tile)) IN
         /\ \A x \in 0 .. TileH(t) - 1, k \in 0 .. TileW(t) - 1 :
              Has(last, SlotAt(0, TileH(t), TileW(t), x, k), OutEl(t, tile, x, k))
         /\ \A s \in DOMAIN last : \E x \in 0 .. TileH(t) - 1, k \in 0 .. TileW(t) - 1 :
              s = SlotAt(0, TileH(t), TileW(t), x, k)
         /\ t.kind # "alu" => Elements(FirstOf(t, tile)) = last
<1> DEFINE last == Elements(LastOf(t, tile))
<1>1. PICK h \in Nat \ {0}, w \in Nat \ {0}, C \in Nat \ {0}, U \in Nat \ {0} :
        h = TileH(t) /\ w = TileW(t) /\ C = TileCols(t) /\ U = OutW(t) /\ U = C * w
  BY TileSizes
<1>2. tile \in Nat /\ C \in Nat \ {0} /\ CallOf(t) \in TestCalls
  BY CallInBlocks, Sizes DEF Tiles
<1>3. PICK i \in Nat, j \in 0 .. C - 1 : i = TileRow(t, tile) /\ j = TileCol(t, tile)
  BY <1>1, <1>2, DivMod DEF TileRow, TileCol
<1>4. PICK base : /\ last = Region(0, h, w, base, U)
                  /\ base = ((i * h) * U) + (j * w)
                  /\ t.kind # "alu" => Elements(FirstOf(t, tile)) = last
  <2>1. CASE t.kind = "alu"
    <3>1. last = Region(0, 1, U, tile * U, U)
      BY <1>1, <1>2, <2>1, AluRegions
    <3>2. h = 1 /\ w = U /\ C = 1
      BY <1>1, <2>1, TileSizes DEF TileW
    <3>3. i = tile /\ j = 0
      <4>1. tile \div 1 = tile
        BY <1>2
      <4> QED BY <1>1, <1>3, <3>2, <4>1 DEF TileRow
    <3>4. ((i * h) * U) + (j * w) = tile * U
      BY <1>2, <3>2, <3>3
    <3> QED BY <2>1, <3>1, <3>2, <3>4
  <2>2. CASE t.kind # "alu"
    <3>1. 0 \in Steps(CallOf(t))
      BY PartsOf
    <3>2. h = BRows(t) /\ w = BOut(t)
      BY <1>1, <2>2 DEF TileH, TileW
    <3>3. /\ Elements(FirstOf(t, tile)) = Region(0, h, w, OutBase(t, tile), U)
          /\ last = Region(0, h, w, OutBase(t, tile), U)
      BY <1>1, <2>2, <3>1, <3>2, GemmRegions
    <3>4. OutBase(t, tile) = ((i * h) * U) + (j * w)
      BY <1>1, <1>3, <3>2 DEF OutBase
    <3> QED BY <3>3, <3>4
  <2> QED BY <2>1, <2>2
<1> HIDE DEF last
<1>5. ASSUME NEW x \in 0 .. h - 1, NEW k \in 0 .. w - 1
      PROVE  Has(last, SlotAt(0, h, w, x, k), OutEl(t, tile, x, k))
  <2>1. Has(Region(0, h, w, base, U), SlotAt(0, h, w, x, k), base + (x * U) + k)
    BY RegionAt
  <2>2. OutEl(t, tile, x, k) = ((i * h + x) * U) + (j * w + k)
    BY <1>1, <1>3 DEF OutEl, OutRow, OutCol, PackIndex
  <2>3. PICK p \in Nat, q \in Nat : p = i * h /\ q = j * w
    BY <1>1, <1>3
  <2>4. (p + x) * U = p * U + x * U
    BY <2>3
  <2>5. PICK pu \in Nat, xu \in Nat : pu = p * U /\ xu = x * U
    BY <2>3
  <2>6. OutEl(t, tile, x, k) = pu + xu + (q + k)
    BY <2>2, <2>3, <2>4, <2>5
  <2>7. base + (x * U) + k = pu + q + xu + k
    BY <1>4, <2>3, <2>5
  <2>8. base + (x * U) + k = OutEl(t, tile, x, k)
    BY <2>3, <2>5, <2>6, <2>7
  <2> QED BY <1>4, <2>1, <2>8
<1>6. ASSUME NEW s \in DOMAIN last
      PROVE  \E x \in 0 .. h - 1, k \in 0 .. w - 1 : s = SlotAt(0, h, w, x, k)
  <2>1. s \in BlockSlots(0, h, w)
    BY <1>4, <1>6 DEF Region
  <2> QED BY <2>1, RegionCovers
<1> QED BY <1>1, <1>4, <1>5, <1>6 DEF last

\* A slot of a block determines the row and the column of its element.
LEMMA SlotOf ==
  ASSUME NEW h \in Nat, NEW w \in Nat \ {0}, NEW x \in Nat, NEW k \in 0 .. w - 1,
         NEW xx \in Nat, NEW kk \in 0 .. w - 1, SlotAt(0, h, w, x, k) = SlotAt(0, h, w, xx, kk)
  PROVE  x = xx /\ k = kk
<1>1. /\ SlotAt(0, h, w, x, k) = w * x + k
      /\ SlotAt(0, h, w, xx, kk) = w * xx + kk
  <2>1. 0 * (h * w) = 0
    <3>1. PICK a \in Nat : a = h * w
      OBVIOUS
    <3> QED BY <3>1
  <2>2. x * w = w * x /\ xx * w = w * xx
    OBVIOUS
  <2>3. PICK a \in Nat, aa \in Nat : a = w * x /\ aa = w * xx
    OBVIOUS
  <2> QED BY <2>1, <2>2, <2>3 DEF SlotAt
<1>2. /\ (w * x + k) \div w = x /\ (w * x + k) % w = k
      /\ (w * xx + kk) \div w = xx /\ (w * xx + kk) % w = kk
  BY Quotient
<1> QED BY <1>1, <1>2

\* The slots that the operands of a product are in, and the elements there.
LEMMA Operands ==
  ASSUME NEW t \in Tests, Asserts(t), t.kind # "alu",
         NEW tile \in Tiles(CallOf(t)), NEW n \in Steps(CallOf(t)),
         NEW x \in InRows(t), NEW b \in InCols(t), NEW k \in OutCols(t)
  PROVE  /\ Has(Elements(StepsAt(t, tile, n)[1]), SlotAt(n % t.vt, BOut(t), BIn(t), k, b),
                PackIndex(OutCol(t, tile, k), n * BIn(t) + b, InW(t)))
         /\ Has(Elements(StepsAt(t, tile, n)[2]), SlotAt(n % t.vt, BRows(t), BIn(t), x, b),
                PackIndex(OutRow(t, tile, x), n * BIn(t) + b, InW(t)))
<1>1. PICK h \in Nat \ {0}, p \in Nat \ {0}, w \in Nat \ {0}, I \in Nat \ {0}, C \in Nat \ {0} :
        /\ h = BRows(t) /\ p = BIn(t) /\ w = BOut(t) /\ I = InW(t) /\ C = TileCols(t)
  BY Dimensions, TileSizes
<1>2. tile \in Nat /\ n \in Nat
  BY CallInBlocks, Sizes DEF Tiles, Steps
<1>3. PICK i \in Nat, j \in Nat : i = TileRow(t, tile) /\ j = TileCol(t, tile)
  <2>1. tile \div C \in Nat /\ tile % C \in 0 .. C - 1
    BY <1>2, DivMod
  <2>2. tile % C \in Nat
    BY <2>1
  <2> QED BY <1>1, <2>1, <2>2 DEF TileRow, TileCol
<1>4. PICK l \in Nat : /\ l = n % t.vt
                       /\ Elements(StepsAt(t, tile, n)[1]) = Region(l, w, p, WgtBase(t, tile, n), I)
                       /\ Elements(StepsAt(t, tile, n)[2]) = Region(l, h, p, InpBase(t, tile, n), I)
  <2>1. n % t.vt \in 0 .. t.vt - 1 /\ t.vt \in {1, 2}
    BY GemmRegions, CallInBlocks
  <2> QED BY <1>1, <2>1, GemmRegions
<1>5. x \in 0 .. h - 1 /\ b \in 0 .. p - 1 /\ k \in 0 .. w - 1
  BY <1>1 DEF InRows, InCols, OutCols
<1>6. /\ Has(Region(l, w, p, WgtBase(t, tile, n), I), SlotAt(l, w, p, k, b),
             WgtBase(t, tile, n) + (k * I) + b)
      /\ Has(Region(l, h, p, InpBase(t, tile, n), I), SlotAt(l, h, p, x, b),
             InpBase(t, tile, n) + (x * I) + b)
  BY <1>5, RegionAt
<1> DEFINE Same(a, d, v) ==
             (((a * d) * I) + (n * p)) + (v * I) + b = ((a * d + v) * I) + (n * p + b)
<1>7. \A a \in Nat, d \in Nat, v \in Nat : Same(a, d, v)
  <2> TAKE a \in Nat, d \in Nat, v \in Nat
  <2>1. PICK q \in Nat, np \in Nat : q = a * d /\ np = n * p
    BY <1>2
  <2>2. (q + v) * I = q * I + v * I
    BY <2>1
  <2>3. PICK qi \in Nat, vi \in Nat : qi = q * I /\ vi = v * I
    BY <2>1
  <2> QED BY <1>5, <2>1, <2>2, <2>3
<1> HIDE DEF Same
<1>10. w \in Nat /\ h \in Nat
  OBVIOUS
<1>8. WgtBase(t, tile, n) + (k * I) + b = PackIndex(OutCol(t, tile, k), n * p + b, I)
  <2>1. WgtBase(t, tile, n) = ((j * w) * I) + (n * p)
    BY <1>1, <1>3 DEF WgtBase
  <2>2. PackIndex(OutCol(t, tile, k), n * p + b, I) = ((j * w + k) * I) + (n * p + b)
    BY <1>1, <1>3 DEF OutCol, TileW, PackIndex
  <2>3. k \in Nat
    BY <1>5
  <2>4. Same(j, w, k)
    BY <1>3, <1>7, <1>10, <2>3, Zenon
  <2>5. (((j * w) * I) + (n * p)) + (k * I) + b = ((j * w + k) * I) + (n * p + b)
    BY <2>4 DEF Same
  <2> QED BY <2>1, <2>2, <2>5
<1>9. InpBase(t, tile, n) + (x * I) + b = PackIndex(OutRow(t, tile, x), n * p + b, I)
  <2>1. InpBase(t, tile, n) = ((i * h) * I) + (n * p)
    BY <1>1, <1>3 DEF InpBase
  <2>2. PackIndex(OutRow(t, tile, x), n * p + b, I) = ((i * h + x) * I) + (n * p + b)
    BY <1>1, <1>3 DEF OutRow, TileH, PackIndex
  <2>3. x \in Nat
    BY <1>5
  <2>4. Same(i, h, x)
    BY <1>3, <1>7, <1>10, <2>3, Zenon
  <2>5. (((i * h) * I) + (n * p)) + (x * I) + b = ((i * h + x) * I) + (n * p + b)
    BY <2>4 DEF Same
  <2> QED BY <2>1, <2>2, <2>5
<1> QED BY <1>1, <1>4, <1>6, <1>8, <1>9

\* One product more.
LEMMA FoldOne ==
  ASSUME NEW t, NEW row, NEW col, NEW J \in Nat
  PROVE  LET f == Folded(t, row, col, J) IN
         /\ Folded(t, row, col, J + 1)
              = Acc(f.bias, f.terms \cup {<<PackIndex(row, J, InW(t)), PackIndex(col, J, InW(t))>>},
                    f.n + 1)
         /\ Folded(t, row, col, 0) = Acc(PackIndex(row, col, OutW(t)), {}, 0)
<1> DEFINE Term(j) == <<PackIndex(row, j, InW(t)), PackIndex(col, j, InW(t))>>
<1>1. \A K : TermsTo(t, row, col, K) = {Term(j) : j \in 0 .. K - 1}
  BY DEF TermsTo
<1> HIDE DEF Term
<1>2. TermsTo(t, row, col, J + 1) = TermsTo(t, row, col, J) \cup {Term(J)}
  <2>1. 0 .. (J + 1) - 1 = (0 .. J - 1) \cup {J}
    OBVIOUS
  <2>2. {Term(j) : j \in (0 .. J - 1) \cup {J}} = {Term(j) : j \in 0 .. J - 1} \cup {Term(J)}
    OBVIOUS
  <2>3. TermsTo(t, row, col, J + 1) = {Term(j) : j \in (0 .. J - 1) \cup {J}}
    BY <1>1, <2>1
  <2> QED BY <1>1, <2>2, <2>3
<1>3. TermsTo(t, row, col, 0) = {}
  <2>1. 0 .. 0 - 1 = {}
    OBVIOUS
  <2> QED BY <1>1, <2>1
<1>4. \A K : /\ Folded(t, row, col, K).bias = PackIndex(row, col, OutW(t))
             /\ Folded(t, row, col, K).terms = TermsTo(t, row, col, K)
             /\ Folded(t, row, col, K).n = K
  BY DEF Folded, Acc
<1>5. Folded(t, row, col, J + 1)
        = Acc(PackIndex(row, col, OutW(t)), TermsTo(t, row, col, J) \cup {Term(J)}, J + 1)
  BY <1>2 DEF Folded
<1>6. Folded(t, row, col, 0) = Acc(PackIndex(row, col, OutW(t)), {}, 0)
  BY <1>3 DEF Folded
<1> QED BY <1>4, <1>5, <1>6 DEF Term

\* How the sums deepen.
LEMMA Depths ==
  ASSUME NEW t \in Tests, Asserts(t), t.kind # "alu",
         NEW x \in InRows(t), NEW k \in OutCols(t), NEW J \in 0 .. BIn(t), NEW passes \in Nat
  PROVE  /\ Depth(t, x, k, 0, 0)
         /\ Depth(t, x, k, J, 0) => J = 0
         /\ Depth(t, x, k, J, Work(t)) => J = BIn(t)
         /\ \A xx \in InRows(t), b \in InCols(t), kk \in OutCols(t) :
              passes = Pass(t, xx, b, kk) /\ Depth(t, x, k, J, passes) =>
                IF x = xx /\ k = kk THEN J = b /\ Depth(t, x, k, b + 1, passes + 1)
                ELSE Depth(t, x, k, J, passes + 1)
<1>1. BIn(t) \in Nat \ {0} /\ Work(t) \in Nat /\ InCols(t) = 0 .. BIn(t) - 1
  BY Dimensions, WorkPositive DEF InCols
<1>2. \A b \in InCols(t) : b \in Nat /\ Pass(t, x, b, k) \in Nat /\ Pass(t, x, b, k) < Work(t)
  <2> TAKE b \in InCols(t)
  <2>1. Pass(t, x, b, k) \in 0 .. Work(t) - 1
    BY Passes
  <2> QED BY <1>1, <2>1
<1>3. Depth(t, x, k, 0, 0)
  BY <1>2 DEF Depth
<1>4. ASSUME Depth(t, x, k, J, 0) PROVE J = 0
  <2>1. 0 \in InCols(t) /\ J \in Nat
    BY <1>1
  <2>2. (0 < J) <=> (Pass(t, x, 0, k) < 0)
    BY <1>4, <2>1 DEF Depth
  <2>3. Pass(t, x, 0, k) \in Nat
    BY <1>2, <2>1
  <2> QED BY <2>1, <2>2, <2>3
<1>5. ASSUME Depth(t, x, k, J, Work(t)) PROVE J = BIn(t)
  <2>1. SUFFICES ASSUME J # BIn(t) PROVE FALSE
    OBVIOUS
  <2>2. J \in InCols(t) /\ J \in Nat
    BY <1>1, <2>1
  <2>3. (J < J) <=> (Pass(t, x, J, k) < Work(t))
    BY <1>5, <2>2 DEF Depth
  <2>4. Pass(t, x, J, k) < Work(t)
    BY <1>2, <2>2
  <2> QED BY <2>2, <2>3, <2>4
<1>6. ASSUME NEW xx \in InRows(t), NEW b \in InCols(t), NEW kk \in OutCols(t),
             passes = Pass(t, xx, b, kk), Depth(t, x, k, J, passes)
      PROVE  IF x = xx /\ k = kk THEN J = b /\ Depth(t, x, k, b + 1, passes + 1)
             ELSE Depth(t, x, k, J, passes + 1)
  <2>1. \A a \in InCols(t) : (a < J) <=> (Pass(t, x, a, k) < passes)
    BY <1>6 DEF Depth
  <2>2. CASE x = xx /\ k = kk
    <3>1. b \in Nat /\ J \in Nat /\ passes = Pass(t, x, b, k)
      BY <1>1, <1>6, <2>2
    <3>2. \A a \in InCols(t), d \in InCols(t) : a < d => Pass(t, x, a, k) < Pass(t, x, d, k)
      BY PassOrder
    <3>3. ~(b < J)
      BY <2>1, <3>1
    <3>4. ~(J < b)
      <4>1. SUFFICES ASSUME J < b PROVE FALSE
        OBVIOUS
      <4>2. J \in InCols(t)
        BY <1>1, <3>1, <4>1
      <4>3. Pass(t, x, J, k) < passes
        BY <3>1, <3>2, <4>1, <4>2
      <4> QED BY <2>1, <3>1, <4>2, <4>3
    <3>5. J = b
      BY <3>1, <3>3, <3>4
    <3>6. ASSUME NEW a \in InCols(t) PROVE (a < b + 1) <=> (Pass(t, x, a, k) < passes + 1)
      <4>1. a \in Nat /\ Pass(t, x, a, k) \in Nat
        BY <1>2
      <4>2. CASE a < b
        BY <2>1, <3>1, <3>5, <4>1, <4>2
      <4>3. CASE a = b
        BY <3>1, <4>1, <4>3
      <4>4. CASE b < a
        <5>1. passes < Pass(t, x, a, k)
          BY <3>1, <3>2, <4>4
        <5> QED BY <3>1, <4>1, <4>4, <5>1
      <4> QED BY <3>1, <4>1, <4>2, <4>3, <4>4
    <3>7. Depth(t, x, k, b + 1, passes + 1)
      BY <3>6 DEF Depth
    <3> QED BY <2>2, <3>5, <3>7
  <2>3. CASE ~(x = xx /\ k = kk)
    <3>1. ASSUME NEW a \in InCols(t) PROVE (a < J) <=> (Pass(t, x, a, k) < passes + 1)
      <4>1. Pass(t, x, a, k) \in Nat
        BY <1>2
      <4>2. Pass(t, x, a, k) # passes
        BY <1>6, <2>3, PassOrder
      <4> QED BY <2>1, <4>1, <4>2
    <3>2. Depth(t, x, k, J, passes + 1)
      BY <3>1 DEF Depth
    <3> QED BY <2>3, <3>2
  <2> QED BY <2>2, <2>3
<1> QED BY <1>3, <1>4, <1>5, <1>6

\* The accumulator that a transfer has just filled.
LEMMA OverHas ==
  ASSUME NEW new, NEW old, NEW s, NEW v, Has(new, s, v)
  PROVE  Has(Over(new, old), s, v)
BY DEF Has, Over

LEMMA WithHas ==
  ASSUME NEW f, NEW s, NEW v, NEW r, NEW u
  PROVE  /\ Has(With(f, s, v), s, v)
         /\ Has(f, r, u) /\ r # s => Has(With(f, s, v), r, u)
BY DEF Has, With

LEMMA SumsStart ==
  ASSUME NEW t \in Tests, Asserts(t), t.kind # "alu", NEW tile, NEW a,
         \A x \in InRows(t), k \in OutCols(t) :
           Has(a, SlotAt(0, BRows(t), BOut(t), x, k), Acc(OutEl(t, tile, x, k), {}, 0))
  PROVE  SumsAt(t, a, tile, 0, 0)
<1>1. BIn(t) \in Nat /\ 0 \in 0 .. BIn(t)
  BY Dimensions
<1>2. ASSUME NEW x \in InRows(t), NEW k \in OutCols(t)
      PROVE  /\ Depth(t, x, k, 0, 0)
             /\ Has(a, SlotAt(0, BRows(t), BOut(t), x, k),
                    Folded(t, OutRow(t, tile, x), OutCol(t, tile, k), 0 + 0))
  <2>1. Depth(t, x, k, 0, 0)
    BY <1>1, Depths
  <2>2. Folded(t, OutRow(t, tile, x), OutCol(t, tile, k), 0) = Acc(OutEl(t, tile, x, k), {}, 0)
    BY FoldOne DEF OutEl
  <2> QED BY <2>1, <2>2
<1> QED BY <1>1, <1>2 DEF SumsAt

\* A micro-op folds in the product of its pass, and no other sum is touched.
LEMMA SumsStep ==
  ASSUME NEW t \in Tests, Asserts(t), t.kind # "alu", NEW tile, NEW a, NEW base \in Nat,
         NEW xx \in InRows(t), NEW b \in InCols(t), NEW kk \in OutCols(t),
         SumsAt(t, a, tile, base, Pass(t, xx, b, kk))
  PROVE  LET slot == SlotAt(0, BRows(t), BOut(t), xx, kk)
             row == OutRow(t, tile, xx)
             col == OutCol(t, tile, kk)
             old == Folded(t, row, col, base + b)
             term == <<PackIndex(row, base + b, InW(t)), PackIndex(col, base + b, InW(t))>>
         IN  /\ Has(a, slot, old)
             /\ SumsAt(t, With(a, slot, Acc(old.bias, old.terms \cup {term}, old.n + 1)), tile,
                       base, Pass(t, xx, b, kk) + 1)
<1> DEFINE slot == SlotAt(0, BRows(t), BOut(t), xx, kk)
           row == OutRow(t, tile, xx)
           col == OutCol(t, tile, kk)
           old == Folded(t, row, col, base + b)
           term == <<PackIndex(row, base + b, InW(t)), PackIndex(col, base + b, InW(t))>>
           new == Acc(old.bias, old.terms \cup {term}, old.n + 1)
           mm == Pass(t, xx, b, kk)
<1>1. /\ BIn(t) \in Nat \ {0} /\ BOut(t) \in Nat \ {0} /\ BRows(t) \in Nat
      /\ b \in Nat /\ b < BIn(t) /\ mm \in Nat /\ xx \in Nat
  <2>1. BIn(t) \in Nat \ {0} /\ BOut(t) \in Nat \ {0} /\ BRows(t) \in Nat \ {0}
    BY Dimensions
  <2>2. mm \in Nat
    BY Passes, WorkPositive
  <2> QED BY <2>1, <2>2 DEF InCols, InRows
<1>2. new = Folded(t, row, col, base + (b + 1))
  <2>1. base + b \in Nat /\ (base + b) + 1 = base + (b + 1)
    BY <1>1
  <2> QED BY <2>1, FoldOne
<1> HIDE DEF slot, row, col, new, mm
<1>3. ASSUME NEW x \in InRows(t), NEW k \in OutCols(t)
      PROVE  \E J \in 0 .. BIn(t) :
               /\ Depth(t, x, k, J, mm + 1)
               /\ Has(With(a, slot, new), SlotAt(0, BRows(t), BOut(t), x, k),
                      Folded(t, OutRow(t, tile, x), OutCol(t, tile, k), base + J))
  <2>1. PICK J \in 0 .. BIn(t) :
          /\ Depth(t, x, k, J, mm)
          /\ Has(a, SlotAt(0, BRows(t), BOut(t), x, k),
                 Folded(t, OutRow(t, tile, x), OutCol(t, tile, k), base + J))
    BY DEF SumsAt, mm
  <2>2. IF x = xx /\ k = kk THEN J = b /\ Depth(t, x, k, b + 1, mm + 1)
        ELSE Depth(t, x, k, J, mm + 1)
    BY <1>1, <2>1, Depths DEF mm
  <2>3. CASE x = xx /\ k = kk
    <3>1. b + 1 \in 0 .. BIn(t) /\ Depth(t, x, k, b + 1, mm + 1)
      BY <1>1, <2>2, <2>3
    <3>2. Has(With(a, slot, new), slot, new)
      BY WithHas
    <3>3. Has(With(a, slot, new), SlotAt(0, BRows(t), BOut(t), x, k),
              Folded(t, OutRow(t, tile, x), OutCol(t, tile, k), base + (b + 1)))
      BY <1>2, <2>3, <3>2 DEF slot, row, col
    <3> QED BY <3>1, <3>3
  <2>4. CASE ~(x = xx /\ k = kk)
    <3>1. SlotAt(0, BRows(t), BOut(t), x, k) # slot
      <4>1. x \in Nat /\ k \in 0 .. BOut(t) - 1 /\ kk \in 0 .. BOut(t) - 1
        BY <1>1 DEF InRows, OutCols
      <4>2. SUFFICES ASSUME SlotAt(0, BRows(t), BOut(t), x, k) = SlotAt(0, BRows(t), BOut(t), xx, kk)
                     PROVE  FALSE
        BY DEF slot
      <4>3. x = xx /\ k = kk
        <5>1. PICK h \in Nat, w \in Nat \ {0} : h = BRows(t) /\ w = BOut(t)
          BY <1>1
        <5>2. xx \in Nat /\ x \in Nat /\ k \in 0 .. w - 1 /\ kk \in 0 .. w - 1
          BY <1>1, <4>1, <5>1
        <5>3. SlotAt(0, h, w, x, k) = SlotAt(0, h, w, xx, kk)
          BY <4>2, <5>1
        <5> QED BY <5>2, <5>3, SlotOf
      <4> QED BY <2>4, <4>3
    <3>2. Has(With(a, slot, new), SlotAt(0, BRows(t), BOut(t), x, k),
              Folded(t, OutRow(t, tile, x), OutCol(t, tile, k), base + J))
      BY <2>1, <3>1, WithHas
    <3> QED BY <2>2, <2>4, <3>2
  <2> QED BY <2>3, <2>4
<1>4. SumsAt(t, With(a, slot, new), tile, base, mm + 1)
  BY <1>3 DEF SumsAt
<1>5. Has(a, slot, old)
  <2>1. PICK J \in 0 .. BIn(t) : Depth(t, xx, kk, J, mm) /\ Has(a, slot, Folded(t, row, col, base + J))
    BY DEF SumsAt, slot, row, col, mm
  <2>2. J = b
    BY <1>1, <2>1, Depths DEF mm
  <2> QED BY <2>1, <2>2
<1> QED BY <1>4, <1>5 DEF slot, row, col, new, mm

\* After the last pass the sums are those before the first pass of the next step,
LEMMA SumsEnd ==
  ASSUME NEW t \in Tests, Asserts(t), t.kind # "alu", NEW tile, NEW a, NEW base \in Nat,
         SumsAt(t, a, tile, base, Work(t))
  PROVE  SumsAt(t, a, tile, base + BIn(t), 0)
<1>1. BIn(t) \in Nat \ {0} /\ Work(t) \in Nat
  BY Dimensions, WorkPositive
<1>2. ASSUME NEW x \in InRows(t), NEW k \in OutCols(t)
      PROVE  \E J \in 0 .. BIn(t) :
               /\ Depth(t, x, k, J, 0)
               /\ Has(a, SlotAt(0, BRows(t), BOut(t), x, k),
                      Folded(t, OutRow(t, tile, x), OutCol(t, tile, k), (base + BIn(t)) + J))
  <2>1. PICK J \in 0 .. BIn(t) :
          /\ Depth(t, x, k, J, Work(t))
          /\ Has(a, SlotAt(0, BRows(t), BOut(t), x, k),
                 Folded(t, OutRow(t, tile, x), OutCol(t, tile, k), base + J))
    BY DEF SumsAt
  <2>2. J = BIn(t) /\ Depth(t, x, k, 0, 0)
    BY <1>1, <2>1, Depths
  <2>3. base + J = (base + BIn(t)) + 0 /\ 0 \in 0 .. BIn(t)
    BY <1>1, <2>2
  <2> QED BY <2>1, <2>2, <2>3
<1> QED BY <1>2 DEF SumsAt

\* and when all the columns are done the tile is complete.
LEMMA SumsDone ==
  ASSUME NEW t \in Tests, Asserts(t), t.kind # "alu", NEW tile, NEW a, SumsAt(t, a, tile, InW(t), 0)
  PROVE  TileDone(t, a, tile)
<1>1. TileH(t) = BRows(t) /\ TileW(t) = BOut(t) /\ InW(t) \in Nat
  BY Dimensions DEF TileH, TileW
<1>2. ASSUME NEW x \in InRows(t), NEW k \in OutCols(t)
      PROVE  Has(a, SlotAt(0, BRows(t), BOut(t), x, k),
                 Expected(t, OutRow(t, tile, x), OutCol(t, tile, k)))
  <2>1. PICK J \in 0 .. BIn(t) :
          /\ Depth(t, x, k, J, 0)
          /\ Has(a, SlotAt(0, BRows(t), BOut(t), x, k),
                 Folded(t, OutRow(t, tile, x), OutCol(t, tile, k), InW(t) + J))
    BY DEF SumsAt
  <2>2. J = 0
    BY <2>1, Depths
  <2>3. InW(t) + J = InW(t)
    BY <1>1, <2>2
  <2> QED BY <2>1, <2>3 DEF Expected
<1> QED BY <1>1, <1>2 DEF TileDone, InRows, OutCols

\* The outputs of one tile more, once they are stored.
LEMMA StoreTile ==
  ASSUME NEW t \in Tests, Asserts(t), NEW tile \in Tiles(CallOf(t)), NEW a, NEW d,
         StoredTiles(t, d, tile), TileDone(t, a, tile), NEW new,
         LET e == Elements(LastOf(t, tile)) IN
         /\ DOMAIN new = {e[s] : s \in DOMAIN e}
         /\ \A x \in DOMAIN new : \E s \in DOMAIN e : x = e[s] /\ Has(a, s, new[x])
  PROVE  StoredTiles(t, Over(new, d), tile + 1)
<1> DEFINE e == Elements(LastOf(t, tile))
           El(x, k) == OutEl(t, tile, x, k)
           Slot(x, k) == SlotAt(0, TileH(t), TileW(t), x, k)
<1>1. /\ \A x \in 0 .. TileH(t) - 1, k \in 0 .. TileW(t) - 1 : Has(e, Slot(x, k), El(x, k))
      /\ \A s \in DOMAIN e : \E x \in 0 .. TileH(t) - 1, k \in 0 .. TileW(t) - 1 : s = Slot(x, k)
  BY TileElements
<1>2. tile \in Nat
  BY CallInBlocks, Sizes DEF Tiles
<1>3. \A x \in 0 .. TileH(t) - 1, k \in 0 .. TileW(t) - 1 :
        /\ El(x, k) \div OutW(t) = OutRow(t, tile, x)
        /\ El(x, k) % OutW(t) = OutCol(t, tile, k)
  BY <1>2, OutPlace
<1>4. \A x \in 0 .. TileH(t) - 1, k \in 0 .. TileW(t) - 1 :
        Has(a, Slot(x, k), Expected(t, OutRow(t, tile, x), OutCol(t, tile, k)))
  BY DEF TileDone
<1> HIDE DEF e, El, Slot
<1>5. \A y \in DOMAIN new : new[y] = Expected(t, y \div OutW(t), y % OutW(t))
  <2> TAKE y \in DOMAIN new
  <2>1. PICK s \in DOMAIN e : y = e[s] /\ Has(a, s, new[y])
    BY DEF e
  <2>2. PICK x \in 0 .. TileH(t) - 1, k \in 0 .. TileW(t) - 1 : s = Slot(x, k)
    BY <1>1
  <2>3. y = El(x, k)
    BY <1>1, <2>1, <2>2 DEF Has
  <2>4. new[y] = Expected(t, OutRow(t, tile, x), OutCol(t, tile, k))
    BY <1>4, <2>1, <2>2 DEF Has
  <2> QED BY <1>3, <2>3, <2>4
<1>6. DOMAIN new = {El(x, k) : x \in 0 .. TileH(t) - 1, k \in 0 .. TileW(t) - 1}
  <2>1. ASSUME NEW y \in DOMAIN new
        PROVE  \E x \in 0 .. TileH(t) - 1, k \in 0 .. TileW(t) - 1 : y = El(x, k)
    <3>1. PICK s \in DOMAIN e : y = e[s]
      BY DEF e
    <3>2. PICK x \in 0 .. TileH(t) - 1, k \in 0 .. TileW(t) - 1 : s = Slot(x, k)
      BY <1>1
    <3> QED BY <1>1, <3>1, <3>2 DEF Has
  <2>2. ASSUME NEW x \in 0 .. TileH(t) - 1, NEW k \in 0 .. TileW(t) - 1
        PROVE  El(x, k) \in DOMAIN new
    <3>1. Slot(x, k) \in DOMAIN e /\ e[Slot(x, k)] = El(x, k)
      BY <1>1 DEF Has
    <3> QED BY <3>1 DEF e
  <2> QED BY <2>1, <2>2
<1>7. OutEls(t, tile + 1) = DOMAIN new \cup OutEls(t, tile)
  <2>1. 0 .. (tile + 1) - 1 = (0 .. tile - 1) \cup {tile}
    BY <1>2
  <2>2. ASSUME NEW y \in OutEls(t, tile + 1) PROVE y \in DOMAIN new \cup OutEls(t, tile)
    <3>1. PICK l \in 0 .. (tile + 1) - 1, x \in 0 .. TileH(t) - 1, k \in 0 .. TileW(t) - 1 :
            y = OutEl(t, l, x, k)
      BY <2>2 DEF OutEls
    <3>2. CASE l = tile
      BY <1>6, <3>1, <3>2 DEF El
    <3>3. CASE l \in 0 .. tile - 1
      BY <3>1, <3>3 DEF OutEls
    <3> QED BY <2>1, <3>1, <3>2, <3>3
  <2>3. ASSUME NEW y \in DOMAIN new PROVE y \in OutEls(t, tile + 1)
    <3>1. PICK x \in 0 .. TileH(t) - 1, k \in 0 .. TileW(t) - 1 : y = OutEl(t, tile, x, k)
      BY <1>6, <2>3 DEF El
    <3>2. tile \in 0 .. (tile + 1) - 1
      BY <1>2
    <3> QED BY <3>1, <3>2 DEF OutEls
  <2>4. ASSUME NEW y \in OutEls(t, tile) PROVE y \in OutEls(t, tile + 1)
    <3>1. PICK l \in 0 .. tile - 1, x \in 0 .. TileH(t) - 1, k \in 0 .. TileW(t) - 1 :
            y = OutEl(t, l, x, k)
      BY <2>4 DEF OutEls
    <3>2. l \in 0 .. (tile + 1) - 1
      BY <2>1
    <3> QED BY <3>1, <3>2 DEF OutEls
  <2> QED BY <2>2, <2>3, <2>4
<1>8. DOMAIN Over(new, d) = OutEls(t, tile + 1)
  BY <1>7, OverDomain DEF StoredTiles
<1>9. ASSUME NEW y \in DOMAIN Over(new, d)
      PROVE  Over(new, d)[y] = Expected(t, y \div OutW(t), y % OutW(t))
  <2>1. y \in DOMAIN new \cup DOMAIN d
    BY <1>9, OverDomain
  <2>2. Over(new, d)[y] = IF y \in DOMAIN new THEN new[y] ELSE d[y]
    BY <2>1 DEF Over
  <2>3. CASE y \in DOMAIN new
    BY <1>5, <2>2, <2>3
  <2>4. CASE y \notin DOMAIN new
    BY <2>1, <2>2, <2>4 DEF StoredTiles
  <2> QED BY <2>3, <2>4
<1> QED BY <1>8, <1>9 DEF StoredTiles

\* The accumulator after the load at the head of a tile.
LEMMA Filled ==
  ASSUME NEW new, NEW old, NEW s, NEW v, Has(new, s, v)
  PROVE  Has(Over([r \in DOMAIN new |-> Acc(new[r], {}, 0)], old), s, Acc(v, {}, 0))
<1>1. Has([r \in DOMAIN new |-> Acc(new[r], {}, 0)], s, Acc(v, {}, 0))
  BY DEF Has
<1> QED BY <1>1, OverHas

\* The inputs of a row of alu_test.
LEMMA RowSizes ==
  ASSUME NEW t \in Tests, Asserts(t), t.kind = "alu"
  PROVE  /\ OutW(t) \in Nat \ {0} /\ OutW(t) * InputSets(t) \in Nat
         /\ OutW(t) <= OutW(t) * InputSets(t)
         /\ ~t.imm => \A s \in 0 .. OutW(t) - 1 : OutW(t) + s \in 0 .. OutW(t) * InputSets(t) - 1
<1>1. PICK U \in Nat \ {0} : U = OutW(t)
  BY CallInBlocks
<1>2. CASE t.imm
  BY <1>1, <1>2 DEF InputSets
<1>3. CASE ~t.imm
  <2>1. OutW(t) * InputSets(t) = U + U
    BY <1>1, <1>3 DEF InputSets
  <2> QED BY <1>1, <2>1
<1> QED BY <1>2, <1>3

LEMMA RowStart ==
  ASSUME NEW t \in Tests, Asserts(t), t.kind = "alu", NEW tile \in Nat, NEW old
  PROVE  LET new == Elements(FirstOf(t, tile))
         IN  RowAt(t, Over([s \in DOMAIN new |-> Acc(new[s], {}, 0)], old), tile, 0)
<1> DEFINE new == Elements(FirstOf(t, tile))
           a == Over([s \in DOMAIN new |-> Acc(new[s], {}, 0)], old)
<1>1. PICK all \in Nat \ {0} :
        all = OutW(t) * InputSets(t) /\ new = Region(0, 1, all, tile * all, all)
  BY AluRegions
<1> HIDE DEF new
<1>2. ASSUME NEW s \in 0 .. all - 1
      PROVE  Has(a, s, Acc(InputAt(t, tile, s), {}, 0))
  <2>1. 0 \in 0 .. 1 - 1
    OBVIOUS
  <2>2. Has(Region(0, 1, all, tile * all, all), SlotAt(0, 1, all, 0, s), tile * all + (0 * all) + s)
    <3>1. 0 \in Nat /\ 1 \in Nat \ {0}
      OBVIOUS
    <3> QED BY <2>1, <3>1, RegionAt, Zenon
  <2>3. SlotAt(0, 1, all, 0, s) = s
    BY DEF SlotAt
  <2>4. tile * all + (0 * all) + s = InputAt(t, tile, s)
    <3>1. PICK p \in Nat : p = tile * all
      OBVIOUS
    <3>2. InputAt(t, tile, s) = p + s
      BY <1>1, <3>1 DEF InputAt, PackIndex
    <3> QED BY <3>1, <3>2
  <2>5. Has(new, s, InputAt(t, tile, s))
    BY <1>1, <2>2, <2>3, <2>4
  <2> QED BY <2>5, Filled
<1>3. ASSUME NEW s \in 0 .. all - 1
      PROVE  Has(a, s, IF s < 0 THEN AluResult(t, tile, s) ELSE Acc(InputAt(t, tile, s), {}, 0))
  <2>1. ~(s < 0)
    OBVIOUS
  <2> QED BY <1>2, <2>1
<1>4. RowAt(t, a, tile, 0)
  BY <1>1, <1>3 DEF RowAt
<1> QED BY <1>4 DEF new

\* A micro-op combines one element of the row with its second operand.
LEMMA RowStep ==
  ASSUME NEW t \in Tests, Asserts(t), t.kind = "alu", NEW tile \in Nat, NEW a,
         NEW s \in 0 .. OutW(t) - 1, RowAt(t, a, tile, s)
  PROVE  LET old == Acc(InputAt(t, tile, s), {}, 0)
             other == Acc(InputAt(t, tile, s) + OutW(t), {}, 0)
             term == IF t.imm THEN <<tile, -1>> ELSE <<other.bias, other.n>>
         IN  /\ Has(a, s, old)
             /\ ~t.imm => Has(a, OutW(t) + s, other)
             /\ RowAt(t, With(a, s, Acc(old.bias, old.terms \cup {term}, old.n + 1)), tile, s + 1)
<1> DEFINE old == Acc(InputAt(t, tile, s), {}, 0)
           other == Acc(InputAt(t, tile, s) + OutW(t), {}, 0)
           term == IF t.imm THEN <<tile, -1>> ELSE <<other.bias, other.n>>
           new == Acc(old.bias, old.terms \cup {term}, old.n + 1)
<1>1. PICK U \in Nat \ {0}, all \in Nat :
        /\ U = OutW(t) /\ all = OutW(t) * InputSets(t) /\ U <= all
        /\ ~t.imm => \A r \in 0 .. U - 1 : U + r \in 0 .. all - 1
  BY RowSizes
<1>2. \A r \in 0 .. all - 1 :
        Has(a, r, IF r < s THEN AluResult(t, tile, r) ELSE Acc(InputAt(t, tile, r), {}, 0))
  BY <1>1 DEF RowAt
<1>3. s \in Nat /\ s < U /\ s \in 0 .. all - 1 /\ ~(s < s)
  BY <1>1
<1>4. Has(a, s, old)
  BY <1>2, <1>3
<1>5. ASSUME ~t.imm PROVE Has(a, OutW(t) + s, other)
  <2>1. U + s \in 0 .. all - 1 /\ ~(U + s < s)
    BY <1>1, <1>3, <1>5
  <2>2. InputAt(t, tile, U + s) = InputAt(t, tile, s) + U
    <3>1. PICK p \in Nat : p = tile * all
      BY <1>1
    <3> QED BY <1>1, <1>3, <3>1 DEF InputAt, PackIndex
  <2>3. Has(a, U + s, Acc(InputAt(t, tile, U + s), {}, 0))
    BY <1>2, <2>1
  <2> QED BY <1>1, <2>2, <2>3
<1>6. new = AluResult(t, tile, s)
  <2>1. old.bias = InputAt(t, tile, s) /\ old.terms = {} /\ old.n = 0
    BY DEF Acc
  <2>2. other.bias = InputAt(t, tile, s) + OutW(t) /\ other.n = 0
    BY DEF Acc
  <2>3. term = IF t.imm THEN <<tile, -1>> ELSE <<InputAt(t, tile, s) + OutW(t), 0>>
    BY <2>2
  <2> HIDE DEF old, term
  <2>4. new = Acc(InputAt(t, tile, s), {term}, 1)
    <3>1. {} \cup {term} = {term} /\ 0 + 1 = 1
      OBVIOUS
    <3> QED BY <2>1, <3>1
  <2> QED BY <2>3, <2>4 DEF AluResult
<1> HIDE DEF old, other, new
<1>7. ASSUME NEW r \in 0 .. all - 1
      PROVE  Has(With(a, s, new), r,
                 IF r < s + 1 THEN AluResult(t, tile, r) ELSE Acc(InputAt(t, tile, r), {}, 0))
  <2>1. CASE r = s
    <3>1. r < s + 1
      BY <1>3, <2>1
    <3> QED BY <1>6, <2>1, <3>1, WithHas
  <2>2. CASE r # s
    <3>1. r < s <=> r < s + 1
      BY <1>3, <2>2
    <3> QED BY <1>2, <2>2, <3>1, WithHas
  <2> QED BY <2>1, <2>2
<1>8. RowAt(t, With(a, s, new), tile, s + 1)
  BY <1>1, <1>7 DEF RowAt
<1> QED BY <1>4, <1>5, <1>8 DEF old, other, new

LEMMA RowDone ==
  ASSUME NEW t \in Tests, Asserts(t), t.kind = "alu", NEW tile \in Nat, NEW a,
         RowAt(t, a, tile, OutW(t))
  PROVE  TileDone(t, a, tile)
<1>1. PICK U \in Nat \ {0} : U = OutW(t) /\ TileH(t) = 1 /\ TileW(t) = U
  BY RowSizes DEF TileH, TileW
<1>2. ASSUME NEW k \in 0 .. U - 1
      PROVE  Has(a, SlotAt(0, 1, U, 0, k), Expected(t, OutRow(t, tile, 0), OutCol(t, tile, k)))
  <2>1. SlotAt(0, 1, U, 0, k) = k
    BY DEF SlotAt
  <2>2. OutRow(t, tile, 0) = tile /\ OutCol(t, tile, k) = k
    <3>1. tile \div 1 = tile /\ tile % 1 = 0
      OBVIOUS
    <3>2. TileRow(t, tile) = tile /\ TileCol(t, tile) = 0
      BY <3>1 DEF TileRow, TileCol, TileCols
    <3> QED BY <1>1, <3>2 DEF OutRow, OutCol
  <2>3. k \in 0 .. OutW(t) * InputSets(t) - 1 /\ k < U
    <3>1. PICK all \in Nat : all = OutW(t) * InputSets(t) /\ U <= all
      BY <1>1, RowSizes
    <3> QED BY <3>1
  <2>4. Has(a, k, IF k < U THEN AluResult(t, tile, k) ELSE Acc(InputAt(t, tile, k), {}, 0))
    BY <1>1, <2>3 DEF RowAt
  <2> QED BY <2>1, <2>2, <2>3, <2>4 DEF Expected
<1>3. \A x \in 0 .. 1 - 1 : x = 0
  OBVIOUS
<1> QED BY <1>1, <1>2, <1>3 DEF TileDone

-----------------------------------------------------------------------------
(* How an instruction changes the results                                   *)

\* What a micro-op reads: the accumulator, the inputs and the weights.
LEMMA Held ==
  ASSUME NEW s, NEW v
  PROVE  /\ Has(acc, s, v) => AccAt(s) = v
         /\ Has(inp, s, v) => At(inp, s) = v
         /\ Has(wgt, s, v) => At(wgt, s) = v
BY DEF Has, AccAt, At

\* A micro-op of a GEMM instruction folds in the product of its pass.
LEMMA FoldsProduct ==
  ASSUME PosInv, ~Done, ExecMicroOp, test.kind # "alu",
         NEW tile \in Tiles(CallOf(test)), NEW n \in Steps(CallOf(test)),
         pc = PartPos(CallOf(test), tile, n, LastPart(CallOf(test))),
         SumsAt(test, acc, tile, n * BIn(test), m),
         Loaded(wgt, Elements(StepsAt(test, tile, n)[1])),
         Loaded(inp, Elements(StepsAt(test, tile, n)[2]))
  PROVE  SumsAt(test, acc', tile, n * BIn(test), m + 1)
<1>1. test \in Tests /\ Asserts(test)
  BY DEF PosInv
<1>2. PICK base \in Nat : base = n * BIn(test)
  <2>1. n \in Nat /\ BIn(test) \in Nat
    BY <1>1, Dimensions, CallInBlocks, Sizes DEF Steps
  <2> QED BY <2>1
<1>3. PICK x \in InRows(test), b \in InCols(test), k \in OutCols(test) :
        /\ m = Pass(test, x, b, k) /\ Current.op = "GEMM"
        /\ MicroOp(Current).dst = SlotAt(0, BRows(test), BOut(test), x, k)
        /\ MicroOp(Current).src = SlotAt(n % test.vt, BRows(test), BIn(test), x, b)
        /\ MicroOp(Current).wgt = SlotAt(n % test.vt, BOut(test), BIn(test), k, b)
  BY GemmPass
<1> DEFINE uop == MicroOp(Current)
           row == OutRow(test, tile, x)
           col == OutCol(test, tile, k)
           old == Folded(test, row, col, base + b)
           term == <<PackIndex(row, base + b, InW(test)), PackIndex(col, base + b, InW(test))>>
<1>4. /\ Has(acc, uop.dst, old)
      /\ SumsAt(test, With(acc, uop.dst, Acc(old.bias, old.terms \cup {term}, old.n + 1)), tile,
                base, m + 1)
  BY <1>1, <1>2, <1>3, SumsStep
<1>5. At(inp, uop.src) = PackIndex(row, base + b, InW(test))
  <2>1. Has(Elements(StepsAt(test, tile, n)[2]), uop.src, PackIndex(row, base + b, InW(test)))
    BY <1>1, <1>2, <1>3, Operands
  <2>2. Has(inp, uop.src, PackIndex(row, base + b, InW(test)))
    BY <2>1 DEF Loaded, Has
  <2> QED BY <2>2, Held
<1>6. At(wgt, uop.wgt) = PackIndex(col, base + b, InW(test))
  <2>1. Has(Elements(StepsAt(test, tile, n)[1]), uop.wgt, PackIndex(col, base + b, InW(test)))
    BY <1>1, <1>2, <1>3, Operands
  <2>2. Has(wgt, uop.wgt, PackIndex(col, base + b, InW(test)))
    BY <2>1 DEF Loaded, Has
  <2> QED BY <2>2, Held
<1>7. AccAt(uop.dst) = old
  BY <1>4, Held
<1>8. acc' = With(acc, uop.dst, Acc(AccAt(uop.dst).bias,
                    AccAt(uop.dst).terms \cup {<<At(inp, uop.src), At(wgt, uop.wgt)>>},
                    AccAt(uop.dst).n + 1))
  BY <1>3 DEF ExecMicroOp
<1> HIDE DEF uop, row, col, old
<1>9. acc' = With(acc, uop.dst, Acc(old.bias, old.terms \cup {term}, old.n + 1))
  BY <1>5, <1>6, <1>7, <1>8
<1> QED BY <1>2, <1>4, <1>9

\* A micro-op of an ALU instruction combines the next element of the row.
LEMMA CombinesElement ==
  ASSUME PosInv, ~Done, ExecMicroOp, test.kind = "alu",
         NEW tile \in Tiles(CallOf(test)), NEW n \in Steps(CallOf(test)),
         pc = PartPos(CallOf(test), tile, n, LastPart(CallOf(test))),
         RowAt(test, acc, tile, m)
  PROVE  RowAt(test, acc', tile, m + 1)
<1>1. test \in Tests /\ Asserts(test)
  BY DEF PosInv
<1>2. tile \in Nat
  BY <1>1, CallInBlocks, Sizes DEF Tiles
<1>3. /\ Current.op = "ALU" /\ Current.imm = tile /\ m \in 0 .. OutW(test) - 1
      /\ MicroOp(Current).dst = m /\ MicroOp(Current).src = OutW(test) + m
  BY AluPass
<1> DEFINE old == Acc(InputAt(test, tile, m), {}, 0)
           other == Acc(InputAt(test, tile, m) + OutW(test), {}, 0)
           term == IF test.imm THEN <<tile, -1>> ELSE <<other.bias, other.n>>
           read == IF test.imm THEN <<Current.imm, -1>>
                   ELSE <<AccAt(MicroOp(Current).src).bias, AccAt(MicroOp(Current).src).n>>
<1>4. /\ Has(acc, m, old)
      /\ ~test.imm => Has(acc, OutW(test) + m, other)
      /\ RowAt(test, With(acc, m, Acc(old.bias, old.terms \cup {term}, old.n + 1)), tile, m + 1)
  BY <1>1, <1>2, <1>3, RowStep
<1>5. acc' = With(acc, m, Acc(AccAt(m).bias, AccAt(m).terms \cup {read}, AccAt(m).n + 1))
  BY <1>3 DEF ExecMicroOp
<1>6. AccAt(m) = old
  BY <1>4, Held
<1>7. read = term
  <2>1. CASE test.imm
    BY <1>3, <2>1
  <2>2. CASE ~test.imm
    <3>1. AccAt(OutW(test) + m) = other
      BY <1>4, <2>2, Held
    <3> HIDE DEF other
    <3> QED BY <1>3, <2>2, <3>1
  <2> QED BY <2>1, <2>2
<1> HIDE DEF old, term, read
<1>8. acc' = With(acc, m, Acc(old.bias, old.terms \cup {term}, old.n + 1))
  BY <1>5, <1>6, <1>7
<1> QED BY <1>4, <1>8

\* A store adds the outputs of its tile.
LEMMA StoresTile ==
  ASSUME PosInv, ExecStore, NEW tile \in Tiles(CallOf(test)), Current = LastOf(test, tile),
         StoredTiles(test, dram, tile), TileDone(test, acc, tile)
  PROVE  StoredTiles(test, dram', tile + 1)
<1>1. test \in Tests /\ Asserts(test)
  BY DEF PosInv
<1> DEFINE e == Elements(LastOf(test, tile))
           From(d) == CHOOSE s \in DOMAIN e : e[s] = d
           new == [d \in {e[s] : s \in DOMAIN e} |-> AccAt(From(d))]
<1>2. dram' = Over(new, dram)
  BY DEF ExecStore
<1>3. /\ \A x \in 0 .. TileH(test) - 1, k \in 0 .. TileW(test) - 1 :
           Has(e, SlotAt(0, TileH(test), TileW(test), x, k), OutEl(test, tile, x, k))
      /\ \A s \in DOMAIN e : \E x \in 0 .. TileH(test) - 1, k \in 0 .. TileW(test) - 1 :
           s = SlotAt(0, TileH(test), TileW(test), x, k)
  BY <1>1, TileElements
<1> HIDE DEF e
<1>4. ASSUME NEW d \in DOMAIN new PROVE \E s \in DOMAIN e : d = e[s] /\ Has(acc, s, new[d])
  <2>1. From(d) \in DOMAIN e /\ e[From(d)] = d
    BY <1>4
  <2>2. new[d] = AccAt(From(d))
    BY <1>4
  <2> HIDE DEF new, From
  <2>3. PICK x \in 0 .. TileH(test) - 1, k \in 0 .. TileW(test) - 1 :
          From(d) = SlotAt(0, TileH(test), TileW(test), x, k)
    BY <1>3, <2>1
  <2>4. From(d) \in DOMAIN acc
    BY <2>3 DEF TileDone, Has
  <2>5. Has(acc, From(d), AccAt(From(d)))
    BY <2>4 DEF Has, AccAt
  <2> QED BY <2>1, <2>2, <2>5
<1>5. DOMAIN new = {e[s] : s \in DOMAIN e}
  OBVIOUS
<1> HIDE DEF new
<1>6. StoredTiles(test, Over(new, dram), tile + 1)
  BY <1>1, <1>4, <1>5, StoreTile DEF e
<1> QED BY <1>2, <1>6

\* The next step of a tile, or its store, after the last pass of a step.
LEMMA StepDone ==
  ASSUME PosInv, NEW tile \in Tiles(CallOf(test)), NEW n \in Steps(CallOf(test)), NEW p, NEW i,
         NEW w, NEW a, NEW d, StoredTiles(test, d, tile),
         p = PartPos(CallOf(test), tile, n, LastPart(CallOf(test))) + 1,
         test.kind = "alu" => RowAt(test, a, tile, Work(test)),
         test.kind # "alu" => SumsAt(test, a, tile, n * BIn(test), Work(test))
  PROVE  DataAt(test, p, 0, i, w, a, d)
<1> DEFINE c == CallOf(test)
<1>1. /\ test \in Tests /\ Asserts(test) /\ c \in TestCalls
      /\ tile \in Nat /\ n \in Nat /\ StepsOf(c) \in Nat \ {0} /\ n < StepsOf(c)
  <2>1. test \in Tests /\ Asserts(test) /\ c \in TestCalls
    BY Executing DEF PosInv
  <2>2. TilesOf(c) \in Nat \ {0} /\ StepsOf(c) \in Nat \ {0}
    BY <2>1, Sizes
  <2> QED BY <2>1, <2>2 DEF Tiles, Steps
<1>2. p = PartPos(c, tile, n + 1, 0) /\ PartPos(c, tile, StepsOf(c), 0) = OutPos(c, tile)
  <2>1. LastPart(c) \in Nat
    BY <1>1, PartsOf
  <2> QED BY <1>1, <2>1, NextPlace
<1>3. CASE test.kind = "alu"
  <2>1. n = 0 /\ StepsOf(c) = 1 /\ Work(test) = OutW(test)
    <3>1. StepsOf(c) = 1
      BY <1>1, <1>3, CallInBlocks
    <3> QED BY <1>1, <1>3, <3>1 DEF Work
  <2>2. p = OutPos(c, tile)
    BY <1>2, <2>1
  <2>3. TileDone(test, a, tile)
    BY <1>1, <1>3, <2>1, RowDone
  <2> QED BY <2>2, <2>3 DEF DataAt
<1>4. CASE test.kind # "alu"
  <2>1. PICK b \in Nat \ {0} : b = BIn(test)
    BY <1>1, <1>4, Dimensions
  <2>2. n * b \in Nat /\ (n * b) + b = (n + 1) * b
    BY <1>1
  <2>3. SumsAt(test, a, tile, (n + 1) * b, 0)
    BY <1>1, <1>4, <2>1, <2>2, SumsEnd
  <2>4. CASE n + 1 = StepsOf(c)
    <3>1. InW(test) = (n + 1) * b
      BY <1>1, <1>4, <2>1, <2>4, Dimensions, CallInBlocks
    <3>2. TileDone(test, a, tile)
      BY <1>1, <1>4, <2>3, <3>1, SumsDone
    <3>3. p = OutPos(c, tile)
      BY <1>2, <2>4
    <3> QED BY <3>2, <3>3 DEF DataAt
  <2>5. CASE n + 1 # StepsOf(c)
    <3>1. n + 1 \in Steps(c) /\ 0 \in Parts(c)
      BY <1>1, <2>5, PartsOf DEF Steps
    <3>2. ~(0 > 0) /\ ~(0 > 1)
      OBVIOUS
    <3> HIDE DEF c
    <3>3. \E tt \in Tiles(c), nn \in Steps(c), e \in Parts(c) :
            /\ p = PartPos(c, tt, nn, e)
            /\ StoredTiles(test, d, tt)
            /\ test.kind = "alu" => RowAt(test, a, tt, 0)
            /\ test.kind # "alu" =>
                 /\ SumsAt(test, a, tt, nn * BIn(test), 0)
                 /\ e > 0 => Loaded(w, Elements(StepsAt(test, tt, nn)[1]))
                 /\ e > 1 => Loaded(i, Elements(StepsAt(test, tt, nn)[2]))
      <4>1. tile \in Tiles(c)
        BY DEF c
      <4>2. SumsAt(test, a, tile, (n + 1) * BIn(test), 0)
        BY <2>1, <2>3
      <4> QED BY <1>2, <1>4, <3>1, <3>2, <4>1, <4>2
    <3> QED BY <3>3 DEF DataAt, c
  <2> QED BY <2>4, <2>5
<1> QED BY <1>3, <1>4

LEMMA DataStep == ASSUME PosInv, DataInv, [Next]_vars PROVE DataInv'
<1> DEFINE c == CallOf(test)
<1>1. /\ test \in Tests /\ Asserts(test) /\ c \in TestCalls
      /\ TilesOf(c) \in Nat \ {0} /\ StepsOf(c) \in Nat \ {0}
  BY Executing, Sizes DEF PosInv
<1>2. /\ 0 \in Tiles(c) /\ 0 \in Steps(c) /\ 0 \in Parts(c)
      /\ Length(c) \in Nat \ {0, 1} /\ \A x \in Tiles(c) : x \in Nat
      /\ LastPart(c) \in Parts(c) /\ LastPart(c) \in Nat /\ \A x \in Parts(c) : x \in Nat
  BY <1>1, PartsOf, Executing DEF Tiles, Parts
<1>3. SUFFICES ASSUME Running, test' = test
               PROVE  DataAt(test, pc', m', inp', wgt', acc', dram')
  <2>1. CASE UNCHANGED vars
    BY <2>1 DEF vars, mems, DataInv
  <2>2. CASE Running
    <3>1. test' = test
      BY <2>2 DEF Running, ExecLoad, ExecMicroOp, ExecStore, ExecFinish
    <3> QED BY <1>3, <2>2, <3>1 DEF DataInv
  <2> QED BY <2>1, <2>2 DEF Next, Running, Terminated
<1>4. /\ ~Done
      /\ ExecLoad => pc' = pc + 1 /\ m' = m /\ dram' = dram /\ m = 0
      /\ ExecFinish => pc' = pc + 1 /\ dram' = dram
      /\ ExecStore => pc' = pc + 1
      /\ ExecMicroOp => dram' = dram /\ inp' = inp /\ wgt' = wgt
  <2>1. ExecLoad => m = 0
    BY DEF PosInv, ExecLoad
  <2> QED BY <1>3, <2>1 DEF Running, ExecLoad, ExecMicroOp, ExecStore, ExecFinish, NextInsn, mems
<1>5. CASE pc = 1 /\ StoredTiles(test, dram, 0)
  <2>1. ExecLoad
    BY <1>2, <1>3, <1>5, Moves
  <2>2. pc' = AccPos(c, 0) /\ 0 \in 0 .. TilesOf(c)
    BY <1>1, <1>4, <1>5, <2>1, NextPlace
  <2>3. StoredTiles(test, dram', 0)
    BY <1>4, <1>5, <2>1
  <2> QED BY <2>2, <2>3 DEF DataAt
<1>6. ASSUME NEW tile \in 0 .. TilesOf(c), pc = AccPos(c, tile), StoredTiles(test, dram, tile)
      PROVE  DataAt(test, pc', m', inp', wgt', acc', dram')
  <2>1. CASE tile = TilesOf(c)
    <3>1. pc = Length(c)
      BY <1>1, <1>6, <2>1, NextPlace
    <3>2. ExecFinish
      BY <1>2, <1>3, <3>1, Moves
    <3>3. pc' = Length(c) + 1 /\ StoredTiles(test, dram', TilesOf(c))
      BY <1>4, <1>6, <2>1, <3>1, <3>2
    <3> QED BY <3>3 DEF DataAt
  <2>2. CASE tile # TilesOf(c)
    <3>1. tile \in Tiles(c) /\ tile \in Nat
      BY <1>1, <2>2 DEF Tiles
    <3>2. ExecLoad /\ Current = FirstOf(test, tile)
      BY <1>2, <1>3, <1>6, <3>1, Moves
    <3>3. pc' = PartPos(c, tile, 0, 0) /\ m' = 0 /\ dram' = dram
      BY <1>1, <1>4, <1>6, <3>1, <3>2, NextPlace
    <3> DEFINE new == Elements(FirstOf(test, tile))
    <3>4. acc' = Over([s \in DOMAIN new |-> Acc(new[s], {}, 0)], acc)
      <4>1. Current.memory = "ACC"
        BY <1>1, <3>2, Operations
      <4> QED BY <3>2, <4>1 DEF ExecLoad
    <3>5. test.kind = "alu" => RowAt(test, acc', tile, 0)
      BY <1>1, <3>1, <3>4, RowStart
    <3>6. test.kind # "alu" => SumsAt(test, acc', tile, 0 * BIn(test), 0)
      <4>1. SUFFICES ASSUME test.kind # "alu" PROVE SumsAt(test, acc', tile, 0, 0)
        <5>1. test.kind # "alu" => 0 * BIn(test) = 0
          BY <1>1, Dimensions
        <5> QED BY <5>1
      <4>2. ASSUME NEW x \in InRows(test), NEW k \in OutCols(test)
            PROVE  Has(acc', SlotAt(0, BRows(test), BOut(test), x, k),
                       Acc(OutEl(test, tile, x, k), {}, 0))
        <5>1. TileH(test) = BRows(test) /\ TileW(test) = BOut(test)
          BY <4>1 DEF TileH, TileW
        <5>2. Has(new, SlotAt(0, BRows(test), BOut(test), x, k), OutEl(test, tile, x, k))
          BY <1>1, <3>1, <4>1, <5>1, TileElements DEF InRows, OutCols
        <5> HIDE DEF new
        <5> QED BY <3>4, <5>2, Filled
      <4> QED BY <1>1, <4>1, <4>2, SumsStart
    <3>7. ~(0 > 0) /\ ~(0 > 1) /\ StoredTiles(test, dram', tile)
      BY <1>6, <3>3
    <3> HIDE DEF new, c
    <3>8. \E tt \in Tiles(c), nn \in Steps(c), e \in Parts(c) :
            /\ pc' = PartPos(c, tt, nn, e)
            /\ StoredTiles(test, dram', tt)
            /\ test.kind = "alu" => RowAt(test, acc', tt, m')
            /\ test.kind # "alu" =>
                 /\ SumsAt(test, acc', tt, nn * BIn(test), m')
                 /\ e > 0 => Loaded(wgt', Elements(StepsAt(test, tt, nn)[1]))
                 /\ e > 1 => Loaded(inp', Elements(StepsAt(test, tt, nn)[2]))
      BY <1>2, <3>1, <3>3, <3>5, <3>6, <3>7
    <3> QED BY <3>8 DEF DataAt, c
  <2> QED BY <2>1, <2>2
<1>7. ASSUME NEW tile \in Tiles(c), NEW n \in Steps(c), NEW e \in Parts(c),
             pc = PartPos(c, tile, n, e), StoredTiles(test, dram, tile),
             test.kind = "alu" => RowAt(test, acc, tile, m),
             test.kind # "alu" =>
               /\ SumsAt(test, acc, tile, n * BIn(test), m)
               /\ e > 0 => Loaded(wgt, Elements(StepsAt(test, tile, n)[1]))
               /\ e > 1 => Loaded(inp, Elements(StepsAt(test, tile, n)[2]))
      PROVE  DataAt(test, pc', m', inp', wgt', acc', dram')
  <2>1. /\ Current = StepsAt(test, tile, n)[1 + e]
        /\ e # LastPart(c) => test.kind # "alu" /\ ExecLoad
        /\ e = LastPart(c) => ExecMicroOp
    BY <1>3, <1>7, Moves
  <2>2. CASE e # LastPart(c)
    <3>1. test.kind # "alu" /\ ExecLoad
      BY <2>1, <2>2
    <3>2. e \in {0, 1} /\ e + 1 \in Parts(c)
      <4>1. LastPart(c) = 2 /\ Parts(c) = {0, 1, 2}
        BY <1>1, <3>1, PartsOf
      <4> QED BY <2>2, <4>1
    <3>3. pc' = PartPos(c, tile, n, e + 1)
      <4>1. tile \in Nat /\ n \in Nat /\ e \in Nat
        BY <1>1, <1>2 DEF Steps
      <4> QED BY <1>1, <1>4, <1>7, <3>1, <4>1, NextPlace
    <3> DEFINE new == Elements(StepsAt(test, tile, n)[1 + e])
    <3>4. /\ Current.memory = IF e = 0 THEN "WGT" ELSE "INP"
          /\ acc' = acc /\ m' = m /\ dram' = dram
          /\ wgt' = IF e = 0 THEN Over(new, wgt) ELSE wgt
          /\ inp' = IF e = 0 THEN inp ELSE Over(new, inp)
      <4>1. Current.memory = IF e = 0 THEN "WGT" ELSE "INP"
        <5>1. CASE e = 0
          BY <1>1, <2>1, <3>1, <5>1, Operations
        <5>2. CASE e = 1
          BY <1>1, <2>1, <3>1, <5>2, Operations
        <5> QED BY <3>2, <5>1, <5>2
      <4> QED BY <1>4, <2>1, <3>1, <4>1 DEF ExecLoad
    <3>5. \A old : Loaded(Over(new, old), new)
      BY OverHas DEF Loaded, Has
    <3>6. e + 1 > 0 => Loaded(wgt', Elements(StepsAt(test, tile, n)[1]))
      <4>1. CASE e = 0
        BY <3>4, <3>5, <4>1
      <4>2. CASE e = 1
        BY <1>7, <3>1, <3>4, <4>2
      <4> QED BY <3>2, <4>1, <4>2
    <3>7. e + 1 > 1 => Loaded(inp', Elements(StepsAt(test, tile, n)[2]))
      <4>1. CASE e = 0
        BY <4>1
      <4>2. CASE e = 1
        BY <3>4, <3>5, <4>2
      <4> QED BY <3>2, <4>1, <4>2
    <3>8. SumsAt(test, acc', tile, n * BIn(test), m') /\ StoredTiles(test, dram', tile)
      BY <1>7, <3>1, <3>4
    <3> HIDE DEF new, c
    <3>9. \E tt \in Tiles(c), nn \in Steps(c), ee \in Parts(c) :
            /\ pc' = PartPos(c, tt, nn, ee)
            /\ StoredTiles(test, dram', tt)
            /\ test.kind = "alu" => RowAt(test, acc', tt, m')
            /\ test.kind # "alu" =>
                 /\ SumsAt(test, acc', tt, nn * BIn(test), m')
                 /\ ee > 0 => Loaded(wgt', Elements(StepsAt(test, tt, nn)[1]))
                 /\ ee > 1 => Loaded(inp', Elements(StepsAt(test, tt, nn)[2]))
      BY <3>1, <3>2, <3>3, <3>6, <3>7, <3>8
    <3> QED BY <3>9 DEF DataAt, c
  <2>3. CASE e = LastPart(c)
    <3>1. ExecMicroOp /\ pc = PartPos(c, tile, n, LastPart(c))
      BY <1>7, <2>1, <2>3
    <3>2. /\ m + 1 = Work(test) => m' = 0 /\ pc' = pc + 1
          /\ m + 1 # Work(test) => m' = m + 1 /\ pc' = pc
          /\ dram' = dram /\ inp' = inp /\ wgt' = wgt
      BY <1>4, <3>1, MicroOpCount DEF NextInsn
    <3>3. test.kind = "alu" => RowAt(test, acc', tile, m + 1)
      BY <1>4, <1>7, <3>1, CombinesElement
    <3>4. test.kind # "alu" =>
            /\ SumsAt(test, acc', tile, n * BIn(test), m + 1)
            /\ Loaded(wgt, Elements(StepsAt(test, tile, n)[1]))
            /\ Loaded(inp, Elements(StepsAt(test, tile, n)[2]))
      <4> SUFFICES ASSUME test.kind # "alu"
                   PROVE  /\ SumsAt(test, acc', tile, n * BIn(test), m + 1)
                          /\ Loaded(wgt, Elements(StepsAt(test, tile, n)[1]))
                          /\ Loaded(inp, Elements(StepsAt(test, tile, n)[2]))
        OBVIOUS
      <4>1. e = 2
        BY <1>1, <2>3, PartsOf
      <4>2. /\ SumsAt(test, acc, tile, n * BIn(test), m)
            /\ Loaded(wgt, Elements(StepsAt(test, tile, n)[1]))
            /\ Loaded(inp, Elements(StepsAt(test, tile, n)[2]))
        BY <1>7, <4>1
      <4> QED BY <1>4, <3>1, <4>2, FoldsProduct
    <3>5. CASE m + 1 = Work(test)
      <4>1. StoredTiles(test, dram', tile) /\ pc' = PartPos(c, tile, n, LastPart(c)) + 1
        BY <1>7, <3>1, <3>2, <3>5
      <4>2. DataAt(test, pc', 0, inp', wgt', acc', dram')
        BY <3>3, <3>4, <3>5, <4>1, StepDone
      <4> QED BY <3>2, <3>5, <4>2
    <3>6. CASE m + 1 # Work(test)
      <4>1. /\ pc' = PartPos(c, tile, n, e) /\ m' = m + 1 /\ StoredTiles(test, dram', tile)
            /\ inp' = inp /\ wgt' = wgt
        BY <1>7, <3>2, <3>6
      <4> HIDE DEF c
      <4>2. \E tt \in Tiles(c), nn \in Steps(c), ee \in Parts(c) :
              /\ pc' = PartPos(c, tt, nn, ee)
              /\ StoredTiles(test, dram', tt)
              /\ test.kind = "alu" => RowAt(test, acc', tt, m')
              /\ test.kind # "alu" =>
                   /\ SumsAt(test, acc', tt, nn * BIn(test), m')
                   /\ ee > 0 => Loaded(wgt', Elements(StepsAt(test, tt, nn)[1]))
                   /\ ee > 1 => Loaded(inp', Elements(StepsAt(test, tt, nn)[2]))
        BY <3>3, <3>4, <4>1
      <4> QED BY <4>2 DEF DataAt, c
    <3> QED BY <3>5, <3>6
  <2> QED BY <2>2, <2>3
<1>8. ASSUME NEW tile \in Tiles(c), pc = OutPos(c, tile), StoredTiles(test, dram, tile),
             TileDone(test, acc, tile)
      PROVE  DataAt(test, pc', m', inp', wgt', acc', dram')
  <2>1. ExecStore /\ Current = LastOf(test, tile)
    BY <1>2, <1>3, <1>8, Moves
  <2>2. StoredTiles(test, dram', tile + 1)
    BY <1>8, <2>1, StoresTile
  <2>3. tile \in Nat /\ tile + 1 \in 0 .. TilesOf(c)
    BY <1>1, <1>2 DEF Tiles
  <2>4. pc' = AccPos(c, tile + 1)
    BY <1>1, <1>4, <1>8, <2>1, <2>3, NextPlace
  <2> QED BY <2>2, <2>3, <2>4 DEF DataAt
<1>9. CASE pc = Length(c) + 1
  BY <1>4, <1>9, Executing
<1>10. DataAt(test, pc, m, inp, wgt, acc, dram)
  BY DEF DataInv
<1> HIDE DEF c
<1> QED BY <1>5, <1>6, <1>7, <1>8, <1>9, <1>10 DEF DataAt, c

LEMMA DataInit == ASSUME Init PROVE DataInv
<1>1. pc = 1 /\ DOMAIN dram = {}
  BY DEF Init
<1>2. OutEls(test, 0) = {}
  <2>1. 0 .. 0 - 1 = {}
    OBVIOUS
  <2> QED BY <2>1 DEF OutEls
<1> QED BY <1>1, <1>2 DEF DataInv, DataAt, StoredTiles

\* Every output is stored with its bias and with each product of the C reference folded
\* in exactly once, whatever the sizes, the blocks, the virtual threads and the form of
\* the micro-ops.
THEOREM Results == Spec => []OutputIsReference
<1>1. Init => PosInv /\ DataInv
  BY PosInit, DataInit
<1>2. (PosInv /\ DataInv) /\ [Next]_vars => (PosInv /\ DataInv)'
  BY PosStep, DataStep
<1>3. ASSUME PosInv, DataInv PROVE OutputIsReference
  <2> DEFINE c == CallOf(test)
  <2>1. /\ test \in Tests /\ Asserts(test) /\ c \in TestCalls
        /\ TilesOf(c) \in Nat \ {0} /\ Length(c) \in Nat \ {0, 1}
        /\ Done <=> pc = Length(c) + 1
    BY <1>3, Executing, Sizes DEF PosInv
  <2>2. DataAt(test, pc, m, inp, wgt, acc, dram)
    BY <1>3 DEF DataInv
  <2>3. PICK tiles \in Nat : StoredTiles(test, dram, tiles)
    <3>1. \A tile \in 0 .. TilesOf(c) : tile \in Nat
      BY <2>1
    <3>2. \A tile \in Tiles(c) : tile \in Nat
      BY <2>1 DEF Tiles
    <3> HIDE DEF c
    <3> QED BY <2>1, <2>2, <3>1, <3>2 DEF DataAt, c
  <2>4. ASSUME NEW e \in DOMAIN dram PROVE dram[e] = CReference(e)
    <3>1. dram[e] = Expected(test, e \div OutW(test), e % OutW(test))
      BY <2>3 DEF StoredTiles
    <3>2. CReference(e) = Expected(test, e \div OutW(test), e % OutW(test))
      <4>1. CASE test.kind = "alu"
        BY <4>1 DEF CReference, Expected, AluResult, InputAt
      <4>2. CASE test.kind # "alu"
        <5>1. PICK U \in Nat \ {0} : U = OutW(test)
          BY <2>1, CallInBlocks
        <5>2. PICK tile \in 0 .. tiles - 1, x \in 0 .. TileH(test) - 1, k \in 0 .. TileW(test) - 1 :
                e = OutEl(test, tile, x, k)
          BY <2>3 DEF StoredTiles, OutEls
        <5>3. e \in Nat
          BY <2>1, <5>2, OutPlace
        <5>4. PICK q \in Nat, r \in Nat : q = e \div U /\ r = e % U /\ e = U * q + r
          <6>1. e \div U \in Nat /\ e % U \in 0 .. U - 1 /\ e = U * (e \div U) + (e % U)
            BY <5>3, DivMod
          <6>2. e % U \in Nat
            BY <6>1
          <6> QED BY <6>1, <6>2
        <5>5. U * q = q * U
          BY <5>1, <5>4
        <5>6. e = PackIndex(q, r, U)
          BY <5>4, <5>5 DEF PackIndex
        <5>7. CReference(e) = Folded(test, q, r, InW(test))
          BY <4>2, <5>1, <5>4, <5>6 DEF CReference, Folded, TermsTo
        <5> QED BY <4>2, <5>1, <5>4, <5>7 DEF Expected
      <4> QED BY <4>1, <4>2
    <3> QED BY <3>1, <3>2
  <2>5. ASSUME Done PROVE DOMAIN dram = 0 .. (Rows(test) * OutW(test)) - 1
    <3>1. pc = Length(c) + 1
      BY <2>1, <2>5
    <3>2. pc # 1
      BY <2>1, <3>1
    <3>3. \A tile \in 0 .. TilesOf(c) : pc # AccPos(c, tile)
      <4> TAKE tile \in 0 .. TilesOf(c)
      <4>1. CASE tile = TilesOf(c)
        BY <2>1, <3>1, <4>1, NextPlace
      <4>2. CASE tile # TilesOf(c)
        <5>1. tile \in Tiles(c) /\ 0 \in Steps(c) /\ 0 \in Parts(c)
          BY <2>1, <4>2, PartsOf DEF Tiles
        <5> QED BY <2>1, <3>1, <5>1, PlaceBounds
      <4> QED BY <4>1, <4>2
    <3>4. \A tile \in Tiles(c), n \in Steps(c), e \in Parts(c) :
            pc # PartPos(c, tile, n, e) /\ pc # OutPos(c, tile)
      BY <2>1, <3>1, PlaceBounds
    <3>5. 0 \in Steps(c) /\ 0 \in Parts(c)
      BY <2>1, PartsOf
    <3> HIDE DEF c
    <3>6. StoredTiles(test, dram, TilesOf(c))
      BY <2>2, <3>2, <3>3, <3>4, <3>5 DEF DataAt, c
    <3> QED BY <2>1, <3>6, OutCovers DEF StoredTiles, c
  <2> QED BY <2>4, <2>5 DEF OutputIsReference
<1>4. PosInv /\ DataInv => OutputIsReference
  BY <1>3
<1> QED BY <1>1, <1>2, <1>4, PTL DEF Spec
=============================================================================
