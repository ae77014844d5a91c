------------------------- MODULE VtaTestLib_proofs -------------------------
(***************************************************************************)
(* The instruction streams of the tests in closed form: which instruction  *)
(* is at which position, and which positions are those of a unit, for      *)
(* matrices of any size.  The proofs about the units that execute a stream *)
(* rest on these lemmas.                                                   *)
(***************************************************************************)
EXTENDS VtaTestLib, TLAPS

-----------------------------------------------------------------------------
(* Quotients and remainders                                                 *)

\* Quotient and remainder.
LEMMA DivMod ==
  ASSUME NEW d \in Nat \ {0}, NEW a \in Nat
  PROVE  a \div d \in Nat /\ a % d \in 0 .. d - 1 /\ a = d * (a \div d) + (a % d)
  OBVIOUS

\* Products grow with their factors.
LEMMA Multiples ==
  ASSUME NEW d \in Nat, NEW p \in Nat, NEW q \in Nat, p < q
  PROVE  d * p \in Nat /\ d * q \in Nat /\ d * p + d <= d * q
<1> DEFINE k == q - p - 1
<1>1. k \in Nat /\ q = p + 1 + k
  OBVIOUS
<1> HIDE DEF k
<1>2. d * k \in Nat /\ d * p \in Nat
  BY <1>1
<1>3. d * q = d * p + d + d * k
  BY <1>1
<1> QED BY <1>2, <1>3

\* The order of numbers is that of their quotients, then of their remainders.
LEMMA Lexicographic ==
  ASSUME NEW d \in Nat \ {0}, NEW p \in Nat, NEW x \in 0 .. d - 1,
         NEW q \in Nat, NEW y \in 0 .. d - 1, d * p + x < d * q + y
  PROVE  p < q \/ (p = q /\ x < y)
<1>1. CASE q < p
  <2>1. d * q + d <= d * p /\ d * q \in Nat /\ d * p \in Nat
    BY <1>1, Multiples
  <2> QED BY <2>1
<1>2. CASE p = q
  <2>1. d * p \in Nat
    OBVIOUS
  <2> QED BY <1>2, <2>1
<1> QED BY <1>1, <1>2

\* A number that is so many times d and a rest smaller than d has just these
\* quotient and remainder.
LEMMA Quotient ==
  ASSUME NEW d \in Nat \ {0}, NEW q \in Nat, NEW r \in 0 .. d - 1
  PROVE  (d * q + r) \div d = q /\ (d * q + r) % d = r
<1> DEFINE a == d * q + r
           p == a \div d
           s == a % d
<1>1. a \in Nat /\ p \in Nat /\ s \in 0 .. d - 1 /\ a = d * p + s
  <2>1. a \in Nat
    OBVIOUS
  <2> HIDE DEF a
  <2> QED BY <2>1, DivMod
<1>2. a = d * q + r
  OBVIOUS
<1> HIDE DEF a, p, s
<1>3. ~(p < q) /\ ~(q < p)
  BY <1>1, <1>2, Multiples
<1>4. p = q
  BY <1>1, <1>3
<1>5. s = r
  BY <1>1, <1>2, <1>4
<1> QED BY <1>4, <1>5 DEF a, p, s

\* The number below d * n are those with a quotient below n.
LEMMA QuotientBound ==
  ASSUME NEW d \in Nat \ {0}, NEW n \in Nat, NEW a \in Nat, a < d * n
  PROVE  a \div d < n
<1>1. a \div d \in Nat /\ a % d \in 0 .. d - 1 /\ a = d * (a \div d) + (a % d)
  BY DivMod
<1> DEFINE q == a \div d
           x == a % d
<1> HIDE DEF q, x
<1>2. q \in Nat /\ x \in 0 .. d - 1 /\ a = d * q + x
  BY <1>1 DEF q, x
<1>3. ~(n < q) /\ n # q
  <2>1. d * n \in Nat /\ d * q \in Nat
    BY <1>2
  <2> QED BY <1>2, <2>1, Multiples
<1> QED BY <1>2, <1>3 DEF q

-----------------------------------------------------------------------------
(* Sequences                                                                *)

IsBody(s, m) == s = [x \in 1 .. m |-> s[x]]
Frame(a, s, b, m) ==
  [x \in 1 .. m + 2 |-> IF x = 1 THEN a ELSE IF x = m + 2 THEN b ELSE s[x - 1]]

\* A body between a first and a last element.
LEMMA Framed ==
  ASSUME NEW a, NEW b, NEW m \in Nat, NEW s, IsBody(s, m)
  PROVE  <<a>> \o s \o <<b>> = Frame(a, s, b, m)
<1> USE DEF IsBody, Frame
<1> DEFINE U == {a, b} \cup {s[x] : x \in 1 .. m}
<1>1. s \in Seq(U) /\ Len(s) = m
  OBVIOUS
<1>2. <<a>> \in Seq(U) /\ <<b>> \in Seq(U) /\ Len(<<a>>) = 1 /\ Len(<<b>>) = 1
  OBVIOUS
<1> HIDE DEF U
<1> DEFINE h == <<a>> \o s
<1>3. /\ h \in Seq(U) /\ Len(h) = m + 1
      /\ \A x \in 1 .. m + 1 : h[x] = IF x = 1 THEN a ELSE s[x - 1]
  BY <1>1, <1>2
<1> HIDE DEF h
<1>4. /\ h \o <<b>> \in Seq(U) /\ Len(h \o <<b>>) = m + 2
      /\ \A x \in 1 .. m + 2 : (h \o <<b>>)[x] = IF x = m + 2 THEN b ELSE h[x]
  BY <1>2, <1>3
<1>5. h \o <<b>> = [x \in 1 .. m + 2 |-> (h \o <<b>>)[x]]
  BY <1>4
<1>6. \A x \in 1 .. m + 2 : (h \o <<b>>)[x] = IF x = 1 THEN a ELSE IF x = m + 2 THEN b ELSE s[x - 1]
  <2> TAKE x \in 1 .. m + 2
  <2>1. CASE x = m + 2
    BY <1>4, <2>1
  <2>2. CASE x # m + 2
    <3>1. x \in 1 .. m + 1
      BY <2>2
    <3>2. (h \o <<b>>)[x] = h[x]
      BY <1>4, <2>2
    <3> QED BY <1>3, <2>2, <3>1, <3>2
  <2> QED BY <2>1, <2>2
<1>7. <<a>> \o s \o <<b>> = h \o <<b>>
  BY DEF h
<1> QED BY <1>4, <1>5, <1>6, <1>7

-----------------------------------------------------------------------------
(* The calls                                                                *)

TilesOf(c) == ShapeOf(c).T
StepsOf(c) == ShapeOf(c).N
SlotsOf(c) == ShapeOf(c).V
Cols(c)    == IF c.kind = "blocked" THEN c.C ELSE 1

\* What the proofs use of the sizes of a call.
LEMMA Sizes ==
  ASSUME NEW c \in TestCalls
  PROVE  /\ TilesOf(c) \in Nat \ {0} /\ StepsOf(c) \in Nat \ {0} /\ SlotsOf(c) \in {0, 1, 2}
         /\ Cols(c) \in Nat \ {0}
         /\ SlotsOf(c) = 0 <=> c.kind = "alu"
         /\ SlotsOf(c) = 0 => StepsOf(c) = 1
         /\ SlotsOf(c) = 2 => \E pairs \in 1 .. StepsOf(c) : StepsOf(c) = 2 * pairs
         /\ c.kind \in {"alu", "gemm", "blocked"}
<1> USE DEF TilesOf, StepsOf, SlotsOf, Cols, ShapeOf, Shape
<1>1. CASE c \in [kind : {"alu"}, rows : Nat \ {0}]
  BY <1>1
<1>2. CASE c \in [kind : {"gemm"}]
  BY <1>2
<1>3. CASE c \in BlockedGemmCalls
  <2>1. /\ c.kind = "blocked" /\ c.B \in Nat \ {0} /\ c.C \in Nat \ {0}
        /\ c.vt \in {1, 2} /\ c.C % c.vt = 0
    BY <1>3 DEF BlockedGemmCalls
  <2>2. c.B * c.C \in Nat \ {0}
    BY <2>1
  <2>3. c.vt = 2 => \E pairs \in 1 .. c.C : c.C = 2 * pairs
    <3> SUFFICES ASSUME c.vt = 2 PROVE \E pairs \in 1 .. c.C : c.C = 2 * pairs
      OBVIOUS
    <3>1. c.C \div 2 \in 1 .. c.C /\ c.C = 2 * (c.C \div 2)
      BY <2>1
    <3> QED BY <3>1
  <2>4. /\ TilesOf(c) = c.B * c.C /\ StepsOf(c) = c.C /\ SlotsOf(c) = c.vt /\ Cols(c) = c.C
    BY <2>1
  <2> QED BY <2>1, <2>2, <2>3, <2>4
<1> QED BY <1>1, <1>2, <1>3 DEF TestCalls

-----------------------------------------------------------------------------
(* The instructions of a call                                               *)

\* The output block of a tile, and the operand blocks of its steps.
BlockOf(c, t) == IF c.kind = "alu" THEN <<t>> ELSE <<t \div Cols(c), t % Cols(c)>>
InpBlock(c, t, n) == <<t \div Cols(c), n>>
WgtBlock(c, t, n) == <<t % Cols(c), n>>

\* The flags, in terms of the tile and the step.
Pop(c, t, n) == SlotsOf(c) = 1 \/ ((t > 0 \/ n > 0) /\ n # 1)
PushPrev(c, t, n) ==
  \/ SlotsOf(c) = 1 /\ n # StepsOf(c) - 1
  \/ SlotsOf(c) = 2 /\ n # StepsOf(c) - 2 /\ (n # StepsOf(c) - 1 \/ t # TilesOf(c) - 1)

AccInsn(c, t) ==
  Insn("LOAD", "ACC", 0, BlockOf(c, t),
       When(t > 0, "popNext") \cup When(SlotsOf(c) = 1, "pushPrev"))
WgtInsn(c, t, n) ==
  Insn("LOAD", "WGT", n % SlotsOf(c), WgtBlock(c, t, n), When(Pop(c, t, n), "popNext"))
InpInsn(c, t, n) ==
  Insn("LOAD", "INP", n % SlotsOf(c), InpBlock(c, t, n), {"pushNext"})
StepInsn(c, t, n) ==
  IF SlotsOf(c) = 0 THEN Insn("ALU", "NONE", 0, BlockOf(c, t), {"pushNext"})
  ELSE Insn("GEMM", "NONE", n % SlotsOf(c), NoBlock,
            {"popPrev"} \cup When(PushPrev(c, t, n), "pushPrev")
                        \cup When(n = StepsOf(c) - 1, "pushNext"))
StoreInsn(c, t) == Store(BlockOf(c, t))

\* The instructions of a step and of a tile.
PerStep(c) == IF SlotsOf(c) = 0 THEN 1 ELSE 3
Width(c)   == 2 + PerStep(c) * StepsOf(c)

OfStep(c, t, n, e) ==
  IF e = PerStep(c) - 1 THEN StepInsn(c, t, n)
  ELSE IF e = 0 THEN WgtInsn(c, t, n) ELSE InpInsn(c, t, n)
OfTile(c, t, d) ==
  IF d = 1 THEN AccInsn(c, t)
  ELSE IF d = Width(c) THEN StoreInsn(c, t)
  ELSE OfStep(c, t, (d - 2) \div PerStep(c), (d - 2) % PerStep(c))

Length(c) == 2 + Width(c) * TilesOf(c)
InsnAt(c, p) ==
  IF p = 1 THEN LoadUop
  ELSE IF p = Length(c) THEN Finish
  ELSE OfTile(c, (p - 2) \div Width(c), 1 + ((p - 2) % Width(c)))

\* The stream of alu_test.
LEMMA AluStream ==
  ASSUME NEW c \in TestCalls, c.kind = "alu"
  PROVE  TestOf(c).insns = [p \in 1 .. Length(c) |-> InsnAt(c, p)]
<1>1. c.rows \in Nat \ {0}
  BY DEF TestCalls, BlockedGemmCalls
<1>2. /\ TilesOf(c) = c.rows /\ StepsOf(c) = 1 /\ SlotsOf(c) = 0 /\ PerStep(c) = 1
      /\ Width(c) = 3 /\ Length(c) = 3 * c.rows + 2
  BY <1>1 DEF TilesOf, StepsOf, SlotsOf, ShapeOf, Shape, PerStep, Width, Length
<1> DEFINE Row(b) == << Insn("LOAD", "ACC", 0, <<b>>, When(b > 0, "popNext")),
                        Insn("ALU", "NONE", 0, <<b>>, {"pushNext"}),
                        Store(<<b>>) >>
           m == c.rows * 3
           body == [x \in 1 .. m |-> Row((x - 1) \div 3)[1 + ((x - 1) % 3)]]
<1>3. TestOf(c).insns = <<LoadUop>> \o body \o <<Finish>>
  BY DEF TestOf, AluTest, AluInsns, Loop
<1>4. m \in Nat /\ m + 2 = Length(c)
  BY <1>1, <1>2
<1>5. ASSUME NEW b \in Nat, NEW d \in 1 .. 3
      PROVE  Row(b)[d] = OfTile(c, b, d)
  <2>1. Row(b)[d] = IF d = 1 THEN Row(b)[1] ELSE IF d = 3 THEN Row(b)[3] ELSE Row(b)[2]
    OBVIOUS
  <2>2. /\ Row(b)[1] = AccInsn(c, b) /\ Row(b)[2] = StepInsn(c, b, 0)
        /\ Row(b)[3] = StoreInsn(c, b)
    BY <1>2 DEF AccInsn, StepInsn, StoreInsn, BlockOf, When
  <2>3. OfStep(c, b, 0, 0) = StepInsn(c, b, 0)
    BY <1>2 DEF OfStep
  <2>4. CASE d = 2
    <3>1. (d - 2) \div PerStep(c) = 0 /\ (d - 2) % PerStep(c) = 0
      BY <1>2, <2>4
    <3>2. OfTile(c, b, d) = OfStep(c, b, 0, 0)
      BY <1>2, <2>4, <3>1 DEF OfTile
    <3> HIDE DEF Row
    <3> QED BY <2>1, <2>2, <2>3, <2>4, <3>2
  <2>5. CASE d # 2
    <3> HIDE DEF Row
    <3> QED BY <1>2, <2>1, <2>2, <2>5 DEF OfTile
  <2> QED BY <2>4, <2>5
<1>6. ASSUME NEW x \in 1 .. m
      PROVE  body[x] = OfTile(c, (x - 1) \div 3, 1 + ((x - 1) % 3))
  <2>1. (x - 1) \div 3 \in Nat /\ 1 + ((x - 1) % 3) \in 1 .. 3
    BY <1>4
  <2>2. body[x] = Row((x - 1) \div 3)[1 + ((x - 1) % 3)]
    OBVIOUS
  <2> HIDE DEF Row, body
  <2> QED BY <1>5, <2>1, <2>2
<1>7. IsBody(body, m)
  BY DEF IsBody
<1> HIDE DEF Row, body, m
<1>8. TestOf(c).insns = Frame(LoadUop, body, Finish, m)
  BY <1>3, <1>4, <1>7, Framed, Zenon
<1>9. ASSUME NEW p \in 1 .. m + 2
      PROVE  (IF p = 1 THEN LoadUop ELSE IF p = m + 2 THEN Finish ELSE body[p - 1])
               = InsnAt(c, p)
  <2>1. CASE p = 1 \/ p = m + 2
    BY <1>4, <2>1 DEF InsnAt
  <2>2. CASE p # 1 /\ p # m + 2
    <3>1. p - 1 \in 1 .. m /\ (p - 1) - 1 = p - 2
      BY <1>4, <2>2
    <3>2. body[p - 1] = OfTile(c, (p - 2) \div 3, 1 + ((p - 2) % 3))
      BY <1>6, <3>1
    <3> QED BY <1>2, <1>4, <2>2, <3>2 DEF InsnAt
  <2> QED BY <2>1, <2>2
<1> QED BY <1>4, <1>8, <1>9 DEF Frame

\* The flag conditions of blocked_gemm_test, in terms of the tile.
LEMMA BlockedFlags ==
  ASSUME NEW c \in TestCalls, c.kind = "blocked", NEW t \in 0 .. TilesOf(c) - 1, NEW n \in Nat
  PROVE  LET i == t \div c.C
             j == t % c.C
         IN  /\ DepPop(c.vt, i, j, n) <=> Pop(c, t, n)
             /\ DepPushPrev(c.B, c.C, c.vt, i, j, n) <=> PushPrev(c, t, n)
             /\ (i > 0 \/ j > 0) <=> t > 0
<1>1. /\ c.B \in Nat \ {0} /\ c.C \in Nat \ {0} /\ c.vt \in {1, 2}
  BY DEF TestCalls, BlockedGemmCalls
<1>2. TilesOf(c) = c.B * c.C /\ StepsOf(c) = c.C /\ SlotsOf(c) = c.vt
  BY DEF TilesOf, StepsOf, SlotsOf, ShapeOf, Shape
<1> DEFINE i == t \div c.C
           j == t % c.C
<1>3. /\ t \in Nat /\ i \in Nat /\ j \in 0 .. c.C - 1 /\ t = c.C * i + j
  <2>1. t \in Nat
    BY <1>1, <1>2
  <2> QED BY <1>1, <2>1, DivMod
<1> DEFINE b == c.B - 1
<1>4. /\ b \in Nat /\ c.C - 1 \in 0 .. c.C - 1 /\ c.B * c.C - 1 = c.C * b + (c.C - 1)
  BY <1>1
<1>5. t = c.B * c.C - 1 => i = b /\ j = c.C - 1
  <2> HIDE DEF b
  <2>1. (c.C * b + (c.C - 1)) \div c.C = b /\ (c.C * b + (c.C - 1)) % c.C = c.C - 1
    BY <1>1, <1>4, Quotient
  <2> QED BY <1>4, <2>1
<1> HIDE DEF i, j
<1>6. i = b /\ j = c.C - 1 => t = c.B * c.C - 1
  <2> HIDE DEF b
  <2> QED BY <1>3, <1>4
<1>7. t = 0 <=> i = 0 /\ j = 0
  <2>1. CASE i = 0
    BY <1>1, <1>3, <2>1
  <2>2. CASE i # 0
    <3>1. c.C * 0 + c.C <= c.C * i
      BY <1>1, <1>3, <2>2, Multiples
    <3> QED BY <1>1, <1>3, <2>2, <3>1
  <2> QED BY <2>1, <2>2
<1>8. DepPop(c.vt, i, j, n) <=> Pop(c, t, n)
  <2>1. (i > 0 \/ j > 0) <=> t > 0
    BY <1>3, <1>7
  <2>2. CASE c.vt = 1
    BY <1>2, <2>2 DEF DepPop, Pop
  <2>3. CASE c.vt = 2
    BY <1>2, <2>1, <2>3 DEF DepPop, Pop
  <2> QED BY <1>1, <2>2, <2>3
<1>9. (j # c.C - 1 \/ i # c.B - 1) <=> t # TilesOf(c) - 1
  BY <1>2, <1>5, <1>6
<1>10. DepPushPrev(c.B, c.C, c.vt, i, j, n) <=> PushPrev(c, t, n)
  BY <1>1, <1>2, <1>9 DEF DepPushPrev, PushPrev
<1>11. (i > 0 \/ j > 0) <=> t > 0
  BY <1>3, <1>7
<1> QED BY <1>8, <1>10, <1>11 DEF i, j

\* A tile of blocked_gemm_test.
LEMMA BlockedTile ==
  ASSUME NEW c \in TestCalls, c.kind = "blocked", NEW t \in 0 .. TilesOf(c) - 1,
         NEW d \in 1 .. Width(c)
  PROVE  Tile(c.B, c.C, c.vt, t \div c.C, t % c.C)[d] = OfTile(c, t, d)
<1>1. /\ c.B \in Nat \ {0} /\ c.C \in Nat \ {0} /\ c.vt \in {1, 2} /\ c.C % c.vt = 0
  BY DEF TestCalls, BlockedGemmCalls
<1>2. /\ TilesOf(c) = c.B * c.C /\ StepsOf(c) = c.C /\ SlotsOf(c) = c.vt /\ PerStep(c) = 3
      /\ Width(c) = 2 + 3 * c.C /\ Cols(c) = c.C
  BY <1>1 DEF TilesOf, StepsOf, SlotsOf, ShapeOf, Shape, PerStep, Width, Cols
<1>3. KSteps(c.C, c.vt) = c.C
  BY <1>1 DEF KSteps
<1> DEFINE i == t \div c.C
           j == t % c.C
           Step(kl) == KStep(c.B, c.C, c.vt, i, j, kl)
           m == c.C * 3
           body == [x \in 1 .. m |-> Step((x - 1) \div 3)[1 + ((x - 1) % 3)]]
           acc == Insn("LOAD", "ACC", 0, <<i, j>>, LoadAccDeps(c.vt, i, j))
<1>4. Tile(c.B, c.C, c.vt, i, j) = <<acc>> \o body \o <<Store(<<i, j>>)>>
  BY <1>3 DEF Tile, Loop
<1>5. ASSUME NEW n \in Nat
      PROVE  /\ DepPop(c.vt, i, j, n) <=> Pop(c, t, n)
             /\ DepPushPrev(c.B, c.C, c.vt, i, j, n) <=> PushPrev(c, t, n)
             /\ (i > 0 \/ j > 0) <=> t > 0
  BY BlockedFlags
<1>6. BlockOf(c, t) = <<i, j>> /\ acc = AccInsn(c, t) /\ Store(<<i, j>>) = StoreInsn(c, t)
  <2>1. BlockOf(c, t) = <<i, j>>
    BY <1>2 DEF BlockOf
  <2>2. LoadAccDeps(c.vt, i, j) = When(t > 0, "popNext") \cup When(SlotsOf(c) = 1, "pushPrev")
    <3>1. (i > 0 \/ j > 0) <=> t > 0
      BY <1>5
    <3> HIDE DEF i, j
    <3> QED BY <1>2, <3>1 DEF LoadAccDeps, When
  <2> HIDE DEF i, j
  <2> QED BY <2>1, <2>2 DEF AccInsn, StoreInsn
<1>7. ASSUME NEW n \in Nat, NEW e \in 0 .. 2
      PROVE  Step(n)[1 + e] = OfStep(c, t, n, e)
  <2>1. /\ Step(n)[1] = Insn("LOAD", "WGT", n % c.vt, <<j, n>>, When(DepPop(c.vt, i, j, n), "popNext"))
        /\ Step(n)[2] = Insn("LOAD", "INP", n % c.vt, <<i, n>>, {"pushNext"})
        /\ Step(n)[3] = Insn("GEMM", "NONE", n % c.vt, NoBlock,
              {"popPrev"} \cup When(DepPushPrev(c.B, c.C, c.vt, i, j, n), "pushPrev")
                          \cup When(n = c.C - 1, "pushNext"))
    BY DEF KStep
  <2>2. /\ InpBlock(c, t, n) = <<i, n>> /\ WgtBlock(c, t, n) = <<j, n>>
    BY <1>2 DEF InpBlock, WgtBlock
  <2>3. Step(n)[1] = WgtInsn(c, t, n)
    <3>1. When(DepPop(c.vt, i, j, n), "popNext") = When(Pop(c, t, n), "popNext")
      BY <1>5, Zenon DEF When
    <3> HIDE DEF i, j, Step
    <3> QED BY <1>2, <2>1, <2>2, <3>1 DEF WgtInsn
  <2>4. Step(n)[2] = InpInsn(c, t, n)
    <3> HIDE DEF i, j, Step
    <3> QED BY <1>2, <2>1, <2>2 DEF InpInsn
  <2>5. Step(n)[3] = StepInsn(c, t, n)
    <3>1. When(DepPushPrev(c.B, c.C, c.vt, i, j, n), "pushPrev") = When(PushPrev(c, t, n), "pushPrev")
      BY <1>5, Zenon DEF When
    <3>2. SlotsOf(c) # 0
      BY <1>1, <1>2
    <3> HIDE DEF i, j, Step
    <3> QED BY <1>2, <2>1, <3>1, <3>2 DEF StepInsn
  <2>6. /\ OfStep(c, t, n, 0) = WgtInsn(c, t, n) /\ OfStep(c, t, n, 1) = InpInsn(c, t, n)
        /\ OfStep(c, t, n, 2) = StepInsn(c, t, n)
    BY <1>2 DEF OfStep
  <2> HIDE DEF i, j, Step
  <2>7. e = 0 \/ e = 1 \/ e = 2
    OBVIOUS
  <2> QED BY <2>3, <2>4, <2>5, <2>6, <2>7
<1>8. IsBody(body, m) /\ m \in Nat
  BY <1>1 DEF IsBody
<1>9. ASSUME NEW x \in 1 .. m
      PROVE  body[x] = OfStep(c, t, (x - 1) \div 3, (x - 1) % 3)
  <2>1. (x - 1) \div 3 \in Nat /\ (x - 1) % 3 \in 0 .. 2
    BY <1>8
  <2>2. body[x] = Step((x - 1) \div 3)[1 + ((x - 1) % 3)]
    OBVIOUS
  <2> HIDE DEF Step, body
  <2> QED BY <1>7, <2>1, <2>2
<1>10. d \in 1 .. m + 2 /\ m + 2 = Width(c)
  BY <1>1, <1>2
<1> HIDE DEF i, j, Step, m, body, acc
<1>11. Tile(c.B, c.C, c.vt, i, j) = Frame(acc, body, Store(<<i, j>>), m)
  BY <1>4, <1>8, Framed, Zenon
<1>12. Frame(acc, body, Store(<<i, j>>), m)[d] = OfTile(c, t, d)
  <2>1. CASE d = 1
    BY <1>6, <1>10, <2>1 DEF Frame, OfTile
  <2>2. CASE d = m + 2 /\ d # 1
    BY <1>6, <1>10, <2>2 DEF Frame, OfTile
  <2>3. CASE d # 1 /\ d # m + 2
    <3>1. d - 1 \in 1 .. m /\ (d - 1) - 1 = d - 2
      BY <1>8, <1>10, <2>3
    <3>2. body[d - 1] = OfStep(c, t, (d - 2) \div 3, (d - 2) % 3)
      BY <1>9, <3>1
    <3> QED BY <1>2, <1>10, <2>3, <3>2 DEF Frame, OfTile
  <2> QED BY <2>1, <2>2, <2>3
<1> QED BY <1>11, <1>12 DEF i, j

\* The stream of blocked_gemm_test.
LEMMA BlockedStream ==
  ASSUME NEW c \in TestCalls, c.kind = "blocked"
  PROVE  TestOf(c).insns = [p \in 1 .. Length(c) |-> InsnAt(c, p)]
<1>1. /\ c.B \in Nat \ {0} /\ c.C \in Nat \ {0} /\ c.vt \in {1, 2} /\ c.C % c.vt = 0
  BY DEF TestCalls, BlockedGemmCalls
<1>2. TilesOf(c) = c.B * c.C /\ Width(c) = 2 + 3 * c.C
  BY <1>1 DEF TilesOf, StepsOf, SlotsOf, ShapeOf, Shape, PerStep, Width
<1>3. KSteps(c.C, c.vt) = c.C
  BY <1>1 DEF KSteps
<1> DEFINE w == Width(c)
           TileNo(t) == Tile(c.B, c.C, c.vt, t \div c.C, t % c.C)
           m == (c.B * c.C) * w
           body == [x \in 1 .. m |-> TileNo((x - 1) \div w)[1 + ((x - 1) % w)]]
<1>4. TestOf(c).insns = <<LoadUop>> \o body \o <<Finish>>
  BY <1>2, <1>3 DEF TestOf, BlockedGemmTest, BlockedGemmInsns, Loop
<1>5. /\ w \in Nat \ {0} /\ TilesOf(c) \in Nat /\ m \in Nat /\ m = w * TilesOf(c)
      /\ m + 2 = Length(c)
  BY <1>1, <1>2 DEF Length
<1>6. ASSUME NEW x \in 1 .. m
      PROVE  body[x] = OfTile(c, (x - 1) \div w, 1 + ((x - 1) % w))
  <2>1. body[x] = TileNo((x - 1) \div w)[1 + ((x - 1) % w)]
    OBVIOUS
  <2> DEFINE t == (x - 1) \div w
             d == 1 + ((x - 1) % w)
  <2>2. t \in 0 .. TilesOf(c) - 1 /\ d \in 1 .. w
    <3> HIDE DEF m, w, TileNo, body
    <3>1. x - 1 \in Nat /\ x - 1 < w * TilesOf(c)
      BY <1>5
    <3>2. t < TilesOf(c)
      BY <1>5, <3>1, QuotientBound
    <3>3. t \in Nat /\ (x - 1) % w \in 0 .. w - 1
      BY <1>5, <3>1, DivMod
    <3> QED BY <1>5, <3>2, <3>3
  <2>3. TileNo(t)[d] = OfTile(c, t, d)
    <3> HIDE DEF t, d
    <3> QED BY <2>2, BlockedTile
  <2> HIDE DEF TileNo, body, w
  <2> QED BY <2>1, <2>3
<1>7. IsBody(body, m)
  BY DEF IsBody
<1> HIDE DEF TileNo, body, m
<1>8. TestOf(c).insns = Frame(LoadUop, body, Finish, m)
  BY <1>4, <1>5, <1>7, Framed, Zenon
<1>9. ASSUME NEW p \in 1 .. m + 2
      PROVE  (IF p = 1 THEN LoadUop ELSE IF p = m + 2 THEN Finish ELSE body[p - 1])
               = InsnAt(c, p)
  <2>1. CASE p = 1 \/ p = m + 2
    BY <1>5, <2>1 DEF InsnAt
  <2>2. CASE p # 1 /\ p # m + 2
    <3>1. p - 1 \in 1 .. m /\ (p - 1) - 1 = p - 2
      BY <1>5, <2>2
    <3> HIDE DEF w
    <3>2. body[p - 1] = OfTile(c, (p - 2) \div w, 1 + ((p - 2) % w))
      BY <1>6, <3>1
    <3> QED BY <1>5, <2>2, <3>2 DEF InsnAt, w
  <2> QED BY <2>1, <2>2
<1> QED BY <1>5, <1>8, <1>9 DEF Frame

\* The stream of gemm_test.
LEMMA GemmStream ==
  ASSUME NEW c \in TestCalls, c.kind = "gemm"
  PROVE  TestOf(c).insns = [p \in 1 .. Length(c) |-> InsnAt(c, p)]
<1>1. /\ TilesOf(c) = 1 /\ StepsOf(c) = 1 /\ SlotsOf(c) = 1 /\ PerStep(c) = 3
      /\ Width(c) = 5 /\ Length(c) = 7 /\ Cols(c) = 1
  BY DEF TilesOf, StepsOf, SlotsOf, ShapeOf, Shape, PerStep, Width, Length, Cols
<1>2. TestOf(c).insns = GemmInsns
  BY DEF TestOf, GemmTest
<1>3. BlockOf(c, 0) = <<0, 0>> /\ InpBlock(c, 0, 0) = <<0, 0>> /\ WgtBlock(c, 0, 0) = <<0, 0>>
  BY <1>1 DEF BlockOf, InpBlock, WgtBlock
<1>4. ~PushPrev(c, 0, 0) /\ Pop(c, 0, 0)
  BY <1>1 DEF PushPrev, Pop
<1>5. /\ AccInsn(c, 0) = Insn("LOAD", "ACC", 0, <<0, 0>>, {"pushPrev"})
      /\ WgtInsn(c, 0, 0) = Insn("LOAD", "WGT", 0, <<0, 0>>, {"popNext"})
      /\ InpInsn(c, 0, 0) = Insn("LOAD", "INP", 0, <<0, 0>>, {"pushNext"})
      /\ StepInsn(c, 0, 0) = Insn("GEMM", "NONE", 0, NoBlock, {"popPrev", "pushNext"})
      /\ StoreInsn(c, 0) = Store(<<0, 0>>)
  <2>1. When(0 > 0, "popNext") \cup When(SlotsOf(c) = 1, "pushPrev") = {"pushPrev"}
    BY <1>1 DEF When
  <2>2. When(Pop(c, 0, 0), "popNext") = {"popNext"}
    BY <1>4 DEF When
  <2>3. {"popPrev"} \cup When(PushPrev(c, 0, 0), "pushPrev")
          \cup When(0 = StepsOf(c) - 1, "pushNext") = {"popPrev", "pushNext"}
    BY <1>1, <1>4 DEF When
  <2>4. 0 % SlotsOf(c) = 0
    BY <1>1
  <2> QED BY <1>1, <1>3, <2>1, <2>2, <2>3, <2>4
             DEF AccInsn, WgtInsn, InpInsn, StepInsn, StoreInsn
<1>6. /\ GemmInsns[1] = LoadUop /\ GemmInsns[2] = AccInsn(c, 0)
      /\ GemmInsns[3] = WgtInsn(c, 0, 0) /\ GemmInsns[4] = InpInsn(c, 0, 0)
      /\ GemmInsns[5] = StepInsn(c, 0, 0) /\ GemmInsns[6] = StoreInsn(c, 0)
      /\ GemmInsns[7] = Finish
  BY <1>5 DEF GemmInsns
<1>7. /\ OfTile(c, 0, 1) = AccInsn(c, 0) /\ OfTile(c, 0, 5) = StoreInsn(c, 0)
      /\ OfTile(c, 0, 2) = WgtInsn(c, 0, 0) /\ OfTile(c, 0, 3) = InpInsn(c, 0, 0)
      /\ OfTile(c, 0, 4) = StepInsn(c, 0, 0)
  BY <1>1 DEF OfTile, OfStep
<1>8. ASSUME NEW p \in 1 .. 7
      PROVE  GemmInsns[p] = InsnAt(c, p)
  <2>1. CASE p = 1 \/ p = 7
    BY <1>1, <1>6, <2>1 DEF InsnAt
  <2>2. CASE p \in 2 .. 6
    <3>1. (p - 2) \div 5 = 0 /\ 1 + ((p - 2) % 5) = p - 1
      BY <2>2
    <3>2. InsnAt(c, p) = OfTile(c, 0, p - 1)
      BY <1>1, <2>2, <3>1 DEF InsnAt
    <3>3. p = 2 \/ p = 3 \/ p = 4 \/ p = 5 \/ p = 6
      BY <2>2
    <3> QED BY <1>6, <1>7, <3>2, <3>3
  <2> QED BY <2>1, <2>2
<1>9. GemmInsns = [p \in 1 .. 7 |-> GemmInsns[p]]
  BY DEF GemmInsns
<1> QED BY <1>1, <1>2, <1>8, <1>9

\* The stream of every test, in closed form.
LEMMA Stream ==
  ASSUME NEW c \in TestCalls
  PROVE  TestOf(c).insns = [p \in 1 .. Length(c) |-> InsnAt(c, p)]
BY Sizes, AluStream, GemmStream, BlockedStream

-----------------------------------------------------------------------------
(* The positions of a unit's instructions                                   *)

\* The position of the d-th instruction of a tile.
TilePos(c, t, d) == 1 + Width(c) * t + d

\* The number of instructions of a unit, and the position of its r-th one,
\* counted from 0.
Count(c, u) ==
  IF u = "store" THEN TilesOf(c)
  ELSE IF u = "compute" THEN 2 + (StepsOf(c) + 1) * TilesOf(c)
  ELSE IF SlotsOf(c) = 0 THEN 0 ELSE 2 * (StepsOf(c) * TilesOf(c))

PosOf(c, u, r) ==
  IF u = "store" THEN TilePos(c, r, Width(c))
  ELSE IF u = "compute"
  THEN IF r = 0 THEN 1 ELSE TilePos(c, ComputeTile(c, r), 1 + PerStep(c) * ComputePart(c, r))
  ELSE TilePos(c, LoadTile(c, r), 2 + 3 * LoadStep(c, r) + (r % 2))

\* That instruction.
InsnOf(c, u, r) ==
  IF u = "store" THEN StoreInsn(c, r)
  ELSE IF u = "compute"
  THEN IF r = 0 THEN LoadUop
       ELSE IF ComputeTile(c, r) = TilesOf(c) THEN Finish
       ELSE IF ComputePart(c, r) = 0 THEN AccInsn(c, ComputeTile(c, r))
       ELSE StepInsn(c, ComputeTile(c, r), ComputePart(c, r) - 1)
  ELSE IF r % 2 = 0 THEN WgtInsn(c, LoadTile(c, r), LoadStep(c, r))
       ELSE InpInsn(c, LoadTile(c, r), LoadStep(c, r))

\* How many instructions a tile and a test have.
LEMMA Widths ==
  ASSUME NEW c \in TestCalls
  PROVE  /\ PerStep(c) \in {1, 3} /\ PerStep(c) * StepsOf(c) \in Nat \ {0}
         /\ Width(c) \in Nat \ {0, 1, 2} /\ Width(c) = 2 + PerStep(c) * StepsOf(c)
         /\ Length(c) = 2 + Width(c) * TilesOf(c) /\ Width(c) * TilesOf(c) \in Nat \ {0}
<1>1. PerStep(c) \in {1, 3}
  BY DEF PerStep
<1>2. PerStep(c) * StepsOf(c) \in Nat \ {0}
  BY <1>1, Sizes
<1>3. Width(c) = 2 + PerStep(c) * StepsOf(c) /\ Length(c) = 2 + Width(c) * TilesOf(c)
  BY DEF Width, Length
<1> DEFINE w == Width(c)
<1>4. w \in Nat \ {0, 1, 2}
  BY <1>2, <1>3
<1> HIDE DEF w
<1>5. w * TilesOf(c) \in Nat \ {0}
  BY <1>4, Sizes
<1> QED BY <1>1, <1>2, <1>3, <1>4, <1>5 DEF w

\* The instructions of a tile are where they are expected.
LEMMA AtTilePos ==
  ASSUME NEW c \in TestCalls, NEW t \in 0 .. TilesOf(c) - 1, NEW d \in 1 .. Width(c)
  PROVE  /\ TilePos(c, t, d) \in 2 .. Length(c) - 1
         /\ InsnAt(c, TilePos(c, t, d)) = OfTile(c, t, d)
<1> DEFINE w == Width(c)
           p == TilePos(c, t, d)
<1>1. /\ w \in Nat \ {0, 1, 2} /\ TilesOf(c) \in Nat \ {0} /\ Length(c) = 2 + w * TilesOf(c)
      /\ d \in 1 .. w /\ p = 1 + w * t + d /\ t \in Nat /\ t < TilesOf(c)
  BY Widths, Sizes DEF TilePos
<1>2. w * t \in Nat /\ w * TilesOf(c) \in Nat /\ w * t + w <= w * TilesOf(c)
  <2> HIDE DEF w, p
  <2> QED BY <1>1, Multiples
<1> HIDE DEF w, p
<1>3. p \in 2 .. Length(c) - 1
  BY <1>1, <1>2
<1>4. p - 2 = w * t + (d - 1) /\ d - 1 \in 0 .. w - 1
  BY <1>1, <1>2
<1>5. (p - 2) \div w = t /\ (p - 2) % w = d - 1
  BY <1>1, <1>4, Quotient
<1>6. 1 + ((p - 2) % w) = d
  BY <1>1, <1>5
<1>7. InsnAt(c, p) = OfTile(c, t, d)
  <2>1. p # 1 /\ p # Length(c)
    BY <1>3
  <2>2. InsnAt(c, p) = OfTile(c, (p - 2) \div w, 1 + ((p - 2) % w))
    BY <2>1, Zenon DEF InsnAt, w
  <2> QED BY <1>5, <1>6, <2>2
<1> QED BY <1>3, <1>7 DEF p

\* Between the first and the last, every instruction belongs to a tile.
LEMMA TilePosCovers ==
  ASSUME NEW c \in TestCalls, NEW p \in 2 .. Length(c) - 1
  PROVE  \E t \in 0 .. TilesOf(c) - 1, d \in 1 .. Width(c) : p = TilePos(c, t, d)
<1> DEFINE w == Width(c)
           a == p - 2
<1>1. /\ w \in Nat \ {0, 1, 2} /\ TilesOf(c) \in Nat \ {0} /\ Length(c) = 2 + w * TilesOf(c)
      /\ w * TilesOf(c) \in Nat
  BY Widths, Sizes
<1> HIDE DEF w
<1>2. a \in Nat /\ a < w * TilesOf(c)
  BY <1>1
<1> HIDE DEF a
<1>3. /\ a \div w \in Nat /\ a % w \in 0 .. w - 1 /\ a = w * (a \div w) + (a % w)
      /\ a \div w < TilesOf(c)
  BY <1>1, <1>2, DivMod, QuotientBound
<1> DEFINE t == a \div w
           d == 1 + (a % w)
<1>4. t \in 0 .. TilesOf(c) - 1 /\ d \in 1 .. w
  BY <1>1, <1>3
<1>5. p = 1 + w * t + d
  <2>1. w * t \in Int
    BY <1>1, <1>4
  <2>2. p = a + 2
    BY DEF a
  <2> QED BY <1>1, <1>3, <2>1, <2>2
<1>6. p = TilePos(c, t, d)
  BY <1>5, Zenon DEF TilePos, w
<1> QED BY <1>4, <1>6 DEF w

\* Positions are ordered by tile, then within the tile.
LEMMA TilePosOrder ==
  ASSUME NEW c \in TestCalls, NEW t \in Nat, NEW d \in 1 .. Width(c),
         NEW s \in Nat, NEW e \in 1 .. Width(c), t < s \/ (t = s /\ d < e)
  PROVE  TilePos(c, t, d) < TilePos(c, s, e)
<1> DEFINE w == Width(c)
<1>1. /\ w \in Nat \ {0, 1, 2} /\ d \in 1 .. w /\ e \in 1 .. w
      /\ TilePos(c, t, d) = 1 + w * t + d /\ TilePos(c, s, e) = 1 + w * s + e
  BY Widths DEF TilePos
<1> HIDE DEF w
<1>2. w * t \in Nat /\ w * s \in Nat
  BY <1>1
<1>3. CASE t < s
  <2>1. w * t + w <= w * s
    BY <1>1, <1>3, Multiples
  <2> QED BY <1>1, <1>2, <2>1
<1>4. CASE t = s /\ d < e
  BY <1>1, <1>2, <1>4
<1> QED BY <1>3, <1>4

\* The instructions of a step within its tile.
LEMMA AtStep ==
  ASSUME NEW c \in TestCalls, NEW t, NEW n \in 0 .. StepsOf(c) - 1, NEW e \in 0 .. PerStep(c) - 1
  PROVE  /\ 2 + PerStep(c) * n + e \in 2 .. Width(c) - 1
         /\ OfTile(c, t, 2 + PerStep(c) * n + e) = OfStep(c, t, n, e)
<1> DEFINE s == PerStep(c)
           d == 2 + s * n + e
<1>1. /\ s \in {1, 3} /\ StepsOf(c) \in Nat \ {0} /\ Width(c) = 2 + s * StepsOf(c)
      /\ n \in Nat /\ n < StepsOf(c) /\ e \in 0 .. s - 1
  BY Widths, Sizes
<1> HIDE DEF s
<1>2. s * n \in Nat /\ s * n + s <= s * StepsOf(c) /\ s * StepsOf(c) \in Nat
  BY <1>1, Multiples
<1>3. d \in 2 .. Width(c) - 1 /\ d - 2 = s * n + e
  BY <1>1, <1>2
<1>4. (d - 2) \div s = n /\ (d - 2) % s = e
  BY <1>1, <1>3, Quotient
<1> HIDE DEF d
<1>5. OfTile(c, t, d) = OfStep(c, t, (d - 2) \div s, (d - 2) % s)
  BY <1>1, <1>3 DEF OfTile, s
<1> QED BY <1>3, <1>4, <1>5 DEF d, s

\* Every instruction of a tile is its first, its last, or one of a step.
LEMMA StepCovers ==
  ASSUME NEW c \in TestCalls, NEW d \in 1 .. Width(c)
  PROVE  \/ d = 1 \/ d = Width(c)
         \/ \E n \in 0 .. StepsOf(c) - 1, e \in 0 .. PerStep(c) - 1 : d = 2 + PerStep(c) * n + e
<1> DEFINE s == PerStep(c)
           a == d - 2
<1> SUFFICES ASSUME d # 1, d # Width(c)
             PROVE  \E n \in 0 .. StepsOf(c) - 1, e \in 0 .. s - 1 : d = 2 + s * n + e
  OBVIOUS
<1>1. /\ s \in {1, 3} /\ StepsOf(c) \in Nat \ {0} /\ Width(c) = 2 + s * StepsOf(c)
      /\ s * StepsOf(c) \in Nat
  BY Widths, Sizes
<1> HIDE DEF s
<1>2. a \in Nat /\ a < s * StepsOf(c) /\ d = a + 2
  BY <1>1
<1> HIDE DEF a
<1> DEFINE n == a \div s
           e == a % s
<1>3. n \in Nat /\ e \in 0 .. s - 1 /\ a = s * n + e /\ n < StepsOf(c)
  <2>1. s \in Nat \ {0}
    BY <1>1
  <2>2. n \in Nat /\ e \in 0 .. s - 1 /\ a = s * n + e
    BY <1>2, <2>1, DivMod
  <2>3. n < StepsOf(c)
    BY <1>1, <1>2, <2>1, QuotientBound
  <2> QED BY <2>2, <2>3
<1> HIDE DEF n, e
<1>4. n \in 0 .. StepsOf(c) - 1 /\ s * n \in Nat
  BY <1>1, <1>3
<1> QED BY <1>2, <1>3, <1>4

\* The unit that executes each instruction.
LEMMA UnitsOfInsns ==
  ASSUME NEW c, NEW t, NEW n
  PROVE  /\ Unit(LoadUop) = "compute" /\ Unit(Finish) = "compute"
         /\ Unit(AccInsn(c, t)) = "compute" /\ Unit(StepInsn(c, t, n)) = "compute"
         /\ Unit(WgtInsn(c, t, n)) = "load" /\ Unit(InpInsn(c, t, n)) = "load"
         /\ Unit(StoreInsn(c, t)) = "store"
  BY DEF Unit, Insn, LoadUop, Finish, AccInsn, StepInsn, WgtInsn, InpInsn, StoreInsn, Store

\* The coordinates of a unit's r-th instruction.
LEMMA LoadCoordinates ==
  ASSUME NEW c \in TestCalls, NEW r \in Nat
  PROVE  /\ LoadTile(c, r) \in Nat /\ LoadStep(c, r) \in 0 .. StepsOf(c) - 1 /\ r % 2 \in 0 .. 1
         /\ r = 2 * (StepsOf(c) * LoadTile(c, r) + LoadStep(c, r)) + (r % 2)
         /\ r < Count(c, "load") => LoadTile(c, r) < TilesOf(c) /\ SlotsOf(c) # 0
<1> DEFINE q == r \div 2
           m == StepsOf(c)
<1>1. q \in Nat /\ r % 2 \in 0 .. 1 /\ r = 2 * q + (r % 2)
  OBVIOUS
<1>2. m \in Nat \ {0} /\ TilesOf(c) \in Nat \ {0}
  BY Sizes
<1> HIDE DEF q, m
<1>3. q \div m \in Nat /\ q % m \in 0 .. m - 1 /\ q = m * (q \div m) + (q % m)
  BY <1>1, <1>2, DivMod
<1>4. r < Count(c, "load") => q \div m < TilesOf(c) /\ SlotsOf(c) # 0
  <2> SUFFICES ASSUME r < Count(c, "load") PROVE q \div m < TilesOf(c) /\ SlotsOf(c) # 0
    OBVIOUS
  <2>1. m * TilesOf(c) \in Nat
    BY <1>2
  <2>2. SlotsOf(c) # 0 /\ r < 2 * (m * TilesOf(c))
    BY DEF Count, m
  <2>3. q < m * TilesOf(c)
    BY <1>1, <2>1, <2>2
  <2> QED BY <1>1, <1>2, <2>2, <2>3, QuotientBound
<1>5. LoadTile(c, r) = q \div m /\ LoadStep(c, r) = q % m
  BY Zenon DEF LoadTile, LoadStep, StepsOf, q, m
<1>6. r = 2 * (m * LoadTile(c, r) + LoadStep(c, r)) + (r % 2)
  BY <1>1, <1>3, <1>5
<1> QED BY <1>1, <1>3, <1>4, <1>5, <1>6 DEF m

\* Tile and part of the compute unit's r-th instruction, after LOAD UOP.
LEMMA ComputeCoordinates ==
  ASSUME NEW c \in TestCalls, NEW r \in Nat \ {0}
  PROVE  /\ ComputeTile(c, r) \in Nat /\ ComputePart(c, r) \in 0 .. StepsOf(c)
         /\ r = 1 + (StepsOf(c) + 1) * ComputeTile(c, r) + ComputePart(c, r)
         /\ r < Count(c, "compute") =>
              \/ ComputeTile(c, r) < TilesOf(c)
              \/ ComputeTile(c, r) = TilesOf(c) /\ ComputePart(c, r) = 0
<1> DEFINE q == r - 1
           m == StepsOf(c) + 1
<1>1. q \in Nat /\ r = 1 + q
  OBVIOUS
<1>2. m \in Nat \ {0} /\ TilesOf(c) \in Nat \ {0} /\ m - 1 = StepsOf(c)
  BY Sizes
<1>e. ComputeTile(c, r) = q \div m /\ ComputePart(c, r) = q % m
  BY DEF ComputeTile, ComputePart, StepsOf
<1>f. Count(c, "compute") = 2 + m * TilesOf(c)
  BY DEF Count
<1> HIDE DEF q, m
<1> DEFINE t == q \div m
           k == q % m
<1>3. t \in Nat /\ k \in 0 .. m - 1 /\ q = m * t + k
  BY <1>1, <1>2, DivMod
<1> HIDE DEF t, k
<1>4. r < Count(c, "compute") => t < TilesOf(c) \/ (t = TilesOf(c) /\ k = 0)
  <2> SUFFICES ASSUME r < Count(c, "compute"), ~(t < TilesOf(c))
               PROVE  t = TilesOf(c) /\ k = 0
    OBVIOUS
  <2>1. m * TilesOf(c) \in Nat /\ m * t \in Nat
    BY <1>2, <1>3
  <2>2. ~(TilesOf(c) < t)
    <3> SUFFICES ASSUME TilesOf(c) < t PROVE FALSE
      OBVIOUS
    <3>1. m * TilesOf(c) + m <= m * t
      BY <1>2, <1>3, Multiples
    <3>2. m >= 2
      BY <1>2, Sizes
    <3> QED BY <1>1, <1>2, <1>3, <1>f, <2>1, <3>1, <3>2
  <2>3. t = TilesOf(c)
    BY <1>2, <1>3, <2>2
  <2> QED BY <1>1, <1>3, <1>f, <2>1, <2>3
<1>5. r = 1 + m * t + k
  <2>1. m * t \in Nat
    BY <1>2, <1>3
  <2> QED BY <1>1, <1>3, <2>1
<1>6. ComputeTile(c, r) = t /\ ComputePart(c, r) = k
  BY <1>e DEF t, k
<1> QED BY <1>2, <1>3, <1>4, <1>5, <1>6 DEF m

\* Conversely, the number of the instruction with given coordinates.
LEMMA LoadNumber ==
  ASSUME NEW c \in TestCalls, NEW t \in Nat, NEW n \in 0 .. StepsOf(c) - 1, NEW h \in 0 .. 1,
         NEW r, r = 2 * (StepsOf(c) * t + n) + h
  PROVE  /\ r \in Nat /\ LoadTile(c, r) = t /\ LoadStep(c, r) = n /\ r % 2 = h
         /\ t < TilesOf(c) /\ SlotsOf(c) # 0 => r < Count(c, "load")
<1> DEFINE m == StepsOf(c)
           q == m * t + n
<1>1. m \in Nat \ {0} /\ TilesOf(c) \in Nat \ {0} /\ n \in 0 .. m - 1
  BY Sizes
<1> HIDE DEF m
<1>2. q \in Nat /\ q \div m = t /\ q % m = n
  <2>1. q \in Nat
    BY <1>1
  <2>2. q \div m = t /\ q % m = n
    BY <1>1, Quotient
  <2> QED BY <2>1, <2>2
<1>3. t < TilesOf(c) => q < m * TilesOf(c) /\ m * TilesOf(c) \in Nat
  <2> SUFFICES ASSUME t < TilesOf(c) PROVE q < m * TilesOf(c) /\ m * TilesOf(c) \in Nat
    OBVIOUS
  <2>1. m * t + m <= m * TilesOf(c) /\ m * t \in Nat /\ m * TilesOf(c) \in Nat
    BY <1>1, Multiples
  <2> QED BY <1>1, <2>1 DEF m
<1>4. r = 2 * q + h
  BY DEF m
<1> HIDE DEF q
<1>5. r \in Nat /\ r \div 2 = q /\ r % 2 = h
  BY <1>2, <1>4
<1>6. LoadTile(c, r) = t /\ LoadStep(c, r) = n
  BY <1>2, <1>5 DEF LoadTile, LoadStep, StepsOf, m
<1>7. t < TilesOf(c) /\ SlotsOf(c) # 0 => r < Count(c, "load")
  BY <1>2, <1>3, <1>4 DEF Count, m
<1> QED BY <1>5, <1>6, <1>7

\* The number of the instruction with given tile and part.
LEMMA ComputeNumber ==
  ASSUME NEW c \in TestCalls, NEW t \in Nat, NEW k \in 0 .. StepsOf(c),
         NEW r, r = 1 + (StepsOf(c) + 1) * t + k
  PROVE  /\ r \in Nat \ {0} /\ ComputeTile(c, r) = t /\ ComputePart(c, r) = k
         /\ t < TilesOf(c) \/ (t = TilesOf(c) /\ k = 0) => r < Count(c, "compute")
<1> DEFINE m == StepsOf(c) + 1
<1>1. m \in Nat \ {0} /\ TilesOf(c) \in Nat \ {0} /\ k \in 0 .. m - 1
  BY Sizes
<1>2. r # 0 => ComputeTile(c, r) = (r - 1) \div m /\ ComputePart(c, r) = (r - 1) % m
  BY DEF ComputeTile, ComputePart, StepsOf
<1>3. Count(c, "compute") = 2 + m * TilesOf(c) /\ r = 1 + m * t + k
  BY DEF Count
<1> HIDE DEF m
<1>4. m * t \in Nat /\ m * TilesOf(c) \in Nat
  BY <1>1
<1>5. r \in Nat \ {0} /\ r - 1 = m * t + k
  BY <1>1, <1>3, <1>4
<1>6. ComputeTile(c, r) = t /\ ComputePart(c, r) = k
  BY <1>1, <1>2, <1>5, Quotient
<1>7. t < TilesOf(c) => m * t + m <= m * TilesOf(c)
  BY <1>1, Multiples
<1>8. t < TilesOf(c) \/ (t = TilesOf(c) /\ k = 0) => r < Count(c, "compute")
  BY <1>1, <1>3, <1>4, <1>7
<1> QED BY <1>5, <1>6, <1>8

\* At its position stands the unit's instruction.
LEMMA PosIsUnits ==
  ASSUME NEW c \in TestCalls, NEW u \in Units, NEW r \in Nat, r < Count(c, u)
  PROVE  /\ PosOf(c, u, r) \in 1 .. Length(c)
         /\ InsnAt(c, PosOf(c, u, r)) = InsnOf(c, u, r)
         /\ Unit(InsnOf(c, u, r)) = u
<1> USE DEF Units
<1>s. /\ TilesOf(c) \in Nat \ {0} /\ StepsOf(c) \in Nat \ {0}
      /\ Width(c) \in Nat \ {0, 1, 2} /\ Length(c) \in Nat /\ Length(c) >= 2
      /\ 1 \in 1 .. Width(c) /\ Width(c) \in 1 .. Width(c)
  BY Sizes, Widths
<1>1. CASE u = "store"
  <2>1. r \in 0 .. TilesOf(c) - 1
    BY <1>1, <1>s DEF Count
  <2>2. PosOf(c, u, r) = TilePos(c, r, Width(c)) /\ InsnOf(c, u, r) = StoreInsn(c, r)
    BY <1>1 DEF PosOf, InsnOf
  <2>3. OfTile(c, r, Width(c)) = StoreInsn(c, r)
    BY <1>s DEF OfTile
  <2>4. /\ TilePos(c, r, Width(c)) \in 2 .. Length(c) - 1
        /\ InsnAt(c, TilePos(c, r, Width(c))) = OfTile(c, r, Width(c))
    BY <1>s, <2>1, AtTilePos
  <2> QED BY <1>1, <1>s, <2>2, <2>3, <2>4, UnitsOfInsns
<1>2. CASE u = "load"
  <2> DEFINE t == LoadTile(c, r)
             n == LoadStep(c, r)
             h == r % 2
             d == 2 + 3 * n + h
  <2>1. /\ t \in 0 .. TilesOf(c) - 1 /\ n \in 0 .. StepsOf(c) - 1 /\ h \in 0 .. 1
        /\ SlotsOf(c) # 0
    BY <1>2, <1>s, LoadCoordinates
  <2>2. PosOf(c, u, r) = TilePos(c, t, d)
    BY <1>2 DEF PosOf
  <2>3. InsnOf(c, u, r) = IF h = 0 THEN WgtInsn(c, t, n) ELSE InpInsn(c, t, n)
    BY <1>2 DEF InsnOf
  <2> HIDE DEF t, n, h
  <2>4. PerStep(c) = 3
    BY <2>1 DEF PerStep
  <2>5. d \in 2 .. Width(c) - 1 /\ OfTile(c, t, d) = OfStep(c, t, n, h)
    <3>1. h \in 0 .. PerStep(c) - 1
      BY <2>1, <2>4
    <3> QED BY <2>1, <2>4, <3>1, AtStep
  <2>6. OfStep(c, t, n, h) = IF h = 0 THEN WgtInsn(c, t, n) ELSE InpInsn(c, t, n)
    BY <2>1, <2>4 DEF OfStep
  <2> HIDE DEF d
  <2>7. TilePos(c, t, d) \in 2 .. Length(c) - 1 /\ InsnAt(c, TilePos(c, t, d)) = OfTile(c, t, d)
    <3>1. d \in 1 .. Width(c)
      BY <1>s, <2>5
    <3> QED BY <2>1, <3>1, AtTilePos
  <2> QED BY <1>2, <1>s, <2>2, <2>3, <2>5, <2>6, <2>7, UnitsOfInsns
<1>3. CASE u = "compute" /\ r = 0
  BY <1>3, <1>s, UnitsOfInsns DEF PosOf, InsnOf, InsnAt
<1>4. CASE u = "compute" /\ r # 0
  <2> DEFINE t == ComputeTile(c, r)
             k == ComputePart(c, r)
             d == 1 + PerStep(c) * k
  <2>1. /\ t \in Nat /\ k \in 0 .. StepsOf(c)
        /\ t < TilesOf(c) \/ (t = TilesOf(c) /\ k = 0)
    BY <1>4, ComputeCoordinates
  <2>2. PosOf(c, u, r) = TilePos(c, t, d)
    BY <1>4 DEF PosOf
  <2>3. InsnOf(c, u, r) = IF t = TilesOf(c) THEN Finish ELSE IF k = 0 THEN AccInsn(c, t)
                          ELSE StepInsn(c, t, k - 1)
    BY <1>4 DEF InsnOf
  <2> HIDE DEF t, k
  <2>4. CASE t = TilesOf(c)
    <3>1. d = 1
      BY <2>1, <2>4, Widths
    <3>2. TilePos(c, t, 1) = Length(c)
      BY <1>s, <2>4, Widths DEF TilePos
    <3> HIDE DEF d
    <3>3. InsnAt(c, Length(c)) = Finish
      BY <1>s DEF InsnAt
    <3> QED BY <1>4, <1>s, <2>2, <2>3, <2>4, <3>1, <3>2, <3>3, UnitsOfInsns
  <2>5. CASE t # TilesOf(c) /\ k = 0
    <3>1. d = 1 /\ t \in 0 .. TilesOf(c) - 1
      BY <1>s, <2>1, <2>5, Widths
    <3>2. OfTile(c, t, 1) = AccInsn(c, t)
      BY DEF OfTile
    <3> HIDE DEF d
    <3>3. TilePos(c, t, 1) \in 2 .. Length(c) - 1 /\ InsnAt(c, TilePos(c, t, 1)) = OfTile(c, t, 1)
      BY <1>s, <3>1, AtTilePos
    <3> QED BY <1>4, <1>s, <2>2, <2>3, <2>5, <3>1, <3>2, <3>3, UnitsOfInsns
  <2>6. CASE t # TilesOf(c) /\ k # 0
    <3> DEFINE e == PerStep(c) - 1
               n == k - 1
    <3>1. t \in 0 .. TilesOf(c) - 1 /\ n \in 0 .. StepsOf(c) - 1 /\ e \in 0 .. PerStep(c) - 1
      BY <1>s, <2>1, <2>6, Widths
    <3>2. d = 2 + PerStep(c) * n + e
      BY <2>1, Widths
    <3>3. OfStep(c, t, n, e) = StepInsn(c, t, k - 1)
      BY DEF OfStep
    <3> HIDE DEF e, n, d
    <3>4. d \in 2 .. Width(c) - 1 /\ OfTile(c, t, d) = OfStep(c, t, n, e)
      BY <3>1, <3>2, AtStep
    <3>5. d \in 1 .. Width(c)
      BY <1>s, <3>4
    <3>6. TilePos(c, t, d) \in 2 .. Length(c) - 1 /\ InsnAt(c, TilePos(c, t, d)) = OfTile(c, t, d)
      BY <3>1, <3>5, AtTilePos
    <3> QED BY <1>4, <1>s, <2>2, <2>3, <2>6, <3>3, <3>4, <3>6, UnitsOfInsns
  <2> QED BY <2>4, <2>5, <2>6
<1> QED BY <1>1, <1>2, <1>3, <1>4

\* Every position is that of some instruction of a unit.
LEMMA PosCovers ==
  ASSUME NEW c \in TestCalls, NEW p \in 1 .. Length(c)
  PROVE  \E u \in Units, r \in Nat : r < Count(c, u) /\ p = PosOf(c, u, r)
<1> USE DEF Units
<1>s. /\ TilesOf(c) \in Nat \ {0} /\ StepsOf(c) \in Nat \ {0} /\ SlotsOf(c) \in {0, 1, 2}
      /\ Length(c) \in Nat /\ Length(c) >= 2
  BY Sizes, Widths
<1>c. Count(c, "compute") \in Nat /\ Count(c, "compute") >= 2
  <2>1. (StepsOf(c) + 1) * TilesOf(c) \in Nat
    BY <1>s
  <2> QED BY <2>1 DEF Count
<1>1. CASE p = 1
  <2>1. 0 < Count(c, "compute") /\ p = PosOf(c, "compute", 0)
    BY <1>1, <1>c DEF PosOf
  <2> QED BY <2>1
<1>2. CASE p = Length(c)
  <2> DEFINE r == 1 + (StepsOf(c) + 1) * TilesOf(c) + 0
  <2>1. /\ r \in Nat \ {0} /\ ComputeTile(c, r) = TilesOf(c) /\ ComputePart(c, r) = 0
        /\ r < Count(c, "compute")
    <3>1. 0 \in 0 .. StepsOf(c) /\ TilesOf(c) \in Nat /\ r = 1 + (StepsOf(c) + 1) * TilesOf(c) + 0
      BY <1>s
    <3> HIDE DEF r
    <3> QED BY <3>1, ComputeNumber
  <2> HIDE DEF r
  <2>2. PosOf(c, "compute", r) = TilePos(c, TilesOf(c), 1 + PerStep(c) * 0)
    BY <2>1 DEF PosOf
  <2>3. TilePos(c, TilesOf(c), 1 + PerStep(c) * 0) = Length(c)
    <3>1. 1 + PerStep(c) * 0 = 1
      BY Widths
    <3> QED BY <3>1, Widths DEF TilePos
  <2> QED BY <1>2, <2>1, <2>2, <2>3
<1>3. CASE p \in 2 .. Length(c) - 1
  <2>1. PICK t \in 0 .. TilesOf(c) - 1, d \in 1 .. Width(c) : p = TilePos(c, t, d)
    BY <1>3, TilePosCovers
  <2>t. t \in Nat /\ t < TilesOf(c)
    BY <1>s
  <2>2. CASE d = Width(c)
    <3>1. t < Count(c, "store") /\ p = PosOf(c, "store", t)
      BY <2>1, <2>2, <2>t DEF Count, PosOf
    <3> QED BY <2>t, <3>1
  <2>3. ASSUME NEW k \in 0 .. StepsOf(c), d = 1 + PerStep(c) * k
        PROVE  \E u \in Units, r \in Nat : r < Count(c, u) /\ p = PosOf(c, u, r)
    <3> DEFINE r == 1 + (StepsOf(c) + 1) * t + k
    <3>1. r = 1 + (StepsOf(c) + 1) * t + k
      OBVIOUS
    <3> HIDE DEF r
    <3>2. /\ r \in Nat \ {0} /\ ComputeTile(c, r) = t /\ ComputePart(c, r) = k
          /\ r < Count(c, "compute")
      BY <2>t, <3>1, ComputeNumber
    <3>3. PosOf(c, "compute", r) = TilePos(c, t, d)
      BY <2>3, <3>2 DEF PosOf
    <3> QED BY <2>1, <3>2, <3>3
  <2>4. CASE d = 1
    <3>1. 0 \in 0 .. StepsOf(c) /\ d = 1 + PerStep(c) * 0
      BY <1>s, <2>4, Widths
    <3> QED BY <2>3, <3>1
  <2>5. ASSUME NEW n \in 0 .. StepsOf(c) - 1, NEW e \in 0 .. PerStep(c) - 1,
               d = 2 + PerStep(c) * n + e
        PROVE  \E u \in Units, r \in Nat : r < Count(c, u) /\ p = PosOf(c, u, r)
    <3>1. CASE e = PerStep(c) - 1
      <4>1. n + 1 \in 0 .. StepsOf(c)
        BY <1>s
      <4>2. d = 1 + PerStep(c) * (n + 1)
        BY <1>s, <2>5, <3>1, Widths
      <4> HIDE <2>5, <3>1
      <4> DEFINE k == n + 1
      <4>3. k \in 0 .. StepsOf(c) /\ d = 1 + PerStep(c) * k
        BY <4>1, <4>2
      <4> HIDE DEF k
      <4> QED BY <2>3, <4>3
    <3>2. CASE e # PerStep(c) - 1
      <4>1. PerStep(c) = 3 /\ SlotsOf(c) # 0 /\ e \in 0 .. 1
        BY <3>2 DEF PerStep
      <4> DEFINE r == 2 * (StepsOf(c) * t + n) + e
      <4>2. r = 2 * (StepsOf(c) * t + n) + e
        OBVIOUS
      <4> HIDE DEF r
      <4>3. /\ r \in Nat /\ LoadTile(c, r) = t /\ LoadStep(c, r) = n /\ r % 2 = e
            /\ r < Count(c, "load")
        BY <2>t, <4>1, <4>2, LoadNumber
      <4>4. PosOf(c, "load", r) = TilePos(c, t, d)
        BY <2>5, <4>1, <4>3 DEF PosOf
      <4> QED BY <2>1, <4>3, <4>4
    <3> QED BY <3>1, <3>2
  <2> QED BY <2>2, <2>4, <2>5, StepCovers
<1> QED BY <1>s, <1>1, <1>2, <1>3

\* A unit's instructions are in the order of their positions.
LEMMA PosMonotone ==
  ASSUME NEW c \in TestCalls, NEW u \in Units, NEW q \in Nat, NEW r \in Nat, q < r,
         r < Count(c, u)
  PROVE  PosOf(c, u, q) < PosOf(c, u, r)
<1> USE DEF Units
<1>s. /\ TilesOf(c) \in Nat \ {0} /\ StepsOf(c) \in Nat \ {0}
      /\ PerStep(c) \in {1, 3} /\ PerStep(c) * StepsOf(c) \in Nat
      /\ Width(c) \in Nat \ {0, 1, 2} /\ Width(c) = 2 + PerStep(c) * StepsOf(c)
  BY Sizes, Widths
<1>1. CASE u = "store"
  <2>1. Width(c) \in 1 .. Width(c)
    BY <1>s
  <2> QED BY <1>1, <2>1, TilePosOrder DEF PosOf
<1>2. CASE u = "load"
  <2> DEFINE D(x) == 2 + 3 * LoadStep(c, x) + (x % 2)
  <2>0. q < Count(c, "load") /\ SlotsOf(c) # 0 /\ PerStep(c) = 3
    <3>1. SlotsOf(c) # 0
      BY <1>2, LoadCoordinates
    <3> QED BY <1>2, <1>s, <3>1 DEF Count, PerStep
  <2>1. ASSUME NEW x \in Nat
        PROVE  /\ LoadTile(c, x) \in Nat /\ LoadStep(c, x) \in 0 .. StepsOf(c) - 1 /\ x % 2 \in 0 .. 1
               /\ x = 2 * (StepsOf(c) * LoadTile(c, x) + LoadStep(c, x)) + (x % 2)
               /\ D(x) \in 1 .. Width(c)
               /\ PosOf(c, u, x) = TilePos(c, LoadTile(c, x), D(x))
    <3>1. /\ LoadTile(c, x) \in Nat /\ LoadStep(c, x) \in 0 .. StepsOf(c) - 1 /\ x % 2 \in 0 .. 1
          /\ x = 2 * (StepsOf(c) * LoadTile(c, x) + LoadStep(c, x)) + (x % 2)
      BY LoadCoordinates
    <3>2. D(x) \in 1 .. Width(c)
      BY <1>s, <2>0, <3>1
    <3> QED BY <1>2, <3>1, <3>2 DEF PosOf
  <2> DEFINE t == LoadTile(c, q)
             n == LoadStep(c, q)
             h == q % 2
             s == LoadTile(c, r)
             k == LoadStep(c, r)
             j == r % 2
             m == StepsOf(c)
  <2>2. /\ t \in Nat /\ n \in 0 .. m - 1 /\ h \in 0 .. 1 /\ q = 2 * (m * t + n) + h
        /\ s \in Nat /\ k \in 0 .. m - 1 /\ j \in 0 .. 1 /\ r = 2 * (m * s + k) + j
        /\ m \in Nat \ {0}
    BY <1>s, <2>1
  <2>d. /\ D(q) = 2 + 3 * n + h /\ D(r) = 2 + 3 * k + j
    OBVIOUS
  <2> HIDE DEF t, n, h, s, k, j, m
  <2>3. (m * t + n < m * s + k) \/ (m * t + n = m * s + k /\ h < j)
    <3>1. m * t \in Nat /\ m * s \in Nat
      BY <2>2
    <3> QED BY <2>2, <3>1
  <2>4. t < s \/ (t = s /\ (n < k \/ (n = k /\ h < j)))
    <3>1. CASE m * t + n < m * s + k
      BY <2>2, <3>1, Lexicographic
    <3>2. CASE m * t + n = m * s + k /\ h < j
      <4>1. (m * t + n) \div m = t /\ (m * t + n) % m = n
        BY <2>2, Quotient
      <4>2. (m * s + k) \div m = s /\ (m * s + k) % m = k
        BY <2>2, Quotient
      <4> QED BY <3>2, <4>1, <4>2
    <3> QED BY <2>3, <3>1, <3>2
  <2>5. t < s \/ (t = s /\ D(q) < D(r))
    BY <2>2, <2>4, <2>d
  <2>6. /\ D(q) \in 1 .. Width(c) /\ D(r) \in 1 .. Width(c)
        /\ PosOf(c, u, q) = TilePos(c, t, D(q)) /\ PosOf(c, u, r) = TilePos(c, s, D(r))
    BY <2>1 DEF t, s
  <2> HIDE DEF D
  <2> QED BY <2>2, <2>5, <2>6, TilePosOrder
<1>3. CASE u = "compute" /\ q # 0
  <2> DEFINE D(x) == 1 + PerStep(c) * ComputePart(c, x)
             m == StepsOf(c) + 1
             t == ComputeTile(c, q)
             n == ComputePart(c, q)
             s == ComputeTile(c, r)
             k == ComputePart(c, r)
  <2>1. /\ t \in Nat /\ n \in 0 .. m - 1 /\ q = 1 + m * t + n
        /\ s \in Nat /\ k \in 0 .. m - 1 /\ r = 1 + m * s + k
        /\ m \in Nat \ {0} /\ m - 1 = StepsOf(c)
    <3>1. q \in Nat \ {0} /\ r \in Nat \ {0}
      BY <1>3
    <3>2. StepsOf(c) = m - 1 /\ m \in Nat \ {0}
      BY <1>s
    <3> QED BY <3>1, <3>2, ComputeCoordinates
  <2>2. /\ PosOf(c, u, q) = TilePos(c, t, D(q)) /\ PosOf(c, u, r) = TilePos(c, s, D(r))
    BY <1>3 DEF PosOf
  <2>d. /\ D(q) = 1 + PerStep(c) * n /\ D(r) = 1 + PerStep(c) * k
    OBVIOUS
  <2> HIDE DEF t, n, s, k, m
  <2>3. m * t + n < m * s + k
    <3>1. m * t \in Nat /\ m * s \in Nat
      BY <2>1
    <3> QED BY <2>1, <3>1
  <2>4. t < s \/ (t = s /\ n < k)
    BY <2>1, <2>3, Lexicographic
  <2>5. D(q) \in 1 .. Width(c) /\ D(r) \in 1 .. Width(c)
    BY <1>s, <2>1, <2>d
  <2>6. n < k => D(q) < D(r)
    BY <1>s, <2>1, <2>d
  <2> HIDE DEF D
  <2> QED BY <2>1, <2>2, <2>4, <2>5, <2>6, TilePosOrder
<1>4. CASE u = "compute" /\ q = 0
  <2>1. PosOf(c, u, q) = 1
    BY <1>4 DEF PosOf
  <2>2. PosOf(c, u, r) = TilePos(c, ComputeTile(c, r), 1 + PerStep(c) * ComputePart(c, r))
    BY <1>4 DEF PosOf
  <2>3. ComputeTile(c, r) \in Nat /\ ComputePart(c, r) \in 0 .. StepsOf(c)
    BY <1>4, ComputeCoordinates
  <2>4. Width(c) * ComputeTile(c, r) \in Nat
    <3> DEFINE w == Width(c)
    <3>1. w \in Nat
      BY <1>s
    <3> HIDE DEF w
    <3> QED BY <2>3, <3>1 DEF w
  <2>5. PerStep(c) * ComputePart(c, r) \in Nat
    BY <1>s, <2>3
  <2> QED BY <2>1, <2>2, <2>4, <2>5 DEF TilePos
<1> QED BY <1>1, <1>2, <1>3, <1>4

-----------------------------------------------------------------------------
(* What the instructions wait for and signal                                *)

l2g == <<"load", "compute">>
g2l == <<"compute", "load">>
g2s == <<"compute", "store">>
s2g == <<"store", "compute">>

\* The four dependency queues are different.
LEMMA QueueNames ==
  /\ Queues = {l2g, g2l, g2s, s2g}
  /\ l2g # g2l /\ l2g # g2s /\ l2g # s2g /\ g2l # g2s /\ g2l # s2g /\ g2s # s2g
BY DEF Queues, l2g, g2l, g2s, s2g

\* The queues selected by a flag, given the unit.
LEMMA FlagsOfUnits ==
  ASSUME NEW insn
  PROVE  /\ Unit(insn) = "load" =>
              /\ Pops(insn) = IF "popNext" \in insn.deps THEN {g2l} ELSE {}
              /\ Pushes(insn) = IF "pushNext" \in insn.deps THEN {l2g} ELSE {}
         /\ Unit(insn) = "compute" =>
              /\ Pops(insn) = (IF "popPrev" \in insn.deps THEN {l2g} ELSE {})
                                 \cup (IF "popNext" \in insn.deps THEN {s2g} ELSE {})
              /\ Pushes(insn) = (IF "pushPrev" \in insn.deps THEN {g2l} ELSE {})
                                   \cup (IF "pushNext" \in insn.deps THEN {g2s} ELSE {})
         /\ Unit(insn) = "store" =>
              /\ Pops(insn) = IF "popPrev" \in insn.deps THEN {g2s} ELSE {}
              /\ Pushes(insn) = IF "pushPrev" \in insn.deps THEN {s2g} ELSE {}
<1> USE DEF Pops, Pushes, Queues, Prev, Next_, l2g, g2l, g2s, s2g
<1>1. CASE Unit(insn) = "load"
  BY <1>1
<1>2. CASE Unit(insn) = "compute"
  BY <1>2
<1>3. CASE Unit(insn) = "store"
  BY <1>3
<1> QED BY <1>1, <1>2, <1>3

\* The queues that each instruction pops and pushes.
LEMMA FlagsOfInsns ==
  ASSUME NEW c \in TestCalls, NEW t \in Nat, NEW n \in Nat
  PROVE  /\ Pops(LoadUop) = {} /\ Pushes(LoadUop) = {}
         /\ Pops(Finish) = {s2g} /\ Pushes(Finish) = {}
         /\ Pops(AccInsn(c, t)) = IF t > 0 THEN {s2g} ELSE {}
         /\ Pushes(AccInsn(c, t)) = IF SlotsOf(c) = 1 THEN {g2l} ELSE {}
         /\ Pops(WgtInsn(c, t, n)) = IF Pop(c, t, n) THEN {g2l} ELSE {}
         /\ Pushes(WgtInsn(c, t, n)) = {}
         /\ Pops(InpInsn(c, t, n)) = {} /\ Pushes(InpInsn(c, t, n)) = {l2g}
         /\ Pops(StepInsn(c, t, n)) = IF SlotsOf(c) = 0 THEN {} ELSE {l2g}
         /\ Pushes(StepInsn(c, t, n)) =
              (IF SlotsOf(c) # 0 /\ PushPrev(c, t, n) THEN {g2l} ELSE {})
                \cup (IF SlotsOf(c) = 0 \/ n = StepsOf(c) - 1 THEN {g2s} ELSE {})
         /\ Pops(StoreInsn(c, t)) = {g2s} /\ Pushes(StoreInsn(c, t)) = {s2g}
<1> USE FlagsOfUnits, UnitsOfInsns
<1>1. Pops(LoadUop) = {} /\ Pushes(LoadUop) = {}
  <2>1. LoadUop.deps = {}
    BY DEF LoadUop, Insn
  <2> QED BY <2>1
<1>2. Pops(Finish) = {s2g} /\ Pushes(Finish) = {}
  <2>1. Finish.deps = {"popNext"}
    BY DEF Finish, Insn
  <2> QED BY <2>1
<1>3. /\ Pops(AccInsn(c, t)) = IF t > 0 THEN {s2g} ELSE {}
      /\ Pushes(AccInsn(c, t)) = IF SlotsOf(c) = 1 THEN {g2l} ELSE {}
  <2>1. AccInsn(c, t).deps = When(t > 0, "popNext") \cup When(SlotsOf(c) = 1, "pushPrev")
    BY DEF AccInsn, Insn
  <2> QED BY <2>1 DEF When
<1>4. /\ Pops(WgtInsn(c, t, n)) = IF Pop(c, t, n) THEN {g2l} ELSE {}
      /\ Pushes(WgtInsn(c, t, n)) = {}
  <2>1. WgtInsn(c, t, n).deps = When(Pop(c, t, n), "popNext")
    BY DEF WgtInsn, Insn
  <2> QED BY <2>1 DEF When
<1>5. Pops(InpInsn(c, t, n)) = {} /\ Pushes(InpInsn(c, t, n)) = {l2g}
  <2>1. InpInsn(c, t, n).deps = {"pushNext"}
    BY DEF InpInsn, Insn
  <2> QED BY <2>1
<1>6. /\ Pops(StepInsn(c, t, n)) = IF SlotsOf(c) = 0 THEN {} ELSE {l2g}
      /\ Pushes(StepInsn(c, t, n)) =
              (IF SlotsOf(c) # 0 /\ PushPrev(c, t, n) THEN {g2l} ELSE {})
                \cup (IF SlotsOf(c) = 0 \/ n = StepsOf(c) - 1 THEN {g2s} ELSE {})
  <2>1. CASE SlotsOf(c) = 0
    <3>1. StepInsn(c, t, n).deps = {"pushNext"}
      BY <2>1 DEF StepInsn, Insn
    <3> QED BY <2>1, <3>1
  <2>2. CASE SlotsOf(c) # 0
    <3>1. StepInsn(c, t, n).deps = {"popPrev"} \cup When(PushPrev(c, t, n), "pushPrev")
                                     \cup When(n = StepsOf(c) - 1, "pushNext")
      BY <2>2 DEF StepInsn, Insn
    <3> QED BY <2>2, <3>1 DEF When
  <2> QED BY <2>1, <2>2
<1>7. Pops(StoreInsn(c, t)) = {g2s} /\ Pushes(StoreInsn(c, t)) = {s2g}
  <2>1. StoreInsn(c, t).deps = {"popPrev", "pushPrev"}
    BY DEF StoreInsn, Store, Insn
  <2> QED BY <2>1
<1> QED BY <1>1, <1>2, <1>3, <1>4, <1>5, <1>6, <1>7

-----------------------------------------------------------------------------
(* The reference results                                                    *)

TermOf(c, t, n) ==
  IF SlotsOf(c) = 0 THEN AluTerm(BlockOf(c, t))
  ELSE GemmTerm(InpBlock(c, t, n), WgtBlock(c, t, n))
\* The accumulator of a tile after its first n steps.
Partial(c, t, n) == Value(BlockOf(c, t), [k \in 1 .. n |-> TermOf(c, t, k - 1)])
Result(c, t) == Partial(c, t, StepsOf(c))

\* Different tiles have different blocks.
LEMMA BlocksDiffer ==
  ASSUME NEW c \in TestCalls, NEW t \in Nat, NEW s \in Nat, BlockOf(c, t) = BlockOf(c, s)
  PROVE  t = s
<1>1. CASE c.kind = "alu"
  BY <1>1 DEF BlockOf
<1>2. CASE c.kind # "alu"
  <2>1. t \div Cols(c) = s \div Cols(c) /\ t % Cols(c) = s % Cols(c)
    BY <1>2 DEF BlockOf
  <2>2. /\ t = Cols(c) * (t \div Cols(c)) + (t % Cols(c))
        /\ s = Cols(c) * (s \div Cols(c)) + (s % Cols(c))
    BY Sizes, DivMod
  <2> QED BY <2>1, <2>2
<1> QED BY <1>1, <1>2

\* The reference has the result of each tile, and nothing else.
LEMMA Reference ==
  ASSUME NEW c \in TestCalls
  PROVE  /\ TestOf(c).ref = [b \in DOMAIN TestOf(c).ref |-> TestOf(c).ref[b]]
         /\ DOMAIN TestOf(c).ref = {BlockOf(c, t) : t \in 0 .. TilesOf(c) - 1}
         /\ \A t \in 0 .. TilesOf(c) - 1 : TestOf(c).ref[BlockOf(c, t)] = Result(c, t)
<1>1. CASE c.kind = "alu"
  <2>1. TilesOf(c) = c.rows /\ StepsOf(c) = 1 /\ SlotsOf(c) = 0
    BY <1>1 DEF TilesOf, StepsOf, SlotsOf, ShapeOf, Shape
  <2>2. \A t : BlockOf(c, t) = <<t>>
    BY <1>1 DEF BlockOf
  <2>3. TestOf(c).ref = [b \in {BlockOf(c, t) : t \in 0 .. c.rows - 1} |-> Value(b, <<AluTerm(b)>>)]
    <3>1. {BlockOf(c, t) : t \in 0 .. c.rows - 1} = {<<t>> : t \in 0 .. c.rows - 1}
      BY <2>2
    <3>2. TestOf(c).ref = [b \in {<<t>> : t \in 0 .. c.rows - 1} |-> Value(b, <<AluTerm(b)>>)]
      BY <1>1 DEF TestOf, AluTest
    <3> QED BY <3>1, <3>2, Zenon
  <2>4. \A t : Result(c, t) = Value(BlockOf(c, t), <<AluTerm(BlockOf(c, t))>>)
    <3> TAKE t
    <3>1. [k \in 1 .. 1 |-> TermOf(c, t, k - 1)] = <<AluTerm(BlockOf(c, t))>>
      BY <2>1 DEF TermOf
    <3> QED BY <2>1, <3>1 DEF Result, Partial
  <2> QED BY <2>1, <2>3, <2>4
<1>2. CASE c.kind # "alu"
  <2> DEFINE B == IF c.kind = "gemm" THEN 1 ELSE c.B
             C == Cols(c)
  <2>1. /\ B \in Nat \ {0} /\ C \in Nat \ {0} /\ TilesOf(c) = B * C /\ StepsOf(c) = C
        /\ SlotsOf(c) # 0 /\ TestOf(c).ref = GemmRef(B, C, C)
    <3>1. CASE c.kind = "gemm"
      BY <3>1 DEF TilesOf, StepsOf, SlotsOf, ShapeOf, Shape, Cols, TestOf, GemmTest
    <3>2. CASE c.kind = "blocked"
      <4>1. c.B \in Nat \ {0} /\ c.C \in Nat \ {0} /\ c.vt \in {1, 2}
        BY <3>2 DEF TestCalls, BlockedGemmCalls
      <4> QED BY <3>2, <4>1 DEF TilesOf, StepsOf, SlotsOf, ShapeOf, Shape, Cols,
                                TestOf, BlockedGemmTest
    <3> QED BY <1>2, <3>1, <3>2, Sizes
  <2>2. \A t : BlockOf(c, t) = <<t \div C, t % C>>
    BY <1>2 DEF BlockOf
  <2> HIDE DEF B, C
  <2> DEFINE blocks == (0 .. B - 1) \X (0 .. C - 1)
             F(b) == Value(b, [k \in 1 .. C |-> GemmTerm(<<b[1], k - 1>>, <<b[2], k - 1>>)])
  <2>3. TestOf(c).ref = [b \in blocks |-> F(b)]
    BY <2>1 DEF GemmRef
  <2>4. ASSUME NEW t \in 0 .. TilesOf(c) - 1
        PROVE  BlockOf(c, t) \in blocks /\ F(BlockOf(c, t)) = Result(c, t)
    <3>1. t \in Nat /\ t < C * B
      BY <2>1
    <3>2. t \div C \in Nat /\ t % C \in 0 .. C - 1 /\ t \div C < B
      BY <2>1, <3>1, DivMod, QuotientBound
    <3>3. BlockOf(c, t) \in blocks
      BY <2>1, <2>2, <3>2
    <3>4. [k \in 1 .. C |-> GemmTerm(<<BlockOf(c, t)[1], k - 1>>, <<BlockOf(c, t)[2], k - 1>>)]
            = [k \in 1 .. C |-> TermOf(c, t, k - 1)]
      <4>1. BlockOf(c, t)[1] = t \div C /\ BlockOf(c, t)[2] = t % C
        BY <2>2
      <4>2. ASSUME NEW k \in 1 .. C
            PROVE  GemmTerm(<<BlockOf(c, t)[1], k - 1>>, <<BlockOf(c, t)[2], k - 1>>)
                     = TermOf(c, t, k - 1)
        BY <2>1, <4>1, Zenon DEF TermOf, InpBlock, WgtBlock, C
      <4> QED BY <4>2
    <3> QED BY <2>1, <3>3, <3>4, Zenon DEF Result, Partial
  <2>5. blocks = {BlockOf(c, t) : t \in 0 .. TilesOf(c) - 1}
    <3>1. ASSUME NEW b \in blocks
          PROVE  \E t \in 0 .. TilesOf(c) - 1 : b = BlockOf(c, t)
      <4> DEFINE i == b[1]
                 j == b[2]
                 t == C * i + j
      <4>1. i \in Nat /\ i < B /\ j \in 0 .. C - 1 /\ b = <<i, j>>
        BY <2>1
      <4> HIDE DEF i, j
      <4>2. t \div C = i /\ t % C = j
        BY <2>1, <4>1, Quotient
      <4>3. C * i + C <= C * B /\ C * i \in Nat /\ C * B = B * C
        BY <2>1, <4>1, Multiples
      <4>4. t \in 0 .. TilesOf(c) - 1
        BY <2>1, <4>1, <4>3
      <4> HIDE DEF t
      <4> QED BY <2>2, <4>1, <4>2, <4>4
    <3> HIDE DEF blocks
    <3> QED BY <2>4, <3>1
  <2> HIDE DEF blocks, F
  <2> QED BY <2>3, <2>4, <2>5
<1> QED BY <1>1, <1>2

\* The buffers have the slots that the test uses.
LEMMA Slots ==
  ASSUME NEW c \in TestCalls, NEW s \in 0 .. SlotsOf(c) - 1
  PROVE  s \in TestOf(c).slots
<1>1. CASE c.kind = "alu"
  BY <1>1 DEF SlotsOf, ShapeOf, Shape
<1>2. CASE c.kind = "gemm"
  BY <1>2 DEF SlotsOf, ShapeOf, Shape, TestOf, GemmTest
<1>3. CASE c.kind = "blocked"
  BY <1>3 DEF SlotsOf, ShapeOf, Shape, TestOf, BlockedGemmTest
<1> QED BY <1>1, <1>2, <1>3, Sizes

-----------------------------------------------------------------------------
(* How a unit moves through its part of the stream                          *)

\* How many instructions each unit has.
LEMMA Counts ==
  ASSUME NEW c \in TestCalls
  PROVE  /\ \A u \in Units : Count(c, u) \in Nat
         /\ Count(c, "compute") = 2 + (StepsOf(c) + 1) * TilesOf(c)
         /\ (StepsOf(c) + 1) * TilesOf(c) \in Nat \ {0}
         /\ Count(c, "store") = TilesOf(c)
<1>1. (StepsOf(c) + 1) * TilesOf(c) \in Nat \ {0} /\ StepsOf(c) * TilesOf(c) \in Nat
  BY Sizes
<1> QED BY <1>1, Sizes DEF Count, Units

\* The load unit at one of its instructions.
LEMMA AtLoad ==
  ASSUME NEW c \in TestCalls, NEW r \in Nat, r < Count(c, "load")
  PROVE  /\ SlotsOf(c) # 0
         /\ LoadTile(c, r) \in 0 .. TilesOf(c) - 1 /\ LoadStep(c, r) \in 0 .. StepsOf(c) - 1
         /\ \/ r % 2 = 0 /\ InsnOf(c, "load", r) = WgtInsn(c, LoadTile(c, r), LoadStep(c, r))
            \/ r % 2 = 1 /\ InsnOf(c, "load", r) = InpInsn(c, LoadTile(c, r), LoadStep(c, r))
<1>1. r % 2 = 0 \/ r % 2 = 1
  OBVIOUS
<1> QED BY <1>1, LoadCoordinates, Sizes DEF InsnOf

\* The load unit when it has executed them all, or has none.
LEMMA LoadEnd ==
  ASSUME NEW c \in TestCalls, NEW r \in Nat, r = Count(c, "load")
  PROVE  /\ LoadTile(c, r) = IF SlotsOf(c) = 0 THEN 0 ELSE TilesOf(c)
         /\ LoadStep(c, r) = 0 /\ r % 2 = 0
<1> DEFINE t == IF SlotsOf(c) = 0 THEN 0 ELSE TilesOf(c)
<1>1. /\ t \in Nat /\ StepsOf(c) \in Nat \ {0} /\ 0 \in 0 .. StepsOf(c) - 1 /\ 0 \in 0 .. 1
  BY Sizes
<1>2. r = 2 * (StepsOf(c) * t + 0) + 0
  <2>1. CASE SlotsOf(c) = 0
    BY <1>1, <2>1 DEF Count
  <2>2. CASE SlotsOf(c) # 0
    <3>1. StepsOf(c) * TilesOf(c) \in Nat
      BY Sizes
    <3> QED BY <2>2, <3>1 DEF Count
  <2> QED BY <2>1, <2>2
<1> HIDE DEF t
<1>3. LoadTile(c, r) = t /\ LoadStep(c, r) = 0 /\ r % 2 = 0
  BY <1>1, <1>2, LoadNumber
<1> QED BY <1>3 DEF t

\* The load unit alternates between weights and inputs, step by step and tile by tile.
LEMMA LoadNext ==
  ASSUME NEW c \in TestCalls, NEW r \in Nat
  PROVE  /\ r % 2 = 0 => /\ (r + 1) % 2 = 1
                         /\ LoadTile(c, r + 1) = LoadTile(c, r) /\ LoadStep(c, r + 1) = LoadStep(c, r)
         /\ r % 2 = 1 => (r + 1) % 2 = 0
         /\ r % 2 = 1 /\ LoadStep(c, r) = StepsOf(c) - 1 =>
              LoadTile(c, r + 1) = LoadTile(c, r) + 1 /\ LoadStep(c, r + 1) = 0
         /\ r % 2 = 1 /\ LoadStep(c, r) # StepsOf(c) - 1 =>
              LoadTile(c, r + 1) = LoadTile(c, r) /\ LoadStep(c, r + 1) = LoadStep(c, r) + 1
<1> DEFINE t == LoadTile(c, r)
           n == LoadStep(c, r)
           m == StepsOf(c)
<1>1. /\ t \in Nat /\ n \in 0 .. m - 1 /\ m \in Nat \ {0}
      /\ r = 2 * (m * t + n) + (r % 2)
  BY Sizes, LoadCoordinates
<1>2. ASSUME NEW s \in Nat, NEW k \in 0 .. m - 1, NEW h \in 0 .. 1, r + 1 = 2 * (m * s + k) + h
      PROVE  LoadTile(c, r + 1) = s /\ LoadStep(c, r + 1) = k /\ (r + 1) % 2 = h
  BY <1>2, LoadNumber
<1> HIDE DEF t, n, m
<1>3. CASE r % 2 = 0
  <2>1. r + 1 = 2 * (m * t + n) + 1
    BY <1>1, <1>3
  <2> QED BY <1>1, <1>2, <1>3, <2>1 DEF t, n
<1>4. CASE r % 2 = 1 /\ n = m - 1
  <2>1. r + 1 = 2 * (m * (t + 1) + 0) + 0
    <3>1. m * (t + 1) = m * t + m /\ m * t \in Nat
      BY <1>1
    <3> QED BY <1>1, <1>4, <3>1
  <2>2. t + 1 \in Nat /\ 0 \in 0 .. m - 1 /\ 0 \in 0 .. 1
    BY <1>1
  <2>3. LoadTile(c, r + 1) = t + 1 /\ LoadStep(c, r + 1) = 0 /\ (r + 1) % 2 = 0
    BY <1>2, <2>1, <2>2
  <2> QED BY <1>4, <2>3 DEF t, n, m
<1>5. CASE r % 2 = 1 /\ n # m - 1
  <2>1. r + 1 = 2 * (m * t + (n + 1)) + 0
    <3>1. m * t \in Nat
      BY <1>1
    <3> QED BY <1>1, <1>5, <3>1
  <2>2. n + 1 \in 0 .. m - 1 /\ 0 \in 0 .. 1
    BY <1>1, <1>5
  <2>3. LoadTile(c, r + 1) = t /\ LoadStep(c, r + 1) = n + 1 /\ (r + 1) % 2 = 0
    BY <1>1, <1>2, <2>1, <2>2
  <2> QED BY <1>5, <2>3 DEF t, n, m
<1>6. r % 2 = 0 \/ r % 2 = 1
  OBVIOUS
<1> QED BY <1>3, <1>4, <1>5, <1>6 DEF n, m

\* The compute unit at each kind of its instructions.
AtUop(c, r) ==
  /\ r = 0 /\ ComputeTile(c, r) = 0 /\ ComputeStep(c, r) = 0
  /\ InsnOf(c, "compute", r) = LoadUop
  /\ ComputeStage(c, r, TRUE) = "uopRun" /\ ComputeStage(c, r, FALSE) = "uop"
AtAcc(c, r) ==
  /\ ComputeTile(c, r) \in 0 .. TilesOf(c) - 1 /\ ComputeStep(c, r) = 0
  /\ InsnOf(c, "compute", r) = AccInsn(c, ComputeTile(c, r))
  /\ ComputeStage(c, r, TRUE) = "accRun" /\ ComputeStage(c, r, FALSE) = "acc"
AtGemm(c, r) ==
  /\ ComputeTile(c, r) \in 0 .. TilesOf(c) - 1 /\ ComputeStep(c, r) \in 0 .. StepsOf(c) - 1
  /\ InsnOf(c, "compute", r) = StepInsn(c, ComputeTile(c, r), ComputeStep(c, r))
  /\ ComputeStage(c, r, TRUE) = "gemmRun" /\ ComputeStage(c, r, FALSE) = "gemm"
AtFinish(c, r) ==
  /\ ComputeTile(c, r) = TilesOf(c) /\ ComputeStep(c, r) = 0
  /\ InsnOf(c, "compute", r) = Finish
  /\ ComputeStage(c, r, TRUE) = "finRun" /\ ComputeStage(c, r, FALSE) = "acc"
AtEnd(c, r) ==
  /\ ComputeTile(c, r) = TilesOf(c) /\ ComputeStep(c, r) = 0
  /\ \A running : ComputeStage(c, r, running) = "done"

\* Where the compute unit is decides what it executes.
LEMMA AtCompute ==
  ASSUME NEW c \in TestCalls, NEW r \in Nat, r < Count(c, "compute")
  PROVE  /\ r = 0 => AtUop(c, r)
         /\ r # 0 => /\ ComputeTile(c, r) = TilesOf(c) => AtFinish(c, r)
                     /\ ComputeTile(c, r) # TilesOf(c) /\ ComputePart(c, r) = 0 => AtAcc(c, r)
                     /\ ComputeTile(c, r) # TilesOf(c) /\ ComputePart(c, r) # 0 => AtGemm(c, r)
<1>1. CASE r = 0
  BY <1>1 DEF AtUop, ComputeTile, ComputePart, ComputeStep, ComputeStage, InsnOf
<1>2. CASE r # 0
  <2>1. /\ ComputeTile(c, r) \in Nat /\ ComputePart(c, r) \in 0 .. StepsOf(c)
        /\ \/ ComputeTile(c, r) < TilesOf(c)
           \/ ComputeTile(c, r) = TilesOf(c) /\ ComputePart(c, r) = 0
    BY <1>2, ComputeCoordinates
  <2>2. /\ ComputeStage(c, r, TRUE) = IF ComputeTile(c, r) = TilesOf(c) THEN "finRun"
             ELSE IF ComputePart(c, r) = 0 THEN "accRun" ELSE "gemmRun"
        /\ ComputeStage(c, r, FALSE) = IF ComputeTile(c, r) = TilesOf(c) THEN "acc"
             ELSE IF ComputePart(c, r) = 0 THEN "acc" ELSE "gemm"
    <3>1. ~(r > 1 + (ShapeOf(c).N + 1) * ShapeOf(c).T)
      <4>1. Count(c, "compute") = 2 + (ShapeOf(c).N + 1) * ShapeOf(c).T
        BY DEF Count, StepsOf, TilesOf
      <4>2. (ShapeOf(c).N + 1) * ShapeOf(c).T \in Nat
        BY Counts DEF StepsOf, TilesOf
      <4> QED BY <4>1, <4>2
    <3> QED BY <1>2, <3>1 DEF ComputeStage, TilesOf
  <2>3. ComputeStep(c, r) = IF ComputePart(c, r) = 0 THEN 0 ELSE ComputePart(c, r) - 1
    BY DEF ComputeStep
  <2>4. InsnOf(c, "compute", r) =
          IF ComputeTile(c, r) = TilesOf(c) THEN Finish
          ELSE IF ComputePart(c, r) = 0 THEN AccInsn(c, ComputeTile(c, r))
          ELSE StepInsn(c, ComputeTile(c, r), ComputePart(c, r) - 1)
    BY <1>2 DEF InsnOf
  <2>5. TilesOf(c) \in Nat \ {0} /\ StepsOf(c) \in Nat \ {0}
    BY Sizes
  <2>6. CASE ComputeTile(c, r) = TilesOf(c)
    <3>1. AtFinish(c, r)
      <4>1. ComputeStage(c, r, TRUE) = "finRun" /\ ComputeStage(c, r, FALSE) = "acc"
        BY <2>2, <2>6, Zenon
      <4>2. ComputeTile(c, r) = TilesOf(c) /\ ComputeStep(c, r) = 0
        BY <2>1, <2>3, <2>5, <2>6
      <4>3. InsnOf(c, "compute", r) = Finish
        BY <2>3, <2>4, <2>6, Zenon
      <4> QED BY <4>1, <4>2, <4>3, Zenon DEF AtFinish
    <3> QED BY <1>2, <2>6, <3>1
  <2>7. CASE ComputeTile(c, r) # TilesOf(c) /\ ComputePart(c, r) = 0
    <3>1. AtAcc(c, r)
      <4>1. ComputeStage(c, r, TRUE) = "accRun" /\ ComputeStage(c, r, FALSE) = "acc"
        BY <2>2, <2>7, Zenon
      <4>2. ComputeTile(c, r) \in 0 .. TilesOf(c) - 1 /\ ComputeStep(c, r) = 0
        BY <2>1, <2>3, <2>5, <2>7
      <4>3. InsnOf(c, "compute", r) = AccInsn(c, ComputeTile(c, r))
        BY <2>3, <2>4, <2>7, Zenon
      <4> QED BY <4>1, <4>2, <4>3, Zenon DEF AtAcc
    <3> QED BY <1>2, <2>7, <3>1
  <2>8. CASE ComputeTile(c, r) # TilesOf(c) /\ ComputePart(c, r) # 0
    <3>1. AtGemm(c, r)
      <4>1. ComputeStage(c, r, TRUE) = "gemmRun" /\ ComputeStage(c, r, FALSE) = "gemm"
        BY <2>2, <2>8, Zenon
      <4>2. /\ ComputeTile(c, r) \in 0 .. TilesOf(c) - 1
            /\ ComputeStep(c, r) \in 0 .. StepsOf(c) - 1
        BY <2>1, <2>3, <2>5, <2>8
      <4>3. InsnOf(c, "compute", r) = StepInsn(c, ComputeTile(c, r), ComputeStep(c, r))
        BY <2>3, <2>4, <2>8, Zenon
      <4> QED BY <4>1, <4>2, <4>3, Zenon DEF AtGemm
    <3> QED BY <1>2, <2>8, <3>1
  <2> QED BY <2>6, <2>7, <2>8
<1> QED BY <1>1, <1>2

\* One of these it is at.
LEMMA ComputePlaces ==
  ASSUME NEW c \in TestCalls, NEW r \in Nat, r < Count(c, "compute")
  PROVE  AtUop(c, r) \/ AtAcc(c, r) \/ AtGemm(c, r) \/ AtFinish(c, r)
BY AtCompute

\* Behind its last instruction the compute unit is done.
LEMMA ComputeEnd ==
  ASSUME NEW c \in TestCalls, NEW r \in Nat, r = Count(c, "compute")
  PROVE  AtEnd(c, r)
<1>1. /\ TilesOf(c) \in Nat \ {0} /\ StepsOf(c) \in Nat \ {0} /\ 1 \in 0 .. StepsOf(c)
      /\ (StepsOf(c) + 1) * TilesOf(c) \in Nat
      /\ r = 1 + (StepsOf(c) + 1) * TilesOf(c) + 1
  BY Sizes, Counts
<1>2. ComputeTile(c, r) = TilesOf(c) /\ ComputePart(c, r) = 1
  BY <1>1, ComputeNumber
<1>3. r # 0 /\ r > 1 + (ShapeOf(c).N + 1) * ShapeOf(c).T
  BY <1>1 DEF TilesOf, StepsOf
<1> QED BY <1>2, <1>3 DEF AtEnd, ComputeStep, ComputeStage

\* Where the compute unit goes from there.
LEMMA ComputeNext ==
  ASSUME NEW c \in TestCalls, NEW r \in Nat, r < Count(c, "compute")
  PROVE  /\ AtUop(c, r) => AtAcc(c, r + 1) /\ ComputeTile(c, r + 1) = 0
         /\ AtAcc(c, r) =>
              /\ AtGemm(c, r + 1) /\ ComputeTile(c, r + 1) = ComputeTile(c, r)
              /\ ComputeStep(c, r + 1) = 0
         /\ AtGemm(c, r) /\ ComputeStep(c, r) # StepsOf(c) - 1 =>
              /\ AtGemm(c, r + 1) /\ ComputeTile(c, r + 1) = ComputeTile(c, r)
              /\ ComputeStep(c, r + 1) = ComputeStep(c, r) + 1
         /\ AtGemm(c, r) /\ ComputeStep(c, r) = StepsOf(c) - 1 =>
              /\ AtAcc(c, r + 1) \/ AtFinish(c, r + 1)
              /\ ComputeTile(c, r + 1) = ComputeTile(c, r) + 1
         /\ AtFinish(c, r) => AtEnd(c, r + 1) /\ r + 1 = Count(c, "compute")
<1>s. /\ TilesOf(c) \in Nat \ {0} /\ StepsOf(c) \in Nat \ {0}
      /\ (StepsOf(c) + 1) * TilesOf(c) \in Nat \ {0}
      /\ Count(c, "compute") = 2 + (StepsOf(c) + 1) * TilesOf(c)
  BY Sizes, Counts
<1> DEFINE t == ComputeTile(c, r)
           k == ComputePart(c, r)
           m == StepsOf(c) + 1
<1>n. ASSUME NEW s \in Nat, NEW j \in 0 .. StepsOf(c), r + 1 = 1 + m * s + j,
             s < TilesOf(c) \/ (s = TilesOf(c) /\ j = 0)
      PROVE  /\ ComputeTile(c, r + 1) = s /\ ComputePart(c, r + 1) = j
             /\ r + 1 < Count(c, "compute")
  BY <1>n, ComputeNumber
<1>m. m \in Nat \ {0} /\ m = StepsOf(c) + 1
  BY <1>s
<1>d. ComputeStep(c, r) = IF k = 0 THEN 0 ELSE k - 1
  BY DEF ComputeStep
<1>1. CASE r = 0
  <2>1. ~AtFinish(c, r) /\ ~AtGemm(c, r) /\ ~AtAcc(c, r)
    <3>1. AtUop(c, r)
      BY <1>1, <1>s, AtCompute
    <3>2. ComputeStage(c, r, FALSE) = "uop"
      BY <3>1 DEF AtUop
    <3>3. ComputeStage(c, r, FALSE) # "acc" /\ ComputeStage(c, r, FALSE) # "gemm"
      BY <3>2
    <3> QED BY <3>3 DEF AtFinish, AtGemm, AtAcc
  <2>2. ComputeTile(c, r + 1) = 0 /\ ComputePart(c, r + 1) = 0 /\ r + 1 < Count(c, "compute")
    <3>1. r + 1 = 1 + m * 0 + 0 /\ 0 \in Nat /\ 0 \in 0 .. StepsOf(c) /\ 0 < TilesOf(c)
      BY <1>1, <1>s, <1>m
    <3> HIDE DEF m
    <3> QED BY <1>n, <3>1
  <2>3. AtAcc(c, r + 1)
    <3>1. ComputeTile(c, r + 1) # TilesOf(c) /\ r + 1 \in Nat /\ r + 1 # 0
      BY <1>s, <2>2
    <3> QED BY <2>2, <3>1, AtCompute
  <2> QED BY <2>1, <2>2, <2>3
<1>2. CASE r # 0
  <2>1. /\ t \in Nat /\ k \in 0 .. StepsOf(c) /\ r = 1 + m * t + k
        /\ t < TilesOf(c) \/ (t = TilesOf(c) /\ k = 0)
    BY <1>2, ComputeCoordinates
  <2>2. ~AtUop(c, r)
    BY <1>2 DEF AtUop
  <2>3. r + 1 \in Nat /\ r + 1 # 0
    OBVIOUS
  <2>t. m * t \in Nat
    <3> HIDE DEF m, t
    <3> QED BY <1>m, <2>1
  <2>4. CASE t = TilesOf(c)
    <3>1. ~AtAcc(c, r) /\ ~AtGemm(c, r)
      <4>1. ~(ComputeTile(c, r) \in 0 .. TilesOf(c) - 1)
        BY <1>s, <2>4
      <4> QED BY <4>1 DEF AtAcc, AtGemm
    <3>2. r + 1 = Count(c, "compute")
      BY <1>s, <2>1, <2>4
    <3>3. AtEnd(c, r + 1)
      BY <3>2, ComputeEnd
    <3> QED BY <2>2, <3>1, <3>2, <3>3
  <2>5. CASE t # TilesOf(c) /\ k < StepsOf(c)
    <3>1. /\ ComputeTile(c, r + 1) = t /\ ComputePart(c, r + 1) = k + 1
          /\ r + 1 < Count(c, "compute")
      <4>1. r + 1 = 1 + m * t + (k + 1) /\ k + 1 \in 0 .. StepsOf(c) /\ t < TilesOf(c)
        <5> HIDE DEF t, k, m
        <5> QED BY <1>s, <2>1, <2>t, <2>5
      <4> HIDE DEF t, k, m
      <4> QED BY <1>n, <2>1, <4>1
    <3>2. k + 1 # 0
      BY <2>1
    <3>3. AtGemm(c, r + 1)
      BY <2>3, <2>5, <3>1, <3>2, AtCompute
    <3>4. ComputeStep(c, r + 1) = k
      BY <2>1, <3>1, <3>2 DEF ComputeStep
    <3>5. CASE k = 0
      <4>1. AtAcc(c, r)
        BY <1>2, <2>5, <3>5, AtCompute
      <4>2. ~AtGemm(c, r) /\ ~AtFinish(c, r)
        BY <2>5, <4>1 DEF AtAcc, AtGemm, AtFinish
      <4> QED BY <2>2, <3>1, <3>3, <3>4, <3>5, <4>2
    <3>6. CASE k # 0
      <4>1. AtGemm(c, r)
        BY <1>2, <2>5, <3>6, AtCompute
      <4>2. ~AtAcc(c, r) /\ ~AtFinish(c, r)
        BY <2>5, <4>1 DEF AtAcc, AtGemm, AtFinish
      <4>3. ComputeStep(c, r) = k - 1 /\ k - 1 # StepsOf(c) - 1 /\ k = (k - 1) + 1
        BY <1>s, <1>d, <2>1, <2>5, <3>6
      <4> QED BY <2>2, <3>1, <3>3, <3>4, <4>2, <4>3
    <3> QED BY <3>5, <3>6
  <2>6. CASE t # TilesOf(c) /\ k = StepsOf(c)
    <3>1. /\ ComputeTile(c, r + 1) = t + 1 /\ ComputePart(c, r + 1) = 0
          /\ r + 1 < Count(c, "compute")
      <4>1. /\ r + 1 = 1 + m * (t + 1) + 0 /\ t + 1 \in Nat /\ 0 \in 0 .. StepsOf(c)
            /\ t + 1 < TilesOf(c) \/ t + 1 = TilesOf(c)
        <5> HIDE DEF t, k
        <5>1. m * (t + 1) = m * t + m
          BY <1>m, <2>1
        <5> QED BY <1>s, <1>m, <2>1, <2>t, <2>6, <5>1
      <4> DEFINE s == t + 1
      <4> HIDE DEF m, s
      <4>2. r + 1 = 1 + m * s + 0 /\ s \in Nat /\ (s < TilesOf(c) \/ s = TilesOf(c))
        BY <4>1 DEF s
      <4>3. /\ ComputeTile(c, r + 1) = s /\ ComputePart(c, r + 1) = 0
            /\ r + 1 < Count(c, "compute")
        BY <1>n, <4>1, <4>2
      <4> QED BY <4>3 DEF s
    <3>2. AtAcc(c, r + 1) \/ AtFinish(c, r + 1)
      BY <2>3, <3>1, AtCompute
    <3>3. AtGemm(c, r)
      BY <1>2, <1>s, <2>6, AtCompute
    <3>4. ~AtAcc(c, r) /\ ~AtFinish(c, r)
      BY <2>6, <3>3 DEF AtAcc, AtGemm, AtFinish
    <3>5. ComputeStep(c, r) = StepsOf(c) - 1
      BY <1>d, <1>s, <2>6
    <3> QED BY <2>2, <3>1, <3>2, <3>4, <3>5
  <2> QED BY <1>s, <2>1, <2>4, <2>5, <2>6
<1> QED BY <1>1, <1>2
=============================================================================
