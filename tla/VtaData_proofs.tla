--------------------------- MODULE VtaData_proofs ---------------------------
(***************************************************************************)
(* The data of a VTA test: the operator functions that compute it and the  *)
(* log tools that hand it on, modules VtaNumerics and VtaTools, which have *)
(* nothing in common.                                                      *)
(*                                                                         *)
(* First the operator functions, for all register widths that are large    *)
(* enough for the block size: the model checker's widths are small, the    *)
(* code's are an instance of these.                                        *)
(*                                                                         *)
(* Then the log tools, for every log: whatever the number of tests, their  *)
(* operators and their verdicts.                                           *)
(***************************************************************************)
EXTENDS VtaNumerics, VtaTools, TLAPS

-----------------------------------------------------------------------------
(* Registers                                                                *)

\* What quotient and remainder are.
LEMMA DivMod ==
  ASSUME NEW n \in Nat \ {0}, NEW a \in Int
  PROVE  /\ a \div n \in Int /\ a % n \in 0 .. n - 1
         /\ a = n * (a \div n) + (a % n)
  OBVIOUS

\* Numbers that differ by a multiple of n leave the same remainder.
LEMMA ModUnique ==
  ASSUME NEW n \in Nat \ {0}, NEW a \in Int, NEW b \in Int, NEW k \in Int,
         a = b + n * k
  PROVE  a % n = b % n
<1> DEFINE d == k + (b \div n) - (a \div n)
<1>1. /\ a % n \in 0 .. n - 1 /\ b % n \in 0 .. n - 1
      /\ a \div n \in Int /\ b \div n \in Int
  OBVIOUS
<1>2. a = n * (a \div n) + (a % n) /\ b = n * (b \div n) + (b % n)
  OBVIOUS
<1>3. d \in Int /\ (a % n) - (b % n) = n * d
  BY <1>1, <1>2
<1>4. d = 0
  <2>1. -n < n * d /\ n * d < n
    BY <1>1, <1>3
  <2> HIDE DEF d
  <2>2. ~(d >= 1)
    BY <1>3, <2>1
  <2>3. ~(d <= -1)
    BY <1>3, <2>1
  <2> QED BY <1>3, <2>2, <2>3
<1>5. (a % n) - (b % n) = 0
  <2> HIDE DEF d
  <2> QED BY <1>3, <1>4
<1> QED BY <1>1, <1>5

\* Numbers that differ by a multiple of a register's size have its bits in common.
LEMMA SameBits ==
  ASSUME NEW h \in Nat \ {0}, NEW a \in Int, NEW b \in Int, NEW k \in Int,
         a = b + (2 * h) * k
  PROVE  Bits(h, a) = Bits(h, b)
<1> DEFINE n == 2 * h
<1>1. n \in Nat \ {0} /\ a = b + n * k
  OBVIOUS
<1> HIDE DEF n
<1>2. a % n = b % n
  BY <1>1, ModUnique
<1> QED BY <1>2 DEF Bits, n

\* A bit pattern is a remainder, and its number is in range.
LEMMA Ranges ==
  ASSUME NEW h \in Nat \ {0}, NEW x \in Int
  PROVE  /\ Bits(h, x) \in 0 .. 2 * h - 1
         /\ Wrap(h, x) \in Range(h)
  BY DEF Bits, Wrap, Signed, Range

\* Numbers in range survive the way into a register and back.
LEMMA RoundTrip ==
  ASSUME NEW h \in Nat \ {0}, NEW x \in Range(h)
  PROVE  Signed(h, Bits(h, x)) = x /\ Wrap(h, x) = x
  BY DEF Signed, Bits, Wrap, Range

\* A register loses a multiple of its size.
LEMMA WrapLoses ==
  ASSUME NEW h \in Nat \ {0}, NEW x \in Int
  PROVE  \E k \in Int : Wrap(h, x) = x + (2 * h) * k
<1> DEFINE n == 2 * h
           q == x \div n
<1>1. n \in Nat \ {0}
  OBVIOUS
<1>2. q \in Int /\ x % n \in Int /\ x % n = x + n * (-q) /\ (x % n) - n = x + n * (-q - 1)
  <2> HIDE DEF n
  <2> QED BY <1>1, DivMod
<1>3. Wrap(h, x) = x % n \/ Wrap(h, x) = (x % n) - n
  BY DEF Wrap, Signed, Bits
<1> HIDE DEF n, q
<1>4. \E k \in Int : Wrap(h, x) = x + n * k
  BY <1>2, <1>3
<1> QED BY <1>4 DEF n

\* Wrapping an operand of a sum first makes no difference to the wrapped sum.
LEMMA WrapAdd ==
  ASSUME NEW h \in Nat \ {0}, NEW x \in Int, NEW y \in Int
  PROVE  /\ Bits(h, Wrap(h, x) + y) = Bits(h, x + y)
         /\ Wrap(h, Wrap(h, x) + y) = Wrap(h, x + y)
<1> DEFINE a == Wrap(h, x) + y
           b == x + y
<1>1. PICK k \in Int : Wrap(h, x) = x + (2 * h) * k
  BY WrapLoses
<1>2. a = b + (2 * h) * k /\ a \in Int /\ b \in Int
  BY <1>1
<1>3. Bits(h, a) = Bits(h, b)
  <2> HIDE DEF a, b
  <2> QED BY <1>2, SameBits
<1>4. Wrap(h, a) = Signed(h, Bits(h, a)) /\ Wrap(h, b) = Signed(h, Bits(h, b))
  BY Zenon DEF Wrap
<1> QED BY <1>3, <1>4, Zenon

\* Narrowing a register gives the low bits of the number it was written with.
LEMMA Narrow ==
  ASSUME NEW h \in Nat \ {0}, NEW g \in Nat \ {0}, Divides(g, h), NEW x \in Int
  PROVE  Bits(g, Bits(h, x)) = Bits(g, x) /\ Bits(g, Wrap(h, x)) = Bits(g, x)
<1>1. PICK m \in Int : h = m * g
  BY DEF Divides
<1>2. PICK k \in Int : Wrap(h, x) = x + (2 * h) * k
  BY WrapLoses
<1>3. ASSUME NEW a \in Int, NEW j \in Int, a = x + (2 * h) * j
      PROVE  Bits(g, a) = Bits(g, x)
  <2> DEFINE i == m * j
  <2>1. (2 * (m * g)) * j = (2 * g) * i /\ i \in Int
    OBVIOUS
  <2>2. a = x + (2 * g) * i /\ i \in Int
    BY <1>1, <1>3, <2>1
  <2> HIDE DEF i
  <2> QED BY <2>2, SameBits
<1>4. Bits(g, Wrap(h, x)) = Bits(g, x)
  <2>1. Wrap(h, x) \in Int
    BY Ranges DEF Range
  <2> QED BY <1>2, <1>3, <2>1
<1>5. \E j \in Int : Bits(h, x) = x + (2 * h) * j
  <2> DEFINE n == 2 * h
             q == x \div n
  <2>1. n \in Nat \ {0}
    OBVIOUS
  <2>2. q \in Int /\ x % n = x + n * (-q)
    <3> HIDE DEF n
    <3>1. q \in Int /\ x % n \in Int /\ x = n * q + (x % n)
      BY <2>1, DivMod
    <3> HIDE DEF q
    <3> QED BY <2>1, <3>1
  <2>3. Bits(h, x) = x % n
    BY DEF Bits
  <2> HIDE DEF n, q
  <2>4. \E i \in Int : Bits(h, x) = x + n * i
    BY <2>2, <2>3
  <2> QED BY <2>4 DEF n
<1>6. Bits(g, Bits(h, x)) = Bits(g, x)
  <2>1. Bits(h, x) \in Int
    BY Ranges
  <2> QED BY <1>3, <1>5, <2>1
<1> QED BY <1>4, <1>6

\* The low bits of an element are those of its number.
LEMMA NarrowSigned ==
  ASSUME NEW h \in Nat \ {0}, NEW g \in Nat \ {0}, Divides(g, h),
         NEW b \in 0 .. 2 * h - 1
  PROVE  Signed(g, Bits(g, b)) = Wrap(g, Signed(h, b)) /\ Signed(h, b) \in Range(h)
<1>1. b \in Int /\ Bits(h, b) = b /\ Signed(h, b) \in Range(h)
  BY DEF Bits, Signed, Range
<1>2. Wrap(h, b) = Signed(h, b)
  BY <1>1 DEF Wrap
<1>3. Bits(g, Wrap(h, b)) = Bits(g, b)
  BY <1>1, Narrow
<1> QED BY <1>1, <1>2, <1>3, Zenon DEF Wrap

-----------------------------------------------------------------------------
(* The ALU                                                                  *)

\* The widths of the inputs and amounts fit in an accumulator element.
LEMMA Widths ==
  /\ InpHalf <= AccHalf /\ ShiftHalf <= AccHalf
  /\ InpHalf \in Nat \ {0} /\ ProdHalf \in Nat \ {0} /\ SumHalf \in Nat \ {0}
  /\ AccHalf \in Nat \ {0} /\ ImmHalf \in Nat \ {0} /\ ShiftHalf \in Nat \ {0}
  /\ BlockIn \in Nat \ {0} /\ Sums \in Nat \ {0}
<1>1. PICK k \in 1 .. AccHalf : AccHalf = k * InpHalf
  BY WidthsAssumption DEF Divides
<1>2. k * InpHalf >= InpHalf
  BY <1>1, WidthsAssumption
<1> QED BY <1>1, <1>2, WidthsAssumption

\* A shift of a number by an amount that the register of the amount can hold.
LEMMA ShiftInt ==
  ASSUME NEW x \in Int, NEW y \in Range(ShiftHalf)
  PROVE  Shift(x, y) \in Int
<1>1. CASE y >= 0
  <2>1. y \in 0 .. ShiftHalf
    BY <1>1, Widths DEF Range
  <2>2. Pow2[y] \in Nat \ {0}
    BY <2>1, Pow2Assumption
  <2> QED BY <1>1, <2>2 DEF Shift
<1>2. CASE ~(y >= 0)
  <2>1. -y \in 0 .. ShiftHalf
    BY <1>2, Widths DEF Range
  <2>2. Pow2[-y] \in Nat \ {0}
    BY <2>1, Pow2Assumption
  <2> QED BY <1>2, <2>2 DEF Shift
<1> QED BY <1>1, <1>2

\* An ALU function computes what the C reference does.
LEMMA AluCorrect ==
  ASSUME NEW f \in AluOpcodes, NEW x \in Range(AccHalf), NEW y \in Range(AccHalf),
         f = "SHR" => y \in Range(ShiftHalf),
         NEW a, NEW b, a = Bits(AccHalf, x), b = Bits(AccHalf, y)
  PROVE  /\ AluFunction(f, a, b) \in 0 .. 2 * AccHalf - 1
         /\ Signed(AccHalf, AluFunction(f, a, b)) = AluReference(f, x, y)
<1>1. x \in Int /\ y \in Int
  BY DEF Range
<1>2. /\ a \in 0 .. 2 * AccHalf - 1 /\ b \in 0 .. 2 * AccHalf - 1
      /\ Signed(AccHalf, a) = x /\ Signed(AccHalf, b) = y
  BY <1>1, Widths, Ranges, RoundTrip
<1>3. CASE f = "MIN"
  BY <1>2, <1>3, SMT DEF AluFunction, AluReference, AccMin
<1>4. CASE f = "MAX"
  BY <1>2, <1>4, SMT DEF AluFunction, AluReference, AccMax
<1>5. CASE f = "ADD"
  <2>1. AluFunction(f, a, b) = Bits(AccHalf, x + y) /\ AluReference(f, x, y) = Wrap(AccHalf, x + y)
    BY <1>2, <1>5 DEF AluFunction, AluReference, AccAdd
  <2>2. Bits(AccHalf, x + y) \in 0 .. 2 * AccHalf - 1
    BY <1>1, Widths, Ranges
  <2> QED BY <2>1, <2>2, Zenon DEF Wrap
<1>6. CASE f = "SHR"
  <2>1. y \in Range(ShiftHalf)
    BY <1>6
  <2>2. Signed(ShiftHalf, Bits(ShiftHalf, b)) = y
    <3>1. Divides(ShiftHalf, AccHalf)
      BY WidthsAssumption
    <3>2. Bits(ShiftHalf, Bits(AccHalf, y)) = Bits(ShiftHalf, y)
      BY <1>1, <3>1, Widths, Narrow
    <3>3. Signed(ShiftHalf, Bits(ShiftHalf, y)) = y
      BY <2>1, Widths, RoundTrip
    <3> QED BY <3>2, <3>3, Zenon
  <2>3. /\ AluFunction(f, a, b) = Bits(AccHalf, Shift(x, y))
        /\ AluReference(f, x, y) = Wrap(AccHalf, Shift(x, y))
    <3>1. AluFunction(f, a, b) = AccShr(a, b) /\ AluReference(f, x, y) = Wrap(AccHalf, Shift(x, y))
      BY <1>6 DEF AluFunction, AluReference
    <3> QED BY <1>2, <2>2, <3>1, Zenon DEF AccShr
  <2>4. Bits(AccHalf, Shift(x, y)) \in 0 .. 2 * AccHalf - 1
    BY <1>1, <2>1, ShiftInt, Widths, Ranges
  <2> QED BY <2>3, <2>4, Zenon DEF Wrap
<1> QED BY <1>3, <1>4, <1>5, <1>6, Zenon DEF AluOpcodes

-----------------------------------------------------------------------------
(* The inductive invariant                                                  *)

\* The product of two operands is bounded, and fits the product register.
LEMMA Products ==
  ASSUME NEW x \in Range(InpHalf), NEW y \in Range(InpHalf)
  PROVE  /\ x * y \in Int /\ -Bound <= x * y /\ x * y <= Bound
         /\ x * y \in Range(ProdHalf)
<1> DEFINE h == InpHalf
           p == x * y
<1>1. h \in Nat /\ x \in Int /\ y \in Int /\ -h <= x /\ x <= h /\ -h <= y /\ y <= h
  BY Widths DEF Range
<1>2. p \in Int /\ -(h * h) <= p /\ p <= h * h
  <2> HIDE DEF h
  <2> QED BY <1>1
<1>3. Bound = h * h /\ h * h < ProdHalf /\ ProdHalf \in Nat /\ h * h \in Int
  BY Widths, FitAssumption DEF Bound
<1> HIDE DEF h, p
<1>4. p \in Int /\ -Bound <= p /\ p <= Bound /\ p \in Range(ProdHalf)
  BY <1>2, <1>3 DEF Range
<1> QED BY <1>4 DEF p

\* No more than BlockIn products fit the sum register.
LEMMA SumFits ==
  ASSUME NEW m \in 0 .. BlockIn, NEW e \in Int, -(m * Bound) <= e, e <= m * Bound
  PROVE  e \in Range(SumHalf)
<1> DEFINE B == Bound
<1>1. B \in Nat /\ BlockIn * B < SumHalf /\ SumHalf \in Nat /\ BlockIn \in Nat
  BY Widths, FitAssumption DEF Bound
<1> HIDE DEF B
<1>2. m * B <= BlockIn * B /\ m * B \in Int /\ BlockIn * B \in Int
  BY <1>1
<1>3. -(m * B) <= e /\ e <= m * B
  BY DEF B
<1> QED BY <1>1, <1>2, <1>3 DEF Range

\* A call of GemmMac adds the product of the numbers in the registers.
LEMMA MacExact ==
  ASSUME NEW x \in Range(InpHalf), NEW y \in Range(InpHalf), NEW s,
         Signed(SumHalf, s) \in Int, Signed(SumHalf, s) + x * y \in Range(SumHalf)
  PROVE  /\ GemmMac(s, Bits(InpHalf, x), Bits(InpHalf, y)) \in 0 .. 2 * SumHalf - 1
         /\ Signed(SumHalf, GemmMac(s, Bits(InpHalf, x), Bits(InpHalf, y)))
              = Signed(SumHalf, s) + x * y
<1> DEFINE e == Signed(SumHalf, s) + x * y
           g == GemmMac(s, Bits(InpHalf, x), Bits(InpHalf, y))
<1>1. Signed(InpHalf, Bits(InpHalf, x)) = x /\ Signed(InpHalf, Bits(InpHalf, y)) = y
  BY Widths, RoundTrip
<1>2. Wrap(ProdHalf, x * y) = x * y
  BY Products, Widths, RoundTrip
<1>3. g = Bits(SumHalf, e)
  BY <1>1, <1>2, Zenon DEF GemmMac
<1>4. e \in Range(SumHalf) /\ e \in Int
  BY DEF Range
<1> HIDE DEF e, g
<1>5. g \in 0 .. 2 * SumHalf - 1 /\ Signed(SumHalf, g) = e
  BY <1>3, <1>4, Widths, Ranges, RoundTrip
<1> QED BY <1>5, Zenon DEF e, g

LEMMA InitIInv == Init => IInv
<1> SUFFICES ASSUME Init PROVE IInv
  OBVIOUS
<1>1. ref \in Range(AccHalf) /\ ref \in Int
  <2>1. CASE op = "GEMM"
    BY <2>1, BiasesAssumption, Widths DEF Init, Range
  <2>2. CASE op \in AluOpcodes /\ op # "GEMM"
    <3>1. ref \in AluInputs(op)
      BY <2>2 DEF Init
    <3> QED BY <2>2, <3>1, Widths DEF AluInputs, AluOpcodes, Range
  <2> QED BY <2>1, <2>2 DEF Init
<1>2. /\ accum \in 0 .. 2 * AccHalf - 1
      /\ Signed(AccHalf, accum) = ref /\ Wrap(AccHalf, ref) = ref
  BY <1>1, Widths, Ranges, RoundTrip DEF Init
<1>3. TypeOK
  <2>1. 0 \in 0 .. BlockIn /\ 0 \in 0 .. Sums /\ 0 \in 0 .. 2 * SumHalf - 1 /\ 0 \in 0 .. 2 * InpHalf - 1
    BY Widths
  <2>2. macs = 0 /\ adds = 0 /\ sum = 0 /\ exact = 0 /\ out = 0 /\ done \in BOOLEAN
    BY DEF Init
  <2>3. op \in {"GEMM"} \cup AluOpcodes
    BY DEF Init
  <2>4. exact \in Int
    BY <2>2
  <2> QED BY <1>1, <1>2, <2>1, <2>2, <2>3, <2>4, Zenon DEF TypeOK
<1>4. ref = Wrap(AccHalf, Signed(AccHalf, accum) + exact)
  <2>1. ref + exact = ref
    BY <1>1 DEF Init
  <2> QED BY <1>2, <2>1
<1>5. SumIsExact /\ -(macs * Bound) <= exact /\ exact <= macs * Bound
  <2>1. Bound \in Int
    BY Widths DEF Bound
  <2> QED BY <2>1, Widths DEF SumIsExact, Signed, Init
<1>6. op # "GEMM" => macs = 0 /\ exact = 0 /\ (~done => ref \in AluInputs(op))
  BY DEF Init
<1>7. (macs > 0 => adds < Sums) /\ ~done
  BY DEF Init
<1> QED BY <1>3, <1>4, <1>5, <1>6, <1>7 DEF IInv, OutIsReference

LEMMA MacIInv == IInv /\ Mac => IInv'
<1> SUFFICES ASSUME IInv, Mac PROVE IInv'
  OBVIOUS
<1>1. PICK inp \in Range(InpHalf), wgt \in Range(InpHalf) :
        /\ sum' = GemmMac(sum, Bits(InpHalf, wgt), Bits(InpHalf, inp))
        /\ exact' = exact + wgt * inp
        /\ ref' = Wrap(AccHalf, ref + wgt * inp)
  BY DEF Mac
<1> DEFINE p == wgt * inp
<1>2. p \in Int /\ -Bound <= p /\ p <= Bound /\ Bound \in Nat
  BY Products, Widths DEF Bound
<1>3. macs \in Nat /\ macs' = macs + 1 /\ macs' \in 0 .. BlockIn /\ exact \in Int
  BY Widths DEF Mac, IInv, TypeOK
<1>4. -(macs' * Bound) <= exact' /\ exact' <= macs' * Bound /\ exact' \in Int
  <2> DEFINE B == Bound
  <2>1. exact' = exact + p /\ -(macs * B) <= exact /\ exact <= macs * B
    BY <1>1 DEF IInv
  <2>2. p \in Int /\ -B <= p /\ p <= B /\ B \in Nat
    BY <1>2
  <2> HIDE DEF B, p
  <2>3. (macs + 1) * B = macs * B + B /\ macs * B \in Int
    BY <1>3, <2>2
  <2>4. -((macs + 1) * B) <= exact' /\ exact' <= (macs + 1) * B /\ exact' \in Int
    BY <1>3, <2>1, <2>2, <2>3
  <2> QED BY <1>3, <2>4 DEF B
<1>5. exact' \in Range(SumHalf)
  BY <1>3, <1>4, SumFits
<1>6. sum' \in 0 .. 2 * SumHalf - 1 /\ SumIsExact'
  <2>1. Signed(SumHalf, sum) = exact
    BY DEF IInv, SumIsExact
  <2>2. Signed(SumHalf, sum) + wgt * inp = exact'
    BY <1>1, <2>1
  <2>3. /\ sum' \in 0 .. 2 * SumHalf - 1
        /\ Signed(SumHalf, sum') = exact'
    BY <1>1, <1>3, <1>5, <2>1, <2>2, MacExact
  <2> QED BY <2>3 DEF SumIsExact
<1>7. ref' = Wrap(AccHalf, Signed(AccHalf, accum') + exact') /\ ref' \in Range(AccHalf)
  <2> DEFINE a == Signed(AccHalf, accum)
             x == a + exact
  <2>1. a \in Int /\ accum' = accum
    BY Widths DEF IInv, TypeOK, Signed, Mac
  <2>2. x \in Int /\ x + p = a + exact'
    <3> HIDE DEF a, p
    <3> QED BY <1>1, <1>2, <1>3, <2>1 DEF p
  <2>3. ref' = Wrap(AccHalf, Wrap(AccHalf, x) + p)
    BY <1>1, Zenon DEF IInv
  <2> HIDE DEF x, p
  <2>4. ref' = Wrap(AccHalf, x + p) /\ x + p \in Int
    BY <1>2, <2>2, <2>3, Widths, WrapAdd
  <2>5. ref' \in Range(AccHalf)
    BY <2>4, Widths, Ranges
  <2> QED BY <2>1, <2>2, <2>4, <2>5
<1>8. TypeOK'
  BY <1>3, <1>4, <1>6, <1>7 DEF Mac, IInv, TypeOK
<1>9. ~done /\ ~done'
  BY Widths DEF Mac, IInv, TypeOK
<1>10. (macs' > 0 => adds' < Sums) /\ op' = "GEMM"
  BY DEF Mac
<1> QED BY <1>4, <1>6, <1>7, <1>8, <1>9, <1>10 DEF IInv, OutIsReference

LEMMA AddSumIInv == IInv /\ AddSum => IInv'
<1> SUFFICES ASSUME IInv, AddSum PROVE IInv'
  OBVIOUS
<1> DEFINE a == Signed(AccHalf, accum)
           x == a + exact
<1>1. macs > 0 /\ ~done /\ op = "GEMM" /\ adds < Sums
  BY Widths DEF AddSum, IInv, TypeOK
<1>2. a \in Int /\ exact \in Int /\ x \in Int
  BY Widths DEF IInv, TypeOK, Signed
<1>3. accum' = Bits(AccHalf, x) /\ ref = Wrap(AccHalf, x)
  BY Zenon DEF AddSum, AccumAddSum, IInv, SumIsExact
<1>4. accum' \in 0 .. 2 * AccHalf - 1 /\ Signed(AccHalf, accum') = ref /\ ref \in Range(AccHalf)
  <2> HIDE DEF x
  <2>1. accum' \in 0 .. 2 * AccHalf - 1 /\ ref \in Range(AccHalf)
    BY <1>2, <1>3, Widths, Ranges
  <2> QED BY <1>3, <2>1, Zenon DEF Wrap
<1>5. ref' = Wrap(AccHalf, Signed(AccHalf, accum') + exact')
  <2>1. ref' = ref /\ exact' = 0 /\ ref \in Int
    BY <1>4 DEF AddSum, Range
  <2>2. Signed(AccHalf, accum') + exact' = ref
    BY <1>4, <2>1
  <2>3. Wrap(AccHalf, ref) = ref
    BY <1>4, Widths, RoundTrip
  <2> QED BY <2>1, <2>2, <2>3
<1>6. macs' = 0 /\ sum' = 0 /\ exact' = 0 /\ op' = op /\ out' = out /\ done' = done /\ ref' = ref
  BY DEF AddSum
<1>7. SumIsExact' /\ -(macs' * Bound) <= exact' /\ exact' <= macs' * Bound
  <2>1. Bound \in Int
    BY Widths DEF Bound
  <2> QED BY <1>6, <2>1, Widths DEF SumIsExact, Signed
<1>8. TypeOK'
  <2>1. 0 \in 0 .. BlockIn /\ 0 \in 0 .. 2 * SumHalf - 1 /\ 0 \in Int
    BY Widths
  <2>2. adds' \in 0 .. Sums
    BY <1>1, Widths DEF AddSum, IInv, TypeOK
  <2>3. op \in {"GEMM"} \cup AluOpcodes /\ out \in 0 .. 2 * InpHalf - 1 /\ done \in BOOLEAN
    BY DEF IInv, TypeOK
  <2> QED BY <1>4, <1>6, <2>1, <2>2, <2>3, Zenon DEF TypeOK
<1>9. ~(macs' > 0)
  BY <1>6
<1> QED BY <1>1, <1>5, <1>6, <1>7, <1>8, <1>9 DEF IInv, OutIsReference

\* What Acc2Out makes of an accumulator that agrees with the reference.
LEMMA Stored ==
  ASSUME NEW b \in 0 .. 2 * AccHalf - 1, NEW r, Signed(AccHalf, b) = r
  PROVE  Acc2Out(b) \in 0 .. 2 * InpHalf - 1 /\ Signed(InpHalf, Acc2Out(b)) = Wrap(InpHalf, r)
<1>1. Divides(InpHalf, AccHalf) /\ b \in Int
  BY WidthsAssumption
<1>2. Signed(InpHalf, Bits(InpHalf, b)) = Wrap(InpHalf, r)
  BY <1>1, Widths, NarrowSigned
<1>3. Bits(InpHalf, b) \in 0 .. 2 * InpHalf - 1
  BY <1>1, Widths, Ranges
<1> QED BY <1>2, <1>3, Zenon DEF Acc2Out

\* With no product in the sum, the accumulator is the reference.
LEMMA AccumAgrees ==
  ASSUME IInv, macs = 0
  PROVE  Signed(AccHalf, accum) = ref
<1>1. Signed(AccHalf, accum) \in Range(AccHalf)
  BY Widths DEF IInv, TypeOK, Signed, Range
<1>2. exact = 0
  <2>1. Bound \in Int /\ exact \in Int
    BY Widths DEF Bound, IInv, TypeOK
  <2> QED BY <2>1 DEF IInv
<1>3. Signed(AccHalf, accum) + exact = Signed(AccHalf, accum)
  BY <1>1, <1>2 DEF Range
<1>4. Wrap(AccHalf, Signed(AccHalf, accum)) = Signed(AccHalf, accum)
  BY <1>1, Widths, RoundTrip
<1> QED BY <1>3, <1>4 DEF IInv

LEMMA WriteOutIInv == IInv /\ WriteOut => IInv'
<1> SUFFICES ASSUME IInv, WriteOut PROVE IInv'
  OBVIOUS
<1>1. macs = 0
  BY Widths DEF WriteOut, IInv, TypeOK
<1>2. /\ op' = op /\ macs' = macs /\ adds' = adds /\ sum' = sum /\ accum' = accum
      /\ exact' = exact /\ ref' = ref /\ done' = TRUE /\ out' = Acc2Out(accum)
      /\ adds = Sums /\ op = "GEMM"
  BY DEF WriteOut
<1>3. out' \in 0 .. 2 * InpHalf - 1 /\ OutIsReference'
  BY <1>1, <1>2, AccumAgrees, Stored DEF OutIsReference, IInv, TypeOK
<1>4. TypeOK'
  BY <1>2, <1>3 DEF IInv, TypeOK
<1> QED BY <1>1, <1>2, <1>3, <1>4 DEF IInv, SumIsExact

\* The second operand of a micro-op, from memory or from the immediate, is the
\* number the reference uses, extended to an accumulator element.
LEMMA Operands ==
  ASSUME NEW f \in AluOpcodes, NEW y, y \in AluInputs(f) \/ y \in AluImmediates(f)
  PROVE  /\ y \in Range(AccHalf) /\ (f = "SHR" => y \in Range(ShiftHalf))
         /\ y \in AluImmediates(f) => Imm2Acc(Bits(ImmHalf, y)) = Bits(AccHalf, y)
<1>1. /\ y \in AluInputs(f) => y \in Range(AccHalf) /\ (f = "SHR" => y \in Range(ShiftHalf))
      /\ y \in AluImmediates(f) =>
           y \in Range(AccHalf) /\ y \in Range(ImmHalf) /\ (f = "SHR" => y \in Range(ShiftHalf))
  <2>1. CASE f \in {"MIN", "MAX"}
    <3>1. AluInputs(f) = Range(InpHalf \div 2) /\ AluImmediates(f) = Range(ImmHalf \div 2) /\ f # "SHR"
      BY <2>1 DEF AluInputs, AluImmediates
    <3> QED BY <3>1, Widths, WidthsAssumption DEF Range
  <2>2. CASE f = "ADD"
    <3>1. AluInputs(f) = Range(InpHalf \div 4) /\ AluImmediates(f) = Range(ImmHalf \div 2) /\ f # "SHR"
      BY <2>2 DEF AluInputs, AluImmediates
    <3> QED BY <3>1, Widths, WidthsAssumption DEF Range
  <2>3. CASE f = "SHR"
    <3>1. AluInputs(f) = Range(ShiftHalf \div 2) /\ AluImmediates(f) = Range(ShiftHalf \div 2)
      BY <2>3 DEF AluInputs, AluImmediates
    <3> QED BY <3>1, Widths, WidthsAssumption DEF Range
  <2> QED BY <2>1, <2>2, <2>3, Zenon DEF AluOpcodes
<1>2. y \in AluImmediates(f) => Signed(ImmHalf, Bits(ImmHalf, y)) = y
  BY <1>1, Widths, RoundTrip
<1> QED BY <1>1, <1>2, Zenon DEF Imm2Acc

LEMMA AluIInv == IInv /\ Alu => IInv'
<1> SUFFICES ASSUME IInv, Alu PROVE IInv'
  OBVIOUS
<1>1. /\ op \in AluOpcodes /\ op # "GEMM" /\ op' = op /\ macs' = macs /\ adds' = adds
      /\ sum' = sum /\ exact' = exact /\ done' = TRUE /\ ~done
  BY DEF Alu, AluOpcodes
<1>2. macs = 0 /\ exact = 0
  BY <1>1 DEF IInv
<1>3. PICK y : /\ y \in AluInputs(op) \/ y \in AluImmediates(op)
               /\ AluWith(y, Bits(AccHalf, y))
  <2>1. CASE \E src \in AluInputs(op) : AluWith(src, Bits(AccHalf, src))
    BY <2>1, Zenon
  <2>2. CASE \E src \in AluImmediates(op) : AluWith(src, Imm2Acc(Bits(ImmHalf, src)))
    <3>1. PICK src \in AluImmediates(op) : AluWith(src, Imm2Acc(Bits(ImmHalf, src)))
      BY <2>2
    <3>2. Imm2Acc(Bits(ImmHalf, src)) = Bits(AccHalf, src)
      BY <1>1, <3>1, Operands, Zenon
    <3> QED BY <3>1, <3>2, Zenon
  <2> QED BY <2>1, <2>2, Zenon DEF Alu
<1> DEFINE b == Bits(AccHalf, y)
           c == AluFunction(op, accum, b)
<1>4. accum' = c /\ out' = Acc2Out(c) /\ ref' = AluReference(op, ref, y)
  BY <1>3, Zenon DEF AluWith
<1>5. ref \in Range(AccHalf) /\ accum = Bits(AccHalf, ref)
  <2>1. Signed(AccHalf, accum) = ref /\ accum \in 0 .. 2 * AccHalf - 1
    BY <1>2, AccumAgrees DEF IInv, TypeOK
  <2> QED BY <2>1, Widths DEF Signed, Bits, Range
<1>6. c \in 0 .. 2 * AccHalf - 1 /\ Signed(AccHalf, c) = ref'
  <2>1. y \in Range(AccHalf) /\ (op = "SHR" => y \in Range(ShiftHalf))
    BY <1>1, <1>3, Operands, Zenon
  <2>2. b = Bits(AccHalf, y)
    OBVIOUS
  <2> HIDE DEF b
  <2>3. /\ AluFunction(op, accum, b) \in 0 .. 2 * AccHalf - 1
        /\ Signed(AccHalf, AluFunction(op, accum, b)) = AluReference(op, ref, y)
    BY <1>1, <1>5, <2>1, <2>2, AluCorrect, Zenon
  <2> QED BY <1>4, <2>3, Zenon
<1> HIDE DEF b, c
<1>7. ref' \in Range(AccHalf)
  BY <1>6, Widths DEF Signed, Range
<1>8. ref' = Wrap(AccHalf, Signed(AccHalf, accum') + exact')
  <2>1. Signed(AccHalf, accum') + exact' = ref'
    BY <1>1, <1>2, <1>4, <1>6, <1>7 DEF Range
  <2>2. Wrap(AccHalf, ref') = ref'
    BY <1>7, Widths, RoundTrip
  <2> QED BY <2>1, <2>2
<1>9. out' \in 0 .. 2 * InpHalf - 1 /\ OutIsReference'
  <2>1. Acc2Out(c) \in 0 .. 2 * InpHalf - 1 /\ Signed(InpHalf, Acc2Out(c)) = Wrap(InpHalf, ref')
    BY <1>6, Stored
  <2> QED BY <1>4, <2>1 DEF OutIsReference
<1>10. TypeOK'
  BY <1>1, <1>4, <1>6, <1>7, <1>9 DEF IInv, TypeOK
<1> QED BY <1>1, <1>2, <1>8, <1>9, <1>10 DEF IInv, SumIsExact

LEMMA StutterIInv == IInv /\ UNCHANGED vars => IInv'
BY DEF IInv, TypeOK, SumIsExact, OutIsReference, vars

-----------------------------------------------------------------------------
(* The theorems                                                             *)

\* The inductive invariant holds of every behaviour: no register of the operator
\* functions leaves its range, and a GEMM's reference stays ahead of the
\* accumulator by exactly the products summed so far.
THEOREM Invariance == Spec => []IInv
<1>1. IInv /\ [Next]_vars => IInv'
  BY MacIInv, AddSumIInv, WriteOutIInv, AluIInv, StutterIInv DEF Next, Done
<1> QED BY InitIInv, <1>1, PTL DEF Spec

\* GemmMac never overflows its 21-bit sum, for any operands: the products of one
\* block fit.
THEOREM ExactSum == Spec => []SumIsExact
<1>1. IInv => SumIsExact
  BY DEF IInv
<1> QED BY Invariance, <1>1, PTL

\* AccumAddSum keeps the accumulator equal to the C reference's running sum, also
\* when both wrap around.
THEOREM AccumMatches == Spec => []AccumIsReference
<1>1. IInv => AccumIsReference
  BY AccumAgrees DEF AccumIsReference
<1> QED BY Invariance, <1>1, PTL

\* What Acc2Out and Accum2Out store is the reference narrowed to an output
\* element, after a GEMM and after AccMin, AccMax, AccAdd or AccShr.
THEOREM OutMatches == Spec => []OutIsReference
<1>1. IInv => OutIsReference
  BY DEF IInv
<1> QED BY Invariance, <1>1, PTL

-----------------------------------------------------------------------------
(* The log tools                                                            *)

\* The number of [ILA-INFO] lines of a test.
Infos(cs, t) == Len(Body(cs[t].op))

\* A sequence with three elements before it and one after it.
LEMMA Concatenation ==
  ASSUME NEW S, NEW b \in Seq(S), NEW d, NEW e, NEW f, NEW g
  PROVE  LET s == <<d, e, f>> \o b \o <<g>>
         IN  /\ Len(s) = Len(b) + 4 /\ DOMAIN s = 1 .. Len(b) + 4
             /\ s[1] = d /\ s[2] = e /\ s[Len(b) + 4] = g
             /\ s[3] = f
             /\ \A k \in 1 .. Len(b) : s[k + 3] = b[k]
  OBVIOUS

\* The information lines of a test: their number, and what they say of themselves.
LEMMA OwnInfoIs ==
  ASSUME NEW cs \in Calls, NEW t \in DOMAIN cs
  PROVE  /\ Infos(cs, t) \in Nat /\ DOMAIN OwnInfo(cs, t) = 1 .. Infos(cs, t)
         /\ \E S : OwnInfo(cs, t) \in Seq(S)
         /\ Len(OwnInfo(cs, t)) = Infos(cs, t)
         /\ \A k \in 1 .. Infos(cs, t) :
              /\ OwnInfo(cs, t)[k].kind = "info"
              /\ OwnInfo(cs, t)[k].test = t /\ OwnInfo(cs, t)[k].no = k
<1> DEFINE b == OwnInfo(cs, t)
           m == Infos(cs, t)
           S == {Info(t, n, Body(cs[t].op)[n]) : n \in 1 .. m}
<1>1. m \in Nat /\ DOMAIN Body(cs[t].op) = 1 .. m
  <2>1. CASE cs[t].op = "gemm"
    <3>1. Body(cs[t].op) = <<"input", "weight", "bias", "out", "uop", "instr">>
      BY <2>1 DEF Body
    <3>2. m = 6
      BY <3>1 DEF Infos
    <3> HIDE DEF m
    <3> QED BY <3>1, <3>2
  <2>2. CASE cs[t].op # "gemm"
    <3>1. Body(cs[t].op) = <<"bias", "out", "uop", "instr">>
      BY <2>2 DEF Body
    <3>2. m = 4
      BY <3>1 DEF Infos
    <3> HIDE DEF m
    <3> QED BY <3>1, <3>2
  <2> QED BY <2>1, <2>2
<1>2. \A k \in 1 .. m : b[k] = Info(t, k, Body(cs[t].op)[k])
  BY <1>1, Zenon DEF OwnInfo
<1>3. b \in [1 .. m -> S]
  <2> HIDE DEF m
  <2> QED BY <1>1, <1>2 DEF OwnInfo
<1>4. b \in Seq(S) /\ Len(b) = m
  <2> HIDE DEF m, S, b
  <2> QED BY <1>1, <1>3
<1>5. \A k \in 1 .. m : b[k].kind = "info" /\ b[k].test = t /\ b[k].no = k
  <2> HIDE DEF b
  <2> SUFFICES ASSUME NEW k \in 1 .. m PROVE b[k].kind = "info" /\ b[k].test = t /\ b[k].no = k
    OBVIOUS
  <2>1. b[k] = Info(t, k, Body(cs[t].op)[k])
    BY <1>2
  <2> QED BY <2>1 DEF Info
<1>6. DOMAIN b = 1 .. m
  BY <1>3
<1>7. \E T : b \in Seq(T)
  BY <1>4
<1> HIDE DEF b, S, m
<1> QED BY <1>1, <1>4, <1>5, <1>6, <1>7 DEF b, m

\* The lines a test prints: three, its information lines, and the verdict.
LEMMA LogOfTest ==
  ASSUME NEW cs \in Calls, NEW t \in DOMAIN cs
  PROVE  /\ TestLines(cs, t)[1].kind = "debug"
         /\ TestLines(cs, t)[2] = [kind |-> "start", name |-> Name(cs[t])]
         /\ TestLines(cs, t)[3].kind = "debug"
         /\ TestLines(cs, t)[Infos(cs, t) + 4].kind = IF cs[t].ok THEN "successful" ELSE "failed"
         /\ \A k \in 1 .. Infos(cs, t) : TestLines(cs, t)[k + 3] = OwnInfo(cs, t)[k]
<1> DEFINE b == OwnInfo(cs, t)
           m == Infos(cs, t)
           d == [kind |-> "debug"]
           e == [kind |-> "start", name |-> Name(cs[t])]
           g == [kind |-> IF cs[t].ok THEN "successful" ELSE "failed"]
           s == <<d, e, d>> \o b \o <<g>>
<1>1. m \in Nat /\ Len(b) = m
  BY OwnInfoIs
<1>2. PICK S : b \in Seq(S)
  BY OwnInfoIs
<1>3. s = TestLines(cs, t)
  BY DEF TestLines
<1>4. d.kind = "debug" /\ g.kind = IF cs[t].ok THEN "successful" ELSE "failed"
  OBVIOUS
<1> HIDE DEF d, e, g, b, m
<1>5. /\ s[1] = d /\ s[2] = e /\ s[Len(b) + 4] = g /\ s[3] = d
      /\ \A k \in 1 .. Len(b) : s[k + 3] = b[k]
  BY <1>2, Concatenation
<1> HIDE DEF s
<1>6. /\ s[1].kind = "debug" /\ s[2] = e /\ s[3].kind = "debug" /\ s[m + 4] = g
      /\ \A k \in 1 .. m : s[k + 3] = b[k]
  BY <1>1, <1>4, <1>5
<1> QED BY <1>3, <1>4, <1>6 DEF b, m, e, g

\* How many lines a test prints.
LEMMA TestLength ==
  ASSUME NEW cs \in Calls, NEW t \in DOMAIN cs
  PROVE  Infos(cs, t) \in Nat /\ Len(TestLines(cs, t)) = Infos(cs, t) + 4
<1> DEFINE b == OwnInfo(cs, t)
           d == [kind |-> "debug"]
           e == [kind |-> "start", name |-> Name(cs[t])]
           g == [kind |-> IF cs[t].ok THEN "successful" ELSE "failed"]
           s == <<d, e, d>> \o b \o <<g>>
<1>1. Infos(cs, t) \in Nat /\ Len(b) = Infos(cs, t)
  BY OwnInfoIs
<1>2. PICK S : b \in Seq(S)
  BY OwnInfoIs
<1>3. s = TestLines(cs, t)
  BY DEF TestLines
<1> HIDE DEF d, e, g, b
<1>4. Len(s) = Len(b) + 4
  BY <1>2, Concatenation
<1> QED BY <1>1, <1>3, <1>4

\* What the proofs use of a sequence of calls.
LEMMA CallsAre ==
  ASSUME NEW cs \in Calls
  PROVE  /\ Len(cs) \in Nat /\ DOMAIN cs = 1 .. Len(cs)
         /\ \A t \in DOMAIN cs : cs[t].ok \in BOOLEAN
<1> DEFINE R == [op : Ops, imm : BOOLEAN, comp : BOOLEAN, ok : BOOLEAN]
<1>1. \A r \in R : r.ok \in BOOLEAN
  OBVIOUS
<1>2. cs \in Seq(R)
  BY CallsAssumption
<1> HIDE DEF R
<1>3. Len(cs) \in Nat /\ DOMAIN cs = 1 .. Len(cs) /\ \A t \in DOMAIN cs : cs[t] \in R
  BY <1>2
<1> QED BY <1>1, <1>3

-----------------------------------------------------------------------------
(* The inductive invariant of the log tools                                 *)

\* What may be in a file, and in a fragment.
OwnLines == UNION {{OwnInfo(calls, t)[k] : k \in 1 .. Infos(calls, t)} : t \in DOMAIN calls}
Commands == {Command(n, l) : n \in Nat, l \in OwnLines}
Listed == {list[n] : n \in DOMAIN list}

\* extract_sim_log is past line n of test t.
Past(t, n) == t < test \/ (t = test /\ n < line)

CursorInv ==
  /\ calls \in Calls /\ test \in 1 .. Len(calls) + 1
  /\ IF Extracted THEN line = 1 ELSE line \in 1 .. Infos(calls, test) + 4

\* A header opens a log, or is passed over while a log is open; and only the
\* last log that was opened is open.
LogInv ==
  /\ list \in Seq({Name(calls[t]) : t \in DOMAIN calls}) /\ files \in [Listed -> Seq(OwnLines)]
  /\ ~Extracted /\ line > 2 => current # Closed
  /\ current # Closed => Len(list) > 0 /\ current = list[Len(list)]
  /\ \A n \in DOMAIN list : \E t \in DOMAIN calls : list[n] = Name(calls[t]) /\ Past(t, 2)
  /\ \A name \in Listed : \A m \in DOMAIN files[name] :
       Past(files[name][m].test, files[name][m].no + 3)

OrderInv ==
  Distinct(calls) =>
    /\ \A n, p \in DOMAIN list : list[n] = list[p] => n = p
    /\ \A t \in DOMAIN calls : \A k \in 1 .. Infos(calls, t) : Past(t, k + 3) => Kept(t, k)
    /\ InOrder

OneTestInv ==
  Successful(calls) =>
    /\ current # Closed =>
         /\ ~Extracted /\ line > 2
         /\ \A m \in DOMAIN files[current] : files[current][m].test = test
    /\ \A name \in Listed : \A m, q \in DOMAIN files[name] :
         files[name][m].test = files[name][q].test

\* What is generated from a file has the tests of lines of the file.
From(lines, name) ==
  \A n \in DOMAIN lines : \E m \in DOMAIN files[name] : lines[n].test = files[name][m].test

GenInv ==
  /\ gen \in Nat \ {0} /\ rd \in Nat
  /\ cmd_v \in Seq(Commands) /\ result_v \in Seq(OwnLines)
  /\ rd > 0 => Extracted /\ gen <= Len(list) /\ From(cmd_v, Entry) /\ From(result_v, Entry)
  /\ DOMAIN frag = DOMAIN refs /\ (Extracted \/ DOMAIN frag = {}) /\ DOMAIN frag \subseteq Listed
  /\ frag \in [DOMAIN frag -> Seq(Commands)] /\ refs \in [DOMAIN frag -> Seq(OwnLines)]
  /\ \A name \in DOMAIN frag : From(frag[name], name) /\ From(refs[name], name)

ToolsInv == CursorInv /\ LogInv /\ OrderInv /\ OneTestInv /\ GenInv

-----------------------------------------------------------------------------

\* It holds when nothing has been read.
LEMMA ToolsStart == ASSUME ToolsInit PROVE ToolsInv
<1> USE DEF ToolsInit
<1>1. Len(calls) \in Nat /\ DOMAIN calls = 1 .. Len(calls)
  BY CallsAre
<1>2. CursorInv
  <2>1. CASE Extracted
    BY <1>1, <2>1 DEF CursorInv
  <2>2. CASE ~Extracted
    <3>1. 1 \in DOMAIN calls
      BY <1>1, <2>2 DEF Extracted
    <3>2. Infos(calls, 1) \in Nat
      BY <3>1, TestLength
    <3> QED BY <1>1, <2>2, <3>2 DEF CursorInv
  <2> QED BY <2>1, <2>2
<1>3. Listed = {} /\ DOMAIN list = {} /\ list \in Seq({Name(calls[t]) : t \in DOMAIN calls})
  BY DEF Listed
<1>4. LogInv
  BY <1>3 DEF LogInv
<1>5. \A t \in DOMAIN calls : \A k \in 1 .. Infos(calls, t) : ~Past(t, k + 3)
  <2> SUFFICES ASSUME NEW t \in DOMAIN calls, NEW k \in 1 .. Infos(calls, t), Past(t, k + 3)
               PROVE  FALSE
    OBVIOUS
  <2>1. Infos(calls, t) \in Nat /\ t \in Nat \ {0}
    BY <1>1, TestLength
  <2> QED BY <2>1 DEF Past
<1>6. OrderInv
  BY <1>3, <1>5, Zenon DEF OrderInv, InOrder
<1>7. OneTestInv
  BY <1>3, Zenon DEF OneTestInv
<1>8. GenInv
  BY <1>3 DEF GenInv
<1> QED BY <1>2, <1>4, <1>6, <1>7, <1>8 DEF ToolsInv

\* Where the cursor is, by the kind of the next line.
LEMMA NextLine ==
  ASSUME CursorInv, ~Extracted
  PROVE  /\ test \in DOMAIN calls /\ test \in Nat /\ calls[test].ok \in BOOLEAN
         /\ Infos(calls, test) \in Nat /\ line \in 1 .. Infos(calls, test) + 4
         /\ Line.kind = "start" => line = 2
         /\ line = 2 => Line = [kind |-> "start", name |-> Name(calls[test])]
         /\ Line.kind = "info" => line - 3 \in 1 .. Infos(calls, test)
         /\ line - 3 \in 1 .. Infos(calls, test) =>
              /\ Line = OwnInfo(calls, test)[line - 3] /\ Line.kind = "info"
              /\ Line.test = test /\ Line.no = line - 3
         /\ Line.kind = "successful" => line = Infos(calls, test) + 4
         /\ line = Infos(calls, test) + 4 =>
              Line.kind = IF calls[test].ok THEN "successful" ELSE "failed"
<1> DEFINE m == Infos(calls, test)
<1>1. /\ Len(calls) \in Nat /\ DOMAIN calls = 1 .. Len(calls)
      /\ \A t \in DOMAIN calls : calls[t].ok \in BOOLEAN
  BY CallsAre DEF CursorInv
<1>2. test \in DOMAIN calls /\ test \in Nat /\ calls[test].ok \in BOOLEAN
  <2>1. test \in 1 .. Len(calls) + 1 /\ ~(test > Len(calls))
    BY DEF CursorInv, Extracted
  <2> QED BY <1>1, <2>1
<1>3. calls \in Calls /\ line \in 1 .. m + 4
  BY DEF CursorInv
<1>4. /\ m \in Nat
      /\ TestLines(calls, test)[1].kind = "debug"
      /\ TestLines(calls, test)[2] = [kind |-> "start", name |-> Name(calls[test])]
      /\ TestLines(calls, test)[3].kind = "debug"
      /\ TestLines(calls, test)[m + 4].kind =
           IF calls[test].ok THEN "successful" ELSE "failed"
      /\ \A k \in 1 .. m :
           /\ TestLines(calls, test)[k + 3] = OwnInfo(calls, test)[k]
           /\ OwnInfo(calls, test)[k].kind = "info"
           /\ OwnInfo(calls, test)[k].test = test /\ OwnInfo(calls, test)[k].no = k
  <2>1. /\ TestLines(calls, test)[1].kind = "debug"
        /\ TestLines(calls, test)[2] = [kind |-> "start", name |-> Name(calls[test])]
        /\ TestLines(calls, test)[3].kind = "debug"
    BY <1>2, <1>3, LogOfTest, Zenon
  <2>2. TestLines(calls, test)[Infos(calls, test) + 4].kind =
          IF calls[test].ok THEN "successful" ELSE "failed"
    BY <1>2, <1>3, LogOfTest, Zenon
  <2>3. \A k \in 1 .. Infos(calls, test) : TestLines(calls, test)[k + 3] = OwnInfo(calls, test)[k]
    BY <1>2, <1>3, LogOfTest, Zenon
  <2>4. /\ Infos(calls, test) \in Nat
        /\ \A k \in 1 .. Infos(calls, test) :
             /\ OwnInfo(calls, test)[k].kind = "info"
             /\ OwnInfo(calls, test)[k].test = test /\ OwnInfo(calls, test)[k].no = k
    BY <1>2, <1>3, OwnInfoIs, Zenon
  <2> HIDE DEF m
  <2> QED BY <2>1, <2>2, <2>3, <2>4 DEF m
<1> HIDE DEF m
<1>5. CASE line \in {1, 2, 3}
  <2>1. Line.kind # "info" /\ Line.kind # "successful" /\ line # m + 4 /\ line - 3 \notin 1 .. m
    BY <1>4, <1>5 DEF Line
  <2>2. Line.kind = "start" => line = 2
    BY <1>4, <1>5 DEF Line
  <2>3. line = 2 => Line = [kind |-> "start", name |-> Name(calls[test])]
    BY <1>4 DEF Line
  <2> QED BY <1>2, <1>3, <1>4, <2>1, <2>2, <2>3 DEF m
<1>6. CASE line - 3 \in 1 .. m
  <2>1. line = (line - 3) + 3 /\ line # 2 /\ line # m + 4
    BY <1>3, <1>4, <1>6
  <2>2. Line = OwnInfo(calls, test)[line - 3]
    BY <1>4, <1>6, <2>1 DEF Line
  <2> QED BY <1>2, <1>3, <1>4, <1>6, <2>1, <2>2 DEF m
<1>7. CASE line = m + 4
  <2>1. Line.kind = IF calls[test].ok THEN "successful" ELSE "failed"
    BY <1>4, <1>7 DEF Line
  <2>2. line # 2 /\ line - 3 \notin 1 .. m
    BY <1>4, <1>7
  <2> QED BY <1>2, <1>3, <1>4, <1>7, <2>1, <2>2 DEF m
<1> QED BY <1>3, <1>4, <1>5, <1>6, <1>7

\* Reading takes the cursor past the next line and no other.
LEMMA ReadLine ==
  ASSUME CursorInv, Read, calls' = calls
  PROVE  /\ CursorInv' /\ ~Extracted
         /\ \A t \in Nat, n \in Nat : Past(t, n) => Past(t, n)'
         /\ \A t, n : t = test /\ n = line => Past(t, n)'
         /\ \A t \in DOMAIN calls : \A n \in 1 .. Infos(calls, t) + 4 :
              Past(t, n)' => Past(t, n) \/ (t = test /\ n = line)
         /\ \/ test' = test /\ line' = line + 1 /\ line < Infos(calls, test) + 4 /\ ~Extracted'
            \/ line' = 1 /\ line = Infos(calls, test) + 4
<1> DEFINE m == Infos(calls, test)
<1>1. ~Extracted
  BY DEF Read
<1>2. test \in DOMAIN calls /\ test \in Nat /\ m \in Nat /\ line \in 1 .. m + 4
  BY <1>1, NextLine
<1>3. calls \in Calls /\ test \in 1 .. Len(calls) + 1 /\ test <= Len(calls)
  BY <1>1 DEF CursorInv, Extracted
<1>4. Len(calls) \in Nat /\ DOMAIN calls = 1 .. Len(calls)
  BY <1>3, CallsAre
<1>5. Len(TestLines(calls, test)) = m + 4
  BY <1>2, <1>3, TestLength
<1>6. \A t \in DOMAIN calls : Infos(calls, t) \in Nat
  BY <1>3, TestLength
<1>7. /\ CursorInv' <=>
           /\ calls \in Calls /\ test' \in 1 .. Len(calls) + 1
           /\ test' > Len(calls) => line' = 1
           /\ ~(test' > Len(calls)) => line' \in 1 .. Infos(calls, test') + 4
      /\ Extracted' <=> test' > Len(calls)
      /\ \A t, n : Past(t, n)' <=> t < test' \/ (t = test' /\ n < line')
  BY DEF CursorInv, Infos, Extracted, Past
<1>8. CASE line < m + 4
  <2>1. test' = test /\ line' = line + 1
    BY <1>5, <1>8 DEF Read
  <2> HIDE DEF m
  <2>2. ~(test' > Len(calls)) /\ line' \in 1 .. m + 4
    BY <1>2, <1>3, <1>4, <1>8, <2>1
  <2>3. CursorInv' /\ ~Extracted'
    BY <1>3, <1>4, <1>7, <2>1, <2>2 DEF m
  <2>4. \A t \in Nat, n \in Nat : Past(t, n) => Past(t, n)'
    BY <1>2, <1>7, <2>1 DEF Past
  <2>5. \A t, n : t = test /\ n = line => Past(t, n)'
    BY <1>2, <1>7, <2>1
  <2>6. \A t \in DOMAIN calls : \A n \in 1 .. Infos(calls, t) + 4 :
          Past(t, n)' => Past(t, n) \/ (t = test /\ n = line)
    BY <1>2, <1>4, <1>6, <1>7, <2>1 DEF Past
  <2> QED BY <1>1, <1>8, <2>1, <2>3, <2>4, <2>5, <2>6, Zenon DEF m
<1>9. CASE line = m + 4
  <2>1. test' = test + 1 /\ line' = 1
    BY <1>5, <1>9, <1>2 DEF Read
  <2>2. CursorInv'
    <3>1. test' \in 1 .. Len(calls) + 1
      BY <1>3, <1>4, <2>1
    <3>2. ASSUME ~(test' > Len(calls)) PROVE 1 \in 1 .. Infos(calls, test') + 4
      <4>1. test' \in DOMAIN calls
        BY <1>4, <3>1, <3>2
      <4>2. Infos(calls, test') \in Nat
        BY <1>6, <4>1
      <4> QED BY <4>2
    <3> QED BY <1>3, <1>7, <2>1, <3>1, <3>2
  <2>3. \A t \in DOMAIN calls : \A n \in 1 .. Infos(calls, t) + 4 :
          Past(t, n)' => Past(t, n) \/ (t = test /\ n = line)
    <3> SUFFICES ASSUME NEW t \in DOMAIN calls, NEW n \in 1 .. Infos(calls, t) + 4, Past(t, n)'
                 PROVE  Past(t, n) \/ (t = test /\ n = line)
      OBVIOUS
    <3>1. Infos(calls, t) \in Nat /\ t \in Nat
      BY <1>4, <1>6
    <3>2. t < test + 1
      BY <1>7, <2>1, <3>1, <1>2
    <3>3. CASE t = test
      BY <1>2, <1>9, <3>1, <3>3 DEF Past
    <3>4. CASE t < test
      BY <3>4 DEF Past
    <3> QED BY <1>2, <3>1, <3>2, <3>3, <3>4
  <2> HIDE DEF m
  <2>4. /\ \A t \in Nat, n \in Nat : Past(t, n) => Past(t, n)'
        /\ \A t, n : t = test /\ n = line => Past(t, n)'
    BY <1>2, <1>7, <2>1 DEF Past
  <2> QED BY <1>1, <1>9, <2>1, <2>2, <2>3, <2>4 DEF m
<1> QED BY <1>2, <1>8, <1>9

-----------------------------------------------------------------------------
(* extract_sim_log                                                          *)

\* The lines of the log are those of the calls.
LEMMA SameLines ==
  ASSUME calls' = calls
  PROVE  /\ OwnLines' = OwnLines /\ Commands' = Commands
         /\ \A t : Infos(calls, t)' = Infos(calls, t)
         /\ \A t : OwnInfo(calls, t)' = OwnInfo(calls, t)
         /\ Distinct(calls)' = Distinct(calls) /\ Successful(calls)' = Successful(calls)
  BY DEF OwnLines, Commands, Infos, OwnInfo, Distinct, Successful, Name, Command

\* Nothing is generated before the whole log is extracted.
LEMMA NotGenerating ==
  ASSUME GenInv, ~Extracted, calls' = calls, UNCHANGED generation
  PROVE  GenInv'
<1>1. rd = 0 /\ DOMAIN frag = {}
  BY DEF GenInv
<1>2. Commands' = Commands /\ OwnLines' = OwnLines
  BY SameLines
<1> QED BY <1>1, <1>2 DEF GenInv, generation

\* What is in a file is a line of a test.
LEMMA InFile ==
  ASSUME CursorInv, LogInv, NEW name \in Listed, NEW m \in DOMAIN files[name]
  PROVE  /\ files[name] \in Seq(OwnLines) /\ files[name][m] \in OwnLines
         /\ \E t \in DOMAIN calls : \E k \in 1 .. Infos(calls, t) :
              files[name][m] = OwnInfo(calls, t)[k]
         /\ files[name][m].test \in Nat /\ files[name][m].no \in Nat /\ files[name][m].no + 3 \in Nat
<1>1. files[name] \in Seq(OwnLines) /\ files[name][m] \in OwnLines
  BY DEF LogInv
<1>2. PICK t \in DOMAIN calls : \E k \in 1 .. Infos(calls, t) : files[name][m] = OwnInfo(calls, t)[k]
  BY <1>1 DEF OwnLines
<1>3. PICK k \in 1 .. Infos(calls, t) : files[name][m] = OwnInfo(calls, t)[k]
  BY <1>2
<1>4. calls \in Calls
  BY DEF CursorInv
<1>5. OwnInfo(calls, t)[k].test = t /\ OwnInfo(calls, t)[k].no = k /\ Infos(calls, t) \in Nat
  BY <1>4, OwnInfoIs
<1>6. t \in Nat
  BY <1>4, CallsAre
<1> QED BY <1>1, <1>3, <1>5, <1>6

\* Lines that are not kept: the header of a test while a log is open, what is
\* neither, and the verdict.
LEMMA LineNotKept ==
  ASSUME ToolsInv, Read, UNCHANGED <<calls, files, list, generation>>,
         line - 3 \notin 1 .. Infos(calls, test),
         current' \in {current, Closed},
         ~Extracted' /\ line' > 2 => current' # Closed,
         Successful(calls) /\ current' # Closed => ~Extracted' /\ line' > 2 /\ test' = test
  PROVE  ToolsInv'
<1> USE DEF ToolsInv
<1>1. /\ CursorInv' /\ ~Extracted
      /\ \A t \in Nat, n \in Nat : Past(t, n) => Past(t, n)'
      /\ \A t \in DOMAIN calls : \A n \in 1 .. Infos(calls, t) + 4 :
           Past(t, n)' => Past(t, n) \/ (t = test /\ n = line)
  BY ReadLine
<1>2. calls \in Calls /\ DOMAIN calls \subseteq Nat /\ \A t \in DOMAIN calls : Infos(calls, t) \in Nat
  <2>1. calls \in Calls
    BY DEF CursorInv
  <2> QED BY <2>1, CallsAre, TestLength
<1>3. GenInv'
  BY <1>1, NotGenerating
<1>4. /\ OwnLines' = OwnLines /\ \A t : Infos(calls, t)' = Infos(calls, t)
      /\ \A t : OwnInfo(calls, t)' = OwnInfo(calls, t)
      /\ Distinct(calls)' = Distinct(calls) /\ Successful(calls)' = Successful(calls)
  BY SameLines
<1>5. LogInv'
  <2>1. \A n \in DOMAIN list : \E t \in DOMAIN calls : list[n] = Name(calls[t]) /\ Past(t, 2)'
    BY <1>1, <1>2 DEF LogInv
  <2>2. \A name \in Listed : \A m \in DOMAIN files[name] :
          Past(files[name][m].test, files[name][m].no + 3)'
    <3> SUFFICES ASSUME NEW name \in Listed, NEW m \in DOMAIN files[name]
                 PROVE  Past(files[name][m].test, files[name][m].no + 3)'
      BY DEF LogInv
    <3>1. Past(files[name][m].test, files[name][m].no + 3)
      BY DEF LogInv
    <3>2. files[name][m].test \in Nat /\ files[name][m].no + 3 \in Nat
      BY InFile
    <3> QED BY <1>1, <3>1, <3>2
  <2> QED BY <1>4, <2>1, <2>2 DEF LogInv, Listed
<1>6. OrderInv'
  <2> SUFFICES ASSUME Distinct(calls)
               PROVE  /\ \A n, p \in DOMAIN list : list[n] = list[p] => n = p
                      /\ \A t \in DOMAIN calls : \A k \in 1 .. Infos(calls, t) :
                           Past(t, k + 3)' => Kept(t, k)
                      /\ InOrder
    BY <1>4 DEF OrderInv, Kept, InOrder, At, Earlier
  <2> SUFFICES ASSUME NEW t \in DOMAIN calls, NEW k \in 1 .. Infos(calls, t), Past(t, k + 3)'
               PROVE  Kept(t, k)
    BY DEF OrderInv
  <2>1. k + 3 \in 1 .. Infos(calls, t) + 4
    BY <1>2
  <2>2. ~(t = test /\ k + 3 = line)
    BY <1>2
  <2>3. Past(t, k + 3)
    BY <1>1, <2>1, <2>2
  <2> QED BY <2>3 DEF OrderInv
<1>7. OneTestInv'
  BY <1>4 DEF OneTestInv, Listed
<1> QED BY <1>1, <1>3, <1>5, <1>6, <1>7

\* A file is created empty, or emptied.
LEMMA WithIs ==
  ASSUME NEW dir, NEW name, NEW lines
  PROVE  /\ DOMAIN With(dir, name, lines) = DOMAIN dir \cup {name}
         /\ With(dir, name, lines)[name] = lines
         /\ \A f \in DOMAIN dir : f # name => With(dir, name, lines)[f] = dir[f]
  BY DEF With

\* No test has the name of no test.
LEMMA NamesAreOpen == \A call : Name(call) # Closed
<1> SUFFICES ASSUME NEW call PROVE Name(call) # Closed
  OBVIOUS
<1>1. Len(Name(call)) = 2
  BY DEF Name
<1>2. Len(Closed) = 0
  BY DEF Closed
<1> QED BY <1>1, <1>2

\* The header of a test, when no log is open.  If no two tests have the same
\* name, the file is a new one.
LEMMA HeaderOpens ==
  ASSUME ToolsInv, OpenLog
  PROVE  ToolsInv'
<1> USE DEF ToolsInv
<1> DEFINE name == Name(calls[test])
<1>1. Read /\ calls' = calls /\ UNCHANGED generation /\ current = Closed /\ Line.kind = "start"
  BY DEF OpenLog
<1>2. ~Extracted
  BY <1>1 DEF Read
<1>3. /\ test \in DOMAIN calls /\ test \in Nat /\ line = 2 /\ Infos(calls, test) \in Nat
      /\ Line = [kind |-> "start", name |-> name]
  BY <1>1, <1>2, NextLine
<1>4. current' = name /\ list' = Append(list, name) /\ files' = With(files, name, <<>>)
  BY <1>3 DEF OpenLog
<1>5. /\ CursorInv'
      /\ \A t \in Nat, n \in Nat : Past(t, n) => Past(t, n)'
      /\ \A t \in DOMAIN calls : \A n \in 1 .. Infos(calls, t) + 4 :
           Past(t, n)' => Past(t, n) \/ (t = test /\ n = line)
      /\ \A t, n : t = test /\ n = line => Past(t, n)'
      /\ test' = test /\ line' = 3 /\ ~Extracted'
  BY <1>1, <1>3, ReadLine
<1>6. calls \in Calls /\ DOMAIN calls \subseteq Nat /\ \A t \in DOMAIN calls : Infos(calls, t) \in Nat
  <2>1. calls \in Calls
    BY DEF CursorInv
  <2> QED BY <2>1, CallsAre, TestLength
<1>7. GenInv'
  BY <1>1, <1>2, NotGenerating
<1>8. /\ OwnLines' = OwnLines /\ \A t : Infos(calls, t)' = Infos(calls, t)
      /\ \A t : OwnInfo(calls, t)' = OwnInfo(calls, t)
      /\ Distinct(calls)' = Distinct(calls) /\ Successful(calls)' = Successful(calls)
  BY <1>1, SameLines
<1> DEFINE Names == {Name(calls[t]) : t \in DOMAIN calls}
<1>9. name \in Names /\ name # Closed
  BY <1>3, NamesAreOpen
<1>10. list \in Seq(Names) /\ Len(list) \in Nat /\ DOMAIN list = 1 .. Len(list)
  BY DEF LogInv
<1> HIDE DEF Names
<1>11. /\ list' \in Seq(Names) /\ Len(list') = Len(list) + 1
       /\ DOMAIN list' = DOMAIN list \cup {Len(list')} /\ Len(list') \notin DOMAIN list
       /\ \A n \in DOMAIN list : list'[n] = list[n]
       /\ list'[Len(list')] = name
  BY <1>4, <1>9, <1>10
<1>12. Listed' = Listed \cup {name}
  BY <1>11 DEF Listed
<1>13. /\ DOMAIN files = Listed /\ files'[name] = <<>> /\ DOMAIN files' = Listed'
       /\ \A f \in Listed : f # name => files'[f] = files[f]
  <2>1. DOMAIN files = Listed
    BY DEF LogInv
  <2>2. /\ DOMAIN With(files, name, <<>>) = DOMAIN files \cup {name}
        /\ With(files, name, <<>>)[name] = <<>>
        /\ \A f \in DOMAIN files : f # name => With(files, name, <<>>)[f] = files[f]
    BY DEF With
  <2> QED BY <1>4, <1>12, <2>1, <2>2, Zenon
<1>14. files' \in [Listed' -> Seq(OwnLines)]
  <2>1. \A f \in Listed' : files'[f] \in Seq(OwnLines)
    <3> SUFFICES ASSUME NEW f \in Listed' PROVE files'[f] \in Seq(OwnLines)
      OBVIOUS
    <3>1. CASE f = name
      <4>1. <<>> \in Seq(OwnLines)
        OBVIOUS
      <4> QED BY <1>13, <3>1, <4>1, Zenon
    <3>2. CASE f # name
      BY <1>12, <1>13, <3>2 DEF LogInv
    <3> QED BY <3>1, <3>2
  <2>2. files' = [f \in Listed' |-> files'[f]]
    BY <1>4, <1>13 DEF With
  <2> QED BY <2>1, <2>2
<1>15. LogInv'
  <2>1. \A n \in DOMAIN list' : \E t \in DOMAIN calls : list'[n] = Name(calls[t]) /\ Past(t, 2)'
    <3> SUFFICES ASSUME NEW n \in DOMAIN list'
                 PROVE  \E t \in DOMAIN calls : list'[n] = Name(calls[t]) /\ Past(t, 2)'
      OBVIOUS
    <3>1. CASE n \in DOMAIN list
      <4>1. PICK t \in DOMAIN calls : list[n] = Name(calls[t]) /\ Past(t, 2)
        BY <3>1 DEF LogInv
      <4> QED BY <1>5, <1>6, <1>11, <3>1, <4>1
    <3>2. CASE n = Len(list')
      BY <1>3, <1>5, <1>11, <3>2
    <3> QED BY <1>11, <3>1, <3>2
  <2>2. \A f \in Listed' : \A m \in DOMAIN files'[f] :
          Past(files[f][m].test, files[f][m].no + 3)'
    <3> SUFFICES ASSUME NEW f \in Listed', NEW m \in DOMAIN files'[f]
                 PROVE  Past(files[f][m].test, files[f][m].no + 3)'
      OBVIOUS
    <3>1. f # name
      BY <1>13
    <3>2. f \in Listed /\ files'[f] = files[f]
      BY <1>12, <1>13, <3>1
    <3>3. Past(files[f][m].test, files[f][m].no + 3)
      BY <3>2 DEF LogInv
    <3>4. files[f][m].test \in Nat /\ files[f][m].no + 3 \in Nat
      BY <3>2, InFile
    <3>5. PICK x \in Nat, y \in Nat : x = files[f][m].test /\ y = files[f][m].no + 3
      BY <3>4
    <3>6. Past(x, y)'
      BY <1>5, <3>3, <3>5
    <3> QED BY <3>2, <3>5, <3>6
  <2>3. Len(list') > 0
    BY <1>10, <1>11
  <2>4. list' \in Seq({Name(calls[t]) : t \in DOMAIN calls})'
    BY <1>1, <1>11 DEF Names
  <2>5. current' # Closed /\ current' = list'[Len(list')]
    BY <1>4, <1>9, <1>11
  <2>6. \A n \in DOMAIN list' : \E t \in DOMAIN calls' : list'[n] = Name(calls'[t]) /\ Past(t, 2)'
    BY <1>1, <2>1
  <2> HIDE DEF ToolsInv
  <2> QED BY <1>8, <1>14, <2>2, <2>3, <2>4, <2>5, <2>6 DEF LogInv
<1>16. OrderInv'
  <2> SUFFICES ASSUME Distinct(calls) PROVE OrderInv'
    BY <1>8 DEF OrderInv
  <2>1. name \notin Listed
    <3> SUFFICES ASSUME NEW n \in DOMAIN list, list[n] = name PROVE FALSE
      BY DEF Listed
    <3>1. PICK t \in DOMAIN calls : list[n] = Name(calls[t]) /\ Past(t, 2)
      BY DEF LogInv
    <3>2. t = test
      BY <1>3, <3>1 DEF Distinct
    <3> QED BY <1>3, <3>1, <3>2 DEF Past
  <2>2. \A n \in DOMAIN list : list[n] \in Listed /\ list'[n] = list[n] /\ files'[list[n]] = files[list[n]]
    BY <1>11, <1>13, <2>1 DEF Listed
  <2>3. \A n \in DOMAIN list' : n \notin DOMAIN list => n = Len(list') /\ files'[list'[n]] = <<>>
    BY <1>11, <1>13
  <2>4. \A n, p \in DOMAIN list' : list'[n] = list'[p] => n = p
    BY <1>11, <2>1, <2>2 DEF OrderInv
  <2>5. \A n \in DOMAIN list' : \A m : m \in DOMAIN files'[list'[n]] =>
          n \in DOMAIN list /\ m \in DOMAIN files[list[n]] /\ At(n, m)' = At(n, m)
    BY <2>2, <2>3 DEF At
  <2>6. InOrder'
    BY <2>5 DEF InOrder, Earlier, OrderInv
  <2>7. \A t \in DOMAIN calls : \A k \in 1 .. Infos(calls, t) : Past(t, k + 3)' => Kept(t, k)'
    <3> SUFFICES ASSUME NEW t \in DOMAIN calls, NEW k \in 1 .. Infos(calls, t), Past(t, k + 3)'
                 PROVE  Kept(t, k)'
      OBVIOUS
    <3>1. k + 3 \in 1 .. Infos(calls, t) + 4 /\ k + 3 # line
      BY <1>3, <1>6
    <3>2. Kept(t, k)
      BY <1>5, <3>1 DEF OrderInv
    <3>3. PICK n \in DOMAIN list : \E m \in DOMAIN files[list[n]] : At(n, m) = OwnInfo(calls, t)[k]
      BY <3>2 DEF Kept
    <3>4. PICK m \in DOMAIN files[list[n]] : At(n, m) = OwnInfo(calls, t)[k]
      BY <3>3
    <3>5. n \in DOMAIN list' /\ m \in DOMAIN files'[list'[n]] /\ At(n, m)' = OwnInfo(calls', t)[k]
      BY <1>1, <1>11, <2>2, <3>4 DEF At
    <3> QED BY <3>5 DEF Kept
  <2> QED BY <1>1, <1>8, <2>4, <2>6, <2>7 DEF OrderInv
<1>17. OneTestInv'
  <2> SUFFICES ASSUME Successful(calls) PROVE OneTestInv'
    BY <1>8 DEF OneTestInv
  <2>1. \A f \in Listed' : \A m, q \in DOMAIN files'[f] : files'[f][m].test = files'[f][q].test
    <3> SUFFICES ASSUME NEW f \in Listed', NEW m \in DOMAIN files'[f], NEW q \in DOMAIN files'[f]
                 PROVE  files'[f][m].test = files'[f][q].test
      OBVIOUS
    <3>1. f # name
      BY <1>13
    <3>2. f \in Listed /\ files'[f] = files[f]
      BY <1>12, <1>13, <3>1
    <3> QED BY <3>2 DEF OneTestInv
  <2>2. \A m \in DOMAIN files'[current'] : files'[current'][m].test = test'
    BY <1>4, <1>13
  <2> QED BY <1>5, <2>1, <2>2 DEF OneTestInv
<1> QED BY <1>5, <1>7, <1>15, <1>16, <1>17

\* An information line, when a log is open: it comes last of all the lines so far.
LEMMA InfoKept ==
  ASSUME ToolsInv, CopyLine, Line.kind = "info"
  PROVE  ToolsInv'
<1> USE DEF ToolsInv
<1> DEFINE no == line - 3
           last == Len(list)
           len == Len(files[current])
<1>1. Read /\ calls' = calls /\ UNCHANGED <<current, list, generation>> /\ current # Closed
  BY DEF CopyLine
<1>2. ~Extracted
  BY <1>1 DEF Read
<1>3. /\ test \in DOMAIN calls /\ test \in Nat /\ line \in Nat
      /\ no \in 1 .. Infos(calls, test) /\ Infos(calls, test) \in Nat
      /\ Line = OwnInfo(calls, test)[no] /\ Line.test = test /\ Line.no = no
  BY <1>2, NextLine
<1>4. files' = [files EXCEPT ![current] = Append(files[current], Line)]
  BY DEF CopyLine
<1>5. /\ CursorInv'
      /\ \A t \in Nat, n \in Nat : Past(t, n) => Past(t, n)'
      /\ \A t \in DOMAIN calls : \A n \in 1 .. Infos(calls, t) + 4 :
           Past(t, n)' => Past(t, n) \/ (t = test /\ n = line)
      /\ \A t, n : t = test /\ n = line => Past(t, n)'
      /\ test' = test /\ line' = line + 1 /\ ~Extracted'
  BY <1>1, <1>3, ReadLine
<1>6. calls \in Calls /\ DOMAIN calls \subseteq Nat /\ \A t \in DOMAIN calls : Infos(calls, t) \in Nat
  <2>1. calls \in Calls
    BY DEF CursorInv
  <2> QED BY <2>1, CallsAre, TestLength
<1>7. GenInv'
  BY <1>1, <1>2, NotGenerating
<1>8. /\ OwnLines' = OwnLines /\ \A t : Infos(calls, t)' = Infos(calls, t)
      /\ \A t : OwnInfo(calls, t)' = OwnInfo(calls, t)
      /\ Distinct(calls)' = Distinct(calls) /\ Successful(calls)' = Successful(calls)
  BY <1>1, SameLines
<1>9. last \in DOMAIN list /\ last \in Nat /\ current = list[last] /\ DOMAIN list = 1 .. last
  BY <1>1 DEF LogInv
<1>10. current \in Listed /\ Listed' = Listed
  BY <1>1, <1>9 DEF Listed
<1>11. Line \in OwnLines
  BY <1>3 DEF OwnLines
<1>12. /\ files \in [Listed -> Seq(OwnLines)] /\ len \in Nat
       /\ DOMAIN files[current] = 1 .. len
  <2>1. files \in [Listed -> Seq(OwnLines)]
    BY DEF LogInv
  <2> QED BY <1>10, <2>1
<1> HIDE DEF last, no
<1>13. /\ \A f \in Listed : f # current => files'[f] = files[f]
       /\ DOMAIN files'[current] = 1 .. len + 1
       /\ \A m \in 1 .. len : files'[current][m] = files[current][m]
       /\ files'[current][len + 1] = Line
       /\ files' \in [Listed -> Seq(OwnLines)]
  BY <1>4, <1>10, <1>11, <1>12
<1> HIDE DEF len
<1>14. \A f \in Listed : \A m : m \in DOMAIN files'[f] =>
         \/ m \in DOMAIN files[f] /\ files'[f][m] = files[f][m] /\ ~(f = current /\ m = len + 1)
         \/ f = current /\ m = len + 1 /\ files'[f][m] = Line
  BY <1>12, <1>13
<1>15. \A f \in Listed : \A m \in DOMAIN files[f] : m \in DOMAIN files'[f] /\ files'[f][m] = files[f][m]
  <2> SUFFICES ASSUME NEW f \in Listed, NEW m \in DOMAIN files[f]
               PROVE  m \in DOMAIN files'[f] /\ files'[f][m] = files[f][m]
    OBVIOUS
  <2>1. CASE f = current
    BY <1>12, <1>13, <2>1
  <2>2. CASE f # current
    BY <1>13, <2>2
  <2> QED BY <2>1, <2>2
<1>16. LogInv'
  <2>1. (\A n \in DOMAIN list : \E t \in DOMAIN calls : list[n] = Name(calls[t]) /\ Past(t, 2))'
    BY <1>1, <1>5, <1>6 DEF LogInv
  <2>2. (\A f \in Listed : \A m \in DOMAIN files[f] :
           Past(files[f][m].test, files[f][m].no + 3))'
    <3> SUFFICES ASSUME NEW f \in Listed, NEW m \in DOMAIN files'[f]
                 PROVE  Past(files[f][m].test, files[f][m].no + 3)'
      BY <1>10
    <3>1. CASE m \in DOMAIN files[f] /\ files'[f][m] = files[f][m]
      <4>1. Past(files[f][m].test, files[f][m].no + 3)
        BY <3>1 DEF LogInv
      <4>2. PICK x \in Nat, y \in Nat : x = files[f][m].test /\ y = files[f][m].no + 3
        BY <3>1, InFile
      <4>3. Past(x, y)'
        BY <1>5, <4>1, <4>2
      <4> QED BY <3>1, <4>2, <4>3
    <3>2. CASE files'[f][m] = Line
      <4>1. PICK x, y : x = test /\ y = line
        OBVIOUS
      <4>2. Past(x, y)'
        BY <1>5, <4>1
      <4>3. no + 3 = line
        BY <1>3 DEF no
      <4> QED BY <1>3, <3>2, <4>1, <4>2, <4>3
    <3> QED BY <1>14, <3>1, <3>2
  <2> HIDE DEF ToolsInv
  <2>3. (~Extracted /\ line > 2 => current # Closed)' /\ current' = list'[Len(list')] /\ Len(list') > 0
    BY <1>1, <1>9 DEF last
  <2>4. list' \in Seq({Name(calls[t]) : t \in DOMAIN calls})'
    <3>1. list \in Seq({Name(calls[t]) : t \in DOMAIN calls})
      BY DEF LogInv, ToolsInv
    <3> QED BY <1>1, <3>1
  <2> QED BY <1>8, <1>10, <1>13, <2>1, <2>2, <2>3, <2>4 DEF LogInv
<1>17. OrderInv'
  <2> SUFFICES ASSUME Distinct(calls) PROVE OrderInv'
    BY <1>8 DEF OrderInv
  <2>1. \A n, p \in DOMAIN list : list[n] = list[p] => n = p
    BY DEF OrderInv
  <2>2. \A n \in DOMAIN list : list[n] \in Listed /\ (list[n] = current <=> n = last)
    BY <1>9, <2>1 DEF Listed
  <2>3. \A n \in DOMAIN list : \A m : m \in DOMAIN files'[list[n]] =>
          \/ m \in DOMAIN files[list[n]] /\ At(n, m)' = At(n, m) /\ ~(n = last /\ m = len + 1)
          \/ n = last /\ m = len + 1 /\ At(n, m)' = Line
    <3> SUFFICES ASSUME NEW n \in DOMAIN list, NEW m, m \in DOMAIN files'[list[n]]
                 PROVE  \/ m \in DOMAIN files[list[n]] /\ At(n, m)' = At(n, m) /\ ~(n = last /\ m = len + 1)
                        \/ n = last /\ m = len + 1 /\ At(n, m)' = Line
      OBVIOUS
    <3>1. At(n, m)' = files'[list[n]][m] /\ At(n, m) = files[list[n]][m]
      BY <1>1 DEF At
    <3> QED BY <1>14, <2>2, <3>1
  <2>4. \A n \in DOMAIN list : \A m \in DOMAIN files[list[n]] :
          m \in DOMAIN files'[list[n]] /\ At(n, m)' = At(n, m)
    BY <1>1, <1>15, <2>2 DEF At
  <2>5. \A n \in DOMAIN list : \A m \in DOMAIN files[list[n]] :
          Earlier(At(n, m), Line) /\ m \in Nat
    <3> SUFFICES ASSUME NEW n \in DOMAIN list, NEW m \in DOMAIN files[list[n]]
                 PROVE  Earlier(At(n, m), Line) /\ m \in Nat
      OBVIOUS
    <3>1. Past(At(n, m).test, At(n, m).no + 3)
      BY <2>2 DEF LogInv, At
    <3>2. At(n, m).test \in Nat /\ At(n, m).no \in Nat
      BY <2>2, InFile DEF At
    <3>3. files[list[n]] \in Seq(OwnLines)
      BY <2>2 DEF LogInv
    <3>4. m \in Nat
      BY <3>3
    <3>5. no + 3 = line /\ no \in Nat
      BY <1>3 DEF no
    <3> QED BY <1>3, <3>1, <3>2, <3>4, <3>5 DEF Past, Earlier
  <2>6. InOrder'
    <3> SUFFICES ASSUME NEW n \in DOMAIN list, NEW p \in DOMAIN list,
                        NEW m \in DOMAIN files'[list[n]], NEW q \in DOMAIN files'[list[p]],
                        n < p \/ (n = p /\ m < q)
                 PROVE  Earlier(At(n, m), At(p, q))'
      BY <1>1 DEF InOrder
    <3>1. n \in 1 .. last /\ p \in 1 .. last /\ last \in Nat
      BY <1>9
    <3>2. ASSUME n = last, m = len + 1 PROVE FALSE
      <4>1. p = last /\ m < q
        BY <3>1, <3>2
      <4>2. q \in DOMAIN files[list[p]]
        BY <2>3, <3>2, <4>1, <1>12
      <4>3. q \in 1 .. len
        BY <1>9, <1>12, <4>1, <4>2
      <4> QED BY <1>12, <3>2, <4>1, <4>3
    <3>3. m \in DOMAIN files[list[n]] /\ At(n, m)' = At(n, m)
      BY <2>3, <3>2
    <3>4. CASE At(p, q)' = Line
      <4>1. Earlier(At(n, m), Line)
        BY <2>5, <3>3
      <4> QED BY <3>3, <3>4, <4>1 DEF Earlier
    <3>5. CASE q \in DOMAIN files[list[p]] /\ At(p, q)' = At(p, q)
      <4>1. InOrder
        BY DEF OrderInv
      <4>2. Earlier(At(n, m), At(p, q))
        BY <3>3, <3>5, <4>1 DEF InOrder
      <4> QED BY <3>3, <3>5, <4>2 DEF Earlier
    <3> QED BY <2>3, <3>4, <3>5
  <2>7. \A t \in DOMAIN calls : \A k \in 1 .. Infos(calls, t) : Past(t, k + 3)' => Kept(t, k)'
    <3> SUFFICES ASSUME NEW t \in DOMAIN calls, NEW k \in 1 .. Infos(calls, t), Past(t, k + 3)'
                 PROVE  Kept(t, k)'
      OBVIOUS
    <3>1. k + 3 \in 1 .. Infos(calls, t) + 4
      BY <1>6
    <3>2. CASE Past(t, k + 3)
      <4>1. Kept(t, k)
        BY <3>2 DEF OrderInv
      <4>2. PICK n \in DOMAIN list : \E m \in DOMAIN files[list[n]] : At(n, m) = OwnInfo(calls, t)[k]
        BY <4>1 DEF Kept
      <4>3. PICK m \in DOMAIN files[list[n]] : At(n, m) = OwnInfo(calls, t)[k]
        BY <4>2
      <4>4. n \in DOMAIN list' /\ m \in DOMAIN files'[list'[n]] /\ At(n, m)' = OwnInfo(calls', t)[k]
        BY <1>1, <2>4, <4>3
      <4> QED BY <4>4 DEF Kept
    <3>3. CASE t = test /\ k + 3 = line
      <4>1. k = no
        BY <1>6, <3>3 DEF no
      <4>2. PICK n, m : n = last /\ m = len + 1
        OBVIOUS
      <4>3. n \in DOMAIN list /\ list[n] = current /\ m \in 1 .. len + 1 /\ files'[current][m] = Line
        BY <1>9, <1>12, <1>13, <4>2
      <4>4. n \in DOMAIN list' /\ m \in DOMAIN files'[list'[n]] /\ At(n, m)' = Line
        BY <1>1, <1>13, <4>3 DEF At
      <4>5. At(n, m)' = OwnInfo(calls', t)[k]
        BY <1>1, <1>3, <3>3, <4>1, <4>4
      <4> QED BY <4>4, <4>5 DEF Kept
    <3> QED BY <1>5, <3>1, <3>2, <3>3
  <2> QED BY <1>1, <1>8, <2>1, <2>6, <2>7 DEF OrderInv
<1>18. OneTestInv'
  <2> SUFFICES ASSUME Successful(calls) PROVE OneTestInv'
    BY <1>8 DEF OneTestInv
  <2>1. /\ line > 2
        /\ \A m \in DOMAIN files[current] : files[current][m].test = test
        /\ \A f \in Listed : \A m, q \in DOMAIN files[f] : files[f][m].test = files[f][q].test
    BY <1>1 DEF OneTestInv
  <2>2. \A m \in DOMAIN files'[current] : files'[current][m].test = test
    BY <1>3, <1>10, <1>14, <2>1
  <2>3. \A f \in Listed : \A m, q \in DOMAIN files'[f] : files'[f][m].test = files'[f][q].test
    <3> SUFFICES ASSUME NEW f \in Listed, NEW m \in DOMAIN files'[f], NEW q \in DOMAIN files'[f]
                 PROVE  files'[f][m].test = files'[f][q].test
      OBVIOUS
    <3>1. CASE f = current
      BY <2>2, <3>1
    <3>2. CASE f # current
      BY <1>13, <2>1, <3>2
    <3> QED BY <3>1, <3>2
  <2>4. line' > 2
    BY <1>3, <1>5, <2>1
  <2> QED BY <1>1, <1>5, <1>10, <2>2, <2>3, <2>4 DEF OneTestInv
<1> QED BY <1>5, <1>7, <1>16, <1>17, <1>18

\* Every step of extract_sim_log.
LEMMA ExtractionStep ==
  ASSUME ToolsInv, SkipLine \/ OpenLog \/ CopyLine \/ CloseLog
  PROVE  ToolsInv'
<1>1. Read /\ calls' = calls /\ CursorInv
  BY DEF SkipLine, OpenLog, CopyLine, CloseLog, ToolsInv
<1>2. ~Extracted
  BY <1>1 DEF Read
<1> DEFINE m == Infos(calls, test)
<1>3. /\ m \in Nat /\ line \in 1 .. m + 4 /\ calls[test].ok \in BOOLEAN /\ test \in DOMAIN calls
      /\ Line.kind = "info" => line - 3 \in 1 .. m
      /\ line - 3 \in 1 .. m => Line.kind = "info"
      /\ Line.kind = "successful" => line = m + 4
      /\ line = 2 => Line.kind = "start"
      /\ line = m + 4 => Line.kind = IF calls[test].ok THEN "successful" ELSE "failed"
  BY <1>1, <1>2, NextLine
<1>4. \/ test' = test /\ line' = line + 1 /\ line < m + 4 /\ ~Extracted'
      \/ line' = 1 /\ line = m + 4
  BY <1>1, ReadLine
<1> HIDE DEF m
<1>5. CASE SkipLine
  <2>1. line <= 2
    BY <1>2, <1>3, <1>5 DEF SkipLine, ToolsInv, LogInv
  <2>2. line = 1
    BY <1>3, <1>5, <2>1 DEF SkipLine
  <2>3. line' <= 2 /\ current' = Closed /\ line - 3 \notin 1 .. m
    BY <1>3, <1>4, <1>5, <2>2 DEF SkipLine
  <2>4. ~(line' > 2)
    BY <1>3, <1>4, <2>2
  <2> QED BY <1>1, <1>5, <2>3, <2>4, LineNotKept DEF m, SkipLine
<1>6. CASE OpenLog
  BY <1>6, HeaderOpens
<1>7. CASE CopyLine /\ Line.kind = "info"
  BY <1>7, InfoKept
<1>8. CASE CopyLine /\ Line.kind # "info"
  <2>1. UNCHANGED <<calls, current, files, list, generation>> /\ current # Closed
        /\ Line.kind # "successful"
    BY <1>8 DEF CopyLine
  <2>2. ASSUME Successful(calls) PROVE ~Extracted' /\ line' > 2 /\ test' = test
    <3>1. line > 2
      BY <2>1, <2>2 DEF ToolsInv, OneTestInv
    <3>2. calls[test].ok
      BY <1>3, <2>2 DEF Successful
    <3>3. line # m + 4
      BY <1>3, <2>1, <3>2
    <3> QED BY <1>3, <1>4, <3>1, <3>3
  <2>3. line - 3 \notin 1 .. m
    BY <1>3, <1>8
  <2> QED BY <1>1, <2>1, <2>2, <2>3, LineNotKept DEF m
<1>9. CASE CloseLog
  <2>1. UNCHANGED <<calls, files, list, generation>> /\ current' = Closed /\ line = m + 4
    BY <1>3, <1>9 DEF CloseLog
  <2>2. line' = 1 /\ line - 3 \notin 1 .. m
    BY <1>3, <1>4, <2>1
  <2>3. ~(line' > 2)
    BY <2>2
  <2> QED BY <1>1, <2>1, <2>2, <2>3, LineNotKept DEF m
<1> QED BY <1>5, <1>6, <1>7, <1>8, <1>9

-----------------------------------------------------------------------------
(* input_gen                                                                *)

\* A directory of which one file is written.
LEMMA WithTyped ==
  ASSUME NEW S, NEW D, NEW dir \in [D -> Seq(S)], NEW name, NEW lines \in Seq(S)
  PROVE  With(dir, name, lines) \in [D \cup {name} -> Seq(S)]
  BY DEF With

\* The entry that is being generated.
LEMMA EntryIs ==
  ASSUME CursorInv, LogInv, gen \in Nat \ {0}, gen <= Len(list)
  PROVE  Entry \in Listed /\ LogFile \in Seq(OwnLines)
<1>1. Len(list) \in Nat /\ DOMAIN list = 1 .. Len(list) /\ files \in [Listed -> Seq(OwnLines)]
  BY DEF LogInv
<1>2. gen \in DOMAIN list
  BY <1>1
<1> QED BY <1>1, <1>2 DEF Entry, LogFile, Listed

\* Writing the outputs of an entry.
LEMMA OutputsWritten ==
  ASSUME ToolsInv, UNCHANGED extraction, rd > 0 \/ Extracted, gen <= Len(list),
         NEW cs \in Seq(Commands), NEW rs \in Seq(OwnLines), From(cs, Entry), From(rs, Entry),
         frag' = With(frag, Entry, cs), refs' = With(refs, Entry, rs)
  PROVE  /\ DOMAIN frag' = DOMAIN refs' /\ (Extracted \/ DOMAIN frag = {})'
         /\ DOMAIN frag' \subseteq Listed'
         /\ frag' \in [DOMAIN frag' -> Seq(Commands)'] /\ refs' \in [DOMAIN frag' -> Seq(OwnLines)']
         /\ \A name \in DOMAIN frag' : From(frag'[name], name) /\ From(refs'[name], name)
<1> USE DEF ToolsInv
<1>1. Extracted' = Extracted /\ Extracted
  BY DEF GenInv, Extracted, extraction
<1>2. OwnLines' = OwnLines /\ Commands' = Commands /\ Listed' = Listed
  BY SameLines DEF extraction, Listed
<1>3. Entry \in Listed
  BY EntryIs DEF GenInv
<1>4. /\ DOMAIN frag = DOMAIN refs /\ DOMAIN frag \subseteq Listed
      /\ frag \in [DOMAIN frag -> Seq(Commands)] /\ refs \in [DOMAIN frag -> Seq(OwnLines)]
      /\ \A name \in DOMAIN frag : From(frag[name], name) /\ From(refs[name], name)
  BY DEF GenInv
<1>5. /\ frag' \in [DOMAIN frag \cup {Entry} -> Seq(Commands)]
      /\ refs' \in [DOMAIN frag \cup {Entry} -> Seq(OwnLines)]
  BY <1>4, WithTyped
<1>6. DOMAIN frag' = DOMAIN frag \cup {Entry} /\ DOMAIN refs' = DOMAIN frag \cup {Entry}
  BY <1>5
<1>7. ASSUME NEW name \in DOMAIN frag' PROVE From(frag'[name], name) /\ From(refs'[name], name)
  <2>1. /\ frag'[name] = IF name = Entry THEN cs ELSE frag[name]
        /\ refs'[name] = IF name = Entry THEN rs ELSE refs[name]
    BY <1>4, <1>6, <1>7 DEF With
  <2>2. CASE name = Entry
    BY <2>1, <2>2
  <2>3. CASE name # Entry
    BY <1>4, <1>6, <1>7, <2>1, <2>3
  <2> QED BY <2>2, <2>3
<1> QED BY <1>1, <1>2, <1>3, <1>4, <1>5, <1>6, <1>7

\* What has been read of the file grows by something of the next line.
LEMMA FromAppend ==
  ASSUME NEW S, NEW lines \in Seq(S), NEW new \in S, NEW name, From(lines, name),
         NEW m \in DOMAIN files[name], new.test = files[name][m].test
  PROVE  Append(lines, new) \in Seq(S) /\ From(Append(lines, new), name)
<1>1. Append(lines, new) \in Seq(S)
  OBVIOUS
<1>2. \A n \in DOMAIN Append(lines, new) :
        (n \in DOMAIN lines /\ Append(lines, new)[n] = lines[n]) \/ Append(lines, new)[n] = new
  OBVIOUS
<1> QED BY <1>1, <1>2 DEF From

\* Every step of input_gen: the files stay as they are.
LEMMA GenerationStep ==
  ASSUME ToolsInv, OpenFile \/ ReadCommand \/ ReadResult \/ WriteFiles
  PROVE  GenInv' /\ UNCHANGED extraction
<1> USE DEF ToolsInv
<1>1. /\ UNCHANGED extraction
      /\ calls' = calls /\ test' = test /\ line' = line /\ current' = current
      /\ files' = files /\ list' = list
  BY DEF OpenFile, ReadCommand, ReadResult, WriteFiles, extraction
<1>2. /\ OwnLines' = OwnLines /\ Commands' = Commands /\ Listed' = Listed
      /\ Extracted' = Extracted
      /\ \A lines, name : From(lines, name)' <=> From(lines, name)
  BY <1>1, SameLines DEF Listed, Extracted, From
<1>3. gen \in Nat \ {0} /\ rd \in Nat /\ cmd_v \in Seq(Commands) /\ result_v \in Seq(OwnLines)
  BY DEF GenInv
<1>4. Extracted /\ gen <= Len(list) /\ Len(list) \in Nat
  BY <1>3 DEF OpenFile, ReadCommand, ReadResult, WriteFiles, GenInv, LogInv
<1>5. Entry \in Listed /\ LogFile \in Seq(OwnLines) /\ LogFile = files[Entry]
  BY <1>3, <1>4, EntryIs DEF LogFile
<1>6. CASE OpenFile
  <2>1. /\ rd' = 1 /\ gen' = gen /\ cmd_v' = <<>> /\ result_v' = <<>>
        /\ frag' = With(frag, Entry, <<>>) /\ refs' = With(refs, Entry, <<>>)
    BY <1>6 DEF OpenFile
  <2>2. <<>> \in Seq(Commands) /\ <<>> \in Seq(OwnLines) /\ \A name : From(<<>>, name)
    BY DEF From
  <2>3. /\ DOMAIN frag' = DOMAIN refs' /\ (Extracted \/ DOMAIN frag = {})'
        /\ DOMAIN frag' \subseteq Listed'
        /\ frag' \in [DOMAIN frag' -> Seq(Commands)'] /\ refs' \in [DOMAIN frag' -> Seq(OwnLines)']
        /\ \A name \in DOMAIN frag' : From(frag'[name], name) /\ From(refs'[name], name)
    BY <1>1, <1>4, <2>1, <2>2, OutputsWritten
  <2>4. Entry' = Entry
    BY <1>1, <2>1 DEF Entry
  <2> QED BY <1>1, <1>2, <1>3, <1>4, <2>1, <2>2, <2>3, <2>4 DEF GenInv, From
<1>7. CASE ReadCommand
  <2> DEFINE l == LogFile[rd]
             new == Command(Len(cmd_v), l)
  <2>1. /\ rd > 0 /\ rd <= Len(LogFile) /\ rd' = rd + 1 /\ gen' = gen
        /\ cmd_v' = Append(cmd_v, new) /\ result_v' = result_v
        /\ frag' = frag /\ refs' = refs
    BY <1>7 DEF ReadCommand
  <2>2. rd \in DOMAIN LogFile /\ l \in OwnLines /\ new.test = l.test
    BY <1>3, <1>5, <2>1 DEF Command
  <2>3. new \in Commands
    <3>1. Len(cmd_v) \in Nat
      BY <1>3
    <3> QED BY <2>2, <3>1 DEF Commands
  <2>4. From(cmd_v, Entry) /\ From(result_v, Entry)
    BY <2>1 DEF GenInv
  <2> HIDE DEF new
  <2>5. cmd_v' \in Seq(Commands) /\ From(cmd_v', Entry)
    BY <1>3, <1>5, <2>1, <2>2, <2>3, <2>4, FromAppend
  <2>6. Entry' = Entry
    BY <1>1, <2>1 DEF Entry
  <2> QED BY <1>1, <1>2, <1>3, <1>4, <2>1, <2>4, <2>5, <2>6 DEF GenInv, From
<1>8. CASE ReadResult
  <2> DEFINE l == LogFile[rd]
  <2>1. /\ rd > 0 /\ rd <= Len(LogFile) /\ rd' = rd + 1 /\ gen' = gen
        /\ result_v' = Append(result_v, l) /\ cmd_v' = cmd_v
        /\ frag' = frag /\ refs' = refs
    BY <1>8 DEF ReadResult
  <2>2. rd \in DOMAIN LogFile /\ l \in OwnLines
    BY <1>3, <1>5, <2>1
  <2>3. From(cmd_v, Entry) /\ From(result_v, Entry)
    BY <2>1 DEF GenInv
  <2>4. result_v' \in Seq(OwnLines) /\ From(result_v', Entry)
    BY <1>3, <1>5, <2>1, <2>2, <2>3, FromAppend
  <2>5. Entry' = Entry
    BY <1>1, <2>1 DEF Entry
  <2> HIDE DEF l, ToolsInv
  <2>6. (\A name \in DOMAIN frag : From(frag[name], name) /\ From(refs[name], name))'
    <3>1. \A name \in DOMAIN frag : From(frag[name], name) /\ From(refs[name], name)
      BY DEF ToolsInv, GenInv
    <3> QED BY <1>1, <2>1, <3>1 DEF From
  <2>7. From(cmd_v, Entry)' /\ From(result_v, Entry)'
    BY <1>1, <2>1, <2>3, <2>4, <2>5 DEF From
  <2>8. /\ DOMAIN frag = DOMAIN refs /\ (Extracted \/ DOMAIN frag = {}) /\ DOMAIN frag \subseteq Listed
        /\ frag \in [DOMAIN frag -> Seq(Commands)] /\ refs \in [DOMAIN frag -> Seq(OwnLines)]
    BY DEF ToolsInv, GenInv
  <2>9. rd' \in Nat
    BY <1>3, <2>1
  <2> QED BY <1>1, <1>2, <1>3, <1>4, <2>1, <2>4, <2>6, <2>7, <2>8, <2>9 DEF GenInv
<1>9. CASE WriteFiles
  <2>1. /\ rd > 0 /\ rd' = 0 /\ gen' = gen + 1 /\ cmd_v' = cmd_v /\ result_v' = result_v
        /\ frag' = With(frag, Entry, cmd_v) /\ refs' = With(refs, Entry, result_v)
    BY <1>9 DEF WriteFiles
  <2>2. From(cmd_v, Entry) /\ From(result_v, Entry)
    BY <2>1 DEF GenInv
  <2>3. /\ DOMAIN frag' = DOMAIN refs' /\ (Extracted \/ DOMAIN frag = {})'
        /\ DOMAIN frag' \subseteq Listed'
        /\ frag' \in [DOMAIN frag' -> Seq(Commands)'] /\ refs' \in [DOMAIN frag' -> Seq(OwnLines)']
        /\ \A name \in DOMAIN frag' : From(frag'[name], name) /\ From(refs'[name], name)
    BY <1>1, <1>3, <1>4, <2>1, <2>2, OutputsWritten
  <2> QED BY <1>1, <1>2, <1>3, <2>1, <2>3 DEF GenInv, From
<1> QED BY <1>1, <1>6, <1>7, <1>8, <1>9

\* Every step of either program preserves it.
LEMMA ToolsStep ==
  ASSUME ToolsInv, [ToolsNext]_toolsVars
  PROVE  ToolsInv'
<1>1. CASE SkipLine \/ OpenLog \/ CopyLine \/ CloseLog
  BY <1>1, ExtractionStep
<1>2. ASSUME UNCHANGED extraction PROVE CursorInv' /\ LogInv' /\ OrderInv' /\ OneTestInv'
  <2> USE DEF ToolsInv
  <2>1. /\ calls' = calls /\ test' = test /\ line' = line /\ current' = current
        /\ files' = files /\ list' = list
    BY <1>2 DEF extraction
  <2>2. /\ OwnLines' = OwnLines /\ Listed' = Listed /\ Extracted' = Extracted
        /\ \A t : Infos(calls, t)' = Infos(calls, t)
        /\ Distinct(calls)' = Distinct(calls) /\ Successful(calls)' = Successful(calls)
    BY <2>1, SameLines DEF Listed, Extracted
  <2>3. \A t, n : Past(t, n)' <=> Past(t, n)
    BY <2>1 DEF Past
  <2>4. CursorInv'
    BY <2>1, <2>2 DEF CursorInv, Infos
  <2>5. LogInv'
    BY <2>1, <2>2 DEF LogInv, Past
  <2>6. OrderInv'
    BY <2>1, <2>2, <2>3 DEF OrderInv, Kept, InOrder, At, Earlier, OwnInfo, Infos
  <2>7. OneTestInv'
    BY <2>1, <2>2 DEF OneTestInv
  <2> QED BY <2>4, <2>5, <2>6, <2>7
<1>3. CASE OpenFile \/ ReadCommand \/ ReadResult \/ WriteFiles
  BY <1>2, <1>3, GenerationStep DEF ToolsInv
<1>4. CASE UNCHANGED toolsVars
  <2>1. UNCHANGED extraction /\ UNCHANGED generation
    BY <1>4 DEF toolsVars
  <2>2. GenInv'
    <3>1. /\ calls' = calls /\ test' = test /\ files' = files /\ list' = list
          /\ gen' = gen /\ rd' = rd /\ cmd_v' = cmd_v /\ result_v' = result_v
          /\ frag' = frag /\ refs' = refs
      BY <2>1 DEF extraction, generation
    <3>2. OwnLines' = OwnLines /\ Commands' = Commands
      BY <3>1, SameLines
    <3>3. Listed' = Listed /\ Extracted' = Extracted /\ Entry' = Entry
      BY <3>1 DEF Listed, Extracted, Entry
    <3> QED BY <3>1, <3>2, <3>3 DEF ToolsInv, GenInv, From
  <2> QED BY <1>2, <2>1, <2>2 DEF ToolsInv
<1> QED BY <1>1, <1>3, <1>4 DEF ToolsNext, Terminated

\* The invariant of both programs, for every log.
THEOREM ToolsInvariance == ToolsSpec => []ToolsInv
<1>1. ToolsInit => ToolsInv
  BY ToolsStart
<1>2. ToolsInv /\ [ToolsNext]_toolsVars => ToolsInv'
  BY ToolsStep
<1> QED BY <1>1, <1>2, PTL DEF ToolsSpec

\* For every log of tests of different names, successful or failed: extract_sim_log
\* keeps the [ILA-INFO] lines, all of them, in their order and nothing else.
THEOREM Extraction == ToolsSpec => []NothingLost
<1>1. ASSUME ToolsInv PROVE NothingLost
  <2> SUFFICES ASSUME Extracted, Distinct(calls)
               PROVE  /\ NothingAdded
                      /\ \A t \in DOMAIN calls : \A k \in DOMAIN OwnInfo(calls, t) : Kept(t, k)
                      /\ InOrder
    BY DEF NothingLost
  <2> USE <1>1 DEF ToolsInv
  <2>1. calls \in Calls /\ Len(calls) \in Nat /\ DOMAIN calls = 1 .. Len(calls)
    BY CallsAre DEF CursorInv
  <2>2. \A t \in DOMAIN calls : DOMAIN OwnInfo(calls, t) = 1 .. Infos(calls, t)
    BY <2>1, OwnInfoIs
  <2>3. NothingAdded
    <3> SUFFICES ASSUME NEW n \in DOMAIN list, NEW m \in DOMAIN files[list[n]]
                 PROVE  \E t \in DOMAIN calls : \E k \in DOMAIN OwnInfo(calls, t) :
                          At(n, m) = OwnInfo(calls, t)[k]
      BY DEF NothingAdded
    <3>1. list[n] \in Listed
      BY DEF Listed
    <3>2. PICK t \in DOMAIN calls : \E k \in 1 .. Infos(calls, t) :
            files[list[n]][m] = OwnInfo(calls, t)[k]
      BY <3>1, InFile
    <3> QED BY <2>2, <3>2 DEF At
  <2>4. \A t \in DOMAIN calls : \A n : Past(t, n)
    BY <2>1 DEF Past, Extracted, CursorInv
  <2>5. \A t \in DOMAIN calls : \A k \in DOMAIN OwnInfo(calls, t) : Kept(t, k)
    BY <2>2, <2>4 DEF OrderInv
  <2> QED BY <2>3, <2>5 DEF OrderInv
<1> QED BY <1>1, ToolsInvariance, PTL

\* For every log of successful tests, whatever their names: a fragment and its
\* reference results are those of one test.
THEOREM OneTestEach == ToolsSpec => []FragmentsOfOneTest
<1>1. ASSUME ToolsInv PROVE FragmentsOfOneTest
  <2> USE <1>1 DEF ToolsInv
  <2> SUFFICES ASSUME Successful(calls), NEW name \in DOMAIN frag,
                      NEW n \in DOMAIN frag[name], NEW m \in DOMAIN refs[name]
               PROVE  frag[name][n].test = refs[name][m].test
    BY DEF FragmentsOfOneTest
  <2>1. From(frag[name], name) /\ From(refs[name], name) /\ name \in Listed
    BY DEF GenInv
  <2>2. PICK p \in DOMAIN files[name] : frag[name][n].test = files[name][p].test
    BY <2>1 DEF From
  <2>3. PICK q \in DOMAIN files[name] : refs[name][m].test = files[name][q].test
    BY <2>1 DEF From
  <2>4. files[name][p].test = files[name][q].test
    BY <2>1 DEF OneTestInv
  <2> QED BY <2>2, <2>3, <2>4
<1> QED BY <1>1, ToolsInvariance, PTL
=============================================================================
