----------------------------- MODULE VtaNumerics -----------------------------
(***************************************************************************)
(* The operator functions of vta/uninterpreted_func.cc, which the ILA model*)
(* calls for each element, and next to them the C reference of test_lib.cc *)
(* for the same element.  Registers hold bit patterns, as sc_biguint does; *)
(* every function reads them as signed numbers, computes, and keeps the low*)
(* bits of its result.  A register of w bits is given by its half range    *)
(* 2^(w - 1).  The order of the calls is that of the GEMM core: BlockIn    *)
(* products make a sum, which is added to the accumulator once.            *)
(***************************************************************************)
EXTENDS Integers

CONSTANTS
  InpHalf,      \* of inputs, weights and outputs: 2^7
  ProdHalf,     \* of a product: 2^16
  SumHalf,      \* of the sum of BlockIn products: 2^20
  AccHalf,      \* of the accumulator: 2^31
  ImmHalf,      \* of an immediate: 2^15
  ShiftHalf,    \* of the amount of a shift: 2^4
  BlockIn,      \* products of a sum: VTA_BLOCK_IN = 16
  Sums,         \* sums of an output element: in_feat / VTA_BLOCK_IN
  Biases,       \* the biases to consider
  Pow2          \* the powers of two: what a shift by one more place does

Divides(a, b) == \E k \in 1 .. b : b = k * a

ASSUME WidthsAssumption ==
  /\ InpHalf \in Nat \ {0} /\ ProdHalf \in Nat \ {0} /\ SumHalf \in Nat \ {0}
  /\ AccHalf \in Nat \ {0} /\ ImmHalf \in Nat \ {0} /\ ShiftHalf \in Nat \ {0}
  /\ BlockIn \in Nat \ {0} /\ Sums \in Nat \ {0}
  /\ Divides(InpHalf, AccHalf) /\ Divides(ShiftHalf, AccHalf)
  /\ ShiftHalf <= ImmHalf /\ ImmHalf <= AccHalf

\* The registers are wide enough for the products and sums they are meant for.
ASSUME FitAssumption ==
  /\ InpHalf * InpHalf < ProdHalf
  /\ BlockIn * (InpHalf * InpHalf) < SumHalf

ASSUME BiasesAssumption == Biases \subseteq 0 .. AccHalf - 1

ASSUME Pow2Assumption ==
  /\ Pow2 \in [0 .. ShiftHalf -> Nat \ {0}]
  /\ Pow2[0] = 1
  /\ \A n \in 1 .. ShiftHalf : Pow2[n] = 2 * Pow2[n - 1]

\* The bit pattern of a number, the number of a bit pattern, and the number that
\* is left of one in a signed variable of that size.
Bits(h, x)   == x % (2 * h)
Signed(h, b) == IF b >= h THEN b - 2 * h ELSE b
Wrap(h, x)   == Signed(h, Bits(h, x))

Range(h) == -h .. h - 1

-----------------------------------------------------------------------------
(* The operator functions                                                   *)

GemmMacUnsigned(sum, wgt, inp) ==   \* (mutant: the operands are read as unsigned)
  Bits(SumHalf, Signed(SumHalf, sum) + Wrap(ProdHalf, wgt * inp))
GemmMac(sum, wgt, inp) ==
  LET prod == Wrap(ProdHalf, Signed(InpHalf, wgt) * Signed(InpHalf, inp))
  IN  Bits(SumHalf, Signed(SumHalf, sum) + prod)

AccumAddSumUnsigned(accum, sum) ==   \* (mutant: the sum is not sign-extended)
  Bits(AccHalf, Signed(AccHalf, accum) + sum)
AccumAddSum(accum, sum) == Bits(AccHalf, Signed(AccHalf, accum) + Signed(SumHalf, sum))

\* Acc2Out and Accum2Out: the low bits, whatever is lost.
Acc2Out(accum) == Bits(InpHalf, accum)

Imm2Acc(imm) == Bits(AccHalf, Signed(ImmHalf, imm))

AccMin(a, b) == IF Signed(AccHalf, a) < Signed(AccHalf, b) THEN a ELSE b
AccMax(a, b) == IF Signed(AccHalf, a) > Signed(AccHalf, b) THEN a ELSE b
AccAdd(a, b) == Bits(AccHalf, Signed(AccHalf, a) + Signed(AccHalf, b))

\* A shift by a negative amount goes the other way.
Shift(x, by) == IF by >= 0 THEN x \div Pow2[by] ELSE x * Pow2[-by]
AccShrUnsigned(a, b) ==   \* (mutant: no shift to the left, as with ap_uint<4>)
  Bits(AccHalf, Shift(Signed(AccHalf, a), b % ShiftHalf))
AccShr(a, b) ==
  Bits(AccHalf, Shift(Signed(AccHalf, a), Signed(ShiftHalf, Bits(ShiftHalf, b))))

AluFunction(f, a, b) ==
  CASE f = "MIN" -> AccMin(a, b)
    [] f = "MAX" -> AccMax(a, b)
    [] f = "ADD" -> AccAdd(a, b)
    [] f = "SHR" -> AccShr(a, b)

-----------------------------------------------------------------------------
(* The reference in C, on numbers, and the data alu_test generates          *)

AluReference(f, x, y) ==
  CASE f = "MIN" -> IF x < y THEN x ELSE y
    [] f = "MAX" -> IF x > y THEN x ELSE y
    [] f = "ADD" -> Wrap(AccHalf, x + y)
    [] f = "SHR" -> Wrap(AccHalf, Shift(x, y))

AluOpcodes == {"MIN", "MAX", "ADD", "SHR"}
AluInputs(f) ==
  CASE f \in {"MIN", "MAX"} -> Range(InpHalf \div 2)
    [] f = "ADD"            -> Range(InpHalf \div 4)
    [] f = "SHR"            -> Range(ShiftHalf \div 2)
AluImmediates(f) == IF f = "SHR" THEN Range(ShiftHalf \div 2) ELSE Range(ImmHalf \div 2)

-----------------------------------------------------------------------------

VARIABLES
  op,      \* what computes the element: "GEMM" or an ALU opcode
  macs,    \* products added to the sum
  adds,    \* sums added to the accumulator
  sum,     \* the register of the GEMM core
  accum,   \* the accumulator element
  out,     \* the output element
  done,    \* the output element has been written
  exact,   \* the sum as a number
  ref      \* sum in blocked_gemm_test, out_val in alu_test

vars == <<op, macs, adds, sum, accum, out, done, exact, ref>>

Init ==
  /\ op \in {"GEMM"} \cup AluOpcodes
  /\ ref \in IF op = "GEMM" THEN Biases ELSE AluInputs(op)
  /\ accum = Bits(AccHalf, ref)
  /\ macs = 0 /\ adds = 0 /\ sum = 0 /\ exact = 0
  /\ out = 0 /\ done = FALSE

Mac ==
  /\ op = "GEMM" /\ adds < Sums /\ macs < BlockIn
  /\ \E inp, wgt \in Range(InpHalf) :
       /\ sum' = GemmMac(sum, Bits(InpHalf, wgt), Bits(InpHalf, inp))
       /\ exact' = exact + wgt * inp
       /\ ref' = Wrap(AccHalf, ref + wgt * inp)
  /\ macs' = macs + 1
  /\ UNCHANGED <<op, adds, accum, out, done>>

AddSum ==
  /\ macs = BlockIn
  /\ accum' = AccumAddSum(accum, sum)
  /\ adds' = adds + 1
  /\ macs' = 0 /\ sum' = 0 /\ exact' = 0
  /\ UNCHANGED <<op, out, done, ref>>

WriteOut ==
  /\ op = "GEMM" /\ ~done /\ adds = Sums
  /\ out' = Acc2Out(accum)
  /\ done' = TRUE
  /\ UNCHANGED <<op, macs, adds, sum, accum, exact, ref>>

\* One ALU micro-op.  The second operand is an accumulator element or an
\* immediate, extended to one.
AluWith(src, b) ==
  /\ accum' = AluFunction(op, accum, b)
  /\ out' = Acc2Out(AluFunction(op, accum, b))
  /\ ref' = AluReference(op, ref, src)

Alu ==
  /\ op \in AluOpcodes /\ ~done
  /\ \/ \E src \in AluInputs(op) : AluWith(src, Bits(AccHalf, src))
     \/ \E src \in AluImmediates(op) : AluWith(src, Imm2Acc(Bits(ImmHalf, src)))
  /\ done' = TRUE
  /\ UNCHANGED <<op, macs, adds, sum, exact>>

Done == done /\ UNCHANGED vars

Next == Mac \/ AddSum \/ WriteOut \/ Alu \/ Done

Spec == Init /\ [][Next]_vars

-----------------------------------------------------------------------------

\* The sum of products is exact at every step: the hard-wired width of the
\* register is enough for the block size, whatever the operands.
SumIsExact == Signed(SumHalf, sum) = exact

\* Between two sums the accumulator is the reference's running sum, also after
\* that has wrapped around.
AccumIsReference == macs = 0 => Signed(AccHalf, accum) = ref

\* The element that is stored is the reference's, narrowed to out_T: for GEMM and
\* for every ALU function, operand source and sign, within the test's data.
OutIsReference == done => Signed(InpHalf, out) = Wrap(InpHalf, ref)

-----------------------------------------------------------------------------
(* The inductive invariant                                                  *)

Bound == InpHalf * InpHalf

TypeOK ==
  /\ op \in {"GEMM"} \cup AluOpcodes
  /\ macs \in 0 .. BlockIn /\ adds \in 0 .. Sums
  /\ sum \in 0 .. 2 * SumHalf - 1 /\ accum \in 0 .. 2 * AccHalf - 1
  /\ out \in 0 .. 2 * InpHalf - 1 /\ done \in BOOLEAN
  /\ exact \in Int /\ ref \in Range(AccHalf)

\* A GEMM's reference is ahead of the accumulator by the sum so far.
IInv ==
  /\ TypeOK
  /\ -(macs * Bound) <= exact /\ exact <= macs * Bound
  /\ SumIsExact
  /\ ref = Wrap(AccHalf, Signed(AccHalf, accum) + exact)
  /\ op # "GEMM" => macs = 0 /\ exact = 0 /\ (~done => ref \in AluInputs(op))
  /\ macs > 0 => adds < Sums
  /\ done => macs = 0 /\ (op = "GEMM" => adds = Sums)
  /\ OutIsReference
=============================================================================
