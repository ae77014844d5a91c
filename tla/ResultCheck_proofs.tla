------------------------- MODULE ResultCheck_proofs -------------------------
(***************************************************************************)
(* Proofs about the comparison of the flex and hlscnn testbenches, for     *)
(* programs of every length, memories and beats of every size and numbers  *)
(* of every printed length: the two models execute the same program, the   *)
(* result file holds its reads, and the verdict is that all bytes agree.   *)
(***************************************************************************)
EXTENDS ResultCheck, FiniteSetTheorems, TLAPS

-----------------------------------------------------------------------------
(* The largest and the least element of a set                               *)

\* The operator of FiniteSetsExt, once the greatest element is known.
LEMMA MaxIs ==
  ASSUME NEW S \in SUBSET Int, NEW x \in S, \A y \in S : y <= x
  PROVE  Max(S) = x
<1>1. \E z \in S : \A y \in S : z >= y
  OBVIOUS
<1> DEFINE z == Max(S)
<1>2. z \in S /\ \A y \in S : z >= y
  BY <1>1, Zenon DEF Max
<1> HIDE DEF z
<1>3. z = x
  BY <1>2
<1> QED BY <1>3 DEF z

\* The same for the least element.
LEMMA MinIs ==
  ASSUME NEW S \in SUBSET Int, NEW x \in S, \A y \in S : x <= y
  PROVE  Min(S) = x
<1>1. \E z \in S : \A y \in S : z <= y
  OBVIOUS
<1> DEFINE z == Min(S)
<1>2. z \in S /\ \A y \in S : z <= y
  BY <1>1, Zenon DEF Min
<1> HIDE DEF z
<1>3. z = x
  BY <1>2
<1> QED BY <1>3 DEF z

\* A set of natural numbers that is not empty has a least element.
LEMMA MinOf ==
  ASSUME NEW S \in SUBSET Nat, S # {}
  PROVE  Min(S) \in S /\ \A y \in S : Min(S) <= y
<1> DEFINE R == StrictSubsetOrdering(Nat)
           T == {0 .. x : x \in S}
<1>1. IsWellFoundedOn(R, FiniteSubsetsOf(Nat))
  BY FS_StrictSubsetOrderingWellFounded
<1>2. T \subseteq FiniteSubsetsOf(Nat) /\ T # {}
  <2>1. ASSUME NEW x \in S
        PROVE  0 .. x \in FiniteSubsetsOf(Nat)
    <3>1. IsFiniteSet(0 .. x)
      BY FS_Interval
    <3> QED BY <3>1 DEF FiniteSubsetsOf
  <2> QED BY <2>1
<1>3. \E t \in T : \A u \in T : <<u, t>> \notin R
  <2> HIDE DEF R, T
  <2> QED BY <1>1, <1>2, WFMin
<1>4. PICK x \in S : \A y \in S : <<0 .. y, 0 .. x>> \notin R
  BY <1>3
<1>5. ASSUME NEW y \in S, ~(x <= y)
      PROVE  FALSE
  <2>1. 0 .. y \subseteq 0 .. x /\ x \in 0 .. x /\ x \notin 0 .. y
    BY <1>5
  <2>2. 0 .. y # 0 .. x /\ 0 .. y \in SUBSET Nat /\ 0 .. x \in SUBSET Nat
    BY <2>1
  <2>3. <<0 .. y, 0 .. x>> \in R
    BY <2>1, <2>2 DEF StrictSubsetOrdering
  <2> QED BY <1>4, <2>3
<1>6. Min(S) = x
  BY <1>5, MinIs
<1> QED BY <1>5, <1>6

\* A finite set of numbers that is not empty has a greatest element.
LEMMA MaxOf ==
  ASSUME NEW n \in Nat, NEW S \in SUBSET (1 .. n), S # {}
  PROVE  Max(S) \in S /\ \A y \in S : y <= Max(S)
<1> DEFINE T == {n - x : x \in S}
<1>1. T \in SUBSET Nat /\ T # {}
  <2>1. \A x \in S : n - x \in Nat
    OBVIOUS
  <2> QED BY <2>1
<1>2. PICK t \in T : \A u \in T : t <= u
  <2> HIDE DEF T
  <2> QED BY <1>1, MinOf
<1>3. n - t \in S /\ \A y \in S : y <= n - t
  BY <1>2
<1>4. Max(S) = n - t
  BY <1>3, MaxIs
<1> QED BY <1>3, <1>4

-----------------------------------------------------------------------------
(* Numbers as texts                                                         *)

\* The k-th digit of a number, from the right.
Digit(text, k) == IF k < Len(text) THEN text[Len(text) - k] ELSE 0

\* Digits and bytes of a beat, for the arithmetic below.
LEMMA Widths ==
  /\ Beat \in Nat \ {0} /\ Size \in Nat \ {0} /\ 2 * Beat \in Nat
  /\ \A b \in 0 .. Beat - 1 : 2 * b \in 0 .. 2 * Beat - 2 /\ 2 * b + 1 \in 1 .. 2 * Beat - 1
BY BeatAssumption

\* Padding is made of zeros.
LEMMA ZerosSeq ==
  ASSUME NEW n \in Nat
  PROVE  Zeros(n) \in Seq(0 .. 15) /\ Len(Zeros(n)) = n /\ \A k \in 1 .. n : Zeros(n)[k] = 0
BY DEF Zeros

\* The value of a number, byte by byte.
LEMMA ValueDigits ==
  ASSUME NEW text \in Seq(0 .. 15)
  PROVE  /\ Value(text) = [b \in 0 .. Beat - 1 |-> 16 * Digit(text, 2 * b + 1) + Digit(text, 2 * b)]
         /\ Value(text) \in [0 .. Beat - 1 -> Bytes]
<1> DEFINE z == Zeros(2 * Beat)
           d == z \o text
<1>1. z \in Seq(0 .. 15) /\ Len(z) = 2 * Beat /\ \A k \in 1 .. 2 * Beat : z[k] = 0
  BY ZerosSeq, Widths
<1>2. Len(d) = 2 * Beat + Len(text) /\ Len(text) \in Nat
  BY <1>1, Widths
<1>3. ASSUME NEW k \in 0 .. 2 * Beat - 1
      PROVE  d[Len(d) - k] = Digit(text, k) /\ Digit(text, k) \in 0 .. 15
  <2> HIDE DEF z
  <2>1. CASE k < Len(text)
    <3>1. Len(text) - k \in 1 .. Len(text) /\ k \in Nat /\ 2 * Beat \in Nat
      BY <1>2, <2>1, Widths
    <3>2. Len(d) - k = Len(z) + (Len(text) - k)
      BY <1>1, <1>2, <3>1
    <3>3. d[Len(z) + (Len(text) - k)] = text[Len(text) - k]
      BY <1>1, <1>2, <3>1
    <3>4. text[Len(text) - k] \in 0 .. 15
      <4>1. \A i \in 1 .. Len(text) : text[i] \in 0 .. 15
        OBVIOUS
      <4> QED BY <3>1, <4>1
    <3> QED BY <2>1, <3>2, <3>3, <3>4 DEF Digit
  <2>2. CASE ~(k < Len(text))
    BY <1>1, <1>2, <2>2, Widths DEF Digit
  <2> QED BY <2>1, <2>2
<1>4. Value(text) = [b \in 0 .. Beat - 1 |-> (16 * d[Len(d) - (2 * b) - 1]) + d[Len(d) - (2 * b)]]
  BY DEF Value
<1> HIDE DEF d, z
<1>5. ASSUME NEW b \in 0 .. Beat - 1
      PROVE  /\ (16 * d[Len(d) - (2 * b) - 1]) + d[Len(d) - (2 * b)]
                  = 16 * Digit(text, 2 * b + 1) + Digit(text, 2 * b)
             /\ 16 * Digit(text, 2 * b + 1) + Digit(text, 2 * b) \in Bytes
  <2>1. /\ d[Len(d) - (2 * b + 1)] = Digit(text, 2 * b + 1) /\ Digit(text, 2 * b + 1) \in 0 .. 15
        /\ d[Len(d) - 2 * b] = Digit(text, 2 * b) /\ Digit(text, 2 * b) \in 0 .. 15
    BY <1>3, Widths
  <2>2. Len(d) - (2 * b + 1) = Len(d) - (2 * b) - 1
    BY <1>2, Widths
  <2> DEFINE hi == Digit(text, 2 * b + 1)
             lo == Digit(text, 2 * b)
  <2>3. d[Len(d) - (2 * b) - 1] = hi /\ d[Len(d) - (2 * b)] = lo
    BY <2>1, <2>2, Zenon
  <2>4. hi \in 0 .. 15 /\ lo \in 0 .. 15
    BY <2>1
  <2> HIDE DEF hi, lo
  <2>5. 16 * hi + lo \in Bytes
    BY <2>4 DEF Bytes
  <2> QED BY <2>3, <2>5 DEF hi, lo
<1> QED BY <1>4, <1>5

\* A text of full width with the digits of another one.
Restored(text, full) ==
  /\ full \in Seq(0 .. 15) /\ Len(full) = 2 * Beat
  /\ \A k \in 0 .. 2 * Beat - 1 : full[2 * Beat - k] = Digit(text, k)

\* Digits are numbers.
LEMMA TextIsInt ==
  ASSUME NEW text \in Seq(0 .. 15)
  PROVE  text \in Seq(Int)
<1>1. Len(text) \in Nat /\ \A i \in 1 .. Len(text) : text[i] \in Int
  OBVIOUS
<1>2. text = [i \in 1 .. Len(text) |-> text[i]]
  OBVIOUS
<1> QED BY <1>1, <1>2

\* Padding a short number to full width keeps its digits.
LEMMA PadRestores ==
  ASSUME NEW text \in Seq(0 .. 15), Len(text) <= 2 * Beat
  PROVE  Restored(text, Pad(text))
<1> DEFINE z == Zeros(2 * Beat - Len(text))
<1>0. 2 * Beat - Len(text) \in Nat /\ Len(text) \in Nat
  BY Widths
<1>1. /\ z \in Seq(0 .. 15) /\ Len(z) = 2 * Beat - Len(text) /\ Len(text) \in Nat
      /\ \A k \in 1 .. 2 * Beat - Len(text) : z[k] = 0
  BY <1>0, ZerosSeq
<1>2. Pad(text) = z \o text
  BY DEF Pad
<1> HIDE DEF z
<1> QED BY <1>1, <1>2, Widths DEF Restored, Digit

\* The end of a sequence, from an element on.
LEMMA Rest ==
  ASSUME NEW S, NEW s \in Seq(S), NEW m \in 1 .. Len(s)
  PROVE  LET r == SubSeq(s, m, Len(s))
         IN  /\ r \in Seq(S) /\ Len(r) = Len(s) - m + 1
             /\ \A i \in 1 .. Len(s) - m + 1 : r[i] = s[m + i - 1]
<1>1. Len(s) \in Nat /\ \A i \in 1 .. Len(s) : s[i] \in S
  OBVIOUS
<1>2. Len(SubSeq(s, m, Len(s))) = Len(s) - m + 1
  BY <1>1
<1>3. \A i \in 1 .. Len(s) - m + 1 : SubSeq(s, m, Len(s))[i] = s[m + i - 1]
  BY <1>1
<1>4. SubSeq(s, m, Len(s)) \in Seq(S)
  BY <1>1
<1> QED BY <1>2, <1>3, <1>4

\* So does Source, which also cuts a long one.
LEMMA FormatRestores ==
  ASSUME NEW text \in Seq(0 .. 15)
  PROVE  Restored(text, Format(text))
<1>1. CASE Len(text) <= 2 * Beat
  BY <1>1, PadRestores DEF Format
<1>2. CASE ~(Len(text) <= 2 * Beat)
  <2>1. Format(text) = SubSeq(text, Len(text) - (2 * Beat) + 1, Len(text))
    BY <1>2 DEF Format
  <2>2. PICK w, n, m : w = 2 * Beat /\ n = Len(text) /\ m = n - w + 1
    OBVIOUS
  <2>3. w \in Nat \ {0} /\ n \in Nat /\ m \in 1 .. n /\ n - m + 1 = w /\ w <= n
    BY <1>2, <2>2, Widths
  <2>t. n = Len(text)
    BY <2>2
  <2> DEFINE short == SubSeq(text, m, n)
  <2>4. /\ short \in Seq(0 .. 15) /\ Len(short) = n - m + 1
        /\ \A i \in 1 .. n - m + 1 : short[i] = text[m + i - 1]
    BY <2>3, <2>t, Rest
  <2>5. Format(text) = short
    BY <2>1, <2>2
  <2> HIDE DEF short
  <2>6. ASSUME NEW k \in 0 .. w - 1
        PROVE  short[w - k] = Digit(text, k)
    <3>1. w - k \in 1 .. n - m + 1 /\ m + (w - k) - 1 = n - k /\ k < n
      BY <2>3
    <3>2. short[w - k] = text[n - k]
      BY <2>4, <3>1
    <3> QED BY <2>2, <3>1, <3>2 DEF Digit
  <2>7. Len(short) = 2 * Beat
    BY <2>2, <2>3, <2>4
  <2>8. \A k \in 0 .. 2 * Beat - 1 : short[2 * Beat - k] = Digit(text, k)
    BY <2>2, <2>6
  <2> QED BY <2>4, <2>5, <2>7, <2>8 DEF Restored
<1> QED BY <1>1, <1>2

\* The ports get the value of the number, whatever its length.
LEMMA PortsOf ==
  ASSUME NEW text \in Seq(0 .. 15), NEW full, Restored(text, full)
  PROVE  [b \in 0 .. Beat - 1 |->
            (16 * full[((2 * Beat) - 1) - (2 * b)]) + full[((2 * Beat) - 1) + 1 - (2 * b)]]
           = Value(text)
<1>1. ASSUME NEW b \in 0 .. Beat - 1
      PROVE  /\ full[((2 * Beat) - 1) - (2 * b)] = Digit(text, 2 * b + 1)
             /\ full[((2 * Beat) - 1) + 1 - (2 * b)] = Digit(text, 2 * b)
  <2>1. /\ ((2 * Beat) - 1) - (2 * b) = 2 * Beat - (2 * b + 1)
        /\ ((2 * Beat) - 1) + 1 - (2 * b) = 2 * Beat - (2 * b)
        /\ 2 * b + 1 \in 0 .. 2 * Beat - 1 /\ 2 * b \in 0 .. 2 * Beat - 1
    BY Widths
  <2> QED BY <2>1 DEF Restored
<1> QED BY <1>1, ValueDigits

-----------------------------------------------------------------------------
(* Data that is printed and read again                                      *)

\* All digits of the bytes of a beat, the highest first.
Full(data) ==
  [n \in 1 .. 2 * Beat |->
     LET byte == data[Beat - ((n + 1) \div 2)]
     IN  IF n % 2 = 1 THEN byte \div 16 ELSE byte % 16]

Data == [0 .. Beat - 1 -> Bytes]

\* Two digits make up each byte.
LEMMA FullDigits ==
  ASSUME NEW data \in Data
  PROVE  /\ Full(data) \in Seq(0 .. 15) /\ Len(Full(data)) = 2 * Beat
         /\ \A j \in 0 .. Beat - 1 :
              /\ 2 * j + 1 \in 1 .. 2 * Beat /\ 2 * j + 2 \in 1 .. 2 * Beat
              /\ Full(data)[2 * j + 1] = data[Beat - 1 - j] \div 16
              /\ Full(data)[2 * j + 2] = data[Beat - 1 - j] % 16
              /\ 16 * Full(data)[2 * j + 1] + Full(data)[2 * j + 2] = data[Beat - 1 - j]
<1>1. ASSUME NEW n \in 1 .. 2 * Beat
      PROVE  Full(data)[n] \in 0 .. 15
  <2> DEFINE i == Beat - ((n + 1) \div 2)
  <2>1. i \in 0 .. Beat - 1
    BY Widths
  <2>2. data[i] \in 0 .. 255
    BY <2>1 DEF Data, Bytes
  <2>3. Full(data)[n] = IF n % 2 = 1 THEN data[i] \div 16 ELSE data[i] % 16
    BY DEF Full
  <2> HIDE DEF i
  <2> QED BY <2>2, <2>3
<1>2. Full(data) \in Seq(0 .. 15) /\ Len(Full(data)) = 2 * Beat
  <2>1. DOMAIN Full(data) = 1 .. 2 * Beat /\ Full(data) \in [1 .. 2 * Beat -> 0 .. 15]
    BY <1>1 DEF Full
  <2> QED BY <2>1, Widths
<1>3. ASSUME NEW j \in 0 .. Beat - 1
      PROVE  /\ 2 * j + 1 \in 1 .. 2 * Beat /\ 2 * j + 2 \in 1 .. 2 * Beat
             /\ Full(data)[2 * j + 1] = data[Beat - 1 - j] \div 16
             /\ Full(data)[2 * j + 2] = data[Beat - 1 - j] % 16
             /\ 16 * Full(data)[2 * j + 1] + Full(data)[2 * j + 2] = data[Beat - 1 - j]
  <2> DEFINE byte == data[Beat - 1 - j]
  <2>1. /\ 2 * j + 1 \in 1 .. 2 * Beat /\ 2 * j + 2 \in 1 .. 2 * Beat
        /\ (2 * j + 1) % 2 = 1 /\ (2 * j + 2) % 2 = 0
        /\ Beat - (((2 * j + 1) + 1) \div 2) = Beat - 1 - j
        /\ Beat - (((2 * j + 2) + 1) \div 2) = Beat - 1 - j
    BY Widths
  <2>2. Full(data)[2 * j + 1] = byte \div 16 /\ Full(data)[2 * j + 2] = byte % 16
    BY <2>1 DEF Full
  <2>3. byte \in 0 .. 255
    BY Widths DEF Data, Bytes
  <2> HIDE DEF byte
  <2>4. 16 * (byte \div 16) + (byte % 16) = byte
    BY <2>3
  <2> QED BY <2>1, <2>2, <2>4 DEF byte
<1> QED BY <1>2, <1>3

\* Reading all digits gives the data back.
LEMMA ValueFull ==
  ASSUME NEW data \in Data
  PROVE  Value(Full(data)) = data
<1>1. /\ Full(data) \in Seq(0 .. 15) /\ Len(Full(data)) = 2 * Beat
      /\ data = [b \in 0 .. Beat - 1 |-> data[b]]
  BY FullDigits DEF Data
<1>2. ASSUME NEW b \in 0 .. Beat - 1
      PROVE  16 * Digit(Full(data), 2 * b + 1) + Digit(Full(data), 2 * b) = data[b]
  <2> DEFINE j == Beat - 1 - b
             f == Full(data)
  <2>1. j \in 0 .. Beat - 1 /\ 2 * b + 1 < 2 * Beat /\ 2 * b < 2 * Beat
    BY Widths
  <2>2. 2 * Beat - (2 * b + 1) = 2 * j + 1 /\ 2 * Beat - 2 * b = 2 * j + 2
        /\ Beat - 1 - j = b
    BY Widths
  <2>3. Digit(f, 2 * b + 1) = f[2 * j + 1] /\ Digit(f, 2 * b) = f[2 * j + 2]
    BY <1>1, <2>1, <2>2 DEF Digit
  <2>4. 16 * f[2 * j + 1] + f[2 * j + 2] = data[Beat - 1 - j]
    BY <2>1, FullDigits
  <2> HIDE DEF j, f
  <2>5. 16 * Digit(f, 2 * b + 1) + Digit(f, 2 * b) = data[b]
    BY <2>2, <2>3, <2>4, Zenon
  <2> QED BY <2>5 DEF f
<1> QED BY <1>1, <1>2, ValueDigits

\* The extractor undoes what printing does to the leading digits.
LEMMA TrimPrinted ==
  ASSUME NEW data \in Data
  PROVE  Trim(Printed(data)) = Full(data) /\ Printed(data) \in Seq(0 .. 15)
<1> DEFINE d == Full(data)
           w == 2 * Beat
           S == {n \in DOMAIN d : d[n] # 0} \cup {w}
           first == Min(S)
           short == SubSeq(d, first, w)
<1>1. Printed(data) = IF Head(short) >= 8 THEN <<0>> \o short ELSE short
  BY DEF Printed, Full
<1>2. d \in Seq(0 .. 15) /\ Len(d) = w /\ w \in Nat \ {0, 1}
  BY FullDigits, Widths
<1>3. first \in 1 .. w /\ \A n \in 1 .. first - 1 : d[n] = 0
  <2>1. S \in SUBSET Nat /\ S # {} /\ S \subseteq 1 .. w
    BY <1>2
  <2>2. first \in S /\ \A n \in S : first <= n
    <3> HIDE DEF S
    <3> QED BY <2>1, MinOf
  <2> HIDE DEF first
  <2> QED BY <1>2, <2>1, <2>2
<1>t. ASSUME NEW t \in Seq(0 .. 15)
      PROVE  /\ Len(t) < w => Trim(t) = Pad(t)
             /\ Len(t) > w => Trim(t) = Tail(t)
             /\ Len(t) = w => Trim(t) = t
  BY Widths DEF Trim
<1> HIDE DEF d, w, S, first
<1>4. /\ short \in Seq(0 .. 15) /\ Len(short) = w - first + 1
      /\ \A k \in 1 .. w - first + 1 : short[k] = d[first + k - 1]
  BY <1>2, <1>3
<1> HIDE DEF short
<1>5. Pad(short) = d
  <2> DEFINE z == Zeros(w - Len(short))
  <2>1. w - Len(short) = first - 1 /\ first - 1 \in Nat
    BY <1>2, <1>3, <1>4
  <2>2. z \in Seq(0 .. 15) /\ Len(z) = first - 1 /\ \A k \in 1 .. first - 1 : z[k] = 0
    BY <2>1, ZerosSeq
  <2>3. Pad(short) = z \o short
    BY DEF Pad, w
  <2> HIDE DEF z
  <2>4. z \o short \in Seq(0 .. 15) /\ Len(z \o short) = w
    BY <1>2, <1>3, <1>4, <2>2
  <2>5. ASSUME NEW n \in 1 .. w
        PROVE  (z \o short)[n] = d[n]
    <3>1. CASE n <= first - 1
      BY <1>3, <1>4, <2>2, <3>1
    <3>2. CASE ~(n <= first - 1)
      <4>1. (z \o short)[n] = short[n - (first - 1)]
        BY <1>2, <1>3, <1>4, <2>2, <3>2
      <4>2. n - (first - 1) \in 1 .. w - first + 1
        BY <1>2, <1>3, <3>2
      <4>3. short[n - (first - 1)] = d[first + (n - (first - 1)) - 1]
        BY <1>4, <4>2
      <4>4. first + (n - (first - 1)) - 1 = n
        BY <1>3
      <4> QED BY <4>1, <4>3, <4>4
    <3> QED BY <3>1, <3>2
  <2> QED BY <1>2, <2>3, <2>4, <2>5
<1>6. ASSUME ~(Head(short) >= 8) PROVE Trim(Printed(data)) = d
  <2>1. Printed(data) = short
    BY <1>1, <1>6
  <2>2. CASE first = 1
    <3>1. Len(short) = w /\ \A k \in 1 .. w : short[k] = d[k]
      BY <1>2, <1>4, <2>2
    <3>2. short = d
      BY <1>2, <1>4, <3>1
    <3> QED BY <1>4, <1>t, <2>1, <3>1, <3>2 DEF d
  <2>3. CASE first # 1
    <3>1. Len(short) < w
      BY <1>2, <1>3, <1>4, <2>3
    <3> QED BY <1>4, <1>5, <1>t, <2>1, <3>1 DEF d
  <2> QED BY <2>2, <2>3
<1>7. ASSUME Head(short) >= 8 PROVE Trim(Printed(data)) = d
  <2> DEFINE long == <<0>> \o short
  <2>1. Printed(data) = long
    BY <1>1, <1>7
  <2>2. /\ long \in Seq(0 .. 15) /\ Len(long) = w - first + 2 /\ Tail(long) = short
        /\ long[1] = 0 /\ \A k \in 1 .. w - first + 1 : long[k + 1] = short[k]
    BY <1>2, <1>3, <1>4
  <2> HIDE DEF long
  <2>3. CASE first = 1
    <3>1. Len(long) > w /\ \A k \in 1 .. w : short[k] = d[k]
      BY <1>2, <1>4, <2>2, <2>3
    <3>2. short = d
      BY <1>2, <1>4, <2>3, <3>1
    <3> QED BY <1>t, <2>1, <2>2, <3>1, <3>2 DEF d
  <2>4. CASE first = 2
    <3>1. Len(long) = w /\ d[1] = 0 /\ \A k \in 2 .. w : long[k] = d[k]
      <4>1. ASSUME NEW k \in 2 .. w
            PROVE  long[k] = d[k]
        <5>1. k - 1 \in 1 .. w - first + 1 /\ (k - 1) + 1 = k /\ first + (k - 1) - 1 = k
          BY <1>2, <2>4
        <5>2. long[(k - 1) + 1] = short[k - 1] /\ short[k - 1] = d[first + (k - 1) - 1]
          BY <1>4, <2>2, <5>1
        <5> QED BY <5>1, <5>2
      <4> QED BY <1>2, <1>3, <2>2, <2>4, <4>1
    <3>2. long = d
      BY <1>2, <2>2, <3>1
    <3> QED BY <1>t, <2>1, <2>2, <3>1, <3>2 DEF d
  <2>5. CASE first > 2
    <3>1. Len(long) < w /\ Len(short) < w /\ w - Len(long) = first - 2
      BY <1>2, <1>3, <1>4, <2>2, <2>5
    <3>2. Pad(long) = d
      <4> DEFINE z == Zeros(w - Len(long))
      <4>1. z \in Seq(0 .. 15) /\ Len(z) = first - 2 /\ \A k \in 1 .. first - 2 : z[k] = 0
        BY <1>3, <2>5, <3>1, ZerosSeq
      <4>2. Pad(long) = z \o long
        BY DEF Pad, w
      <4> HIDE DEF z
      <4>3. z \o long \in Seq(0 .. 15) /\ Len(z \o long) = w
        <5>1. z \in Seq(0 .. 15) /\ long \in Seq(0 .. 15)
          BY <2>2, <4>1
        <5>2. z \o long \in Seq(0 .. 15) /\ Len(z \o long) = Len(z) + Len(long)
          BY <5>1
        <5> QED BY <1>2, <1>3, <2>2, <4>1, <5>2
      <4>4. ASSUME NEW n \in 1 .. w
            PROVE  (z \o long)[n] = d[n]
        <5>1. CASE n <= first - 2
          BY <1>3, <2>2, <2>5, <4>1, <5>1
        <5>2. CASE n = first - 1
          BY <1>2, <1>3, <2>2, <2>5, <4>1, <5>2
        <5>3. CASE n > first - 1
          <6>1. (z \o long)[n] = long[n - (first - 2)]
            BY <1>2, <1>3, <2>2, <2>5, <4>1, <5>3
          <6>2. /\ n - first + 1 \in 1 .. w - first + 1
                /\ (n - first + 1) + 1 = n - (first - 2)
                /\ first + (n - first + 1) - 1 = n
            BY <1>2, <1>3, <5>3
          <6>3. /\ long[(n - first + 1) + 1] = short[n - first + 1]
                /\ short[n - first + 1] = d[first + (n - first + 1) - 1]
            BY <1>4, <2>2, <6>2
          <6> QED BY <6>1, <6>2, <6>3
        <5>4. n <= first - 2 \/ n = first - 1 \/ n > first - 1
          BY <1>2, <1>3, <2>5
        <5> QED BY <5>1, <5>2, <5>3, <5>4, Zenon
      <4> QED BY <1>2, <4>2, <4>3, <4>4
    <3> QED BY <1>t, <2>1, <2>2, <3>1, <3>2 DEF d
  <2> QED BY <1>3, <2>3, <2>4, <2>5
<1>8. Printed(data) \in Seq(0 .. 15)
  <2>1. short \in Seq(0 .. 15) /\ <<0>> \o short \in Seq(0 .. 15)
    BY <1>4
  <2> QED BY <1>1, <2>1
<1> QED BY <1>6, <1>7, <1>8 DEF d

-----------------------------------------------------------------------------
(* Addresses                                                                *)

\* The program that is run, which never changes.
ProgramOK ==
  /\ kind \in {"lstm", "attention", "conv"}
  /\ prog \in Seq([mode : {"W", "R"}, addr : Addresses(kind), text : Seq(0 .. 15)])
  /\ kind = "conv" => \A n \in DOMAIN prog : Len(prog[n].text) <= 2 * Beat

BufferOf(addr) == Place(addr)[1]
Offset(addr)   == Place(addr)[2]

Buffers == {"large", "small", "spad"}
Base(m) == IF m = "large" THEN Large ELSE IF m = "small" THEN Small ELSE Spad1

\* A beat lies within the memory.
LEMMA Beats ==
  ASSUME NEW n \in 0 .. (Size \div Beat) - 1
  PROVE  n * Beat \in Nat /\ n * Beat + Beat <= Size
<1> DEFINE q == Size \div Beat
<1>1. q \in Nat /\ q * Beat = Size
  BY BeatAssumption
<1> HIDE DEF q
<1>2. n \in Nat /\ n + 1 <= q
  BY <1>1 DEF q
<1>3. PICK k \in Nat : q = n + 1 + k
  <2>1. q - n - 1 \in Nat /\ q = n + 1 + (q - n - 1)
    BY <1>1, <1>2
  <2> QED BY <2>1
<1>4. k * Beat \in Nat /\ n * Beat \in Nat
  BY <1>2, Widths
<1>5. Size = n * Beat + Beat + k * Beat
  BY <1>1, <1>2, <1>3, Widths
<1> QED BY <1>4, <1>5, Widths

\* Where the two buffers of flex lie, as the simulators and as the comparison see it.
LEMMA Layout ==
  ASSUME NEW off \in Nat, off < Mega
  PROVE  /\ Large \in Nat /\ Small \in Nat /\ Spad1 \in Nat /\ Mega \in Nat
         /\ ~(Large + off >= Small) /\ Small + off >= Small
         /\ (Large + off) % (16 * Mega) < 6 * Mega /\ (Large + off) % Mega = off
         /\ ~((Small + off) % (16 * Mega) < 6 * Mega) /\ (Small + off) % Mega = off
BY SMT DEF Large, Small, Spad1, Mega

\* The place of an address: its buffer and, from the beginning of that, its beat.
LEMMA Places ==
  ASSUME ProgramOK, NEW addr \in Addresses(kind)
  PROVE  /\ BufferOf(addr) \in Buffers /\ addr = Base(BufferOf(addr)) + Offset(addr)
         /\ \E n \in Nat : Offset(addr) = n * Beat
         /\ Offset(addr) \in Nat /\ Offset(addr) + Beat <= Size
         /\ kind = "conv" => BufferOf(addr) = "spad" /\ addr - Spad1 = Offset(addr)
         /\ kind # "conv" => Buffer(addr) = BufferOf(addr) /\ addr % Mega = Offset(addr)
<1>1. PICK base \in {Large, Small, Spad1}, n \in 0 .. (Size \div Beat) - 1 :
        /\ addr = base + (n * Beat)
        /\ kind = "conv" => base = Spad1
        /\ kind = "attention" => base \in {Large, Small}
        /\ kind = "lstm" => base = Large
  BY SMT DEF Addresses, ProgramOK
<1> DEFINE off == n * Beat
<1>2. off \in Nat /\ off + Beat <= Size /\ Beat \in Nat \ {0} /\ n \in Nat
  BY Beats, Widths
<1>3. Size <= Mega /\ Size \in Nat
  BY BeatAssumption
<1>4. addr = base + off /\ \E k \in Nat : off = k * Beat
  BY <1>1, <1>2
<1> HIDE DEF off
<1>5. off < Mega
  <2>1. Mega \in Nat
    BY SMT DEF Mega
  <2> QED BY <1>2, <1>3, <2>1
<1>6. /\ Large \in Nat /\ Small \in Nat /\ Spad1 \in Nat
      /\ ~(Large + off >= Small) /\ Small + off >= Small
      /\ (Large + off) % (16 * Mega) < 6 * Mega /\ (Large + off) % Mega = off
      /\ ~((Small + off) % (16 * Mega) < 6 * Mega) /\ (Small + off) % Mega = off
  BY <1>2, <1>5, Layout
<1>7. CASE kind = "conv"
  <2>1. base = Spad1 /\ addr - Spad1 = off
    BY <1>1, <1>2, <1>4, <1>6, <1>7
  <2>2. BufferOf(addr) = "spad" /\ Offset(addr) = off
    BY <1>7, <2>1 DEF BufferOf, Offset, Place
  <2>3. Base("spad") = Spad1 /\ "spad" \in Buffers
    BY DEF Base, Buffers
  <2> QED BY <1>2, <1>4, <1>7, <2>1, <2>2, <2>3
<1>8. CASE kind # "conv" /\ base = Large
  <2>1. addr = Large + off /\ addr - Large = off
    BY <1>2, <1>4, <1>6, <1>8
  <2>2. BufferOf(addr) = "large" /\ Offset(addr) = off
    BY <1>6, <1>8, <2>1 DEF BufferOf, Offset, Place
  <2>3. Base("large") = Large /\ "large" \in Buffers
    BY DEF Base, Buffers
  <2>4. Buffer(addr) = "large" /\ addr % Mega = off
    BY <1>6, <2>1 DEF Buffer
  <2> QED BY <1>2, <1>4, <1>8, <2>1, <2>2, <2>3, <2>4
<1>9. CASE kind # "conv" /\ base = Small
  <2>1. addr = Small + off /\ addr - Small = off
    BY <1>2, <1>4, <1>6, <1>9
  <2>2. BufferOf(addr) = "small" /\ Offset(addr) = off
    BY <1>6, <1>9, <2>1 DEF BufferOf, Offset, Place
  <2>3. Base("small") = Small /\ "small" \in Buffers
    BY DEF Base, Buffers
  <2>4. Small # Large
    BY <1>2, <1>6
  <2>5. kind # "lstm"
    BY <1>1, <1>9, <2>4
  <2>6. Buffer(addr) = "small" /\ addr % Mega = off
    BY <1>6, <2>1, <2>5 DEF Buffer
  <2> QED BY <1>2, <1>4, <1>9, <2>1, <2>2, <2>3, <2>6
<1>10. kind # "conv" => base \in {Large, Small}
  BY <1>1 DEF ProgramOK
<1> QED BY <1>7, <1>8, <1>9, <1>10

\* Beats at different addresses do not overlap.
LEMMA Apart ==
  ASSUME ProgramOK, NEW x \in Addresses(kind), NEW y \in Addresses(kind),
         BufferOf(x) = BufferOf(y), NEW b \in 0 .. Beat - 1,
         (Offset(x) + b) - Offset(y) \in 0 .. Beat - 1
  PROVE  x = y
<1>1. PICK n \in Nat, k \in Nat : Offset(x) = n * Beat /\ Offset(y) = k * Beat
  BY Places
<1>2. n = k
  <2> DEFINE nb == n * Beat
             kb == k * Beat
  <2>1. nb \in Nat /\ kb \in Nat /\ (nb + b) - kb \in 0 .. Beat - 1 /\ Beat \in Nat \ {0}
    BY <1>1, Widths
  <2>2. CASE n < k
    <3>1. PICK d \in Nat : k = n + 1 + d
      <4>1. k - n - 1 \in Nat /\ k = n + 1 + (k - n - 1)
        BY <2>2
      <4> QED BY <4>1
    <3>2. d * Beat \in Nat /\ kb = nb + Beat + d * Beat
      BY <3>1, Widths
    <3> HIDE DEF nb, kb
    <3> QED BY <2>1, <3>2
  <2>3. CASE k < n
    <3>1. PICK d \in Nat : n = k + 1 + d
      <4>1. n - k - 1 \in Nat /\ n = k + 1 + (n - k - 1)
        BY <2>3
      <4> QED BY <4>1
    <3>2. d * Beat \in Nat /\ nb = kb + Beat + d * Beat
      BY <3>1, Widths
    <3> HIDE DEF nb, kb
    <3> QED BY <2>1, <3>2
  <2> QED BY <2>2, <2>3
<1>3. Offset(x) = Offset(y)
  BY <1>1, <1>2
<1>4. x = Base(BufferOf(x)) + Offset(x) /\ y = Base(BufferOf(y)) + Offset(y)
  BY Places
<1> QED BY <1>3, <1>4

-----------------------------------------------------------------------------
(* What a memory holds after n commands of the program                      *)

\* Command k writes cell b of buffer m, and the commands up to n that do.
Covers(k, m, b) ==
  /\ prog[k].mode = "W" /\ BufferOf(prog[k].addr) = m
  /\ b - Offset(prog[k].addr) \in 0 .. Beat - 1
Writers(m, b, n) == {k \in 1 .. n : Covers(k, m, b)}

\* The byte that the last of them wrote.
Written(k, b) == Value(prog[k].text)[b - Offset(prog[k].addr)]
Content(m, b, n) ==
  IF Writers(m, b, n) = {} THEN 0 ELSE Written(Max(Writers(m, b, n)), b)

MemType == [Buffers -> [0 .. Size - 1 -> Bytes]]
Holds(mem, n) ==
  /\ mem \in MemType
  /\ \A m \in Buffers : \A b \in 0 .. Size - 1 : mem[m][b] = Content(m, b, n)

\* What a command of the program is.
LEMMA CommandType ==
  ASSUME ProgramOK, NEW k \in 1 .. Len(prog)
  PROVE  /\ prog[k].mode \in {"W", "R"} /\ prog[k].addr \in Addresses(kind)
         /\ prog[k].text \in Seq(0 .. 15) /\ Value(prog[k].text) \in Data
         /\ kind = "conv" => Len(prog[k].text) <= 2 * Beat
         /\ Len(prog) \in Nat /\ DOMAIN prog = 1 .. Len(prog)
<1> DEFINE S == [mode : {"W", "R"}, addr : Addresses(kind), text : Seq(0 .. 15)]
<1>1. prog[k] \in S /\ Len(prog) \in Nat /\ DOMAIN prog = 1 .. Len(prog)
  <2>1. prog \in Seq(S)
    BY DEF ProgramOK
  <2> HIDE DEF S
  <2> QED BY <2>1
<1>2. prog[k].text \in Seq(0 .. 15)
  BY <1>1
<1> QED BY <1>1, <1>2, ValueDigits DEF ProgramOK, Data

\* One more command: what it covers, it writes.
LEMMA ContentNext ==
  ASSUME NEW m, NEW b, NEW n \in Nat
  PROVE  Content(m, b, n + 1) = IF Covers(n + 1, m, b) THEN Written(n + 1, b) ELSE Content(m, b, n)
<1>1. CASE Covers(n + 1, m, b)
  <2> DEFINE S == Writers(m, b, n + 1)
  <2>1. S \in SUBSET Int /\ n + 1 \in S /\ \A y \in S : y <= n + 1
    BY <1>1 DEF Writers
  <2>2. Max(S) = n + 1
    <3> HIDE DEF S
    <3> QED BY <2>1, MaxIs
  <2>3. S # {}
    BY <2>1
  <2> QED BY <1>1, <2>2, <2>3 DEF Content
<1>2. CASE ~Covers(n + 1, m, b)
  <2>1. Writers(m, b, n + 1) = Writers(m, b, n)
    BY <1>2 DEF Writers
  <2> QED BY <1>2, <2>1 DEF Content
<1> QED BY <1>1, <1>2

\* At first all memories are zero.
LEMMA MemoriesHold == Holds(Memories, 0)
<1>1. Memories \in MemType
  BY Widths DEF Memories, MemType, Buffers, Bytes
<1>2. ASSUME NEW m \in Buffers, NEW b \in 0 .. Size - 1
      PROVE  Memories[m][b] = Content(m, b, 0)
  <2>1. Writers(m, b, 0) = {}
    BY DEF Writers
  <2>2. Memories[m][b] = 0
    BY DEF Memories, Buffers
  <2> QED BY <2>1, <2>2 DEF Content
<1> QED BY <1>1, <1>2 DEF Holds

\* A write changes the bytes of its beat and no others.
LEMMA StoreEffect ==
  ASSUME ProgramOK, NEW mem \in MemType, NEW addr \in Addresses(kind), NEW data \in Data
  PROVE  /\ Store(mem, addr, data) \in MemType
         /\ \A m \in Buffers : \A b \in 0 .. Size - 1 :
              Store(mem, addr, data)[m][b] =
                IF BufferOf(addr) = m /\ b - Offset(addr) \in 0 .. Beat - 1
                THEN data[b - Offset(addr)] ELSE mem[m][b]
<1> DEFINE new == [b \in 0 .. Size - 1 |->
                     IF b - Offset(addr) \in 0 .. Beat - 1 THEN data[b - Offset(addr)]
                     ELSE mem[BufferOf(addr)][b]]
<1>1. BufferOf(addr) \in Buffers /\ Offset(addr) \in Nat
  BY Places
<1>2. DOMAIN mem[BufferOf(addr)] = 0 .. Size - 1
  BY <1>1 DEF MemType
<1>3. Store(mem, addr, data) = [mem EXCEPT ![BufferOf(addr)] = new]
  BY <1>2 DEF Store, BufferOf, Offset
<1>4. new \in [0 .. Size - 1 -> Bytes]
  BY <1>1 DEF MemType, Data
<1>5. \A b \in 0 .. Size - 1 :
        new[b] = IF b - Offset(addr) \in 0 .. Beat - 1 THEN data[b - Offset(addr)]
                 ELSE mem[BufferOf(addr)][b]
  OBVIOUS
<1> HIDE DEF new
<1>6. Store(mem, addr, data) \in MemType
  BY <1>1, <1>3, <1>4 DEF MemType
<1>7. \A m \in Buffers : Store(mem, addr, data)[m] = IF m = BufferOf(addr) THEN new ELSE mem[m]
  BY <1>1, <1>3 DEF MemType
<1> QED BY <1>5, <1>6, <1>7

\* Executing the next command, with the data it has in the program.
LEMMA StoreHolds ==
  ASSUME ProgramOK, NEW n \in Nat, n < Len(prog), NEW mem, Holds(mem, n)
  PROVE  Holds(IF prog[n + 1].mode = "W" THEN Store(mem, prog[n + 1].addr, Value(prog[n + 1].text))
               ELSE mem, n + 1)
<1>1. /\ n + 1 \in 1 .. Len(prog) /\ mem \in MemType
      /\ prog[n + 1].addr \in Addresses(kind) /\ Value(prog[n + 1].text) \in Data
  BY CommandType DEF ProgramOK, Holds
<1>2. CASE prog[n + 1].mode = "W"
  <2> DEFINE new == Store(mem, prog[n + 1].addr, Value(prog[n + 1].text))
  <2>1. new \in MemType
    BY <1>1, StoreEffect
  <2>2. ASSUME NEW m \in Buffers, NEW b \in 0 .. Size - 1
        PROVE  new[m][b] = Content(m, b, n + 1)
    <3>1. new[m][b] = IF Covers(n + 1, m, b) THEN Written(n + 1, b) ELSE mem[m][b]
      BY <1>1, <1>2, StoreEffect DEF Covers, Written
    <3> QED BY <3>1, ContentNext DEF Holds
  <2> QED BY <1>2, <2>1, <2>2 DEF Holds
<1>3. CASE prog[n + 1].mode # "W"
  <2>1. \A m, b : ~Covers(n + 1, m, b)
    BY <1>3 DEF Covers
  <2> QED BY <1>1, <1>3, <2>1, ContentNext DEF Holds
<1> QED BY <1>2, <1>3

\* A beat holds what was last written to its address.
LEMMA ContentBefore ==
  ASSUME ProgramOK, NEW addr \in Addresses(kind), NEW n \in 1 .. Len(prog) + 1
  PROVE  /\ Before(addr, n) \in Data
         /\ \A b \in 0 .. Beat - 1 :
              Before(addr, n)[b] = Content(BufferOf(addr), Offset(addr) + b, n - 1)
<1> DEFINE ws == {k \in WritesTo(addr) : k < n}
<1>1. Len(prog) \in Nat /\ DOMAIN prog = 1 .. Len(prog) /\ Offset(addr) \in Nat
  BY Places DEF ProgramOK
<1>2. ws \in SUBSET (1 .. n - 1) /\ ws \subseteq 1 .. Len(prog) /\ n - 1 \in Nat
  BY <1>1 DEF WritesTo
<1>3. \A k \in ws : prog[k].mode = "W" /\ prog[k].addr = addr
  BY DEF WritesTo
<1>4. ASSUME NEW b \in 0 .. Beat - 1
      PROVE  Writers(BufferOf(addr), Offset(addr) + b, n - 1) = ws
  <2>1. ASSUME NEW k \in ws
        PROVE  k \in Writers(BufferOf(addr), Offset(addr) + b, n - 1)
    BY <1>1, <1>2, <1>3, <2>1 DEF Writers, Covers
  <2>2. ASSUME NEW k \in Writers(BufferOf(addr), Offset(addr) + b, n - 1)
        PROVE  k \in ws
    <3>1. /\ k \in 1 .. Len(prog) /\ k < n /\ prog[k].mode = "W"
          /\ BufferOf(addr) = BufferOf(prog[k].addr)
          /\ (Offset(addr) + b) - Offset(prog[k].addr) \in 0 .. Beat - 1
      BY <1>1, <2>2 DEF Writers, Covers
    <3>2. prog[k].addr = addr
      BY <3>1, CommandType, Apart
    <3> QED BY <1>1, <3>1, <3>2 DEF WritesTo
  <2> QED BY <2>1, <2>2
<1>5. CASE ws = {}
  <2>1. Before(addr, n) = [b \in 0 .. Beat - 1 |-> 0]
    BY <1>5 DEF Before
  <2>2. \A b \in 0 .. Beat - 1 : Content(BufferOf(addr), Offset(addr) + b, n - 1) = 0
    BY <1>4, <1>5 DEF Content
  <2> QED BY <2>1, <2>2 DEF Data, Bytes
<1>6. CASE ws # {}
  <2> DEFINE k == Max(ws)
  <2>1. k \in ws
    <3> HIDE DEF ws
    <3> QED BY <1>2, <1>6, MaxOf
  <2>2. Before(addr, n) = Value(prog[k].text)
    BY <1>6 DEF Before
  <2>3. k \in 1 .. Len(prog) /\ prog[k].addr = addr
    BY <1>2, <1>3, <2>1
  <2>4. Value(prog[k].text) \in Data
    BY <2>3, CommandType
  <2>5. ASSUME NEW b \in 0 .. Beat - 1
        PROVE  Content(BufferOf(addr), Offset(addr) + b, n - 1) = Value(prog[k].text)[b]
    <3>1. Content(BufferOf(addr), Offset(addr) + b, n - 1) = Written(k, Offset(addr) + b)
      BY <1>4, <1>6 DEF Content
    <3>2. (Offset(addr) + b) - Offset(prog[k].addr) = b
      BY <1>1, <2>3
    <3> QED BY <3>1, <3>2 DEF Written
  <2> QED BY <2>2, <2>4, <2>5
<1> QED BY <1>5, <1>6

\* A read gets what the commands so far have written.
LEMMA LoadHolds ==
  ASSUME ProgramOK, NEW addr \in Addresses(kind), NEW n \in Nat, n <= Len(prog),
         NEW mem, Holds(mem, n)
  PROVE  Load(mem, addr) = Before(addr, n + 1) /\ Load(mem, addr) \in Data
<1>1. /\ Len(prog) \in Nat /\ n + 1 \in 1 .. Len(prog) + 1 /\ (n + 1) - 1 = n
      /\ BufferOf(addr) \in Buffers /\ Offset(addr) \in Nat /\ Offset(addr) + Beat <= Size
  BY Places DEF ProgramOK
<1>2. ASSUME NEW b \in 0 .. Beat - 1
      PROVE  mem[BufferOf(addr)][Offset(addr) + b] = Before(addr, n + 1)[b]
  <2>1. Offset(addr) + b \in 0 .. Size - 1
    BY <1>1, Widths
  <2>2. mem[BufferOf(addr)][Offset(addr) + b] = Content(BufferOf(addr), Offset(addr) + b, n)
    BY <1>1, <2>1 DEF Holds
  <2> QED BY <1>1, <2>2, ContentBefore
<1>3. Load(mem, addr) = [b \in 0 .. Beat - 1 |-> mem[BufferOf(addr)][Offset(addr) + b]]
  BY DEF Load, BufferOf, Offset
<1>4. Before(addr, n + 1) \in Data
  BY <1>1, ContentBefore
<1>5. Before(addr, n + 1) = [b \in 0 .. Beat - 1 |-> Before(addr, n + 1)[b]]
  BY <1>4 DEF Data
<1>6. Load(mem, addr) = Before(addr, n + 1)
  BY <1>2, <1>3, <1>5
<1> QED BY <1>4, <1>6

-----------------------------------------------------------------------------
(* Counting reads                                                           *)

ReadsTo(n) == {m \in Reads : m <= n}
Rank(n) == Cardinality(ReadsTo(n))

\* The rank counts the reads one by one.
LEMMA RankStep ==
  ASSUME ProgramOK
  PROVE  /\ Len(prog) \in Nat
         /\ Rank(0) = 0 /\ \A n \in 0 .. Len(prog) : Rank(n) \in Nat
         /\ \A n \in 0 .. Len(prog) - 1 :
              Rank(n + 1) = IF prog[n + 1].mode = "R" THEN Rank(n) + 1 ELSE Rank(n)
         /\ Rank(Len(prog)) = Cardinality(Reads)
<1>1. Len(prog) \in Nat /\ DOMAIN prog = 1 .. Len(prog)
  BY DEF ProgramOK
<1>2. ASSUME NEW n \in 0 .. Len(prog)
      PROVE  IsFiniteSet(ReadsTo(n)) /\ Rank(n) \in Nat
  <2>1. ReadsTo(n) \in SUBSET Nat /\ n \in Nat /\ \A m \in ReadsTo(n) : m <= n
    BY <1>1 DEF ReadsTo, Reads
  <2>2. IsFiniteSet(ReadsTo(n))
    BY <2>1, FS_BoundedSetOfNaturals
  <2> QED BY <2>2, FS_CardinalityType DEF Rank
<1>3. ASSUME NEW n \in 0 .. Len(prog) - 1
      PROVE  Rank(n + 1) = IF prog[n + 1].mode = "R" THEN Rank(n) + 1 ELSE Rank(n)
  <2>1. CASE prog[n + 1].mode = "R"
    <3>1. ReadsTo(n + 1) = ReadsTo(n) \cup {n + 1} /\ n + 1 \notin ReadsTo(n)
      BY <1>1, <2>1 DEF ReadsTo, Reads
    <3>2. IsFiniteSet(ReadsTo(n))
      BY <1>1, <1>2
    <3> QED BY <2>1, <3>1, <3>2, FS_AddElement DEF Rank
  <2>2. CASE prog[n + 1].mode # "R"
    <3>1. ReadsTo(n + 1) = ReadsTo(n)
      BY <1>1, <2>2 DEF ReadsTo, Reads
    <3> QED BY <2>2, <3>1 DEF Rank
  <2> QED BY <2>1, <2>2
<1>4. ReadsTo(0) = {} /\ ReadsTo(Len(prog)) = Reads
  BY <1>1 DEF ReadsTo, Reads
<1>5. Rank(0) = 0
  BY <1>4, FS_EmptySet DEF Rank
<1> QED BY <1>1, <1>2, <1>3, <1>4, <1>5 DEF Rank

\* The rank grows at every read.
LEMMA RankMonotone ==
  ASSUME ProgramOK, NEW i \in 0 .. Len(prog), NEW j \in 0 .. Len(prog), i < j
  PROVE  Rank(i) <= Rank(j) /\ (j \in Reads => Rank(i) < Rank(j))
<1>1. ASSUME NEW x \in 0 .. Len(prog), NEW y \in 0 .. Len(prog), x <= y
      PROVE  Rank(x) <= Rank(y)
  <2>1. ReadsTo(y) \in SUBSET Nat /\ y \in Nat /\ \A m \in ReadsTo(y) : m <= y
    BY DEF ReadsTo, Reads, ProgramOK
  <2>2. IsFiniteSet(ReadsTo(y))
    BY <2>1, FS_BoundedSetOfNaturals
  <2>3. ReadsTo(x) \subseteq ReadsTo(y)
    BY <1>1, <2>1, RankStep DEF ReadsTo, Reads
  <2> QED BY <2>2, <2>3, FS_Subset DEF Rank
<1>2. Len(prog) \in Nat /\ j - 1 \in 0 .. Len(prog) - 1 /\ i <= j - 1 /\ (j - 1) + 1 = j
      /\ j - 1 \in 0 .. Len(prog)
  BY RankStep
<1>3. Rank(i) <= Rank(j - 1) /\ Rank(i) \in Nat /\ Rank(j - 1) \in Nat
  BY <1>1, <1>2, RankStep
<1>4. Rank(j) = IF prog[j].mode = "R" THEN Rank(j - 1) + 1 ELSE Rank(j - 1)
  BY <1>2, RankStep
<1> QED BY <1>3, <1>4 DEF Reads

\* Two reads have different ranks.
LEMMA RankInjective ==
  ASSUME ProgramOK, NEW i \in Reads, NEW j \in Reads, Rank(i) = Rank(j)
  PROVE  i = j
<1>1. i \in 0 .. Len(prog) /\ j \in 0 .. Len(prog) /\ Rank(i) \in Nat /\ Rank(j) \in Nat
  BY RankStep DEF Reads, ProgramOK
<1>2. CASE i < j
  BY <1>1, <1>2, RankMonotone
<1>3. CASE j < i
  BY <1>1, <1>3, RankMonotone
<1> QED BY <1>1, <1>2, <1>3, RankStep

-----------------------------------------------------------------------------
(* What depends on nothing but the program                                  *)

\* What is said of the program does not change.
LEMMA SameProgramText ==
  ASSUME kind' = kind, prog' = prog
  PROVE  /\ ProgramOK' <=> ProgramOK
         /\ Reads' = Reads
         /\ \A n : Rank(n)' = Rank(n)
         /\ \A addr : BufferOf(addr)' = BufferOf(addr) /\ Offset(addr)' = Offset(addr)
         /\ \A m, b, n : Content(m, b, n)' = Content(m, b, n)
         /\ \A addr, n : Before(addr, n)' = Before(addr, n)
<1>1. ProgramOK' <=> ProgramOK
  BY DEF ProgramOK
<1>2. Reads' = Reads
  BY DEF Reads
<1>3. \A n : Rank(n)' = Rank(n)
  BY <1>2 DEF Rank, ReadsTo
<1>4. \A addr : BufferOf(addr)' = BufferOf(addr) /\ Offset(addr)' = Offset(addr)
  BY DEF BufferOf, Offset, Place
<1>5. \A m, b, n : Writers(m, b, n)' = Writers(m, b, n)
  BY <1>4 DEF Writers, Covers
<1>6. \A m, b, n : Content(m, b, n)' = Content(m, b, n)
  BY <1>4, <1>5 DEF Content, Written
<1>7. \A addr, n : Before(addr, n)' = Before(addr, n)
  BY DEF Before, WritesTo
<1> QED BY <1>1, <1>2, <1>3, <1>4, <1>6, <1>7

\* A memory that is left alone holds the same commands.
LEMMA SameMemory ==
  ASSUME kind' = kind, prog' = prog, NEW n
  PROVE  /\ ref' = ref => (Holds(ref, n)' <=> Holds(ref, n))
         /\ ila' = ila => (Holds(ila, n)' <=> Holds(ila, n))
BY SameProgramText DEF Holds

-----------------------------------------------------------------------------
(* The inductive invariant                                                  *)

\* Commands of the program that the simulator has executed.
Executed == IF simulated > Len(prog) THEN Len(prog) ELSE simulated

\* The simulator's memories hold what these have written.
SimulatorInv ==
  /\ simulated \in 0 .. Len(prog) + (IF kind = "conv" THEN 1 ELSE 0)
  /\ Holds(ref, Executed)

LineKinds ==
  {"banner", "reading", "write", "request", "debug", "response", "info W", "info R", "result"}

\* The log of flex: command n begins at At(n), three lines for a read, one for a write.
At(n) == 2 + n + 2 * Rank(n - 1)
FlexLog(n) ==
  IF prog[n].mode = "W" THEN log[At(n)].is = "write"
  ELSE /\ log[At(n)].is = "request" /\ log[At(n)].addr = prog[n].addr
       /\ log[At(n) + 1].is = "debug"
       /\ log[At(n) + 2].is = "response"
       /\ log[At(n) + 2].text = Printed(Before(prog[n].addr, n))

\* The log of hlscnn: a line for each command, then one for each beat of the results.
ConvLog(n) ==
  /\ log[2 + n].is = Info(prog[n].mode)
  /\ log[2 + n].addr = prog[n].addr /\ log[2 + n].text = prog[n].text
ResultLog(j) ==
  LET l == log[2 + Len(prog) + j]
  IN  /\ l.is = "result" /\ l.addr = Spad1 + (j - 1) * Beat /\ Len(l.text) = Beat \div 2
      /\ \A k \in 1 .. Beat \div 2 : l.text[k] = Half(ref, (j - 1) * Beat + 2 * (k - 1))

LogInv ==
  /\ log \in Seq([is : LineKinds, addr : Int, text : Seq(Int)])
  /\ Len(log) >= 2 /\ log[1].is = "banner" /\ log[2].is = "reading"
  /\ kind # "conv" => /\ Len(log) = At(Executed + 1) - 1
                      /\ \A n \in 1 .. Executed : FlexLog(n)
  /\ kind = "conv" => /\ Len(log) = 2 + Executed + (IF LogComplete THEN Size \div Beat ELSE 0)
                      /\ \A n \in 1 .. Executed : ConvLog(n)
                      /\ LogComplete => \A j \in 1 .. Size \div Beat : ResultLog(j)

\* The commands among the first lines of the log of hlscnn.
CommandsIn(lines) ==
  IF lines <= 2 THEN 0 ELSE IF lines - 2 > Len(prog) THEN Len(prog) ELSE lines - 2

FragmentInv ==
  /\ scanned \in 0 .. Len(log) /\ (scanned > 0 => LogComplete)
  /\ kind # "conv" => fragment = prog
  /\ kind = "conv" =>
       /\ fragment \in Seq([mode : {"W", "R"}, addr : Addresses(kind), text : Seq(0 .. 15)])
       /\ Len(fragment) = CommandsIn(scanned)
       /\ \A n \in 1 .. Len(fragment) :
            /\ fragment[n].mode = prog[n].mode /\ fragment[n].addr = prog[n].addr
            /\ fragment[n].text = Pad(prog[n].text)

\* The model's memories hold what the fragment has written, if nothing went wrong.
ModelInv ==
  /\ fed \in 0 .. Len(fragment) /\ (fed > 0 => FragmentComplete)
  /\ ila \in MemType /\ wrong \in BOOLEAN
  /\ ~wrong => Holds(ila, fed)

\* Where the extractor of flex is: before a command, or within the lines of a read.
Between ==
  \/ line = 2 /\ rows = <<>>
  \/ \E n \in 0 .. Len(prog) : line = At(n + 1) /\ Len(rows) = Rank(n)
Within ==
  \E n \in Reads : /\ line = At(n) + 1 \/ line = At(n) + 2
                   /\ half = prog[n].addr /\ Len(rows) = Rank(n - 1)

\* The row of a read of flex, and the row of a half word of hlscnn.
FlexRow(k, n) ==
  Rank(n) = k /\ rows[k] = Row(prog[n].addr, Full(Before(prog[n].addr, n)))
ConvRow(x) == rows[x] = Row(Spad1 + 2 * (x - 1), Half(ref, 2 * (x - 1)))
ResultsIn(lines) == IF lines <= 2 + Len(prog) THEN 0 ELSE lines - 2 - Len(prog)

RowsInv ==
  /\ line \in Nat /\ half \in Int
  /\ line > 2 => FragmentComplete /\ fed = Len(fragment)
  /\ kind # "conv" => /\ Between \/ Within
                      /\ rows \in Seq([addr : Int, data : Seq(0 .. 15)])
                      /\ \A k \in 1 .. Len(rows) : \E n \in Reads : FlexRow(k, n)
  /\ kind = "conv" => /\ line \in 1 .. Len(log) + 1
                      /\ line > 1 => FragmentComplete /\ fed = Len(fragment)
                      /\ rows \in Seq([addr : Int, data : Int])
                      /\ Len(rows) = ResultsIn(line - 1) * (Beat \div 2)
                      /\ \A x \in 1 .. Len(rows) : ConvRow(x)

\* What the comparison has counted.
WrongIn(k) == {r \in WrongBytes : Rank(r[1]) <= k}
SameHalf(x) == Half(ila, rows[x].addr - Spad1) = rows[x].data

CheckInv ==
  /\ compared \in 0 .. Len(rows) /\ (compared > 0 => Extracted)
  /\ total \in Nat /\ passed \in Nat /\ err_total \in Nat
  /\ kind # "conv" => total = passed + err_total /\ err_total = Cardinality(WrongIn(compared))
  /\ kind = "conv" => (err_total = 0 <=> \A x \in 1 .. compared : SameHalf(x))
  /\ verdict \in {"none", "passed", "failed"}
  /\ Judged => /\ Extracted /\ compared = Len(rows)
               /\ verdict = "passed" <=> (IF kind = "conv" THEN err_total = 0 ELSE total = passed)

IInv ==
  /\ ProgramOK /\ SimulatorInv /\ LogInv /\ FragmentInv /\ ModelInv /\ RowsInv /\ CheckInv

-----------------------------------------------------------------------------
(* Steps that leave a part alone                                            *)

\* The simulator does not move.
LEMMA SameSimulator ==
  ASSUME SimulatorInv, kind' = kind, prog' = prog, simulated' = simulated, ref' = ref
  PROVE  SimulatorInv'
<1>1. Executed' = Executed
  BY DEF Executed
<1>2. Holds(ref, Executed)'
  BY <1>1, SameMemory DEF SimulatorInv
<1> QED BY <1>2 DEF SimulatorInv

\* Nothing is logged.
LEMMA SameLog ==
  ASSUME LogInv, kind' = kind, prog' = prog, simulated' = simulated, ref' = ref, log' = log
  PROVE  LogInv'
<1>1. Executed' = Executed /\ LogComplete' = LogComplete
  BY DEF Executed, LogComplete
<1>2. \A n : At(n)' = At(n)
  BY SameProgramText DEF At
<1>3. \A n : FlexLog(n)' = FlexLog(n)
  BY <1>2, SameProgramText DEF FlexLog
<1>4. \A n : ConvLog(n)' = ConvLog(n)
  BY DEF ConvLog
<1>5. \A j : ResultLog(j)' = ResultLog(j)
  BY DEF ResultLog, Half
<1> QED BY <1>1, <1>2, <1>3, <1>4, <1>5 DEF LogInv

\* No line is converted.
LEMMA SameFragment ==
  ASSUME FragmentInv, kind' = kind, prog' = prog, simulated' = simulated, log' = log,
         converted' = converted
  PROVE  FragmentInv'
BY DEF FragmentInv, converted, LogComplete, CommandsIn

\* The ILA model does not move.
LEMMA SameModel ==
  ASSUME ModelInv, kind' = kind, prog' = prog, simulated' = simulated, log' = log,
         converted' = converted, fed' = fed, ila' = ila, wrong' = wrong
  PROVE  ModelInv'
<1>1. FragmentComplete' = FragmentComplete
  BY DEF FragmentComplete, LogComplete, converted
<1>2. ~wrong => Holds(ila, fed)'
  BY SameMemory DEF ModelInv
<1> QED BY <1>1, <1>2 DEF ModelInv, converted

\* The extractor does not move.
LEMMA SameRows ==
  ASSUME RowsInv, kind' = kind, prog' = prog, simulated' = simulated, ref' = ref, log' = log,
         converted' = converted, fed' = fed, line' = line, half' = half, rows' = rows
  PROVE  RowsInv'
<1>1. FragmentComplete' = FragmentComplete /\ fragment' = fragment
  BY DEF FragmentComplete, LogComplete, converted
<1>2. \A n : At(n)' = At(n)
  BY SameProgramText DEF At
<1>3. Reads' = Reads /\ Between' = Between /\ Within' = Within
  BY <1>2, SameProgramText DEF Between, Within
<1>4. \A k, n : FlexRow(k, n)' = FlexRow(k, n)
  BY SameProgramText DEF FlexRow
<1>5. \A x : ConvRow(x)' = ConvRow(x)
  BY DEF ConvRow, Half
<1> QED BY <1>1, <1>3, <1>4, <1>5 DEF RowsInv, ResultsIn

\* What is wrong depends on the program and the model's memories.
LEMMA SameWrong ==
  ASSUME kind' = kind, prog' = prog, ila' = ila
  PROVE  WrongBytes' = WrongBytes
<1>1. \A addr : Load(ila, addr)' = Load(ila, addr)
  BY DEF Load, Place
<1>2. Reads' = Reads /\ \A addr, n : Before(addr, n)' = Before(addr, n)
  BY SameProgramText
<1> QED BY <1>1, <1>2 DEF WrongBytes

\* Nothing is compared.
LEMMA SameCheck ==
  ASSUME CheckInv, kind' = kind, prog' = prog, simulated' = simulated, log' = log,
         ila' = ila, line' = line, rows' = rows, checked' = checked
  PROVE  CheckInv'
<1>1. Extracted' = Extracted /\ Judged' = Judged
  BY DEF Extracted, LogComplete, Judged, checked
<1>2. WrongBytes' = WrongBytes
  BY SameWrong
<1>3. \A k : WrongIn(k)' = WrongIn(k)
  BY <1>2, SameProgramText DEF WrongIn
<1>4. \A x : SameHalf(x)' = SameHalf(x)
  BY DEF SameHalf, Half
<1> QED BY <1>1, <1>3, <1>4 DEF CheckInv, checked

-----------------------------------------------------------------------------
(* The initial states                                                       *)

\* Nothing has been done yet.
LEMMA InitInv == ASSUME Init PROVE IInv
<1>1. ProgramOK
  BY CasesAssumption DEF Init, ProgramOK
<1>2. /\ simulated = 0 /\ scanned = 0 /\ fed = 0 /\ compared = 0 /\ half = 0
      /\ ref = Memories /\ ila = Memories /\ wrong = FALSE /\ rows = <<>>
      /\ fragment = (IF kind = "conv" THEN <<>> ELSE prog)
      /\ line = (IF kind = "conv" THEN 1 ELSE 2)
      /\ total = 0 /\ passed = 0 /\ err_total = 0 /\ verdict = "none"
  BY DEF Init
<1>3. Len(prog) \in Nat /\ Executed = 0 /\ ~Judged /\ (kind = "conv" => ~LogComplete)
  BY <1>1, <1>2, RankStep DEF Executed, Judged, LogComplete
<1>4. Holds(ref, 0) /\ Holds(ila, 0) /\ ila \in MemType
  BY <1>2, MemoriesHold DEF Holds
<1>5. SimulatorInv
  BY <1>2, <1>3, <1>4 DEF SimulatorInv
<1>6. /\ log \in Seq([is : LineKinds, addr : Int, text : Seq(Int)]) /\ Len(log) = 2
      /\ log[1].is = "banner" /\ log[2].is = "reading"
  <2>1. /\ Line("banner", 0, <<>>) \in [is : LineKinds, addr : Int, text : Seq(Int)]
        /\ Line("reading", 0, <<>>) \in [is : LineKinds, addr : Int, text : Seq(Int)]
        /\ Line("banner", 0, <<>>).is = "banner" /\ Line("reading", 0, <<>>).is = "reading"
    BY DEF Line, LineKinds
  <2>2. log = << Line("banner", 0, <<>>), Line("reading", 0, <<>>) >>
    BY DEF Init
  <2> QED BY <2>1, <2>2
<1>7. At(1) = 3
  BY <1>1, RankStep DEF At
<1>8. LogInv
  <2>1. Len(log) = At(Executed + 1) - 1
    BY <1>3, <1>6, <1>7
  <2>2. kind = "conv" => Len(log) = 2 + Executed
    BY <1>3, <1>6
  <2>3. 1 .. Executed = {} /\ Len(log) >= 2
    BY <1>3, <1>6
  <2> QED BY <1>3, <1>6, <2>1, <2>2, <2>3 DEF LogInv
<1>9. FragmentInv
  <2>1. 0 \in 0 .. Len(log) /\ CommandsIn(0) = 0
    BY <1>6 DEF CommandsIn
  <2> QED BY <1>2, <2>1 DEF FragmentInv
<1>10. ModelInv
  <2>1. 0 \in 0 .. Len(fragment) /\ ~(0 > 0) /\ FALSE \in BOOLEAN
    BY <1>2, <1>3
  <2> QED BY <1>2, <1>4, <2>1, Zenon DEF ModelInv
<1>11. RowsInv
  <2>1. line \in Nat /\ half \in Int /\ ~(line > 2) /\ 1 .. Len(rows) = {}
    BY <1>2
  <2>2. kind # "conv" => Between
    BY <1>2 DEF Between
  <2>3. kind = "conv" => line = 1 /\ 1 \in 1 .. Len(log) + 1 /\ Len(rows) = 0
    BY <1>2, <1>6
  <2>4. ResultsIn(1 - 1) = 0 /\ Beat \div 2 \in Int
    BY <1>3, BeatAssumption DEF ResultsIn
  <2>5. rows \in Seq([addr : Int, data : Seq(0 .. 15)]) /\ rows \in Seq([addr : Int, data : Int])
    BY <1>2
  <2>6. 0 * (Beat \div 2) = 0 /\ ~(1 > 1)
    BY <2>4
  <2> QED BY <2>1, <2>2, <2>3, <2>4, <2>5, <2>6 DEF RowsInv
<1>12. CheckInv
  <2>1. WrongIn(0) = {}
    <3>1. ASSUME NEW r \in WrongBytes
          PROVE  ~(Rank(r[1]) <= 0)
      <4>1. r[1] \in Reads /\ r[1] \in 1 .. Len(prog)
        BY <1>1 DEF WrongBytes, Reads, ProgramOK
      <4> QED BY <1>1, <1>3, <4>1, RankMonotone, RankStep
    <3> QED BY <3>1 DEF WrongIn
  <2>2. Cardinality(WrongIn(compared)) = 0
    BY <1>2, <2>1, FS_EmptySet
  <2> QED BY <1>2, <1>3, <2>2 DEF CheckInv
<1> QED BY <1>1, <1>5, <1>8, <1>9, <1>10, <1>11, <1>12 DEF IInv

-----------------------------------------------------------------------------
(* What the parts say of each other                                         *)

\* Before its log is complete, nothing reads it.
LEMMA Untouched ==
  ASSUME IInv, ~LogComplete
  PROVE  /\ scanned = 0 /\ fed = 0 /\ compared = 0 /\ ~Judged /\ ~FragmentComplete
         /\ line = (IF kind = "conv" THEN 1 ELSE 2) /\ rows = <<>>
<1>1. scanned = 0 /\ ~FragmentComplete /\ ~Extracted
  BY DEF IInv, FragmentInv, FragmentComplete, Extracted
<1>2. fed = 0 /\ compared = 0 /\ ~Judged
  BY <1>1 DEF IInv, ModelInv, CheckInv
<1>3. line = (IF kind = "conv" THEN 1 ELSE 2) /\ rows = <<>>
  <2>1. CASE kind = "conv"
    <3>1. line = 1
      BY <1>1, <2>1 DEF IInv, RowsInv, LogInv
    <3>2. Len(rows) = 0 /\ rows \in Seq([addr : Int, data : Int])
      <4>1. ResultsIn(0) = 0
        BY RankStep DEF ResultsIn, IInv
      <4> QED BY <2>1, <3>1, <4>1, BeatAssumption DEF IInv, RowsInv
    <3> QED BY <2>1, <3>1, <3>2
  <2>2. CASE kind # "conv"
    <3>1. ~(line > 2) /\ line \in Nat
      BY <1>1 DEF IInv, RowsInv
    <3>2. ASSUME NEW n \in 0 .. Len(prog)
          PROVE  At(n + 1) > 2
      BY RankStep DEF At, IInv
    <3>3. ASSUME NEW n \in Reads
          PROVE  At(n) + 1 > 2 /\ At(n) + 2 > 2
      <4>1. n - 1 \in 0 .. Len(prog) /\ n \in Nat
        BY DEF IInv, ProgramOK, Reads
      <4>2. Rank(n - 1) \in Nat
        BY <4>1, RankStep DEF IInv
      <4> QED BY <4>1, <4>2 DEF At
    <3>4. ~Within
      BY <3>1, <3>3 DEF Within
    <3>5. line = 2 /\ rows = <<>>
      BY <2>2, <3>1, <3>2, <3>4 DEF IInv, RowsInv, Between
    <3> QED BY <2>2, <3>5
  <2> QED BY <2>1, <2>2
<1> QED BY <1>1, <1>2, <1>3

\* Once it is complete, the simulator holds what the whole program has written.
LEMMA SimulatorDone ==
  ASSUME IInv, LogComplete
  PROVE  Executed = Len(prog) /\ Holds(ref, Len(prog))
<1>1. Executed = Len(prog)
  BY RankStep DEF IInv, LogComplete, Executed
<1> QED BY <1>1 DEF IInv, SimulatorInv

\* The fragment is the program: the ILA model gets the value of every number.
LEMMA FragmentIsProgram ==
  ASSUME IInv, FragmentComplete
  PROVE  /\ Len(fragment) = Len(prog)
         /\ \A n \in 1 .. Len(prog) :
              /\ fragment[n].mode = prog[n].mode /\ fragment[n].addr = prog[n].addr
              /\ DataIn(fragment[n].text) = Value(prog[n].text)
<1>1. Len(fragment) = Len(prog)
  <2>1. CASE kind = "conv"
    <3>1. scanned = Len(log) /\ Len(log) = 2 + Len(prog) + (Size \div Beat)
      BY <2>1, SimulatorDone DEF IInv, LogInv, FragmentComplete
    <3>2. Size \div Beat \in Nat /\ Len(prog) \in Nat
      <4>1. Size \div Beat \in Nat
        BY BeatAssumption
      <4>2. Len(prog) \in Nat
        BY RankStep DEF IInv
      <4> QED BY <4>1, <4>2
    <3>3. CommandsIn(scanned) = Len(prog)
      BY <3>1, <3>2 DEF CommandsIn
    <3> QED BY <2>1, <3>3 DEF IInv, FragmentInv
  <2>2. CASE kind # "conv"
    BY <2>2 DEF IInv, FragmentInv
  <2> QED BY <2>1, <2>2
<1>2. ASSUME NEW n \in 1 .. Len(prog)
      PROVE  /\ fragment[n].mode = prog[n].mode /\ fragment[n].addr = prog[n].addr
             /\ DataIn(fragment[n].text) = Value(prog[n].text)
  <2>1. prog[n].text \in Seq(0 .. 15) /\ (kind = "conv" => Len(prog[n].text) <= 2 * Beat)
    BY CommandType DEF IInv
  <2>2. CASE kind = "conv"
    <3> DEFINE full == Pad(prog[n].text)
    <3>1. /\ fragment[n].mode = prog[n].mode /\ fragment[n].addr = prog[n].addr
          /\ fragment[n].text = full
      BY <1>1, <2>2 DEF IInv, FragmentInv
    <3>2. Restored(prog[n].text, full)
      BY <2>1, <2>2, PadRestores
    <3>3. DataIn(full) = [b \in 0 .. Beat - 1 |->
            (16 * full[((2 * Beat) - 1) - (2 * b)]) + full[((2 * Beat) - 1) + 1 - (2 * b)]]
      BY <2>2 DEF DataIn
    <3> HIDE DEF full
    <3>4. DataIn(full) = Value(prog[n].text)
      BY <2>1, <3>2, <3>3, PortsOf
    <3> QED BY <3>1, <3>4
  <2>3. CASE kind # "conv"
    <3> DEFINE full == Format(prog[n].text)
    <3>1. fragment = prog
      BY <2>3 DEF IInv, FragmentInv
    <3>2. Restored(prog[n].text, full)
      BY <2>1, FormatRestores
    <3>3. DataIn(prog[n].text) = [b \in 0 .. Beat - 1 |->
            (16 * full[((2 * Beat) - 1) - (2 * b)]) + full[((2 * Beat) - 1) + 1 - (2 * b)]]
      BY <2>3 DEF DataIn
    <3> HIDE DEF full
    <3> QED BY <2>1, <3>1, <3>2, <3>3, PortsOf
  <2> QED BY <2>2, <2>3
<1> QED BY <1>1, <1>2

-----------------------------------------------------------------------------
(* The simulator                                                            *)

\* The lines of the commands of flex follow each other.
LEMMA AtStep ==
  ASSUME ProgramOK
  PROVE  /\ Len(prog) \in Nat /\ At(1) = 3
         /\ \A n \in 1 .. Len(prog) + 1 : At(n) \in Nat /\ At(n) >= 3
         /\ \A n \in 1 .. Len(prog) : At(n + 1) = At(n) + (IF prog[n].mode = "R" THEN 3 ELSE 1)
         /\ \A m \in 1 .. Len(prog) + 1 : \A n \in 1 .. Len(prog) + 1 : m <= n => At(m) <= At(n)
<1>1. Len(prog) \in Nat /\ At(1) = 3
  BY RankStep DEF At
<1>2. ASSUME NEW n \in 1 .. Len(prog) + 1
      PROVE  At(n) \in Nat /\ At(n) >= 3
  <2>1. n - 1 \in 0 .. Len(prog) /\ n \in Nat /\ n >= 1
    BY <1>1
  <2>2. Rank(n - 1) \in Nat
    BY <2>1, RankStep
  <2> QED BY <2>1, <2>2 DEF At
<1>3. ASSUME NEW n \in 1 .. Len(prog)
      PROVE  At(n + 1) = At(n) + (IF prog[n].mode = "R" THEN 3 ELSE 1)
  <2>1. /\ n - 1 \in 0 .. Len(prog) - 1 /\ n - 1 \in 0 .. Len(prog) /\ n \in Nat
        /\ (n - 1) + 1 = n /\ (n + 1) - 1 = n
    BY <1>1
  <2>2. /\ Rank(n) = IF prog[n].mode = "R" THEN Rank(n - 1) + 1 ELSE Rank(n - 1)
        /\ Rank(n - 1) \in Nat
    BY <2>1, RankStep
  <2>3. At(n) = 2 + n + 2 * Rank(n - 1) /\ At(n + 1) = 2 + (n + 1) + 2 * Rank(n)
    BY <2>1 DEF At
  <2>t. PICK k \in Nat : k = Rank(n - 1)
    BY <2>2
  <2>n. n \in Nat /\ At(n) = 2 + n + 2 * k
    BY <2>1, <2>3, <2>t
  <2>4. CASE prog[n].mode = "R"
    <3>1. Rank(n) = k + 1
      BY <2>2, <2>4, <2>t
    <3>2. At(n + 1) = 2 + (n + 1) + 2 * (k + 1)
      BY <2>3, <3>1
    <3>3. At(n + 1) = At(n) + 3
      BY <2>n, <3>2
    <3> QED BY <2>4, <3>3
  <2>5. CASE prog[n].mode # "R"
    <3>1. Rank(n) = k
      BY <2>2, <2>5, <2>t
    <3>2. At(n + 1) = 2 + (n + 1) + 2 * k
      BY <2>3, <3>1
    <3>3. At(n + 1) = At(n) + 1
      BY <2>n, <3>2
    <3> QED BY <2>5, <3>3
  <2> QED BY <2>4, <2>5
<1>4. ASSUME NEW m \in 1 .. Len(prog) + 1, NEW n \in 1 .. Len(prog) + 1, m <= n
      PROVE  At(m) <= At(n)
  <2>1. CASE m = n
    BY <1>2, <2>1
  <2>2. CASE m < n
    <3>1. m - 1 \in 0 .. Len(prog) /\ n - 1 \in 0 .. Len(prog) /\ m - 1 < n - 1
      BY <1>1, <2>2
    <3>2. Rank(m - 1) <= Rank(n - 1) /\ Rank(m - 1) \in Nat /\ Rank(n - 1) \in Nat
      BY <3>1, RankMonotone, RankStep
    <3> QED BY <1>4, <3>2 DEF At
  <2> QED BY <1>4, <2>1, <2>2
<1> QED BY <1>1, <1>2, <1>3, <1>4

\* Addresses are numbers.
LEMMA AddressType ==
  ASSUME ProgramOK, NEW addr \in Addresses(kind)
  PROVE  addr \in Int
<1>1. addr = Base(BufferOf(addr)) + Offset(addr) /\ Offset(addr) \in Nat
  BY Places
<1>2. Large \in Int /\ Small \in Int /\ Spad1 \in Int
  BY SMT DEF Large, Small, Spad1
<1>3. Base(BufferOf(addr)) \in Int
  BY <1>2 DEF Base
<1> QED BY <1>1, <1>3

\* More lines at the end of the log leave the others as they were.
LEMMA Appended ==
  ASSUME NEW S, NEW s \in Seq(S), NEW t \in Seq(S)
  PROVE  /\ s \o t \in Seq(S) /\ Len(s \o t) = Len(s) + Len(t) /\ Len(s) \in Nat /\ Len(t) \in Nat
         /\ \A i \in 1 .. Len(s) : (s \o t)[i] = s[i]
         /\ \A i \in 1 .. Len(t) : (s \o t)[Len(s) + i] = t[i]
OBVIOUS

\* A list of one line.
LEMMA OneLine ==
  ASSUME NEW S, NEW l \in S
  PROVE  <<l>> \in Seq(S) /\ Len(<<l>>) = 1 /\ <<l>>[1] = l
OBVIOUS

\* The two kinds of command lines of hlscnn differ from all others.
LEMMA InfoKinds ==
  ASSUME NEW mode
  PROVE  /\ Info(mode) \in LineKinds /\ Info(mode) \notin {"banner", "reading", "request", "response", "result"}
         /\ mode = "W" => Info(mode) = "info W"
         /\ mode # "W" => Info(mode) = "info R"
BY DEF Info, LineKinds

\* A memory after a step that does not change the program.
LEMMA NextMemory ==
  ASSUME kind' = kind, prog' = prog, NEW n, NEW mem, Holds(mem, n)
  PROVE  (ref' = mem => Holds(ref, n)') /\ (ila' = mem => Holds(ila, n)')
BY SameProgramText DEF Holds

\* The lines of a command that are in the log stay there.
LEMMA FlexLogKept ==
  ASSUME kind' = kind, prog' = prog, NEW n, FlexLog(n), log'[At(n)] = log[At(n)],
         prog[n].mode # "W" => /\ log'[At(n) + 1] = log[At(n) + 1]
                               /\ log'[At(n) + 2] = log[At(n) + 2]
  PROVE  FlexLog(n)'
<1>1. At(n)' = At(n)
  BY SameProgramText DEF At
<1> QED BY <1>1, SameProgramText DEF FlexLog

\* What the simulator writes to its log.
LEMMA LogOfType ==
  ASSUME IInv, simulated < Len(prog)
  PROVE  LET cmd == prog[simulated + 1]
             t   == LogOf(cmd)
         IN  /\ t \in Seq([is : LineKinds, addr : Int, text : Seq(Int)])
             /\ kind = "conv" =>
                  /\ Len(t) = 1 /\ t[1].is = Info(cmd.mode)
                  /\ t[1].addr = cmd.addr /\ t[1].text = cmd.text
             /\ kind # "conv" /\ cmd.mode = "W" => Len(t) = 1 /\ t[1].is = "write"
             /\ kind # "conv" /\ cmd.mode # "W" =>
                  /\ Len(t) = 3 /\ t[1].is = "request" /\ t[1].addr = cmd.addr
                  /\ t[2].is = "debug" /\ t[3].is = "response"
                  /\ t[3].text = Printed(Before(cmd.addr, simulated + 1))
<1> DEFINE cmd == prog[simulated + 1]
           LineType == [is : LineKinds, addr : Int, text : Seq(Int)]
<1>1. simulated \in Nat /\ simulated + 1 \in 1 .. Len(prog) /\ Executed = simulated
  BY RankStep DEF IInv, SimulatorInv, Executed
<1>2. cmd.addr \in Addresses(kind) /\ cmd.text \in Seq(0 .. 15)
  BY <1>1, CommandType DEF IInv
<1>3. cmd.addr \in Int
  BY <1>2, AddressType DEF IInv
<1>4. cmd.text \in Seq(Int)
  BY <1>2, TextIsInt
<1>5. /\ Load(ref, cmd.addr) = Before(cmd.addr, simulated + 1)
      /\ Before(cmd.addr, simulated + 1) \in Data
  BY <1>1, <1>2, LoadHolds DEF IInv, SimulatorInv
<1>6. Printed(Before(cmd.addr, simulated + 1)) \in Seq(Int)
  <2>1. Printed(Before(cmd.addr, simulated + 1)) \in Seq(0 .. 15)
    BY <1>5, TrimPrinted
  <2> QED BY <2>1
<1> HIDE DEF cmd
<1>7. CASE kind = "conv"
  <2> DEFINE l == Line(Info(cmd.mode), cmd.addr, cmd.text)
  <2>1. LogOf(cmd) = <<l>>
    BY <1>7 DEF LogOf
  <2>2. /\ l \in LineType /\ l.is = Info(cmd.mode)
        /\ l.addr = cmd.addr /\ l.text = cmd.text
    BY <1>3, <1>4, InfoKinds DEF Line
  <2> HIDE DEF l, LineType
  <2>3. <<l>> \in Seq(LineType) /\ Len(<<l>>) = 1 /\ <<l>>[1] = l
    BY <2>2, OneLine
  <2> QED BY <1>7, <2>1, <2>2, <2>3 DEF cmd, LineType
<1>8. CASE kind # "conv" /\ cmd.mode = "W"
  <2> DEFINE l == Line("write", cmd.addr, cmd.text)
  <2>1. LogOf(cmd) = <<l>>
    BY <1>8 DEF LogOf
  <2>2. l \in LineType /\ l.is = "write"
    BY <1>3, <1>4 DEF Line, LineKinds
  <2> HIDE DEF l, LineType
  <2>3. <<l>> \in Seq(LineType) /\ Len(<<l>>) = 1 /\ <<l>>[1] = l
    BY <2>2, OneLine
  <2> QED BY <1>8, <2>1, <2>2, <2>3 DEF cmd, LineType
<1>9. CASE kind # "conv" /\ cmd.mode # "W"
  <2> DEFINE p == Printed(Before(cmd.addr, simulated + 1))
             request == Line("request", cmd.addr, <<>>)
             debug == Line("debug", 0, <<>>)
             response == Line("response", 0, p)
  <2>1. LogOf(cmd) = <<request, debug, response>>
    BY <1>5, <1>9 DEF LogOf
  <2>2. p \in Seq(Int) /\ <<>> \in Seq(Int)
    BY <1>6
  <2> HIDE DEF p
  <2>3. request \in LineType /\ request.is = "request" /\ request.addr = cmd.addr
    BY <1>3, <2>2 DEF Line, LineKinds
  <2>4. debug \in LineType /\ debug.is = "debug"
    BY <2>2 DEF Line, LineKinds
  <2>5. response \in LineType /\ response.is = "response" /\ response.text = p
    BY <2>2 DEF Line, LineKinds
  <2> HIDE DEF request, debug, response, LineType
  <2> DEFINE t == <<request, debug, response>>
  <2>6. t \in Seq(LineType) /\ Len(t) = 3 /\ t[1] = request /\ t[2] = debug /\ t[3] = response
    BY <2>3, <2>4, <2>5
  <2> QED BY <1>9, <2>1, <2>3, <2>4, <2>5, <2>6 DEF cmd, p, LineType
<1> QED BY <1>7, <1>8, <1>9 DEF cmd

\* The lines of a new command.
LEMMA FlexLogNew ==
  ASSUME kind' = kind, prog' = prog, NEW n,
         prog[n].mode = "W" => log'[At(n)].is = "write",
         prog[n].mode # "W" =>
           /\ log'[At(n)].is = "request" /\ log'[At(n)].addr = prog[n].addr
           /\ log'[At(n) + 1].is = "debug"
           /\ log'[At(n) + 2].is = "response"
           /\ log'[At(n) + 2].text = Printed(Before(prog[n].addr, n))
  PROVE  FlexLog(n)'
<1>1. At(n)' = At(n)
  BY SameProgramText DEF At
<1> QED BY <1>1, SameProgramText DEF FlexLog

\* The line of a command of hlscnn, in the log as it is now.
LEMMA ConvLogNew ==
  ASSUME prog' = prog, NEW n, NEW l, log'[2 + n] = l,
         l.is = Info(prog[n].mode) /\ l.addr = prog[n].addr /\ l.text = prog[n].text
  PROVE  ConvLog(n)'
BY DEF ConvLog

\* Where a command begins does not depend on the step.
LEMMA AtNext ==
  ASSUME kind' = kind, prog' = prog, NEW n \in Nat, Executed' = n
  PROVE  At(Executed + 1)' = At(n + 1)
<1>1. Executed' + 1 = n + 1 /\ (n + 1) - 1 = n
  OBVIOUS
<1>2. Rank(n)' = Rank(n)
  BY SameProgramText
<1>3. At(Executed + 1)' = 2 + (n + 1) + 2 * Rank(n)'
  BY <1>1 DEF At
<1> QED BY <1>1, <1>2, <1>3 DEF At

\* A command adds its own lines and leaves those before it alone.
LEMMA SimulateLog == ASSUME IInv, Simulate PROVE LogInv'
<1> DEFINE LineType == [is : LineKinds, addr : Int, text : Seq(Int)]
<1>0. simulated \in Nat /\ Len(prog) \in Nat
  BY RankStep DEF IInv, SimulatorInv
<1>a. PICK n \in Nat : n = simulated
  BY <1>0
<1>b. PICK cmd : cmd = prog[n + 1]
  OBVIOUS
<1>c. PICK t : t = LogOf(cmd)
  OBVIOUS
<1>1. /\ n < Len(prog) /\ log' = log \o t /\ simulated' = n + 1 /\ kind' = kind /\ prog' = prog
  BY <1>a, <1>b, <1>c DEF Simulate
<1>2. ProgramOK /\ Len(prog) \in Nat /\ n + 1 \in 1 .. Len(prog)
  BY <1>0, <1>1 DEF IInv
<1>3. Executed = n /\ Executed' = n + 1
  BY <1>a, <1>1, <1>2 DEF Executed
<1>4. kind = "conv" => ~LogComplete /\ ~LogComplete'
  BY <1>a, <1>1, <1>2 DEF LogComplete
<1>5. /\ t \in Seq(LineType)
      /\ kind = "conv" =>
           /\ Len(t) = 1 /\ t[1].is = Info(cmd.mode)
           /\ t[1].addr = cmd.addr /\ t[1].text = cmd.text
      /\ kind # "conv" /\ cmd.mode = "W" => Len(t) = 1 /\ t[1].is = "write"
      /\ kind # "conv" /\ cmd.mode # "W" =>
           /\ Len(t) = 3 /\ t[1].is = "request" /\ t[1].addr = cmd.addr
           /\ t[2].is = "debug" /\ t[3].is = "response"
           /\ t[3].text = Printed(Before(cmd.addr, n + 1))
  BY <1>a, <1>b, <1>c, <1>1, LogOfType, Zenon
<1> HIDE DEF LineType
<1>6. /\ log \in Seq(LineType) /\ Len(log) >= 2 /\ log[1].is = "banner" /\ log[2].is = "reading"
  BY DEF IInv, LogInv, LineType
<1>7. /\ log' \in Seq(LineType) /\ Len(log') = Len(log) + Len(t) /\ Len(log) \in Nat /\ Len(t) \in Nat
      /\ \A i \in 1 .. Len(log) : log'[i] = log[i]
      /\ \A i \in 1 .. Len(t) : log'[Len(log) + i] = t[i]
  <2>1. t \in Seq(LineType)
    BY <1>5
  <2> QED BY <1>1, <1>6, <2>1, Appended
<1>8. Len(log') >= 2 /\ log'[1].is = "banner" /\ log'[2].is = "reading"
  BY <1>6, <1>7
<1>9. CASE kind = "conv"
  <2>1. Len(log) = 2 + n /\ \A m \in 1 .. n : ConvLog(m)
    <3>1. ~LogComplete
      BY <1>4, <1>9
    <3>2. \A m \in 1 .. n : ConvLog(m)
      BY <1>3, <1>9 DEF IInv, LogInv
    <3>3. Len(log) = 2 + n + 0
      BY <1>3, <1>9, <3>1 DEF IInv, LogInv
    <3> QED BY <3>2, <3>3
  <2>2. Len(log') = 2 + (n + 1) /\ Len(t) = 1
    <3>1. Len(t) = 1
      BY <1>5, <1>9, Zenon
    <3> QED BY <1>7, <2>1, <3>1
  <2>3. ASSUME NEW m \in 1 .. n + 1
        PROVE  ConvLog(m)'
    <3>1. CASE m \in 1 .. n
      <4>1. 2 + m \in 1 .. Len(log)
        BY <2>1, <3>1
      <4>2. log'[2 + m] = log[2 + m] /\ ConvLog(m)
        BY <1>7, <2>1, <3>1, <4>1
      <4> QED BY <1>1, <4>2, ConvLogNew DEF ConvLog
    <3>2. CASE m = n + 1
      <4>1. 2 + m = Len(log) + 1 /\ 1 \in 1 .. Len(t)
        BY <2>1, <2>2, <3>2
      <4>2. log'[2 + m] = t[1]
        BY <1>7, <4>1
      <4> QED BY <1>b, <1>1, <1>5, <1>9, <3>2, <4>2, ConvLogNew
    <3>3. m \in 1 .. n \/ m = n + 1
      OBVIOUS
    <3> QED BY <3>1, <3>2, <3>3
  <2>4. \A m \in 1 .. Executed' : ConvLog(m)'
    BY <1>3, <2>3
  <2>5. Len(log') = 2 + Executed' + 0
    BY <1>3, <2>2
  <2> QED BY <1>1, <1>4, <1>7, <1>8, <1>9, <2>4, <2>5 DEF LogInv, LineType
<1>10. CASE kind # "conv"
  <2>1. Len(log) = At(n + 1) - 1 /\ \A m \in 1 .. n : FlexLog(m)
    BY <1>3, <1>10 DEF IInv, LogInv
  <2>2. cmd.mode \in {"W", "R"}
    BY <1>b, <1>2, CommandType
  <2>3. /\ At(n + 1) \in Nat /\ (n + 1) + 1 = n + 2
        /\ At((n + 1) + 1) = At(n + 1) + (IF cmd.mode = "R" THEN 3 ELSE 1)
    <3>1. n + 1 \in 1 .. Len(prog) + 1
      BY <1>2
    <3> QED BY <1>b, <1>2, <3>1, AtStep
  <2>4. Len(t) = (IF cmd.mode = "R" THEN 3 ELSE 1)
    BY <1>5, <1>10, <2>2
  <2>5. Len(log') = At(n + 2) - 1
    BY <1>7, <2>1, <2>3, <2>4
  <2>6. ASSUME NEW m \in 1 .. n + 1
        PROVE  FlexLog(m)'
    <3>1. CASE m \in 1 .. n
      <4>1. /\ m \in 1 .. Len(prog) /\ m + 1 \in 1 .. Len(prog) + 1 /\ m + 1 <= n + 1
            /\ n + 1 \in 1 .. Len(prog) + 1 /\ m \in 1 .. Len(prog) + 1
        BY <1>2, <3>1
      <4>2. /\ At(m) \in Nat /\ At(m) >= 3 /\ At(m + 1) <= At(n + 1)
            /\ At(m + 1) = At(m) + (IF prog[m].mode = "R" THEN 3 ELSE 1)
        BY <1>2, <4>1, AtStep
      <4>3. prog[m].mode \in {"W", "R"}
        BY <1>2, <4>1, CommandType
      <4>4. /\ At(m) \in 1 .. Len(log)
            /\ prog[m].mode # "W" => At(m) + 1 \in 1 .. Len(log) /\ At(m) + 2 \in 1 .. Len(log)
        <5>1. Len(log) = At(n + 1) - 1 /\ At(n + 1) \in Nat
          BY <2>1, <2>3
        <5>2. CASE prog[m].mode = "R"
          <6>1. At(m) + 3 <= At(n + 1)
            BY <4>2, <5>1, <5>2
          <6>2. /\ At(m) \in 1 .. Len(log) /\ At(m) + 1 \in 1 .. Len(log)
                /\ At(m) + 2 \in 1 .. Len(log)
            BY <4>2, <5>1, <6>1
          <6> QED BY <6>2
        <5>3. CASE prog[m].mode = "W"
          <6>1. At(m) + 1 <= At(n + 1)
            BY <4>2, <5>1, <5>3
          <6>2. At(m) \in 1 .. Len(log)
            BY <4>2, <5>1, <6>1
          <6> QED BY <5>3, <6>2
        <5> QED BY <4>3, <5>2, <5>3
      <4>5. FlexLog(m)
        BY <2>1, <3>1
      <4> QED BY <1>1, <1>7, <4>4, <4>5, FlexLogKept
    <3>2. CASE m = n + 1
      <4>1. At(m) = Len(log) + 1
        BY <2>1, <2>3, <3>2
      <4>2. CASE cmd.mode = "W"
        <5>1. Len(t) = 1 /\ t[1].is = "write"
          BY <1>5, <1>10, <4>2
        <5>2. log'[At(m)] = t[1]
          <6>1. 1 \in 1 .. Len(t)
            BY <5>1
          <6> QED BY <1>7, <4>1, <6>1
        <5> QED BY <1>b, <1>1, <3>2, <4>2, <5>1, <5>2, FlexLogNew
      <4>3. CASE cmd.mode # "W"
        <5>1. /\ Len(t) = 3 /\ t[1].is = "request" /\ t[1].addr = cmd.addr
              /\ t[2].is = "debug" /\ t[3].is = "response"
              /\ t[3].text = Printed(Before(cmd.addr, m))
          BY <1>5, <1>10, <3>2, <4>3
        <5>2. /\ 1 \in 1 .. Len(t) /\ 2 \in 1 .. Len(t) /\ 3 \in 1 .. Len(t)
              /\ At(m) + 1 = Len(log) + 2 /\ At(m) + 2 = Len(log) + 3
          BY <1>7, <4>1, <5>1
        <5>3. log'[At(m)] = t[1] /\ log'[At(m) + 1] = t[2] /\ log'[At(m) + 2] = t[3]
          BY <1>7, <4>1, <5>2
        <5> QED BY <1>b, <1>1, <3>2, <4>3, <5>1, <5>3, FlexLogNew
      <4> QED BY <4>2, <4>3
    <3>3. m \in 1 .. n \/ m = n + 1
      OBVIOUS
    <3> QED BY <3>1, <3>2, <3>3
  <2>7. At(Executed + 1)' = At(n + 2)
    <3>1. n + 1 \in Nat /\ (n + 1) + 1 = n + 2
      OBVIOUS
    <3> QED BY <1>1, <1>3, <3>1, AtNext
  <2>8. \A m \in 1 .. Executed' : FlexLog(m)'
    BY <1>3, <2>6
  <2>9. Len(log') = At(Executed + 1)' - 1
    BY <2>5, <2>7
  <2> QED BY <1>1, <1>7, <1>8, <1>10, <2>8, <2>9 DEF LogInv, LineType
<1> QED BY <1>9, <1>10

\* While the log is written, nothing that reads it has begun.
LEMMA StillUntouched ==
  ASSUME IInv, ~LogComplete, LogInv', kind' = kind, prog' = prog, converted' = converted,
         fed' = fed, ila' = ila, wrong' = wrong, line' = line, half' = half, rows' = rows,
         checked' = checked
  PROVE  FragmentInv' /\ ModelInv' /\ RowsInv' /\ CheckInv'
<1>0. Len(prog) \in Nat
  BY RankStep DEF IInv
<1>1. kind' = kind /\ prog' = prog /\ scanned' = scanned /\ fragment' = fragment
  BY DEF converted
<1>2. /\ scanned = 0 /\ fed = 0 /\ compared = 0 /\ ~Judged
      /\ line = (IF kind = "conv" THEN 1 ELSE 2) /\ rows = <<>>
  BY Untouched
<1>3. FragmentInv'
  <2>1. scanned' = 0 /\ fragment' = fragment
    BY <1>1, <1>2 DEF converted
  <2>2. 0 \in 0 .. Len(log')
    BY DEF LogInv
  <2>3. CommandsIn(scanned)' = 0 /\ CommandsIn(scanned) = 0
    BY <1>2, <2>1 DEF CommandsIn
  <2>4. ~(scanned' > 0)
    BY <2>1
  <2>5. kind # "conv" => fragment = prog
    BY DEF IInv, FragmentInv
  <2>6. kind = "conv" =>
          /\ fragment \in Seq([mode : {"W", "R"}, addr : Addresses(kind), text : Seq(0 .. 15)])
          /\ Len(fragment) = 0
    BY <2>3 DEF IInv, FragmentInv
  <2>7. kind = "conv" => 1 .. Len(fragment) = {}
    BY <2>6
  <2> QED BY <1>1, <2>1, <2>2, <2>3, <2>4, <2>5, <2>6, <2>7 DEF FragmentInv
<1>4. ModelInv'
  <2>1. fed' = 0 /\ fragment' = fragment /\ ila' = ila /\ wrong' = wrong /\ ~(fed' > 0)
    BY <1>1, <1>2 DEF converted
  <2>2. ~wrong => Holds(ila, fed)'
    BY <1>1, SameMemory DEF IInv, ModelInv
  <2> QED BY <1>2, <2>1, <2>2 DEF IInv, ModelInv
<1>5. RowsInv'
  <2>1. /\ line' = (IF kind' = "conv" THEN 1 ELSE 2) /\ rows' = <<>> /\ half' = half
        /\ half \in Int
    BY <1>1, <1>2 DEF IInv, RowsInv
  <2>2. line' \in Nat /\ ~(line' > 2) /\ 1 .. Len(rows') = {}
    BY <2>1
  <2>3. kind' # "conv" => Between'
    BY <2>1 DEF Between
  <2>4. kind' = "conv" => line' = 1 /\ 1 \in 1 .. Len(log') + 1 /\ Len(rows') = 0
    BY <2>1 DEF LogInv
  <2>5. ResultsIn(1 - 1)' = 0 /\ Beat \div 2 \in Int
    BY <1>0, <1>1, BeatAssumption DEF ResultsIn
  <2>6. rows' \in Seq([addr : Int, data : Seq(0 .. 15)]) /\ rows' \in Seq([addr : Int, data : Int])
    BY <2>1
  <2>7. 0 * (Beat \div 2) = 0 /\ ~(1 > 1)
    BY <2>5
  <2>8. kind' = "conv" => ResultsIn(line - 1)' = 0
    <3>1. kind' = "conv" => (line - 1)' = 0
      BY <2>4
    <3> QED BY <1>0, <1>1, <3>1 DEF ResultsIn
  <2> QED BY <2>1, <2>2, <2>3, <2>4, <2>6, <2>7, <2>8 DEF RowsInv
<1>6. CheckInv'
  <2>1. /\ compared' = 0 /\ rows' = <<>> /\ ~(compared' > 0) /\ ~Judged'
        /\ total' = total /\ passed' = passed /\ err_total' = err_total /\ verdict' = verdict
    BY <1>1, <1>2 DEF checked, Judged
  <2>2. WrongBytes' = WrongBytes
    BY <1>1, SameWrong
  <2>3. WrongIn(compared)' = WrongIn(compared)
    BY <1>1, <1>2, <2>1, <2>2, SameProgramText DEF WrongIn
  <2>4. 1 .. compared' = {} /\ 1 .. compared = {} /\ 0 \in 0 .. Len(rows')
    BY <1>2, <2>1
  <2> QED BY <1>1, <1>2, <2>1, <2>3, <2>4 DEF IInv, CheckInv
<1> QED BY <1>3, <1>4, <1>5, <1>6

\* The log is still incomplete before the step, so nothing has read it.
LEMMA SimulateKeeps == ASSUME IInv, Simulate PROVE IInv'
<1>0. simulated \in Nat /\ Len(prog) \in Nat
  BY RankStep DEF IInv, SimulatorInv
<1>a. PICK n \in Nat : n = simulated
  BY <1>0
<1>1. /\ n < Len(prog) /\ simulated' = n + 1 /\ kind' = kind /\ prog' = prog
      /\ ref' = IF prog[n + 1].mode = "W"
                THEN Store(ref, prog[n + 1].addr, Value(prog[n + 1].text)) ELSE ref
      /\ converted' = converted /\ fed' = fed /\ ila' = ila /\ wrong' = wrong
      /\ line' = line /\ half' = half /\ rows' = rows /\ checked' = checked
  BY <1>a DEF Simulate
<1>2. Executed = n /\ Executed' = n + 1
  BY <1>a, <1>0, <1>1 DEF Executed
<1>3. ProgramOK /\ ProgramOK'
  BY <1>1, SameProgramText DEF IInv
<1>4. SimulatorInv'
  <2>1. Holds(ref, n)
    BY <1>2 DEF IInv, SimulatorInv
  <2>2. Holds(ref, n + 1)'
    <3> DEFINE new == IF prog[n + 1].mode = "W"
                      THEN Store(ref, prog[n + 1].addr, Value(prog[n + 1].text)) ELSE ref
    <3>1. Holds(new, n + 1)
      BY <1>1, <1>3, <2>1, StoreHolds
    <3>2. PICK mem : mem = new
      OBVIOUS
    <3> HIDE DEF new
    <3>3. ref' = mem /\ Holds(mem, n + 1)
      BY <1>1, <3>1, <3>2 DEF new
    <3> QED BY <1>1, <3>3, NextMemory
  <2>3. simulated' \in 0 .. Len(prog') + (IF kind' = "conv" THEN 1 ELSE 0)
    BY <1>0, <1>1
  <2>4. Holds(ref, Executed)'
    BY <1>2, <2>2
  <2> QED BY <2>3, <2>4 DEF SimulatorInv
<1>5. LogInv'
  BY SimulateLog
<1>6. ~LogComplete
  BY <1>a, <1>0, <1>1 DEF LogComplete
<1>7. FragmentInv' /\ ModelInv' /\ RowsInv' /\ CheckInv'
  BY <1>1, <1>5, <1>6, StillUntouched
<1> QED BY <1>3, <1>4, <1>5, <1>7 DEF IInv

-----------------------------------------------------------------------------
(* The results of hlscnn                                                    *)

\* A beat has a whole number of half words within the memory.
LEMMA HalfWords ==
  /\ Beat \div 2 \in Nat \ {0} /\ 2 * (Beat \div 2) = Beat /\ Size \div Beat \in Nat
  /\ \A k \in 1 .. Beat \div 2 : 2 * (k - 1) \in 0 .. Beat - 2
<1>1. Beat \div 2 \in Nat \ {0} /\ 2 * (Beat \div 2) = Beat
  BY BeatAssumption
<1>2. Size \div Beat \in Nat
  BY BeatAssumption
<1> DEFINE h == Beat \div 2
<1>3. h \in Nat \ {0} /\ 2 * h = Beat
  BY <1>1
<1>4. \A k \in 1 .. h : 2 * (k - 1) \in 0 .. Beat - 2
  <2> HIDE DEF h
  <2> QED BY <1>3
<1> QED BY <1>1, <1>2, <1>4

\* A half word is a number.
LEMMA HalfType ==
  ASSUME NEW mem \in MemType, NEW b \in 0 .. Size - 2
  PROVE  /\ Half(mem, b) \in Int
         /\ mem["spad"][b] \in Bytes /\ mem["spad"][b + 1] \in Bytes
<1>1. b \in 0 .. Size - 1 /\ b + 1 \in 0 .. Size - 1
  BY Widths
<1>2. mem["spad"][b] \in Bytes /\ mem["spad"][b + 1] \in Bytes
  BY <1>1 DEF MemType, Buffers
<1>3. mem["spad"][b] \in Int /\ mem["spad"][b + 1] \in Int
  BY <1>2 DEF Bytes
<1> QED BY <1>2, <1>3 DEF Half

\* The dump adds a line for each beat.
LEMMA DumpLog == ASSUME IInv, Dump PROVE LogInv'
<1> DEFINE LineType == [is : LineKinds, addr : Int, text : Seq(Int)]
           q == Size \div Beat
           h == Beat \div 2
           Text(j) == [k \in 1 .. h |-> Half(ref, (j - 1) * Beat + 2 * (k - 1))]
           Result(j) == Line("result", Spad1 + (j - 1) * Beat, Text(j))
<1>0. Len(prog) \in Nat /\ ref \in MemType /\ q \in Nat /\ h \in Nat
  BY RankStep, HalfWords DEF IInv, SimulatorInv, Holds
<1>1. /\ kind = "conv" /\ simulated = Len(prog) /\ simulated' = simulated + 1
      /\ kind' = kind /\ prog' = prog /\ ref' = ref
      /\ log' = log \o [j \in 1 .. q |-> Result(j)]
  BY DEF Dump
<1>2. Executed = Len(prog) /\ Executed' = Len(prog) /\ ~LogComplete /\ LogComplete'
  BY <1>0, <1>1 DEF Executed, LogComplete
<1>3. ASSUME NEW j \in 1 .. q
      PROVE  Result(j) \in LineType /\ Result(j).is = "result"
             /\ Result(j).addr = Spad1 + (j - 1) * Beat /\ Result(j).text = Text(j)
             /\ Len(Text(j)) = h /\ \A k \in 1 .. h : Text(j)[k] = Half(ref, (j - 1) * Beat + 2 * (k - 1))
  <2>1. j - 1 \in 0 .. (Size \div Beat) - 1
    BY <1>0
  <2>2. (j - 1) * Beat \in Nat /\ (j - 1) * Beat + Beat <= Size
    BY <2>1, Beats
  <2>3. Spad1 \in Int
    BY SMT DEF Spad1
  <2>4. ASSUME NEW k \in 1 .. h
        PROVE  Half(ref, (j - 1) * Beat + 2 * (k - 1)) \in Int
    <3> DEFINE base == (j - 1) * Beat
    <3>1. base \in Nat /\ base + Beat <= Size /\ 2 * (k - 1) \in 0 .. Beat - 2
          /\ Beat \in Nat /\ Size \in Nat
      BY <2>2, HalfWords, Widths
    <3>2. base + 2 * (k - 1) \in 0 .. Size - 2
      <4> HIDE DEF base
      <4> QED BY <3>1
    <3> QED BY <1>0, <3>2, HalfType
  <2>5. Text(j) \in Seq(Int) /\ Len(Text(j)) = h
    <3> DEFINE f(k) == Half(ref, (j - 1) * Beat + 2 * (k - 1))
    <3>1. \A k \in 1 .. h : f(k) \in Int
      BY <2>4
    <3> HIDE DEF f, h
    <3>2. [k \in 1 .. h |-> f(k)] \in Seq(Int) /\ Len([k \in 1 .. h |-> f(k)]) = h
      BY <1>0, <3>1
    <3> QED BY <3>2 DEF f
  <2> HIDE DEF Text
  <2>6. Spad1 + (j - 1) * Beat \in Int
    BY <2>2, <2>3
  <2>7. Result(j) \in LineType
    BY <2>5, <2>6 DEF Line, LineKinds
  <2>8. Result(j).is = "result" /\ Result(j).addr = Spad1 + (j - 1) * Beat /\ Result(j).text = Text(j)
    BY DEF Line
  <2> QED BY <2>5, <2>7, <2>8 DEF Text
<1>4. /\ log \in Seq(LineType) /\ Len(log) >= 2 /\ log[1].is = "banner" /\ log[2].is = "reading"
      /\ Len(log) = 2 + Len(prog)
      /\ \A n \in 1 .. Len(prog) : ConvLog(n)
  <2>1. /\ log \in Seq(LineType) /\ Len(log) >= 2 /\ log[1].is = "banner" /\ log[2].is = "reading"
        /\ \A n \in 1 .. Len(prog) : ConvLog(n)
    BY <1>1, <1>2 DEF IInv, LogInv
  <2>2. Len(log) = 2 + Len(prog) + 0
    BY <1>1, <1>2 DEF IInv, LogInv
  <2> QED BY <1>0, <2>1, <2>2
<1>a. PICK N \in Nat : N = Len(prog)
  BY <1>0
<1>b. PICK t : t = [j \in 1 .. q |-> Result(j)]
  OBVIOUS
<1>5. t \in Seq(LineType) /\ Len(t) = q /\ \A j \in 1 .. q : t[j] = Result(j)
  <2>1. \A j \in 1 .. q : Result(j) \in LineType
    BY <1>3
  <2> HIDE DEF Result, LineType, q
  <2> QED BY <1>0, <1>b, <2>1
<1>6. /\ \A j \in 1 .. q : t[j].is = "result" /\ t[j].addr = Spad1 + (j - 1) * Beat /\ Len(t[j].text) = h
      /\ \A j \in 1 .. q : \A k \in 1 .. h : t[j].text[k] = Half(ref, (j - 1) * Beat + 2 * (k - 1))
  <2>1. ASSUME NEW j \in 1 .. q
        PROVE  /\ t[j].is = "result" /\ t[j].addr = Spad1 + (j - 1) * Beat /\ Len(t[j].text) = h
               /\ \A k \in 1 .. h : t[j].text[k] = Half(ref, (j - 1) * Beat + 2 * (k - 1))
    <3>1. /\ Result(j).is = "result" /\ Result(j).addr = Spad1 + (j - 1) * Beat
          /\ Result(j).text = Text(j) /\ Len(Text(j)) = h
          /\ \A k \in 1 .. h : Text(j)[k] = Half(ref, (j - 1) * Beat + 2 * (k - 1))
          /\ t[j] = Result(j)
      BY <1>3, <1>5
    <3> HIDE DEF Result, Text, h, q
    <3> QED BY <3>1
  <2> QED BY <2>1
<1> HIDE DEF LineType, q, h, Text, Result
<1>7. /\ log' \in Seq(LineType) /\ Len(log') = Len(log) + q
      /\ \A i \in 1 .. Len(log) : log'[i] = log[i]
      /\ \A j \in 1 .. q : log'[Len(log) + j] = t[j]
  <2>1. log \in Seq(LineType) /\ t \in Seq(LineType)
    BY <1>4, <1>5
  <2>2. /\ log \o t \in Seq(LineType) /\ Len(log \o t) = Len(log) + Len(t)
        /\ \A i \in 1 .. Len(log) : (log \o t)[i] = log[i]
        /\ \A j \in 1 .. Len(t) : (log \o t)[Len(log) + j] = t[j]
    BY <2>1, Appended
  <2>3. log' = log \o t /\ Len(t) = q
    BY <1>1, <1>5, <1>b
  <2> QED BY <2>2, <2>3
<1>8. Len(log') >= 2 /\ log'[1].is = "banner" /\ log'[2].is = "reading"
  <2>1. 1 \in 1 .. Len(log) /\ 2 \in 1 .. Len(log) /\ Len(log') >= 2
    BY <1>0, <1>4, <1>7
  <2> QED BY <1>4, <1>7, <2>1
<1>9. Len(log') = 2 + Executed' + q
  BY <1>2, <1>4, <1>7
<1>10. ASSUME NEW n \in 1 .. N
       PROVE  ConvLog(n)'
  <2>1. 2 + n \in 1 .. Len(log) /\ ConvLog(n)
    BY <1>4, <1>a
  <2>2. log'[2 + n] = log[2 + n]
    BY <1>7, <2>1
  <2> QED BY <1>1, <2>1, <2>2, ConvLogNew DEF ConvLog
<1>11. ASSUME NEW j \in 1 .. q
       PROVE  ResultLog(j)'
  <2>1. 2 + Len(prog') + j = Len(log) + j
    BY <1>1, <1>4
  <2>2. log'[2 + Len(prog') + j] = t[j]
    BY <1>7, <2>1
  <2>3. ResultLog(j)' <=>
          LET l == log'[2 + Len(prog') + j]
          IN  /\ l.is = "result" /\ l.addr = Spad1 + (j - 1) * Beat /\ Len(l.text) = h
              /\ \A k \in 1 .. h : l.text[k] = Half(ref, (j - 1) * Beat + 2 * (k - 1))'
    BY DEF ResultLog, h
  <2>4. \A b : Half(ref, b)' = Half(ref, b)
    BY <1>1 DEF Half
  <2> QED BY <1>6, <2>2, <2>3, <2>4
<1>12. /\ \A n \in 1 .. Executed' : ConvLog(n)'
       /\ \A j \in 1 .. q : ResultLog(j)'
  BY <1>2, <1>10, <1>11, <1>a
<1> QED BY <1>1, <1>2, <1>7, <1>8, <1>9, <1>12 DEF LogInv, LineType, q

\* It leaves the memories alone.
LEMMA DumpKeeps == ASSUME IInv, Dump PROVE IInv'
<1>1. /\ kind = "conv" /\ simulated = Len(prog) /\ simulated' = simulated + 1
      /\ kind' = kind /\ prog' = prog /\ ref' = ref
      /\ converted' = converted /\ fed' = fed /\ ila' = ila /\ wrong' = wrong
      /\ line' = line /\ half' = half /\ rows' = rows /\ checked' = checked
  BY DEF Dump
<1>2. Len(prog) \in Nat
  BY RankStep DEF IInv
<1>3. Executed = Len(prog) /\ Executed' = Executed /\ ~LogComplete
  BY <1>1, <1>2 DEF Executed, LogComplete
<1>4. ProgramOK'
  BY <1>1, SameProgramText DEF IInv
<1>5. SimulatorInv'
  <2>1. Holds(ref, Executed)'
    BY <1>1, <1>3, SameMemory DEF IInv, SimulatorInv
  <2> QED BY <1>1, <1>2, <2>1 DEF SimulatorInv
<1>6. LogInv'
  BY DumpLog
<1>7. FragmentInv' /\ ModelInv' /\ RowsInv' /\ CheckInv'
  BY <1>1, <1>3, <1>6, StillUntouched
<1> QED BY <1>4, <1>5, <1>6, <1>7 DEF IInv

-----------------------------------------------------------------------------
(* The fragment and the ILA model                                           *)

\* Each of the lines of the commands adds one to the fragment, the others none.
LEMMA ConvertKeeps == ASSUME IInv, ConvertLine PROVE IInv'
<1> DEFINE CommandSet == [mode : {"W", "R"}, addr : Addresses(kind), text : Seq(0 .. 15)]
<1>1. /\ kind = "conv" /\ LogComplete /\ scanned < Len(log) /\ scanned' = scanned + 1
      /\ kind' = kind /\ prog' = prog /\ simulated' = simulated /\ ref' = ref /\ log' = log
      /\ fed' = fed /\ ila' = ila /\ wrong' = wrong
      /\ line' = line /\ half' = half /\ rows' = rows /\ checked' = checked
      /\ fragment' = CASE log[scanned + 1].is = "info W" ->
                            Append(fragment, Command("W", log[scanned + 1].addr, Pad(log[scanned + 1].text)))
                       [] log[scanned + 1].is = "info R" ->
                            Append(fragment, Command("R", log[scanned + 1].addr, Pad(log[scanned + 1].text)))
                       [] OTHER -> fragment
  BY DEF ConvertLine
<1>2. /\ ProgramOK /\ Len(prog) \in Nat /\ scanned \in Nat /\ Size \div Beat \in Nat
      /\ ~FragmentComplete /\ LogComplete'
  <2>1. Size \div Beat \in Nat
    BY HalfWords
  <2>2. ProgramOK /\ Len(prog) \in Nat
    BY RankStep DEF IInv
  <2>3. scanned \in 0 .. Len(log) /\ Len(log) \in Nat
    BY DEF IInv, FragmentInv, LogInv
  <2>4. kind = "conv" /\ LogComplete /\ scanned < Len(log)
    BY <1>1
  <2>5. LogComplete'
    BY <1>1 DEF LogComplete
  <2> QED BY <2>1, <2>2, <2>3, <2>4, <2>5 DEF FragmentComplete
<1>3. /\ log \in Seq([is : LineKinds, addr : Int, text : Seq(Int)])
      /\ log[1].is = "banner" /\ log[2].is = "reading"
      /\ Len(log) = 2 + Len(prog) + (Size \div Beat)
      /\ \A n \in 1 .. Len(prog) : ConvLog(n)
      /\ \A j \in 1 .. Size \div Beat : ResultLog(j)
  BY <1>1, SimulatorDone DEF IInv, LogInv
<1>s. scanned < Len(log) /\ Len(log) = 2 + Len(prog) + (Size \div Beat)
  BY <1>1, <1>3
<1>4. /\ fragment \in Seq(CommandSet) /\ Len(fragment) = CommandsIn(scanned)
      /\ \A n \in 1 .. Len(fragment) :
           /\ fragment[n].mode = prog[n].mode /\ fragment[n].addr = prog[n].addr
           /\ fragment[n].text = Pad(prog[n].text)
  BY <1>1 DEF IInv, FragmentInv
<1>5. SimulatorInv' /\ LogInv'
  BY <1>1, SameSimulator, SameLog DEF IInv
<1>6. /\ fragment' \in Seq(CommandSet) /\ Len(fragment') = CommandsIn(scanned + 1)
      /\ \A n \in 1 .. Len(fragment') :
           /\ fragment'[n].mode = prog[n].mode /\ fragment'[n].addr = prog[n].addr
           /\ fragment'[n].text = Pad(prog[n].text)
  <2>1. CASE scanned < 2
    <3>1. log[scanned + 1].is \in {"banner", "reading"}
      <4>1. scanned + 1 = 1 \/ scanned + 1 = 2
        BY <1>2, <2>1
      <4> QED BY <1>3, <4>1, Zenon
    <3>2. fragment' = fragment
      BY <1>1, <3>1
    <3>3. CommandsIn(scanned + 1) = CommandsIn(scanned)
      BY <1>2, <2>1 DEF CommandsIn
    <3> QED BY <1>4, <3>2, <3>3
  <2>2. CASE scanned - 2 \in 0 .. Len(prog) - 1
    <3>1. PICK n \in 1 .. Len(prog) : scanned + 1 = 2 + n
      <4>1. scanned - 1 \in 1 .. Len(prog) /\ scanned + 1 = 2 + (scanned - 1)
        BY <1>2, <2>2
      <4> QED BY <4>1
    <3>2. /\ log[scanned + 1].is = Info(prog[n].mode) /\ log[scanned + 1].addr = prog[n].addr
          /\ log[scanned + 1].text = prog[n].text
      <4>1. ConvLog(n)
        BY <1>3
      <4> QED BY <3>1, <4>1 DEF ConvLog
    <3>3. /\ prog[n].mode \in {"W", "R"} /\ prog[n].addr \in Addresses(kind)
          /\ prog[n].text \in Seq(0 .. 15) /\ Len(prog[n].text) <= 2 * Beat
      BY <1>1, <1>2, CommandType
    <3> DEFINE cmd == Command(prog[n].mode, prog[n].addr, Pad(prog[n].text))
    <3>4. fragment' = Append(fragment, cmd)
      <4>1. CASE prog[n].mode = "W"
        <5>1. log[scanned + 1].is = "info W"
          BY <3>2, <4>1, InfoKinds
        <5> QED BY <1>1, <3>2, <4>1, <5>1, Zenon
      <4>2. CASE prog[n].mode = "R"
        <5>1. log[scanned + 1].is = "info R"
          BY <3>2, <4>2, InfoKinds
        <5>2. ~("info R" = "info W")
          OBVIOUS
        <5> QED BY <1>1, <3>2, <4>2, <5>1, <5>2, Zenon
      <4> QED BY <3>3, <4>1, <4>2
    <3>5. cmd \in CommandSet /\ cmd.mode = prog[n].mode /\ cmd.addr = prog[n].addr
          /\ cmd.text = Pad(prog[n].text)
      <4>1. Pad(prog[n].text) \in Seq(0 .. 15)
        BY <3>3, PadRestores DEF Restored
      <4> QED BY <3>3, <4>1 DEF Command
    <3>6. Len(fragment) = n - 1 /\ CommandsIn(scanned + 1) = n
      BY <1>2, <1>4, <3>1 DEF CommandsIn
    <3> HIDE DEF cmd, CommandSet
    <3>7. /\ fragment' \in Seq(CommandSet) /\ Len(fragment') = n
          /\ \A m \in 1 .. n - 1 : fragment'[m] = fragment[m]
          /\ fragment'[n] = cmd
      BY <1>4, <3>4, <3>5, <3>6
    <3>8. ASSUME NEW m \in 1 .. n
          PROVE  /\ fragment'[m].mode = prog[m].mode /\ fragment'[m].addr = prog[m].addr
                 /\ fragment'[m].text = Pad(prog[m].text)
      <4>1. CASE m = n
        BY <3>5, <3>7, <4>1
      <4>2. CASE m \in 1 .. n - 1
        BY <1>4, <3>6, <3>7, <4>2
      <4>3. m = n \/ m \in 1 .. n - 1
        OBVIOUS
      <4> QED BY <4>1, <4>2, <4>3
    <3> QED BY <3>6, <3>7, <3>8
  <2>3. CASE scanned >= 2 + Len(prog)
    <3>1. PICK j \in 1 .. Size \div Beat : scanned + 1 = 2 + Len(prog) + j
      <4>1. /\ scanned - Len(prog) - 1 \in 1 .. Size \div Beat
            /\ scanned + 1 = 2 + Len(prog) + (scanned - Len(prog) - 1)
        BY <1>2, <1>s, <2>3
      <4> QED BY <4>1
    <3>2. log[scanned + 1].is = "result"
      <4>1. ResultLog(j)
        BY <1>3
      <4> QED BY <3>1, <4>1 DEF ResultLog
    <3>3. fragment' = fragment
      BY <1>1, <3>2
    <3>4. CommandsIn(scanned + 1) = CommandsIn(scanned)
      BY <1>2, <2>3 DEF CommandsIn
    <3> QED BY <1>4, <3>3, <3>4
  <2>4. scanned < 2 \/ scanned - 2 \in 0 .. Len(prog) - 1 \/ scanned >= 2 + Len(prog)
    BY <1>2
  <2> QED BY <2>1, <2>2, <2>3, <2>4, Zenon
<1>7. FragmentInv'
  <2>1. CommandsIn(scanned)' = CommandsIn(scanned + 1) /\ Addresses(kind)' = Addresses(kind)
    BY <1>1 DEF CommandsIn
  <2>2. scanned' \in 0 .. Len(log')
    <3>1. scanned' = scanned + 1 /\ Len(log') = Len(log)
      BY <1>1
    <3> QED BY <1>2, <1>s, <3>1
  <2> QED BY <1>1, <1>2, <1>6, <2>1, <2>2 DEF FragmentInv
<1>8. fed = 0
  <2>1. ~(fed > 0) /\ fed \in 0 .. Len(fragment) /\ Len(fragment) \in Nat
    BY <1>2, <1>4 DEF IInv, ModelInv
  <2> QED BY <2>1
<1>9. ModelInv'
  <2>1. ~wrong => Holds(ila, fed)'
    BY <1>1, SameMemory DEF IInv, ModelInv
  <2>2. Len(fragment') \in Nat
    BY <1>6
  <2>3. fed' = 0 /\ ila' = ila /\ wrong' = wrong
    BY <1>1, <1>8
  <2>4. 0 \in 0 .. Len(fragment') /\ ~(0 > 0)
    BY <2>2
  <2>5. ila \in MemType /\ wrong \in BOOLEAN
    BY DEF IInv, ModelInv
  <2> QED BY <2>1, <2>3, <2>4, <2>5, Zenon DEF ModelInv
<1>10. RowsInv'
  <2>1. ~(line > 2) /\ ~(line > 1)
    BY <1>1, <1>2 DEF IInv, RowsInv
  <2>2. \A x : ConvRow(x)' = ConvRow(x)
    BY <1>1 DEF ConvRow, Half
  <2> QED BY <1>1, <2>1, <2>2 DEF IInv, RowsInv, ResultsIn
<1>11. CheckInv'
  BY <1>1, SameCheck DEF IInv
<1>12. ProgramOK'
  BY <1>1, <1>2, SameProgramText
<1> QED BY <1>5, <1>7, <1>9, <1>10, <1>11, <1>12 DEF IInv

\* The bytes of a beat with one of them wrong.
LEMMA WrongType ==
  ASSUME NEW data \in Data, NEW b \in 0 .. Beat - 1
  PROVE  Wrong(data, b) \in Data
<1>1. data[b] \in 0 .. 255
  BY DEF Data, Bytes
<1>2. (data[b] + 1) % 256 \in Bytes
  BY <1>1 DEF Bytes
<1> QED BY <1>2 DEF Wrong, Data

\* The model follows the simulator until it gets a write wrong.
LEMMA FeedKeeps == ASSUME IInv, Feed PROVE IInv'
<1>1. /\ FragmentComplete /\ fed < Len(fragment) /\ fed' = fed + 1
      /\ kind' = kind /\ prog' = prog /\ simulated' = simulated /\ ref' = ref /\ log' = log
      /\ converted' = converted /\ line' = line /\ half' = half /\ rows' = rows
      /\ checked' = checked
  BY DEF Feed
<1>2. /\ ProgramOK /\ Len(prog) \in Nat /\ Len(fragment) = Len(prog) /\ fed \in Nat
      /\ fragment' = fragment
  <2>1. Len(fragment) = Len(prog)
    BY <1>1, FragmentIsProgram
  <2> QED BY <1>1, <2>1, RankStep DEF IInv, ModelInv, converted
<1>3. SimulatorInv' /\ LogInv' /\ FragmentInv' /\ ProgramOK'
  BY <1>1, SameSimulator, SameLog, SameFragment, SameProgramText DEF IInv
<1>a. PICK n \in Nat : n = fed
  BY <1>2
<1>4. n + 1 \in 1 .. Len(prog) /\ n < Len(prog)
  BY <1>1, <1>2, <1>a
<1>b. PICK cmd : cmd = fragment[n + 1]
  OBVIOUS
<1>c. PICK data : data = Value(prog[n + 1].text)
  OBVIOUS
<1>5. /\ cmd.mode = prog[n + 1].mode /\ cmd.addr = prog[n + 1].addr
      /\ DataIn(cmd.text) = data
  BY <1>1, <1>4, <1>b, <1>c, FragmentIsProgram
<1>6. cmd.addr \in Addresses(kind) /\ data \in Data
  BY <1>2, <1>4, <1>5, <1>c, CommandType
<1>7. \/ ila' = (IF cmd.mode = "W" THEN Store(ila, cmd.addr, data) ELSE ila) /\ wrong' = wrong
      \/ /\ \E b \in 0 .. Beat - 1 : ila' = Store(ila, cmd.addr, Wrong(data, b))
         /\ wrong' = TRUE
  BY <1>5, <1>a, <1>b DEF Feed
<1>8. ila \in MemType /\ wrong \in BOOLEAN /\ (~wrong => Holds(ila, n))
  BY <1>a DEF IInv, ModelInv
<1>9. /\ ila' \in MemType /\ wrong' \in BOOLEAN
      /\ ~wrong' => Holds(ila, n + 1)'
  <2>1. CASE ila' = (IF cmd.mode = "W" THEN Store(ila, cmd.addr, data) ELSE ila) /\ wrong' = wrong
    <3>1. ila' \in MemType
      <4>1. Store(ila, cmd.addr, data) \in MemType
        BY <1>2, <1>6, <1>8, StoreEffect
      <4> QED BY <1>8, <2>1, <4>1
    <3>2. ASSUME ~wrong
          PROVE  Holds(ila, n + 1)'
      <4> DEFINE new == IF prog[n + 1].mode = "W"
                        THEN Store(ila, prog[n + 1].addr, Value(prog[n + 1].text)) ELSE ila
      <4>1. Holds(new, n + 1)
        BY <1>2, <1>4, <1>8, <3>2, StoreHolds
      <4>2. PICK mem : mem = new
        OBVIOUS
      <4>3. ila' = new
        BY <1>5, <1>c, <2>1
      <4> HIDE DEF new
      <4>4. ila' = mem /\ Holds(mem, n + 1)
        BY <4>1, <4>2, <4>3
      <4> QED BY <1>1, <4>4, NextMemory
    <3> QED BY <1>8, <2>1, <3>1, <3>2
  <2>2. CASE /\ \E b \in 0 .. Beat - 1 : ila' = Store(ila, cmd.addr, Wrong(data, b))
             /\ wrong' = TRUE
    <3>1. PICK b \in 0 .. Beat - 1 : ila' = Store(ila, cmd.addr, Wrong(data, b))
      BY <2>2
    <3>2. Store(ila, cmd.addr, Wrong(data, b)) \in MemType
      BY <1>2, <1>6, <1>8, StoreEffect, WrongType
    <3> QED BY <2>2, <3>1, <3>2
  <2> QED BY <1>7, <2>1, <2>2
<1>10. ModelInv'
  <2>1. FragmentComplete'
    BY <1>1, <1>2 DEF FragmentComplete, LogComplete, converted
  <2>2. fed' \in 0 .. Len(fragment') /\ fed' = n + 1
    BY <1>1, <1>2, <1>a
  <2>3. ~wrong' => Holds(ila, fed)'
    BY <1>9, <2>2
  <2> QED BY <1>9, <2>1, <2>2, <2>3 DEF ModelInv
<1>11. ~(line > 2) /\ (kind = "conv" => ~(line > 1))
  BY <1>1, <1>2 DEF IInv, RowsInv
<1>12. RowsInv'
  <2>1. \A m : At(m)' = At(m)
    BY <1>1, SameProgramText DEF At
  <2>2. Reads' = Reads /\ Between' = Between /\ Within' = Within
    BY <1>1, <2>1, SameProgramText DEF Between, Within
  <2>3. \A k, m : FlexRow(k, m)' = FlexRow(k, m)
    BY <1>1, SameProgramText DEF FlexRow
  <2>4. \A x : ConvRow(x)' = ConvRow(x)
    BY <1>1 DEF ConvRow, Half
  <2> QED BY <1>1, <1>11, <2>2, <2>3, <2>4 DEF IInv, RowsInv, ResultsIn
<1>13. CheckInv'
  <2>1. ~Extracted
    <3>1. Len(log) >= 2 /\ line \in Nat /\ Len(log) \in Nat
      BY DEF IInv, LogInv, RowsInv
    <3> QED BY <1>11, <3>1 DEF Extracted
  <2>2. ~Judged /\ ~(compared > 0) /\ compared \in 0 .. Len(rows) /\ Len(rows) \in Nat
    <3>1. Len(rows) \in Nat
      BY DEF IInv, RowsInv
    <3> QED BY <2>1, <3>1 DEF IInv, CheckInv
  <2>3. compared = 0
    BY <2>2
  <2>4. /\ compared' = 0 /\ rows' = rows /\ ~Judged' /\ ~(0 > 0) /\ 0 \in 0 .. Len(rows)
        /\ total' = total /\ passed' = passed /\ err_total' = err_total /\ verdict' = verdict
    BY <1>1, <2>2, <2>3 DEF checked, Judged
  <2>5. WrongIn(0) = {} /\ WrongIn(0)' = {}
    <3>1. ASSUME NEW r, r[1] \in Reads
          PROVE  ~(Rank(r[1]) <= 0) /\ ~(Rank(r[1])' <= 0)
      <4>1. r[1] \in 1 .. Len(prog)
        BY <1>2, <3>1 DEF Reads, ProgramOK
      <4>2. Rank(0) < Rank(r[1]) /\ Rank(0) = 0 /\ Rank(r[1]) \in Nat
        BY <1>2, <3>1, <4>1, RankMonotone, RankStep
      <4>3. Rank(r[1])' = Rank(r[1])
        BY <1>1, SameProgramText
      <4> QED BY <4>2, <4>3
    <3>2. Reads' = Reads
      BY <1>1, SameProgramText
    <3>3. WrongBytes \subseteq Reads \X (0 .. Beat - 1) /\ WrongBytes' \subseteq Reads \X (0 .. Beat - 1)
      BY <3>2 DEF WrongBytes
    <3> QED BY <3>1, <3>3 DEF WrongIn
  <2>6. WrongIn(compared) = {} /\ WrongIn(compared)' = {}
    BY <2>3, <2>4, <2>5
  <2>7. 1 .. 0 = {}
    OBVIOUS
  <2> QED BY <1>1, <2>3, <2>4, <2>6, <2>7 DEF IInv, CheckInv
<1> QED BY <1>3, <1>10, <1>12, <1>13 DEF IInv

-----------------------------------------------------------------------------
(* The result file                                                          *)

\* What a line of the log does to the result file.
LEMMA ExtractEffect ==
  ASSUME ExtractLine
  PROVE  /\ FragmentComplete /\ fed = Len(fragment) /\ line <= Len(log) /\ line' = line + 1
         /\ kind' = kind /\ prog' = prog /\ simulated' = simulated /\ ref' = ref /\ log' = log
         /\ converted' = converted /\ fed' = fed /\ ila' = ila /\ wrong' = wrong
         /\ checked' = checked
         /\ log[line].is = "request" => half' = log[line].addr
         /\ log[line].is # "request" => half' = half
         /\ log[line].is = "response" => rows' = Append(rows, Row(half, Trim(log[line].text)))
         /\ log[line].is = "result" =>
              rows' = rows \o [k \in DOMAIN log[line].text |->
                                 Row(log[line].addr + 2 * (k - 1), log[line].text[k])]
         /\ log[line].is \notin {"response", "result"} => rows' = rows
<1>1. /\ FragmentComplete /\ fed = Len(fragment) /\ line <= Len(log) /\ line' = line + 1
      /\ kind' = kind /\ prog' = prog /\ simulated' = simulated /\ ref' = ref /\ log' = log
      /\ converted' = converted /\ fed' = fed /\ ila' = ila /\ wrong' = wrong
      /\ checked' = checked
      /\ log[line].is = "request" => half' = log[line].addr
      /\ log[line].is # "request" => half' = half
  BY DEF ExtractLine
<1>2. rows' = CASE log[line].is = "response" -> Append(rows, Row(half, Trim(log[line].text)))
                [] log[line].is = "result" ->
                     rows \o [k \in DOMAIN log[line].text |->
                                Row(log[line].addr + 2 * (k - 1), log[line].text[k])]
                [] OTHER -> rows
  BY Zenon DEF ExtractLine
<1>3. ~("result" = "response")
  OBVIOUS
<1>4. log[line].is = "response" => rows' = Append(rows, Row(half, Trim(log[line].text)))
  BY <1>2, <1>3, Zenon
<1>5. log[line].is = "result" =>
        rows' = rows \o [k \in DOMAIN log[line].text |->
                           Row(log[line].addr + 2 * (k - 1), log[line].text[k])]
  BY <1>2, <1>3, Zenon
<1>6. log[line].is \notin {"response", "result"} => rows' = rows
  BY <1>2, Zenon
<1> QED BY <1>1, <1>4, <1>5, <1>6, Zenon

\* Where the extractor is after a line.
LEMMA BetweenNext ==
  ASSUME kind' = kind, prog' = prog, NEW n \in 0 .. Len(prog), line' = At(n + 1),
         Len(rows') = Rank(n)
  PROVE  Between'
<1>1. At(n + 1)' = At(n + 1) /\ Rank(n)' = Rank(n)
  BY SameProgramText DEF At
<1> QED BY <1>1 DEF Between

\* Within the lines of a read, in the next state.
LEMMA WithinNext ==
  ASSUME kind' = kind, prog' = prog, NEW n \in Reads, line' = At(n) + 1 \/ line' = At(n) + 2,
         half' = prog[n].addr, Len(rows') = Rank(n - 1)
  PROVE  Within'
<1>1. At(n)' = At(n) /\ Rank(n - 1)' = Rank(n - 1) /\ Reads' = Reads
  BY SameProgramText DEF At
<1> QED BY <1>1 DEF Within

\* A row that is there stays the row of its read.
LEMMA FlexRowKept ==
  ASSUME kind' = kind, prog' = prog, NEW k, NEW n, FlexRow(k, n), rows'[k] = rows[k]
  PROVE  FlexRow(k, n)'
BY SameProgramText DEF FlexRow

\* A row that is added, in the next state.
LEMMA FlexRowNew ==
  ASSUME kind' = kind, prog' = prog, NEW k, NEW n, Rank(n) = k,
         rows'[k] = Row(prog[n].addr, Full(Before(prog[n].addr, n)))
  PROVE  FlexRow(k, n)'
BY SameProgramText DEF FlexRow

\* A line of flex moves the extractor on, and only the third line of a read adds a row.
LEMMA ExtractFlex ==
  ASSUME IInv, ExtractLine, kind # "conv"
  PROVE  /\ (Between \/ Within)' /\ half' \in Int
         /\ rows' \in Seq([addr : Int, data : Seq(0 .. 15)])
         /\ \A k \in 1 .. Len(rows') : \E n \in Reads : FlexRow(k, n)'
<1> DEFINE RowType == [addr : Int, data : Seq(0 .. 15)]
<1>1. /\ FragmentComplete /\ line <= Len(log) /\ line' = line + 1
      /\ kind' = kind /\ prog' = prog
      /\ log[line].is = "request" => half' = log[line].addr
      /\ log[line].is # "request" => half' = half
      /\ log[line].is = "response" => rows' = Append(rows, Row(half, Trim(log[line].text)))
      /\ log[line].is \notin {"response", "result"} => rows' = rows
  BY ExtractEffect, Zenon
<1>2. /\ ProgramOK /\ Len(prog) \in Nat /\ Executed = Len(prog) /\ DOMAIN prog = 1 .. Len(prog)
  <2>1. Executed = Len(prog)
    BY <1>1, SimulatorDone DEF FragmentComplete
  <2> QED BY <2>1, RankStep DEF IInv, ProgramOK
<1>3. /\ Len(log) = At(Len(prog) + 1) - 1 /\ \A n \in 1 .. Len(prog) : FlexLog(n)
      /\ log[2].is = "reading"
  BY <1>2 DEF IInv, LogInv
<1>4. /\ Between \/ Within
      /\ rows \in Seq(RowType) /\ half \in Int /\ line \in Nat
      /\ \A k \in 1 .. Len(rows) : \E n \in Reads : FlexRow(k, n)
  BY DEF IInv, RowsInv
<1>5. ASSUME NEW n \in 1 .. Len(prog)
      PROVE  /\ At(n) \in Nat /\ Rank(n) \in Nat /\ Rank(n - 1) \in Nat
             /\ At(n + 1) = At(n) + (IF prog[n].mode = "R" THEN 3 ELSE 1)
             /\ Rank(n) = (IF prog[n].mode = "R" THEN Rank(n - 1) + 1 ELSE Rank(n - 1))
             /\ prog[n].mode \in {"W", "R"} /\ prog[n].addr \in Addresses(kind) /\ prog[n].addr \in Int
             /\ FlexLog(n)
  <2>1. n \in 1 .. Len(prog) + 1 /\ n - 1 \in 0 .. Len(prog) - 1 /\ n \in 0 .. Len(prog)
        /\ n - 1 \in 0 .. Len(prog) /\ (n - 1) + 1 = n
    BY <1>2
  <2>2. At(n) \in Nat /\ At(n + 1) = At(n) + (IF prog[n].mode = "R" THEN 3 ELSE 1)
    BY <1>2, <2>1, AtStep
  <2>3. /\ Rank(n) \in Nat /\ Rank(n - 1) \in Nat
        /\ Rank(n) = (IF prog[n].mode = "R" THEN Rank(n - 1) + 1 ELSE Rank(n - 1))
    BY <1>2, <2>1, RankStep
  <2>4. prog[n].mode \in {"W", "R"} /\ prog[n].addr \in Addresses(kind)
    BY <1>2, CommandType
  <2>5. prog[n].addr \in Int
    BY <1>2, <2>4, AddressType
  <2> QED BY <1>3, <2>2, <2>3, <2>4, <2>5
<1> HIDE DEF RowType
<1>6. ASSUME rows' = rows
      PROVE  /\ rows' \in Seq(RowType)
             /\ \A k \in 1 .. Len(rows') : \E n \in Reads : FlexRow(k, n)'
  BY <1>1, <1>4, <1>6, FlexRowKept
<1>7. CASE line = 2 /\ rows = <<>>
  <2>1. half' = half /\ rows' = rows /\ line' = 3
    BY <1>1, <1>3, <1>7
  <2>2. line' = At(0 + 1) /\ Len(rows') = Rank(0) /\ 0 \in 0 .. Len(prog)
    BY <1>2, <1>7, <2>1, AtStep, RankStep
  <2>3. Between'
    BY <1>1, <2>2, BetweenNext
  <2> QED BY <1>4, <1>6, <2>1, <2>3 DEF RowType
<1>8. CASE \E n \in 0 .. Len(prog) : line = At(n + 1) /\ Len(rows) = Rank(n)
  <2>1. PICK i \in 0 .. Len(prog) : line = At(i + 1) /\ Len(rows) = Rank(i)
    BY <1>8
  <2>2. i # Len(prog)
    <3>1. At(Len(prog) + 1) \in Nat
      <4>1. Len(prog) + 1 \in 1 .. Len(prog) + 1
        BY <1>2
      <4> QED BY <1>2, <4>1, AtStep
    <3> QED BY <1>1, <1>3, <2>1, <3>1
  <2>3. PICK n \in 1 .. Len(prog) : n = i + 1 /\ n - 1 = i
    <3>1. i + 1 \in 1 .. Len(prog) /\ (i + 1) - 1 = i
      BY <1>2, <2>2
    <3> QED BY <3>1
  <2>4. line = At(n) /\ Len(rows) = Rank(n - 1)
    BY <2>1, <2>3
  <2>5. CASE prog[n].mode = "W"
    <3>1. log[line].is = "write"
      BY <1>5, <2>4, <2>5 DEF FlexLog
    <3>2. half' = half /\ rows' = rows
      BY <1>1, <3>1
    <3>3. line' = At(n + 1) /\ Len(rows') = Rank(n) /\ n \in 0 .. Len(prog)
      BY <1>1, <1>2, <1>5, <2>4, <2>5, <3>2
    <3>4. Between'
      BY <1>1, <3>3, BetweenNext
    <3> QED BY <1>4, <1>6, <3>2, <3>4 DEF RowType
  <2>6. CASE prog[n].mode = "R"
    <3>1. log[line].is = "request" /\ log[line].addr = prog[n].addr
      BY <1>5, <2>4, <2>6 DEF FlexLog
    <3>2. half' = prog[n].addr /\ rows' = rows
      BY <1>1, <3>1
    <3>3. n \in Reads
      BY <1>2, <2>6 DEF Reads
    <3>4. Within'
      BY <1>1, <2>4, <3>2, <3>3, WithinNext
    <3> QED BY <1>5, <1>6, <3>2, <3>4 DEF RowType
  <2> QED BY <1>5, <2>5, <2>6
<1>9. CASE Within
  <2>1. PICK n \in Reads : /\ line = At(n) + 1 \/ line = At(n) + 2
                           /\ half = prog[n].addr /\ Len(rows) = Rank(n - 1)
    BY <1>9 DEF Within
  <2>2. n \in 1 .. Len(prog) /\ prog[n].mode = "R"
    BY <1>2 DEF Reads
  <2>3. CASE line = At(n) + 1
    <3>1. log[line].is = "debug"
      BY <1>5, <2>2, <2>3 DEF FlexLog
    <3>2. half' = half /\ rows' = rows
      BY <1>1, <3>1
    <3>3. line' = At(n) + 2
      BY <1>1, <1>5, <2>2, <2>3
    <3>4. Within'
      BY <1>1, <2>1, <3>2, <3>3, WithinNext
    <3> QED BY <1>4, <1>6, <3>2, <3>4 DEF RowType
  <2>4. CASE line = At(n) + 2
    <3> DEFINE data == Before(prog[n].addr, n)
               row == Row(prog[n].addr, Full(data))
    <3>1. log[line].is = "response" /\ log[line].text = Printed(data)
      BY <1>5, <2>2, <2>4 DEF FlexLog
    <3>2. data \in Data
      <4>1. n \in 1 .. Len(prog) + 1
        BY <1>2, <2>2
      <4> QED BY <1>2, <1>5, <2>2, <4>1, ContentBefore
    <3>3. Trim(Printed(data)) = Full(data)
      BY <3>2, TrimPrinted
    <3>4. half' = half /\ rows' = Append(rows, row)
      BY <1>1, <2>1, <3>1, <3>3
    <3>5. row \in RowType
      <4>1. Full(data) \in Seq(0 .. 15)
        BY <3>2, FullDigits
      <4> QED BY <1>5, <2>2, <4>1 DEF Row, RowType
    <3>6. Len(rows) + 1 = Rank(n) /\ Rank(n) \in Nat /\ Len(rows) \in Nat
      BY <1>5, <2>1, <2>2
    <3> HIDE DEF row
    <3>7. /\ rows' \in Seq(RowType) /\ Len(rows') = Rank(n)
          /\ \A k \in 1 .. Len(rows) : rows'[k] = rows[k]
          /\ rows'[Rank(n)] = row
      BY <1>4, <3>4, <3>5, <3>6
    <3>8. line' = At(n + 1)
      <4>1. At(n) \in Nat /\ At(n + 1) = At(n) + 3
        BY <1>5, <2>2
      <4> QED BY <1>1, <2>4, <4>1
    <3>9. Between'
      <4>1. n \in 0 .. Len(prog)
        BY <1>2, <2>2
      <4> QED BY <1>1, <3>7, <3>8, <4>1, BetweenNext
    <3>10. ASSUME NEW k \in 1 .. Len(rows')
           PROVE  \E m \in Reads : FlexRow(k, m)'
      <4>1. CASE k = Rank(n)
        BY <1>1, <3>7, <4>1, FlexRowNew DEF row
      <4>2. CASE k \in 1 .. Len(rows)
        BY <1>1, <1>4, <3>7, <4>2, FlexRowKept
      <4>3. k = Rank(n) \/ k \in 1 .. Len(rows)
        BY <3>6, <3>7
      <4> QED BY <4>1, <4>2, <4>3
    <3> QED BY <1>4, <3>4, <3>7, <3>9, <3>10 DEF RowType
  <2> QED BY <2>1, <2>3, <2>4
<1> QED BY <1>4, <1>7, <1>8, <1>9 DEF Between

\* A half word that is added, in the next state.
LEMMA ConvRowNew ==
  ASSUME ref' = ref, NEW x, NEW b, b = 2 * (x - 1),
         rows'[x] = Row(Spad1 + b, Half(ref, b))
  PROVE  ConvRow(x)'
BY DEF ConvRow, Half

\* A line of hlscnn adds the half words of its beat, or nothing.
LEMMA ExtractConv ==
  ASSUME IInv, ExtractLine, kind = "conv"
  PROVE  /\ line' \in 1 .. Len(log') + 1 /\ half' \in Int
         /\ rows' \in Seq([addr : Int, data : Int])
         /\ Len(rows') = ResultsIn(line) * (Beat \div 2)
         /\ \A x \in 1 .. Len(rows') : ConvRow(x)'
<1> DEFINE RowType == [addr : Int, data : Int]
           q == Size \div Beat
           h == Beat \div 2
           l == log[line]
<1>1. /\ FragmentComplete /\ line <= Len(log) /\ line' = line + 1
      /\ kind' = kind /\ prog' = prog /\ log' = log /\ ref' = ref
      /\ l.is = "request" => half' = l.addr
      /\ l.is # "request" => half' = half
      /\ l.is = "result" =>
           rows' = rows \o [k \in DOMAIN l.text |-> Row(l.addr + 2 * (k - 1), l.text[k])]
      /\ l.is \notin {"response", "result"} => rows' = rows
  BY ExtractEffect, Zenon
<1>2. ProgramOK /\ Len(prog) \in Nat /\ LogComplete /\ Executed = Len(prog)
      /\ q \in Nat /\ h \in Nat \ {0} /\ 2 * h = Beat /\ ref \in MemType
  <2>1. LogComplete /\ Executed = Len(prog)
    BY <1>1, SimulatorDone DEF FragmentComplete
  <2>2. q \in Nat /\ h \in Nat \ {0} /\ 2 * h = Beat
    BY HalfWords
  <2> QED BY <2>1, <2>2, RankStep DEF IInv, SimulatorInv, Holds
<1>3. /\ log \in Seq([is : LineKinds, addr : Int, text : Seq(Int)])
      /\ log[1].is = "banner" /\ log[2].is = "reading"
      /\ \A n \in 1 .. Len(prog) : ConvLog(n)
      /\ \A j \in 1 .. q : ResultLog(j)
  BY <1>2 DEF IInv, LogInv
<1>4. Len(log) = 2 + Len(prog) + q
  BY <1>2 DEF IInv, LogInv
<1>5. /\ line \in 1 .. Len(log) + 1 /\ half \in Int /\ rows \in Seq(RowType)
      /\ Len(rows) = ResultsIn(line - 1) * h
      /\ \A x \in 1 .. Len(rows) : ConvRow(x)
  BY DEF IInv, RowsInv
<1> HIDE DEF RowType, q, h, l
<1>6. line' \in 1 .. Len(log') + 1 /\ line \in Nat /\ line >= 1
  <2>1. line' = line + 1 /\ Len(log') = Len(log) /\ Len(log) \in Nat /\ line <= Len(log)
    BY <1>1, <1>2, <1>4
  <2>2. line \in 1 .. Len(log) + 1
    BY <1>5
  <2> QED BY <2>1, <2>2
<1>7. ASSUME l.is \in {"banner", "reading", "info W", "info R"}, line <= 2 + Len(prog)
      PROVE  /\ rows' = rows /\ half' = half /\ Len(rows') = ResultsIn(line) * h
             /\ \A x \in 1 .. Len(rows') : ConvRow(x)'
  <2>1. l.is \notin {"response", "result"} /\ l.is # "request"
    BY <1>7
  <2>2. rows' = rows /\ half' = half
    BY <1>1, <2>1, Zenon
  <2>3. ResultsIn(line) = ResultsIn(line - 1)
    <3>1. line <= 2 + Len(prog) /\ line - 1 <= 2 + Len(prog)
      <4>1. line <= 2 + Len(prog)
        BY <1>7
      <4> QED BY <1>2, <1>6, <4>1
    <3> QED BY <3>1 DEF ResultsIn
  <2>4. ASSUME NEW x \in 1 .. Len(rows)
        PROVE  ConvRow(x)'
    <3>1. ConvRow(x)
      BY <1>5
    <3> QED BY <1>1, <2>2, <3>1 DEF ConvRow, Half
  <2> QED BY <1>5, <2>2, <2>3, <2>4
<1>8. CASE line <= 2
  <2>1. line = 1 \/ line = 2
    BY <1>6, <1>8
  <2>2. l.is \in {"banner", "reading"}
    BY <1>3, <2>1, Zenon DEF l
  <2>3. line <= 2 + Len(prog)
    BY <1>2, <1>6, <1>8
  <2>4. l.is \in {"banner", "reading", "info W", "info R"}
    BY <2>2
  <2> QED BY <1>5, <1>6, <1>7, <2>3, <2>4, Zenon DEF RowType, h
<1>9. CASE line > 2 /\ line <= 2 + Len(prog)
  <2>1. PICK n \in 1 .. Len(prog) : line = 2 + n
    <3>1. line - 2 \in 1 .. Len(prog) /\ line = 2 + (line - 2)
      BY <1>2, <1>6, <1>9
    <3> QED BY <3>1
  <2>2. l.is = Info(prog[n].mode)
    <3>1. ConvLog(n)
      BY <1>3
    <3> QED BY <2>1, <3>1 DEF ConvLog, l
  <2>3. l.is \in {"banner", "reading", "info W", "info R"}
    BY <2>2, InfoKinds
  <2>4. line <= 2 + Len(prog)
    BY <1>9
  <2> QED BY <1>5, <1>6, <1>7, <2>3, <2>4, Zenon DEF RowType, h
<1>10. CASE line > 2 + Len(prog)
  <2>1. PICK j \in 1 .. q : line = 2 + Len(prog) + j
    <3>1. line - 2 - Len(prog) \in 1 .. q /\ line = 2 + Len(prog) + (line - 2 - Len(prog))
      <4>1. line <= Len(log)
        BY <1>1
      <4> QED BY <1>2, <1>4, <1>6, <1>10, <4>1
    <3> QED BY <3>1
  <2> DEFINE base == (j - 1) * Beat
  <2>2. /\ l.is = "result" /\ l.addr = Spad1 + base /\ Len(l.text) = h /\ l.text \in Seq(Int)
        /\ \A k \in 1 .. h : l.text[k] = Half(ref, base + 2 * (k - 1))
    <3>1. ResultLog(j)
      BY <1>3
    <3>2. l \in [is : LineKinds, addr : Int, text : Seq(Int)]
      <4>1. line \in 1 .. Len(log)
        BY <1>1, <1>4, <1>2, <1>6
      <4> DEFINE LineType == [is : LineKinds, addr : Int, text : Seq(Int)]
      <4>2. log \in Seq(LineType)
        BY <1>3
      <4> HIDE DEF LineType
      <4>3. l \in LineType
        BY <4>1, <4>2 DEF l
      <4> QED BY <4>3 DEF LineType
    <3>3. l.text \in Seq(Int)
      BY <3>2
    <3> QED BY <2>1, <3>1, <3>3 DEF ResultLog, l, h
  <2>3. base \in Nat /\ base + Beat <= Size
    <3>1. j - 1 \in 0 .. (Size \div Beat) - 1
      BY <1>2 DEF q
    <3> QED BY <3>1, Beats
  <2>4. Len(rows) = (j - 1) * h /\ ResultsIn(line) = j /\ Len(rows) \in Nat
    <3>1. ResultsIn(line) = j /\ ResultsIn(line - 1) = j - 1
      BY <1>2, <2>1 DEF ResultsIn
    <3> QED BY <1>5, <3>1
  <2>5. base = 2 * Len(rows) /\ Len(rows) + h = j * h
    <3>1. (j - 1) * (2 * h) = 2 * ((j - 1) * h) /\ (j - 1) * h + h = j * h
      BY <1>2
    <3> QED BY <1>2, <2>4, <3>1
  <2> HIDE DEF base
  <2> DEFINE f(k) == Row(l.addr + 2 * (k - 1), l.text[k])
             t == [k \in 1 .. h |-> f(k)]
  <2>6. \A k \in 1 .. h : f(k) \in RowType /\ f(k) = Row(Spad1 + (base + 2 * (k - 1)), Half(ref, base + 2 * (k - 1)))
    <3>1. Spad1 \in Int
      BY SMT DEF Spad1
    <3>2. ASSUME NEW k \in 1 .. h
          PROVE  /\ l.addr + 2 * (k - 1) = Spad1 + (base + 2 * (k - 1)) /\ l.addr + 2 * (k - 1) \in Int
                 /\ l.text[k] = Half(ref, base + 2 * (k - 1)) /\ l.text[k] \in Int
      <4>1. l.addr = Spad1 + base
        BY <2>2
      <4>2. l.addr + 2 * (k - 1) = Spad1 + (base + 2 * (k - 1)) /\ l.addr + 2 * (k - 1) \in Int
        BY <1>2, <2>3, <3>1, <4>1
      <4>3. l.text[k] \in Int
        BY <1>2, <2>2
      <4> QED BY <2>2, <4>2, <4>3
    <3> QED BY <3>2 DEF Row, RowType
  <2>7. rows' = rows \o t
    <3>1. DOMAIN l.text = 1 .. h
      BY <1>2, <2>2
    <3> QED BY <1>1, <2>2, <3>1
  <2> HIDE DEF f
  <2>8. t \in Seq(RowType) /\ Len(t) = h /\ \A k \in 1 .. h : t[k] = f(k)
    BY <1>2, <2>6
  <2> HIDE DEF t
  <2>9. /\ rows' \in Seq(RowType) /\ Len(rows') = Len(rows) + h
        /\ \A x \in 1 .. Len(rows) : rows'[x] = rows[x]
        /\ \A k \in 1 .. h : rows'[Len(rows) + k] = t[k]
    <3>1. /\ rows \o t \in Seq(RowType) /\ Len(rows \o t) = Len(rows) + Len(t)
          /\ \A x \in 1 .. Len(rows) : (rows \o t)[x] = rows[x]
          /\ \A k \in 1 .. Len(t) : (rows \o t)[Len(rows) + k] = t[k]
      <4>1. rows \in Seq(RowType) /\ t \in Seq(RowType)
        BY <1>5, <2>8
      <4> QED BY <4>1, Appended
    <3>2. Len(t) = h
      BY <2>8
    <3> QED BY <2>7, <3>1, <3>2
  <2>10. Len(rows') = ResultsIn(line) * h
    BY <2>4, <2>5, <2>9
  <2>11. ASSUME NEW x \in 1 .. Len(rows')
         PROVE  ConvRow(x)'
    <3>1. CASE x \in 1 .. Len(rows)
      <4>1. ConvRow(x) /\ rows'[x] = rows[x]
        BY <1>5, <2>9, <3>1
      <4> QED BY <1>1, <4>1 DEF ConvRow, Half
    <3>2. CASE x > Len(rows)
      <4>1. PICK k \in 1 .. h : x = Len(rows) + k
        <5>1. x - Len(rows) \in 1 .. h /\ x = Len(rows) + (x - Len(rows))
          BY <1>2, <2>4, <2>9, <3>2
        <5> QED BY <5>1
      <4>2. rows'[x] = Row(Spad1 + (base + 2 * (k - 1)), Half(ref, base + 2 * (k - 1)))
        BY <2>6, <2>8, <2>9, <4>1
      <4>3. base + 2 * (k - 1) = 2 * (x - 1)
        BY <1>2, <2>4, <2>5, <4>1
      <4>4. rows'[x] = Row(Spad1 + 2 * (x - 1), Half(ref, 2 * (x - 1)))
        BY <4>2, <4>3
      <4> QED BY <1>1, <4>4, ConvRowNew
    <3>3. x \in 1 .. Len(rows) \/ x > Len(rows)
      BY <2>4, <2>9
    <3> QED BY <3>1, <3>2, <3>3
  <2>12. half' = half
    BY <1>1, <2>2
  <2> QED BY <1>5, <1>6, <2>9, <2>10, <2>11, <2>12 DEF RowType, h
<1>11. line <= 2 \/ (line > 2 /\ line <= 2 + Len(prog)) \/ line > 2 + Len(prog)
  BY <1>2, <1>6
<1> QED BY <1>8, <1>9, <1>10, <1>11, Zenon

\* Nothing has been compared while the extractor reads.
LEMMA ExtractKeeps == ASSUME IInv, ExtractLine PROVE IInv'
<1>1. /\ FragmentComplete /\ fed = Len(fragment) /\ line <= Len(log) /\ line' = line + 1
      /\ kind' = kind /\ prog' = prog /\ simulated' = simulated /\ ref' = ref /\ log' = log
      /\ converted' = converted /\ fed' = fed /\ ila' = ila /\ wrong' = wrong
      /\ checked' = checked
  BY ExtractEffect, Zenon
<1>2. ProgramOK' /\ SimulatorInv' /\ LogInv' /\ FragmentInv' /\ ModelInv'
  BY <1>1, SameProgramText, SameSimulator, SameLog, SameFragment, SameModel DEF IInv
<1>3. FragmentComplete' /\ fed' = Len(fragment') /\ line \in Nat
  BY <1>1 DEF IInv, RowsInv, FragmentComplete, LogComplete, converted
<1>4. RowsInv'
  <2>1. CASE kind = "conv"
    <3>1. /\ line' \in 1 .. Len(log') + 1 /\ half' \in Int
          /\ rows' \in Seq([addr : Int, data : Int])
          /\ Len(rows') = ResultsIn(line) * (Beat \div 2)
          /\ \A x \in 1 .. Len(rows') : ConvRow(x)'
      BY <2>1, ExtractConv
    <3>2. line' \in Nat /\ line' - 1 = line
      BY <1>1, <1>3
    <3>3. ResultsIn(line - 1)' = ResultsIn(line)
      BY <1>1, <3>2 DEF ResultsIn
    <3> QED BY <1>1, <1>3, <2>1, <3>1, <3>2, <3>3 DEF RowsInv
  <2>2. CASE kind # "conv"
    <3>1. /\ (Between \/ Within)' /\ half' \in Int
          /\ rows' \in Seq([addr : Int, data : Seq(0 .. 15)])
          /\ \A k \in 1 .. Len(rows') : \E n \in Reads : FlexRow(k, n)'
      BY <2>2, ExtractFlex
    <3>2. line' \in Nat /\ Reads' = Reads
      BY <1>1, <1>3, SameProgramText
    <3> QED BY <1>1, <1>3, <2>2, <3>1, <3>2 DEF RowsInv
  <2> QED BY <2>1, <2>2
<1>5. CheckInv'
  <2>1. ~Extracted
    <3>1. Len(log) \in Nat
      BY DEF IInv, LogInv
    <3> QED BY <1>1, <1>3, <3>1 DEF Extracted
  <2>2. ~Judged /\ ~(compared > 0) /\ compared \in 0 .. Len(rows) /\ Len(rows) \in Nat
    <3>1. Len(rows) \in Nat
      BY DEF IInv, RowsInv
    <3> QED BY <2>1, <3>1 DEF IInv, CheckInv
  <2>3. compared = 0
    BY <2>2
  <2>4. /\ compared' = 0 /\ ~Judged' /\ ~(0 > 0)
        /\ total' = total /\ passed' = passed /\ err_total' = err_total /\ verdict' = verdict
    BY <1>1, <2>2, <2>3 DEF checked, Judged
  <2>5. 0 \in 0 .. Len(rows')
    <3>1. Len(rows') \in Nat
      BY <1>4 DEF RowsInv
    <3> QED BY <3>1
  <2>6. WrongBytes' = WrongBytes
    BY <1>1, SameWrong
  <2>7. WrongIn(compared)' = WrongIn(compared)
    BY <1>1, <2>3, <2>4, <2>6, SameProgramText DEF WrongIn
  <2>8. 1 .. 0 = {}
    OBVIOUS
  <2> QED BY <1>1, <2>3, <2>4, <2>5, <2>7, <2>8 DEF IInv, CheckInv
<1> QED BY <1>2, <1>4, <1>5 DEF IInv

-----------------------------------------------------------------------------
(* The comparison                                                           *)

\* When the extractor has read all lines, all that came before is done.
LEMMA AllDone ==
  ASSUME IInv, Extracted
  PROVE  /\ FragmentComplete /\ fed = Len(prog) /\ Holds(ref, Len(prog))
         /\ ~wrong => Holds(ila, Len(prog))
<1>1. line > 2
  <2>1. Len(log) \in Nat /\ Len(log) >= 2 /\ line \in Nat /\ line > Len(log)
    BY DEF IInv, LogInv, RowsInv, Extracted
  <2> QED BY <2>1
<1>2. FragmentComplete /\ fed = Len(fragment)
  BY <1>1 DEF IInv, RowsInv
<1>3. fed = Len(prog)
  BY <1>2, FragmentIsProgram
<1>4. Holds(ref, Len(prog))
  BY SimulatorDone DEF Extracted
<1> QED BY <1>2, <1>3, <1>4 DEF IInv, ModelInv

\* After the last line the result file of flex has a row for every read.
LEMMA AllRows ==
  ASSUME IInv
  PROVE  kind # "conv" => /\ Len(rows) \in Nat /\ Cardinality(Reads) \in Nat
                          /\ Len(rows) <= Cardinality(Reads)
                          /\ Extracted => Len(rows) = Cardinality(Reads)
<1> SUFFICES ASSUME kind # "conv"
             PROVE  /\ Len(rows) \in Nat /\ Cardinality(Reads) \in Nat
                    /\ Len(rows) <= Cardinality(Reads)
                    /\ Extracted => Len(rows) = Cardinality(Reads)
  OBVIOUS
<1>1. /\ ProgramOK /\ Len(prog) \in Nat /\ Rank(Len(prog)) = Cardinality(Reads)
      /\ Cardinality(Reads) \in Nat /\ Rank(0) = 0
  <2>1. ProgramOK /\ Len(prog) \in Nat /\ Len(prog) \in 0 .. Len(prog)
    BY RankStep DEF IInv
  <2> QED BY <2>1, RankStep
<1>2. /\ line \in Nat /\ rows \in Seq([addr : Int, data : Seq(0 .. 15)])
      /\ Between \/ Within
  BY DEF IInv, RowsInv
<1>3. Len(rows) \in Nat
  BY <1>2
<1>4. Extracted => line > At(Len(prog) + 1) - 1 /\ line > 2
  <2>1. ASSUME Extracted
        PROVE  line > At(Len(prog) + 1) - 1 /\ line > 2
    <3>1. Executed = Len(prog)
      BY <2>1, SimulatorDone DEF Extracted
    <3>2. Len(log) = At(Len(prog) + 1) - 1 /\ Len(log) >= 2 /\ line > Len(log) /\ Len(log) \in Nat
      BY <2>1, <3>1 DEF IInv, LogInv, Extracted
    <3> QED BY <1>2, <3>2
  <2> QED BY <2>1
<1>5. CASE line = 2 /\ rows = <<>>
  <2>1. Len(rows) = 0 /\ ~(line > 2)
    BY <1>5
  <2> QED BY <1>1, <1>3, <1>4, <2>1
<1>6. CASE \E n \in 0 .. Len(prog) : line = At(n + 1) /\ Len(rows) = Rank(n)
  <2>1. PICK n \in 0 .. Len(prog) : line = At(n + 1) /\ Len(rows) = Rank(n)
    BY <1>6
  <2>2. CASE n = Len(prog)
    BY <1>1, <1>3, <2>1, <2>2
  <2>3. CASE n < Len(prog)
    <3>1. Rank(n) <= Rank(Len(prog))
      BY <1>1, <2>3, RankMonotone
    <3>2. n + 1 \in 1 .. Len(prog) /\ n + 1 \in 1 .. Len(prog) + 1
          /\ (n + 1) + 1 \in 1 .. Len(prog) + 1 /\ Len(prog) + 1 \in 1 .. Len(prog) + 1
          /\ (n + 1) + 1 <= Len(prog) + 1
      BY <1>1, <2>3
    <3>3. /\ At(n + 1) \in Nat /\ At(Len(prog) + 1) \in Nat
          /\ At((n + 1) + 1) <= At(Len(prog) + 1)
          /\ At((n + 1) + 1) = At(n + 1) + (IF prog[n + 1].mode = "R" THEN 3 ELSE 1)
      BY <1>1, <3>2, AtStep
    <3>4. ~Extracted
      BY <1>4, <2>1, <3>3
    <3> QED BY <1>1, <1>3, <2>1, <3>1, <3>4
  <2>4. n = Len(prog) \/ n < Len(prog)
    BY <1>1
  <2> QED BY <2>2, <2>3, <2>4
<1>7. CASE Within
  <2>1. PICK n \in Reads : /\ line = At(n) + 1 \/ line = At(n) + 2
                           /\ Len(rows) = Rank(n - 1)
    BY <1>7 DEF Within
  <2>2. n \in 1 .. Len(prog) /\ prog[n].mode = "R"
    BY <1>1 DEF Reads, ProgramOK
  <2>3. n \in 1 .. Len(prog) + 1 /\ n + 1 \in 1 .. Len(prog) + 1 /\ n + 1 <= Len(prog) + 1
        /\ Len(prog) + 1 \in 1 .. Len(prog) + 1 /\ n - 1 \in 0 .. Len(prog) /\ n - 1 < Len(prog)
        /\ Len(prog) \in 0 .. Len(prog)
    BY <1>1, <2>2
  <2>4. Rank(n - 1) <= Rank(Len(prog))
    BY <1>1, <2>3, RankMonotone
  <2>5. /\ At(n) \in Nat /\ At(Len(prog) + 1) \in Nat /\ At(n + 1) <= At(Len(prog) + 1)
        /\ At(n + 1) = At(n) + 3
    BY <1>1, <2>2, <2>3, AtStep
  <2>6. ~Extracted
    BY <1>4, <2>1, <2>5
  <2> QED BY <1>1, <1>3, <2>1, <2>4, <2>6
<1> QED BY <1>2, <1>5, <1>6, <1>7 DEF Between

\* A byte of a row agrees if the model has what the read saw.
LEMMA SameByteIs ==
  ASSUME IInv, kind # "conv", NEW k, NEW n \in Reads, FlexRow(k, n), NEW j \in 0 .. Beat - 1
  PROVE  /\ Beat - 1 - j \in 0 .. Beat - 1
         /\ SameByte(rows[k], j)
              <=> Load(ila, prog[n].addr)[Beat - 1 - j] = Before(prog[n].addr, n)[Beat - 1 - j]
<1> DEFINE addr == prog[n].addr
           data == Before(addr, n)
           b == Beat - 1 - j
<1>1. ProgramOK /\ n \in 1 .. Len(prog) /\ Len(prog) \in Nat /\ n \in 1 .. Len(prog) + 1
  BY RankStep DEF IInv, Reads, ProgramOK
<1>2. addr \in Addresses(kind) /\ data \in Data
  BY <1>1, CommandType, ContentBefore
<1>3. rows[k].addr = addr /\ rows[k].data = Full(data)
  BY DEF FlexRow, Row
<1>4. /\ BufferOf(addr) \in Buffers /\ Buffer(addr) = BufferOf(addr)
      /\ Offset(addr) \in Nat /\ Offset(addr) + Beat <= Size /\ addr % Mega = Offset(addr)
  BY <1>1, <1>2, Places
<1>5. b \in 0 .. Beat - 1 /\ Offset(addr) + b \in 0 .. Size - 1
      /\ Offset(addr) + Beat - 1 - j = Offset(addr) + b
  BY <1>4, Widths
<1>6. 16 * Full(data)[(2 * j) + 1] + Full(data)[(2 * j) + 2] = data[b]
  BY <1>2, FullDigits
<1>7. Byte(ila[BufferOf(addr)], Offset(addr) + b) = ila[BufferOf(addr)][Offset(addr) + b]
  <2>1. DOMAIN ila[BufferOf(addr)] = 0 .. Size - 1
    BY <1>4 DEF IInv, ModelInv, MemType
  <2> QED BY <1>5, <2>1 DEF Byte
<1>8. Load(ila, addr)[b] = ila[BufferOf(addr)][Offset(addr) + b]
  BY <1>5 DEF Load, BufferOf, Offset
<1>9. SameByte(rows[k], j)
        <=> Byte(ila[Buffer(addr)], (addr % Mega) + Beat - 1 - j)
              = (16 * Full(data)[(2 * j) + 1]) + Full(data)[(2 * j) + 2]
  BY <1>3 DEF SameByte
<1> HIDE DEF addr, data, b
<1>10. SameByte(rows[k], j) <=> Load(ila, addr)[b] = data[b]
  BY <1>4, <1>5, <1>6, <1>7, <1>8, <1>9
<1> QED BY <1>5, <1>10 DEF addr, data, b

\* The bytes that are wrong can be counted.
LEMMA WrongFinite ==
  ASSUME IInv
  PROVE  /\ IsFiniteSet(WrongBytes)
         /\ \A k : IsFiniteSet(WrongIn(k)) /\ Cardinality(WrongIn(k)) \in Nat
<1>1. ProgramOK /\ Len(prog) \in Nat /\ DOMAIN prog = 1 .. Len(prog)
  BY DEF IInv, ProgramOK
<1>2. IsFiniteSet(Reads)
  <2>1. Reads \in SUBSET (1 .. Len(prog))
    BY <1>1 DEF Reads
  <2>2. IsFiniteSet(1 .. Len(prog))
    BY <1>1, FS_Interval
  <2> QED BY <2>1, <2>2, FS_Subset, Zenon
<1>3. IsFiniteSet(Reads \X (0 .. Beat - 1))
  <2>1. IsFiniteSet(0 .. Beat - 1)
    BY Widths, FS_Interval
  <2> QED BY <1>2, <2>1, FS_Product, Zenon
<1>4. WrongBytes \in SUBSET (Reads \X (0 .. Beat - 1))
  BY DEF WrongBytes
<1>5. IsFiniteSet(WrongBytes)
  BY <1>3, <1>4, FS_Subset
<1>6. ASSUME NEW k
      PROVE  IsFiniteSet(WrongIn(k)) /\ Cardinality(WrongIn(k)) \in Nat
  <2>1. WrongIn(k) \in SUBSET WrongBytes
    BY DEF WrongIn
  <2>2. IsFiniteSet(WrongIn(k))
    BY <1>5, <2>1, FS_Subset
  <2> QED BY <2>2, FS_CardinalityType
<1> QED BY <1>5, <1>6

\* A row adds to the wrong bytes those that do not agree.
LEMMA RowCount ==
  ASSUME IInv, kind # "conv", NEW k \in 1 .. Len(rows), NEW n \in Reads, FlexRow(k, n),
         NEW good, good = {j \in 0 .. Beat - 1 : SameByte(rows[k], j)}
  PROVE  /\ Cardinality(good) \in Nat /\ Cardinality(good) <= Beat
         /\ Cardinality(WrongIn(k)) = Cardinality(WrongIn(k - 1)) + Beat - Cardinality(good)
<1> DEFINE I == 0 .. Beat - 1
           bad == I \ good
           here == {r \in WrongBytes : r[1] = n}
           f == [j \in bad |-> <<n, Beat - 1 - j>>]
<1>1. ProgramOK /\ n \in 0 .. Len(prog) /\ Len(prog) \in Nat /\ Rank(n) = k /\ k \in Nat
      /\ Len(rows) \in Nat
  <2>1. ProgramOK /\ n \in DOMAIN prog /\ Rank(n) = k
    BY DEF IInv, Reads, FlexRow
  <2>2. DOMAIN prog = 1 .. Len(prog) /\ Len(prog) \in Nat
    BY <2>1 DEF ProgramOK
  <2>3. rows \in Seq([addr : Int, data : Seq(0 .. 15)])
    BY DEF IInv, RowsInv
  <2>4. Len(rows) \in Nat
    BY <2>3
  <2> QED BY <2>1, <2>2, <2>4
<1>2. IsFiniteSet(I) /\ Cardinality(I) = Beat
  BY Widths, FS_Interval
<1>3. /\ good \in SUBSET I /\ Cardinality(good) \in Nat /\ Cardinality(good) <= Beat
      /\ IsFiniteSet(bad) /\ Cardinality(bad) = Beat - Cardinality(good)
  <2>1. good \in SUBSET I /\ I \cap good = good
    OBVIOUS
  <2> HIDE DEF I
  <2>2. IsFiniteSet(good) /\ Cardinality(good) <= Beat
    BY <1>2, <2>1, FS_Subset
  <2>3. Cardinality(good) \in Nat
    BY <2>2, FS_CardinalityType
  <2>4. IsFiniteSet(I \ good) /\ Cardinality(I \ good) = Beat - Cardinality(good)
    <3>1. /\ IsFiniteSet(I \ good)
          /\ Cardinality(I \ good) = Cardinality(I) - Cardinality(I \cap good)
      BY <1>2, FS_Difference, Zenon
    <3> QED BY <1>2, <2>1, <3>1
  <2> QED BY <2>1, <2>2, <2>3, <2>4
<1>4. ASSUME NEW j \in I
      PROVE  /\ Beat - 1 - j \in I
             /\ j \in bad <=> <<n, Beat - 1 - j>> \in here
  <2>1. Beat - 1 - j \in I
    BY SameByteIs
  <2>2. j \in bad <=> ~SameByte(rows[k], j)
    OBVIOUS
  <2>3. <<n, Beat - 1 - j>> \in here
          <=> Load(ila, prog[n].addr)[Beat - 1 - j] # Before(prog[n].addr, n)[Beat - 1 - j]
    BY <2>1 DEF WrongBytes
  <2> QED BY <2>1, <2>2, <2>3, SameByteIs
<1>5. ExistsBijection(bad, here)
  <2>1. f \in [bad -> here]
    BY <1>4
  <2>2. \A i, j \in bad : f[i] = f[j] => i = j
    BY Widths
  <2>3. ASSUME NEW r \in here
        PROVE  \E j \in bad : f[j] = r
    <3>1. r = <<n, r[2]>> /\ r[2] \in I
      BY DEF WrongBytes
    <3> DEFINE j == Beat - 1 - r[2]
    <3>2. j \in I /\ Beat - 1 - j = r[2]
      BY <3>1, Widths
    <3> HIDE DEF j
    <3>3. j \in bad
      BY <1>4, <3>1, <3>2
    <3> QED BY <3>1, <3>2, <3>3
  <2> QED BY <2>1, <2>2, <2>3 DEF ExistsBijection, Bijection, Injection, Surjection, IsInjective
<1>6. IsFiniteSet(here) /\ Cardinality(here) = Cardinality(bad)
  BY <1>3, <1>5, FS_Bijection
<1>7. WrongIn(k) = WrongIn(k - 1) \cup here /\ WrongIn(k - 1) \cap here = {}
  <2>1. ASSUME NEW r \in WrongBytes
        PROVE  /\ Rank(r[1]) <= k <=> (Rank(r[1]) <= k - 1 \/ r[1] = n)
               /\ ~(Rank(r[1]) <= k - 1 /\ r[1] = n)
    <3>1. r[1] \in Reads /\ r[1] \in 0 .. Len(prog)
      BY <1>1 DEF WrongBytes, Reads, ProgramOK
    <3>2. Rank(r[1]) \in Nat /\ (Rank(r[1]) = k => r[1] = n) /\ (r[1] = n => Rank(r[1]) = k)
      BY <1>1, <3>1, RankStep, RankInjective
    <3> QED BY <1>1, <3>2
  <2> QED BY <2>1 DEF WrongIn
<1>8. Cardinality(WrongIn(k)) = Cardinality(WrongIn(k - 1)) + Cardinality(here)
  <2>1. IsFiniteSet(WrongIn(k - 1)) /\ Cardinality(WrongIn(k - 1)) \in Nat
    BY WrongFinite
  <2>2. Cardinality({}) = 0 /\ Cardinality(here) \in Nat
    BY <1>6, FS_EmptySet, FS_CardinalityType
  <2> HIDE DEF here
  <2>3. Cardinality(WrongIn(k - 1) \cup here)
          = Cardinality(WrongIn(k - 1)) + Cardinality(here) - Cardinality(WrongIn(k - 1) \cap here)
    BY <1>6, <2>1, FS_Union
  <2>4. Cardinality(WrongIn(k)) = Cardinality(WrongIn(k - 1)) + Cardinality(here) - 0
    BY <1>7, <2>2, <2>3
  <2> QED BY <2>1, <2>2, <2>4
<1>9. Cardinality(WrongIn(k - 1)) \in Nat
  BY WrongFinite
<1> HIDE DEF bad, here
<1> QED BY <1>3, <1>6, <1>8, <1>9, Widths


\* What a comparison leaves alone.
LEMMA CompareEffect ==
  ASSUME IInv, kind' = kind, prog' = prog, simulated' = simulated, ref' = ref, log' = log,
         converted' = converted, fed' = fed, ila' = ila, wrong' = wrong, line' = line,
         half' = half, rows' = rows
  PROVE  /\ ProgramOK' /\ SimulatorInv' /\ LogInv' /\ FragmentInv' /\ ModelInv' /\ RowsInv'
         /\ Extracted' = Extracted
         /\ \A k : WrongIn(k)' = WrongIn(k)
         /\ \A x : SameHalf(x)' = SameHalf(x)
<1>1. /\ ProgramOK' /\ SimulatorInv' /\ LogInv' /\ FragmentInv' /\ ModelInv' /\ RowsInv'
  BY SameProgramText, SameSimulator, SameLog, SameFragment, SameModel, SameRows DEF IInv
<1>2. Extracted' = Extracted
  BY DEF Extracted, LogComplete
<1>3. WrongBytes' = WrongBytes
  BY SameWrong
<1>4. \A k : WrongIn(k)' = WrongIn(k)
  BY <1>3, SameProgramText DEF WrongIn
<1>5. \A x : SameHalf(x)' = SameHalf(x)
  BY DEF SameHalf, Half
<1> QED BY <1>1, <1>2, <1>4, <1>5

\* Every compared byte is counted, as one that agrees or as one that is wrong.
LEMMA CompareFlexKeeps == ASSUME IInv, CompareFlex PROVE IInv'
<1> DEFINE good == {j \in 0 .. Beat - 1 : SameByte(rows[compared + 1], j)}
<1>1. /\ Extracted /\ kind # "conv" /\ compared < Len(rows)
      /\ passed' = passed + Cardinality(good)
      /\ err_total' = err_total + Beat - Cardinality(good)
      /\ total' = total + Beat /\ compared' = compared + 1 /\ verdict' = verdict
      /\ kind' = kind /\ prog' = prog /\ simulated' = simulated /\ ref' = ref /\ log' = log
      /\ converted' = converted /\ fed' = fed /\ ila' = ila /\ wrong' = wrong
      /\ line' = line /\ half' = half /\ rows' = rows
  BY DEF CompareFlex
<1>2. /\ ProgramOK' /\ SimulatorInv' /\ LogInv' /\ FragmentInv' /\ ModelInv' /\ RowsInv'
      /\ Extracted' = Extracted /\ \A k : WrongIn(k)' = WrongIn(k)
  BY <1>1, CompareEffect
<1>3. /\ compared \in 0 .. Len(rows) /\ total \in Nat /\ passed \in Nat /\ err_total \in Nat
      /\ total = passed + err_total /\ err_total = Cardinality(WrongIn(compared))
      /\ verdict \in {"none", "passed", "failed"} /\ (Judged => compared = Len(rows))
      /\ Len(rows) \in Nat
  BY <1>1 DEF IInv, CheckInv, RowsInv
<1>4. PICK k : k = compared + 1
  OBVIOUS
<1>5. k \in 1 .. Len(rows) /\ k - 1 = compared
  BY <1>1, <1>3, <1>4
<1>6. PICK n \in Reads : FlexRow(k, n)
  BY <1>1, <1>5 DEF IInv, RowsInv
<1>7. /\ Cardinality(good) \in Nat /\ Cardinality(good) <= Beat
      /\ Cardinality(WrongIn(k)) = Cardinality(WrongIn(k - 1)) + Beat - Cardinality(good)
  <2>1. good = {j \in 0 .. Beat - 1 : SameByte(rows[k], j)}
    BY <1>4
  <2> QED BY <1>1, <1>5, <1>6, <2>1, RowCount
<1> HIDE DEF good
<1>8. err_total' = Cardinality(WrongIn(k))
  BY <1>1, <1>3, <1>5, <1>7
<1>9. err_total' = Cardinality(WrongIn(compared))'
  <2>1. WrongIn(compared)' = WrongIn(k)'
    BY <1>1, <1>4 DEF WrongIn
  <2> QED BY <1>2, <1>8, <2>1
<1>10. /\ total' \in Nat /\ passed' \in Nat /\ err_total' \in Nat
       /\ total' = passed' + err_total' /\ compared' \in 0 .. Len(rows')
  <2>1. PICK g \in 0 .. Beat : g = Cardinality(good)
    BY <1>7, Widths
  <2>2. /\ passed' = passed + g /\ err_total' = err_total + Beat - g
        /\ total' = total + Beat /\ compared' = compared + 1 /\ rows' = rows
    BY <1>1, <2>1
  <2>3. Beat \in Nat /\ g \in Nat /\ g <= Beat
    BY <2>1, Widths
  <2>4. err_total' \in Nat /\ passed' \in Nat /\ total' \in Nat
    <3>1. Beat - g \in Nat
      BY <2>3
    <3>2. err_total' = err_total + (Beat - g)
      BY <1>3, <2>2, <2>3
    <3>3. passed' \in Nat /\ total' \in Nat
      BY <1>3, <2>2, <2>3
    <3> QED BY <1>3, <3>1, <3>2, <3>3
  <2>5. total' = passed' + err_total'
    BY <1>3, <2>2, <2>3
  <2>6. compared' \in 0 .. Len(rows')
    BY <1>1, <1>3, <2>2
  <2> QED BY <2>4, <2>5, <2>6
<1>11. ~Judged'
  BY <1>1, <1>3 DEF Judged
<1>12. CheckInv'
  BY <1>1, <1>2, <1>3, <1>9, <1>10, <1>11 DEF CheckInv
<1> QED BY <1>2, <1>12 DEF IInv

\* hlscnn counts half words, and a failure is never taken back.
LEMMA CompareConvKeeps == ASSUME IInv, CompareConv PROVE IInv'
<1>1. /\ Extracted /\ kind = "conv" /\ compared < Len(rows)
      /\ err_total' = IF SameHalf(compared + 1) THEN err_total ELSE err_total + 1
      /\ total' = total /\ passed' = passed /\ compared' = compared + 1 /\ verdict' = verdict
      /\ kind' = kind /\ prog' = prog /\ simulated' = simulated /\ ref' = ref /\ log' = log
      /\ converted' = converted /\ fed' = fed /\ ila' = ila /\ wrong' = wrong
      /\ line' = line /\ half' = half /\ rows' = rows
  BY DEF CompareConv, SameHalf
<1>2. /\ ProgramOK' /\ SimulatorInv' /\ LogInv' /\ FragmentInv' /\ ModelInv' /\ RowsInv'
      /\ Extracted' = Extracted /\ \A x : SameHalf(x)' = SameHalf(x)
  BY <1>1, CompareEffect
<1>3. /\ compared \in 0 .. Len(rows) /\ total \in Nat /\ passed \in Nat /\ err_total \in Nat
      /\ err_total = 0 <=> \A x \in 1 .. compared : SameHalf(x)
      /\ verdict \in {"none", "passed", "failed"} /\ (Judged => compared = Len(rows))
      /\ Len(rows) \in Nat
  BY <1>1 DEF IInv, CheckInv, RowsInv
<1>4. PICK k : k = compared + 1
  OBVIOUS
<1>5. err_total' \in Nat /\ compared' \in 0 .. Len(rows')
  BY <1>1, <1>3
<1>6. err_total' = 0 <=> \A x \in 1 .. k : SameHalf(x)
  <2>1. 1 .. k = (1 .. compared) \cup {k}
    BY <1>3, <1>4
  <2>2. CASE SameHalf(k)
    BY <1>1, <1>3, <1>4, <2>1, <2>2
  <2>3. CASE ~SameHalf(k)
    <3>1. err_total' # 0
      BY <1>1, <1>3, <1>4, <2>3
    <3> QED BY <2>1, <2>3, <3>1
  <2> QED BY <2>2, <2>3
<1>7. ~Judged'
  BY <1>1, <1>3 DEF Judged
<1>8. (err_total = 0 <=> \A x \in 1 .. compared : SameHalf(x))'
  BY <1>1, <1>2, <1>4, <1>6
<1>9. CheckInv'
  BY <1>1, <1>2, <1>3, <1>5, <1>7, <1>8 DEF CheckInv
<1> QED BY <1>2, <1>9 DEF IInv

\* The verdict says whether a failure was counted.
LEMMA JudgeKeeps == ASSUME IInv, Judge PROVE IInv'
<1>1. /\ Extracted /\ compared = Len(rows)
      /\ verdict' = IF (IF kind = "conv" THEN err_total = 0 ELSE total = passed)
                    THEN "passed" ELSE "failed"
      /\ compared' = compared /\ total' = total /\ passed' = passed /\ err_total' = err_total
      /\ kind' = kind /\ prog' = prog /\ simulated' = simulated /\ ref' = ref /\ log' = log
      /\ converted' = converted /\ fed' = fed /\ ila' = ila /\ wrong' = wrong
      /\ line' = line /\ half' = half /\ rows' = rows
  BY DEF Judge
<1>2. /\ ProgramOK' /\ SimulatorInv' /\ LogInv' /\ FragmentInv' /\ ModelInv' /\ RowsInv'
      /\ Extracted' = Extracted /\ \A k : WrongIn(k)' = WrongIn(k)
      /\ \A x : SameHalf(x)' = SameHalf(x)
  BY <1>1, CompareEffect
<1>3. WrongIn(compared)' = WrongIn(compared)
  <2>1. PICK c : c = compared
    OBVIOUS
  <2>2. WrongIn(compared)' = WrongIn(c)'
    BY <1>1, <2>1 DEF WrongIn
  <2> QED BY <1>2, <2>1, <2>2
<1>4. /\ verdict' \in {"none", "passed", "failed"}
      /\ verdict' = "passed" <=> (IF kind' = "conv" THEN err_total' = 0 ELSE total' = passed')
  BY <1>1
<1>5. CheckInv'
  BY <1>1, <1>2, <1>3, <1>4 DEF IInv, CheckInv
<1> QED BY <1>2, <1>5 DEF IInv

-----------------------------------------------------------------------------
(* The invariant                                                            *)

\* A finished testbench stays as it is.
LEMMA StutterKeeps == ASSUME IInv, UNCHANGED vars PROVE IInv'
<1>1. /\ kind' = kind /\ prog' = prog /\ simulated' = simulated /\ ref' = ref /\ log' = log
      /\ converted' = converted /\ fed' = fed /\ ila' = ila /\ wrong' = wrong
      /\ line' = line /\ half' = half /\ rows' = rows /\ checked' = checked
  BY DEF vars, converted, checked
<1>2. ProgramOK' /\ SimulatorInv' /\ LogInv' /\ FragmentInv' /\ ModelInv' /\ RowsInv'
  BY <1>1, CompareEffect
<1>3. CheckInv'
  BY <1>1, SameCheck DEF IInv
<1> QED BY <1>2, <1>3 DEF IInv

\* Every step keeps the inductive invariant.
LEMMA StepInv == ASSUME IInv, [Next]_vars PROVE IInv'
<1>1. CASE Simulate
  BY <1>1, SimulateKeeps
<1>2. CASE Dump
  BY <1>2, DumpKeeps
<1>3. CASE ConvertLine
  BY <1>3, ConvertKeeps
<1>4. CASE Feed
  BY <1>4, FeedKeeps
<1>5. CASE ExtractLine
  BY <1>5, ExtractKeeps
<1>6. CASE CompareFlex
  BY <1>6, CompareFlexKeeps
<1>7. CASE CompareConv
  BY <1>7, CompareConvKeeps
<1>8. CASE Judge
  BY <1>8, JudgeKeeps
<1>9. CASE Terminated
  BY <1>9, StutterKeeps DEF Terminated
<1>10. CASE UNCHANGED vars
  BY <1>10, StutterKeeps
<1> QED BY <1>1, <1>2, <1>3, <1>4, <1>5, <1>6, <1>7, <1>8, <1>9, <1>10 DEF Next

\* Every reachable state satisfies the inductive invariant.
THEOREM Invariance == Spec => []IInv
<1>1. Init => IInv
  BY InitInv
<1>2. IInv /\ [Next]_vars => IInv'
  BY StepInv
<1> QED BY <1>1, <1>2, PTL DEF Spec

-----------------------------------------------------------------------------
(* The two models                                                           *)

\* The commands that were executed determine a memory.
LEMMA HoldsSame ==
  ASSUME NEW a, NEW b, NEW n, Holds(a, n), Holds(b, n)
  PROVE  a = b
<1>1. a \in MemType /\ b \in MemType
  BY DEF Holds
<1>2. ASSUME NEW m \in Buffers
      PROVE  a[m] = b[m]
  <2>1. a[m] \in [0 .. Size - 1 -> Bytes] /\ b[m] \in [0 .. Size - 1 -> Bytes]
    BY <1>1 DEF MemType
  <2>2. \A c \in 0 .. Size - 1 : a[m][c] = b[m][c]
    BY DEF Holds
  <2>3. /\ a[m] = [c \in 0 .. Size - 1 |-> a[m][c]]
        /\ b[m] = [c \in 0 .. Size - 1 |-> b[m][c]]
    BY <2>1
  <2> QED BY <2>2, <2>3
<1>3. a = [m \in Buffers |-> a[m]] /\ b = [m \in Buffers |-> b[m]]
  BY <1>1 DEF MemType
<1> QED BY <1>2, <1>3

\* A complete and correct run of the ILA model ends with the simulator's memories:
\* padding and cutting numbers to their width lost nothing on the way.
THEOREM SameMemories == Spec => []SameProgram
<1>1. ASSUME IInv, fed = Len(prog), ~wrong
      PROVE  ila = ref
  <2>1. Holds(ila, Len(prog))
    BY <1>1 DEF IInv, ModelInv
  <2>2. Holds(ref, Len(prog))
    <3>1. CASE fed > 0
      <4>1. LogComplete
        BY <1>1, <3>1 DEF IInv, ModelInv, FragmentComplete
      <4> QED BY <1>1, <4>1, SimulatorDone
    <3>2. CASE ~(fed > 0)
      <4>1. Len(prog) = 0
        BY <1>1, <3>2, RankStep DEF IInv
      <4>2. Executed = 0
        BY <1>1, <4>1 DEF IInv, SimulatorInv, Executed
      <4> QED BY <1>1, <4>1, <4>2 DEF IInv, SimulatorInv
    <3> QED BY <3>1, <3>2
  <2> QED BY <2>1, <2>2, HoldsSame
<1>2. IInv => SameProgram
  BY <1>1 DEF SameProgram
<1> QED BY <1>2, Invariance, PTL

-----------------------------------------------------------------------------
(* The result file                                                          *)

\* The n-th read of a program of flex is the n-th row, with what it read, although
\* the log has its data without leading zeros and its address in another line.
THEOREM ReadsAreRows == Spec => []RowsAreReads
<1>1. ASSUME IInv, kind # "conv", NEW k \in DOMAIN rows,
             NEW n, n = CHOOSE m \in Reads : Cardinality({x \in Reads : x <= m}) = k
      PROVE  rows[k].addr = prog[n].addr /\ Value(rows[k].data) = Before(rows[k].addr, n)
  <2>1. k \in 1 .. Len(rows)
    BY <1>1 DEF IInv, RowsInv
  <2>2. PICK i \in Reads : FlexRow(k, i)
    BY <1>1, <2>1 DEF IInv, RowsInv
  <2>3. n \in Reads /\ Rank(n) = k
    <3>1. Cardinality({x \in Reads : x <= i}) = k
      BY <2>2 DEF FlexRow, Rank, ReadsTo
    <3>2. n \in Reads /\ Cardinality({x \in Reads : x <= n}) = k
      BY <1>1, <3>1, Zenon
    <3> QED BY <3>2 DEF Rank, ReadsTo
  <2>4. n = i
    BY <1>1, <2>2, <2>3, RankInjective DEF IInv, FlexRow
  <2>5. rows[k].addr = prog[n].addr /\ rows[k].data = Full(Before(prog[n].addr, n))
    BY <2>2, <2>4 DEF FlexRow, Row
  <2>6. Before(prog[n].addr, n) \in Data
    <3>1. ProgramOK /\ n \in 1 .. Len(prog) /\ Len(prog) \in Nat /\ n \in 1 .. Len(prog) + 1
      BY <1>1, <2>3, RankStep DEF IInv, Reads, ProgramOK
    <3> QED BY <3>1, CommandType, ContentBefore
  <2> QED BY <2>5, <2>6, ValueFull
<1>2. ASSUME IInv, kind # "conv"
      PROVE  /\ Len(rows) <= Cardinality(Reads)
             /\ Extracted => Len(rows) = Cardinality(Reads)
  BY <1>2, AllRows
<1>3. IInv => RowsAreReads
  BY <1>1, <1>2 DEF RowsAreReads
<1> QED BY <1>3, Invariance, PTL

-----------------------------------------------------------------------------
(* The verdict                                                              *)

\* After the last row all reads of flex have been compared.
LEMMA AllCompared ==
  ASSUME IInv, Judged, kind # "conv"
  PROVE  /\ err_total = Cardinality(WrongBytes)
         /\ verdict = "passed" <=> WrongBytes = {}
<1>1. /\ Extracted /\ compared = Len(rows) /\ (verdict = "passed" <=> total = passed)
      /\ total = passed + err_total /\ err_total = Cardinality(WrongIn(compared))
      /\ passed \in Nat /\ err_total \in Nat
  BY DEF IInv, CheckInv
<1>2. compared = Cardinality(Reads)
  <2>1. Len(rows) = Cardinality(Reads)
    BY <1>1, AllRows
  <2> QED BY <1>1, <2>1
<1>3. WrongIn(compared) = WrongBytes
  <2>1. ASSUME NEW r \in WrongBytes
        PROVE  Rank(r[1]) <= compared
    <3>1. /\ ProgramOK /\ r[1] \in 0 .. Len(prog) /\ Len(prog) \in 0 .. Len(prog)
          /\ Len(prog) \in Nat /\ Rank(Len(prog)) = compared
      BY <1>2, RankStep DEF IInv, WrongBytes, Reads, ProgramOK
    <3>2. CASE r[1] = Len(prog)
      BY <3>1, <3>2, RankStep
    <3>3. CASE r[1] < Len(prog)
      BY <3>1, <3>3, RankMonotone
    <3> QED BY <3>1, <3>2, <3>3
  <2> QED BY <2>1 DEF WrongIn
<1>4. Cardinality(WrongBytes) = 0 <=> WrongBytes = {}
  BY WrongFinite, FS_EmptySet
<1>5. total = passed <=> err_total = 0
  BY <1>1
<1> QED BY <1>1, <1>3, <1>4, <1>5

\* The results of hlscnn cover the used part of the scratch pad.
LEMMA AllHalves ==
  ASSUME IInv, Extracted, kind = "conv"
  PROVE  Len(rows) \in Nat /\ Len(rows) * 2 = Size
<1> DEFINE q == Size \div Beat
           h == Beat \div 2
<1>1. /\ line \in 1 .. Len(log) + 1 /\ line > Len(log) /\ LogComplete
      /\ Len(rows) = ResultsIn(line - 1) * (Beat \div 2)
      /\ Len(log) \in Nat
  BY DEF IInv, RowsInv, LogInv, Extracted
<1>2. Len(log) = 2 + Len(prog) + q
  BY <1>1, SimulatorDone DEF IInv, LogInv
<1>3. Len(prog) \in Nat
  BY RankStep DEF IInv
<1>4. q \in Nat /\ h \in Nat /\ q * Beat = Size /\ h * 2 = Beat
  BY BeatAssumption
<1> HIDE DEF q, h
<1>5. ResultsIn(line - 1) = q
  BY <1>1, <1>2, <1>3, <1>4 DEF ResultsIn
<1>6. Len(rows) = q * h
  BY <1>1, <1>5 DEF h
<1>7. q * h \in Nat /\ (q * h) * 2 = q * (h * 2)
  BY <1>4
<1> QED BY <1>4, <1>6, <1>7

\* Equal half words are equal bytes.
LEMMA EqualHalves ==
  ASSUME NEW a \in Bytes, NEW b \in Bytes, NEW c \in Bytes, NEW d \in Bytes
  PROVE  a + (256 * b) = c + (256 * d) <=> (a = c /\ b = d)
BY SMT DEF Bytes

\* All half words agree exactly if the scratch pads are equal.
LEMMA HalvesAgree ==
  ASSUME IInv, Extracted, kind = "conv"
  PROVE  (\A x \in 1 .. Len(rows) : SameHalf(x)) <=> ila["spad"] = ref["spad"]
<1> DEFINE m == ila["spad"]
           s == ref["spad"]
<1>1. m \in [0 .. Size - 1 -> Bytes] /\ s \in [0 .. Size - 1 -> Bytes]
  <2>1. ila \in MemType /\ ref \in MemType
    BY DEF IInv, ModelInv, SimulatorInv, Holds
  <2> QED BY <2>1 DEF MemType, Buffers
<1>2. Len(rows) \in Nat /\ Len(rows) * 2 = Size /\ Size \in Nat
  BY AllHalves, Widths
<1>3. ASSUME NEW x \in 1 .. Len(rows)
      PROVE  /\ 2 * (x - 1) \in 0 .. Size - 1 /\ 2 * (x - 1) + 1 \in 0 .. Size - 1
             /\ SameHalf(x) <=> (m[2 * (x - 1)] = s[2 * (x - 1)]
                                 /\ m[2 * (x - 1) + 1] = s[2 * (x - 1) + 1])
  <2> DEFINE b == 2 * (x - 1)
  <2>1. b \in 0 .. Size - 1 /\ b + 1 \in 0 .. Size - 1
    BY <1>2
  <2>2. rows[x] = Row(Spad1 + b, Half(ref, b))
    BY DEF IInv, RowsInv, ConvRow
  <2>3. (Spad1 + b) - Spad1 = b
    BY <2>1, SMT DEF Spad1
  <2> HIDE DEF b
  <2>4. SameHalf(x) <=> Half(ila, b) = Half(ref, b)
    BY <2>2, <2>3 DEF SameHalf, Row
  <2>5. Half(ila, b) = m[b] + (256 * m[b + 1]) /\ Half(ref, b) = s[b] + (256 * s[b + 1])
    BY DEF Half
  <2>6. m[b] \in Bytes /\ m[b + 1] \in Bytes /\ s[b] \in Bytes /\ s[b + 1] \in Bytes
    BY <1>1, <2>1
  <2> HIDE DEF m, s
  <2>7. SameHalf(x) <=> (m[b] = s[b] /\ m[b + 1] = s[b + 1])
    BY <2>4, <2>5, <2>6, EqualHalves
  <2> QED BY <2>1, <2>7 DEF b
<1>4. ASSUME \A x \in 1 .. Len(rows) : SameHalf(x)
      PROVE  m = s
  <2>1. ASSUME NEW b \in 0 .. Size - 1
        PROVE  m[b] = s[b]
    <3>1. PICK x \in 1 .. Len(rows) : b = 2 * (x - 1) \/ b = 2 * (x - 1) + 1
      <4>1. PICK c \in Nat : b = 2 * c \/ b = 2 * c + 1
        <5>1. b \div 2 \in Nat /\ (b = 2 * (b \div 2) \/ b = 2 * (b \div 2) + 1)
          BY <1>2
        <5> QED BY <5>1
      <4>2. c + 1 \in 1 .. Len(rows) /\ (c + 1) - 1 = c
        BY <1>2, <4>1
      <4> QED BY <4>1, <4>2
    <3> HIDE DEF m, s
    <3> QED BY <1>3, <1>4, <3>1
  <2>2. /\ m = [b \in 0 .. Size - 1 |-> m[b]]
        /\ s = [b \in 0 .. Size - 1 |-> s[b]]
    BY <1>1
  <2> HIDE DEF m, s
  <2> QED BY <2>1, <2>2
<1>5. ASSUME m = s
      PROVE  \A x \in 1 .. Len(rows) : SameHalf(x)
  <2> HIDE DEF m, s
  <2> QED BY <1>3, <1>5
<1> QED BY <1>4, <1>5

\* The verdict of flex is that the model has every byte that was read, that of
\* hlscnn that its scratch pad is the simulator's.
THEOREM Exact == Spec => []VerdictIsExact
<1>1. ASSUME IInv, Judged, kind # "conv"
      PROVE  /\ verdict = "passed" <=> WrongBytes = {}
             /\ err_total = Cardinality(WrongBytes)
  BY <1>1, AllCompared
<1>2. ASSUME IInv, Judged, kind = "conv"
      PROVE  verdict = "passed" <=> ila["spad"] = ref["spad"]
  <2>1. /\ Extracted
        /\ verdict = "passed" <=> err_total = 0
        /\ err_total = 0 <=> \A x \in 1 .. Len(rows) : SameHalf(x)
    BY <1>2 DEF IInv, CheckInv
  <2> QED BY <1>2, <2>1, HalvesAgree
<1>3. IInv => VerdictIsExact
  BY <1>1, <1>2 DEF VerdictIsExact
<1> QED BY <1>3, Invariance, PTL

\* If reads come after the last write to their address, a correct model passes.
THEOREM CorrectPasses == Spec => []NoFalseFailure
<1>1. ASSUME IInv, Judged, ~wrong, ReadsFinal
      PROVE  verdict = "passed"
  <2>1. Extracted /\ ProgramOK /\ Len(prog) \in Nat /\ DOMAIN prog = 1 .. Len(prog)
    BY <1>1 DEF IInv, CheckInv, ProgramOK
  <2>2. Holds(ila, Len(prog)) /\ Holds(ref, Len(prog))
    BY <1>1, <2>1, AllDone
  <2>3. CASE kind = "conv"
    <3>1. ila = ref
      BY <2>2, HoldsSame
    <3>2. \A x \in 1 .. Len(rows) : SameHalf(x)
      BY <1>1, <2>1, <2>3, <3>1, HalvesAgree
    <3> QED BY <1>1, <2>3, <3>2 DEF IInv, CheckInv
  <2>4. CASE kind # "conv"
    <3>1. ASSUME NEW n \in Reads
          PROVE  Load(ila, prog[n].addr) = Before(prog[n].addr, n)
      <4> DEFINE addr == prog[n].addr
      <4>1. n \in 1 .. Len(prog) /\ addr \in Addresses(kind)
        BY <2>1, CommandType DEF Reads
      <4>2. {m \in WritesTo(addr) : m < Len(prog) + 1} = {m \in WritesTo(addr) : m < n}
        BY <1>1, <2>1, <4>1 DEF ReadsFinal, WritesTo
      <4>3. Before(addr, Len(prog) + 1) = Before(addr, n)
        BY <4>2 DEF Before
      <4>4. Load(ila, addr) = Before(addr, Len(prog) + 1)
        BY <2>1, <2>2, <4>1, LoadHolds
      <4> QED BY <4>3, <4>4
    <3>2. WrongBytes = {}
      BY <3>1 DEF WrongBytes
    <3> QED BY <1>1, <2>4, <3>2, AllCompared
  <2> QED BY <2>3, <2>4
<1>2. IInv => NoFalseFailure
  BY <1>1 DEF NoFalseFailure
<1> QED BY <1>2, Invariance, PTL

=============================================================================
