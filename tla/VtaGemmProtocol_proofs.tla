----------------------- MODULE VtaGemmProtocol_proofs -----------------------
(***************************************************************************)
(* Proofs about the token protocol of the tests, for every number of tiles *)
(* T and of reduction steps N, and for one or two virtual threads or none. *)
(* IInv is inductive; every property below follows from it.                *)
(***************************************************************************)
EXTENDS VtaGemmProtocol, TLAPS

USE DEF LoadStages, ComputeStages, StoreStages

\* What the proofs use of the sizes of the call.
LEMMA Sizes ==
  ASSUME call \in Calls
  PROVE  /\ T \in Nat \ {0} /\ N \in Nat \ {0} /\ V \in {0, 1, 2}
         /\ V = 0 => N = 1
         /\ V = 2 => N >= 2
  BY CallsAssumption DEF T, N, V

\* The call never changes, nor what is computed from it.
LEMMA SameSizes ==
  ASSUME UNCHANGED call
  PROVE  T' = T /\ N' = N /\ V' = V
  BY DEF T, N, V

\* The initial state satisfies the inductive invariant.
LEMMA InitIInv == Init => IInv
<1> SUFFICES ASSUME Init PROVE IInv
  OBVIOUS
<1>1. call \in Calls
  BY DEF Init
<1>2. TypeOK /\ StageInv
  BY <1>1, Sizes DEF Init, TypeOK, StageInv
<1>3. SlotInv
  BY <1>1, Sizes DEF Init, SlotInv, NoLoads, SameTile, Released, Running, Biased, Midway
<1>4. OutInv
  BY DEF Init, OutInv, OutFilling
<1> QED BY <1>2, <1>3, <1>4 DEF IInv

\* No step of the load unit breaks the inductive invariant.
LEMMA LoadIInv == IInv /\ Load => IInv'
<1> SUFFICES ASSUME IInv, Load PROVE IInv'
  OBVIOUS
<1> USE DEF IInv, TypeOK, StageInv, lvars, cvars, svars
<1>v. V # 0
  BY DEF Load, LoadWgtBegin, LoadWgtEnd, LoadInpBegin, LoadInpEnd, SlotInv, NoLoads
<1>s. /\ T \in Nat \ {0} /\ N \in Nat \ {0} /\ V \in {1, 2}
      /\ V = 2 => N >= 2
  BY <1>v, Sizes
<1>c. call' = call /\ T' = T /\ N' = N /\ V' = V
  BY SameSizes DEF Load, LoadWgtBegin, LoadWgtEnd, LoadInpBegin, LoadInpEnd
<1>o. OutInv'
  BY <1>c DEF Load, LoadWgtBegin, LoadWgtEnd, LoadInpBegin, LoadInpEnd,
              OutInv, OutFilling, OutStoring, OutStored
<1>1. CASE LoadWgtBegin
  <2>1. TypeOK' /\ StageInv'
    BY <1>1, <1>s, <1>c DEF LoadWgtBegin
  <2>2. CASE SameTile
    <3>1. lt' = ct' /\ ct' < T' /\ l2g' = ln' - cn' - Running'
      BY <1>1, <1>c, <2>2 DEF LoadWgtBegin, SameTile, Running
    <3>2. g2l' = Released'
      BY <1>1, <1>s, <1>c, <2>2
         DEF LoadWgtBegin, Pop, SameTile, Released, Biased, Running, Midway
    <3> QED BY <2>1, <3>1, <3>2, <1>o, <1>s, <1>c DEF SlotInv, SameTile
  <2>3. CASE TileAhead
    BY <1>1, <1>s, <2>3 DEF LoadWgtBegin, Pop, TileAhead
  <2> QED BY <1>1, <1>s, <2>2, <2>3 DEF LoadWgtBegin, SlotInv, AllTiles
<1>2. CASE LoadWgtEnd \/ LoadInpBegin
  <2>1. TypeOK' /\ StageInv'
    BY <1>2, <1>s, <1>c DEF LoadWgtEnd, LoadInpBegin
  <2>2. SameTile
    BY <1>2, <1>s DEF LoadWgtEnd, LoadInpBegin, SlotInv, TileAhead, AllTiles
  <2>3. SameTile'
    BY <1>2, <1>s, <1>c, <2>2
       DEF LoadWgtEnd, LoadInpBegin, SameTile, Released, Biased, Running, Midway
  <2> QED BY <2>1, <2>3, <1>o, <1>s, <1>c DEF SlotInv
<1>3. CASE LoadInpEnd
  <2>1. SameTile
    BY <1>3, <1>s DEF LoadInpEnd, SlotInv, TileAhead, AllTiles
  <2>2. l2g + 1 \in 0 .. V
    BY <1>3, <1>s, <2>1 DEF LoadInpEnd, SameTile, Released, Biased, Running, Midway
  <2>3. TypeOK' /\ StageInv'
    BY <1>3, <1>s, <1>c, <2>1, <2>2 DEF LoadInpEnd, SameTile
  <2>4. CASE ln = N - 1
    <3>1. TileAhead'
      BY <1>3, <1>s, <1>c, <2>1, <2>4
         DEF LoadInpEnd, SameTile, TileAhead, Released, Biased, Running, Midway
    <3> QED BY <2>3, <3>1, <1>o, <1>s, <1>c DEF SlotInv
  <2>5. CASE ln # N - 1
    <3>1. SameTile'
      BY <1>3, <1>s, <1>c, <2>1, <2>5
         DEF LoadInpEnd, SameTile, Released, Biased, Running, Midway
    <3> QED BY <2>3, <3>1, <1>o, <1>s, <1>c DEF SlotInv
  <2> QED BY <2>4, <2>5
<1> QED BY <1>1, <1>2, <1>3 DEF Load

\* No step of the compute unit breaks the inductive invariant of a GEMM test.
LEMMA ComputeLoadsIInv == IInv /\ V # 0 /\ Compute => IInv'
<1> SUFFICES ASSUME IInv, V # 0, Compute PROVE IInv'
  OBVIOUS
<1> USE DEF IInv, TypeOK, StageInv, lvars, cvars, svars
<1>s. /\ T \in Nat \ {0} /\ N \in Nat \ {0} /\ V \in {1, 2}
      /\ V = 2 => N >= 2
  BY Sizes
<1>c. call' = call /\ T' = T /\ N' = N /\ V' = V
  BY SameSizes DEF Compute, LoadUopBegin, LoadUopEnd, LoadAccBegin, LoadAccEnd,
                   GemmBegin, GemmEnd, FinishBegin, FinishEnd
<1>1. CASE LoadUopBegin \/ LoadUopEnd \/ LoadAccBegin \/ FinishBegin \/ FinishEnd
  <2>1. TypeOK' /\ StageInv'
    BY <1>1, <1>s, <1>c
       DEF LoadUopBegin, LoadUopEnd, LoadAccBegin, FinishBegin, FinishEnd
  <2>2. SlotInv'
    BY <1>1, <1>s, <1>c
       DEF LoadUopBegin, LoadUopEnd, LoadAccBegin, FinishBegin, FinishEnd,
           SlotInv, SameTile, TileAhead, AllTiles, Released, Biased, Running, Midway
  <2>3. OutInv'
    BY <1>1, <1>c DEF LoadUopBegin, LoadUopEnd, LoadAccBegin, FinishBegin, FinishEnd,
                OutInv, OutFilling, OutStoring, OutStored
  <2> QED BY <2>1, <2>2, <2>3
<1>2. CASE LoadAccEnd
  <2>1. OutInv'
    BY <1>2 DEF LoadAccEnd, OutInv, OutFilling, OutStoring, OutStored
  <2>2. CASE SameTile
    <3>1. (V = 1) => g2l + 1 \in 0 .. 1
      BY <1>2, <1>s, <2>2 DEF LoadAccEnd, SameTile, Released, Biased, Running, Midway
    <3>2. TypeOK' /\ StageInv'
      BY <1>2, <1>s, <1>c, <3>1 DEF LoadAccEnd
    <3>3. SameTile'
      BY <1>2, <1>s, <1>c, <2>2
         DEF LoadAccEnd, SameTile, Released, Biased, Running, Midway
    <3> QED BY <2>1, <3>2, <3>3, <1>s, <1>c DEF SlotInv
  <2>3. CASE TileAhead
    <3>1. V = 2
      BY <1>2, <1>s, <2>3 DEF LoadAccEnd, TileAhead, Biased
    <3>2. TypeOK' /\ StageInv'
      BY <1>2, <1>s, <1>c, <3>1 DEF LoadAccEnd
    <3>3. TileAhead'
      BY <1>2, <1>s, <1>c, <2>3, <3>1 DEF LoadAccEnd, TileAhead, Running, Biased
    <3> QED BY <2>1, <3>2, <3>3, <1>s, <1>c DEF SlotInv
  <2> QED BY <1>2, <1>s, <2>2, <2>3 DEF LoadAccEnd, SlotInv, AllTiles
<1>3. CASE GemmBegin
  <2>1. TypeOK' /\ StageInv'
    BY <1>3, <1>s, <1>c DEF GemmBegin
  <2>2. SlotInv'
    BY <1>3, <1>s, <1>c
       DEF GemmBegin, SlotInv, SameTile, TileAhead, AllTiles,
           Released, Biased, Running, Midway
  <2>3. OutInv'
    BY <1>3 DEF GemmBegin, OutInv, OutFilling, OutStoring, OutStored
  <2> QED BY <2>1, <2>2, <2>3
<1>4. CASE GemmEnd
  <2>1. OutFilling /\ st = ct
    BY <1>4 DEF GemmEnd, OutInv, OutStoring, OutStored
  <2>2. OutInv'
    BY <1>4, <2>1 DEF GemmEnd, OutInv, OutFilling, OutStoring
  <2>3. CASE SameTile
    <3>1. cn < ln /\ cn # N - 1
      BY <1>4, <1>s, <2>3 DEF GemmEnd, SameTile, Running
    <3>2. /\ g2l' = IF V = 2 /\ cn = N - 2 THEN g2l ELSE g2l + 1
          /\ cst' = "gemm" /\ ct' = ct /\ cn' = cn + 1 /\ g2s' = g2s
      BY <1>4, <1>s, <3>1 DEF GemmEnd, PushPrev
    <3>3. SameTile'
      BY <1>4, <1>s, <1>c, <2>3, <3>1, <3>2
         DEF GemmEnd, SameTile, Released, Biased, Running, Midway
    <3>4. g2l' \in 0 .. V
      BY <1>4, <1>s, <2>3, <3>1, <3>2
         DEF GemmEnd, SameTile, Released, Biased, Running, Midway
    <3>5. TypeOK' /\ StageInv'
      BY <1>4, <1>s, <1>c, <3>1, <3>2, <3>4 DEF GemmEnd
    <3> QED BY <2>2, <3>3, <3>5, <1>s, <1>c DEF SlotInv
  <2>4. CASE TileAhead /\ cn = N - 1
    <3>1. /\ g2l' = IF V = 2 /\ ct # T - 1 THEN 1 ELSE 0
          /\ cst' = "acc" /\ ct' = ct + 1 /\ cn' = 0 /\ g2s' = 1
      BY <1>4, <1>s, <2>1, <2>4 DEF GemmEnd, PushPrev, TileAhead, OutFilling
    <3>2. TypeOK' /\ StageInv'
      BY <1>4, <1>s, <1>c, <2>4, <3>1 DEF GemmEnd, TileAhead
    <3>3. SameTile' \/ AllTiles'
      BY <1>4, <1>s, <1>c, <2>4, <3>1
         DEF GemmEnd, TileAhead, SameTile, AllTiles, Released, Biased, Running, Midway
    <3> QED BY <2>2, <3>2, <3>3, <1>s, <1>c DEF SlotInv
  <2>5. CASE TileAhead /\ cn # N - 1
    <3>1. V = 2 /\ cn = N - 2
      BY <1>s, <2>5 DEF TileAhead
    <3>2. /\ g2l' = 0
          /\ cst' = "gemm" /\ ct' = ct /\ cn' = cn + 1 /\ g2s' = g2s
      BY <1>4, <1>s, <2>5, <3>1 DEF GemmEnd, PushPrev, TileAhead
    <3>3. TypeOK' /\ StageInv'
      BY <1>4, <1>s, <1>c, <2>5, <3>1, <3>2 DEF GemmEnd, TileAhead
    <3>4. UNCHANGED <<lt, ln, lst, l2g>> /\ Running = 1 /\ Running' = 0
      BY <1>4, <3>2 DEF GemmEnd, Running
    <3>5. TileAhead'
      BY <1>s, <1>c, <2>5, <3>1, <3>2, <3>4 DEF TileAhead
    <3> QED BY <2>2, <3>3, <3>5, <1>s, <1>c DEF SlotInv
  <2> QED BY <1>4, <1>s, <2>3, <2>4, <2>5 DEF GemmEnd, SlotInv, AllTiles
<1> QED BY <1>1, <1>2, <1>3, <1>4 DEF Compute

\* No step of the compute unit breaks the inductive invariant of alu_test.
LEMMA ComputeNoLoadsIInv == IInv /\ V = 0 /\ Compute => IInv'
<1> SUFFICES ASSUME IInv, V = 0, Compute PROVE IInv'
  OBVIOUS
<1> USE DEF IInv, TypeOK, StageInv, lvars, cvars, svars
<1>s. T \in Nat \ {0} /\ N = 1
  BY Sizes
<1>c. call' = call /\ T' = T /\ N' = N /\ V' = V
  BY SameSizes DEF Compute, LoadUopBegin, LoadUopEnd, LoadAccBegin, LoadAccEnd,
                   GemmBegin, GemmEnd, FinishBegin, FinishEnd
<1>1. UNCHANGED <<lt, ln, lst, l2g, g2l>>
  BY <1>s DEF Compute, LoadUopBegin, LoadUopEnd, LoadAccBegin, LoadAccEnd,
              GemmBegin, GemmEnd, PushPrev, FinishBegin, FinishEnd
<1>2. SlotInv'
  BY <1>c, <1>1 DEF SlotInv, NoLoads
<1>3. CASE GemmEnd
  <2>1. OutFilling /\ st = ct /\ cn = N - 1
    BY <1>3, <1>s DEF GemmEnd, OutInv, OutStoring, OutStored
  <2>2. OutInv'
    BY <1>3, <2>1 DEF GemmEnd, OutInv, OutFilling, OutStoring
  <2>3. TypeOK' /\ StageInv'
    BY <1>3, <1>s, <1>c, <1>1, <2>1 DEF GemmEnd, OutFilling
  <2> QED BY <1>2, <2>2, <2>3
<1>4. CASE ~GemmEnd
  <2>1. TypeOK' /\ StageInv'
    BY <1>4, <1>s, <1>c, <1>1
       DEF Compute, LoadUopBegin, LoadUopEnd, LoadAccBegin, LoadAccEnd,
           GemmBegin, FinishBegin, FinishEnd
  <2>2. OutInv'
    BY <1>4, <1>c DEF Compute, LoadUopBegin, LoadUopEnd, LoadAccBegin, LoadAccEnd,
           GemmBegin, FinishBegin, FinishEnd, OutInv, OutFilling, OutStoring, OutStored
  <2> QED BY <1>2, <2>1, <2>2
<1> QED BY <1>3, <1>4

\* No step of the compute unit breaks the inductive invariant.
LEMMA ComputeIInv == IInv /\ Compute => IInv'
BY ComputeLoadsIInv, ComputeNoLoadsIInv

\* No step of the store unit breaks the inductive invariant.
LEMMA StoreIInv == IInv /\ Store => IInv'
<1> SUFFICES ASSUME IInv, Store PROVE IInv'
  OBVIOUS
<1> USE DEF IInv, TypeOK, StageInv, lvars, cvars, svars
<1>s. T \in Nat \ {0} /\ N \in Nat \ {0} /\ V \in {0, 1, 2}
  BY Sizes
<1>c. call' = call /\ T' = T /\ N' = N /\ V' = V
  BY SameSizes DEF Store, StoreBegin, StoreEnd
<1>u. UNCHANGED <<lt, ln, lst, ct, cn, cst, l2g, g2l>>
  BY DEF Store, StoreBegin, StoreEnd
<1>o. SlotInv'
  BY <1>c, <1>u DEF SlotInv, NoLoads, SameTile, TileAhead, AllTiles,
                    Released, Biased, Running, Midway
<1>1. CASE StoreBegin
  <2>1. TypeOK' /\ StageInv'
    BY <1>1, <1>s, <1>c DEF StoreBegin
  <2>2. OutInv'
    BY <1>1 DEF StoreBegin, OutInv, OutFilling, OutStoring, OutStored
  <2> QED BY <2>1, <2>2, <1>o
<1>2. CASE StoreEnd
  <2>1. OutStoring /\ st = ct - 1
    BY <1>2 DEF StoreEnd, OutInv, OutFilling, OutStored
  <2>2. TypeOK' /\ StageInv'
    BY <1>2, <1>s, <1>c, <2>1 DEF StoreEnd, OutStoring
  <2>3. OutInv'
    BY <1>2, <2>1 DEF StoreEnd, OutInv, OutStoring, OutStored
  <2> QED BY <2>2, <2>3, <1>o
<1> QED BY <1>1, <1>2 DEF Store

\* The next call starts from tokens and positions that the last one left clean.
LEMMA NextCallIInv == IInv /\ NextCall => IInv'
<1> SUFFICES ASSUME IInv, NextCall PROVE IInv'
  OBVIOUS
<1>1. l2g = 0 /\ g2l = 0 /\ g2s = 0 /\ s2g = 0
  <2>1. ct = T /\ cst = "done"
    BY DEF NextCall, IInv, StageInv
  <2>2. l2g = 0 /\ g2l = 0
    BY <2>1, Sizes DEF IInv, TypeOK, SlotInv, NoLoads, SameTile, TileAhead, AllTiles
  <2>3. g2s = 0 /\ s2g = 0
    BY <2>1 DEF IInv, OutInv, OutFilling, OutStoring, OutStored
  <2> QED BY <2>2, <2>3
<1>2. /\ T' \in Nat \ {0} /\ N' \in Nat \ {0} /\ V' \in {0, 1, 2}
      /\ V' = 0 => N' = 1
      /\ V' = 2 => N' >= 2
  BY CallsAssumption DEF NextCall, T, N, V
<1>3. TypeOK' /\ StageInv'
  <2>1. \A n \in Nat \ {0} : 0 \in 0 .. n /\ 0 \in 0 .. n - 1
    OBVIOUS
  <2>2. TypeOK'
    <3>1. 0 \in 0 .. T' /\ 0 \in 0 .. N' - 1
      BY <1>2, <2>1, Zenon
    <3>2. lt' = 0 /\ ct' = 0 /\ st' = 0 /\ ln' = 0 /\ cn' = 0
      BY DEF NextCall
    <3>3. lt' \in 0 .. T' /\ ct' \in 0 .. T' /\ st' \in 0 .. T'
      BY <3>1, <3>2
    <3>4. ln' \in 0 .. N' - 1 /\ cn' \in 0 .. N' - 1
      BY <3>1, <3>2, Zenon
    <3>5. l2g' \in 0 .. V' /\ g2l' \in 0 .. V' /\ g2s' \in 0 .. 1 /\ s2g' \in 0 .. 1
      BY <1>1, <1>2 DEF NextCall
    <3> QED BY <3>3, <3>4, <3>5 DEF NextCall, TypeOK
  <2>3. StageInv'
    BY DEF NextCall, StageInv
  <2> QED BY <2>2, <2>3
<1>4. SlotInv'
  BY <1>1, <1>2 DEF NextCall, SlotInv, NoLoads, SameTile, Released, Running, Biased, Midway
<1>5. OutInv'
  BY <1>1 DEF NextCall, OutInv, OutFilling
<1> QED BY <1>3, <1>4, <1>5 DEF IInv

\* A step that changes nothing keeps the inductive invariant.
LEMMA StutterIInv == IInv /\ UNCHANGED vars => IInv'
<1> SUFFICES ASSUME IInv, UNCHANGED vars PROVE IInv'
  OBVIOUS
<1>1. T' = T /\ N' = N /\ V' = V
  BY SameSizes DEF vars
<1> QED
  BY <1>1 DEF vars, IInv, TypeOK, StageInv, SlotInv, NoLoads, SameTile, TileAhead, AllTiles,
              Released, Biased, Running, Midway, OutInv, OutFilling, OutStoring, OutStored

\* IInv is inductive.
LEMMA NextIInv == IInv /\ [Next]_vars => IInv'
BY LoadIInv, ComputeIInv, StoreIInv, NextCallIInv, StutterIInv DEF Next

\* The token protocol keeps its inductive invariant: the tokens in the queues
\* are those the positions of the units stand for, and the output buffer has
\* one owner at any time.
THEOREM Invariance == Spec => []IInv
BY InitIInv, NextIInv, PTL DEF Spec

\* Every unit stays in its part of the stream, and no dependency queue ever
\* holds more tokens than there are virtual threads, whatever the sizes of the
\* matrices.
THEOREM TypeCorrect == Spec => []TypeOK
<1>1. IInv => TypeOK
  BY DEF IInv
<1> QED BY Invariance, <1>1, PTL

\* No load overwrites the block a GEMM reads, and each GEMM finds the block of
\* its own tile and step in its input slot.
THEOREM GemmOperands == Spec => []GemmReadsItsBlocks
<1>1. IInv => GemmReadsItsBlocks
  <2> SUFFICES ASSUME IInv, V > 0, cst = "gemmRun"
               PROVE  Computed < Loaded /\ Begun <= Computed + V
    BY DEF GemmReadsItsBlocks
  <2> USE DEF IInv, TypeOK
  <2>s. /\ T \in Nat \ {0} /\ N \in Nat \ {0} /\ V \in {1, 2}
        /\ V = 2 => N >= 2
    BY Sizes
  <2>1. CASE SameTile
    <3>1. cn < ln /\ ln + Midway <= cn + V
      BY <2>s, <2>1 DEF SameTile, Released, Biased, Running, Midway
    <3>2. lt * N = ct * N /\ ct * N \in Int /\ Midway \in Int
      BY <2>s, <2>1 DEF SameTile, Midway
    <3> QED BY <2>s, <3>1, <3>2 DEF Computed, Loaded, Begun
  <2>2. CASE TileAhead
    <3>1. lt * N = ct * N + N /\ ct * N \in Int
      BY <2>s, <2>2 DEF TileAhead
    <3>2. Midway = 0 /\ ln = 0 /\ cn >= N - V
      BY <2>2 DEF TileAhead, Midway
    <3> QED BY <2>s, <3>1, <3>2 DEF Computed, Loaded, Begun
  <2>3. ~AllTiles
    BY DEF AllTiles, StageInv
  <2> QED BY <2>1, <2>2, <2>3 DEF SlotInv
<1> QED BY Invariance, <1>1, PTL

\* The owner of the output buffer is the store unit while it stores.
LEMMA StoringIInv == IInv => StoreReadsItsTile
BY DEF IInv, TypeOK, OutInv, OutFilling, OutStoring, OutStored, StoreReadsItsTile, StageInv

\* A tile is stored complete, and is not overwritten while it is stored.
THEOREM StoredTile == Spec => []StoreReadsItsTile
BY Invariance, StoringIInv, PTL

\* When FINISH runs all positions are at their ends, so that no token is left.
LEMMA FinishIInv == IInv => FinishIsLast
BY Sizes DEF IInv, TypeOK, OutInv, OutFilling, OutStoring, OutStored, FinishIsLast,
             SlotInv, NoLoads, SameTile, TileAhead, AllTiles, StageInv

\* FINISH comes last, with every tile stored and no token left.
THEOREM FinishLast == Spec => []FinishIsLast
BY Invariance, FinishIInv, PTL

\* The units never wait on each other in a circle.
THEOREM DeadlockFree == Spec => []NoDeadlock
<1>1. IInv => NoDeadlock
  <2> SUFFICES ASSUME IInv PROVE NoDeadlock
    OBVIOUS
  <2> USE DEF IInv, TypeOK
  <2>s. /\ T \in Nat \ {0} /\ N \in Nat \ {0} /\ V \in {0, 1, 2}
        /\ V = 2 => N >= 2
    BY Sizes
  <2>1. CASE cst = "gemm"
    <3>1. CASE V = 0
      BY <2>1, <3>1 DEF NoDeadlock, ComputeCanStep
    <3>2. CASE V # 0 /\ SameTile
      BY <2>s, <2>1, <3>2
         DEF SameTile, Released, Biased, Running, Midway, Pop,
             NoDeadlock, LoadCanStep, ComputeCanStep
    <3>3. CASE V # 0 /\ TileAhead
      BY <2>s, <2>1, <3>3 DEF TileAhead, Running, NoDeadlock, ComputeCanStep
    <3>4. ~AllTiles
      BY <2>1 DEF AllTiles, StageInv
    <3> QED BY <3>1, <3>2, <3>3, <3>4 DEF SlotInv
  <2>2. CASE cst = "acc"
    <3>1. CASE ct = 0
      BY <2>2, <3>1 DEF NoDeadlock, ComputeCanStep
    <3>2. CASE OutStoring /\ st = ct - 1
      <4>1. st < T
        BY <2>s, <3>2 DEF OutStoring
      <4>2. StoreCanStep
        BY <3>2, <4>1 DEF OutStoring, StoreCanStep
      <4> QED BY <4>2 DEF NoDeadlock
    <3>3. CASE OutStored
      BY <3>3 DEF OutStored, NoDeadlock, ComputeCanStep
    <3> QED BY <2>2, <3>1, <3>2, <3>3 DEF OutInv, OutFilling
  <2>3. CASE cst \notin {"gemm", "acc"}
    BY <2>3 DEF NoDeadlock, ComputeCanStep
  <2> QED BY <2>1, <2>2, <2>3
<1> QED BY Invariance, <1>1, PTL

-----------------------------------------------------------------------------
(* What the inductive invariant says of one unit when another one works     *)

\* The load unit is never ahead of the compute unit by all the input slots.
LEMMA LoadingIInv ==
  IInv /\ lst # "wgt" =>
    /\ V \in {1, 2} /\ lt = ct /\ ct < T
    /\ cn <= ln /\ ln <= cn + V - 1
<1> SUFFICES ASSUME IInv, lst # "wgt"
             PROVE  /\ V \in {1, 2} /\ lt = ct /\ ct < T
                    /\ cn <= ln /\ ln <= cn + V - 1
  OBVIOUS
<1> USE DEF IInv, TypeOK
<1>1. V # 0 /\ SameTile
  BY DEF SlotInv, NoLoads, TileAhead, AllTiles
<1>2. T \in Nat \ {0} /\ N \in Nat \ {0} /\ V \in {1, 2} /\ (V = 2 => N >= 2)
  BY <1>1, Sizes
<1> QED BY <1>1, <1>2 DEF SameTile, Released, Biased, Running, Midway

\* A GEMM that runs has its operands, and the last one of a tile has them all.
LEMMA ComputingIInv ==
  IInv /\ V # 0 /\ cst = "gemmRun" =>
    \/ lt = ct /\ cn < ln
    \/ lt = ct + 1 /\ ln = 0 /\ lst = "wgt"
<1> SUFFICES ASSUME IInv, V # 0, cst = "gemmRun"
             PROVE  \/ lt = ct /\ cn < ln
                    \/ lt = ct + 1 /\ ln = 0 /\ lst = "wgt"
  OBVIOUS
<1> USE DEF IInv, TypeOK
<1>1. ~AllTiles
  BY DEF AllTiles, StageInv
<1>2. T \in Nat \ {0} /\ N \in Nat \ {0} /\ V \in {1, 2}
  BY Sizes
<1> QED BY <1>1, <1>2 DEF SlotInv, SameTile, TileAhead, Running

\* After FINISH, the load unit is at the beginning of a step.
LEMMA DoneIInv == IInv /\ cst = "done" => ln = 0
<1> SUFFICES ASSUME IInv, cst = "done" PROVE ln = 0
  OBVIOUS
<1> QED BY Sizes DEF IInv, TypeOK, StageInv, SlotInv, NoLoads, SameTile, TileAhead, AllTiles
=============================================================================
