-------------------------- MODULE VtaGemmProtocol --------------------------
(***************************************************************************)
(* The token protocol of the tests, for any number of tiles and of         *)
(* reduction steps, with one or two virtual threads.  The state says where *)
(* each unit is in its own part of the stream and which tokens are on      *)
(* their way; the data are gone, since the order of the steps decides      *)
(* which block is in an input slot and which tile is in the output buffer. *)
(*                                                                         *)
(* Tile t of the stream is LOAD ACC; for n in 0 .. N-1: LOAD WGT, LOAD INP *)
(* and GEMM; STORE.  Step n uses the input slot n % V.  alu_test has no    *)
(* input slots, V = 0: a row of it is a tile of one step, whose ALU        *)
(* instruction stands for the GEMM, and the load unit has nothing to do.   *)
(* VtaPipeline implements this module (VtaHost!ImplementsProtocol), and    *)
(* VtaGemmProtocol_proofs proves it correct.                               *)
(***************************************************************************)
EXTENDS Integers

CONSTANT
  Calls   \* the calls to consider: [T, N, V], the tiles (batch / block) *
          \* (out_feat / block), the reduction steps of a tile in_feat / block,
          \* and the virtual threads; for alu_test the rows, 1 and 0

\* With two threads the inner loops run over pairs of steps.
ASSUME CallsAssumption ==
  \A c \in Calls :
    /\ c.T \in Nat \ {0} /\ c.N \in Nat \ {0} /\ c.V \in {0, 1, 2}
    /\ c.V = 0 => c.N = 1
    /\ c.V = 2 => \E pairs \in 1 .. c.N : c.N = 2 * pairs

VARIABLES
  call,                    \* the call that runs
  lt, ln, lst,             \* load unit: tile, step, stage
  ct, cn, cst,             \* compute unit: tile, step, stage
  st, sst,                 \* store unit: tile, stage
  l2g, g2l, g2s, s2g       \* tokens in the dependency queues

T == call.T
N == call.N
V == call.V

lvars == <<call, lt, ln, lst>>
cvars == <<ct, cn, cst>>
svars == <<st, sst>>
vars == <<call, lt, ln, lst, ct, cn, cst, st, sst, l2g, g2l, g2s, s2g>>

LoadStages    == {"wgt", "wgtRun", "inp", "inpRun"}
ComputeStages == {"uop", "uopRun", "acc", "accRun", "gemm", "gemmRun", "finRun", "done"}
StoreStages   == {"wait", "run"}

\* The flag pop: does LOAD WGT of step n of tile t wait for a token?  The first
\* load of each slot does not, nor, in a later tile, that of the second slot.
Pop(t, n) == V = 1 \/ ((t > 0 \/ n > 0) /\ n # 1)

PushPrevAlways(t, n) == TRUE   \* (mutant: every GEMM releases a slot)
PushPrevNever(t, n) == FALSE   \* (mutant: no GEMM does)
\* The flag push_prev: does the GEMM of step n of tile t release an input slot?
PushPrev(t, n) ==
  \/ V = 1 /\ n # N - 1
  \/ V = 2 /\ n # N - 2 /\ (n # N - 1 \/ t # T - 1)

Init ==
  /\ call \in Calls
  /\ lt = 0 /\ ln = 0 /\ lst = "wgt"
  /\ ct = 0 /\ cn = 0 /\ cst = "uop"
  /\ st = 0 /\ sst = "wait"
  /\ l2g = 0 /\ g2l = 0 /\ g2s = 0 /\ s2g = 0

-----------------------------------------------------------------------------
(* The load unit                                                            *)

LoadWgtBeginNoPop ==   \* (mutant: does not wait for the GEMM)
  /\ V > 0 /\ lst = "wgt" /\ lt < T
  /\ lst' = "wgtRun"
  /\ UNCHANGED <<call, lt, ln, cvars, svars, l2g, g2l, g2s, s2g>>
LoadWgtBegin ==
  /\ V > 0 /\ lst = "wgt" /\ lt < T
  /\ \/ Pop(lt, ln) /\ g2l > 0 /\ g2l' = g2l - 1
     \/ ~Pop(lt, ln) /\ g2l' = g2l
  /\ lst' = "wgtRun"
  /\ UNCHANGED <<call, lt, ln, cvars, svars, l2g, g2s, s2g>>

LoadWgtEnd ==
  /\ lst = "wgtRun"
  /\ lst' = "inp"
  /\ UNCHANGED <<call, lt, ln, cvars, svars, l2g, g2l, g2s, s2g>>

LoadInpBegin ==
  /\ lst = "inp"
  /\ lst' = "inpRun"
  /\ UNCHANGED <<call, lt, ln, cvars, svars, l2g, g2l, g2s, s2g>>

LoadInpEnd ==
  /\ lst = "inpRun"
  /\ lst' = "wgt"
  /\ lt' = IF ln = N - 1 THEN lt + 1 ELSE lt
  /\ ln' = IF ln = N - 1 THEN 0 ELSE ln + 1
  /\ l2g' = l2g + 1
  /\ UNCHANGED <<call, cvars, svars, g2l, g2s, s2g>>

-----------------------------------------------------------------------------
(* The compute unit                                                         *)

LoadUopBegin ==
  /\ cst = "uop"
  /\ cst' = "uopRun"
  /\ UNCHANGED <<lvars, ct, cn, svars, l2g, g2l, g2s, s2g>>

LoadUopEnd ==
  /\ cst = "uopRun"
  /\ cst' = "acc"
  /\ UNCHANGED <<lvars, ct, cn, svars, l2g, g2l, g2s, s2g>>

LoadAccBeginNoPop ==   \* (mutant: does not wait for the store of the previous tile)
  /\ cst = "acc" /\ ct < T
  /\ cst' = "accRun"
  /\ UNCHANGED <<lvars, ct, cn, svars, l2g, g2l, g2s, s2g>>
\* The first tile has no earlier store to wait for.
LoadAccBegin ==
  /\ cst = "acc" /\ ct < T
  /\ \/ ct = 0 /\ s2g' = s2g
     \/ ct > 0 /\ s2g > 0 /\ s2g' = s2g - 1
  /\ cst' = "accRun"
  /\ UNCHANGED <<lvars, ct, cn, svars, l2g, g2l, g2s>>

\* With one thread the first step of a tile waits for its LOAD ACC.
LoadAccEnd ==
  /\ cst = "accRun"
  /\ cst' = "gemm"
  /\ g2l' = IF V = 1 THEN g2l + 1 ELSE g2l
  /\ UNCHANGED <<lvars, ct, cn, svars, l2g, g2s, s2g>>

\* A GEMM waits for the operands of its step.
GemmBegin ==
  /\ cst = "gemm"
  /\ \/ V = 0 /\ l2g' = l2g
     \/ V > 0 /\ l2g > 0 /\ l2g' = l2g - 1
  /\ cst' = "gemmRun"
  /\ UNCHANGED <<lvars, ct, cn, svars, g2l, g2s, s2g>>

\* The last GEMM of a tile releases the store unit.
GemmEnd ==
  /\ cst = "gemmRun"
  /\ g2l' = IF PushPrev(ct, cn) THEN g2l + 1 ELSE g2l
  /\ \/ /\ cn = N - 1
        /\ g2s' = g2s + 1
        /\ ct' = ct + 1 /\ cn' = 0 /\ cst' = "acc"
     \/ /\ cn # N - 1
        /\ g2s' = g2s
        /\ ct' = ct /\ cn' = cn + 1 /\ cst' = "gemm"
  /\ UNCHANGED <<lvars, svars, l2g, s2g>>

FinishBeginNoPop ==   \* (mutant: getFinishInsn(0, 0))
  /\ cst = "acc" /\ ct = T
  /\ cst' = "finRun"
  /\ UNCHANGED <<lvars, ct, cn, svars, l2g, g2l, g2s, s2g>>
FinishBegin ==
  /\ cst = "acc" /\ ct = T
  /\ s2g > 0
  /\ s2g' = s2g - 1
  /\ cst' = "finRun"
  /\ UNCHANGED <<lvars, ct, cn, svars, l2g, g2l, g2s>>

FinishEnd ==
  /\ cst = "finRun"
  /\ cst' = "done"
  /\ UNCHANGED <<lvars, ct, cn, svars, l2g, g2l, g2s, s2g>>

-----------------------------------------------------------------------------
(* The store unit                                                           *)

StoreBegin ==
  /\ sst = "wait" /\ st < T
  /\ g2s > 0
  /\ g2s' = g2s - 1
  /\ sst' = "run"
  /\ UNCHANGED <<lvars, cvars, st, l2g, g2l, s2g>>

StoreEnd ==
  /\ sst = "run"
  /\ sst' = "wait"
  /\ st' = st + 1
  /\ s2g' = s2g + 1
  /\ UNCHANGED <<lvars, cvars, l2g, g2l, g2s>>

Load == LoadWgtBegin \/ LoadWgtEnd \/ LoadInpBegin \/ LoadInpEnd
Compute ==
  \/ LoadUopBegin \/ LoadUopEnd \/ LoadAccBegin \/ LoadAccEnd
  \/ GemmBegin \/ GemmEnd \/ FinishBegin \/ FinishEnd
Store == StoreBegin \/ StoreEnd

\* The program calls the next test when the last one is done.
NextCall ==
  /\ cst = "done"
  /\ call' \in Calls
  /\ lt' = 0 /\ ln' = 0 /\ lst' = "wgt"
  /\ ct' = 0 /\ cn' = 0 /\ cst' = "uop"
  /\ st' = 0 /\ sst' = "wait"
  /\ UNCHANGED <<l2g, g2l, g2s, s2g>>

Next == Load \/ Compute \/ Store \/ NextCall

Spec == Init /\ [][Next]_vars

-----------------------------------------------------------------------------

TypeOK ==
  /\ call \in Calls
  /\ lt \in 0 .. T /\ ln \in 0 .. N - 1 /\ lst \in LoadStages
  /\ ct \in 0 .. T /\ cn \in 0 .. N - 1 /\ cst \in ComputeStages
  /\ st \in 0 .. T /\ sst \in StoreStages
  /\ l2g \in 0 .. V /\ g2l \in 0 .. V /\ g2s \in 0 .. 1 /\ s2g \in 0 .. 1

\* The steps the load unit has loaded, or has begun to load; those computed.
Midway   == IF lst = "wgt" THEN 0 ELSE 1
Loaded   == lt * N + ln
Begun    == Loaded + Midway
Computed == ct * N + cn

\* While the GEMM of a step runs, the blocks of that step have been loaded and
\* no load of the step that reuses their slot, V steps later, has begun: the
\* GEMM reads its own operands.
GemmReadsItsBlocks ==
  V > 0 /\ cst = "gemmRun" => Computed < Loaded /\ Begun <= Computed + V

\* While tile t is stored, all its GEMMs are done, and neither a GEMM nor the
\* load of the next tile's accumulator has begun: it stores its own result.
StoreReadsItsTile == sst = "run" => cst = "acc" /\ ct = st + 1 /\ cn = 0

\* FINISH is executed when every tile is stored, no token is left in a queue
\* and the other units are idle at the end of their part of the stream: the
\* next call finds the accelerator as the first one did.
FinishIsLast ==
  cst \in {"finRun", "done"} =>
    /\ st = T /\ sst = "wait"
    /\ lt = (IF V = 0 THEN 0 ELSE T) /\ lst = "wgt"
    /\ l2g = 0 /\ g2l = 0 /\ g2s = 0 /\ s2g = 0

\* The units never wait on each other in a circle: before the end, one of them
\* is running an instruction or has the token its next one needs.
LoadCanStep    == lst # "wgt" \/ (V > 0 /\ lt < T /\ (Pop(lt, ln) => g2l > 0))
ComputeCanStep ==
  \/ cst \in {"uop", "uopRun", "accRun", "gemmRun", "finRun"}
  \/ cst = "acc" /\ (ct = 0 \/ s2g > 0)
  \/ cst = "gemm" /\ (V = 0 \/ l2g > 0)
StoreCanStep   == sst = "run" \/ (st < T /\ g2s > 0)
NoDeadlock == cst = "done" \/ LoadCanStep \/ ComputeCanStep \/ StoreCanStep

-----------------------------------------------------------------------------
(* The inductive invariant.  Each input slot and the output buffer have one *)
(* owner; the tokens in the queues are what the positions of the units say. *)

\* Tokens of GEMMs that wait for the load unit in the tile both units work at.
Running   == IF cst = "gemmRun" THEN 1 ELSE 0
Biased    == IF cst \in {"gemm", "gemmRun"} THEN 1 ELSE 0
Released  ==
  IF V = 1 THEN Biased + cn - ln - Midway
  ELSE IF lt = 0 /\ ln = 0 /\ lst = "wgt" THEN 0
  ELSE 1 + cn - ln - Midway + (IF ln + Midway >= 2 THEN 1 ELSE 0)
         - (IF cn = N - 1 THEN 1 ELSE 0)

\* Both units work at the same tile.
SameTile == /\ lt = ct /\ ct < T
            /\ l2g = ln - cn - Running
            /\ g2l = Released

\* The load unit is done with its tile; the GEMMs of the blocks it loaded last
\* are still to come.
TileAhead == /\ lt = ct + 1 /\ ct < T
             /\ ln = 0 /\ lst = "wgt"
             /\ cn >= N - V /\ (V = 1 => Biased = 1)
             /\ l2g = N - cn - Running
             /\ g2l = 0

\* Every tile is computed.
AllTiles == /\ lt = T /\ ct = T
            /\ ln = 0 /\ cn = 0 /\ lst = "wgt"
            /\ l2g = 0 /\ g2l = 0

\* Without input slots, there is nothing to load.
NoLoads == lt = 0 /\ ln = 0 /\ lst = "wgt" /\ l2g = 0 /\ g2l = 0

SlotInv == IF V = 0 THEN NoLoads ELSE SameTile \/ TileAhead \/ AllTiles

\* The output buffer belongs to the compute unit until the last GEMM of a tile,
\* to the store unit until it has stored it, then to the compute unit again.
OutFilling  == /\ g2s = 0 /\ s2g = 0 /\ sst = "wait"
               /\ cst = "acc" => ct = 0
OutStoring  == /\ cst = "acc" /\ ct > 0 /\ s2g = 0
               /\ \/ g2s = 1 /\ sst = "wait"
                  \/ g2s = 0 /\ sst = "run"
OutStored   == cst = "acc" /\ ct > 0 /\ s2g = 1 /\ g2s = 0 /\ sst = "wait"

OutInv ==
  \/ OutFilling /\ st = ct
  \/ OutStoring /\ st = ct - 1
  \/ OutStored /\ st = ct

StageInv ==
  /\ cst \in {"uop", "uopRun"} => ct = 0
  /\ cst \in {"accRun", "gemm", "gemmRun"} => ct < T
  /\ cst \in {"finRun", "done"} => ct = T
  /\ cst \notin {"gemm", "gemmRun"} => cn = 0

IInv == TypeOK /\ SlotInv /\ OutInv /\ StageInv
=============================================================================
