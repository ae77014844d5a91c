----------------------------- MODULE MCVtaTools -----------------------------
(***************************************************************************)
(* Up to MaxCalls different calls of vta_test.cc, which makes each of its  *)
(* calls once.  GEMM tests have no immediate.                              *)
(***************************************************************************)
EXTENDS VtaTools

CONSTANTS MaxCalls, MCOps, Comps, Verdicts

SomeCalls ==
  {call \in [op : MCOps, imm : BOOLEAN, comp : Comps, ok : Verdicts] :
     call.op = "gemm" => ~call.imm}

SameTest(c, d) == [c EXCEPT !.ok = d.ok] = d
Different(cs) == \A t, u \in DOMAIN cs : SameTest(cs[t], cs[u]) => t = u

Programs == {cs \in UNION {[1 .. n -> SomeCalls] : n \in 0 .. MaxCalls} : Different(cs)}
MCCalls == Programs
=============================================================================
