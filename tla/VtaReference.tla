---------------------------- MODULE VtaReference ----------------------------
(***************************************************************************)
(* What running a test of test_lib.cc promises, whoever executes it (the   *)
(* FPGA, the HLS simulation, the ILA model): each output block appears in  *)
(* DRAM once, with the value of the C reference loops, and the run is      *)
(* finished when all of them are there.  Nothing is said of the order.     *)
(* Another test may follow.                                                *)
(***************************************************************************)
CONSTANT Results   \* per test: the blocks of the C reference results

VARIABLES
  test,   \* the test that runs
  dram,   \* the output blocks written so far
  done    \* FINISH has been executed: the host may read the results

vars == <<test, dram, done>>

Init == test \in DOMAIN Results /\ dram = <<>> /\ done = FALSE

StoreBlock ==
  /\ ~done
  /\ \E b \in DOMAIN Results[test] \ DOMAIN dram :
       dram' = [x \in DOMAIN dram \cup {b} |-> IF x = b THEN Results[test][b] ELSE dram[x]]
  /\ UNCHANGED <<test, done>>

Finish ==
  /\ dram = Results[test]
  /\ done' = TRUE
  /\ UNCHANGED <<test, dram>>

\* The output buffer of the next test is empty.
NextTest ==
  /\ done
  /\ test' \in DOMAIN Results
  /\ dram' = <<>>
  /\ done' = FALSE

Next == StoreBlock \/ Finish \/ NextTest

Spec == Init /\ [][Next]_vars
=============================================================================
