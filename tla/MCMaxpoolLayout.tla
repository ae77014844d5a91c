-------------------------- MODULE MCMaxpoolLayout --------------------------
(***************************************************************************)
(* The shape of test_input_relay_smallest.csv (2 timesteps, 1 vector), one *)
(* group, and tensors of an even and an odd number of groups, as the 11 of *)
(* test_input_relay_large.csv.                                             *)
(***************************************************************************)
EXTENDS MaxpoolLayout

SomeShapes == {[T |-> 2, V |-> 1], [T |-> 16, V |-> 1], [T |-> 16, V |-> 3]}
              \cup [T : {32, 48}, V : {1, 2, 3}]
MCShapes == SomeShapes
=============================================================================
