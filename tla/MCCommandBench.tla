--------------------------- MODULE MCCommandBench ---------------------------
(***************************************************************************)
(* Every program of up to MaxLen commands, two kinds of command and, for   *)
(* flex, 0xdeaddead anywhere or nowhere: the shipped fragments have it     *)
(* once, at the end.                                                       *)
(***************************************************************************)
EXTENDS CommandBench

CONSTANT MaxLen

Programs(commands) == UNION {[1 .. n -> commands] : n \in 0 .. MaxLen}

SmallCases ==
  [kind : {"vta", "hlscnn"}, prog : Programs({"a", "b"})] \cup
  [kind : {"flex"}, prog : Programs({"a", "b", Stop})]

MCCases == SmallCases
=============================================================================
