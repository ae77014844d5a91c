---------------------------- MODULE MCResultCheck ----------------------------
(***************************************************************************)
(* Beats of two bytes, two beats in each memory.  A program is up to       *)
(* MaxLen commands; the numbers are short, of full length with a high or a *)
(* low first digit, and one digit too long, as in the shipped fragments.   *)
(***************************************************************************)
EXTENDS ResultCheck

CONSTANT MaxLen

Texts == { <<0>>, <<9>>, <<1, 2, 3, 4>>, <<12, 0, 8, 1>>, <<0, 12, 0, 8, 1>> }
Programs(cmds) == UNION {[1 .. n -> cmds] : n \in 0 .. MaxLen}

Write(addrs, texts) == [mode : {"W"}, addr : addrs, text : texts]
Read(addrs) == [mode : {"R"}, addr : addrs, text : {<<0>>}]
Commands(addrs, texts) == Write(addrs, texts) \cup Read(addrs)

\* hlscnn numbers are not longer than a beat; only attention has the small buffer.
SomeCases ==
  [kind : {"lstm"}, prog : Programs(Commands({Large, Large + Beat}, Texts))] \cup
  [kind : {"attention"}, prog : Programs(Commands({Large, Small, Small + Beat}, {<<9>>, <<12, 0, 8, 1>>}))] \cup
  [kind : {"conv"}, prog : Programs(Commands({Spad1, Spad1 + Beat}, {t \in Texts : Len(t) <= 2 * Beat}))]
MCCases == SomeCases
=============================================================================
