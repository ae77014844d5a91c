------------------------------- MODULE VtaHost -------------------------------
(***************************************************************************)
(* The tests of vta_test.cc on a board: main calls them one after another, *)
(* each allocates its buffers, starts the accelerator through the driver   *)
(* vta() of test_lib.cc, polls the done register a bounded number of times,*)
(* compares the output buffer with the reference and frees the buffers.    *)
(* The accelerator of VtaPipeline runs next to it, and goes from one test  *)
(* to the next with whatever the last one left in its queues and buffers.  *)
(***************************************************************************)
EXTENDS VtaPipeline

VARIABLES
  pc,         \* the host: the unit it starts next, or what it does after that
  on,         \* the units that have been started
  timedOut,   \* some call of vta() has given up polling
  status      \* main's status: 0 as long as no test has failed

host == <<pc, on, timedOut, status>>
all == <<vars, host>>

\* The order of the writes to the control registers.
StartNext == [fetch |-> "load", load |-> "compute", compute |-> "store", store |-> "poll"]

HostInit ==
  /\ Init /\ test = 1
  /\ pc = "fetch" /\ on = {}
  /\ timedOut = FALSE /\ status = 0

-----------------------------------------------------------------------------
(* The accelerator: a unit runs once it is started.  What it does after the *)
(* host has freed the buffers it works on is undefined: there it stops.     *)

Running(unit) == unit \in on /\ pc # "lost"

FetchRuns    == Running("fetch") /\ Fetch /\ UNCHANGED host
BeginRuns(u) == Running(u) /\ Begin(u) /\ UNCHANGED host
EndRuns(u)   == Running(u) /\ End(u) /\ UNCHANGED host

-----------------------------------------------------------------------------
(* The host                                                                 *)

Start ==
  /\ pc \in DOMAIN StartNext
  /\ on' = on \cup {pc}
  /\ pc' = StartNext[pc]
  /\ UNCHANGED <<vars, timedOut, status>>

PollOnce ==   \* (mutant: looks at the register once and goes on)
  /\ pc = "poll"
  /\ pc' = "compare"
  /\ UNCHANGED <<vars, on, timedOut, status>>
\* The loop is left when the flag is set; reads that do not see it change nothing.
Poll ==
  /\ pc = "poll"
  /\ done
  /\ pc' = "compare"
  /\ UNCHANGED <<vars, on, timedOut, status>>

\* The last of the ten million reads did not see the flag.
TimeOut ==
  /\ pc = "poll"
  /\ ~done
  /\ pc' = "compare"
  /\ timedOut' = TRUE
  /\ UNCHANGED <<vars, on, status>>

Compare ==
  /\ pc = "compare"
  /\ status' = IF mem.dram = Tests[test].ref THEN status ELSE -1
  /\ pc' = "free"
  /\ UNCHANGED <<vars, on, timedOut>>

\* A buffer of which slots are used that no test has used before.
Grown(buffer, slots) ==
  [s \in DOMAIN buffer \cup slots |-> IF s \in DOMAIN buffer THEN buffer[s] ELSE NoBlock]

\* The buffers of the next test; the accelerator keeps what is in its own.  Fetch
\* was started for one run, the other units restart themselves.
NextTest ==
  /\ pc = "free" /\ done
  /\ test < Len(Tests)
  /\ test' = test + 1
  /\ fetched' = 0
  /\ LET slots == Tests[test + 1].slots IN
       mem' = [mem EXCEPT !.inp = Grown(@, slots), !.wgt = Grown(@, slots), !.dram = <<>>]
  /\ done' = FALSE
  /\ retired' = [u \in Units |-> 0]
  /\ on' = on \ {"fetch"}
  /\ pc' = "fetch"
  /\ UNCHANGED <<depth, cmds, busy, token, timedOut, status>>

Exit ==
  /\ pc = "free" /\ done
  /\ test = Len(Tests)
  /\ pc' = "exit"
  /\ UNCHANGED <<vars, on, timedOut, status>>

\* The buffers are freed under an accelerator that still runs.
FreeTooEarly ==
  /\ pc = "free" /\ ~done
  /\ pc' = "lost"
  /\ UNCHANGED <<vars, on, timedOut, status>>

Host == Start \/ Poll \/ Compare \/ NextTest \/ Exit \/ FreeTooEarly

Terminated == pc \in {"exit", "lost"} /\ UNCHANGED all

HostNext ==
  \/ FetchRuns \/ (\E u \in Units : BeginRuns(u) \/ EndRuns(u))
  \/ Host \/ TimeOut
  \/ Terminated

\* Each unit is a circuit of its own that keeps running while it can, and the
\* host is a program; nothing makes it run out of reads before the flag is set.
HostSpec ==
  /\ HostInit /\ [][HostNext]_all
  /\ WF_all(FetchRuns)
  /\ \A u \in Units : WF_all(BeginRuns(u)) /\ WF_all(EndRuns(u))
  /\ WF_all(Host)

-----------------------------------------------------------------------------

\* A status other than 0, and buffers freed under a running accelerator, are
\* only ever the fault of a time-out: polling to the done flag is enough to see
\* complete results, test after test, whatever the last test left behind.
FailsOnlyByTimeOut == status # 0 \/ pc = "lost" => timedOut

\* The host that started the accelerator is not left polling: the program comes
\* to its end unless it gives up itself.
Finishes == <>(pc = "exit" \/ timedOut)

-----------------------------------------------------------------------------

Results == [n \in DOMAIN Tests |-> Tests[n].ref]
Ref == INSTANCE VtaReference WITH dram <- mem.dram

\* Whatever the interleaving of the units, the blocks that reach DRAM are the
\* C reference results of the test that runs, each written once, and all of
\* them before FINISH.
ImplementsReference == Ref!Spec

-----------------------------------------------------------------------------
(* The mapping to the token protocol: the call and the number of            *)
(* instructions that a unit has executed say where it is in its stream.     *)

ThisCall == Calls[test]
Loads    == retired["load"]
Computes == retired["compute"]

Protocol == INSTANCE VtaGemmProtocol WITH
  Calls <- {ShapeOf(Calls[n]) : n \in DOMAIN Calls}, call <- ShapeOf(ThisCall),
  lt <- LoadTile(ThisCall, Loads), ln <- LoadStep(ThisCall, Loads),
  lst <- LoadStage(Loads, busy["load"]),
  ct <- ComputeTile(ThisCall, Computes), cn <- ComputeStep(ThisCall, Computes),
  cst <- ComputeStage(ThisCall, Computes, busy["compute"]),
  st <- retired["store"], sst <- StoreStage(busy["store"]),
  l2g <- token[<<"load", "compute">>], g2l <- token[<<"compute", "load">>],
  g2s <- token[<<"compute", "store">>], s2g <- token[<<"store", "compute">>]

\* The units executing the streams of the tests, flags and all, make only steps
\* of the token protocol, so what is proved of it holds of them.
ImplementsProtocol == Protocol!Spec
=============================================================================
