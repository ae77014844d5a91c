---------------------------- MODULE CommandBench ----------------------------
(***************************************************************************)
(* The testbenches that feed one simulation model a program fragment: a    *)
(* thread Source that puts one command on the ports every 10 ns, the model *)
(* (external: a method that executes the command on its ports whenever     *)
(* they change), and the thread run of the testbench, which polls every    *)
(* 10 ns for the end of the program, compares the results, and stops.      *)
(*                                                                         *)
(* The three kinds differ in their delays and in how run learns of the     *)
(* end: "vta" and "hlscnn" have a signal input_done; "flex" reads the      *)
(* model's own copy of the last address and looks for 0xdeaddead.          *)
(***************************************************************************)
EXTENDS SystemC, Sequences, SequencesExt

CONSTANT Cases   \* records [kind, prog]: a testbench and its program fragment

Kinds == {"vta", "hlscnn", "flex"}
Zero  == "zero"          \* the ports after reset: no command
Stop  == "deaddead"      \* the command with address 0xdeaddead

ASSUME CasesAssumption ==
  \A c \in Cases :
    /\ c.kind \in Kinds
    /\ c.prog \in Seq({c.prog[i] : i \in DOMAIN c.prog})
    /\ \A i \in DOMAIN c.prog : c.prog[i] # Zero

None == -1

VARIABLES
  kind,      \* which testbench runs
  prog,      \* the program fragment it reads
  spc, sent, \* Source: where it is, and how many commands it has put on the ports
  rpc,       \* run: where it is
  executed,  \* the commands the model has executed
  judged     \* how many of them the comparison saw, None before it

vars == <<kernel, kind, prog, spc, sent, rpc, executed, judged>>

\* The waits around the loops: before the first command, before the first
\* poll, from the poll that sees the end to the comparison, and from there to
\* sc_stop (0: at once).
Delay(k) ==
  CASE k = "vta"    -> [source |-> 100, run |-> 10, settle |-> 1000,   drain |-> 100000]
    [] k = "hlscnn" -> [source |-> 0,   run |-> 10, settle |-> 100000, drain |-> 0]
    [] k = "flex"   -> [source |-> 20,  run |-> 20, settle |-> 10,     drain |-> 10000]

Init ==
  /\ \E c \in Cases : kind = c.kind /\ prog = c.prog
  /\ KernelInit([cmd |-> Zero, done |-> FALSE], {"source", "run"}, {"model"})
  /\ spc = "reset" /\ sent = 0
  /\ rpc = "start"
  /\ executed = <<>>
  /\ judged = None

-----------------------------------------------------------------------------
(* Source                                                                   *)

Reset ==
  /\ Turn("source") /\ spc = "reset"
  /\ Write2("cmd", Zero, "done", FALSE)
  /\ IF Delay(kind).source = 0 THEN Continue ELSE Wait("source", Delay(kind).source)
  /\ spc' = "issue"
  /\ UNCHANGED <<sig, stopped, kind, prog, sent, rpc, executed, judged>>

IssueNoWait ==   \* (mutant: the wait at the end of the loop is missing)
  /\ Turn("source") /\ spc = "issue" /\ sent < Len(prog)
  /\ Write("cmd", prog[sent + 1])
  /\ sent' = sent + 1
  /\ Continue
  /\ UNCHANGED <<sig, stopped, kind, prog, spc, rpc, executed, judged>>

Issue ==
  /\ Turn("source") /\ spc = "issue" /\ sent < Len(prog)
  /\ Write("cmd", prog[sent + 1])
  /\ sent' = sent + 1
  /\ Wait("source", 10)
  /\ UNCHANGED <<sig, stopped, kind, prog, spc, rpc, executed, judged>>

SourceEndSilent ==   \* (mutant: input_done is not set)
  /\ Turn("source") /\ spc = "issue" /\ sent = Len(prog)
  /\ Keep /\ Return("source")
  /\ spc' = "end"
  /\ UNCHANGED <<sig, stopped, kind, prog, sent, rpc, executed, judged>>

SourceEnd ==
  /\ Turn("source") /\ spc = "issue" /\ sent = Len(prog)
  /\ IF kind = "flex" THEN Keep ELSE Write("done", TRUE)
  /\ Return("source")
  /\ spc' = "end"
  /\ UNCHANGED <<sig, stopped, kind, prog, sent, rpc, executed, judged>>

-----------------------------------------------------------------------------
(* The model                                                                *)

Sensitive == [model |-> {"cmd"}]

ExecuteReset ==   \* (mutant: the reset values are a command)
  /\ Turn("model")
  /\ executed' = Append(executed, sig.cmd)
  /\ Keep /\ Return("model")
  /\ UNCHANGED <<sig, stopped, kind, prog, spc, sent, rpc, judged>>

Execute ==
  /\ Turn("model")
  /\ executed' = IF sig.cmd = Zero THEN executed ELSE Append(executed, sig.cmd)
  /\ Keep /\ Return("model")
  /\ UNCHANGED <<sig, stopped, kind, prog, spc, sent, rpc, judged>>

-----------------------------------------------------------------------------
(* run                                                                      *)

RunStart ==
  /\ Turn("run") /\ rpc = "start"
  /\ Keep /\ Wait("run", Delay(kind).run)
  /\ rpc' = "poll"
  /\ UNCHANGED <<sig, stopped, kind, prog, spc, sent, executed, judged>>

\* flex_addr_in is a variable of the model, written when it executes a command.
EndSeenAny ==   \* (mutant: any address ends the program)
  IF kind = "flex" THEN executed # <<>> ELSE sig.done

EndSeen ==
  IF kind = "flex" THEN executed # <<>> /\ Last(executed) = Stop ELSE sig.done

Poll ==
  /\ Turn("run") /\ rpc = "poll"
  /\ IF EndSeen THEN rpc' = "compare" /\ Wait("run", Delay(kind).settle)
                ELSE rpc' = "poll" /\ Wait("run", 10)
  /\ Keep
  /\ UNCHANGED <<sig, stopped, kind, prog, spc, sent, executed, judged>>

Compare ==
  /\ Turn("run") /\ rpc = "compare"
  /\ judged' = Len(executed)
  /\ rpc' = "stop"
  /\ IF Delay(kind).drain = 0 THEN Continue ELSE Wait("run", Delay(kind).drain)
  /\ Keep
  /\ UNCHANGED <<sig, stopped, kind, prog, spc, sent, executed>>

ScStop ==
  /\ Turn("run") /\ rpc = "stop"
  /\ stopped' = TRUE
  /\ rpc' = "end"
  /\ Keep /\ Return("run")
  /\ UNCHANGED <<sig, kind, prog, spc, sent, executed, judged>>

-----------------------------------------------------------------------------

bench == <<kind, prog, spc, sent, rpc, executed, judged>>

SourceStep == Reset \/ Issue \/ SourceEnd
RunStep    == RunStart \/ Poll \/ Compare \/ ScStop
KernelStep == (Update(Sensitive) \/ Advance) /\ UNCHANGED bench
Terminated == Over /\ UNCHANGED vars

Next == SourceStep \/ Execute \/ RunStep \/ KernelStep \/ Terminated

\* The scheduler runs as long as it can.
Spec == Init /\ [][Next]_vars /\ WF_vars(Next)

-----------------------------------------------------------------------------

\* A command equal to the one before it changes no port: the model sees a run
\* of equal commands as one.  Of the first n commands, these it sees.
Seen(n) == {i \in 1 .. n : i = 1 \/ prog[i] # prog[i - 1]}
Rank(n) == Cardinality(Seen(n))

\* The model has executed what it can see of the first n commands, in order.
Executed(n) ==
  /\ Len(executed) = Rank(n)
  /\ \A i \in 1 .. n : executed[Rank(i)] = prog[i]

\* The commands the model executes are those of the program, in order, none
\* skipped and none twice, except that equal neighbours count once.
ExecutedInOrder == \E n \in 0 .. Len(prog) : Executed(n)

StopAt == {i \in DOMAIN prog : prog[i] = Stop}

\* What the comparison has seen does not depend on the order in which the
\* scheduler runs the threads: it is the whole program, or, for a flex program
\* that goes on after its 0xdeaddead, the part up to one command behind it.
JudgedPart ==
  IF kind # "flex" THEN Len(prog) ELSE Min({Len(prog), Min(StopAt) + 1})

VerdictIsDeterministic ==
  judged # None =>
    /\ kind = "flex" => StopAt # {}
    /\ judged = Rank(JudgedPart)

\* Whether anything marks the end of the program.
HasEnd == kind = "flex" => StopAt # {}

\* Every run ends, but for a flex program without 0xdeaddead: no end of its file
\* and no last command is ever taken for the end of the program.
Terminates == (HasEnd => <>stopped) /\ (~HasEnd => []~stopped)

-----------------------------------------------------------------------------
(* The inductive invariant: first, where the last command is on its way to *)
(* the model.  Time does not occur in it.                                   *)

Line(n)  == IF n = 0 THEN Zero ELSE prog[n]
Commands == {prog[i] : i \in DOMAIN prog}

\* The model has executed it; it is written but not yet on the ports; it is on
\* the ports and the model is about to execute it.
Settled ==
  /\ sig.cmd = Line(sent)
  /\ "model" \in ready => sent = 0
  /\ Executed(sent)
Written ==
  /\ sent > 0
  /\ sig.cmd = Line(sent - 1) /\ sig.cmd # Line(sent)
  /\ "model" \in ready => sent = 1
  /\ Executed(sent - 1)
Due ==
  /\ sent > 0
  /\ sig.cmd = Line(sent) /\ sig.cmd # Line(sent - 1)
  /\ "model" \in ready
  /\ Executed(sent - 1)

PortInv ==
  /\ executed \in Seq(Commands)
  /\ sent \in 0 .. Len(prog)
  /\ pending.cmd = Line(sent)
  /\ Settled \/ Written \/ Due

\* Source overwrites a command, and reports the end, only when the model has
\* executed all before.
SourceInv ==
  /\ spc = "reset" => sent = 0
  /\ "source" \in ready \/ spc = "end" => Settled
  /\ spc = "end" => sent = Len(prog)
  /\ pending.done \/ sig.done => spc = "end"

JudgeInv ==
  kind # "flex" =>
    /\ rpc = "compare" => spc = "end"
    /\ judged # None => judged = Rank(Len(prog))

OrderInv ==
  /\ \E c \in Cases : kind = c.kind /\ prog = c.prog
  /\ DOMAIN sig = {"cmd", "done"} /\ DOMAIN pending = {"cmd", "done"}
  /\ DOMAIN wake = {"source", "run"}
  /\ PortInv /\ SourceInv /\ JudgeInv

-----------------------------------------------------------------------------
(* For flex, how the two threads keep pace: until the comparison they take  *)
(* their turns at the same instants.                                        *)

SourceReady == "source" \in ready
RunReady    == "run" \in ready
SourceWait  == IF spc = "reset" THEN 20 ELSE 10
RunWait     == IF rpc = "start" THEN 20 ELSE 10

PaceInv ==
  /\ spc \in {"reset", "issue", "end"}
  /\ spc = "reset" => SourceReady
  /\ rpc = "start" => RunReady
  /\ rpc \in {"start", "poll", "compare"} =>
       /\ spc = "end" => ~SourceReady
       /\ SourceReady \/ spc = "end" => wake["source"] = 0
       /\ SourceReady /\ RunReady => (spc = "reset" <=> rpc = "start")
       /\ SourceReady /\ ~RunReady => wake["run"] = SourceWait
       /\ spc # "end" /\ RunReady /\ ~SourceReady => wake["source"] = RunWait
       /\ spc # "end" /\ ~RunReady /\ ~SourceReady =>
            wake["source"] = wake["run"] /\ wake["run"] \in {10, 20}

\* The commands of earlier instants: what run finds executed when it looks.
Visible == IF spc = "issue" /\ ~SourceReady THEN sent - 1 ELSE sent

NoStop(n)    == \A i \in 1 .. n : prog[i] # Stop
FirstStop(n) == n \in StopAt /\ NoStop(n - 1)

\* run looks once after each command; after 0xdeaddead it lets one more pass.
LookInv ==
  /\ RunReady /\ "model" \in ready => sig.cmd = Zero
  /\ rpc = "start" => sent = 0 /\ spc # "end"
  /\ RunReady /\ rpc \in {"poll", "compare"} =>
       Visible \in 0 .. Len(prog) /\ Executed(Visible)
  /\ rpc = "poll" => NoStop(IF RunReady THEN Visible - 1 ELSE Visible)
  /\ rpc = "compare" =>
       IF RunReady THEN FirstStop(Visible - 1) \/ (spc = "end" /\ FirstStop(Visible))
       ELSE FirstStop(Visible)
  /\ VerdictIsDeterministic

IInv == OrderInv /\ (kind = "flex" => PaceInv /\ LookInv)
=============================================================================
