---------------------------- MODULE MaxpoolBench ----------------------------
(***************************************************************************)
(* The co-simulation of maxpool_sim_main.cc: one thread Source reads two   *)
(* command files in turn and drives the relay model and the FlexNLP model, *)
(* and run looks every 100 ns whether both models have received their end  *)
(* marker, then compares their memories and stops.  The kernel, and the    *)
(* external models that execute a command whenever their ports change, are *)
(* as in CommandBench.                                                     *)
(***************************************************************************)
EXTENDS SystemC, Sequences, SequencesExt

CONSTANTS
  Files,       \* records [relay, flex]: the contents of the two command files
  FirstPoll,   \* 1000 ns in the code
  PollPeriod   \* 100 ns in the code

Models == {"relay", "flex"}
Zero == <<"zero", 0>>                               \* the ports after reset
End  == [relay |-> <<"func3", 0>>, flex |-> <<"dead", 0>>]   \* func_id 3; address 0x0dead

ASSUME FilesAssumption ==
  \A f \in Files, m \in Models :
    /\ f[m] \in Seq({f[m][i] : i \in DOMAIN f[m]})
    /\ \A i \in DOMAIN f[m] : f[m][i] # Zero
ASSUME PollAssumption == FirstPoll \in Nat \ {0} /\ PollPeriod \in Nat \ {0}

VARIABLES
  file,      \* the two files that are read
  next,      \* per model: the next line of its file
  spc,       \* Source: where it is
  record,    \* rd_record is not 0: this turn of the loop has read something
  rpc,       \* run: where it is
  executed,  \* per model: the commands it has executed
  judged     \* the comparison has been made

vars == <<kernel, file, next, spc, record, rpc, executed, judged>>

Init ==
  /\ file \in Files
  /\ KernelInit([relay |-> Zero, flex |-> Zero], {"source", "run"}, Models)
  /\ next = [m \in Models |-> 1]
  /\ spc = "reset" /\ record = FALSE
  /\ rpc = "start"
  /\ executed = [m \in Models |-> <<>>]
  /\ judged = FALSE

-----------------------------------------------------------------------------
(* Source                                                                   *)

Reset ==
  /\ Turn("source") /\ spc = "reset"
  /\ Write2("relay", Zero, "flex", Zero)
  /\ Wait("source", 20)
  /\ spc' = "relay"
  /\ UNCHANGED <<sig, stopped, file, next, record, rpc, executed, judged>>

More(m) == next[m] <= Len(file[m])
Put(m) ==
  /\ Write(m, file[m][next[m]])
  /\ next' = [next EXCEPT ![m] = @ + 1]

\* First half of the loop: one line of the relay file.  A line that is neither
\* a maxpool nor a store call, as the last one, is put on the ports without a wait.
RelayTurnNoWait ==   \* (mutant: no function call waits)
  /\ Turn("source") /\ spc = "relay" /\ More("relay")
  /\ Put("relay") /\ Continue
  /\ record' = TRUE
  /\ spc' = "flex"
  /\ UNCHANGED <<sig, stopped, file, rpc, executed, judged>>

RelayTurn ==
  /\ Turn("source") /\ spc = "relay" /\ More("relay")
  /\ IF file["relay"][next["relay"]] = End["relay"] THEN Continue ELSE Wait("source", 10)
  /\ Put("relay")
  /\ record' = TRUE
  /\ spc' = "flex"
  /\ UNCHANGED <<sig, stopped, file, rpc, executed, judged>>

RelayEof ==
  /\ Turn("source") /\ spc = "relay" /\ ~More("relay")
  /\ Keep /\ Continue
  /\ record' = FALSE
  /\ spc' = "flex"
  /\ UNCHANGED <<sig, stopped, file, next, rpc, executed, judged>>

\* Second half: one line of the flex file.
FlexTurn ==
  /\ Turn("source") /\ spc = "flex" /\ More("flex")
  /\ Put("flex") /\ Wait("source", 10)
  /\ record' = TRUE
  /\ spc' = "relay"
  /\ UNCHANGED <<sig, stopped, file, rpc, executed, judged>>

FlexEofEnds ==   \* (mutant: the loop ends with the shorter file)
  /\ Turn("source") /\ spc = "flex" /\ ~More("flex")
  /\ Keep /\ Return("source") /\ spc' = "end"
  /\ UNCHANGED <<sig, stopped, file, next, record, rpc, executed, judged>>

FlexEof ==
  /\ Turn("source") /\ spc = "flex" /\ ~More("flex")
  /\ Keep
  /\ IF record THEN Continue /\ spc' = "relay" ELSE Return("source") /\ spc' = "end"
  /\ UNCHANGED <<sig, stopped, file, next, record, rpc, executed, judged>>

-----------------------------------------------------------------------------
(* The models                                                               *)

Sensitive == [m \in Models |-> {m}]

ExecuteReset(m) ==   \* (mutant: the reset values are a command)
  /\ Turn(m)
  /\ executed' = [executed EXCEPT ![m] = Append(@, sig[m])]
  /\ Keep /\ Return(m)
  /\ UNCHANGED <<sig, stopped, file, next, spc, record, rpc, judged>>

Execute(m) ==
  /\ Turn(m)
  /\ executed' = IF sig[m] = Zero THEN executed
                 ELSE [executed EXCEPT ![m] = Append(@, sig[m])]
  /\ Keep /\ Return(m)
  /\ UNCHANGED <<sig, stopped, file, next, spc, record, rpc, judged>>

-----------------------------------------------------------------------------
(* run                                                                      *)

RunStart ==
  /\ Turn("run") /\ rpc = "start"
  /\ Keep /\ Wait("run", FirstPoll)
  /\ rpc' = "poll"
  /\ UNCHANGED <<sig, stopped, file, next, spc, record, executed, judged>>

\* relay_func_id and flex_addr_in are variables of the models.
AtEnd(m) == executed[m] # <<>> /\ Last(executed[m]) = End[m]

BothEndFlexOnly == AtEnd("flex")   \* (mutant: the relay model is not waited for)
BothEnd == AtEnd("relay") /\ AtEnd("flex")

Poll ==
  /\ Turn("run") /\ rpc = "poll"
  /\ rpc' = IF BothEnd THEN "compare" ELSE "poll"
  /\ Keep /\ Wait("run", PollPeriod)
  /\ UNCHANGED <<sig, stopped, file, next, spc, record, executed, judged>>

Compare ==
  /\ Turn("run") /\ rpc = "compare"
  /\ judged' = TRUE
  /\ rpc' = "stop"
  /\ Keep /\ Wait("run", 1000)
  /\ UNCHANGED <<sig, stopped, file, next, spc, record, executed>>

ScStop ==
  /\ Turn("run") /\ rpc = "stop"
  /\ stopped' = TRUE
  /\ rpc' = "end"
  /\ Keep /\ Return("run")
  /\ UNCHANGED <<sig, file, next, spc, record, executed, judged>>

-----------------------------------------------------------------------------

SourceStep == Reset \/ RelayTurn \/ RelayEof \/ FlexTurn \/ FlexEof
RunStep    == RunStart \/ Poll \/ Compare \/ ScStop
KernelStep ==
  /\ Update(Sensitive) \/ Advance
  /\ UNCHANGED <<file, next, spc, record, rpc, executed, judged>>
Terminated == Over /\ UNCHANGED vars

Next ==
  SourceStep \/ (\E m \in Models : Execute(m)) \/ RunStep \/ KernelStep \/ Terminated

Spec == Init /\ [][Next]_vars /\ WF_vars(Next)

-----------------------------------------------------------------------------

\* The property the generated files have: each ends with its end marker, and
\* no two neighbours are equal.
WellFormed(m) ==
  /\ \E i \in DOMAIN file[m] : file[m][i] = End[m]
  /\ \A i \in DOMAIN file[m] : file[m][i] = End[m] => i = Len(file[m])
  /\ \A i \in 2 .. Len(file[m]) : file[m][i] # file[m][i - 1]
BothWellFormed == \A m \in Models : WellFormed(m)

\* Each model executes a prefix of its own file, line by line, whatever the
\* lengths of the two: the end marker put without a wait is not lost, and no
\* line of one file delays or overwrites a line of the other.
ExecutedInOrder ==
  BothWellFormed => \A m \in Models : IsPrefix(executed[m], file[m])

\* The two memories are compared only when both models have executed all their
\* commands, however differently long the two files are.
JudgedComplete ==
  BothWellFormed /\ judged => \A m \in Models : executed[m] = file[m]

\* A marker that stays is found by the slow poll, and the co-simulation ends.
Terminates == BothWellFormed => <>stopped

-----------------------------------------------------------------------------
(* The inductive invariant: where the last line of each file is on its way  *)
(* to the model.  Time does not occur in it.                                *)

Line(m, n) == IF n = 0 THEN Zero ELSE file[m][n]
Lines(m)   == {file[m][i] : i \in DOMAIN file[m]}
Position(m) == next[m] - 1

Executed(m, n) ==
  /\ executed[m] \in Seq(Lines(m)) /\ Len(executed[m]) = n
  /\ \A i \in 1 .. n : executed[m][i] = file[m][i]

\* The model has executed it; it is written but not yet on the ports; it is on
\* the ports and the model is about to execute it.
Settled(m) ==
  /\ sig[m] = Line(m, Position(m))
  /\ m \in ready => Position(m) = 0
  /\ Executed(m, Position(m))
Written(m) ==
  /\ Position(m) > 0
  /\ sig[m] = Line(m, Position(m) - 1)
  /\ m \in ready => Position(m) = 1
  /\ Executed(m, Position(m) - 1)
Due(m) ==
  /\ Position(m) > 0
  /\ sig[m] = Line(m, Position(m))
  /\ m \in ready
  /\ Executed(m, Position(m) - 1)

PortInv(m) ==
  /\ next[m] \in 1 .. Len(file[m]) + 1
  /\ pending[m] = Line(m, Position(m))
  /\ Settled(m) \/ Written(m) \/ Due(m)

\* Source overwrites a line only when its model has executed it.  A line that is
\* put on the ports without a wait is the last.
SourceInv ==
  /\ spc = "reset" => \A m \in Models : next[m] = 1
  /\ "source" \in ready =>
       Settled("flex") /\ (More("relay") => Settled("relay"))

\* Both markers are the last line of their files.
JudgeInv ==
  judged \/ rpc = "compare" => \A m \in Models : next[m] = Len(file[m]) + 1 /\ Settled(m)

IInv ==
  /\ file \in Files
  /\ DOMAIN sig = Models /\ DOMAIN pending = Models
  /\ DOMAIN next = Models /\ DOMAIN executed = Models
  /\ DOMAIN wake = {"source", "run"}
  /\ BothWellFormed => (\A m \in Models : PortInv(m)) /\ SourceInv /\ JudgeInv
=============================================================================
