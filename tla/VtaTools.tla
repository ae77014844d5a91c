------------------------------ MODULE VtaTools ------------------------------
(***************************************************************************)
(* From the log of the HLS simulation to the inputs of the testbench:      *)
(* extract_sim_log cuts the log into one file per test, and input_gen      *)
(* turns each file into a program fragment and reference results.  The log *)
(* is what the tests of vta_test.cc print, one after the other: a header   *)
(* with the name of the test, the [ILA-INFO] lines, and the verdict.       *)
(***************************************************************************)
EXTENDS Integers, Sequences

CONSTANT Calls
\* The sequences of calls of vta_test.cc that may have produced the log; ok is
\* the verdict the test came to.
Ops == {"min", "max", "add", "shr", "gemm"}
ASSUME CallsAssumption ==
  Calls \subseteq Seq([op : Ops, imm : BOOLEAN, comp : BOOLEAN, ok : BOOLEAN])

VARIABLES
  calls,      \* the calls that produced the log
  test, line, \* extract_sim_log: the next line of vivado_hls.log, and the test it is of
  current,    \* extract_sim_log: the test whose log is open
  files,      \* vivado_test_log: the lines of each file
  list,       \* vivado_test_log/file_list
  gen,        \* input_gen: the next entry of file_list
  rd,         \* input_gen: the next line of the file of that entry, 0 before it is opened
  cmd_v,      \* input_gen: the commands of the file so far
  result_v,   \* input_gen: its reference results so far
  frag,       \* prog_frag: the commands of each fragment
  refs        \* vivado_test_output: the reference results of each test

extraction == <<calls, test, line, current, files, list>>
generation == <<gen, rd, cmd_v, result_v, frag, refs>>
toolsVars == <<extraction, generation>>

\* Writing a file: whatever it held before is gone.
With(dir, name, lines) ==
  [f \in DOMAIN dir \cup {name} |-> IF f = name THEN lines ELSE dir[f]]

-----------------------------------------------------------------------------
(* The log                                                                  *)

\* getOpcodeString: a shift has one name, with an immediate or without.
OpcodeString(op, imm) == IF imm /\ op # "shr" THEN <<op, "imm">> ELSE <<op>>
Name(call) == <<OpcodeString(call.op, call.imm), call.comp>>

\* The kinds of [ILA-INFO] lines of a test, in the order of the shipped log.  (The
\* sources in vta/backup print instructions and micro-ops first; no property
\* depends on the order.)
Body(op) ==
  IF op = "gemm" THEN <<"input", "weight", "bias", "out", "uop", "instr">>
                 ELSE <<"bias", "out", "uop", "instr">>

Info(t, n, what) == [kind |-> "info", test |-> t, no |-> n, what |-> what]
OwnInfo(cs, t) == [n \in DOMAIN Body(cs[t].op) |-> Info(t, n, Body(cs[t].op)[n])]

\* The rule before the header and the DEBUG lines are neither.
TestLines(cs, t) ==
  << [kind |-> "debug"], [kind |-> "start", name |-> Name(cs[t])],
     [kind |-> "debug"] >>
  \o OwnInfo(cs, t)
  \o << [kind |-> IF cs[t].ok THEN "successful" ELSE "failed"] >>

\* The next line of the log.
Line == TestLines(calls, test)[line]

-----------------------------------------------------------------------------

Closed == <<>>

ToolsInit ==
  /\ calls \in Calls
  /\ test = 1 /\ line = 1 /\ current = Closed
  /\ files = <<>> /\ list = <<>>
  /\ gen = 1 /\ rd = 0 /\ cmd_v = <<>> /\ result_v = <<>>
  /\ frag = <<>> /\ refs = <<>>

Extracted == test > Len(calls)

Read ==
  /\ ~Extracted
  /\ IF line < Len(TestLines(calls, test)) THEN test' = test /\ line' = line + 1
                                           ELSE test' = test + 1 /\ line' = 1

\* extract_sim_log, outer loop: look for the header of a test.
SkipLine ==
  /\ current = Closed /\ Read
  /\ Line.kind # "start"
  /\ UNCHANGED <<calls, current, files, list, generation>>

OpenLog ==
  /\ current = Closed /\ Read
  /\ Line.kind = "start"
  /\ current' = Line.name
  /\ list' = Append(list, Line.name)
  /\ files' = With(files, Line.name, <<>>)
  /\ UNCHANGED <<calls, generation>>

CloseLogNever ==   \* (mutant: reads on to the end of the log)
  /\ current # Closed /\ Read
  /\ Line.kind = "successful"
  /\ UNCHANGED <<calls, current, files, list, generation>>

\* Inner loop: every line up to the next "test successful!".
CopyLineAll ==   \* (mutant: DEBUG lines too)
  /\ current # Closed /\ Read
  /\ Line.kind # "successful"
  /\ files' = [files EXCEPT ![current] = Append(@, Line)]
  /\ UNCHANGED <<calls, current, list, generation>>

CopyLine ==
  /\ current # Closed /\ Read
  /\ Line.kind # "successful"
  /\ files' = IF Line.kind = "info" THEN [files EXCEPT ![current] = Append(@, Line)]
                                    ELSE files
  /\ UNCHANGED <<calls, current, list, generation>>

CloseLog ==
  /\ current # Closed /\ Read
  /\ Line.kind = "successful"
  /\ current' = Closed
  /\ UNCHANGED <<calls, files, list, generation>>

-----------------------------------------------------------------------------
(* input_gen, when the log has been cut up.  Result lines go to the         *)
(* reference, all others become numbered commands.                          *)

Entry == list[gen]
LogFile == files[Entry]

\* The outputs of an entry are created empty, and written when its file is at its end.
OpenFile ==
  /\ Extracted /\ gen <= Len(list) /\ rd = 0
  /\ rd' = 1 /\ cmd_v' = <<>> /\ result_v' = <<>>
  /\ frag' = With(frag, Entry, <<>>) /\ refs' = With(refs, Entry, <<>>)
  /\ UNCHANGED <<extraction, gen>>

\* instr_cntr counts the commands of the file.
Mode == [input |-> 1, weight |-> 2, bias |-> 3, uop |-> 4, instr |-> 0]
Command(instr_cntr, data_rd) ==
  [no |-> instr_cntr, mode |-> Mode[data_rd.what], test |-> data_rd.test]

ReadCommand ==
  /\ rd > 0 /\ rd <= Len(LogFile)
  /\ LogFile[rd].what # "out"
  /\ cmd_v' = Append(cmd_v, Command(Len(cmd_v), LogFile[rd]))
  /\ rd' = rd + 1
  /\ UNCHANGED <<extraction, gen, result_v, frag, refs>>

ReadResult ==
  /\ rd > 0 /\ rd <= Len(LogFile)
  /\ LogFile[rd].what = "out"
  /\ result_v' = Append(result_v, LogFile[rd])
  /\ rd' = rd + 1
  /\ UNCHANGED <<extraction, gen, cmd_v, frag, refs>>

WriteFilesNoAdvance ==   \* (mutant: the next file name is not read)
  /\ rd > 0 /\ rd > Len(LogFile)
  /\ frag' = With(frag, Entry, cmd_v) /\ refs' = With(refs, Entry, result_v)
  /\ rd' = 0
  /\ UNCHANGED <<extraction, gen, cmd_v, result_v>>

WriteFiles ==
  /\ rd > 0 /\ rd > Len(LogFile)
  /\ frag' = With(frag, Entry, cmd_v) /\ refs' = With(refs, Entry, result_v)
  /\ rd' = 0 /\ gen' = gen + 1
  /\ UNCHANGED <<extraction, cmd_v, result_v>>

ToolsDone == Extracted /\ gen > Len(list)
Terminated == ToolsDone /\ UNCHANGED toolsVars

ToolsNext ==
  \/ SkipLine \/ OpenLog \/ CopyLine \/ CloseLog
  \/ OpenFile \/ ReadCommand \/ ReadResult \/ WriteFiles
  \/ Terminated

ToolsSpec == ToolsInit /\ [][ToolsNext]_toolsVars /\ WF_toolsVars(ToolsNext)

-----------------------------------------------------------------------------

Distinct(cs)   == \A t, u \in DOMAIN cs : Name(cs[t]) = Name(cs[u]) => t = u
Successful(cs) == \A t \in DOMAIN cs : cs[t].ok

\* Line m of the file that entry n of file_list names, and the order of two lines
\* in the log.
At(n, m) == files[list[n]][m]
Earlier(l, k) == l.test < k.test \/ (l.test = k.test /\ l.no < k.no)

NothingAdded ==
  \A n \in DOMAIN list : \A m \in DOMAIN files[list[n]] :
    \E t \in DOMAIN calls : \E k \in DOMAIN OwnInfo(calls, t) : At(n, m) = OwnInfo(calls, t)[k]

Kept(t, k) ==
  \E n \in DOMAIN list : \E m \in DOMAIN files[list[n]] : At(n, m) = OwnInfo(calls, t)[k]

InOrder ==
  \A n, p \in DOMAIN list : \A m \in DOMAIN files[list[n]], q \in DOMAIN files[list[p]] :
    n < p \/ (n = p /\ m < q) => Earlier(At(n, m), At(p, q))

\* The files in the order of file_list, put end to end, hold the [ILA-INFO]
\* lines of the whole log in their order: whatever the tests came to, nothing
\* is added, lost or doubled as long as no two tests have the same name.
NothingLost ==
  Extracted /\ Distinct(calls) =>
    /\ NothingAdded
    /\ \A t \in DOMAIN calls : \A k \in DOMAIN OwnInfo(calls, t) : Kept(t, k)
    /\ InOrder

\* A fragment never mixes tests: its commands and its reference results come
\* from one and the same test, when all tests succeed.
FragmentsOfOneTest ==
  ToolsDone /\ Successful(calls) =>
    \A name \in DOMAIN frag :
      \A n \in DOMAIN frag[name], m \in DOMAIN refs[name] :
        frag[name][n].test = refs[name][m].test

\* All is extracted and generated in the end.
Completes == <>ToolsDone

\* vta/README.md:17: vivado_test_log "contains ILAtor simulation for each given
\* testcase, extracted from vivado_hls.log": each test has a file of its lines.
EachTestHasItsLog ==
  Extracted => \A t \in DOMAIN calls : \E name \in DOMAIN files :
                 files[name] = OwnInfo(calls, t)
=============================================================================
