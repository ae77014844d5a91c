----------------------------- MODULE ResultCheck -----------------------------
(***************************************************************************)
(* How a program and the results of the reference simulator reach a flex   *)
(* or hlscnn testbench, and what the comparison makes of them.  The        *)
(* simulator executes the program and writes a log.  The program is given  *)
(* to the ILA model by extract_prog_frag (flex) or extract_input_seq       *)
(* (hlscnn) and Source, the results in the log by extract_flexnlp_result   *)
(* or extract_sim_result, and run compares the two.  Numbers are printed   *)
(* with as many digits as they need, so every stage brings them back to    *)
(* their width in its own way.                                             *)
(*                                                                         *)
(* The accelerators are reduced to their memories: a computed result is a  *)
(* write like any other, and the ILA model may get one write wrong.        *)
(***************************************************************************)
EXTENDS Integers, Sequences, FiniteSets, FiniteSetsExt

CONSTANTS
  Beat,    \* bytes in a beat; 16 in the code
  Size,    \* bytes of each memory that are used
  Cases    \* records [kind, prog]; a command is [mode, addr, text]

VARIABLES
  kind,       \* "lstm" (also rnn, gru, layernorm and maxp), "attention" or "conv"
  prog,       \* the program, as text
  simulated,  \* commands the simulator has executed
  ref,        \* the simulator's memories
  log,        \* the lines of its log
  scanned,    \* extract_input_seq: lines of the log it has read
  fragment,   \* the "program fragment": the commands for the ILA model
  fed,        \* commands the ILA model has executed
  ila,        \* the ILA model's memories
  wrong,      \* whether the ILA model has got a write wrong
  line,       \* the extractor: the next line of the log
  half,       \* the extractor: the address that waits for its data
  rows,       \* the result file
  compared, total, passed, err_total, verdict   \* run

vars == <<kind, prog, simulated, ref, log, scanned, fragment, fed, ila, wrong, line, half, rows,
          compared, total, passed, err_total, verdict>>
converted == <<scanned, fragment>>
checked == <<compared, total, passed, err_total, verdict>>

Large == 860880896   \* 0x33500000
Small == 861929472   \* 0x33600000
Spad1 == 147456      \* 0x24000
Mega == 1048576      \* 0x100000

\* Where the programs of a testbench write and read, beat by beat.
Addresses(testbench) ==
  LET Beats(base) == {base + (n * Beat) : n \in 0 .. (Size \div Beat) - 1}
  IN  CASE testbench = "conv"      -> Beats(Spad1)
        [] testbench = "attention" -> Beats(Large) \cup Beats(Small)
        [] OTHER                   -> Beats(Large)

ASSUME BeatAssumption ==
  /\ Beat \in Nat \ {0} /\ Beat % 2 = 0
  /\ Size \in Nat \ {0} /\ Size % Beat = 0 /\ Size <= Mega

\* extract_input_seq does not survive a number that is longer than a beat.
ASSUME CasesAssumption ==
  \A c \in Cases :
    /\ c.kind \in {"lstm", "attention", "conv"}
    /\ c.prog \in Seq([mode : {"W", "R"}, addr : Addresses(c.kind), text : Seq(0 .. 15)])
    /\ c.kind = "conv" => \A n \in DOMAIN c.prog : Len(c.prog[n].text) <= 2 * Beat

Bytes == 0 .. 255
Zeros(n) == [k \in 1 .. n |-> 0]
Pad(digits) == Zeros(2 * Beat - Len(digits)) \o digits

-----------------------------------------------------------------------------
(* The accelerators                                                         *)

Place(addr) ==
  IF kind = "conv" THEN <<"spad", addr - Spad1>>
  ELSE IF addr >= Small THEN <<"small", addr - Small>> ELSE <<"large", addr - Large>>

Store(mem, addr, data) ==
  LET at == Place(addr)
  IN  [mem EXCEPT ![at[1]] =
         [b \in DOMAIN @ |-> IF b - at[2] \in 0 .. Beat - 1 THEN data[b - at[2]] ELSE @[b]]]

Load(mem, addr) == [b \in 0 .. Beat - 1 |-> mem[Place(addr)[1]][Place(addr)[2] + b]]

\* The value of a number of any length.
Value(text) ==
  LET d == Zeros(2 * Beat) \o text
  IN  [b \in 0 .. Beat - 1 |-> (16 * d[Len(d) - (2 * b) - 1]) + d[Len(d) - (2 * b)]]

\* SystemC prints no leading zeros, but one before a digit that could be a sign.
Printed(data) ==
  LET d == [n \in 1 .. 2 * Beat |->
              LET byte == data[Beat - ((n + 1) \div 2)]
              IN  IF n % 2 = 1 THEN byte \div 16 ELSE byte % 16]
      first == Min({n \in DOMAIN d : d[n] # 0} \cup {2 * Beat})
      short == SubSeq(d, first, 2 * Beat)
  IN  IF Head(short) >= 8 THEN <<0>> \o short ELSE short

\* A number of two bytes, the higher one second.
Half(mem, b) == mem["spad"][b] + (256 * mem["spad"][b + 1])

-----------------------------------------------------------------------------
(* The simulation and its log                                               *)

Line(is, addr, text) == [is |-> is, addr |-> addr, text |-> text]
Command(mode, addr, text) == [mode |-> mode, addr |-> addr, text |-> text]
Memories == [m \in {"large", "small", "spad"} |-> [b \in 0 .. Size - 1 |-> 0]]

\* The fragment of flex has a command for every line of its program.  And
\* extract_flexnlp_result reads a line of the log before its loop.
Init ==
  /\ \E c \in Cases : kind = c.kind /\ prog = c.prog
  /\ simulated = 0 /\ ref = Memories
  /\ log = << Line("banner", 0, <<>>), Line("reading", 0, <<>>) >>
  /\ scanned = 0 /\ fragment = (IF kind = "conv" THEN <<>> ELSE prog)
  /\ fed = 0 /\ ila = Memories /\ wrong = FALSE
  /\ line = (IF kind = "conv" THEN 1 ELSE 2) /\ half = 0 /\ rows = <<>>
  /\ compared = 0 /\ total = 0 /\ passed = 0 /\ err_total = 0 /\ verdict = "none"

Info(mode) == IF mode = "W" THEN "info W" ELSE "info R"
LogOf(cmd) ==
  CASE kind = "conv" -> << Line(Info(cmd.mode), cmd.addr, cmd.text) >>
    [] kind # "conv" /\ cmd.mode = "W" -> << Line("write", cmd.addr, cmd.text) >>
    [] OTHER -> << Line("request", cmd.addr, <<>>), Line("debug", 0, <<>>),
                   Line("response", 0, Printed(Load(ref, cmd.addr))) >>

Simulate ==
  /\ simulated < Len(prog)
  /\ LET cmd == prog[simulated + 1]
     IN  /\ log' = log \o LogOf(cmd)
         /\ ref' = IF cmd.mode = "W" THEN Store(ref, cmd.addr, Value(cmd.text)) ELSE ref
  /\ simulated' = simulated + 1
  /\ UNCHANGED <<kind, prog, converted, fed, ila, wrong, line, half, rows, checked>>

\* The results of hlscnn: half words of the scratch pad, one line for each beat.
Dump ==
  /\ kind = "conv" /\ simulated = Len(prog)
  /\ log' = log \o [n \in 1 .. Size \div Beat |->
                      Line("result", Spad1 + (n - 1) * Beat,
                           [k \in 1 .. Beat \div 2 |-> Half(ref, (n - 1) * Beat + 2 * (k - 1))])]
  /\ simulated' = simulated + 1
  /\ UNCHANGED <<kind, prog, ref, converted, fed, ila, wrong, line, half, rows, checked>>

LogComplete == simulated = Len(prog) + (IF kind = "conv" THEN 1 ELSE 0)

-----------------------------------------------------------------------------
(* The program fragment, and the ILA model that executes it                 *)

\* extract_input_seq: a command for every line with [[ILA-INFO]].
ConvertLine ==
  /\ kind = "conv" /\ LogComplete /\ scanned < Len(log)
  /\ LET l == log[scanned + 1]
     IN  fragment' = CASE l.is = "info W" -> Append(fragment, Command("W", l.addr, Pad(l.text)))
                       [] l.is = "info R" -> Append(fragment, Command("R", l.addr, Pad(l.text)))
                       [] OTHER           -> fragment
  /\ scanned' = scanned + 1
  /\ UNCHANGED <<kind, prog, simulated, ref, log, fed, ila, wrong, line, half, rows, checked>>

FragmentComplete == LogComplete /\ (kind = "conv" => scanned = Len(log))

\* Source of flex: the 32 digits of a command.
FormatFirst(text) ==   \* (mutant: the first digits of a long number)
  IF Len(text) <= 2 * Beat THEN Pad(text) ELSE SubSeq(text, 1, 2 * Beat)
Format(text) ==
  IF Len(text) <= 2 * Beat THEN Pad(text)
  ELSE SubSeq(text, Len(text) - (2 * Beat) + 1, Len(text))

\* The data ports; hlscnn takes the digits of the fragment as they are.
DataIn(text) ==
  LET d == IF kind = "conv" THEN text ELSE Format(text)
      first == (2 * Beat) - 1
  IN  [b \in 0 .. Beat - 1 |-> (16 * d[first - (2 * b)]) + d[first + 1 - (2 * b)]]

Wrong(data, b) == [data EXCEPT ![b] = (@ + 1) % 256]

Feed ==
  /\ FragmentComplete /\ fed < Len(fragment)
  /\ LET cmd == fragment[fed + 1]
         data == DataIn(cmd.text)
     IN  \/ /\ ila' = IF cmd.mode = "W" THEN Store(ila, cmd.addr, data) ELSE ila
            /\ UNCHANGED wrong
         \/ /\ cmd.mode = "W" /\ ~wrong
            /\ \E b \in 0 .. Beat - 1 : ila' = Store(ila, cmd.addr, Wrong(data, b))
            /\ wrong' = TRUE
  /\ fed' = fed + 1
  /\ UNCHANGED <<kind, prog, simulated, ref, log, converted, line, half, rows, checked>>

-----------------------------------------------------------------------------
(* The result file                                                          *)

\* extract_flexnlp_result: one digit too many is dropped.
TrimNoPad(text) ==   \* (mutant: zeros are added at the end)
  CASE Len(text) < 2 * Beat -> text \o Zeros(2 * Beat - Len(text))
    [] Len(text) > 2 * Beat -> Tail(text)
    [] OTHER -> text
Trim(text) ==
  CASE Len(text) < 2 * Beat -> Pad(text)
    [] Len(text) > 2 * Beat -> Tail(text)
    [] OTHER -> text

Row(addr, data) == [addr |-> addr, data |-> data]

\* A line with "read" has an address, or data, or neither.
ExtractLine ==
  /\ FragmentComplete /\ fed = Len(fragment) /\ line <= Len(log)
  /\ LET l == log[line]
     IN  /\ half' = IF l.is = "request" THEN l.addr ELSE half
         /\ rows' = CASE l.is = "response" -> Append(rows, Row(half, Trim(l.text)))
                      [] l.is = "result" ->
                           rows \o [k \in DOMAIN l.text |-> Row(l.addr + 2 * (k - 1), l.text[k])]
                      [] OTHER -> rows
  /\ line' = line + 1
  /\ UNCHANGED <<kind, prog, simulated, ref, log, converted, fed, ila, wrong, checked>>

Extracted == LogComplete /\ line > Len(log)

-----------------------------------------------------------------------------
(* The comparison                                                           *)

Byte(mem, b) == IF b \in DOMAIN mem THEN mem[b] ELSE -1

\* Only attention_testbench looks at the small buffer.
BufferLargeOnly(addr) == "large"   \* (mutant: as the other testbenches do)
Buffer(addr) ==
  IF kind = "lstm" \/ addr % (16 * Mega) < 6 * Mega THEN "large" ELSE "small"

\* The j-th byte of a row, from the highest.
SameByteForward(r, j) ==   \* (mutant: the bytes are not reversed)
  Byte(ila[Buffer(r.addr)], (r.addr % Mega) + j)
    = (16 * r.data[(2 * j) + 1]) + r.data[(2 * j) + 2]
SameByte(r, j) ==
  Byte(ila[Buffer(r.addr)], (r.addr % Mega) + Beat - 1 - j)
    = (16 * r.data[(2 * j) + 1]) + r.data[(2 * j) + 2]

CompareFlex ==
  /\ Extracted /\ kind # "conv" /\ compared < Len(rows)
  /\ LET good == {j \in 0 .. Beat - 1 : SameByte(rows[compared + 1], j)}
     IN  /\ passed' = passed + Cardinality(good)
         /\ err_total' = err_total + Beat - Cardinality(good)
  /\ total' = total + Beat
  /\ compared' = compared + 1
  /\ UNCHANGED <<kind, prog, simulated, ref, log, converted, fed, ila, wrong, line, half, rows,
                 verdict>>

CompareConv ==
  /\ Extracted /\ kind = "conv" /\ compared < Len(rows)
  /\ LET r == rows[compared + 1]
     IN  err_total' = IF Half(ila, r.addr - Spad1) = r.data THEN err_total ELSE err_total + 1
  /\ compared' = compared + 1
  /\ UNCHANGED <<kind, prog, simulated, ref, log, converted, fed, ila, wrong, line, half, rows,
                 total, passed, verdict>>

\* maxp and layernorm print the counts only.
Judge ==
  /\ Extracted /\ compared = Len(rows) /\ verdict = "none"
  /\ verdict' = IF (IF kind = "conv" THEN err_total = 0 ELSE total = passed)
                THEN "passed" ELSE "failed"
  /\ UNCHANGED <<kind, prog, simulated, ref, log, converted, fed, ila, wrong, line, half, rows,
                 compared, total, passed, err_total>>

Judged == verdict # "none"
Terminated == Judged /\ UNCHANGED vars

Next ==
  \/ Simulate \/ Dump \/ ConvertLine \/ Feed \/ ExtractLine
  \/ CompareFlex \/ CompareConv \/ Judge \/ Terminated

Spec == Init /\ [][Next]_vars

-----------------------------------------------------------------------------

Reads == {n \in DOMAIN prog : prog[n].mode = "R"}
WritesTo(addr) == {n \in DOMAIN prog : prog[n].mode = "W" /\ prog[n].addr = addr}

\* What the program last wrote to an address before its n-th command.
Before(addr, n) ==
  LET ws == {m \in WritesTo(addr) : m < n}
  IN  IF ws = {} THEN [b \in 0 .. Beat - 1 |-> 0] ELSE Value(prog[Max(ws)].text)

\* The simulator and the ILA model execute the same program: two readings of the
\* text of a command, of any length, agree, and no command is lost on the way.
SameProgram == fed = Len(prog) /\ ~wrong => ila = ref

\* Every read of the program is a row of the result file, in order, with its own
\* address and what the program had written there, whatever the log printed.
RowsAreReads ==
  kind # "conv" =>
    /\ Len(rows) <= Cardinality(Reads)
    /\ Extracted => Len(rows) = Cardinality(Reads)
    /\ \A k \in DOMAIN rows :
         LET n == CHOOSE m \in Reads : Cardinality({x \in Reads : x <= m}) = k
         IN  rows[k].addr = prog[n].addr /\ Value(rows[k].data) = Before(rows[k].addr, n)

\* Addresses whose reads in the program saw their last value.
ReadsFinal == \A n \in Reads : \A m \in WritesTo(prog[n].addr) : m < n

\* A model that did everything right passes, in every testbench, unless the
\* program overwrites what it has read: there is one comparison, at the end.
NoFalseFailure == Judged /\ ~wrong /\ ReadsFinal => verdict = "passed"

\* The bytes read from the simulator that the model does not have.
WrongBytes ==
  {r \in Reads \X (0 .. Beat - 1) :
     LET addr == prog[r[1]].addr IN Load(ila, addr)[r[2]] # Before(addr, r[1])[r[2]]}

\* The testbench passes exactly if the model agrees with the simulator in all that
\* was read: no difference is masked by another row, or found in the wrong place.
\* The number of failures, all that the maxp and layernorm testbenches report, is
\* the number of bytes that differ.
VerdictIsExact ==
  Judged =>
    /\ (verdict = "passed") <=> (IF kind = "conv" THEN ila["spad"] = ref["spad"]
                                                  ELSE WrongBytes = {})
    /\ kind # "conv" => err_total = Cardinality(WrongBytes)
=============================================================================
