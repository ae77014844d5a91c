------------------------- MODULE CommandBench_proofs -------------------------
(***************************************************************************)
(* The model executes every program in order, and the comparison of the    *)
(* testbenches that wait for input_done sees all of it, for programs of    *)
(* any length and whatever the waits: the proofs rest on the order in      *)
(* which the kernel lets processes run, never on the length of a wait.     *)
(***************************************************************************)
EXTENDS CommandBench, FiniteSetTheorems, TLAPS

-----------------------------------------------------------------------------
(* What the model sees of a program                                         *)

LEMMA RankBounds ==
  ASSUME NEW n \in Nat
  PROVE  /\ IsFiniteSet(Seen(n)) /\ Rank(n) \in Nat
         /\ \A i \in 1 .. n : Rank(i) \in 1 .. Rank(n)
<1>1. \A k \in Nat : IsFiniteSet(Seen(k)) /\ Rank(k) \in Nat
  <2> SUFFICES ASSUME NEW k \in Nat PROVE IsFiniteSet(Seen(k)) /\ Rank(k) \in Nat
    OBVIOUS
  <2>1. IsFiniteSet(1 .. k) /\ Seen(k) \subseteq 1 .. k
    BY FS_Interval DEF Seen
  <2>2. IsFiniteSet(Seen(k))
    BY <2>1, FS_Subset
  <2> QED BY <2>2, FS_CardinalityType DEF Rank
<1>2. ASSUME NEW i \in 1 .. n PROVE Rank(i) \in 1 .. Rank(n)
  <2>1. i \in Nat
    OBVIOUS
  <2>2. Seen(i) \subseteq Seen(n) /\ 1 \in Seen(i)
    BY DEF Seen
  <2>3. Rank(i) <= Rank(n)
    BY <1>1, <2>2, FS_Subset DEF Rank
  <2>4. Rank(i) # 0
    BY <1>1, <2>1, <2>2, FS_EmptySet DEF Rank
  <2> QED BY <1>1, <2>1, <2>3, <2>4
<1> QED BY <1>1, <1>2

LEMMA RankStep ==
  ASSUME NEW n \in Nat
  PROVE  /\ Line(n) # Line(n + 1) \/ n = 0 =>
              Seen(n + 1) = Seen(n) \cup {n + 1} /\ Rank(n + 1) = Rank(n) + 1
         /\ Line(n) = Line(n + 1) /\ n # 0 =>
              Seen(n + 1) = Seen(n) /\ Rank(n + 1) = Rank(n)
<1>1. CASE Line(n) # Line(n + 1) \/ n = 0
  <2>1. Seen(n + 1) = Seen(n) \cup {n + 1} /\ n + 1 \notin Seen(n)
    BY <1>1 DEF Seen, Line
  <2>2. Rank(n + 1) = Rank(n) + 1
    BY <2>1, RankBounds, FS_AddElement DEF Rank
  <2> QED BY <1>1, <2>1, <2>2
<1>2. CASE Line(n) = Line(n + 1) /\ n # 0
  <2>1. Seen(n + 1) = Seen(n)
    BY <1>2 DEF Seen, Line
  <2> QED BY <1>2, <2>1 DEF Rank
<1> QED BY <1>1, <1>2

\* A command equal to its neighbour counts as executed.
LEMMA ExecutedAgain ==
  ASSUME NEW n \in Nat, n # 0, Line(n) = Line(n + 1), Executed(n)
  PROVE  Executed(n + 1)
<1>1. Rank(n + 1) = Rank(n) /\ prog[n + 1] = prog[n]
  BY RankStep DEF Line
<1>2. Len(executed) = Rank(n) /\ \A i \in 1 .. n : executed[Rank(i)] = prog[i]
  BY DEF Executed
<1>3. ASSUME NEW i \in 1 .. n + 1 PROVE executed[Rank(i)] = prog[i]
  <2>1. CASE i = n + 1
    BY <1>1, <1>2, <2>1
  <2>2. CASE i # n + 1
    BY <1>2, <2>2
  <2> QED BY <2>1, <2>2
<1> QED BY <1>1, <1>2, <1>3 DEF Executed

\* The next command that differs is appended.
LEMMA ExecutedNext ==
  ASSUME NEW n \in Nat, Line(n) # Line(n + 1), Executed(n), NEW S, executed \in Seq(S),
         prog[n + 1] \in S, executed' = Append(executed, prog[n + 1]), prog' = prog
  PROVE  Executed(n + 1)'
<1>1. Rank(n + 1) = Rank(n) + 1
  BY RankStep
<1>2. \A k : Seen(k)' = Seen(k) /\ Rank(k)' = Rank(k)
  BY Zenon DEF Seen, Rank
<1>3. Len(executed) = Rank(n) /\ \A i \in 1 .. n : executed[Rank(i)] = prog[i]
  BY DEF Executed
<1>4. Rank(n) \in Nat /\ \A i \in 1 .. n : Rank(i) \in 1 .. Rank(n)
  BY RankBounds
<1>5. Len(executed') = Rank(n + 1)
  BY <1>1, <1>3
<1>6. ASSUME NEW i \in 1 .. n + 1 PROVE executed'[Rank(i)] = prog[i]
  <2>1. CASE i \in 1 .. n
    <3> DEFINE r == Rank(i)
    <3>1. r \in 1 .. Len(executed) /\ executed[r] = prog[i]
      BY <1>3, <1>4, <2>1
    <3> HIDE DEF r
    <3>2. executed'[r] = executed[r]
      BY <3>1
    <3> QED BY <3>1, <3>2 DEF r
  <2>2. CASE i = n + 1
    BY <1>1, <1>3, <1>4, <2>2
  <2>3. i \in 1 .. n \/ i = n + 1
    OBVIOUS
  <2> QED BY <2>1, <2>2, <2>3, Zenon
<1> QED BY <1>2, <1>5, <1>6, Zenon DEF Executed

LEMMA ExecutedSame ==
  ASSUME prog' = prog, executed' = executed
  PROVE  /\ \A n : Executed(n)' <=> Executed(n)
         /\ \A n : Rank(n)' = Rank(n)
BY Zenon DEF Executed, Seen, Rank

-----------------------------------------------------------------------------
(* The inductive invariant                                                  *)

\* What the proofs use of a program.
LEMMA ProgFacts ==
  ASSUME \E c \in Cases : kind = c.kind /\ prog = c.prog
  PROVE  /\ prog \in Seq(Commands) /\ Len(prog) \in Nat
         /\ DOMAIN prog = 1 .. Len(prog)
         /\ \A i \in 1 .. Len(prog) : prog[i] # Zero /\ prog[i] \in Commands
<1>1. prog \in Seq(Commands) /\ \A i \in DOMAIN prog : prog[i] # Zero
  BY CasesAssumption DEF Commands
<1>2. Len(prog) \in Nat /\ DOMAIN prog = 1 .. Len(prog)
  BY <1>1
<1> QED BY <1>1, <1>2 DEF Commands

LEMMA InitOrder == Init => OrderInv
<1> SUFFICES ASSUME Init PROVE OrderInv
  OBVIOUS
<1>1. /\ \E c \in Cases : kind = c.kind /\ prog = c.prog
      /\ DOMAIN sig = {"cmd", "done"} /\ DOMAIN pending = {"cmd", "done"}
      /\ DOMAIN wake = {"source", "run"}
  BY DEF Init, KernelInit
<1>2. sent = 0 /\ sig.cmd = Zero /\ pending.cmd = Zero /\ ~sig.done /\ ~pending.done
  BY DEF Init, KernelInit
<1>3. Len(prog) \in Nat
  BY <1>1, ProgFacts
<1>4. Executed(0)
  <2>1. Rank(0) = 0
    BY FS_EmptySet DEF Seen, Rank
  <2>2. executed = << >> /\ Len(<< >>) = 0
    BY DEF Init
  <2> QED BY <2>1, <2>2 DEF Executed
<1>5. executed \in Seq(Commands)
  <2>1. << >> \in Seq(Commands)
    OBVIOUS
  <2> QED BY <2>1, Zenon DEF Init
<1>6. Settled
  BY <1>2, <1>4 DEF Settled, Line
<1>7. PortInv
  BY <1>2, <1>3, <1>5, <1>6 DEF PortInv, Line
<1>8. SourceInv /\ JudgeInv
  BY <1>2, <1>6 DEF Init, SourceInv, JudgeInv
<1> QED BY <1>1, <1>7, <1>8 DEF OrderInv

\* A step that touches neither program, port nor model keeps what is said of them.
LEMMA Quiet ==
  ASSUME UNCHANGED <<prog, sent, executed, sig>>, pending'.cmd = pending.cmd,
         "model" \in ready' <=> "model" \in ready
  PROVE  (PortInv => PortInv') /\ (Settled => Settled')
<1>1. \A n : Line(n)' = Line(n)
  BY Zenon DEF Line
<1>2. \A n : Executed(n)' <=> Executed(n)
  BY ExecutedSame
<1>3. (Settled' <=> Settled) /\ (Written' <=> Written) /\ (Due' <=> Due)
  BY <1>1, <1>2, Zenon DEF Settled, Written, Due
<1>4. Commands' = Commands
  BY DEF Commands
<1> QED BY <1>1, <1>3, <1>4, Zenon DEF PortInv

\* No step of Source breaks the inductive invariant.
LEMMA SourceOrder == OrderInv /\ SourceStep => OrderInv'
<1> SUFFICES ASSUME OrderInv, SourceStep PROVE OrderInv'
  OBVIOUS
<1>1. /\ UNCHANGED <<kind, prog, sig, executed, judged, rpc>>
      /\ "source" \in ready
      /\ "model" \in ready' <=> "model" \in ready
  BY DEF SourceStep, Reset, Issue, SourceEnd, Wait, Return, Continue, Turn
<1>2. /\ (\E c \in Cases : kind = c.kind /\ prog = c.prog)'
      /\ DOMAIN sig' = {"cmd", "done"} /\ DOMAIN pending' = {"cmd", "done"}
      /\ DOMAIN wake' = {"source", "run"}
  BY DEF SourceStep, Reset, Issue, SourceEnd, Wait, Return, Continue, Keep, Write, Write2,
         OrderInv
<1>3. Settled /\ PortInv
  BY <1>1 DEF OrderInv, SourceInv
<1>4. \A n : Rank(n)' = Rank(n)
  BY <1>1, ExecutedSame
<1>5. CASE Reset
  <2>1. sent = 0 /\ pending.cmd = Zero
    BY <1>3, <1>5 DEF Reset, OrderInv, SourceInv, PortInv, Line
  <2>2. pending'.cmd = pending.cmd /\ ~pending'.done /\ spc' = "issue" /\ sent' = sent
    BY <1>5, <2>1 DEF Reset, Write2, OrderInv
  <2>3. PortInv' /\ Settled'
    BY <1>1, <1>3, <2>2, Quiet
  <2>4. ~sig.done
    BY <1>5 DEF Reset, OrderInv, SourceInv
  <2>5. SourceInv'
    BY <1>1, <2>2, <2>3, <2>4 DEF SourceInv
  <2>6. JudgeInv'
    BY <1>1, <1>4, <1>5 DEF Reset, OrderInv, SourceInv, JudgeInv
  <2> QED BY <1>2, <2>3, <2>5, <2>6 DEF OrderInv
<1>6. CASE Issue
  <2>1. /\ sent \in Nat /\ sent < Len(prog) /\ Len(prog) \in Nat
        /\ sent' = sent + 1 /\ pending'.cmd = Line(sent + 1)
        /\ pending'.done = pending.done
        /\ spc = "issue" /\ spc' = "issue" /\ "source" \notin ready'
    BY <1>3, <1>6, ProgFacts DEF Issue, Write, Wait, OrderInv, PortInv, Line
  <2>2. \A n : Line(n)' = Line(n)
    BY <1>1, Zenon DEF Line
  <2>3. \A n : Executed(n)' <=> Executed(n)
    BY <1>1, ExecutedSame
  <2>4. sig.cmd = Line(sent) /\ ("model" \in ready => sent = 0) /\ Executed(sent)
    BY <1>3 DEF Settled
  <2>5. Settled' \/ Written'
    <3>1. CASE Line(sent) # Line(sent + 1)
      <4>1. sent' > 0 /\ sent' - 1 = sent /\ ("model" \in ready' => sent' = 1)
        BY <1>1, <2>1, <2>4
      <4> QED BY <1>1, <2>1, <2>2, <2>3, <2>4, <3>1, <4>1 DEF Written
    <3>2. CASE Line(sent) = Line(sent + 1)
      <4>1. sent # 0
        BY <1>2, <2>1, <3>2, ProgFacts DEF Line, OrderInv
      <4>2. Executed(sent + 1)
        BY <2>1, <2>4, <3>2, <4>1, ExecutedAgain
      <4>3. "model" \notin ready'
        BY <1>1, <2>4, <4>1
      <4> QED BY <1>1, <2>1, <2>2, <2>3, <2>4, <3>2, <4>2, <4>3 DEF Settled
    <3> QED BY <3>1, <3>2
  <2>6. PortInv'
    <3>1. executed' \in Seq(Commands')
      BY <1>1, <1>3 DEF PortInv, Commands
    <3>2. sent' \in 0 .. Len(prog')
      BY <1>1, <2>1
    <3> QED BY <2>1, <2>2, <2>5, <3>1, <3>2 DEF PortInv
  <2>7. SourceInv'
    BY <1>1, <2>1 DEF OrderInv, SourceInv
  <2>8. JudgeInv'
    BY <1>1, <1>4, <2>1 DEF OrderInv, JudgeInv
  <2> QED BY <1>2, <2>6, <2>7, <2>8 DEF OrderInv
<1>7. CASE SourceEnd
  <2>1. pending'.cmd = pending.cmd /\ sent' = sent /\ sent = Len(prog) /\ spc' = "end"
    BY <1>7 DEF SourceEnd, Keep, Write, OrderInv
  <2>2. PortInv' /\ Settled'
    BY <1>1, <1>3, <2>1, Quiet
  <2>3. SourceInv'
    BY <1>1, <2>1, <2>2 DEF SourceInv
  <2>4. JudgeInv'
    BY <1>1, <1>4, <2>1 DEF OrderInv, JudgeInv
  <2> QED BY <1>2, <2>2, <2>3, <2>4 DEF OrderInv
<1> QED BY <1>5, <1>6, <1>7 DEF SourceStep

\* The model executes what is on its ports, if that is a command.
LEMMA ExecuteOrder == OrderInv /\ Execute => OrderInv'
<1> SUFFICES ASSUME OrderInv, Execute PROVE OrderInv'
  OBVIOUS
<1>1. /\ UNCHANGED <<kind, prog, sig, pending, sent, judged, rpc, spc, wake>>
      /\ ready' = ready \ {"model"} /\ "model" \in ready
      /\ executed' = IF sig.cmd = Zero THEN executed ELSE Append(executed, sig.cmd)
  BY DEF Execute, Turn, Keep, Return
<1>2. PortInv /\ SourceInv /\ JudgeInv /\ Len(prog) \in Nat /\ sent \in Nat
  BY ProgFacts DEF OrderInv, PortInv
<1>3. \A n : Line(n)' = Line(n) /\ Rank(n)' = Rank(n)
  BY <1>1, Zenon DEF Line, Rank, Seen
<1>4. PortInv' /\ (Settled => Settled')
  <2>1. CASE sig.cmd = Zero
    <3>1. UNCHANGED executed /\ ~Due
      <4>1. \A i \in 1 .. Len(prog) : Line(i) # Zero
        BY <1>2, ProgFacts DEF OrderInv, Line
      <4> QED BY <1>1, <1>2, <2>1, <4>1 DEF Due, PortInv
    <3>2. \A n : Executed(n)' <=> Executed(n)
      BY <1>1, <3>1, ExecutedSame
    <3>3. (Settled => Settled') /\ (Written => Written')
      BY <1>1, <1>3, <3>2 DEF Settled, Written
    <3>4. executed' \in Seq(Commands')
      BY <1>1, <1>2, <3>1 DEF PortInv, Commands
    <3> QED BY <1>1, <1>2, <1>3, <3>1, <3>3, <3>4 DEF PortInv
  <2>2. CASE sig.cmd # Zero
    <3>1. Due /\ ~Settled
      BY <1>1, <1>2, <2>2 DEF PortInv, Settled, Written, Line
    <3>2. /\ sent \in 1 .. Len(prog) /\ sig.cmd = prog[sent] /\ sig.cmd = Line(sent)
          /\ Line(sent - 1) # Line(sent) /\ Executed(sent - 1)
      BY <1>2, <3>1 DEF Due, PortInv, Line
    <3>3. prog[sent] \in Commands /\ executed \in Seq(Commands)
      BY <1>2, <3>2, ProgFacts DEF OrderInv, PortInv
    <3>4. Executed(sent)'
      <4> DEFINE n == sent - 1
      <4>1. n \in Nat /\ n + 1 = sent
        BY <3>2
      <4>2. executed' = Append(executed, prog[n + 1]) /\ Line(n) # Line(n + 1)
        BY <1>1, <2>2, <3>2, <4>1
      <4>3. Executed(n)
        BY <3>2
      <4>4. prog[n + 1] \in Commands
        BY <3>3, <4>1
      <4>5. \A k \in {n} : Executed(k + 1)'
        <5> HIDE DEF n
        <5> SUFFICES ASSUME NEW k \in {n} PROVE Executed(k + 1)'
          OBVIOUS
        <5> QED BY <1>1, <3>3, <4>1, <4>2, <4>3, <4>4, ExecutedNext
      <4> QED BY <1>1, <4>1, <4>5
    <3>5. Settled'
      BY <1>1, <1>3, <3>2, <3>4 DEF Settled
    <3>6. executed' \in Seq(Commands')
      BY <1>1, <2>2, <3>2, <3>3 DEF Commands
    <3> QED BY <1>1, <1>2, <1>3, <3>1, <3>5, <3>6 DEF PortInv
  <2> QED BY <2>1, <2>2
<1>5. SourceInv' /\ JudgeInv'
  BY <1>1, <1>2, <1>3, <1>4 DEF SourceInv, JudgeInv
<1> QED BY <1>1, <1>4, <1>5 DEF OrderInv

\* No step of run breaks the inductive invariant: it sees input_done only when
\* the model has executed the whole program.
LEMMA RunOrder == OrderInv /\ RunStep => OrderInv'
<1> SUFFICES ASSUME OrderInv, RunStep PROVE OrderInv'
  OBVIOUS
<1>1. /\ UNCHANGED <<kind, prog, sig, pending, executed, sent, spc>>
      /\ "source" \in ready' <=> "source" \in ready
      /\ "model" \in ready' <=> "model" \in ready
      /\ DOMAIN wake' = DOMAIN wake
  BY DEF RunStep, RunStart, Poll, Compare, ScStop, Turn, Keep, Wait, Return, Continue
<1>2. PortInv' /\ (Settled => Settled')
  BY <1>1, Quiet DEF OrderInv
<1>3. SourceInv'
  BY <1>1, <1>2 DEF OrderInv, SourceInv
<1>4. \A n : Rank(n)' = Rank(n)
  BY <1>1, ExecutedSame
<1>5. JudgeInv'
  <2> SUFFICES ASSUME kind # "flex"
               PROVE  /\ rpc' = "compare" => spc = "end"
                      /\ judged' # None => judged' = Rank(Len(prog))
    BY <1>1, <1>4 DEF JudgeInv
  <2>1. CASE Poll
    BY <2>1 DEF Poll, EndSeen, OrderInv, JudgeInv, SourceInv
  <2>2. CASE Compare
    <3>1. Executed(Len(prog))
      BY <2>2 DEF Compare, OrderInv, JudgeInv, SourceInv, Settled
    <3> QED BY <2>2, <3>1 DEF Compare, Executed
  <2>3. CASE RunStart \/ ScStop
    BY <2>3 DEF RunStart, ScStop, OrderInv, JudgeInv
  <2> QED BY <2>1, <2>2, <2>3 DEF RunStep
<1> QED BY <1>1, <1>2, <1>3, <1>5 DEF OrderInv

\* A new delta cycle brings a pending command to the model, a new instant threads,
\* and the latter only when nothing is pending or due.
LEMMA KernelOrder == OrderInv /\ KernelStep => OrderInv'
<1> SUFFICES ASSUME OrderInv, KernelStep PROVE OrderInv'
  OBVIOUS
<1>1. UNCHANGED <<kind, prog, sent, executed, judged, rpc, spc, pending>> /\ ready = {}
  BY DEF KernelStep, Update, Advance, bench
<1>2. PortInv /\ SourceInv /\ JudgeInv
  BY DEF OrderInv
<1>3. \A n : Line(n)' = Line(n)
  BY <1>1, Zenon DEF Line
<1>4. \A n : (Executed(n)' <=> Executed(n)) /\ Rank(n)' = Rank(n)
  BY <1>1, ExecutedSame
<1>5. JudgeInv'
  BY <1>1, <1>2, <1>4 DEF JudgeInv
<1>6. CASE Update(Sensitive)
  <2>1. /\ sig' = pending /\ UNCHANGED wake
        /\ "source" \notin ready'
        /\ "model" \in ready' <=> pending.cmd # sig.cmd
    BY <1>6 DEF Update, Sensitive
  <2>2. Settled => Settled'
    BY <1>1, <1>2, <1>3, <1>4, <2>1 DEF Settled, PortInv
  <2>3. Written => Due'
    BY <1>1, <1>2, <1>3, <1>4, <2>1 DEF Written, Due, PortInv
  <2>4. ~Due
    BY <1>1 DEF Due
  <2>5. PortInv'
    BY <1>1, <1>2, <1>3, <2>2, <2>3, <2>4 DEF PortInv, Commands
  <2>6. SourceInv'
    BY <1>1, <1>2, <2>1, <2>2 DEF SourceInv
  <2> QED BY <1>1, <1>5, <2>1, <2>5, <2>6 DEF OrderInv
<1>7. CASE Advance /\ UNCHANGED bench
  <2>1. /\ sig' = sig /\ pending = sig
        /\ "model" \notin ready'
        /\ DOMAIN wake' = DOMAIN wake
    BY <1>7 DEF Advance, Sleeping, OrderInv
  <2>2. Settled
    BY <1>1, <1>2, <2>1 DEF PortInv, Written, Due
  <2>3. PortInv' /\ Settled'
    BY <1>1, <1>2, <2>1, <2>2, Quiet
  <2>4. SourceInv'
    BY <1>1, <1>2, <2>1, <2>3 DEF SourceInv
  <2> QED BY <1>1, <1>5, <2>1, <2>3, <2>4 DEF OrderInv
<1> QED BY <1>6, <1>7 DEF KernelStep

LEMMA StutterOrder == OrderInv /\ UNCHANGED vars => OrderInv'
<1> SUFFICES ASSUME OrderInv, UNCHANGED vars PROVE OrderInv'
  OBVIOUS
<1>1. PortInv' /\ (Settled => Settled')
  BY Quiet DEF OrderInv, vars, kernel
<1>2. \A n : Rank(n)' = Rank(n)
  BY ExecutedSame DEF vars
<1> QED BY <1>1, <1>2 DEF OrderInv, SourceInv, JudgeInv, vars, kernel

-----------------------------------------------------------------------------
(* The pace of the flex testbenches                                         *)

Flex == OrderInv /\ kind = "flex" /\ PaceInv /\ LookInv

\* A step that is no turn of a thread leaves the pace as it is.
LEMMA SamePace ==
  ASSUME PaceInv, UNCHANGED <<spc, rpc, wake>>,
         SourceReady' <=> SourceReady, RunReady' <=> RunReady
  PROVE  PaceInv'
BY DEF PaceInv, SourceWait, RunWait

LEMMA PaceSource == Flex /\ SourceStep => PaceInv'
<1> SUFFICES ASSUME Flex, SourceStep PROVE PaceInv'
  OBVIOUS
<1>1. /\ SourceReady /\ UNCHANGED rpc
      /\ RunReady' <=> RunReady
      /\ DOMAIN wake = {"source", "run"}
  BY DEF Flex, OrderInv, SourceStep, Reset, Issue, SourceEnd, Turn, Wait, Return, Continue,
         SourceReady, RunReady
<1>2. CASE Reset
  <2>1. /\ ~SourceReady' /\ spc = "reset" /\ spc' = "issue"
        /\ wake'["source"] = 20 /\ wake'["run"] = wake["run"]
    BY <1>1, <1>2 DEF Flex, Reset, Delay, Wait, SourceReady
  <2> QED BY <1>1, <2>1 DEF Flex, PaceInv, SourceWait, RunWait
<1>3. CASE Issue
  <2>1. /\ ~SourceReady' /\ spc = "issue" /\ spc' = "issue"
        /\ wake'["source"] = 10 /\ wake'["run"] = wake["run"]
    BY <1>1, <1>3 DEF Flex, Issue, Wait, SourceReady
  <2> QED BY <1>1, <2>1 DEF Flex, PaceInv, SourceWait, RunWait
<1>4. CASE SourceEnd
  <2>1. ~SourceReady' /\ spc' = "end" /\ UNCHANGED wake
    BY <1>4 DEF SourceEnd, Return, SourceReady
  <2> QED BY <1>1, <2>1 DEF Flex, PaceInv
<1> QED BY <1>2, <1>3, <1>4 DEF SourceStep

LEMMA PaceRun == Flex /\ RunStep => PaceInv'
<1> SUFFICES ASSUME Flex, RunStep PROVE PaceInv'
  OBVIOUS
<1>1. /\ RunReady /\ UNCHANGED spc
      /\ SourceReady' <=> SourceReady
      /\ DOMAIN wake = {"source", "run"}
  BY DEF Flex, OrderInv, RunStep, RunStart, Poll, Compare, ScStop, Turn, Wait, Return,
         Continue, SourceReady, RunReady
<1>2. CASE RunStart
  <2>1. /\ ~RunReady' /\ rpc = "start" /\ rpc' = "poll"
        /\ wake'["run"] = 20 /\ wake'["source"] = wake["source"]
    BY <1>1, <1>2 DEF Flex, RunStart, Delay, Wait, RunReady
  <2> QED BY <1>1, <2>1 DEF Flex, PaceInv, SourceWait, RunWait
<1>3. CASE Poll
  <2>1. /\ ~RunReady' /\ rpc = "poll" /\ rpc' \in {"poll", "compare"}
        /\ wake'["run"] = 10 /\ wake'["source"] = wake["source"]
    BY <1>1, <1>3 DEF Flex, Poll, Delay, Wait, RunReady
  <2> QED BY <1>1, <2>1 DEF Flex, PaceInv, SourceWait, RunWait
<1>4. CASE Compare \/ ScStop
  <2>1. ~RunReady' /\ rpc' \in {"stop", "end"} /\ wake'["source"] = wake["source"]
    BY <1>1, <1>4 DEF Flex, Compare, ScStop, Delay, Wait, Return, RunReady
  <2> QED BY <1>1, <2>1 DEF Flex, PaceInv
<1> QED BY <1>2, <1>3, <1>4 DEF RunStep

\* When time advances while run waits for the marker, both threads wake up, or
\* run alone if Source has ended.
LEMMA PaceAdvance ==
  ASSUME Flex, Advance, UNCHANGED <<spc, rpc>>
  PROVE  /\ PaceInv'
         /\ ~SourceReady /\ ~RunReady
         /\ rpc \in {"poll", "compare"} /\ spc # "end" => SourceReady' /\ RunReady'
         /\ rpc \in {"poll", "compare"} /\ spc = "end" => ~SourceReady'
<1> DEFINE waits == {wake[p] : p \in Sleeping}
           dt    == Min(waits)
<1>1. /\ ready = {} /\ DOMAIN wake = {"source", "run"}
      /\ wake' = [p \in DOMAIN wake |-> IF p \in Sleeping THEN wake[p] - dt ELSE 0]
      /\ ready' = {p \in Sleeping : wake[p] = dt}
  BY DEF Advance, Flex, OrderInv
<1>2. ~SourceReady /\ ~RunReady /\ spc # "reset" /\ rpc # "start"
  BY <1>1 DEF SourceReady, RunReady, Flex, PaceInv
<1>3. /\ SourceReady' <=> "source" \in Sleeping /\ wake["source"] = dt
      /\ RunReady' <=> "run" \in Sleeping /\ wake["run"] = dt
  BY <1>1 DEF SourceReady, RunReady
<1>4. spc = "end" /\ rpc \in {"poll", "compare"} => wake["source"] = 0 /\ "source" \notin Sleeping
  BY DEF Flex, PaceInv, Sleeping
<1>5. CASE rpc \in {"poll", "compare"} /\ spc # "end"
  <2>1. wake["source"] = wake["run"] /\ wake["run"] \in {10, 20}
    BY <1>2, <1>5 DEF Flex, PaceInv
  <2>2. Sleeping = {"source", "run"}
    BY <1>1, <2>1 DEF Sleeping
  <2>3. waits = {wake["run"]}
    BY <2>1, <2>2
  <2>4. dt = wake["run"]
    BY <2>1, <2>3 DEF Min
  <2> HIDE DEF dt
  <2>5. SourceReady' /\ RunReady' /\ wake'["source"] = 0 /\ wake'["run"] = 0
    BY <1>1, <1>3, <2>1, <2>2, <2>4
  <2> QED BY <1>2, <1>5, <2>5 DEF Flex, PaceInv
<1>6. CASE ~(rpc \in {"poll", "compare"} /\ spc # "end")
  <2> HIDE DEF dt
  <2>1. wake["source"] = 0 => ~SourceReady' /\ wake'["source"] = 0
    BY <1>1, <1>3 DEF Sleeping
  <2> QED BY <1>2, <1>4, <1>6, <2>1 DEF Flex, PaceInv
<1> QED BY <1>2, <1>4, <1>5, <1>6

LEMMA PaceKernel == Flex /\ KernelStep => PaceInv'
<1> SUFFICES ASSUME Flex, KernelStep PROVE PaceInv'
  OBVIOUS
<1>1. CASE Update(Sensitive)
  <2>1. UNCHANGED <<spc, rpc, wake>> /\ ready = {} /\ ready' \subseteq {"model"}
    BY <1>1 DEF KernelStep, Update, Sensitive, bench, Advance
  <2> QED BY <2>1, SamePace DEF Flex, SourceReady, RunReady
<1>2. CASE Advance
  BY <1>2, PaceAdvance DEF KernelStep, bench
<1> QED BY <1>1, <1>2 DEF KernelStep

-----------------------------------------------------------------------------
(* What run finds when it looks                                             *)

\* The last command executed.
LEMMA LastExecuted ==
  ASSUME NEW n \in Nat, Executed(n), NEW S, executed \in Seq(S)
  PROVE  /\ n = 0 => executed = << >>
         /\ n > 0 => executed # << >> /\ Last(executed) = prog[n]
<1>1. Len(executed) = Rank(n) /\ \A i \in 1 .. n : executed[Rank(i)] = prog[i]
  BY DEF Executed
<1>2. CASE n = 0
  <2>1. Rank(0) = 0
    BY FS_EmptySet DEF Seen, Rank
  <2>2. Len(executed) = 0
    BY <1>1, <1>2, <2>1
  <2> QED BY <1>2, <2>2
<1>3. CASE n > 0
  <2> DEFINE r == Rank(n)
  <2>1. r \in Nat \ {0} /\ Len(executed) = r /\ executed[r] = prog[n]
    BY <1>1, <1>3, RankBounds
  <2> HIDE DEF r
  <2> QED BY <1>3, <2>1 DEF Last
<1> QED BY <1>2, <1>3

LEMMA SameProgram ==
  ASSUME UNCHANGED <<kind, prog>>
  PROVE  /\ \A n : NoStop(n)' <=> NoStop(n)
         /\ \A n : FirstStop(n)' <=> FirstStop(n)
         /\ judged' = judged => (VerdictIsDeterministic' <=> VerdictIsDeterministic)
<1>1. StopAt' = StopAt /\ \A n : NoStop(n)' <=> NoStop(n)
  BY Zenon DEF StopAt, NoStop
<1>2. \A n : FirstStop(n)' <=> FirstStop(n)
  BY <1>1, Zenon DEF FirstStop
<1>3. JudgedPart' = JudgedPart /\ \A n : Rank(n)' = Rank(n)
  BY <1>1, Zenon DEF JudgedPart, Rank, Seen
<1> QED BY <1>1, <1>2, <1>3, Zenon DEF VerdictIsDeterministic

LEMMA LookSource == Flex /\ SourceStep => LookInv'
<1> SUFFICES ASSUME Flex, SourceStep PROVE LookInv'
  OBVIOUS
<1>1. /\ UNCHANGED <<kind, prog, sig, executed, judged, rpc>>
      /\ SourceReady
      /\ RunReady' <=> RunReady
      /\ "model" \in ready' <=> "model" \in ready
  BY DEF SourceStep, Reset, Issue, SourceEnd, Turn, Wait, Return, Continue,
         SourceReady, RunReady
<1>2. Settled /\ sent \in 0 .. Len(prog) /\ Len(prog) \in Nat /\ Visible = sent
  BY <1>1, ProgFacts DEF Flex, OrderInv, SourceInv, PortInv, SourceReady, Visible
<1>3. \A n : Executed(n)' <=> Executed(n)
  BY <1>1, ExecutedSame
<1>4. /\ \A n : (NoStop(n)' <=> NoStop(n)) /\ (FirstStop(n)' <=> FirstStop(n))
      /\ VerdictIsDeterministic'
  BY <1>1, SameProgram DEF Flex, LookInv
<1>5. CASE Reset
  <2>1. /\ spc = "reset" /\ sent = 0 /\ sent' = 0 /\ spc' = "issue" /\ ~SourceReady'
    BY <1>1, <1>5 DEF Reset, Flex, OrderInv, SourceInv, Delay, Wait, SourceReady
  <2>2. RunReady => rpc \notin {"poll", "compare"}
    BY <1>1, <2>1 DEF Flex, PaceInv
  <2>3. rpc # "compare"
    <3> SUFFICES ASSUME rpc = "compare" PROVE FALSE
      OBVIOUS
    <3>1. 0 \in DOMAIN prog
      BY <1>2, <2>1, <2>2 DEF Flex, LookInv, FirstStop, StopAt
    <3> QED BY <1>2, <3>1, ProgFacts DEF Flex, OrderInv
  <2>4. Visible' = -1
    BY <2>1 DEF Visible
  <2>5. NoStop(Visible')
    BY <2>4 DEF NoStop
  <2> QED BY <1>1, <1>4, <2>1, <2>2, <2>3, <2>5 DEF Flex, LookInv
<1>6. CASE Issue \/ SourceEnd
  <2>1. Visible' = sent /\ rpc # "start"
    <3>1. spc = "issue"
      BY <1>6 DEF Issue, SourceEnd
    <3>2. rpc # "start"
      BY <1>1, <3>1 DEF Flex, PaceInv
    <3>3. CASE Issue
      <4>1. sent' = sent + 1 /\ spc' = "issue" /\ ~SourceReady'
        BY <1>1, <3>1, <3>3 DEF Issue, Wait, SourceReady
      <4>2. Visible' = sent' - 1
        BY <4>1 DEF Visible
      <4> QED BY <1>2, <3>2, <4>1, <4>2
    <3>4. CASE SourceEnd
      <4>1. sent' = sent /\ spc' = "end"
        BY <3>4 DEF SourceEnd
      <4> QED BY <3>2, <4>1 DEF Visible
    <3> QED BY <1>6, <3>3, <3>4
  <2>2. Visible' = Visible /\ Executed(Visible)'
    BY <1>2, <1>3, <2>1 DEF Settled
  <2>3. Visible' \in 0 .. Len(prog)
    BY <1>2, <2>1
  <2>4. spc # "end"
    BY <1>6 DEF Issue, SourceEnd
  <2> QED BY <1>1, <1>3, <1>4, <2>1, <2>2, <2>3, <2>4 DEF Flex, LookInv
<1> QED BY <1>5, <1>6 DEF SourceStep

LEMMA LookExecute == Flex /\ Execute => LookInv'
<1> SUFFICES ASSUME Flex, Execute PROVE LookInv'
  OBVIOUS
<1>1. /\ UNCHANGED <<kind, prog, sig, sent, judged, rpc, spc>>
      /\ SourceReady' <=> SourceReady
      /\ RunReady' <=> RunReady
      /\ "model" \notin ready'
      /\ RunReady => UNCHANGED executed
  BY DEF Execute, Turn, Return, SourceReady, RunReady, Flex, LookInv
<1>2. RunReady => \A n : Executed(n)' <=> Executed(n)
  BY <1>1, ExecutedSame
<1>3. /\ \A n : (NoStop(n)' <=> NoStop(n)) /\ (FirstStop(n)' <=> FirstStop(n))
      /\ VerdictIsDeterministic'
  BY <1>1, SameProgram DEF Flex, LookInv
<1>4. Visible' = Visible
  BY <1>1 DEF Visible
<1> QED BY <1>1, <1>2, <1>3, <1>4 DEF Flex, LookInv

\* The least element of a set of integers.
LEMMA LeastIs ==
  ASSUME NEW S \in SUBSET Int, NEW q \in S, \A y \in S : q <= y
  PROVE  Min(S) = q
<1>1. \A x \in S : (\A y \in S : x <= y) => x = q
  OBVIOUS
<1> QED BY <1>1 DEF Min

\* Comparing one command after the first 0xdeaddead, or at the end, is comparing
\* the part that the verdict is about.
LEMMA Judgement ==
  ASSUME OrderInv, kind = "flex", NEW q \in Int, FirstStop(q), NEW n \in Int,
         \/ n = q + 1 /\ n <= Len(prog)
         \/ n = q /\ n = Len(prog)
  PROVE  StopAt # {} /\ JudgedPart = n
<1>1. Len(prog) \in Nat /\ DOMAIN prog = 1 .. Len(prog)
  BY ProgFacts DEF OrderInv
<1>2. q \in StopAt /\ \A j \in 1 .. q - 1 : prog[j] # Stop
  BY DEF FirstStop, NoStop
<1>3. \A i \in StopAt : i \in Int /\ i >= 1 /\ prog[i] = Stop
  BY ONLY <1>1 DEF StopAt
<1>4. ASSUME NEW i \in StopAt PROVE q <= i
  BY ONLY <1>2, <1>3, q \in Int, i \in StopAt
<1>5. Min(StopAt) = q
  BY <1>2, <1>3, <1>4, LeastIs
<1>6. JudgedPart = Min({Len(prog), q + 1})
  BY <1>5 DEF JudgedPart
<1>7. ASSUME NEW l \in Int, (n = q + 1 /\ n <= l) \/ (n = q /\ n = l)
      PROVE  Min({l, q + 1}) = n
  <2>1. {l, q + 1} \in SUBSET Int /\ n \in {l, q + 1} /\ \A y \in {l, q + 1} : n <= y
    BY ONLY <1>7, q \in Int, n \in Int
  <2> QED BY ONLY <2>1, LeastIs
<1>8. Min({Len(prog), q + 1}) = n
  <2> DEFINE l == Len(prog)
  <2>1. l \in Int
    BY ONLY <1>1
  <2>2. (n = q + 1 /\ n <= l) \/ (n = q /\ n = l)
    BY Zenon
  <2> HIDE DEF l
  <2>3. Min({l, q + 1}) = n
    BY <1>7, <2>1, <2>2, Zenon
  <2> QED BY <2>3, Zenon DEF l
<1> QED BY <1>2, <1>6, <1>8

LEMMA LookRun == Flex /\ RunStep => LookInv'
<1> SUFFICES ASSUME Flex, RunStep PROVE LookInv'
  OBVIOUS
<1>1. /\ UNCHANGED <<kind, prog, sig, executed, sent, spc>>
      /\ RunReady
      /\ SourceReady' <=> SourceReady
  BY DEF RunStep, RunStart, Poll, Compare, ScStop, Turn, Wait, Return, Continue,
         SourceReady, RunReady
<1>2. \A n : (NoStop(n)' <=> NoStop(n)) /\ (FirstStop(n)' <=> FirstStop(n))
  BY <1>1, SameProgram
<1>3. Visible' = Visible /\ executed \in Seq(Commands)
  BY <1>1 DEF Visible, Flex, OrderInv, PortInv
<1>4. judged' = judged => VerdictIsDeterministic'
  BY <1>1, SameProgram DEF Flex, LookInv
<1>5. CASE RunStart
  <2>1. sent = 0 /\ rpc' = "poll" /\ ~RunReady' /\ judged' = judged
    BY <1>5 DEF RunStart, Flex, LookInv, Delay, Wait, RunReady
  <2>2. NoStop(Visible)
    <3>1. Visible \in {0, -1}
      BY <2>1 DEF Visible
    <3> QED BY <3>1 DEF NoStop
  <2> QED BY <1>2, <1>3, <1>4, <2>1, <2>2 DEF LookInv
<1>6. CASE Poll
  <2>1. /\ rpc = "poll" /\ ~RunReady' /\ judged' = judged
        /\ rpc' = IF EndSeen THEN "compare" ELSE "poll"
    BY <1>6 DEF Poll, Flex, Wait, RunReady
  <2>2. Visible \in 0 .. Len(prog) /\ Executed(Visible) /\ NoStop(Visible - 1)
    BY <1>1, <2>1 DEF Flex, LookInv
  <2> DEFINE v == Visible
  <2>3. v \in 0 .. Len(prog) /\ Executed(v) /\ NoStop(v - 1)
    BY <2>2
  <2>4. EndSeen <=> executed # << >> /\ Last(executed) = Stop
    BY DEF EndSeen, Flex
  <2>5. DOMAIN prog = 1 .. Len(prog) /\ Len(prog) \in Nat
    BY ProgFacts DEF Flex, OrderInv
  <2> HIDE DEF v
  <2>6. EndSeen => FirstStop(v)
    BY <1>3, <2>3, <2>4, <2>5, LastExecuted DEF FirstStop, StopAt
  <2>7. ~EndSeen => NoStop(v)
    BY <1>3, <2>3, <2>4, <2>5, LastExecuted DEF NoStop
  <2>8. (EndSeen => FirstStop(Visible)) /\ (~EndSeen => NoStop(Visible))
    BY <2>6, <2>7 DEF v
  <2> QED BY <1>2, <1>3, <1>4, <2>1, <2>8 DEF LookInv
<1>7. CASE Compare
  <2>1. rpc = "compare" /\ rpc' = "stop" /\ judged' = Len(executed) /\ ~RunReady'
    BY <1>7 DEF Compare, Flex, Delay, Wait, RunReady
  <2>2. /\ Visible \in 0 .. Len(prog) /\ Executed(Visible)
        /\ FirstStop(Visible - 1) \/ (spc = "end" /\ FirstStop(Visible))
    BY <1>1, <2>1 DEF Flex, LookInv
  <2>3. spc = "end" => Visible = Len(prog)
    BY DEF Visible, Flex, OrderInv, SourceInv
  <2>4. StopAt # {} /\ JudgedPart = Visible
    <3>1. Visible \in Int /\ Visible <= Len(prog) /\ Len(prog) \in Int
      BY <2>2, ProgFacts DEF Flex, OrderInv
    <3>2. CASE FirstStop(Visible - 1)
      <4> DEFINE v == Visible
                 q == v - 1
      <4>1. v \in Int /\ q \in Int /\ v = q + 1 /\ v <= Len(prog) /\ FirstStop(q)
        BY <3>1, <3>2
      <4> HIDE DEF v, q
      <4>2. StopAt # {} /\ JudgedPart = v
        BY <4>1, Judgement DEF Flex
      <4> QED BY <4>2 DEF v
    <3>3. CASE spc = "end" /\ FirstStop(Visible)
      <4>1. StopAt # {} /\ JudgedPart = Visible
        BY <2>3, <3>1, <3>3, Judgement DEF Flex
      <4> QED BY <4>1
    <3> QED BY <2>2, <3>2, <3>3
  <2>5. judged' = Rank(JudgedPart)
    BY <2>1, <2>2, <2>4 DEF Executed
  <2>6. StopAt' = StopAt /\ Rank(JudgedPart)' = Rank(JudgedPart)
    BY <1>1, Zenon DEF StopAt, JudgedPart, Rank, Seen
  <2>7. VerdictIsDeterministic'
    BY <2>4, <2>5, <2>6 DEF VerdictIsDeterministic
  <2> QED BY <2>1, <2>7 DEF LookInv
<1>8. CASE ScStop
  <2>1. rpc' = "end" /\ ~RunReady' /\ judged' = judged
    BY <1>8 DEF ScStop, Return, RunReady
  <2> QED BY <1>4, <2>1 DEF LookInv
<1> QED BY <1>5, <1>6, <1>7, <1>8 DEF RunStep

LEMMA LookKernel == Flex /\ KernelStep => LookInv'
<1> SUFFICES ASSUME Flex, KernelStep PROVE LookInv'
  OBVIOUS
<1>1. UNCHANGED <<kind, prog, executed, sent, spc, rpc, judged>> /\ ready = {}
  BY DEF KernelStep, Update, Advance, bench
<1>2. /\ \A n : (NoStop(n)' <=> NoStop(n)) /\ (FirstStop(n)' <=> FirstStop(n))
      /\ VerdictIsDeterministic'
  BY <1>1, SameProgram DEF Flex, LookInv
<1>3. ~SourceReady /\ ~RunReady /\ rpc # "start"
  BY <1>1 DEF SourceReady, RunReady, Flex, PaceInv
<1>4. CASE Update(Sensitive)
  <2>1. ~SourceReady' /\ ~RunReady'
    BY <1>4 DEF Update, Sensitive, SourceReady, RunReady
  <2>2. Visible' = Visible
    BY <1>1, <1>3, <2>1 DEF Visible
  <2> QED BY <1>1, <1>2, <1>3, <2>1, <2>2 DEF Flex, LookInv
<1>5. CASE Advance /\ UNCHANGED bench
  <2>1. /\ rpc \in {"poll", "compare"} /\ spc # "end" => SourceReady' /\ RunReady'
        /\ rpc \in {"poll", "compare"} /\ spc = "end" => ~SourceReady'
        /\ spc \in {"issue", "end"}
    BY <1>1, <1>3, <1>5, PaceAdvance DEF Flex, PaceInv
  <2>2. "model" \notin ready'
    BY <1>5 DEF Advance, Sleeping, Flex, OrderInv
  <2>3. OrderInv'
    BY KernelOrder DEF Flex
  <2>4. sent \in 0 .. Len(prog) /\ Len(prog) \in Nat
    BY ProgFacts DEF Flex, OrderInv, PortInv
  <2>5. CASE rpc \in {"poll", "compare"} /\ spc = "issue"
    <3>1. SourceReady' /\ RunReady' /\ Visible' = sent /\ Visible = sent - 1
      BY <1>1, <1>3, <2>1, <2>5 DEF Visible
    <3>2. Visible' - 1 = Visible /\ Visible' \in 0 .. Len(prog)
      BY <2>4, <3>1
    <3>3. Executed(Visible)'
      BY <1>1, <2>3, <3>1 DEF OrderInv, SourceInv, SourceReady, Settled
    <3> QED BY <1>1, <1>2, <1>3, <2>2, <2>5, <3>1, <3>2, <3>3 DEF Flex, LookInv
  <2>6. CASE rpc \in {"poll", "compare"} /\ spc = "end"
    <3>1. Visible' = sent /\ Visible = sent
      BY <1>1, <2>6 DEF Visible
    <3>2. Executed(Visible)' /\ Visible' \in 0 .. Len(prog)
      BY <1>1, <2>3, <2>4, <2>6, <3>1 DEF OrderInv, SourceInv, Settled
    <3>3. NoStop(Visible) => NoStop(Visible - 1)
      BY <2>4, <3>1 DEF NoStop
    <3> QED BY <1>1, <1>2, <1>3, <2>2, <2>6, <3>1, <3>2, <3>3 DEF Flex, LookInv
  <2>7. CASE rpc \notin {"poll", "compare"}
    BY <1>1, <1>2, <1>3, <2>2, <2>7 DEF LookInv
  <2> QED BY <2>1, <2>5, <2>6, <2>7
<1> QED BY <1>4, <1>5 DEF KernelStep

-----------------------------------------------------------------------------
(* The theorems                                                             *)

\* The inductive invariant holds of every behaviour, for all programs.
THEOREM Invariance == Spec => []IInv
<1>1. Init => IInv
  <2> SUFFICES ASSUME Init, kind = "flex" PROVE PaceInv /\ LookInv
    BY InitOrder DEF IInv
  <2>1. /\ SourceReady /\ RunReady /\ spc = "reset" /\ rpc = "start"
        /\ wake["source"] = 0 /\ sig.cmd = Zero /\ sent = 0 /\ judged = None
    BY DEF Init, KernelInit, SourceReady, RunReady
  <2> QED BY <2>1 DEF PaceInv, LookInv, VerdictIsDeterministic
<1>2. IInv /\ [Next]_vars => OrderInv'
  BY SourceOrder, ExecuteOrder, RunOrder, KernelOrder, StutterOrder DEF IInv, Next, Terminated
<1>3. Flex /\ [Next]_vars => PaceInv'
  <2>1. Flex /\ (Execute \/ UNCHANGED vars) => PaceInv'
    BY SamePace DEF Flex, Execute, Return, vars, kernel, SourceReady, RunReady
  <2> QED BY <2>1, PaceSource, PaceRun, PaceKernel DEF Next, Terminated
<1>4. Flex /\ [Next]_vars => LookInv'
  <2>1. Flex /\ UNCHANGED vars => LookInv'
    <3> SUFFICES ASSUME Flex, UNCHANGED vars PROVE LookInv'
      OBVIOUS
    <3>1. \A n : /\ NoStop(n)' <=> NoStop(n)
                 /\ FirstStop(n)' <=> FirstStop(n)
                 /\ Executed(n)' <=> Executed(n)
      BY SameProgram, ExecutedSame DEF vars
    <3>2. VerdictIsDeterministic' /\ Visible' = Visible
      BY SameProgram DEF vars, kernel, Visible, SourceReady, Flex, LookInv
    <3> QED BY <3>1, <3>2 DEF Flex, LookInv, RunReady, vars, kernel
  <2> QED BY <2>1, LookSource, LookExecute, LookRun, LookKernel DEF Next, Terminated
<1>5. IInv /\ [Next]_vars => (kind' = "flex" => kind = "flex")
  BY DEF Next, SourceStep, Reset, Issue, SourceEnd, Execute, RunStep, RunStart, Poll,
         Compare, ScStop, KernelStep, Terminated, bench, vars
<1>6. IInv /\ [Next]_vars => IInv'
  BY <1>2, <1>3, <1>4, <1>5 DEF IInv, Flex
<1> QED BY <1>1, <1>6, PTL DEF Spec

\* The model executes the commands of every program in order, none skipped and
\* none twice, but for equal neighbours.
THEOREM InOrder == Spec => []ExecutedInOrder
<1>1. IInv => ExecutedInOrder
  <2> SUFFICES ASSUME IInv PROVE ExecutedInOrder
    OBVIOUS
  <2>1. \E n \in {sent, sent - 1} : Executed(n) /\ n \in 0 .. Len(prog)
    BY ProgFacts DEF IInv, OrderInv, PortInv, Settled, Written, Due
  <2> QED BY <2>1 DEF ExecutedInOrder
<1> QED BY Invariance, <1>1, PTL

\* The comparison sees the whole program, or for flex the part up to one command
\* behind the first 0xdeaddead, in whatever order the threads run.
THEOREM Verdict == Spec => []VerdictIsDeterministic
<1>1. IInv => VerdictIsDeterministic
  BY DEF IInv, OrderInv, JudgeInv, LookInv, VerdictIsDeterministic, JudgedPart
<1> QED BY Invariance, <1>1, PTL
=============================================================================
