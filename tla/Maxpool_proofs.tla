--------------------------- MODULE Maxpool_proofs ---------------------------
(***************************************************************************)
(* The maxpool co-simulation: its thread and its arithmetic, modules       *)
(* MaxpoolBench and MaxpoolLayout, which share nothing but the program.    *)
(*                                                                         *)
(* First, both files are executed in order and compared only when both are *)
(* executed, for every pair of well-formed files and whatever the periods  *)
(* of the polls: the proofs rest on the order in which the kernel lets     *)
(* processes run within one instant, never on the length of a wait.        *)
(*                                                                         *)
(* Then the address arithmetic is right for every shape: the coordinates   *)
(* of an entry in either layout are the quotients and remainders that the  *)
(* code computes, so that the generator is a permutation and the           *)
(* comparison and the address map are its inverses.                        *)
(***************************************************************************)
EXTENDS MaxpoolBench, MaxpoolLayout, FiniteSetTheorems, TLAPS

-----------------------------------------------------------------------------
(* One model                                                                *)

\* What the proofs use of a file.
LEMMA FileFacts ==
  ASSUME IInv, NEW m \in Models
  PROVE  /\ file[m] \in Seq(Lines(m)) /\ Len(file[m]) \in Nat
         /\ DOMAIN file[m] = 1 .. Len(file[m])
         /\ \A i \in 1 .. Len(file[m]) : file[m][i] # Zero /\ file[m][i] \in Lines(m)
<1>1. file[m] \in Seq(Lines(m)) /\ \A i \in DOMAIN file[m] : file[m][i] # Zero
  BY FilesAssumption DEF IInv, Lines
<1>2. Len(file[m]) \in Nat /\ DOMAIN file[m] = 1 .. Len(file[m])
  BY <1>1
<1> QED BY <1>1, <1>2 DEF Lines

\* A step that does not touch a model or its port leaves it where it was.
LEMMA Frame ==
  ASSUME NEW m \in Models, file' = file,
         next'[m] = next[m], executed'[m] = executed[m], sig'[m] = sig[m],
         pending'[m] = pending[m], m \in ready <=> m \in ready'
  PROVE  /\ PortInv(m) => PortInv(m)'
         /\ Settled(m) => Settled(m)'
         /\ More(m)' <=> More(m)
<1>1. Position(m)' = Position(m)
  BY DEF Position
<1>2. \A n : Line(m, n)' = Line(m, n)
  BY Zenon DEF Line
<1>3. \A n : Executed(m, n)' = Executed(m, n)
  BY Zenon DEF Executed, Lines
<1>4. /\ Settled(m)' <=> Settled(m)
      /\ Written(m)' <=> Written(m)
      /\ Due(m)' <=> Due(m)
  BY <1>1, <1>2, <1>3, Zenon DEF Settled, Written, Due
<1>5. More(m)' <=> More(m)
  BY DEF More
<1>6. PortInv(m) => PortInv(m)'
  BY <1>1, <1>2, <1>4, Zenon DEF PortInv
<1> QED BY <1>4, <1>5, <1>6

\* Source may put a line on the ports of a model that has executed the last.
LEMMA PutPort ==
  ASSUME IInv, BothWellFormed, NEW m \in Models, PortInv(m), Settled(m), More(m), Put(m),
         file' = file, executed'[m] = executed[m], sig'[m] = sig[m],
         m \in ready' => m \in ready
  PROVE  PortInv(m)'
<1> DEFINE p == Position(m)
<1>1. p \in Nat /\ next[m] = p + 1 /\ p + 1 <= Len(file[m]) /\ Len(file[m]) \in Nat
  BY FileFacts DEF Position, PortInv, More
<1>2. next'[m] = p + 2 /\ pending'[m] = file[m][p + 1]
  BY <1>1 DEF Put, Write, IInv
<1>3. Position(m)' = p + 1
  BY <1>1, <1>2 DEF Position
<1>4. \A n : Line(m, n)' = Line(m, n)
  BY Zenon DEF Line
<1>5. \A n : Executed(m, n)' = Executed(m, n)
  BY Zenon DEF Executed, Lines
<1>6. sig[m] = Line(m, p) /\ (m \in ready => p = 0) /\ Executed(m, p)
  BY DEF Settled
<1>7. pending'[m] = Line(m, p + 1)
  BY <1>1, <1>2 DEF Line
<1> HIDE DEF p
<1>8. Written(m)'
  <2>1. p + 1 > 0 /\ (p + 1) - 1 = p
    BY <1>1
  <2>2. m \in ready' => p + 1 = 1
    BY <1>6
  <2> QED BY <1>3, <1>4, <1>5, <1>6, <2>1, <2>2 DEF Written
<1>9. next'[m] \in 1 .. Len(file'[m]) + 1
  BY <1>1, <1>2
<1> QED BY <1>3, <1>4, <1>7, <1>8, <1>9 DEF PortInv

\* The model executes what is on its ports, if that is a command.
LEMMA ExecutePort ==
  ASSUME IInv, BothWellFormed, NEW m \in Models, PortInv(m), m \in ready, m \notin ready',
         file' = file, next'[m] = next[m], sig'[m] = sig[m], pending'[m] = pending[m],
         executed'[m] = IF sig[m] = Zero THEN executed[m] ELSE Append(executed[m], sig[m])
  PROVE  /\ PortInv(m)'
         /\ Settled(m) => Settled(m)'
<1> DEFINE p == Position(m)
<1>1. p \in Nat /\ next[m] = p + 1 /\ p <= Len(file[m]) /\ Len(file[m]) \in Nat
  BY FileFacts DEF Position, PortInv
<1>2. Position(m)' = p
  BY DEF Position
<1>3. \A n : Line(m, n)' = Line(m, n)
  BY Zenon DEF Line
<1>4. next'[m] \in 1 .. Len(file'[m]) + 1 /\ pending'[m] = Line(m, p)
  BY DEF PortInv
<1>5. CASE Settled(m)
  <2>1. p = 0 /\ sig[m] = Zero /\ Executed(m, 0)
    BY <1>5 DEF Settled, Line
  <2>2. Executed(m, 0)'
    BY <2>1 DEF Executed, Lines
  <2>3. Settled(m)'
    BY <1>2, <2>1, <2>2 DEF Settled, Line
  <2> QED BY <1>2, <1>3, <1>4, <2>3 DEF PortInv
<1>6. CASE Written(m)
  <2>1. p = 1 /\ sig[m] = Zero /\ Executed(m, 0)
    BY <1>6 DEF Written, Line
  <2>2. Executed(m, 0)'
    BY <2>1 DEF Executed, Lines
  <2>3. Written(m)'
    BY <1>2, <2>1, <2>2 DEF Written, Line
  <2>4. ~Settled(m)
    BY <2>1 DEF Settled
  <2> QED BY <1>2, <1>3, <1>4, <2>3, <2>4 DEF PortInv
<1>7. CASE Due(m)
  <2>1. p > 0 /\ sig[m] = file[m][p] /\ Executed(m, p - 1)
    BY <1>1, <1>7 DEF Due, Line
  <2>2. sig[m] # Zero /\ sig[m] \in Lines(m)
    BY <1>1, <2>1, FileFacts
  <2>3. /\ executed[m] \in Seq(Lines(m)) /\ Len(executed[m]) = p - 1
        /\ \A i \in 1 .. p - 1 : executed[m][i] = file[m][i]
    BY <2>1 DEF Executed
  <2>4. executed'[m] = Append(executed[m], sig[m])
    BY <2>2
  <2>5. /\ executed'[m] \in Seq(Lines(m)) /\ Len(executed'[m]) = p
        /\ \A i \in 1 .. p : executed'[m][i] = file[m][i]
    <3> HIDE DEF p
    <3> QED BY <1>1, <2>1, <2>2, <2>3, <2>4
  <2>6. Executed(m, Position(m))'
    BY <1>2, <2>5 DEF Executed, Lines
  <2>7. Settled(m)'
    BY <1>2, <1>3, <2>1, <2>6, <1>1 DEF Settled, Line
  <2> QED BY <1>2, <1>3, <1>4, <2>7 DEF PortInv
<1> QED BY <1>5, <1>6, <1>7 DEF PortInv

\* Neighbours in a well-formed file differ, and its first line from the reset values.
LEMMA LinesDiffer ==
  ASSUME IInv, BothWellFormed, NEW m \in Models, NEW p \in 1 .. Len(file[m])
  PROVE  Line(m, p - 1) # Line(m, p)
<1>1. Len(file[m]) \in Nat
  BY FileFacts
<1>2. CASE p = 1
  BY <1>1, <1>2, FileFacts DEF Line
<1>3. CASE p > 1
  <2>1. file[m][p] # file[m][p - 1]
    BY <1>1, <1>3 DEF BothWellFormed, WellFormed
  <2> QED BY <1>1, <1>3, <2>1 DEF Line
<1> QED BY <1>1, <1>2, <1>3

\* A pending line differs from what is on the ports, so its arrival makes the
\* model ready.
LEMMA UpdatePort ==
  ASSUME IInv, BothWellFormed, NEW m \in Models, PortInv(m), m \notin ready,
         file' = file, next' = next, executed' = executed, sig' = pending, pending' = pending,
         m \in ready' <=> pending[m] # sig[m]
  PROVE  /\ PortInv(m)'
         /\ Settled(m) => Settled(m)'
<1> DEFINE p == Position(m)
<1>1. p \in Nat /\ p <= Len(file[m]) /\ Len(file[m]) \in Nat
  BY FileFacts DEF Position, PortInv
<1>2. Position(m)' = p
  BY DEF Position
<1>3. \A n : Line(m, n)' = Line(m, n)
  BY Zenon DEF Line
<1>4. \A n : Executed(m, n)' = Executed(m, n)
  BY Zenon DEF Executed, Lines
<1>5. next'[m] \in 1 .. Len(file'[m]) + 1 /\ pending'[m] = Line(m, p) /\ sig'[m] = Line(m, p)
  BY DEF PortInv
<1>6. CASE Settled(m)
  <2>1. sig[m] = Line(m, p) /\ Executed(m, p) /\ pending[m] = Line(m, p)
    BY <1>6 DEF Settled, PortInv
  <2>2. m \notin ready'
    BY <2>1
  <2>3. Settled(m)'
    BY <1>2, <1>3, <1>4, <1>5, <2>1, <2>2, Zenon DEF Settled
  <2> QED BY <1>2, <1>3, <1>5, <2>3, Zenon DEF PortInv
<1>7. CASE Written(m)
  <2>1. p > 0 /\ sig[m] = Line(m, p - 1) /\ Executed(m, p - 1) /\ pending[m] = Line(m, p)
    BY <1>7 DEF Written, PortInv
  <2>2. Line(m, p - 1) # Line(m, p)
    BY <1>1, <2>1, LinesDiffer
  <2>3. m \in ready'
    BY <2>1, <2>2
  <2>4. Due(m)'
    BY <1>2, <1>3, <1>4, <1>5, <2>1, <2>3, Zenon DEF Due
  <2>5. ~Settled(m)
    BY <2>1, <2>2 DEF Settled
  <2> QED BY <1>2, <1>3, <1>5, <2>4, <2>5, Zenon DEF PortInv
<1> QED BY <1>6, <1>7 DEF PortInv, Due

-----------------------------------------------------------------------------
(* The inductive invariant                                                  *)

\* The invariant of well-formed files; its parts are about the last lines.
Inside == (\A m \in Models : PortInv(m)) /\ SourceInv /\ JudgeInv

Domains ==
  /\ file \in Files
  /\ DOMAIN sig = Models /\ DOMAIN pending = Models
  /\ DOMAIN next = Models /\ DOMAIN executed = Models
  /\ DOMAIN wake = {"source", "run"}

\* What is left to show of a step that keeps the file.
LEMMA Inductive ==
  ASSUME IInv, file' = file, Domains', BothWellFormed /\ Inside => Inside'
  PROVE  IInv'
<1>1. BothWellFormed' <=> BothWellFormed
  BY DEF BothWellFormed, WellFormed
<1> QED BY <1>1 DEF IInv, Inside, Domains

LEMMA InitIInv == Init => IInv
<1> SUFFICES ASSUME Init PROVE IInv
  OBVIOUS
<1>1. Domains
  BY DEF Init, KernelInit, Domains, Models
<1>2. \A m \in Models : next[m] = 1 /\ Position(m) = 0 /\ executed[m] = <<>>
                       /\ sig[m] = Zero /\ pending[m] = Zero
  BY DEF Init, KernelInit, Models, Position
<1>3. \A m \in Models : Len(file[m]) \in Nat
  BY <1>1, FilesAssumption DEF Domains
<1>4. ASSUME NEW m \in Models PROVE Settled(m)
  <2>1. executed[m] \in Seq(Lines(m)) /\ Len(executed[m]) = 0
    <3>1. << >> \in Seq(Lines(m)) /\ Len(<< >>) = 0
      OBVIOUS
    <3>2. executed[m] = << >>
      BY <1>2
    <3> QED BY <3>1, <3>2, Zenon
  <2>2. Executed(m, 0)
    BY <2>1 DEF Executed
  <2> QED BY <1>2, <2>2 DEF Settled, Line
<1>5. \A m \in Models : PortInv(m)
  BY <1>2, <1>3, <1>4 DEF PortInv, Line
<1>6. SourceInv
  BY <1>2, <1>4 DEF SourceInv, Models
<1>7. JudgeInv
  BY DEF Init, JudgeInv
<1> QED BY <1>1, <1>5, <1>6, <1>7 DEF IInv, Domains

\* A step that touches no file, port or model keeps what is said of the ports.
LEMMA Quiet ==
  ASSUME IInv, BothWellFormed, Inside, UNCHANGED <<sig, pending, file, next, executed>>,
         \A m \in Models : m \in ready' <=> m \in ready
  PROVE  \A m \in Models :
           /\ PortInv(m)' /\ (Settled(m) => Settled(m)')
           /\ (More(m)' <=> More(m))
BY Frame DEF Inside

\* No step of Source breaks the inductive invariant.
LEMMA SourceIInv == IInv /\ SourceStep => IInv'
<1> SUFFICES ASSUME IInv, SourceStep PROVE IInv'
  OBVIOUS
<1>1. /\ UNCHANGED <<file, sig, executed, judged, rpc>>
      /\ "source" \in ready
      /\ \A m \in Models : m \in ready' <=> m \in ready
  BY DEF SourceStep, Reset, RelayTurn, RelayEof, FlexTurn, FlexEof, Put, Wait, Return,
         Continue, Turn, Models
<1>2. Domains'
  BY DEF SourceStep, Reset, RelayTurn, RelayEof, FlexTurn, FlexEof, Put, Wait, Return,
         Continue, Keep, Write, Write2, IInv, Domains
<1>3. ASSUME BothWellFormed, Inside PROVE Inside'
  <2>1. Settled("flex") /\ (More("relay") => Settled("relay"))
    BY <1>1, <1>3 DEF Inside, SourceInv
  <2>2. \A m \in Models : PortInv(m)
    BY <1>3 DEF Inside
  <2>3. "relay" \in Models /\ "flex" \in Models /\ Models = {"relay", "flex"}
    BY DEF Models
  <2>4. CASE Reset
    <3>1. \A m \in Models : next[m] = 1 /\ pending[m] = Zero
      BY <1>3, <2>2, <2>4 DEF Reset, Inside, SourceInv, PortInv, Position, Line
    <3>2. \A m \in Models : pending'[m] = pending[m]
      BY <2>3, <2>4, <3>1 DEF Reset, Write2, IInv
    <3>3. \A m \in Models : PortInv(m)' /\ (Settled(m) => Settled(m)')
      BY <1>1, <2>2, <2>4, <3>2, Frame DEF Reset
    <3>4. "source" \notin ready' /\ spc' # "reset" /\ UNCHANGED next
      BY <2>4 DEF Reset, Wait
    <3> QED BY <1>1, <1>3, <3>3, <3>4 DEF Inside, SourceInv, JudgeInv
  <2>5. CASE RelayTurn
    <3>1. More("relay") /\ Put("relay") /\ spc' = "flex"
      BY <2>5 DEF RelayTurn
    <3>2. next'["flex"] = next["flex"] /\ pending'["flex"] = pending["flex"]
      BY <3>1 DEF Put, Write, IInv, Models
    <3>3. PortInv("relay")'
      BY <1>1, <1>3, <2>1, <2>2, <2>3, <3>1, PutPort
    <3>4. PortInv("flex")' /\ Settled("flex")'
      BY <1>1, <2>1, <2>2, <2>3, <3>2, Frame
    <3>5. ~More("relay")' \/ "source" \notin ready'
      <4>1. CASE file["relay"][next["relay"]] = End["relay"]
        <5>1. next["relay"] = Len(file["relay"])
          <6>1. next["relay"] \in DOMAIN file["relay"]
            BY <2>2, <2>3, <3>1, FileFacts DEF PortInv, More
          <6> QED BY <1>3, <2>3, <4>1, <6>1 DEF BothWellFormed, WellFormed
        <5>2. next'["relay"] = next["relay"] + 1
          BY <2>3, <3>1 DEF Put, IInv
        <5> QED BY <1>1, <2>3, <5>1, <5>2, FileFacts DEF More
      <4>2. CASE file["relay"][next["relay"]] # End["relay"]
        BY <2>5, <4>2 DEF RelayTurn, Wait
      <4> QED BY <4>1, <4>2
    <3>6. ~(judged \/ rpc = "compare")
      BY <1>3, <2>3, <3>1, FileFacts DEF Inside, JudgeInv, More
    <3> QED BY <1>1, <2>3, <3>1, <3>3, <3>4, <3>5, <3>6 DEF Inside, SourceInv, JudgeInv
  <2>6. CASE FlexTurn
    <3>1. More("flex") /\ Put("flex") /\ spc' = "relay" /\ "source" \notin ready'
      BY <2>6 DEF FlexTurn, Wait
    <3>2. next'["relay"] = next["relay"] /\ pending'["relay"] = pending["relay"]
      BY <3>1 DEF Put, Write, IInv, Models
    <3>3. PortInv("flex")'
      BY <1>1, <1>3, <2>1, <2>2, <2>3, <3>1, PutPort
    <3>4. PortInv("relay")'
      BY <1>1, <2>2, <2>3, <3>2, Frame
    <3>5. ~(judged \/ rpc = "compare")
      BY <1>3, <2>3, <3>1, FileFacts DEF Inside, JudgeInv, More
    <3> QED BY <1>1, <2>3, <3>1, <3>3, <3>4, <3>5 DEF Inside, SourceInv, JudgeInv
  <2>7. CASE RelayEof \/ FlexEof
    <3>1. UNCHANGED <<pending, next>> /\ spc' # "reset"
      BY <2>7 DEF RelayEof, FlexEof, Keep
    <3>2. \A m \in Models : /\ PortInv(m)' /\ (Settled(m) => Settled(m)')
                           /\ (More(m)' <=> More(m))
      BY <1>1, <1>3, <3>1, Quiet
    <3> QED BY <1>1, <1>3, <2>1, <2>3, <3>1, <3>2 DEF Inside, SourceInv, JudgeInv
  <2> QED BY <2>4, <2>5, <2>6, <2>7 DEF SourceStep
<1> QED BY <1>1, <1>2, <1>3, Inductive

\* A model that executes its line leaves the other one alone.
LEMMA ExecuteIInv == ASSUME NEW m \in Models PROVE IInv /\ Execute(m) => IInv'
<1> SUFFICES ASSUME IInv, Execute(m) PROVE IInv'
  OBVIOUS
<1>1. /\ UNCHANGED <<file, sig, pending, next, judged, rpc, spc>>
      /\ ready' = ready \ {m} /\ m \in ready
      /\ executed'[m] = IF sig[m] = Zero THEN executed[m] ELSE Append(executed[m], sig[m])
      /\ \A k \in Models \ {m} : executed'[k] = executed[k]
  BY DEF Execute, Turn, Keep, Return, IInv
<1>2. Domains'
  BY DEF Execute, Keep, Return, IInv, Domains
<1>3. ASSUME BothWellFormed, Inside PROVE Inside'
  <2>1. PortInv(m)' /\ (Settled(m) => Settled(m)')
    BY <1>1, <1>3, ExecutePort DEF Inside
  <2>2. \A k \in Models \ {m} : PortInv(k)' /\ (Settled(k) => Settled(k)')
    BY <1>1, <1>3, Frame DEF Inside
  <2>3. \A k \in Models : PortInv(k)' /\ (Settled(k) => Settled(k)')
    BY <2>1, <2>2
  <2>4. "source" \in ready' => "source" \in ready
    BY <1>1
  <2>5. \A k : More(k)' <=> More(k)
    BY <1>1, Zenon DEF More
  <2>6. "relay" \in Models /\ "flex" \in Models
    BY DEF Models
  <2> QED BY <1>1, <1>3, <2>3, <2>4, <2>5, <2>6 DEF Inside, SourceInv, JudgeInv
<1> QED BY <1>1, <1>2, <1>3, Inductive

\* No step of run breaks the inductive invariant: it finds both markers only when
\* both models have executed their last line.
LEMMA RunIInv == IInv /\ RunStep => IInv'
<1> SUFFICES ASSUME IInv, RunStep PROVE IInv'
  OBVIOUS
<1>1. /\ UNCHANGED <<file, sig, pending, next, executed, spc>>
      /\ ready' \subseteq ready
      /\ \A m \in Models : m \in ready' <=> m \in ready
  BY DEF RunStep, RunStart, Poll, Compare, ScStop, Turn, Keep, Wait, Return, Models
<1>2. Domains'
  BY DEF RunStep, RunStart, Poll, Compare, ScStop, Keep, Wait, Return, IInv, Domains
<1>3. ASSUME BothWellFormed, Inside PROVE Inside'
  <2>1. \A m \in Models : /\ PortInv(m)' /\ (Settled(m) => Settled(m)')
                         /\ (More(m)' <=> More(m))
    BY <1>1, <1>3, Quiet
  <2>2. ASSUME NEW m \in Models, AtEnd(m) PROVE next[m] = Len(file[m]) + 1 /\ Settled(m)
    <3> DEFINE n == Len(executed[m])
    <3>1. /\ n \in Nat /\ n > 0 /\ executed[m][n] = End[m]
          /\ Executed(m, n) /\ n \in {Position(m), Position(m) - 1}
          /\ n = Position(m) => Settled(m)
      <4>1. executed[m] \in Seq(Lines(m)) /\ Executed(m, n)
            /\ n \in {Position(m), Position(m) - 1}
            /\ (n = Position(m) => Settled(m))
        BY <1>3, FileFacts
           DEF Inside, PortInv, Settled, Written, Due, Executed, Position
      <4>2. executed[m] # <<>> /\ executed[m][n] = End[m]
        BY <2>2 DEF AtEnd, Last
      <4> QED BY <4>1, <4>2
    <3>2. next[m] \in 1 .. Len(file[m]) + 1 /\ Len(file[m]) \in Nat
      BY <1>3, FileFacts DEF Inside, PortInv
    <3>3. file[m][n] = End[m] /\ n \in DOMAIN file[m]
      <4> HIDE DEF n
      <4> QED BY <3>1, <3>2, FileFacts DEF Executed, Position
    <3>4. n = Len(file[m])
      BY <1>3, <3>3 DEF BothWellFormed, WellFormed
    <3> HIDE DEF n
    <3> QED BY <3>1, <3>2, <3>4 DEF Position
  <2>3. JudgeInv'
    <3>1. judged' \/ rpc' = "compare" =>
            \A m \in Models : next[m] = Len(file[m]) + 1 /\ Settled(m)
      <4>1. CASE Poll
        BY <1>3, <2>2, <4>1 DEF Poll, BothEnd, Inside, JudgeInv, Models
      <4>2. CASE RunStart \/ Compare \/ ScStop
        BY <1>3, <4>2 DEF RunStart, Compare, ScStop, Inside, JudgeInv
      <4> QED BY <4>1, <4>2 DEF RunStep
    <3> QED BY <1>1, <2>1, <3>1 DEF JudgeInv
  <2>4. SourceInv'
    <3>1. "relay" \in Models /\ "flex" \in Models
      BY DEF Models
    <3> QED BY <1>1, <1>3, <2>1, <3>1 DEF Inside, SourceInv
  <2> QED BY <2>1, <2>3, <2>4 DEF Inside
<1> QED BY <1>1, <1>2, <1>3, Inductive

\* A new delta cycle brings pending lines to the models, a new instant threads,
\* and the latter only when nothing is pending or due.
LEMMA KernelIInv == IInv /\ KernelStep => IInv'
<1> SUFFICES ASSUME IInv, KernelStep PROVE IInv'
  OBVIOUS
<1>1. UNCHANGED <<file, next, executed, judged, rpc, spc, pending>> /\ ready = {}
  BY DEF KernelStep, Update, Advance
<1>2. CASE Update(Sensitive)
  <2>1. /\ sig' = pending /\ UNCHANGED wake
        /\ ready' = {m \in Models : pending[m] # sig[m]}
    BY <1>2 DEF Update, Sensitive
  <2>2. Domains'
    BY <1>1, <2>1 DEF IInv, Domains
  <2>3. ASSUME BothWellFormed, Inside PROVE Inside'
    <3>1. \A m \in Models : PortInv(m)' /\ (Settled(m) => Settled(m)')
      BY <1>1, <2>1, <2>3, UpdatePort DEF Inside
    <3>2. "source" \notin ready'
      BY <2>1 DEF Models
    <3> QED BY <1>1, <2>3, <3>1, <3>2 DEF Inside, SourceInv, JudgeInv
  <2> QED BY <1>1, <2>2, <2>3, Inductive
<1>3. CASE Advance /\ UNCHANGED <<file, next, spc, record, rpc, executed, judged>>
  <2>1. /\ sig' = sig /\ pending = sig
        /\ ready' \subseteq {"source", "run"}
        /\ DOMAIN wake' = DOMAIN wake
    BY <1>3 DEF Advance, Sleeping, IInv
  <2>2. Domains'
    BY <1>1, <2>1 DEF IInv, Domains
  <2>3. ASSUME BothWellFormed, Inside PROVE Inside'
    <3>1. \A m \in Models : m \notin ready /\ m \notin ready'
      BY <1>1, <2>1 DEF Models
    <3>2. \A m \in Models : /\ PortInv(m)' /\ (Settled(m) => Settled(m)')
                           /\ (More(m)' <=> More(m))
      BY <1>1, <2>1, <2>3, <3>1, Quiet
    <3>3. \A m \in Models : Settled(m)
      <4> SUFFICES ASSUME NEW m \in Models, ~Settled(m) PROVE FALSE
        OBVIOUS
      <4>1. Written(m) /\ sig[m] = Line(m, Position(m))
        BY <2>1, <2>3, <3>1 DEF Inside, PortInv, Due
      <4>2. Position(m) > 0 /\ Position(m) <= Len(file[m]) /\ Position(m) \in Nat
            /\ Line(m, Position(m) - 1) = Line(m, Position(m))
        BY <2>3, <4>1, FileFacts DEF Written, Inside, PortInv, Position
      <4> QED BY <2>3, <4>2, LinesDiffer
    <3>4. "relay" \in Models /\ "flex" \in Models
      BY DEF Models
    <3> QED BY <1>1, <2>3, <3>2, <3>3, <3>4 DEF Inside, SourceInv, JudgeInv
  <2> QED BY <1>1, <2>2, <2>3, Inductive
<1> QED BY <1>2, <1>3 DEF KernelStep

LEMMA StutterIInv == IInv /\ UNCHANGED vars => IInv'
<1> SUFFICES ASSUME IInv, UNCHANGED vars PROVE IInv'
  OBVIOUS
<1>1. Domains'
  BY DEF vars, kernel, IInv, Domains
<1>2. ASSUME BothWellFormed, Inside PROVE Inside'
  <2>1. \A m \in Models : /\ PortInv(m)' /\ (Settled(m) => Settled(m)')
                         /\ (More(m)' <=> More(m))
    BY <1>2, Quiet DEF vars, kernel
  <2>2. "relay" \in Models /\ "flex" \in Models
    BY DEF Models
  <2> QED BY <1>2, <2>1, <2>2 DEF Inside, SourceInv, JudgeInv, vars, kernel
<1> QED BY <1>1, <1>2, Inductive DEF vars

-----------------------------------------------------------------------------
(* The theorems                                                             *)

\* The inductive invariant holds of every behaviour, for all files and periods.
THEOREM Invariance == Spec => []IInv
<1>1. IInv /\ [Next]_vars => IInv'
  BY SourceIInv, ExecuteIInv, RunIInv, KernelIInv, StutterIInv DEF Next, Terminated
<1> QED BY InitIInv, <1>1, PTL DEF Spec

\* Both models execute a prefix of their files, in order and without a gap.
THEOREM InOrder == Spec => []ExecutedInOrder
<1>1. IInv => ExecutedInOrder
  <2> SUFFICES ASSUME IInv, BothWellFormed, NEW m \in Models
               PROVE  IsPrefix(executed[m], file[m])
    BY DEF ExecutedInOrder
  <2>1. PICK n \in {Position(m), Position(m) - 1} :
          Executed(m, n) /\ n \in Nat /\ n <= Len(file[m])
    BY FileFacts DEF IInv, PortInv, Settled, Written, Due, Position
  <2>2. /\ executed[m] \in Seq(Lines(m)) /\ Len(executed[m]) = n
        /\ \A i \in 1 .. n : executed[m][i] = file[m][i]
    BY <2>1 DEF Executed
  <2>3. file[m] \in Seq(Lines(m)) /\ Len(file[m]) \in Nat
    BY FileFacts
  <2>4. SubSeq(executed[m], 1, n) = SubSeq(file[m], 1, n)
    BY <2>1, <2>2, <2>3
  <2> QED BY <2>1, <2>2, <2>4 DEF IsPrefix
<1> QED BY Invariance, <1>1, PTL

\* The comparison sees both files completely executed.
THEOREM Complete == Spec => []JudgedComplete
<1>1. IInv => JudgedComplete
  <2> SUFFICES ASSUME IInv, BothWellFormed, judged, NEW m \in Models
               PROVE  executed[m] = file[m]
    BY DEF JudgedComplete
  <2>1. Position(m) = Len(file[m]) /\ Executed(m, Position(m))
    BY FileFacts DEF IInv, JudgeInv, Settled, Position
  <2>2. /\ executed[m] \in Seq(Lines(m)) /\ Len(executed[m]) = Len(file[m])
        /\ \A i \in 1 .. Len(file[m]) : executed[m][i] = file[m][i]
    BY <2>1 DEF Executed
  <2> QED BY <2>2, FileFacts
<1> QED BY Invariance, <1>1, PTL

-----------------------------------------------------------------------------
(* Quotients and remainders                                                 *)

LEMMA DivMod ==
  ASSUME NEW d \in Nat \ {0}, NEW a \in Nat
  PROVE  a \div d \in Nat /\ a % d \in 0 .. d - 1 /\ a = d * (a \div d) + (a % d)
  OBVIOUS

\* A number that is so many times d and a rest smaller than d has just these
\* quotient and remainder.
LEMMA Quotient ==
  ASSUME NEW d \in Nat \ {0}, NEW q \in Nat, NEW r \in 0 .. d - 1
  PROVE  (d * q + r) \div d = q /\ (d * q + r) % d = r
<1> DEFINE a == d * q + r
           p == a \div d
           s == a % d
<1>1. a \in Nat /\ d \in Nat \ {0}
  OBVIOUS
<1>2. p \in Nat /\ s \in 0 .. d - 1 /\ a = d * p + s
  <2> HIDE DEF a
  <2> QED BY <1>1, DivMod
<1>3. d * (p - q) = r - s /\ p - q \in Int
  <2> HIDE DEF p, s
  <2> QED BY <1>2
<1> DEFINE k == p - q
<1>4. -d < d * k /\ d * k < d /\ k \in Int
  <2> HIDE DEF p, s
  <2> QED BY <1>2, <1>3
<1>5. k = 0
  <2> HIDE DEF k
  <2>1. ~(k >= 1)
    BY <1>4
  <2>2. ~(k <= -1)
    BY <1>4
  <2> QED BY <1>4, <2>1, <2>2
<1>6. p = q /\ s = r
  <2> HIDE DEF p, s
  <2>1. p = q
    BY <1>2, <1>5
  <2>2. d * (p - q) = 0
    BY <1>5
  <2> QED BY <1>2, <1>3, <2>1, <2>2
<1> QED BY <1>6

-----------------------------------------------------------------------------
(* Coordinates: g counts groups of 16 timesteps, x the timesteps of a group,*)
(* y the vectors of a timestep                                              *)

\* The entry of FlexNLP with given coordinates.
FlexEntry(g, y, x) == ((16 * V) * g) + ((16 * y) + x)

\* The coordinates of an entry of FlexNLP: the code takes them apart correctly.
LEMMA FlexCoordinates ==
  ASSUME V \in Nat \ {0}, NEW g \in Nat, NEW y \in 0 .. V - 1, NEW x \in 0 .. 15,
         NEW n, n = FlexEntry(g, y, x)
  PROVE  /\ n \div (16 * V) = g
         /\ (n % (16 * V)) \div 16 = y /\ (n % (16 * V)) % 16 = x
<1> DEFINE d == 16 * V
           r == 16 * y + x
<1>1. d \in Nat \ {0} /\ r \in 0 .. d - 1 /\ n = d * g + r
  BY DEF FlexEntry
<1>2. r \div 16 = y /\ r % 16 = x
  BY Quotient
<1> HIDE DEF d, r
<1>3. n \div d = g /\ n % d = r
  BY <1>1, Quotient
<1> QED BY <1>2, <1>3 DEF d

\* Every entry has coordinates.
LEMMA HasFlexCoordinates ==
  ASSUME V \in Nat \ {0}, NEW n \in Nat
  PROVE  \E g \in Nat, y \in 0 .. V - 1, x \in 0 .. 15 : n = FlexEntry(g, y, x)
<1> DEFINE d == 16 * V
           g == n \div d
           r == n % d
           y == r \div 16
           x == r % 16
<1>1. d \in Nat \ {0} /\ d = 16 * V
  OBVIOUS
<1>2. g \in Nat /\ r \in 0 .. d - 1 /\ n = d * g + r
  <2> HIDE DEF d
  <2> QED BY <1>1, DivMod
<1>3. y \in Nat /\ x \in 0 .. 15 /\ r = 16 * y + x
  <2> HIDE DEF d, r
  <2> QED BY <1>1, <1>2
<1> HIDE DEF d, g, r, y, x
<1>4. y \in 0 .. V - 1
  BY <1>1, <1>2, <1>3
<1>5. n = FlexEntry(g, y, x)
  BY <1>1, <1>2, <1>3 DEF FlexEntry
<1> QED BY <1>2, <1>3, <1>4, <1>5

\* Both layouts place entry n at timestep t and vector y.
Placed(n, t, y) ==
  /\ FlexVector(n) = <<t, y>>
  /\ GenEntry(n) = V * t + y
  /\ GenEntry(n) \div V = t /\ GenEntry(n) % V = y
  /\ Row(GenEntry(n)) = n

\* What the layouts say of an entry with given coordinates.
LEMMA AtCoordinates ==
  ASSUME V \in Nat \ {0}, NEW g \in Nat, NEW y \in 0 .. V - 1, NEW x \in 0 .. 15
  PROVE  Placed(FlexEntry(g, y, x), 16 * g + x, y)
<1> DEFINE n == FlexEntry(g, y, x)
           t == 16 * g + x
           e == V * t + y
<1>1. /\ n \div (16 * V) = g
      /\ (n % (16 * V)) \div 16 = y /\ (n % (16 * V)) % 16 = x
  <2> HIDE DEF n
  <2>1. n = FlexEntry(g, y, x)
    BY DEF n
  <2> QED BY <2>1, FlexCoordinates
<1>2. FlexVector(n) = <<t, y>>
  BY <1>1 DEF FlexVector
<1>3. GenEntry(n) = e
  <2>1. GenEntry(n) = (g * 16 * V) + (x * V) + y
    BY <1>1, Zenon DEF GenEntry
  <2>2. (g * 16 * V) + (x * V) + y = e
    OBVIOUS
  <2> QED BY <2>1, <2>2, Zenon
<1>4. t \in Nat /\ t \div 16 = g /\ t % 16 = x
  BY Quotient
<1>5. e \div V = t /\ e % V = y
  <2> HIDE DEF t
  <2> QED BY <1>4, Quotient
<1>6. Row(e) = n
  <2>1. Row(e) = ((16 * V) * g) + (16 * y) + x
    <3> HIDE DEF t, e
    <3> QED BY <1>4, <1>5, Zenon DEF Row
  <2> QED BY <2>1 DEF FlexEntry
<1> QED BY <1>2, <1>3, <1>5, <1>6, Zenon DEF Placed

\* The generator's permutation, and its inverse.
LEMMA RowInverts ==
  ASSUME V \in Nat \ {0}, NEW n \in Nat
  PROVE  /\ GenEntry(n) \in Nat
         /\ FlexVector(n) = <<GenEntry(n) \div V, GenEntry(n) % V>>
         /\ Row(GenEntry(n)) = n
<1>1. PICK g \in Nat, y \in 0 .. V - 1, x \in 0 .. 15 : n = FlexEntry(g, y, x)
  BY HasFlexCoordinates
<1>2. Placed(n, 16 * g + x, y)
  BY <1>1, AtCoordinates
<1>3. V * (16 * g + x) + y \in Nat
  OBVIOUS
<1> QED BY <1>2, <1>3, Zenon DEF Placed

LEMMA EntryInverts ==
  ASSUME V \in Nat \ {0}, NEW e \in Nat
  PROVE  Row(e) \in Nat /\ GenEntry(Row(e)) = e
<1> DEFINE t == e \div V
           y == e % V
           g == t \div 16
           x == t % 16
<1>1. t \in Nat /\ y \in 0 .. V - 1 /\ e = V * t + y
  BY DivMod
<1>2. g \in Nat /\ x \in 0 .. 15 /\ t = 16 * g + x
  <2> HIDE DEF t
  <2> QED BY <1>1
<1>3. Row(e) = FlexEntry(g, y, x) /\ Row(e) \in Nat
  <2>1. Row(e) = ((16 * V) * g) + (16 * y) + x
    BY Zenon DEF Row
  <2> HIDE DEF t, y, g, x
  <2> QED BY <1>1, <1>2, <2>1 DEF FlexEntry
<1> HIDE DEF t, y, g, x
<1>4. Placed(Row(e), 16 * g + x, y)
  BY <1>1, <1>2, <1>3, AtCoordinates
<1>5. GenEntry(Row(e)) = V * (16 * g + x) + y
  BY <1>4, Zenon DEF Placed
<1> QED BY <1>1, <1>2, <1>3, <1>5

\* The comparison reads, for output entry n, the FlexNLP entry of the same pooled
\* timestep and vector, and the address map leads back from there.
LEMMA Compared ==
  ASSUME V \in Nat \ {0}, NEW n \in Nat
  PROVE  /\ CompareEntry(n) \in Nat
         /\ FlexVector(CompareEntry(n)) = <<n \div V, n % V>>
         /\ GenEntry(CompareEntry(n)) = n
<1> DEFINE d == 8 * V
           h == n \div d
           r == n % d
           yr == r \div V
           xr == r % V
           g == h \div 2
           b == h % 2
           x == yr + 8 * b
<1>1. d \in Nat \ {0} /\ d = 8 * V
  OBVIOUS
<1>2. h \in Nat /\ r \in 0 .. d - 1 /\ n = d * h + r
  <2> HIDE DEF d
  <2> QED BY <1>1, DivMod
<1>3. yr \in Nat /\ xr \in 0 .. V - 1 /\ r = V * yr + xr
  <2> HIDE DEF d, r
  <2>1. r \in Nat
    BY <1>1, <1>2
  <2> QED BY <2>1, DivMod
<1>4. g \in Nat /\ b \in 0 .. 1 /\ h = 2 * g + b
  <2> HIDE DEF d, h
  <2> QED BY <1>2
<1>5. CompareEntry(n) = (2 * (8 * V) * g) + (16 * xr) + yr + (b * 8)
  BY Zenon DEF CompareEntry
<1> HIDE DEF d, h, r, yr, xr, g, b
<1>6. yr \in 0 .. 7
  <2>1. V * yr < V * 8
    BY <1>1, <1>2, <1>3
  <2> QED BY <1>3, <2>1
<1>7. x \in 0 .. 15
  BY <1>4, <1>6
<1>8. CompareEntry(n) = FlexEntry(g, xr, x)
  BY <1>3, <1>4, <1>5, <1>6 DEF FlexEntry
<1>9. 16 * g + x = 8 * h + yr
  BY <1>3, <1>4
<1>10. n = V * (16 * g + x) + xr
  <2>1. V * (8 * h + yr) + xr = n
    BY <1>1, <1>2, <1>3
  <2> QED BY <1>9, <2>1
<1>11. Placed(CompareEntry(n), 16 * g + x, xr)
  <2> HIDE DEF x
  <2> QED BY <1>3, <1>4, <1>7, <1>8, AtCoordinates
<1>12. CompareEntry(n) \in Nat
  <2> HIDE DEF x
  <2> QED BY <1>3, <1>4, <1>7, <1>8 DEF FlexEntry
<1> HIDE DEF x
<1> QED BY <1>10, <1>11, <1>12, Zenon DEF Placed

-----------------------------------------------------------------------------
(* Bounds                                                                   *)

LEMMA Sizes ==
  ASSUME shape \in Shapes
  PROVE  /\ T \in Nat /\ V \in Nat \ {0}
         /\ T * V \in Nat /\ (T \div 2) * V \in Nat
         /\ T \div 2 \in Nat /\ T = 2 * (T \div 2)
         /\ (\E m \in Nat : T = 16 * m) \/ V = 1
<1>1. /\ T \in Nat /\ V \in Nat \ {0}
      /\ T % 16 = 0 \/ (V = 1 /\ T % 2 = 0)
  BY ShapesAssumption DEF T, V
<1>2. T % 16 = 0 => T % 2 = 0 /\ \E m \in Nat : T = 16 * m
  <2>1. ASSUME T % 16 = 0 PROVE T = 16 * (T \div 16) /\ T \div 16 \in Nat
    BY <1>1, <2>1
  <2> QED BY <1>1, <2>1
<1>3. T \div 2 \in Nat /\ T = 2 * (T \div 2)
  BY <1>1, <1>2
<1>4. T * V \in Nat /\ (T \div 2) * V \in Nat
  <2> DEFINE h == T \div 2
  <2>1. h \in Nat
    BY <1>3
  <2> HIDE DEF h
  <2>2. h * V \in Nat /\ T * V \in Nat
    BY <1>1, <2>1
  <2> QED BY <2>2 DEF h
<1> QED BY <1>1, <1>2, <1>3, <1>4

\* The generator stays within the tensor.
LEMMA InTensor ==
  ASSUME shape \in Shapes, NEW n \in 0 .. (T * V) - 1
  PROVE  GenEntry(n) \in 0 .. (T * V) - 1
<1>1. T \in Nat /\ V \in Nat \ {0} /\ n \in Nat /\ T * V \in Nat
  BY Sizes
<1>2. PICK g \in Nat, y \in 0 .. V - 1, x \in 0 .. 15 : n = FlexEntry(g, y, x)
  BY <1>1, HasFlexCoordinates
<1>3. GenEntry(n) = V * (16 * g + x) + y
  <2>1. Placed(n, 16 * g + x, y)
    BY <1>1, <1>2, AtCoordinates
  <2> QED BY <2>1, Zenon DEF Placed
<1>4. n = (16 * V) * g + (16 * y + x)
  BY <1>2, Zenon DEF FlexEntry
<1>5. ASSUME NEW m \in Nat, T = 16 * m PROVE GenEntry(n) < T * V
  <2>1. (16 * V) * g < (16 * V) * m
    BY <1>1, <1>4, <1>5
  <2>2. g < m
    BY <1>1, <2>1
  <2>3. 16 * g + x <= T - 1
    BY <1>5, <2>2
  <2>4. V * (16 * g + x) <= V * (T - 1)
    <3> DEFINE t == 16 * g + x
    <3>1. t \in Nat /\ t <= T - 1
      BY <2>3
    <3> HIDE DEF t
    <3>2. V * t <= V * (T - 1)
      BY <1>1, <3>1
    <3> QED BY <3>2 DEF t
  <2>5. V * (T - 1) + y < T * V
    BY <1>1
  <2> QED BY <1>1, <1>3, <2>4, <2>5
<1>6. CASE V = 1
  <2>1. y = 0
    BY <1>6
  <2>2. GenEntry(n) = n
    BY <1>3, <1>4, <1>6, <2>1
  <2> QED BY <2>2
<1>7. GenEntry(n) \in Nat
  BY <1>1, RowInverts
<1>8. GenEntry(n) < T * V
  <2>1. CASE V = 1
    <3>1. GenEntry(n) \in 0 .. (T * V) - 1
      BY <1>6, <2>1
    <3> QED BY <1>1, <3>1
  <2>2. CASE \E m \in Nat : T = 16 * m
    BY <1>5, <2>2
  <2> QED BY <2>1, <2>2, Sizes
<1> QED BY <1>1, <1>7, <1>8

\* Every entry of the tensor is written by a row of the input.
LEMMA RowInTensor ==
  ASSUME shape \in Shapes, NEW e \in 0 .. (T * V) - 1
  PROVE  Row(e) < T * V
<1> DEFINE t == e \div V
           y == e % V
           g == t \div 16
           x == t % 16
<1>1. T \in Nat /\ V \in Nat \ {0} /\ e \in Nat /\ T * V \in Nat
  BY Sizes
<1>2. t \in Nat /\ y \in 0 .. V - 1 /\ e = V * t + y
  BY <1>1, DivMod
<1>3. g \in Nat /\ x \in 0 .. 15 /\ t = 16 * g + x
  <2> HIDE DEF t
  <2> QED BY <1>2
<1>4. Row(e) = ((16 * V) * g) + (16 * y) + x
  BY Zenon DEF Row
<1> HIDE DEF t, y, g, x
<1>5. t < T
  <2>1. V * t < V * T
    BY <1>1, <1>2
  <2> QED BY <1>1, <1>2, <2>1
<1>6. ASSUME NEW m \in Nat, T = 16 * m PROVE Row(e) < T * V
  <2>1. g <= m - 1
    BY <1>3, <1>5, <1>6
  <2>2. V * g <= V * (m - 1)
    BY <1>1, <1>3, <2>1
  <2> QED BY <1>1, <1>2, <1>3, <1>4, <1>6, <2>2
<1>7. CASE V = 1
  <2>1. y = 0
    BY <1>2, <1>7
  <2>2. Row(e) = e
    BY <1>2, <1>3, <1>4, <1>7, <2>1
  <2>3. e < T * V
    BY <1>1
  <2> QED BY <2>2, <2>3
<1> QED BY <1>6, <1>7, Sizes

-----------------------------------------------------------------------------
(* The inductive invariant                                                  *)

\* No vector of a tensor is the empty one.
LEMMA NotEmpty ==
  ASSUME V \in Nat \ {0}, NEW e \in Nat
  PROVE  <<e \div V, e % V>> # Empty
<1>1. e \div V \in Nat
  BY DivMod
<1>2. e \div V # -1
  BY <1>1
<1> QED BY <1>2 DEF Empty

LEMMA InitLayout == LayoutInit => LayoutInv
<1> SUFFICES ASSUME LayoutInit PROVE LayoutInv
  OBVIOUS
<1>1. /\ shape \in Shapes /\ rows = 0 /\ compared = 0 /\ seen = {} /\ error = 0
      /\ mem = [e \in 0 .. (T * V) - 1 |-> Empty]
  BY DEF LayoutInit, T, V
<1>2. rows \in 0 .. T * V /\ compared \in 0 .. (T \div 2) * V
  BY <1>1, Sizes
<1>3. \A e \in 0 .. (T * V) - 1 : e \in Nat /\ ~(Row(e) < 0)
  <2> SUFFICES ASSUME NEW e \in 0 .. (T * V) - 1 PROVE e \in Nat /\ ~(Row(e) < 0)
    OBVIOUS
  <2>1. Row(e) \in Nat
    BY <1>1, Sizes, EntryInverts
  <2> QED BY <2>1, <1>1, Sizes
<1>4. WrittenEntries = {}
  BY <1>1 DEF WrittenEntries
<1>5. MemInv
  BY <1>1, <1>3, <1>4, FS_EmptySet DEF MemInv
<1>6. SeenInv
  BY <1>1, FS_EmptySet DEF SeenInv
<1> QED BY <1>1, <1>2, <1>5, <1>6 DEF LayoutInv

LEMMA GenRowLayout == LayoutInv /\ GenRow => LayoutInv'
<1> SUFFICES ASSUME LayoutInv, GenRow PROVE LayoutInv'
  OBVIOUS
<1> DEFINE e0 == GenEntry(rows)
<1>1. /\ shape \in Shapes /\ shape' = shape /\ rows < T * V /\ rows \in Nat /\ rows' = rows + 1
      /\ mem' = [mem EXCEPT ![e0] = FlexVector(rows)]
      /\ compared' = compared /\ seen' = seen /\ error' = error
      /\ V \in Nat \ {0} /\ T * V \in Nat
  BY Sizes DEF LayoutInv, GenRow
<1>2. T' = T /\ V' = V
  BY <1>1 DEF T, V
<1>3. DOMAIN mem = 0 .. (T * V) - 1 /\ rows \in 0 .. (T * V) - 1
  BY <1>1 DEF LayoutInv, MemInv
<1>4. /\ e0 \in DOMAIN mem /\ e0 \in Nat /\ Row(e0) = rows
      /\ FlexVector(rows) = <<e0 \div V, e0 % V>>
  BY <1>1, <1>3, InTensor, RowInverts
<1>5. FlexVector(rows) # Empty
  BY <1>1, <1>4, NotEmpty
<1>6. DOMAIN mem' = DOMAIN mem
  BY <1>1
<1>7. \A e \in DOMAIN mem : e # e0 => mem'[e] = mem[e]
  BY <1>1
<1>8. mem'[e0] = FlexVector(rows)
  BY <1>1, <1>4
<1> HIDE DEF e0
<1>9. ASSUME NEW e \in DOMAIN mem
      PROVE  /\ Row(e)' = Row(e)
             /\ mem'[e] = IF Row(e) < rows + 1 THEN <<e \div V, e % V>> ELSE Empty
  <2>1. e \in Nat /\ Row(e) \in Nat /\ GenEntry(Row(e)) = e
    BY <1>1, <1>3, EntryInverts
  <2>2. Row(e)' = Row(e)
    BY <1>2, Zenon DEF Row
  <2>3. CASE e = e0
    BY <1>1, <1>4, <1>8, <2>2, <2>3
  <2>4. CASE e # e0
    <3>1. Row(e) # rows
      BY <2>1, <2>4 DEF e0
    <3>2. Row(e) < rows + 1 <=> Row(e) < rows
      BY <1>1, <2>1, <3>1
    <3>3. mem[e] = IF Row(e) < rows THEN <<e \div V, e % V>> ELSE Empty
      BY DEF LayoutInv, MemInv
    <3> QED BY <1>7, <2>2, <2>4, <3>2, <3>3, Zenon
  <2> QED BY <2>3, <2>4
<1>10. WrittenEntries' = WrittenEntries \cup {e0} /\ e0 \notin WrittenEntries
  <2>1. mem[e0] = Empty
    BY <1>1, <1>4 DEF LayoutInv, MemInv
  <2> QED BY <1>4, <1>5, <1>6, <1>7, <1>8, <2>1, Zenon DEF WrittenEntries
<1>11. IsFiniteSet(WrittenEntries') /\ Cardinality(WrittenEntries') = rows'
  <2>1. IsFiniteSet(WrittenEntries) /\ Cardinality(WrittenEntries) = rows
    BY DEF LayoutInv, MemInv
  <2> QED BY <1>1, <1>10, <2>1, FS_AddElement
<1>12. MemInv'
  <2>1. DOMAIN mem' = (0 .. (T * V) - 1)'
    BY <1>2, <1>3, <1>6
  <2>2. \A e \in DOMAIN mem' :
          mem'[e] = (IF Row(e) < rows THEN <<e \div V, e % V>> ELSE Empty)'
    <3> SUFFICES ASSUME NEW e \in DOMAIN mem'
                 PROVE  mem'[e] = IF Row(e)' < rows' THEN <<e \div V', e % V'>> ELSE Empty
      BY DEF Empty
    <3>1. e \in DOMAIN mem
      BY <1>6
    <3>2. /\ Row(e)' = Row(e)
          /\ mem'[e] = IF Row(e) < rows + 1 THEN <<e \div V, e % V>> ELSE Empty
      BY <1>9, <3>1
    <3> QED BY <1>1, <1>2, <3>2, Zenon
  <2> QED BY <1>11, <2>1, <2>2 DEF MemInv
<1>13. compared = 0
  BY <1>1, Sizes DEF LayoutInv
<1>14. SeenInv'
  <2>1. IsFiniteSet(seen) /\ Cardinality(seen) = compared
    BY DEF LayoutInv, SeenInv
  <2>2. seen = {}
    BY <1>13, <2>1, FS_EmptySet
  <2> QED BY <1>1, <2>1, <2>2 DEF SeenInv
<1>15. rows' \in (0 .. T * V)' /\ compared' \in (0 .. (T \div 2) * V)'
  BY <1>1, <1>2, <1>13, Sizes
<1> QED BY <1>1, <1>12, <1>13, <1>14, <1>15 DEF LayoutInv

\* A filled relay memory is the tensor row by row.
LEMMA Filled ==
  ASSUME LayoutInv, rows = T * V, NEW e \in 0 .. (T * V) - 1
  PROVE  e \in DOMAIN mem /\ mem[e] = <<e \div V, e % V>>
<1>1. shape \in Shapes /\ e \in DOMAIN mem
  BY DEF LayoutInv, MemInv
<1>2. Row(e) < rows
  BY <1>1, RowInTensor
<1>3. mem[e] = IF Row(e) < rows THEN <<e \div V, e % V>> ELSE Empty
  BY <1>1 DEF LayoutInv, MemInv
<1> QED BY <1>1, <1>2, <1>3

\* The maximum that the relay stores in output entry n is over the two vectors
\* that the FlexNLP entry compared with it stands for.
LEMMA SameMaximum ==
  ASSUME LayoutInv, rows = T * V, NEW n \in 0 .. ((T \div 2) * V) - 1
  PROVE  RelayPooled(n) = FlexPooled(CompareEntry(n))
<1> DEFINE h == T \div 2
           t == n \div V
           x == n % V
           y == 2 * t
           a == (y * V) + x
           b == ((y + 1) * V) + x
<1>1. /\ V \in Nat \ {0} /\ h \in Nat /\ T = 2 * h /\ n \in Nat
      /\ n < h * V /\ h * V \in Nat
  BY Sizes DEF LayoutInv
<1>2. t \in Nat /\ x \in 0 .. V - 1 /\ n = V * t + x
  BY <1>1, DivMod
<1>3. FlexVector(CompareEntry(n)) = <<t, x>>
  BY <1>1, Compared
<1>4. RelayPooled(n) = {mem[a], mem[b]}
  BY DEF RelayPooled
<1>5. FlexPooled(CompareEntry(n)) = {<<y, x>>, <<y + 1, x>>}
  BY <1>3 DEF FlexPooled
<1> HIDE DEF h, t, x
<1>6. t < h
  <2>1. V * t < V * h
    BY <1>1, <1>2
  <2> QED BY <1>1, <1>2, <2>1
<1>7. y \in Nat /\ y + 1 < T
  BY <1>1, <1>2, <1>6
<1> HIDE DEF y
<1>8. a = V * y + x /\ b = V * (y + 1) + x
  BY <1>1, <1>2, <1>7
<1>9. a \div V = y /\ a % V = x /\ b \div V = y + 1 /\ b % V = x
  BY <1>1, <1>2, <1>7, <1>8, Quotient
<1>10. a \in 0 .. (T * V) - 1 /\ b \in 0 .. (T * V) - 1
  <2>1. V * (y + 1) + V <= V * T
    <3>1. V * (y + 2) <= V * T
      BY <1>1, <1>7
    <3>2. V * (y + 2) = V * (y + 1) + V
      BY <1>1, <1>7
    <3> QED BY <3>1, <3>2
  <2>2. V * y <= V * (y + 1) /\ V * y \in Nat /\ V * (y + 1) \in Nat
    BY <1>1, <1>7
  <2>3. V * T = T * V /\ T * V \in Nat
    BY <1>1, Sizes DEF LayoutInv
  <2> HIDE DEF a, b
  <2> QED BY <1>1, <1>2, <1>8, <2>1, <2>2, <2>3
<1> HIDE DEF a, b
<1>11. mem[a] = <<y, x>> /\ mem[b] = <<y + 1, x>>
  BY <1>9, <1>10, Filled
<1> QED BY <1>4, <1>5, <1>11

LEMMA CompareLayout == LayoutInv /\ CompareOne => LayoutInv'
<1> SUFFICES ASSUME LayoutInv, CompareOne PROVE LayoutInv'
  OBVIOUS
<1> DEFINE k == CompareEntry(compared)
           J == (T \div 2) * V
<1>1. /\ shape \in Shapes /\ shape' = shape /\ rows' = rows /\ mem' = mem
      /\ rows = T * V /\ compared \in Nat /\ J \in Nat /\ compared < J /\ compared' = compared + 1
      /\ seen' = seen \cup {k} /\ V \in Nat \ {0}
  BY Sizes DEF LayoutInv, CompareOne
<1>2. T' = T /\ V' = V
  BY <1>1 DEF T, V
<1>3. error' = 0
  <2>1. RelayPooled(compared) = FlexPooled(CompareEntry(compared))
    BY <1>1, SameMaximum
  <2> QED BY <2>1 DEF CompareOne, LayoutInv
<1> HIDE DEF J
<1>4. k \notin seen
  <2> SUFFICES ASSUME k \in seen PROVE FALSE
    OBVIOUS
  <2>1. PICK n \in 0 .. compared - 1 : k = CompareEntry(n)
    BY DEF LayoutInv, SeenInv
  <2>2. GenEntry(k) = n /\ n # compared
    BY <1>1, <2>1, Compared
  <2>3. GenEntry(k) = compared
    BY <1>1, Compared
  <2> QED BY <2>2, <2>3
<1>5. IsFiniteSet(seen') /\ Cardinality(seen') = compared'
  <2>1. IsFiniteSet(seen) /\ Cardinality(seen) = compared
    BY DEF LayoutInv, SeenInv
  <2> HIDE DEF k
  <2> QED BY <1>1, <1>4, <2>1, FS_AddElement
<1>6. SeenInv'
  <2>1. ASSUME NEW s \in seen' PROVE \E n \in 0 .. compared' - 1 : s = CompareEntry(n)'
    <3>1. \A n \in 0 .. compared : CompareEntry(n)' = CompareEntry(n)
      BY <1>2, Zenon DEF CompareEntry
    <3>2. CASE s \in seen
      <4>1. PICK n \in 0 .. compared - 1 : s = CompareEntry(n)
        BY <3>2 DEF LayoutInv, SeenInv
      <4>2. n \in 0 .. compared /\ n \in 0 .. compared' - 1
        BY <1>1
      <4> QED BY <3>1, <4>1, <4>2, Zenon
    <3>3. CASE s = k
      <4>1. compared \in 0 .. compared /\ compared \in 0 .. compared' - 1
        BY <1>1
      <4> QED BY <3>1, <3>3, <4>1, Zenon
    <3> HIDE DEF k
    <3> QED BY <1>1, <3>2, <3>3
  <2> QED BY <1>5, <2>1, Zenon DEF SeenInv
<1>7. MemInv'
  <2>1. \A e : Row(e)' = Row(e)
    BY <1>2, Zenon DEF Row
  <2>2. WrittenEntries' = WrittenEntries
    BY <1>1 DEF WrittenEntries
  <2>3. MemInv
    BY DEF LayoutInv
  <2>4. DOMAIN mem' = (0 .. (T * V) - 1)'
    BY <1>1, <1>2, <2>3 DEF MemInv
  <2>5. \A e \in DOMAIN mem' :
          mem'[e] = (IF Row(e) < rows THEN <<e \div V, e % V>> ELSE Empty)'
    <3> SUFFICES ASSUME NEW e \in DOMAIN mem'
                 PROVE  mem'[e] = IF Row(e)' < rows' THEN <<e \div V', e % V'>> ELSE Empty
      BY DEF Empty
    <3>1. mem[e] = IF Row(e) < rows THEN <<e \div V, e % V>> ELSE Empty
      BY <1>1, <2>3 DEF MemInv
    <3> QED BY <1>1, <1>2, <2>1, <3>1, Zenon
  <2>6. IsFiniteSet(WrittenEntries') /\ Cardinality(WrittenEntries') = rows'
    BY <1>1, <2>2, <2>3 DEF MemInv
  <2> QED BY <2>4, <2>5, <2>6 DEF MemInv
<1>8. compared' \in (0 .. (T \div 2) * V)' /\ rows' \in (0 .. T * V)' /\ rows' = (T * V)'
  <2>1. compared' \in 0 .. J
    BY <1>1
  <2>2. rows' \in 0 .. T * V
    BY <1>1 DEF LayoutInv
  <2> QED BY <1>1, <1>2, <2>1, <2>2 DEF J
<1> QED BY <1>1, <1>3, <1>6, <1>7, <1>8 DEF LayoutInv

LEMMA StutterLayout == LayoutInv /\ UNCHANGED layoutVars => LayoutInv'
BY DEF LayoutInv, MemInv, SeenInv, WrittenEntries, Row, CompareEntry, Empty, T, V, layoutVars

-----------------------------------------------------------------------------
(* The theorems                                                             *)

\* The inductive invariant holds of every behaviour, for all shapes.
THEOREM LayoutInvariance == LayoutSpec => []LayoutInv
<1>1. LayoutInv /\ [LayoutNext]_layoutVars => LayoutInv'
  BY GenRowLayout, CompareLayout, StutterLayout DEF LayoutNext, LayoutTerminated
<1> QED BY InitLayout, <1>1, PTL DEF LayoutSpec

\* maxp_test_gen is a permutation of the entries: it writes none twice, and turns
\* the FlexNLP layout into the row-by-row layout of the relay.
THEOREM Generated == LayoutSpec => []RelayIsRowMajor
<1>1. LayoutInv => RelayIsRowMajor
  <2> SUFFICES ASSUME LayoutInv PROVE RelayIsRowMajor
    OBVIOUS
  <2>1. Cardinality({e \in DOMAIN mem : mem[e] # Empty}) = rows
    BY DEF LayoutInv, MemInv, WrittenEntries
  <2>2. rows = T * V => \A e \in DOMAIN mem : mem[e] = <<e \div V, e % V>>
    <3>1. DOMAIN mem = 0 .. (T * V) - 1
      BY DEF LayoutInv, MemInv
    <3> QED BY <3>1, Filled
  <2> QED BY <2>1, <2>2, Zenon DEF RelayIsRowMajor
<1> QED BY LayoutInvariance, <1>1, PTL

\* The comparison of two correct models counts no error and looks at as many
\* different FlexNLP entries as there are output entries.
THEOREM NoErrors == LayoutSpec => []NoFalseError
<1>1. LayoutInv => NoFalseError
  BY DEF LayoutInv, SeenInv, NoFalseError
<1> QED BY LayoutInvariance, <1>1, PTL

\* The address map of prog_frag_gen takes each entry that the comparison reads
\* back to the output entry it is compared with.
THEOREM MapIsInverse == LayoutSpec => []MapInvertsCompare
<1>1. LayoutInv => MapInvertsCompare
  <2> SUFFICES ASSUME LayoutInv, NEW n \in 0 .. compared - 1
               PROVE  MapEntry(GbLarge + 16 * CompareEntry(n)) = n
    BY DEF MapInvertsCompare
  <2> DEFINE k == CompareEntry(n)
  <2>1. V \in Nat \ {0} /\ n \in Nat
    BY Sizes DEF LayoutInv
  <2>2. k \in Nat /\ GenEntry(k) = n
    BY <2>1, Compared
  <2> HIDE DEF k
  <2>3. ((GbLarge + 16 * k) - GbLarge) \div 16 = k
    BY <2>2 DEF GbLarge
  <2>4. MapEntry(GbLarge + 16 * k) = GenEntry(k)
    BY <2>3, Zenon DEF MapEntry, GenEntry
  <2> QED BY <2>2, <2>4 DEF k
<1> QED BY LayoutInvariance, <1>1, PTL
=============================================================================
