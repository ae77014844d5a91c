--------------------------- MODULE MaxpoolLayout ---------------------------
(***************************************************************************)
(* Where the maxpool co-simulation keeps a tensor of T timesteps of V      *)
(* vectors.  The relay model stores it row by row.  The large buffer of    *)
(* FlexNLP stores groups of 16 timesteps, vector by vector.  Three pieces  *)
(* of code translate between the two, each with arithmetic of its own:     *)
(* maxp_test_gen fills the relay memory from the FlexNLP input rows,       *)
(* prog_frag_gen writes an address map, and maxpool_sim_main finds the     *)
(* output entries to compare.  An entry is 16 bytes, one vector.           *)
(***************************************************************************)
EXTENDS Integers, FiniteSets

CONSTANT Shapes   \* records [T, V] of the tensors to pool

\* Timesteps come in pairs, and in full groups if there is more than one vector.
ASSUME ShapesAssumption ==
  \A s \in Shapes :
    /\ s.T \in Nat /\ s.V \in Nat \ {0}
    /\ s.T % 16 = 0 \/ (s.V = 1 /\ s.T % 2 = 0)

VARIABLES
  shape,     \* the shape of the input tensor
  rows,      \* maxp_test_gen: accepted input rows
  mem,       \* relay_tensor_mem, by entry: which vector it holds
  compared,  \* maxpool_sim_main: output entries compared
  seen,      \* the FlexNLP entries they were compared with
  error      \* comparisons that failed

layoutVars == <<shape, rows, mem, compared, seen, error>>

T == shape.T
V == shape.V
GbLarge == 860880896   \* 0x33500000, the address of the large buffer
Vectors == (0 .. T - 1) \X (0 .. V - 1)

-----------------------------------------------------------------------------
(* The layouts                                                              *)

\* FlexNLP: the vector that entry e of the large buffer holds.
FlexVector(e) ==
  <<(16 * (e \div (16 * V))) + ((e % (16 * V)) % 16), (e % (16 * V)) \div 16>>

\* Relay, from maxp_test_gen: the entry for the n-th input row.
GenEntryRowMajor(n) == n   \* (mutant: x and y not exchanged)
GenEntry(n) ==
  LET group == n \div (16 * V)
      y == (n % (16 * V)) \div 16
      x == (n % (16 * V)) % 16
  IN  (group * 16 * V) + (x * V) + y

\* Relay, from the address map of prog_frag_gen: the entry for a FlexNLP address.
MapEntryNoGroup(addr) ==   \* (mutant: the group is not added)
  LET k == (addr - GbLarge) \div 16
      flexV == k % (16 * V)
  IN  ((flexV % 16) * V) + (flexV \div 16)
MapEntry(addr) ==
  LET k == (addr - GbLarge) \div 16
      flexV == k % (16 * V)
  IN  ((k \div (16 * V)) * 16 * V) + ((flexV % 16) * V) + (flexV \div 16)

\* FlexNLP, from maxpool_sim_main: the entry of output entry n of the relay.
\* Two groups of 8 pooled timesteps share one group of 16.
CompareEntryNoHalf(n) ==   \* (mutant: odd groups as even ones)
  LET group == n \div (8 * V)
      inGroup == n % (8 * V)
  IN  (2 * (8 * V) * (group \div 2)) + (16 * (inGroup % V)) + (inGroup \div V)
CompareEntry(n) ==
  LET group == n \div (8 * V)
      inGroup == n % (8 * V)
      yRelay == inGroup \div V
      xRelay == inGroup % V
  IN  (2 * (8 * V) * (group \div 2)) + (16 * xRelay) + yRelay + ((group % 2) * 8)

-----------------------------------------------------------------------------

Empty == <<-1, -1>>

LayoutInit ==
  /\ shape \in Shapes
  /\ rows = 0
  /\ mem = [e \in 0 .. shape.T * shape.V - 1 |-> Empty]
  /\ compared = 0 /\ seen = {} /\ error = 0

\* The input rows come in the order of their addresses, all of them written.
GenRow ==
  /\ rows < T * V
  /\ mem' = [mem EXCEPT ![GenEntry(rows)] = FlexVector(rows)]
  /\ rows' = rows + 1
  /\ UNCHANGED <<shape, compared, seen, error>>

\* Both models take the maximum of two neighbouring timesteps: a pooled vector is
\* named by the set of vectors it is the maximum of.
RelayPooled(n) ==
  LET y == 2 * (n \div V)  x == n % V
  IN  {mem[(y * V) + x], mem[((y + 1) * V) + x]}
FlexPooled(e) == LET o == FlexVector(e) IN {<<2 * o[1], o[2]>>, <<(2 * o[1]) + 1, o[2]>>}

CompareOne ==
  /\ rows = T * V
  /\ compared < (T \div 2) * V
  /\ error' = IF RelayPooled(compared) = FlexPooled(CompareEntry(compared))
              THEN error ELSE error + 1
  /\ seen' = seen \cup {CompareEntry(compared)}
  /\ compared' = compared + 1
  /\ UNCHANGED <<shape, rows, mem>>

Finished == compared = (T \div 2) * V
LayoutTerminated == Finished /\ UNCHANGED layoutVars

LayoutNext == GenRow \/ CompareOne \/ LayoutTerminated

LayoutSpec == LayoutInit /\ [][LayoutNext]_layoutVars

-----------------------------------------------------------------------------

\* The generator never writes an entry twice, and in the end the relay memory is
\* the tensor row by row: the transposition of the groups loses nothing.
RelayIsRowMajor ==
  /\ Cardinality({e \in DOMAIN mem : mem[e] # Empty}) = rows
  /\ rows = T * V => \A e \in DOMAIN mem : mem[e] = <<e \div V, e % V>>

\* Two correct models are found equal: each output entry of the relay is compared
\* with the FlexNLP entry of the same pooled timestep and vector, and none twice.
NoFalseError == error = 0 /\ Cardinality(seen) = compared

\* The address map of prog_frag_gen is the inverse of the comparison's: they
\* send an output entry there and back, although one counts in groups of 16
\* timesteps and the other in pairs of groups of 8.
MapInvertsCompare ==
  \A n \in 0 .. compared - 1 : MapEntry(GbLarge + 16 * CompareEntry(n)) = n

-----------------------------------------------------------------------------
(* The inductive invariant                                                  *)

\* The input row that maxp_test_gen writes to entry e: the inverse of GenEntry.
Row(e) == ((16 * V) * ((e \div V) \div 16)) + (16 * (e % V)) + ((e \div V) % 16)

WrittenEntries == {e \in DOMAIN mem : mem[e] # Empty}

MemInv ==
  /\ DOMAIN mem = 0 .. (T * V) - 1
  /\ \A e \in DOMAIN mem : mem[e] = IF Row(e) < rows THEN <<e \div V, e % V>> ELSE Empty
  /\ IsFiniteSet(WrittenEntries) /\ Cardinality(WrittenEntries) = rows

SeenInv ==
  /\ IsFiniteSet(seen) /\ Cardinality(seen) = compared
  /\ \A s \in seen : \E n \in 0 .. compared - 1 : s = CompareEntry(n)

LayoutInv ==
  /\ shape \in Shapes
  /\ rows \in 0 .. T * V /\ compared \in 0 .. (T \div 2) * V
  /\ compared > 0 => rows = T * V
  /\ MemInv /\ SeenInv
  /\ error = 0
=============================================================================
