------------------------------ MODULE SystemC ------------------------------
(***************************************************************************)
(* The part of the SystemC scheduler that the testbenches rely on, modelled*)
(* from how they use it.  Time is divided into delta cycles.  In each one  *)
(* every ready process runs once, in any order, and a value it writes to a *)
(* signal is only pending; when all have run, the pending values become    *)
(* current and the methods sensitive to a signal that changed are ready    *)
(* for the next delta cycle.  When no signal changes, time advances to the *)
(* earliest wait(ns, SC_NS) that ends.                                     *)
(*                                                                         *)
(* A process that is not finished with its turn stays ready: processes are *)
(* not preempted, but as pending values are seen by nobody, splitting a    *)
(* turn into steps changes nothing another process can observe.            *)
(***************************************************************************)
EXTENDS Integers, FiniteSets, FiniteSetsExt

VARIABLES
  sig,      \* the current value of each signal (or bundle of signals)
  pending,  \* the value each signal will have in the next delta cycle
  ready,    \* the processes that have not yet run in this delta cycle
  wake,     \* per thread: the ns until its wait() ends, 0 if it is in none
  stopped   \* sc_stop() has been called

kernel == <<sig, pending, ready, wake, stopped>>

\* Signals start at zero; every thread runs once at time zero, and so may the
\* methods.
KernelInit(zero, threads, methods) ==
  /\ sig = zero /\ pending = zero
  /\ \E ms \in SUBSET methods : ready = threads \cup ms
  /\ wake = [p \in threads |-> 0]
  /\ stopped = FALSE

Turn(p) == p \in ready
Write(s, v) == pending' = [pending EXCEPT ![s] = v]
Write2(s, v, t, w) == pending' = [pending EXCEPT ![s] = v, ![t] = w]
Keep == UNCHANGED pending

\* How a turn ends: waiting, for good, or not yet.
Wait(p, ns) == ready' = ready \ {p} /\ wake' = [wake EXCEPT ![p] = ns]
Return(p)   == ready' = ready \ {p} /\ UNCHANGED wake
Continue    == UNCHANGED <<ready, wake>>

-----------------------------------------------------------------------------

\* sensitive[m]: the signals whose change makes method m ready.
Update(sensitive) ==
  /\ ~stopped
  /\ ready = {}
  /\ pending # sig
  /\ sig' = pending
  /\ ready' = {m \in DOMAIN sensitive : \E s \in sensitive[m] : pending[s] # sig[s]}
  /\ UNCHANGED <<pending, wake, stopped>>

Sleeping == {p \in DOMAIN wake : wake[p] > 0}

Advance ==
  /\ ~stopped
  /\ ready = {}
  /\ pending = sig
  /\ Sleeping # {}
  /\ LET dt == Min({wake[p] : p \in Sleeping}) IN
       /\ wake' = [p \in DOMAIN wake |-> IF p \in Sleeping THEN wake[p] - dt ELSE 0]
       /\ ready' = {p \in Sleeping : wake[p] = dt}
  /\ UNCHANGED <<sig, pending, stopped>>

\* The simulation is over.
Over == stopped /\ ready = {}
=============================================================================
