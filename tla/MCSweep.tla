------------------------------- MODULE MCSweep -------------------------------
(***************************************************************************)
(* A sweep of two points, in a pool of two and in sequence, with equal run *)
(* ids (two points may have the same configuration), one of them possibly  *)
(* too short; and two runs started by hand into one directory, of          *)
(* different seeds or of the same configuration.                           *)
(***************************************************************************)
EXTENDS Sweep

MCProcs == 0 .. 1
OwnTarget == [p \in MCProcs |-> p]
Shared    == [p \in MCProcs |-> 0]

SweepOf(processes, short, n) ==
  [target |-> OwnTarget, run |-> Shared, short |-> short, processes |-> processes,
   attempts |-> [p \in MCProcs |-> 2], faults |-> n]
ByHandOf(run, n) ==
  [target |-> Shared, run |-> run, short |-> {}, processes |-> 0,
   attempts |-> [p \in MCProcs |-> 2 - p], faults |-> n]

MCSetups == {SweepOf(2, {}, 1), SweepOf(1, {1}, 2), ByHandOf(OwnTarget, 1)}
MCTwins == {ByHandOf(Shared, 0)}
=============================================================================
