----------------------------- MODULE EventQueue -----------------------------
(***************************************************************************)
(* The order of the event heap (core/events.py, core/scheduler.py).        *)
(*                                                                         *)
(* A queued event carries the time it is due, the phase that ranks it      *)
(* among the events of the same instant, and the number the scheduler's    *)
(* counter gave it when it was accepted.  Whatever else an event carries   *)
(* takes no part in the comparison.                                        *)
(***************************************************************************)
EXTENDS Integers, Sequences

\* The phases of EventPhase; a smaller number runs first at the same instant.
PhysicalArrival  == 0
DeviceCompletion == 10
Protocol         == 20
Control          == 30
Timeout          == 40
Observability    == 90

Phases == {PhysicalArrival, DeviceCompletion, Protocol, Control, Timeout,
           Observability}

\* Mutants: the phase is forgotten; the last accepted comes first.
BeforeWithoutPhase(e, f) ==
  e.when < f.when \/ (e.when = f.when /\ e.seq < f.seq)

BeforeLastIn(e, f) ==
  \/ e.when < f.when
  \/ e.when = f.when /\ e.phase < f.phase
  \/ e.when = f.when /\ e.phase = f.phase /\ e.seq > f.seq

\* _QueuedEvent is an ordered dataclass: (when_ps, phase, sequence).
Before(e, f) ==
  \/ e.when < f.when
  \/ e.when = f.when /\ e.phase < f.phase
  \/ e.when = f.when /\ e.phase = f.phase /\ e.seq < f.seq

\* e is the event heapq.heappop would return.
IsFirst(e, q) == e \in q /\ \A f \in q \ {e} : Before(e, f)

\* The events of evs as successive schedule_at calls number them, from n on.
Stamp(evs, n) == {[evs[i] EXCEPT !.seq = n + i - 1] : i \in DOMAIN evs}
=============================================================================
