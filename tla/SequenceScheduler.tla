-------------------------- MODULE SequenceScheduler --------------------------
(***************************************************************************)
(* SequenceEventScheduler (adapters/sequence/scheduler.py): the second     *)
(* implementation of the scheduler port, which keeps only the registry of  *)
(* pending events and leaves the clock and the heap to SeQUeNCe's          *)
(* Timeline.  The Timeline knows no phases: phase and order of acceptance  *)
(* travel in one integer, the priority.                                    *)
(*                                                                         *)
(* Both implementations are driven here by the same calls, so that what    *)
(* the protocol sees through the port can be compared step by step.        *)
(***************************************************************************)
EXTENDS EventScheduler, Bags, BagsExt

CONSTANT Stride  \* SEQUENCE_STRIDE, how many events of a phase fit an instant

ASSUME StrideAssumption == Stride \in Nat \ {0}

VARIABLES
  time,       \* timeline.time
  heap,       \* timeline.events: [id, when, priority]
  registry,   \* pump.registry: the ids of the registered events
  sequences,  \* _sequences: how many events each (when, phase) has had, a bag
  runCounter, \* timeline.run_counter
  published,  \* the id of the event being handled, or Idle
  outcome     \* "ready", "running", or the exception that left run()

adapterVars == <<time, heap, registry, sequences, runCounter, published, outcome>>
portVars == <<vars, adapterVars>>

AdapterInit ==
  /\ time = 0 /\ heap = {} /\ registry = {} /\ sequences = EmptyBag
  /\ runCounter = 0 /\ published = Idle /\ outcome = "ready"

-----------------------------------------------------------------------------
\* Mutant: the number alone.
PriorityWithoutPhase(phase, n) == n

\* encode_priority, for n below the stride.
EncodePriority(phase, n) == phase * Stride + n

\* Event.__lt__ of SeQUeNCe: time, then priority.
TimelineFirst(x) ==
  \A y \in heap : x.when < y.when \/ (x.when = y.when /\ x.priority <= y.priority)

AdapterRefuses(error) ==
  /\ outcome' = error
  /\ UNCHANGED <<time, heap, registry, sequences, runCounter, published>>

\* _sequences[(when_ps, phase)], a defaultdict(int).
Sequence(k) == IF BagIn(k, sequences) THEN sequences[k] ELSE 0

\* register() and the counter come before encode_priority, which raises once
\* the counter has reached the stride: the id stays registered without event.
Register(id, w, p) ==
  LET n == Sequence(<<w, p>>) IN
  /\ registry' = registry \union {id}
  /\ sequences' = BagAdd(sequences, <<w, p>>)
  /\ \/ /\ n < Stride
        /\ heap' = heap \union {[id |-> id, when |-> w, priority |-> EncodePriority(p, n)]}
        /\ UNCHANGED outcome
     \/ /\ n >= Stride
        /\ outcome' = "value_error"
        /\ UNCHANGED heap
  /\ UNCHANGED <<time, runCounter, published>>

AdapterScheduleAt(id, w, p) ==
  \/ w < time /\ AdapterRefuses("past_event")
  \/ w >= time /\ id \in registry /\ AdapterRefuses("duplicate_event")
  \/ w >= time /\ id \notin registry /\ Register(id, w, p)

AdapterScheduleAfter(id, d, p) ==
  \/ d < 0 /\ AdapterRefuses("past_event")
  \/ d >= 0 /\ AdapterScheduleAt(id, time + d, p)

AdapterRun ==
  /\ outcome = "ready"
  /\ outcome' = "running"
  /\ UNCHANGED <<time, heap, registry, sequences, runCounter, published>>

\* Timeline.run pops the first event, moves its clock and calls
\* pump.dispatch, which takes the event out of the registry and publishes it.
AdapterDispatch(x) ==
  /\ outcome = "running" /\ published = Idle
  /\ TimelineFirst(x)
  /\ x.when < StopTime
  /\ heap' = heap \ {x}
  /\ registry' = registry \ {x.id}
  /\ time' = x.when
  /\ published' = x.id
  /\ UNCHANGED <<sequences, runCounter, outcome>>

AdapterHandlerReturns ==
  /\ published' = Idle
  /\ runCounter' = runCounter + 1
  /\ UNCHANGED <<time, heap, registry, sequences, outcome>>

\* The Timeline pushes an event due at or after its stop time back.
AdapterStop ==
  /\ outcome = "running" /\ published = Idle
  /\ \A x \in heap : TimelineFirst(x) => x.when >= StopTime
  /\ outcome' = "ready"
  /\ UNCHANGED <<time, heap, registry, sequences, runCounter, published>>

-----------------------------------------------------------------------------
\* The adapter raised where the deterministic scheduler does not: the rest
\* happens to the latter alone.
AdapterLost == outcome = "value_error"

BothScheduleAt(id, w, p) == ScheduleAt(id, w, p) /\ AdapterScheduleAt(id, w, p)
BothScheduleAfter(id, d, p) == ScheduleAfter(id, d, p) /\ AdapterScheduleAfter(id, d, p)
BothDispatch == (\E e \in queue : Dispatch(e)) /\ (\E x \in heap : AdapterDispatch(x))
BothReturn == HandlerReturns /\ AdapterHandlerReturns

Together ==
  \/ \E id \in Ids, w \in Times, p \in UsedPhases : BothScheduleAt(id, w, p)
  \/ \E id \in Ids, d \in Delays, p \in UsedPhases : BothScheduleAfter(id, d, p)
  \/ Run /\ AdapterRun
  \/ BothDispatch
  \/ BothReturn
  \/ HandlerRaises /\ AdapterRefuses("handler_error")
  \/ Stop /\ AdapterStop
  \/ Crashed /\ UNCHANGED adapterVars

PortsNext ==
  \/ ~AdapterLost /\ Together
  \/ AdapterLost /\ Next /\ UNCHANGED adapterVars

PortsInit == Init /\ AdapterInit
PortsSpec == PortsInit /\ [][PortsNext]_portVars
PortsFairSpec == PortsSpec /\ Fairness

-----------------------------------------------------------------------------
\* Until an instant holds more events of one phase than the stride has room
\* for, nothing a caller can see through the port tells the two schedulers
\* apart: the same clock, the same event in the handlers' hands, the same
\* pending events, the same refusals and the same counts, and the event each
\* would take next is the same (SequenceEventScheduler, DeterministicScheduler).
PortsAgree ==
  ~AdapterLost =>
    /\ time = now /\ outcome = status /\ runCounter = dispatched
    /\ published = IF current = Idle THEN Idle ELSE log[current].id
    /\ registry = ids
    /\ {<<x.id, x.when>> : x \in heap} = {<<e.id, e.when>> : e \in queue}
    /\ \A x \in heap, e \in queue :
         TimelineFirst(x) /\ IsFirst(e, queue) => x.id = e.id
=============================================================================
