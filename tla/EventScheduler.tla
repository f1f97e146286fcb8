--------------------------- MODULE EventScheduler ---------------------------
(***************************************************************************)
(* DeterministicScheduler (core/scheduler.py): virtual time, a heap of     *)
(* pending events, the set of their ids, and a run loop that publishes one *)
(* event at a time.  A handler runs inside publish and may schedule more   *)
(* events, at the current instant too, or raise; the code before run()     *)
(* may schedule as well.  run() may be called again once it has returned.  *)
(***************************************************************************)
EXTENDS EventQueue, FiniteSets

CONSTANTS
  Ids,        \* event identifiers
  Times,      \* absolute times a caller may ask for
  Delays,     \* delays a caller may ask for; negative ones are refused
  UsedPhases, \* the phases callers use
  StopTime,   \* stop_time_ps
  MaxEvents,  \* bound of the model: events accepted over a behaviour
  Idle        \* no handler is running

ASSUME SchedulerAssumption ==
  /\ Times \subseteq Nat /\ Delays \subseteq Int
  /\ UsedPhases \subseteq Phases
  /\ StopTime \in Nat /\ MaxEvents \in Nat
  /\ Idle \notin Nat

VARIABLES
  now,        \* _now
  queue,      \* _queue: [id, when, phase, seq, after]
  ids,        \* _ids
  nextSeq,    \* _sequence
  dispatched, \* dispatched
  current,    \* the position in log of the event being handled, or Idle
  status,     \* "ready", "running", or the exception that left run()
  log         \* history: the events published so far, in order

vars == <<now, queue, ids, nextSeq, dispatched, current, status, log>>

\* "after" is a history field: how many events had been published when the
\* event was accepted.
Event == [id : Ids, when : Nat, phase : Phases, seq : Nat, after : Nat]

Raised == {"past_event", "duplicate_event", "handler_error"}

Init ==
  /\ now = 0 /\ queue = {} /\ ids = {} /\ nextSeq = 0 /\ dispatched = 0
  /\ current = Idle /\ status = "ready" /\ log = <<>>

-----------------------------------------------------------------------------
\* schedule_at is called by code that runs before run() or by a handler.
CallerActive == status = "ready" \/ (status = "running" /\ current # Idle)

\* Mutant: the counter stands still.
PushUnnumbered(id, w, p) ==
  /\ nextSeq < MaxEvents
  /\ ids' = ids \union {id}
  /\ queue' = queue \union {[id |-> id, when |-> w, phase |-> p, seq |-> nextSeq,
                             after |-> Len(log)]}
  /\ UNCHANGED <<now, nextSeq, dispatched, current, status, log>>

Push(id, w, p) ==
  /\ nextSeq < MaxEvents
  /\ ids' = ids \union {id}
  /\ queue' = queue \union {[id |-> id, when |-> w, phase |-> p, seq |-> nextSeq,
                             after |-> Len(log)]}
  /\ nextSeq' = nextSeq + 1
  /\ UNCHANGED <<now, dispatched, current, status, log>>

\* Mutant: the past is not refused.
AcceptPast(id, w, p) == id \notin ids /\ Push(id, w, p)

Accept(id, w, p) == w >= now /\ id \notin ids /\ Push(id, w, p)

\* No caller catches these errors: they leave the handler and run() with it.
Refuse(error) ==
  /\ status' = error
  /\ UNCHANGED <<now, queue, ids, nextSeq, dispatched, current, log>>

ScheduleAt(id, w, p) ==
  /\ CallerActive
  /\ \/ Accept(id, w, p)
     \/ w < now /\ Refuse("past_event")
     \/ w >= now /\ id \in ids /\ Refuse("duplicate_event")

\* Mutant: straight to the heap.
ScheduleAfterUnchecked(id, d, p) == CallerActive /\ id \notin ids /\ Push(id, now + d, p)

ScheduleAfter(id, d, p) ==
  /\ CallerActive
  /\ \/ d < 0 /\ Refuse("past_event")
     \/ d >= 0 /\ ScheduleAt(id, now + d, p)

Run ==
  /\ status = "ready"
  /\ status' = "running"
  /\ UNCHANGED <<now, queue, ids, nextSeq, dispatched, current, log>>

\* Mutant: the id stays taken.
DispatchKeepingId(e) ==
  /\ status = "running" /\ current = Idle
  /\ IsFirst(e, queue)
  /\ e.when < StopTime
  /\ queue' = queue \ {e}
  /\ now' = e.when
  /\ log' = Append(log, e)
  /\ current' = Len(log) + 1
  /\ UNCHANGED <<ids, nextSeq, dispatched, status>>

\* Pop, release the id, move the clock, enter publish.
Dispatch(e) ==
  /\ status = "running" /\ current = Idle
  /\ IsFirst(e, queue)
  /\ e.when < StopTime
  /\ queue' = queue \ {e}
  /\ ids' = ids \ {e.id}
  /\ now' = e.when
  /\ log' = Append(log, e)
  /\ current' = Len(log) + 1
  /\ UNCHANGED <<nextSeq, dispatched, status>>

HandlerReturns ==
  /\ status = "running" /\ current # Idle
  /\ current' = Idle
  /\ dispatched' = dispatched + 1
  /\ UNCHANGED <<now, queue, ids, nextSeq, status, log>>

HandlerRaises ==
  /\ status = "running" /\ current # Idle
  /\ Refuse("handler_error")

\* Mutant: any event of the heap is looked at, not the first.
StopAtAnyLateEvent ==
  /\ status = "running" /\ current = Idle
  /\ queue = {} \/ \E e \in queue : e.when >= StopTime
  /\ status' = "ready"
  /\ UNCHANGED <<now, queue, ids, nextSeq, dispatched, current, log>>

\* The heap is empty, or its first event is due at or after stop_time_ps and
\* is pushed back.
Stop ==
  /\ status = "running" /\ current = Idle
  /\ \A e \in queue : IsFirst(e, queue) => e.when >= StopTime
  /\ status' = "ready"
  /\ UNCHANGED <<now, queue, ids, nextSeq, dispatched, current, log>>

\* Nothing catches the exception: the process is left as it is.
Crashed == status \in Raised /\ UNCHANGED vars

Next ==
  \/ \E id \in Ids, w \in Times, p \in UsedPhases : ScheduleAt(id, w, p)
  \/ \E id \in Ids, d \in Delays, p \in UsedPhases : ScheduleAfter(id, d, p)
  \/ Run
  \/ \E e \in queue : Dispatch(e)
  \/ HandlerReturns \/ HandlerRaises \/ Stop \/ Crashed

\* run() does not return while it can go on, and handlers terminate.
Fairness ==
  /\ WF_vars(\E e \in queue : Dispatch(e))
  /\ WF_vars(HandlerReturns)

Spec == Init /\ [][Next]_vars
FairSpec == Spec /\ Fairness

-----------------------------------------------------------------------------
TypeOK ==
  /\ now \in Nat
  /\ queue \subseteq Event
  /\ ids \subseteq Ids
  /\ nextSeq \in Nat
  /\ dispatched \in Nat
  /\ log \in Seq(Event)
  /\ current \in Nat \union {Idle}
  /\ status \in {"ready", "running"} \union Raised

\* The id set is the ids of the heap, and an id names one pending event: an
\* id is refused exactly while its event is pending (schedule_at, run).
IdsNamePending ==
  /\ ids = {e.id : e \in queue}
  /\ \A e, f \in queue : e.id = f.id => e = f

\* The clock never overtakes a pending event, so popping the smallest event
\* never moves the clock backwards (schedule_at's check, run).
NothingPendingInThePast == \A e \in queue : e.when >= now

\* Pending events have different numbers, all below the counter, so the heap
\* order is total and the pop deterministic (itertools.count, _QueuedEvent).
TotalOrder ==
  /\ \A e \in queue : e.seq < nextSeq
  /\ \A e, f \in queue : e.seq = f.seq => e = f

\* run() publishes in time order, and at one instant an event of an earlier
\* phase can only follow one of a later phase when it was accepted after the
\* latter was published: a deadline never overtakes an arrival that was
\* already pending for the same instant (run, EventPhase).
PublishedInOrder ==
  \A j \in DOMAIN log : \A i \in 1 .. j - 1 :
    /\ log[i].when <= log[j].when
    /\ log[i].when = log[j].when /\ log[j].phase < log[i].phase => log[j].after >= i

\* Two events of the same instant and phase are published in the order in
\* which they were accepted, however they were mixed with others (sequence).
FirstInFirstOut ==
  \A j \in DOMAIN log : \A i \in 1 .. j - 1 :
    log[i].when = log[j].when /\ log[i].phase = log[j].phase
      => log[i].seq < log[j].seq

\* Within a run() that nothing raises out of, every event due before the stop
\* time is published; only the bound on accepted events keeps handlers from
\* scheduling for ever (run).
DueEventsArePublished ==
  \A s \in 0 .. MaxEvents - 1 :
    (status = "running" /\ \E e \in queue : e.seq = s /\ e.when < StopTime)
      ~> (status \in Raised \/ \E i \in DOMAIN log : log[i].seq = s)
=============================================================================
