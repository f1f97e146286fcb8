--------------------------- MODULE SchedulerProofs ---------------------------
(***************************************************************************)
(* The safety of DeterministicScheduler for every set of identifiers,      *)
(* times, delays and phases, every stop time and any number of events; and *)
(* that the two implementations of the scheduler port, this one and        *)
(* SequenceEventScheduler, cannot be told apart by a caller, for every     *)
(* stride too, until the adapter runs out of priorities and raises.        *)
(***************************************************************************)
EXTENDS SequenceScheduler, TLAPS, SequenceTheorems

LEMMA PhasesAreNumbers == Phases \subseteq Nat
BY DEF Phases, PhysicalArrival, DeviceCompletion, Protocol, Control, Timeout, Observability

LEMMA EventFields ==
  ASSUME NEW e \in Event
  PROVE  /\ e.id \in Ids /\ e.when \in Nat /\ e.phase \in Nat /\ e.seq \in Nat /\ e.after \in Nat
BY PhasesAreNumbers DEF Event

-----------------------------------------------------------------------------
(* What a step does to the heap and the log. *)

\* Some event is accepted, due w from now or later.
Accepts == \E id \in Ids, w \in Nat, p \in UsedPhases : Accept(id, w, p)

\* Neither the heap nor the log nor the clock moves.
Keeps == UNCHANGED <<now, queue, ids, nextSeq, log>>

LEMMA StepShape ==
  ASSUME TypeOK, [Next]_vars
  PROVE  Accepts \/ Keeps \/ \E e \in queue : Dispatch(e)
<1>1. ASSUME NEW id \in Ids, NEW w \in Int, NEW p \in UsedPhases, ScheduleAt(id, w, p)
      PROVE  Accepts \/ Keeps
  <2>1. CASE Accept(id, w, p)
    <3>1. w \in Nat
      BY <2>1 DEF Accept, TypeOK
    <3>2. QED
      BY <2>1, <3>1 DEF Accepts
  <2>2. CASE ~Accept(id, w, p)
    BY <1>1, <2>2 DEF ScheduleAt, Refuse, Keeps
  <2>3. QED
    BY <2>1, <2>2
<1>2. ASSUME NEW id \in Ids, NEW d \in Delays, NEW p \in UsedPhases, ScheduleAfter(id, d, p)
      PROVE  Accepts \/ Keeps
  <2>1. now + d \in Int
    BY SchedulerAssumption DEF TypeOK
  <2>2. CASE ScheduleAt(id, now + d, p)
    BY <1>1, <2>1, <2>2
  <2>3. CASE Refuse("past_event")
    BY <2>3 DEF Refuse, Keeps
  <2>4. QED
    BY <1>2, <2>2, <2>3 DEF ScheduleAfter
<1>3. Times \subseteq Int
  BY SchedulerAssumption
<1>4. CASE Run \/ HandlerReturns \/ HandlerRaises \/ Stop \/ Crashed \/ UNCHANGED vars
  BY <1>4 DEF Run, HandlerReturns, HandlerRaises, Stop, Crashed, Refuse, Keeps, vars
<1>5. QED
  BY <1>1, <1>2, <1>3, <1>4 DEF Next

LEMMA LogGrows ==
  ASSUME TypeOK, NEW e \in queue, Dispatch(e)
  PROVE  /\ Len(log) \in Nat /\ DOMAIN log = 1 .. Len(log) /\ DOMAIN log' = 1 .. Len(log) + 1
         /\ \A i \in 1 .. Len(log) : log'[i] = log[i] /\ log[i] \in Event
         /\ log'[Len(log) + 1] = e /\ log' \in Seq(Event) /\ e \in Event
<1>1. log \in Seq(Event) /\ e \in Event /\ log' = Append(log, e)
  BY DEF TypeOK, Dispatch
<1>2. log' \in Seq(Event) /\ Len(log') = Len(log) + 1
  BY <1>1, AppendProperties
<1>3. /\ \A i \in 1 .. Len(log) : log'[i] = log[i]
      /\ log'[Len(log) + 1] = e
  BY <1>1, AppendProperties
<1>4. QED
  BY <1>1, <1>2, <1>3, LenProperties, ElementOfSeq

-----------------------------------------------------------------------------
(* Types. *)

LEMMA AcceptTypes ==
  ASSUME TypeOK, Accepts
  PROVE  TypeOK'
<1>1. PICK id \in Ids, w \in Nat, p \in UsedPhases : Accept(id, w, p)
  BY DEF Accepts
<1> DEFINE e == [id |-> id, when |-> w, phase |-> p, seq |-> nextSeq, after |-> Len(log)]
<1>2. p \in Phases /\ Len(log) \in Nat /\ nextSeq \in Nat
  BY SchedulerAssumption, LenProperties DEF TypeOK
<1>3. e \in Event
  BY <1>2 DEF Event
<1>4. queue' = queue \union {e} /\ ids' = ids \union {id} /\ nextSeq' = nextSeq + 1
      /\ UNCHANGED <<now, dispatched, current, status, log>>
  BY <1>1 DEF Accept, Push
<1> HIDE DEF e
<1>5. QED
  BY <1>2, <1>3, <1>4 DEF TypeOK

LEMMA NextTypes ==
  ASSUME TypeOK, [Next]_vars
  PROVE  TypeOK'
<1>1. CASE Accepts
  BY <1>1, AcceptTypes
<1>2. CASE \E e \in queue : Dispatch(e)
  <2>1. PICK e \in queue : Dispatch(e)
    BY <1>2
  <2>2. log' \in Seq(Event) /\ e \in Event /\ Len(log) \in Nat
    BY <2>1, LogGrows
  <2>3. QED
    BY <2>1, <2>2, EventFields DEF Dispatch, TypeOK
<1>3. CASE Run \/ HandlerReturns \/ HandlerRaises \/ Stop \/ Crashed \/ UNCHANGED vars
  BY <1>3 DEF Run, HandlerReturns, HandlerRaises, Stop, Crashed, Refuse, TypeOK, Raised, vars
<1>4. ASSUME Keeps, \/ \E id \in Ids, w \in Times, p \in UsedPhases : ScheduleAt(id, w, p)
                    \/ \E id \in Ids, d \in Delays, p \in UsedPhases : ScheduleAfter(id, d, p),
             ~Accepts
      PROVE  TypeOK'
  <2>1. \E error \in Raised : Refuse(error)
    <3>1. ASSUME NEW id \in Ids, NEW w \in Int, NEW p \in UsedPhases, ScheduleAt(id, w, p)
          PROVE  \E error \in Raised : Refuse(error)
      <4>1. ~Accept(id, w, p)
        <5>1. CASE w \in Nat
          BY <1>4, <5>1 DEF Accepts
        <5>2. CASE w \notin Nat
          BY <5>2 DEF Accept, TypeOK
        <5>3. QED
          BY <5>1, <5>2
      <4>2. QED
        BY <3>1, <4>1 DEF ScheduleAt, Raised
    <3>2. ASSUME NEW id \in Ids, NEW d \in Delays, NEW p \in UsedPhases,
                 ScheduleAfter(id, d, p)
          PROVE  \E error \in Raised : Refuse(error)
      <4>1. now + d \in Int
        BY SchedulerAssumption DEF TypeOK
      <4>2. QED
        BY <3>1, <3>2, <4>1 DEF ScheduleAfter, Raised
    <3>3. QED
      BY <1>4, <3>1, <3>2, SchedulerAssumption
  <2>2. QED
    BY <2>1 DEF Refuse, TypeOK
<1>5. QED
  BY <1>1, <1>2, <1>3, <1>4, StepShape DEF Next

\* The scheduler's state has its type.
THEOREM SchedulerTypes == Spec => []TypeOK
<1>1. Init => TypeOK
  BY EmptySeq DEF Init, TypeOK
<1>2. TypeOK /\ [Next]_vars => TypeOK'
  BY NextTypes
<1>3. QED
  BY <1>1, <1>2, PTL DEF Spec

-----------------------------------------------------------------------------
(* The heap. *)

\* The strengthening under which the heap is well formed.
Heap == IdsNamePending /\ NothingPendingInThePast /\ TotalOrder

LEMMA NextHeap ==
  ASSUME TypeOK, Heap, [Next]_vars
  PROVE  Heap'
<1>1. CASE Keeps
  BY <1>1 DEF Keeps, Heap, IdsNamePending, NothingPendingInThePast, TotalOrder
<1>2. CASE Accepts
  <2>1. PICK id \in Ids, w \in Nat, p \in UsedPhases : Accept(id, w, p)
    BY <1>2 DEF Accepts
  <2> DEFINE e == [id |-> id, when |-> w, phase |-> p, seq |-> nextSeq, after |-> Len(log)]
  <2>2. /\ queue' = queue \union {e} /\ ids' = ids \union {id} /\ nextSeq' = nextSeq + 1
        /\ now' = now /\ w >= now /\ id \notin ids
    BY <2>1 DEF Accept, Push
  <2>3. e.id = id /\ e.when = w /\ e.seq = nextSeq
    OBVIOUS
  <2> HIDE DEF e
  <2>4. IdsNamePending'
    BY <2>2, <2>3 DEF Heap, IdsNamePending
  <2>5. NothingPendingInThePast'
    BY <2>2, <2>3 DEF Heap, NothingPendingInThePast
  <2>6. TotalOrder'
    <3>1. \A f \in queue : f.seq \in Nat /\ f.seq < nextSeq
      BY EventFields DEF TypeOK, Heap, TotalOrder
    <3>2. nextSeq \in Nat
      BY DEF TypeOK
    <3>3. \A f \in queue' : f.seq < nextSeq'
      BY <2>2, <2>3, <3>1, <3>2
    <3>4. \A f, g \in queue' : f.seq = g.seq => f = g
      BY <2>2, <2>3, <3>1, <3>2 DEF Heap, TotalOrder
    <3>5. QED
      BY <3>3, <3>4 DEF TotalOrder
  <2>7. QED
    BY <2>4, <2>5, <2>6 DEF Heap
<1>3. CASE \E e \in queue : Dispatch(e)
  <2>1. PICK e \in queue : Dispatch(e)
    BY <1>3
  <2>2. /\ queue' = queue \ {e} /\ ids' = ids \ {e.id} /\ now' = e.when
        /\ nextSeq' = nextSeq /\ IsFirst(e, queue)
    BY <2>1 DEF Dispatch
  <2>3. IdsNamePending'
    BY <2>2 DEF Heap, IdsNamePending
  <2>4. NothingPendingInThePast'
    <3> SUFFICES ASSUME NEW f \in queue \ {e} PROVE f.when >= e.when
      BY <2>2 DEF NothingPendingInThePast
    <3>1. Before(e, f)
      BY <2>2 DEF IsFirst
    <3>2. e.when \in Nat /\ f.when \in Nat
      BY EventFields DEF TypeOK
    <3>3. QED
      BY <3>1, <3>2 DEF Before
  <2>5. TotalOrder'
    BY <2>2 DEF Heap, TotalOrder
  <2>6. QED
    BY <2>3, <2>4, <2>5 DEF Heap
<1>4. QED
  BY <1>1, <1>2, <1>3, StepShape

THEOREM SchedulerHeap == Spec => []Heap
<1>1. Init => Heap
  BY DEF Init, Heap, IdsNamePending, NothingPendingInThePast, TotalOrder
<1>2. TypeOK /\ Heap /\ [Next]_vars => Heap'
  BY NextHeap
<1>3. QED
  BY <1>1, <1>2, SchedulerTypes, PTL DEF Spec

\* An id is taken exactly while the one event it names is pending.
COROLLARY SchedulerIds == Spec => []IdsNamePending
BY SchedulerHeap, PTL DEF Heap

\* The clock never overtakes a pending event.
COROLLARY SchedulerClock == Spec => []NothingPendingInThePast
BY SchedulerHeap, PTL DEF Heap

\* Two pending events are never equal in the heap's order.
COROLLARY SchedulerOrder == Spec => []TotalOrder
BY SchedulerHeap, PTL DEF Heap

-----------------------------------------------------------------------------
(* The order of publication. *)

\* What is pending compared with what has been published.
LogIsPast == \A i \in DOMAIN log : log[i].when <= now /\ log[i].seq < nextSeq

PendingBehindLog ==
  \A f \in queue : \A i \in DOMAIN log :
    log[i].when = f.when =>
      /\ f.phase < log[i].phase => f.after >= i
      /\ f.phase = log[i].phase => log[i].seq < f.seq

Publication == LogIsPast /\ PendingBehindLog /\ PublishedInOrder /\ FirstInFirstOut

LEMMA NextPublication ==
  ASSUME TypeOK, Heap, Publication, [Next]_vars
  PROVE  Publication'
<1>1. CASE Keeps
  BY <1>1 DEF Keeps, Publication, LogIsPast, PendingBehindLog, PublishedInOrder, FirstInFirstOut
<1>2. CASE Accepts
  <2>1. PICK id \in Ids, w \in Nat, p \in UsedPhases : Accept(id, w, p)
    BY <1>2 DEF Accepts
  <2> DEFINE e == [id |-> id, when |-> w, phase |-> p, seq |-> nextSeq, after |-> Len(log)]
  <2>2. /\ queue' = queue \union {e} /\ nextSeq' = nextSeq + 1 /\ UNCHANGED <<now, log>>
    BY <2>1 DEF Accept, Push
  <2>3. e.when = w /\ e.seq = nextSeq /\ e.after = Len(log)
    OBVIOUS
  <2> HIDE DEF e
  <2>4. DOMAIN log = 1 .. Len(log) /\ Len(log) \in Nat /\ nextSeq \in Nat
        /\ \A i \in DOMAIN log : log[i].seq \in Nat
    BY LenProperties, ElementOfSeq, EventFields DEF TypeOK
  <2>5. LogIsPast'
    BY <2>2, <2>4 DEF Publication, LogIsPast
  <2>6. PendingBehindLog'
    <3> SUFFICES ASSUME NEW f \in queue', NEW i \in DOMAIN log, log[i].when = f.when
                 PROVE  /\ f.phase < log[i].phase => f.after >= i
                        /\ f.phase = log[i].phase => log[i].seq < f.seq
      BY <2>2 DEF PendingBehindLog
    <3>1. CASE f \in queue
      BY <3>1 DEF Publication, PendingBehindLog
    <3>2. CASE f = e
      BY <2>3, <2>4, <3>2 DEF Publication, LogIsPast
    <3>3. QED
      BY <2>2, <3>1, <3>2
  <2>7. QED
    BY <2>2, <2>5, <2>6 DEF Publication, PublishedInOrder, FirstInFirstOut
<1>3. CASE \E e \in queue : Dispatch(e)
  <2>1. PICK e \in queue : Dispatch(e)
    BY <1>3
  <2> DEFINE n == Len(log)
  <2>2. /\ n \in Nat /\ DOMAIN log = 1 .. n /\ DOMAIN log' = 1 .. n + 1
        /\ \A i \in 1 .. n : log'[i] = log[i] /\ log[i] \in Event
        /\ log'[n + 1] = e /\ e \in Event
    BY <2>1, LogGrows
  <2>3. /\ queue' = queue \ {e} /\ now' = e.when /\ nextSeq' = nextSeq /\ IsFirst(e, queue)
    BY <2>1 DEF Dispatch
  <2> HIDE DEF n
  <2>4. \A i \in 1 .. n + 1 : i \in 1 .. n \/ i = n + 1
    BY <2>2
  <2>5. \A i \in 1 .. n : log[i].when <= e.when
    <3> SUFFICES ASSUME NEW i \in 1 .. n PROVE log[i].when <= e.when
      OBVIOUS
    <3>1. log[i].when <= now /\ e.when >= now
      BY <2>2 DEF Publication, LogIsPast, Heap, NothingPendingInThePast
    <3>2. log[i].when \in Nat /\ now \in Nat /\ e.when \in Nat
      BY <2>2, EventFields DEF TypeOK
    <3>3. QED
      BY <3>1, <3>2
  <2>6. LogIsPast'
    <3> SUFFICES ASSUME NEW i \in 1 .. n + 1
                 PROVE  log'[i].when <= e.when /\ log'[i].seq < nextSeq
      BY <2>2, <2>3 DEF LogIsPast
    <3>1. CASE i \in 1 .. n
      BY <2>2, <2>5, <3>1 DEF Publication, LogIsPast
    <3>2. CASE i = n + 1
      <4>1. e.when <= e.when
        BY <2>2, EventFields
      <4>2. QED
        BY <2>2, <3>2, <4>1 DEF Heap, TotalOrder
    <3>3. QED
      BY <2>4, <3>1, <3>2
  <2>7. PendingBehindLog'
    <3> SUFFICES ASSUME NEW f \in queue \ {e}, NEW i \in 1 .. n + 1, log'[i].when = f.when
                 PROVE  /\ f.phase < log'[i].phase => f.after >= i
                        /\ f.phase = log'[i].phase => log'[i].seq < f.seq
      BY <2>2, <2>3 DEF PendingBehindLog
    <3>1. CASE i \in 1 .. n
      BY <2>2, <3>1 DEF Publication, PendingBehindLog
    <3>2. CASE i = n + 1
      <4>1. Before(e, f)
        BY <2>3 DEF IsFirst
      <4>2. f \in Event
        BY DEF TypeOK
      <4>3. e.when = f.when /\ e.when \in Nat /\ e.phase \in Nat /\ f.phase \in Nat
        BY <2>2, <3>2, <4>2, EventFields
      <4>4. e.phase < f.phase \/ (e.phase = f.phase /\ e.seq < f.seq)
        BY <4>1, <4>3 DEF Before
      <4>5. QED
        BY <2>2, <3>2, <4>3, <4>4
    <3>3. QED
      BY <2>4, <3>1, <3>2
  <2>8. PublishedInOrder'
    <3> SUFFICES ASSUME NEW j \in 1 .. n + 1, NEW i \in 1 .. j - 1
                 PROVE  /\ log'[i].when <= log'[j].when
                        /\ log'[i].when = log'[j].when /\ log'[j].phase < log'[i].phase
                             => log'[j].after >= i
      BY <2>2 DEF PublishedInOrder
    <3>1. i \in 1 .. n
      BY <2>2
    <3>2. CASE j \in 1 .. n
      BY <2>2, <3>1, <3>2 DEF Publication, PublishedInOrder
    <3>3. CASE j = n + 1
      BY <2>2, <2>5, <3>1, <3>3 DEF Publication, PendingBehindLog
    <3>4. QED
      BY <2>4, <3>2, <3>3
  <2>9. FirstInFirstOut'
    <3> SUFFICES ASSUME NEW j \in 1 .. n + 1, NEW i \in 1 .. j - 1,
                        log'[i].when = log'[j].when, log'[i].phase = log'[j].phase
                 PROVE  log'[i].seq < log'[j].seq
      BY <2>2 DEF FirstInFirstOut
    <3>1. i \in 1 .. n
      BY <2>2
    <3>2. CASE j \in 1 .. n
      BY <2>2, <3>1, <3>2 DEF Publication, FirstInFirstOut
    <3>3. CASE j = n + 1
      BY <2>2, <3>1, <3>3 DEF Publication, PendingBehindLog
    <3>4. QED
      BY <2>4, <3>2, <3>3
  <2>10. QED
    BY <2>6, <2>7, <2>8, <2>9 DEF Publication
<1>4. QED
  BY <1>1, <1>2, <1>3, StepShape

THEOREM SchedulerPublication == Spec => []Publication
<1>1. Init => Publication
  BY DEF Init, Publication, LogIsPast, PendingBehindLog, PublishedInOrder, FirstInFirstOut
<1>2. TypeOK /\ Heap /\ Publication /\ [Next]_vars => Publication'
  BY NextPublication
<1>3. QED
  BY <1>1, <1>2, SchedulerTypes, SchedulerHeap, PTL DEF Spec

\* A deadline never overtakes an arrival that was pending for its instant.
COROLLARY SchedulerPublishesInOrder == Spec => []PublishedInOrder
BY SchedulerPublication, PTL DEF Publication

\* Events of one instant and phase are published in the order of acceptance.
COROLLARY SchedulerIsFair == Spec => []FirstInFirstOut
BY SchedulerPublication, PTL DEF Publication

-----------------------------------------------------------------------------
(* Both implementations.  The heaps hold different things.  What relates   *)
(* them is a pairing: the adapter's event of an id has the due time of the *)
(* scheduler's, and a priority that is a number of the block its phase     *)
(* owns; within a block the numbers grow with the order of acceptance.     *)

\* The block of priorities of a phase ends where the next one's begins.
LEMMA BlocksAreApart ==
  ASSUME NEW p \in Phases, NEW q \in Phases, p < q
  PROVE  p * Stride + Stride <= q * Stride
BY StrideAssumption
   DEF Phases, PhysicalArrival, DeviceCompletion, Protocol, Control, Timeout, Observability

LEMMA BlocksAreNumbers ==
  ASSUME NEW p \in Phases
  PROVE  p * Stride \in Nat
BY StrideAssumption
   DEF Phases, PhysicalArrival, DeviceCompletion, Protocol, Control, Timeout, Observability

\* What _sequences answers for an instant and a phase after one more event.
LEMMA Counting ==
  ASSUME NEW k, NEW j, sequences' = BagAdd(sequences, k)
  PROVE  Sequence(j)' =
           IF j = k THEN (IF k \in DOMAIN sequences THEN sequences[k] + 1 ELSE 1)
           ELSE Sequence(j)
BY DEF Sequence, BagIn, BagToSet, BagAdd

-----------------------------------------------------------------------------
(* The pairing of the two heaps. *)

Slots == Nat \X Phases

\* The number encode_priority gave the adapter's event within its block.
Numbered(e, x) ==
  /\ x.priority - e.phase * Stride \in Nat
  /\ x.priority - e.phase * Stride < Stride
  /\ x.priority - e.phase * Stride < Sequence(<<e.when, e.phase>>)

Pair(e, x) == x.id = e.id /\ x.when = e.when /\ Numbered(e, x)

AdapterTypes ==
  /\ heap \subseteq [id : Ids, when : Nat, priority : Nat]
  /\ \A k \in Slots : Sequence(k) \in Nat

Paired ==
  /\ \A e \in queue : \E x \in heap : Pair(e, x)
  /\ \A x \in heap : \E e \in queue : Pair(e, x)
  /\ \A x, y \in heap : x.id = y.id => x = y

\* Within one block the order of acceptance is the order of the priorities.
Aligned ==
  \A e, f \in queue : \A x, y \in heap :
    Pair(e, x) /\ Pair(f, y) /\ e.when = f.when /\ e.phase = f.phase /\ e.seq < f.seq
      => x.priority < y.priority

SameView ==
  /\ time = now /\ outcome = status /\ runCounter = dispatched
  /\ published = IF current = Idle THEN Idle ELSE log[current].id
  /\ registry = ids

Ports == AdapterLost \/ (AdapterTypes /\ Paired /\ Aligned /\ SameView)

\* An event that comes first in one heap comes first in the other.
LEMMA PairedOrder ==
  ASSUME TypeOK, AdapterTypes, Aligned,
         NEW e \in queue, NEW f \in queue, NEW x \in heap, NEW y \in heap,
         Pair(e, x), Pair(f, y), Before(e, f)
  PROVE  x.when < y.when \/ (x.when = y.when /\ x.priority < y.priority)
<1>1. e \in Event /\ f \in Event
  BY DEF TypeOK
<1>2. /\ e.when \in Nat /\ f.when \in Nat /\ e.phase \in Nat /\ f.phase \in Nat
      /\ e.phase \in Phases /\ f.phase \in Phases
  BY <1>1, EventFields DEF Event
<1>3. x.priority \in Nat /\ y.priority \in Nat
  BY DEF AdapterTypes
<1>4. x.when = e.when /\ y.when = f.when
  BY DEF Pair
<1>5. CASE e.when < f.when
  BY <1>4, <1>5
<1>6. CASE e.when = f.when /\ e.phase < f.phase
  <2> DEFINE b == e.phase * Stride
             c == f.phase * Stride
  <2>1. b + Stride <= c
    BY <1>2, <1>6, BlocksAreApart
  <2>2. b \in Nat /\ c \in Nat /\ Stride \in Nat
    BY <1>2, BlocksAreNumbers, StrideAssumption
  <2>3. x.priority - b < Stride /\ y.priority - c \in Nat
    BY DEF Pair, Numbered
  <2> HIDE DEF b, c
  <2>4. x.priority < y.priority
    BY <1>3, <2>1, <2>2, <2>3
  <2>5. QED
    BY <1>4, <1>6, <2>4
<1>7. CASE e.when = f.when /\ e.phase = f.phase /\ e.seq < f.seq
  BY <1>4, <1>7 DEF Aligned
<1>8. QED
  BY <1>5, <1>6, <1>7 DEF Before

LEMMA SameFirst ==
  ASSUME TypeOK, AdapterTypes, Paired, Aligned,
         NEW x \in heap, NEW e \in queue, TimelineFirst(x), IsFirst(e, queue)
  PROVE  x.id = e.id /\ Pair(e, x)
<1>1. PICK f \in queue : Pair(f, x)
  BY DEF Paired
<1>2. PICK y \in heap : Pair(e, y)
  BY DEF Paired
<1>3. CASE f = e
  BY <1>1, <1>3 DEF Pair
<1>4. CASE f # e
  <2>1. Before(e, f)
    BY <1>4 DEF IsFirst
  <2>2. y.when < x.when \/ (y.when = x.when /\ y.priority < x.priority)
    BY <1>1, <1>2, <2>1, PairedOrder
  <2>3. x.when < y.when \/ (x.when = y.when /\ x.priority <= y.priority)
    BY DEF TimelineFirst
  <2>4. x.when \in Nat /\ y.when \in Nat /\ x.priority \in Nat /\ y.priority \in Nat
    BY DEF AdapterTypes
  <2>5. QED
    BY <2>2, <2>3, <2>4
<1>5. QED
  BY <1>3, <1>4

\* What the pairing says to a caller.
LEMMA PortsAgreeByPairing ==
  ASSUME TypeOK, Ports
  PROVE  PortsAgree
<1> SUFFICES ASSUME ~AdapterLost PROVE PortsAgree
  BY DEF PortsAgree
<1>1. AdapterTypes /\ Paired /\ Aligned /\ SameView
  BY DEF Ports
<1>2. {<<x.id, x.when>> : x \in heap} = {<<e.id, e.when>> : e \in queue}
  BY <1>1 DEF Paired, Pair
<1>3. \A x \in heap, e \in queue : TimelineFirst(x) /\ IsFirst(e, queue) => x.id = e.id
  BY <1>1, SameFirst
<1>4. QED
  BY <1>1, <1>2, <1>3 DEF PortsAgree, SameView

-----------------------------------------------------------------------------
(* The steps. *)

\* A step that leaves both heaps alone.
LEMMA HeapsKept ==
  ASSUME AdapterTypes, Paired, Aligned, UNCHANGED <<queue, heap, sequences>>
  PROVE  (AdapterTypes /\ Paired /\ Aligned)'
BY DEF AdapterTypes, Paired, Aligned, Pair, Numbered, Sequence

LEMMA BothRefuse ==
  ASSUME AdapterTypes, Paired, Aligned, SameView,
         NEW error, Refuse(error), AdapterRefuses(error)
  PROVE  Ports'
<1>1. UNCHANGED <<queue, heap, sequences, time, now, runCounter, dispatched, published,
                  current, log, registry, ids>> /\ outcome' = status'
  BY DEF Refuse, AdapterRefuses
<1>2. (AdapterTypes /\ Paired /\ Aligned)'
  BY <1>1, HeapsKept
<1>3. SameView'
  BY <1>1 DEF SameView
<1>4. QED
  BY <1>2, <1>3 DEF Ports

LEMMA BothAccept ==
  ASSUME TypeOK, Heap, AdapterTypes, Paired, Aligned, SameView,
         NEW id \in Ids, NEW w \in Nat, NEW p \in UsedPhases,
         Accept(id, w, p), Register(id, w, p)
  PROVE  Ports'
<1> DEFINE k == <<w, p>>
           n == Sequence(k)
<1>a. PICK e : e = [id |-> id, when |-> w, phase |-> p, seq |-> nextSeq, after |-> Len(log)]
  OBVIOUS
<1>b. PICK x : x = [id |-> id, when |-> w, priority |-> p * Stride + n]
  OBVIOUS
<1> SUFFICES ASSUME ~AdapterLost' PROVE Ports'
  BY DEF Ports
<1>1. /\ queue' = queue \union {e} /\ ids' = ids \union {id} /\ nextSeq' = nextSeq + 1
      /\ UNCHANGED <<now, dispatched, current, status, log>> /\ id \notin ids
  BY <1>a DEF Accept, Push
<1>2. /\ heap' = heap \union {x} /\ n < Stride /\ UNCHANGED outcome
      /\ registry' = registry \union {id} /\ sequences' = BagAdd(sequences, k)
      /\ UNCHANGED <<time, runCounter, published>>
  BY <1>b DEF Register, EncodePriority, AdapterLost
<1>3. p \in Phases /\ k \in Slots /\ n \in Nat /\ Stride \in Nat /\ p * Stride \in Nat
  BY SchedulerAssumption, StrideAssumption, BlocksAreNumbers DEF AdapterTypes, Slots
<1>4. /\ e.id = id /\ e.when = w /\ e.phase = p /\ e.seq = nextSeq
      /\ x.id = id /\ x.when = w /\ x.priority = p * Stride + n
  BY <1>a, <1>b
<1>5. /\ Sequence(k)' = n + 1
      /\ \A j \in Slots : j # k => Sequence(j)' = Sequence(j)
  <2>1. n = IF k \in DOMAIN sequences THEN sequences[k] ELSE 0
    BY DEF Sequence, BagIn, BagToSet
  <2>2. Sequence(k)' = IF k \in DOMAIN sequences THEN sequences[k] + 1 ELSE 1
    BY <1>2, Counting
  <2>3. \A j : j # k => Sequence(j)' = Sequence(j)
    BY <1>2, Counting
  <2> HIDE DEF k, n
  <2>4. Sequence(k)' = n + 1
    BY <2>1, <2>2
  <2>5. QED
    BY <2>3, <2>4
<1>6. \A j \in Slots : /\ Sequence(j) \in Nat /\ Sequence(j)' \in Nat
                       /\ Sequence(j) <= Sequence(j)'
  <2> TAKE j \in Slots
  <2>1. Sequence(j) \in Nat
    BY DEF AdapterTypes
  <2>2. CASE j = k
    BY <1>3, <1>5, <2>1, <2>2
  <2>3. CASE j # k
    BY <1>5, <2>1, <2>3
  <2>4. QED
    BY <2>2, <2>3
<1>7. /\ p * Stride + n - p * Stride = n
      /\ p * Stride + n \in Nat
  <2> HIDE DEF n
  <2> DEFINE b == p * Stride
  <2>1. b \in Nat
    BY <1>3
  <2> HIDE DEF b
  <2>2. b + n - b = n /\ b + n \in Nat
    BY <1>3, <2>1
  <2>3. QED
    BY <2>2 DEF b
<1>8. x \in [id : Ids, when : Nat, priority : Nat]
  BY <1>7, <1>b
<1>9. AdapterTypes'
  BY <1>2, <1>6, <1>8 DEF AdapterTypes
<1>10. \A f \in queue : /\ f.when \in Nat /\ f.phase \in Phases /\ f.seq \in Nat
                        /\ f.seq < nextSeq /\ f.id \in ids /\ <<f.when, f.phase>> \in Slots
  BY EventFields DEF TypeOK, Event, Heap, TotalOrder, IdsNamePending, Slots
<1>11. \A y \in heap : y.priority \in Nat /\ y.id \in ids
  BY <1>10 DEF AdapterTypes, Paired, Pair
<1>12. \A f \in queue, y \in heap : Pair(f, y) => Pair(f, y)'
  <2> SUFFICES ASSUME NEW f \in queue, NEW y \in heap, Pair(f, y) PROVE Pair(f, y)'
    OBVIOUS
  <2> DEFINE m == y.priority - f.phase * Stride
             c == Sequence(<<f.when, f.phase>>)
             d == Sequence(<<f.when, f.phase>>)'
  <2>1. m \in Nat /\ m < Stride /\ m < c
    BY DEF Pair, Numbered
  <2>2. c \in Nat /\ d \in Nat /\ c <= d
    BY <1>6, <1>10
  <2>3. m \in Nat /\ m < Stride /\ m < d
    <3> HIDE DEF m, c, d
    <3> QED
      BY <2>1, <2>2
  <2>4. QED
    BY <2>3 DEF Pair, Numbered
<1>13. \A f \in queue, y \in heap : Pair(f, y)' => Pair(f, y)
  <2> SUFFICES ASSUME NEW f \in queue, NEW y \in heap, Pair(f, y)' PROVE Pair(f, y)
    OBVIOUS
  <2>1. y.id = f.id
    BY DEF Pair
  <2>2. PICK g \in queue : Pair(g, y)
    BY DEF Paired
  <2>3. g.id = f.id
    BY <2>1, <2>2 DEF Pair
  <2>4. g = f
    BY <2>3 DEF Heap, IdsNamePending
  <2>5. QED
    BY <2>2, <2>4
<1>14. Pair(e, x)'
  <2>1. <<e.when, e.phase>> = k /\ x.priority - e.phase * Stride = n
    <3>1. e.phase = p /\ e.when = w
      BY <1>4
    <3>2. e.phase * Stride = p * Stride /\ x.priority = p * Stride + n
      BY <1>4, <3>1
    <3> DEFINE b == p * Stride
    <3>3. b \in Nat /\ n \in Nat
      BY <1>3
    <3> HIDE DEF n, b
    <3>4. e.phase * Stride = b /\ x.priority = b + n
      BY <3>2 DEF b
    <3> DEFINE c == e.phase * Stride
    <3>5. c = b
      BY <3>4
    <3> HIDE DEF c
    <3>6. x.priority - c = n
      BY <3>3, <3>4, <3>5
    <3>7. QED
      BY <3>1, <3>6 DEF c
  <2>2. n < Sequence(k)'
    <3> HIDE DEF n
    <3> QED BY <1>3, <1>5
  <2>3. QED
    BY <1>2, <1>3, <1>4, <2>1, <2>2 DEF Pair, Numbered
<1>15. /\ \A y \in heap : ~Pair(e, y)'
       /\ \A f \in queue : ~Pair(f, x)'
  BY <1>1, <1>4, <1>10, <1>11 DEF Pair
<1>16. Paired'
  <2>1. \A f \in queue' : \E y \in heap' : Pair(f, y)'
    BY <1>1, <1>2, <1>12, <1>14 DEF Paired
  <2>2. \A y \in heap' : \E f \in queue' : Pair(f, y)'
    BY <1>1, <1>2, <1>12, <1>14 DEF Paired
  <2>3. \A y, z \in heap' : y.id = z.id => y = z
    BY <1>1, <1>2, <1>4, <1>11 DEF Paired
  <2>4. QED
    BY <2>1, <2>2, <2>3 DEF Paired
<1>17. Aligned'
  <2> SUFFICES ASSUME NEW f \in queue', NEW g \in queue', NEW y \in heap', NEW z \in heap',
                      Pair(f, y)', Pair(g, z)',
                      f.when = g.when, f.phase = g.phase, f.seq < g.seq
               PROVE  y.priority < z.priority
    BY DEF Aligned
  <2>1. (f \in queue /\ y \in heap) \/ (f = e /\ y = x)
    BY <1>1, <1>2, <1>15
  <2>2. (g \in queue /\ z \in heap) \/ (g = e /\ z = x)
    BY <1>1, <1>2, <1>15
  <2>3. CASE f \in queue /\ y \in heap /\ g \in queue /\ z \in heap
    BY <1>13, <2>3 DEF Aligned
  <2>4. CASE f = e /\ y = x
    <3>1. nextSeq \in Nat /\ f.seq = nextSeq
      BY <1>4, <2>4 DEF TypeOK
    <3>2. CASE g \in queue
      <4>1. g.seq \in Nat /\ g.seq < nextSeq
        BY <1>10, <3>2
      <4>2. QED
        BY <3>1, <4>1
    <3>3. CASE g = e
      BY <2>4, <3>1, <3>3
    <3>4. QED
      BY <2>2, <3>2, <3>3
  <2>5. CASE f \in queue /\ y \in heap /\ g = e /\ z = x
    <3> DEFINE b == p * Stride
    <3>1. <<f.when, f.phase>> = k /\ f.phase = p
      BY <1>4, <2>5
    <3>2. y.priority - b < n
      BY <1>13, <2>5, <3>1 DEF Pair, Numbered
    <3>3. y.priority \in Nat /\ b \in Nat /\ n \in Nat /\ z.priority = b + n
      BY <1>3, <1>4, <1>11, <2>5
    <3> HIDE DEF b, n
    <3>4. QED
      BY <3>2, <3>3
  <2>6. QED
    BY <2>1, <2>2, <2>3, <2>4, <2>5
<1>18. SameView'
  BY <1>1, <1>2 DEF SameView
<1>19. QED
  BY <1>9, <1>16, <1>17, <1>18 DEF Ports

LEMMA ScheduleBoth ==
  ASSUME TypeOK, Heap, AdapterTypes, Paired, Aligned, SameView,
         NEW id \in Ids, NEW w \in Int, NEW p \in UsedPhases,
         ScheduleAt(id, w, p), AdapterScheduleAt(id, w, p)
  PROVE  Ports'
<1>1. time = now /\ registry = ids /\ now \in Nat
  BY DEF SameView, TypeOK
<1>2. CASE w < now
  <2>1. Refuse("past_event") /\ AdapterRefuses("past_event")
    BY <1>1, <1>2 DEF ScheduleAt, Accept, AdapterScheduleAt
  <2>2. QED
    BY <2>1, BothRefuse
<1>3. CASE w >= now /\ id \in ids
  <2>1. Refuse("duplicate_event") /\ AdapterRefuses("duplicate_event")
    BY <1>1, <1>3 DEF ScheduleAt, Accept, AdapterScheduleAt
  <2>2. QED
    BY <2>1, BothRefuse
<1>4. CASE w >= now /\ id \notin ids
  <2>1. Accept(id, w, p) /\ Register(id, w, p) /\ w \in Nat
    BY <1>1, <1>4 DEF ScheduleAt, AdapterScheduleAt
  <2>2. QED
    BY <2>1, BothAccept
<1>5. QED
  BY <1>1, <1>2, <1>3, <1>4

LEMMA DispatchBoth ==
  ASSUME TypeOK, Heap, AdapterTypes, Paired, Aligned, SameView, BothDispatch
  PROVE  Ports'
<1>1. PICK e \in queue : Dispatch(e)
  BY DEF BothDispatch
<1>2. PICK x \in heap : AdapterDispatch(x)
  BY DEF BothDispatch
<1>3. /\ queue' = queue \ {e} /\ ids' = ids \ {e.id} /\ now' = e.when
      /\ log' = Append(log, e) /\ current' = Len(log) + 1
      /\ UNCHANGED <<dispatched, status>> /\ IsFirst(e, queue)
  BY <1>1 DEF Dispatch
<1>4. /\ heap' = heap \ {x} /\ registry' = registry \ {x.id} /\ time' = x.when
      /\ published' = x.id /\ UNCHANGED <<sequences, runCounter, outcome>>
      /\ TimelineFirst(x)
  BY <1>2 DEF AdapterDispatch
<1>5. x.id = e.id /\ Pair(e, x) /\ x.when = e.when
  BY <1>3, <1>4, SameFirst DEF Pair
<1>6. Len(log) \in Nat /\ log'[Len(log) + 1] = e
  BY <1>1, LogGrows
<1>7. SameView'
  <2>1. current' # Idle
    BY <1>3, <1>6, SchedulerAssumption
  <2>2. published' = log'[current'].id
    BY <1>3, <1>4, <1>5, <1>6
  <2>3. QED
    BY <1>3, <1>4, <1>5, <2>1, <2>2 DEF SameView
<1>8. \A f, y : Pair(f, y)' <=> Pair(f, y)
  BY <1>4 DEF Pair, Numbered, Sequence
<1>9. Paired'
  <2>1. ASSUME NEW f \in queue \ {e} PROVE \E y \in heap \ {x} : Pair(f, y)
    <3>1. PICK y \in heap : Pair(f, y)
      BY DEF Paired
    <3>2. f.id # e.id
      BY DEF Heap, IdsNamePending
    <3>3. y # x
      BY <1>5, <3>1, <3>2 DEF Pair
    <3>4. QED
      BY <3>1, <3>3
  <2>2. ASSUME NEW y \in heap \ {x} PROVE \E f \in queue \ {e} : Pair(f, y)
    <3>1. PICK f \in queue : Pair(f, y)
      BY DEF Paired
    <3>2. f # e
      BY <1>5, <3>1 DEF Paired, Pair
    <3>3. QED
      BY <3>1, <3>2
  <2>3. QED
    BY <1>3, <1>4, <1>8, <2>1, <2>2 DEF Paired
<1>10. Aligned'
  BY <1>3, <1>4, <1>8 DEF Aligned
<1>11. AdapterTypes'
  BY <1>4 DEF AdapterTypes, Sequence
<1>12. QED
  BY <1>7, <1>9, <1>10, <1>11 DEF Ports

LEMMA NextPorts ==
  ASSUME TypeOK, Heap, Ports, [PortsNext]_portVars
  PROVE  Ports'
<1>1. CASE AdapterLost /\ UNCHANGED adapterVars
  BY <1>1 DEF AdapterLost, adapterVars, Ports
<1>2. CASE ~AdapterLost /\ Together
  <2>1. AdapterTypes /\ Paired /\ Aligned /\ SameView
    BY <1>2 DEF Ports
  <2>2. ASSUME NEW id \in Ids, NEW w \in Times, NEW p \in UsedPhases, BothScheduleAt(id, w, p)
        PROVE  Ports'
    <3>1. w \in Int
      BY SchedulerAssumption
    <3>2. QED
      BY <2>1, <2>2, <3>1, ScheduleBoth DEF BothScheduleAt
  <2>3. ASSUME NEW id \in Ids, NEW d \in Delays, NEW p \in UsedPhases,
               BothScheduleAfter(id, d, p)
        PROVE  Ports'
    <3>1. d \in Int /\ now + d \in Int /\ time = now
      BY <2>1, SchedulerAssumption DEF TypeOK, SameView
    <3>2. CASE d < 0
      <4>1. Refuse("past_event") /\ AdapterRefuses("past_event")
        BY <2>3, <3>1, <3>2 DEF BothScheduleAfter, ScheduleAfter, AdapterScheduleAfter
      <4>2. QED
        BY <2>1, <4>1, BothRefuse
    <3>3. CASE d >= 0
      <4>1. ScheduleAt(id, now + d, p) /\ AdapterScheduleAt(id, now + d, p)
        BY <2>3, <3>1, <3>3 DEF BothScheduleAfter, ScheduleAfter, AdapterScheduleAfter
      <4>2. QED
        BY <2>1, <3>1, <4>1, ScheduleBoth
    <3>4. QED
      BY <3>1, <3>2, <3>3
  <2>4. CASE BothDispatch
    BY <2>1, <2>4, DispatchBoth
  <2>5. CASE HandlerRaises /\ AdapterRefuses("handler_error")
    BY <2>1, <2>5, BothRefuse DEF HandlerRaises
  <2>6. CASE (Run /\ AdapterRun) \/ BothReturn \/ (Stop /\ AdapterStop)
             \/ (Crashed /\ UNCHANGED adapterVars)
    <3>1. UNCHANGED <<queue, heap, sequences>>
      BY <2>6 DEF Run, AdapterRun, BothReturn, HandlerReturns, AdapterHandlerReturns, Stop,
                  AdapterStop, Crashed, vars, adapterVars
    <3>2. (AdapterTypes /\ Paired /\ Aligned)'
      BY <2>1, <3>1, HeapsKept
    <3>3. SameView'
      BY <2>1, <2>6 DEF SameView, Run, AdapterRun, BothReturn, HandlerReturns,
           AdapterHandlerReturns, Stop, AdapterStop, Crashed, vars, adapterVars
    <3>4. QED
      BY <3>2, <3>3 DEF Ports
  <2>7. QED
    BY <1>2, <2>2, <2>3, <2>4, <2>5, <2>6 DEF Together
<1>3. CASE UNCHANGED portVars
  <2>1. CASE AdapterLost
    BY <1>1, <1>3, <2>1 DEF portVars
  <2>2. CASE ~AdapterLost
    <3>1. AdapterTypes /\ Paired /\ Aligned /\ SameView
      BY <2>2 DEF Ports
    <3>2. (AdapterTypes /\ Paired /\ Aligned)'
      BY <1>3, <3>1, HeapsKept DEF portVars, vars, adapterVars
    <3>3. SameView'
      BY <1>3, <3>1 DEF SameView, portVars, vars, adapterVars
    <3>4. QED
      BY <3>2, <3>3 DEF Ports
  <2>3. QED
    BY <2>1, <2>2
<1>4. QED
  BY <1>1, <1>2, <1>3 DEF PortsNext

-----------------------------------------------------------------------------
\* Each step of the pair is a step of the deterministic scheduler or none.
LEMMA PortsStep ==
  ASSUME [PortsNext]_portVars
  PROVE  [Next]_vars
<1>1. CASE Together
  BY <1>1 DEF Together, BothScheduleAt, BothScheduleAfter, BothDispatch, BothReturn, Next
<1>2. CASE UNCHANGED portVars
  BY <1>2 DEF portVars
<1>3. QED
  BY <1>1, <1>2 DEF PortsNext

\* Driven by the same calls, the deterministic scheduler is what it is alone.
THEOREM PortsRunScheduler == PortsSpec => Spec
<1>1. PortsInit => Init
  BY DEF PortsInit
<1>2. [PortsNext]_portVars => [Next]_vars
  BY PortsStep
<1>3. QED
  BY <1>1, <1>2, PTL DEF PortsSpec, Spec

THEOREM PortsArePaired == PortsSpec => []Ports
<1>1. PortsInit => Ports
  <2> SUFFICES ASSUME PortsInit PROVE Ports
    OBVIOUS
  <2>1. \A k \in Slots : Sequence(k) = 0
    BY DEF PortsInit, AdapterInit, Sequence, BagIn, BagToSet, EmptyBag, SetToBag
  <2>2. AdapterTypes /\ Paired /\ Aligned
    BY <2>1 DEF PortsInit, Init, AdapterInit, AdapterTypes, Paired, Aligned
  <2>3. SameView
    BY DEF PortsInit, Init, AdapterInit, SameView
  <2>4. QED
    BY <2>2, <2>3 DEF Ports
<1>2. TypeOK /\ Heap /\ Ports /\ [PortsNext]_portVars => Ports'
  BY NextPorts
<1>3. QED
  BY <1>1, <1>2, PortsRunScheduler, SchedulerTypes, SchedulerHeap, PTL DEF PortsSpec

\* Nothing a caller sees through the port tells the two schedulers apart until
\* an instant holds more events of a phase than the stride has room for.
THEOREM PortsAlwaysAgree == PortsSpec => []PortsAgree
<1>1. TypeOK /\ Ports => PortsAgree
  BY PortsAgreeByPairing
<1>2. QED
  BY <1>1, PortsArePaired, PortsRunScheduler, SchedulerTypes, PTL
=============================================================================
