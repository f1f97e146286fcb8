# A TLA+ model of QOrchSim

QOrchSim (`src/src/qorchsim`) simulates quantum position verification. Two
verifiers test where a prover is: v0 keeps one half of an entangled pair and
sends the other to the prover, the prover stores it and commits, the basis
inputs of both verifiers reach the prover together, the halves are measured, and
a controller decides from the verifiers' reports whether the round is accepted.
A run of the program is a discrete-event simulation in one thread: every wait is
an event in a heap, every handler runs to its end. What makes it hard is not
threads but time: late, lost and doubled messages, timers that race answers, one-slot
memories shared by successive rounds, expiries that fire after their qubit has
gone, and a schedule computed in advance from an estimate of how long a round
takes. Around the runs there is concurrency of another kind: runs started by hand
or by a sweep's pool of processes share directories, raise, and are killed.

Paths below are relative to `src/src/qorchsim`.

## Inventory

| Component | State | Operations | Hard behaviour | Correct when |
|---|---|---|---|---|
| Scheduler (`core/scheduler.py`, `events.py`, `event_bus.py`) | clock, heap, id set, counter | `schedule_at`, `schedule_after`, `run` | handlers schedule for the current instant, reuse ids, raise; stop time | publishes by time, phase, acceptance; leaves nothing due |
| Round timing (`qpv/session.py` `_plan`, `config/validation.py`) | none | plan, timeouts, period, horizon | an estimate in one file must cover times computed in another | rounds do not overlap and the last one ends before the stop time |
| Session runtime (`qpv/session.py`) | a runtime per round, results | start, basis send, arrivals, measurement, reports, two timeouts, decision | every order of arrivals and timeouts, leftovers of earlier rounds | one result per round, rounds in order, only genuine rounds accepted |
| Source, detector, memories, meters (`devices/`) | busy flags, gates, slots with a generation | generate, open gate, photon, load, retrieve, discard, expire, measure | failures, dead time, expiry against retrieval | a qubit is kept no longer than allowed and given back to its own round |
| Classical channel (`network/classical_channel.py`, `transmissions.py`) | none | send | copies, losses and delays chosen by attacks | (environment of the session) |
| Attacks (`attacks/`) | none | transform inventory, plan, messages, photon, reports, results | composition in configuration order: what is overwritten, what adds up, what ends the loop | policies see what the attacks made of it, truth is kept |
| Acceptance and policies (`qpv/acceptance.py`, `policies/`) | none | round and session decisions | missing reports and values, forged times, nothing to compare | accepted means compared, timely and committed |
| SeQUeNCe adapter (`adapters/sequence/`) | registry, counters per instant, keys per qubit | the scheduler's and the quantum port on another library | phase and order in one priority; keys against places | callers cannot tell it from the portable backend |
| Quantum operations (`quantum/`) | a matrix per state id | pair, prepare, measure, noise | X measurements leave the state rotated | equal bases read equal bits |
| Runner (`experiments/runner.py`, `tracing/`) | three directories | run, persist, fail | crashes between steps, shared targets and temporary directories, leftovers | a directory holds one attempt, a target a whole one |
| Sweeps (`experiments/sweep.py`) | futures, results | expand, run, collect | completion in any order, dying workers, reruns | every point once, in order, as it is on disk |
| Participant tables (`qpv/prover.py`, `verifier.py`, `controller.py`) | a state each | `transition` | not driven by the runtime | the session's steps are moves of the tables, where they are not is known |
| Cloud scheduling (`cloudsim/`) | none | snapshot, static decision | | the snapshot tells reports from truth |
| Configuration, clocks, topology, metrics, assurance, command line | little or none | pure functions, parsing, output | | not modelled, see the end |

The runtime calls devices; devices call back into the runtime when their events
complete; both put events into the one heap. The channel turns a message into
arrival events after the attacks had their say. The runner builds all of it,
calls `run()` once, and drops everything if an exception comes out.

## Modules

* `EventQueue` - the phases and the order of the heap; what successive
  `schedule_at` calls number.
* `EventScheduler` - `DeterministicScheduler`: variables are its fields, plus
  `log`, a history of what was published, and `after` in an event, how much had
  been published when it was accepted. Actions are `ScheduleAt`,
  `ScheduleAfter` (from a handler or from code before the run), `Run`,
  `Dispatch` (pop and enter the handler), `HandlerReturns`, `HandlerRaises`,
  `Stop`.
* `RoundTiming` - the arithmetic of a round as operators over a configuration
  record: plan, deadlines, both timeouts, period, horizon.
* `Acceptance` - the round decisions, as sets of reason codes.
* `QpvSession` - the runtime with its devices, on top of the three. One action is
  one handler with every callback it makes, for the event at the head of the
  heap. A memory's `holds` is the round of its qubit (the code compares a prefix
  of the qubit's id), `gen` is `_generation`. An event has `who`: the device or
  the message's verifier. `Raise` is an exception that leaves `run()`.
* `RoundLedger` - what a session promises: rounds open in order, one at a time,
  each gets one verdict.
* `QpvProperties` - the session's properties and the mapping to the ledger.
* `Participants` (extends `QpvProperties`) - the three transition tables and, as
  functions of the session's state, the state each participant is in. No code
  creates the machines: the mapping is what their states' names say of the
  runtime. A participant's signs are the states the session shows it has entered,
  and it is in the furthest of them on its course. A step is judged by what it
  enters, one listed move at a time, as `validate_transition` would: a handler may
  enter one state, or one and at once the next (a message that completes a report
  sends it), and never two whose moves are not both listed (`Follows`). States that
  leave no sign (`challenge_sent`, `waiting_for_basis`, the prover's and verifiers'
  `aborted` and `complete`) are passed over, and steps in which a handler raises are
  excluded. The session does leave the tables. The moves it makes outside them are
  `DarkCommitment` (the gate closes on a dark count with no detection in progress),
  `EarlyReport` (a report forced out at the round timeout before the answer, or sent
  as the last of all arrives out of order, the commitment) and `OutOfTurn` (a
  verifier is reached before its own input is sent, by an answer before the
  commitment, or after it has reported). `DeparturesAreKnown` says that there are no
  others; `SessionFollowsTables` says that there are none, and is false.
* `SessionVerdict` (extends `QpvProperties`) - `aggregate_session` for every
  element of `Thresholds` at once, over the results of the session.
* `SequenceScheduler` (extends `EventScheduler`) - `SequenceEventScheduler` with its
  pump, on a `Timeline` (external) that orders by time and one integer. Every
  action is a call that both schedulers get, so the two states can be compared.
  When the adapter raises for a full instant, where the other does not, the
  comparison is over and the specification goes on with the latter.
* `AttackPipeline` - the attacks as records, the pipeline's loops as folds over the
  list in its order, the resource snapshot, the static scheduler and the policies.
* `QuantumPairs` - both quantum backends behind the port, each with its own
  bookkeeping: states by id and place, and keys in the manager's lists. A density
  matrix is represented by its stabilizers.
* `AttackedRound` - a round from its inventory to v0's report, computed with the two
  modules above: it gives what `QpvSession` leaves open (what a list of attacks
  does, what measurements read) and leaves out what `QpvSession` models (devices,
  deadlines, the order within an instant, later rounds).
* `RunArtifacts` - `run_experiment` with one action per call to the file system: `pc`
  is where a process is, `dir` maps paths to directories, `files` holds what is in
  them, `listing` is an `rmtree` half done. A file says which attempt opened it and
  whether it was finished. `Kill` takes a process away between any two calls;
  `Raise` is an exception of the backend, the session or a writer.
* `Sweep` (extends `RunArtifacts`) - `run_sweep` over those runs: submission, the
  pool (external), futures, collection, the summary, a worker that dies, the whole
  sweep killed and started again; and, without a sweep, runs started by hand.
* `MCEventScheduler`, `MCQpvSession`, `MCAttackedRound`, `MCSweep` - the instances
  TLC checks.
* `SchedulerProofs`, `QpvSessionProofs`, `QpvRoundProofs`, `QpvMemoryProofs`,
  `QpvVerdictProofs`, `QpvDeviceProofs`, `AttackedRoundProofs`, `SweepProofs` - the
  theorems.

Definitions named `...Without...`, `...Once` and the like, marked "Mutant" in a
comment, are plausible mistakes kept beside the original: each property is known to
fail when its variant takes the original's place. No specification uses them.

### What the session abstracts

Times are integers in picoseconds and never wrap, as in Python. A random number
compared with a probability is a choice from the outcomes that probability
allows (`can` in a configuration); measurement results are any bits the
configuration allows, so agreement of the two halves is not derived from
physics. An attack on messages is a set of possible fates, each a sequence of
added delays, one per copy; this covers jamming, and attacks written against the
`AttackModel` port that duplicate. Nonces, epochs and authenticity always agree
in a session (the code copies them from the plan it compares them with).
Sessions build clocks without offset, drift or jitter, so local time is physical
time. Traces, identifiers and the margins inferred from reported times are left
out; nothing reads them back. Two reason codes of the schedule policy that
differ only in the input they name are told apart by the verifier instead.

### What the other models abstract

`AttackedRound` has one device per kind that never fails, one round, no clock
uncertainty; its challenges leave at their planned times, without the wait for a
late EPR source that `QpvSession` has, and its measurements have no fidelity flips; `Workload`'s nodes are the configured ones, so the static scheduler
accepts. A random loss on the photon's link is a choice (`LinkLosses`). Noise is a
Pauli error, chosen: depolarizing is such a mixture, and so is the Werner state of
a source that is not perfect. Amplitude damping and the decay in a memory are not,
and are left out; the probabilities of outcomes are reduced to possible and
impossible. The T2 of a memory stands for the capabilities a device reports.

`RunArtifacts` assumes what POSIX promises of `mkdir`, `unlink`, `rmdir` and
`rename`. `rmtree` lists a directory and removes what it saw in any order; a file
that is gone by then is an error or passed over, as Python versions differ.
The writes of the handler that records a failure do not themselves raise.
Whether the configuration asks for a trace or a table of rounds is not varied:
both are written.

## Runs

Sessions use the times of `configs/qpv_ideal.yaml`: 1 km links of 5 us, devices
of about 0.1 us, one period about 39 us, and two rounds (one in `slow_sender`).
Two rounds are enough for everything that one round can do to the next: the code
has no memory that reaches further than the devices, which the properties
require to be clean at a round's start. The delays offered to messages are
chosen on both sides of every deadline they can meet (on time, late for its
deadline, late for the round), which is where outcomes change. All behaviours
end: the set of configurations bounds the copies of a message.

| Run | Instance | Shows |
|---|---|---|
| `scheduler` | 4 events over 2 ids, times at 1 and at the stop time 3, delays -1, 0, 1, the arrival and timeout phases; `MaxEvents` bounds the events accepted; a stride of 2, so that instants fill up | order of publication, clock, ids, order of equal events, that everything due is published, and that the adapter's port looks the same until an instant is full |
| `working` | random device failures at even and uneven distances; skew, stale telemetry, forgery with answers around the deadline and the clock uncertainty, intercept; strict and lax thresholds | no handler raises, rounds start clean, no round decided with a report missing, only genuine rounds accepted, the ledger is implemented, an accepted session has a proven round, the controller keeps to its table and the others leave theirs in the listed moves only |
| `disturbed` | one kind of message at a time lost, doubled, late or very late; a late photon; basis inputs so late that the round closes during retrieval; commitments that come after the answers or never, an input of v1 sent after the commitment or after the timeout, a slow meter at v0; maximum holds never reached, reached exactly, missed by one picosecond, reached in the next round; configurations that validate and cannot work (busy devices, early sends, long links, slow senders) | one result per round, timers never lost, every round decided in the end, storage within its hold, expiry of the right qubit only, retrievals undisturbed even when rounds overlap; verdict and tables as above, with results forced out and rounds closed in the middle of things and every listed departure occurring |
| `expired_qubit` | v0's hold shorter than the round | violation: the slot is never released |
| `slow_sender` | 2 us sender delay to the controller | violation: forced reports arrive after the decision |
| `long_links` | 5 km links to the controller, nodes at 1 km | violation: the next round starts before this one is decided |
| `lossy_v0` | v0's retrieval may fail | violation: accepted without a comparison |
| `delayed_basis` | basis inputs 37 us late | violation: a finished round measures the next round's qubits |
| `off_table` | the photon is lost and the gate closes on a dark count | violation: the prover goes from `waiting_for_challenge` to `committed_without_state` in one move; without that, the forced reports that follow would go from `commitment_received` to `report_sent` |
| `attacks` | every list of two out of 13 attacks (overlapping jammers of messages and photons, hidden and open skews, three poisonings, two forgeries, two interceptors) and four further lists; both policies, all inputs; I and Z errors at the sources, I and X on the link | losses, delays and ids of messages and photons are those of the jammers active; what a security-aware controller lets run; truth kept; prover and v0 agree; both backends agree |
| `sweep` | two points in a pool of two with one exception or kill, two points in sequence (one too short for its rounds) with two, each sweep run twice; two runs by hand of different seeds into one target, one of them twice, with one | no directory mixes attempts, results replaced by whole ones only, failures leave their evidence, the summary is true, an undisturbed sweep repairs, sweeps end |
| `shared_temporary` | two runs of one configuration into one target | violation: a run returns though its target does not hold its result |

The seven violations are disagreements between what a comment or a document says
and what the code does; `PROJECT.json` quotes each. Their configurations
validate: nothing in the program refuses them.

Two runs that share a target are enough for a race between directories: a third
could only repeat what one of the two does. Two attempts of each process are
enough to meet leftovers of an interrupted one and an earlier success or failure.
Pairs of attacks are enough for the loops of the pipeline, each of which carries
one value from an attack to the next; the lists of three are there for sums and
for the last of several.

`NoAbort`, `RoundsStartClean` and `ReportsAreHeard` are therefore checked in
`working`, whose configurations stay clear of what `slow_sender`, `long_links`,
`lossy_v0`, `delayed_basis` and `expired_qubit` need, and not in
`disturbed`, where they fail for the reasons above.

### Fairness

`run()` keeps popping until the heap is empty or the stop time is reached, and
handlers terminate. For the scheduler this is weak fairness of `Dispatch` and of
`HandlerReturns`; nothing is assumed of callers. For a session it is weak
fairness of `Step` (some handler runs) and of `Finish` (`run()` returns).
Messages get no fairness at all: a lost one is simply never put into the heap.
For a sweep it is weak fairness of every step of a run, of the pool handing out
and returning jobs and noticing a dead worker, and of the sweep's own steps: the
operating system runs processes, and `concurrent.futures` waits for them. Kills,
exceptions and starting again are never forced to happen.
`EveryRoundIsDecided`, `DueEventsArePublished` and `SweepEnds` are the liveness
properties.

## Proofs

TLAPS proves the following for every value of the constants, that is for any
number of rounds and any configurations satisfying the assumptions.

* `SchedulerProofs`. `Heap` strengthens the type invariant: ids name pending
  events, nothing is in the past, numbers are below the counter and different.
  It is inductive and gives `SchedulerIds`, `SchedulerClock` and
  `SchedulerOrder`. The order of publication needs to relate the heap to the
  past: `Publication` adds that everything published was due no later than now
  (`LogIsPast`) and that a pending event that would have gone before a published
  one was accepted after it (`PendingBehindLog`). From it follow
  `SchedulerPublishesInOrder` and `SchedulerIsFair`. Of the two schedulers: the two heaps hold different things, so agreement is not
  inductive. `Ports` pairs them: the adapter's event of an id has the due time of
  the scheduler's event and a priority from the block of `Stride` numbers its phase
  owns (`Paired`), below what `_sequences` has counted; within a block priorities
  grow with the order of acceptance (`Aligned`). Blocks of different phases do not
  overlap, so the first of one heap is the first of the other (`SameFirst`), and
  both dispatch the same event. `PortsAlwaysAgree` follows, for every stride.
* `QpvSessionProofs`. On geometric configurations (no link has a length of its
  own, no sender delay) the final timeout of a round comes before the start of
  the next (`RoundsDoNotOverlap`, an equality of times: the sum of the plan is
  bounded by the period term by term). That it also comes before the stop time is
  the horizon check of the code, which `SessionAssumption` carries. Outside them it is false, which `long_links`
  shows. `TypeOK` is inductive, one step per handler; it includes
  that events are about the devices and verifiers they can be about, without
  which indexing a memory by an event's actor would mean nothing.
* `QpvRoundProofs`. `Agenda` (a waiting round has its start pending, an open one a
  timeout, both at the planned times) and `Books` (the results name each
  completed round once) are inductive over `TypeOK`. `OneResult` follows from
  `Books` by counting. When a round of a geometric session starts, `Agenda` and
  `RoundsDoNotOverlap` show that an earlier round still open would have a timer due
  before the event being handled, which is the first of the heap: so every earlier
  round is decided.
  This is the step the ledger's `IsNext` asks for, and `SessionImplementsLedger`
  follows. `FinishedSessions` is the same argument with the stop time.
* `QpvMemoryProofs`. `MemInv` says of every slot what is in the heap for it: a slot
  in use has the one completion it waits for; every pending expiry whose
  generation is the slot's is dated at the slot's storage time plus its hold; a
  stored qubit with a hold has its expiry pending. The stale expiries of earlier qubits are
  allowed for: their generation is smaller. To show it of a handler, the events it schedules are
  described by sets (`EventsAt`) whatever numbers the scheduler gives them, and what
  it does to a round's runtime by the effects `RuntimeTypes` is proved with.
  `SessionExpiresWhenDue` follows directly. For `SessionExpiresHard`, a qubit stored
  longer than its hold would have its expiry pending in the past, which the order
  of the heap excludes; the bound on the measured dwell (`Dwells`) is the same
  argument at the moment of retrieval. Neither needs a hypothesis.
* `QpvVerdictProofs`. Each handler is first summarized as an operation on one round
  (`Op`: what became of the runtime, what was left in the heap). `Truths` then
  ties a round's runtime to the events that will complete it: a detection that
  leads to a load, at most one reading of each half, answers that carry the
  prover's bit, reports that repeat what their verifier has seen. `TrueResults`
  carries this into the results, once and for all, and gives `SessionsAreProven`
  (an accepted session rests on a proven round, whatever the configuration and the
  thresholds, unless all errors are tolerated) and `SessionRoundsHappened`: all that `AcceptedRoundsAreGenuine` says but for the
  agreement with v0, without hypothesis. The agreement needs `V0Timely` as well,
  a timed invariant: while v0 is reading, no answer is due before its bit is, so a
  report with the answer and without the bit belongs to a round in which v0 never
  measures and nothing is compared. `AllHeard` follows each report from its
  sending to the controller, before the final timeout. `VerdictFollowsRounds` counts over
  `TrueResults`, `MatchedResults` and the ledger's results, for every set of thresholds.
* `QpvDeviceProofs`. What the devices and inputs of a round have to do is bounded in
  time. `Child` is the table of which handler schedules what and when; from it,
  `Due` bounds every pending event of a round by the latest time it can have
  (`AllDue`; a load of the prover is bounded by the end of the gate, whose closing is
  still pending while it is open, `GatesClose`). `StepSlots` lists the moves of a slot.
  A retrieval is scheduled when a round is valid and both slots are filled, so what has
  to be excluded is a qubit of another round: a later one cannot be stored yet, as its
  round has not begun when the last load or input is handled; an earlier one cannot
  be there still, as v0's memory was empty when the photon was sent and the prover's
  when it was loaded, and nothing earlier arrives afterwards (`Owned`).
  `RetrievalsFindTheirQubit` follows, whatever is lost or late within the bound.
  `NoAbort` is not inductive: what raises is a device asked while it is at work or
  resting, a full slot, a second bit, or an event in the past. `Tidy` says what keeps
  each of these away: whatever is at work has its end pending (`Attended`), which by
  `Due` comes before the next round starts; source and meters rest until then at the
  latest (`Rested`); a stored qubit is of a round still open, which times out before
  the next one starts (`Stock`); a round is undecided while its photon may still be detected
  or stored (`Undecided`), for which v0 must not have reported without a bit
  (`Prompted`); and the slot a photon is awaited for is empty (`Room`). Part of this
  holds only while no handler has raised and `NoAbort` only under it, so the two are
  carried together (`NextTidy`). `NothingRaises` and `RoundsAreStartedClean` are read
  off. `DeparturesAreTheKnownOnes` needs no hypothesis. It compares what a handler
  enters with the state it starts from, so the proof needs what can be new in a step
  and what must be old before it. New is read off the operations (`OpProver`,
  `OpSees`, `OpReads`, `DetectorDoes`, `ControllerOf`): a verifier, for one, shows a
  commitment, an answer, a bit or a report for the first time in the event that
  brings it. Old is `Committals` and `Accounts`, inductive together while no handler
  raises (`Orderly`): a round gets its outcome once and its commitment once, the load
  in between; what is committed has its state or was a dark count; nobody measures
  before both inputs have arrived, and an input still to be sent is the only copy of
  its verifier's (`InHand`), so that no answer and no bit comes before it
  (`SentBefore`). `ProverTakes`, `VerifierTakes` and `ControllerStep` find the moves.
* `AttackedRoundProofs`. The list of attacks is any list, so what a loop of the
  pipeline computes is an induction. The library's theorem on well-founded relations
  that takes a set (`WFMin`) gives least numbers, and with them induction over the
  places of a list (`LeastNumber`, `InductionTo`). A fold goes through the subsets of
  a domain by a recursive function; that this function exists is shown the same way
  (`FoldExists`), and a fold is then a sequence of states, one per attack, with the
  last as its result (`StepsExist`). From there: `MessageIsAsJammed` and
  `PhotonIsAsJammed` follow what is added, lost and listed attack by attack,
  `PlanIsShifted` the skews and their sum, `ReportsAreTheLast` the poisonings of a
  device, `ReportIsKept` the forgeries. The theorems carry these facts through a round
  from the moment the attacks are applied: `Timely` (nothing is due in the past,
  nothing happens before the round runs), `AllSentAs`, `Seen` and `Answered`.
  For the measurements, `Chained` follows the photon: one event at a time has it,
  and what reaches the prover is the photon itself or the interceptor's
  replacement. `Matches` says of the two bookkeepings that every key's entry has the
  stabilizers of the state its handle names, at the place of its index
  (`HeldIsPlaced`), which is what the two outcomes are computed from; it also gives
  `TypeCorrect`. `Correlates` says which stabilizer of the pair and of the
  replacement tells what the other side will read, in every order of measurements,
  interception and errors along the letter; reading it out (`ReadOut`) gives equal
  bits. `BitsAlwaysAgree` holds for every list of attacks, any times and errors.
* `SweepProofs`. `RunTypesHold` needs that `os.mkdir` finds a number nobody uses: at
  most four are in use for each process, three by its paths and one by its `rmtree`,
  and a pigeonhole gives the rest (`FreshNumber`). The properties of artifacts are
  not inductive; `RunInv` is. It says of each process what its temporary directory
  holds at each label of `run_experiment`, all by the current attempt (`Private`),
  what a process that raised left (`LeftBy`), that a half done `rmtree` works on the
  directory it names or on one that is gone (`Listed`), and of every directory that
  its files are of one attempt, complete in a target (`DirectoriesOK`). Every step of
  a run is one of eight effects on directories and files (`Effect`); each touches
  only the run's own three paths (`Elsewhere`), so the others' parts stay, and its own
  part is shown action by action. Only targets may be shared, and what an `rmtree` of
  a shared target meets half way is covered by `Listed`. `SweepRepairs` adds that a
  point's result stays in its directory until the next sweep (`ResultsStay`).
  `SummariesAreTrue` rests on that and on `HeardInv`, what the sweep has heard: each
  point at most once (a future is gone when it is collected), results of points that
  returned, with the attempt that did, failures of points that raised or of a broken
  pool. As many as there are points is then all of them (`AllCollected`). That
  the sorting of the summary loses nothing needs no induction: among different numbers
  the place of each is how many are not above it (`DifferentNumbersAreOrdered`), so
  the order `Sorting` chooses exists, and it is a bijection (`SortingOrders`).

Hypotheses of theorems, as distinct from the assumptions on constants:

* `AllGeometric` (`SessionImplementsLedger`, `FinishedSessions`,
  `VerdictFollowsRounds`): no link has a length of its own and no sender a delay.
  The run `long_links` shows what happens without it.
* `V0AlwaysFirst` (`AcceptedAreGenuine`, `VerdictFollowsRounds`): v0's retrieval,
  switching and measurement take no longer than the prover's plus the answer's way to v0.
  Every configuration of `working` and `disturbed` satisfies it but the slow
  meter of the latter, and nothing in the program checks it. Without it a report of v0 can be forced out at
  the round timeout with the answer and without v0's own bit; the round is accepted and
  its bits, compared when it is decided, may differ. TLC finds that with a v0 whose
  retrieval takes 14 us: the weakness of `lossy_v0` in its strongest form.
* `EveryReportPrompt` (`ReportsHeard`): verifiers send reports to the controller
  without sender delay and of every report at least one copy is not delayed. The
  run `slow_sender` shows the first part to be needed, lost reports the second.
* `QubitsInTime` of every configuration (`RetrievalsFindTheirQubit`): the latest load of
  either memory and the latest copy of either basis input come before the next round
  starts. Nothing in the program checks it. Every configuration of `working`
  and `disturbed` satisfies it; the one of `delayed_basis` does not, and violates the
  property.
* `RoundsFit` of every configuration (`NothingRaises`, `RoundsAreStartedClean`): links
  have no length of their own and senders no delay; source and its rest take no longer
  than a period; a maximum hold is no shorter than one; no input is sent before its
  round starts; both memories are loaded before the round times out; and whatever may
  be measured has been, and its meter has rested, before the next round starts. It
  is `QubitsInTime` with room for the measurements (`FitIsInTime`). Nothing in the program checks
  it, and the period it computes does not imply it. Every configuration of `working`,
  and every one of `disturbed` whose messages are jammed (`MCJammed`), satisfies it.
  `long_links` and `expired_qubit` show a round starting on a full memory without the
  first and the third part.
* `Apart` (all of `SweepProofs` but `SweepTypeOK`): no two processes of a behaviour
  have the same target and the same run id, so no two share a temporary directory.
  Runs of different seeds may share a target. `expand_sweep` sees to it for a sweep;
  for runs started by hand nothing does, and `shared_temporary` shows
  `SuccessPersistsResult` failing without it.
* `OwnTargets` (`SweepRepairs`, `SummariesAreTrue`): the points of a sweep have different directories, as
  `expand_sweep` numbers them.

`VerdictFollowsRounds` needs the first two only for its second half (a session of
accepted, compared, committed rounds is accepted); `SessionsAreProven` is the first
half without them.

Assumptions: `SchedulerAssumption`, `StrideAssumption`, `SessionAssumption` (types,
the horizon check that `run_experiment` makes, and that `None` is neither a number
nor a Boolean), `ThresholdsAssumption`, `RoundAssumption` (the attacks are as the
configuration admits them, and no skew moves a send to before the start of the round,
where the scheduler raises), `ArtifactsAssumption` (finitely many
processes, a natural number of faults, and a `None` that is no listing) and
`SweepAssumption` (the points are numbered from 0, as `enumerate(jobs)` does). TLC
evaluates them in every run.

Only model-checked, and why:

* `EveryRoundIsDecided`, `DueEventsArePublished`, `SweepEnds`: liveness, which is out
  of the prover's reach. Every other property of a passing run is stated by a theorem.

## Plan

All the modules planned are written, and every safety property the runs check is proved.

## Not modelled

* Spatial assurance, the metrics and the scripts that plot them: offline numerics
  over finished runs.
* Amplitude damping, memory decay and the tolerances of the matrix checks: outside
  the stabilizer formalism, and no decision of the program reads a probability.
* The version check and the channel, device, node and protocol bindings of the
  SeQUeNCe adapter: they restate names of a library that is not in the repository.
  The library itself is modelled where the adapter depends on it.
* Clocks (exact in a session), random streams and identifiers (their results are
  choices or names), topology and link state (unused by the runtime).
* Configuration parsing and normalization, `expand_sweep` and the command line:
  they turn text into the constants of these models.
* The freshness policy: it compares values with their own copies in a session.
