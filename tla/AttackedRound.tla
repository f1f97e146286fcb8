---------------------------- MODULE AttackedRound ----------------------------
(***************************************************************************)
(* One round under attack (qpv/session.py with attacks/ and both quantum   *)
(* backends): from the inventory the controller is shown, over the plan it *)
(* may refuse, to the photon, the basis messages, both measurements and    *)
(* v0's report.  QpvSession models the round's devices, deadlines and the  *)
(* order of events of one instant, and leaves open what attacks and        *)
(* measurements do; this module computes that, and leaves out the rest.    *)
(***************************************************************************)
EXTENDS AttackPipeline, QuantumPairs

CONSTANTS
  AttackLists,   \* the lists of attacks a configuration may have
  Plan,          \* the plan of the round, as the controller made it
  Workload,      \* [participants, arrival, deadline]
  Nodes, T2,     \* the nodes, and the T2 of each memory
  MaximumT2,     \* controller.maximum_reported_t2, or None
  Bounds,        \* of the schedule policy
  Travel,        \* by kind of transmission, how long it takes
  LinkLosses,    \* whether the photon's link loses it: the answers possible
  SourceErrors, LinkErrors  \* the Pauli errors of the sources and the photon's link

\* What config/models.py admits of an attack.
IsAttack(a) ==
  /\ a.kind \in {"jam", "skew", "poison", "forge", "intercept"}
  /\ a.kind = "jam" => a.delay \in Nat /\ a.drop \subseteq BOOLEAN
  /\ a.kind = "skew" => {a.x, a.y, a.challenge} \subseteq Int /\ a.seen \in BOOLEAN
  /\ a.kind = "forge" => a.bias \in Int
  /\ a.kind = "poison" => DOMAIN a.fields = {"t2_ps"}  \* all that Snapshot keeps
  /\ a.kind = "intercept" =>
       a.bases \subseteq Basis /\ {a.toHim, a.process, a.prepare, a.toProver} \subseteq Nat

\* None is nothing else; no skew moves a send to before the round starts (the
\* scheduler raises then).
ASSUME RoundAssumption ==
  /\ None \notin Bits \union [basis : Basis, bit : Bits]
  /\ None \notin {"basis_x", "basis_y", "answer"}
  /\ Plan \in [challenge : Nat, x : Nat, y : Nat, expectedOriginal : {TRUE}, ids : {<<>>}]
  /\ T2 \in [DOMAIN T2 -> Nat]
  /\ MaximumT2 \in Nat \union {None}
  /\ Travel \in [{"basis_x", "basis_y", "photon", "answer"} -> Nat]
  /\ \A as \in AttackLists :
       /\ as \in Seq(Range(as)) /\ \A i \in DOMAIN as : IsAttack(as[i])
       /\ LET plan == AttackedPlan(as, Plan) IN {plan.challenge, plan.x, plan.y} \subseteq Nat

VARIABLES
  attacks, secure,  \* the configuration: its attacks, controller.policy
  inputs,           \* the x and y of the round
  phase,            \* "new", "rejected", "ready", "refused", "running"
  snapshot, physical,
  now, pending,     \* [at, what, tx]
  sent,             \* the transmissions that left, as the attacks made them
  photon,           \* the handle of the photon on its way or at the prover
  there,            \* what has reached the prover
  bit,              \* the measured bits
  answerAt, report,
  tapped, errors    \* history: the interceptor's basis; the errors that struck

roundVars == <<attacks, secure, inputs, phase, snapshot, physical, now, pending, sent,
               photon, there, bit, answerAt, report, tapped, errors>>
allVars == <<roundVars, backendVars>>

Home   == Handle("pair", "pair:0", 0)
Flying == Handle("pair", "pair:1", 1)
Resent == Handle("replacement-state", "replacement-qubit", 0)

BasisOf(in) == IF in.x = in.y THEN 0 ELSE 1   \* xor_basis
LetterOf(basis) == IF basis = 0 THEN "Z" ELSE "X"

\* The link of a kind of transmission; a photon has no message type.
LinkOf == [basis_x |-> "v0-prover", basis_y |-> "v1-prover", photon |-> "quantum",
           answer |-> "prover-v0"]
TypeOf(kind) == IF kind = "photon" THEN None ELSE kind

Transmission(kind, t) ==
  [link |-> LinkOf[kind], type |-> TypeOf(kind), sentAt |-> t, travel |-> Travel[kind],
   added |-> 0, dropped |-> FALSE, ids |-> <<>>]

Due(at, what) == [at |-> at, what |-> what]
Pending(what) == {d \in pending : d.what = what}

Init ==
  /\ attacks \in AttackLists /\ secure \in BOOLEAN
  /\ inputs \in [x : Bits, y : Bits]
  /\ phase = "new" /\ snapshot = Snapshot(Nodes, T2) /\ physical = Plan
  /\ now = 0 /\ pending = {} /\ sent = {}
  /\ photon = Flying /\ there = {}
  /\ bit = [prover |-> None, v0 |-> None]
  /\ answerAt = None /\ report = None
  /\ tapped = None /\ errors = {}
  /\ BackendsInit

-----------------------------------------------------------------------------
\* run_experiment: the inventory is attacked, then scheduled.
Allocate ==
  /\ phase = "new"
  /\ snapshot' = AttackedInventory(attacks, snapshot)
  /\ phase' = IF StaticSchedule(Workload, snapshot', 0).accepted THEN "ready" ELSE "rejected"
  /\ UNCHANGED <<attacks, secure, inputs, physical, now, pending, sent, photon, there, bit,
                 answerAt, report, tapped, errors>>
  /\ UNCHANGED backendVars

\* _on_round_start: the plan is attacked; a security-aware controller looks at
\* the telemetry and at the plan it sees, and may refuse; else the pair is
\* made and what leaves by the physical plan is scheduled.
RefusalReasons(plan) ==
  IF ~secure THEN {}
  ELSE ScheduleReasons(ControllerView(Plan, plan), Bounds)
         \union TelemetryReasons(snapshot, MaximumT2)

RoundStart ==
  LET plan == AttackedPlan(attacks, Plan) IN
  /\ phase = "ready"
  /\ physical' = plan
  /\ \/ /\ RefusalReasons(plan) # {}
        /\ phase' = "refused"
        /\ UNCHANGED <<pending, errors>> /\ UNCHANGED backendVars
     \/ /\ RefusalReasons(plan) = {}
        /\ phase' = "running"
        /\ pending' = {Due(plan.x, "basis_x"), Due(plan.y, "basis_y"),
                       Due(plan.challenge, "photon")}
        /\ \E error \in SourceErrors :
             /\ CreatePair("pair", Home.qubit, Flying.qubit, error)
             /\ errors' = errors \union {error}
  /\ UNCHANGED <<attacks, secure, inputs, snapshot, now, sent, photon, there, bit, answerAt,
                 report, tapped>>

\* The event d is handled; those of evs are scheduled.
Happens(d, evs) ==
  /\ \A e \in pending : d.at <= e.at
  /\ now' = d.at
  /\ pending' = (pending \ {d}) \union evs
  /\ UNCHANGED <<attacks, secure, inputs, phase, snapshot, physical>>

Arrival == [basis_x |-> "basis_x arrives", basis_y |-> "basis_y arrives",
            photon |-> "photon arrives", answer |-> "answer arrives"]

\* _on_basis_send, AttackableClassicalChannel.send.
SendBasis(kind) ==
  \E d \in Pending(kind), draw \in Draws(attacks) :
    LET tx == AttackedMessage(attacks, Transmission(kind, d.at), draw) IN
    /\ Happens(d, IF tx.dropped THEN {} ELSE {Due(ArrivesAt(tx), Arrival[kind])})
    /\ sent' = sent \union {tx}
    /\ UNCHANGED <<photon, there, bit, answerAt, report, tapped, errors>>
    /\ UNCHANGED backendVars

\* The first intercept-resend attack of the list, if any.
Interceptors == OfKind(attacks, "intercept")
Interceptor == attacks[Min(Interceptors)]

\* _on_challenge_send.  On its way to an interceptor the photon leaves the
\* delay of the jammers behind (_schedule_intercept).
SendPhoton ==
  \E d \in Pending("photon"), draw \in Draws(attacks), lost \in LinkLosses :
    LET tx == QuantumSend(attacks, Transmission("photon", d.at), draw) IN
    /\ Happens(d,
         IF tx.dropped \/ lost THEN {}
         ELSE IF Interceptors = {} THEN {Due(ArrivesAt(tx), Arrival["photon"])}
         ELSE {Due(d.at + Interceptor.toHim + Interceptor.process, "tap")})
    /\ sent' = sent \union {tx}
    /\ UNCHANGED <<photon, there, bit, answerAt, report, tapped, errors>>
    /\ UNCHANGED backendVars

\* Mutant: the replacement is prepared in the other basis.
TapPreparingTheOther ==
  \E d \in Pending("tap") :
  \E basis \in Interceptor.bases, b \in Bits, error \in SourceErrors :
    /\ Happens(d, {Due(d.at + Interceptor.prepare, "resend")})
    /\ MeasureAndPrepare(photon, basis, b, Resent, 1 - basis, error)
    /\ tapped' = [basis |-> basis, bit |-> b]
    /\ errors' = errors \union {error}
    /\ UNCHANGED <<sent, photon, there, bit, answerAt, report>>

\* _on_intercept_complete measures the photon and prepares a replacement with
\* the bit it read, from a source of its own; _on_replacement_send sends it on.
Tap ==
  \E d \in Pending("tap") :
  \E basis \in Interceptor.bases, b \in Bits, error \in SourceErrors :
    /\ Happens(d, {Due(d.at + Interceptor.prepare, "resend")})
    /\ MeasureAndPrepare(photon, basis, b, Resent, basis, error)
    /\ tapped' = [basis |-> basis, bit |-> b]
    /\ errors' = errors \union {error}
    /\ UNCHANGED <<sent, photon, there, bit, answerAt, report>>

Resend ==
  \E d \in Pending("resend") :
    /\ Happens(d, {Due(d.at + Interceptor.toProver, Arrival["photon"])})
    /\ photon' = Resent
    /\ UNCHANGED <<sent, there, bit, answerAt, report, tapped, errors>>
    /\ UNCHANGED backendVars

\* _on_quantum_arrival, _on_classical_arrival at the prover.
PhotonArrives ==
  \E d \in Pending(Arrival["photon"]), error \in LinkErrors :
    /\ Happens(d, {})
    /\ Disturb(photon, error)
    /\ errors' = errors \union {error}
    /\ there' = there \union {"photon"}
    /\ UNCHANGED <<sent, photon, bit, answerAt, report, tapped>>

BasisArrives(kind) ==
  \E d \in Pending(Arrival[kind]) :
    /\ Happens(d, {})
    /\ there' = there \union {kind}
    /\ UNCHANGED <<sent, photon, bit, answerAt, report, tapped, errors>>
    /\ UNCHANGED backendVars

-----------------------------------------------------------------------------
\* _try_measure: both halves are retrieved and measured, whichever is ready
\* first.
CanMeasure(who) == there = {"photon", "basis_x", "basis_y"} /\ bit[who] = None

V0Measures ==
  \E b \in Bits :
    /\ CanMeasure("v0")
    /\ Measure(Home, BasisOf(inputs), b)
    /\ bit' = [bit EXCEPT !.v0 = b]
    /\ UNCHANGED <<attacks, secure, inputs, phase, snapshot, physical, now, pending, sent,
                   photon, there, answerAt, report, tapped, errors>>

\* _on_prover_measurement answers at once.
ProverMeasures ==
  \E b \in Bits, draw \in Draws(attacks) :
    LET tx == AttackedMessage(attacks, Transmission("answer", now), draw) IN
    /\ CanMeasure("prover")
    /\ Measure(photon, BasisOf(inputs), b)
    /\ bit' = [bit EXCEPT !.prover = b]
    /\ sent' = sent \union {tx}
    /\ pending' = pending \union
         IF tx.dropped THEN {} ELSE {Due(ArrivesAt(tx), Arrival["answer"])}
    /\ UNCHANGED <<attacks, secure, inputs, phase, snapshot, physical, now, photon, there,
                   answerAt, report, tapped, errors>>

AnswerArrives ==
  \E d \in Pending(Arrival["answer"]) :
    /\ Happens(d, {})
    /\ answerAt' = d.at
    /\ UNCHANGED <<sent, photon, there, bit, report, tapped, errors>>
    /\ UNCHANGED backendVars

\* _maybe_send_report of v0: with the answer and its own bit, or forced by the
\* round's timeout with whatever there is.
Observed == [answer_arrival |-> answerAt]

SendReport ==
  /\ phase = "running" /\ report = None
  /\ \/ answerAt # None /\ bit.v0 # None
     \/ pending = {}
  /\ report' = AttackedReport(attacks, [verifier |-> "v0", physical |-> Observed,
                                        local |-> Observed, reported |-> Observed,
                                        ids |-> <<>>])
  /\ UNCHANGED <<attacks, secure, inputs, phase, snapshot, physical, now, pending, sent,
                 photon, there, bit, answerAt, tapped, errors>>
  /\ UNCHANGED backendVars

Done == (phase \in {"rejected", "refused"} \/ report # None) /\ UNCHANGED allVars

Next ==
  \/ Allocate \/ RoundStart
  \/ SendBasis("basis_x") \/ SendBasis("basis_y") \/ SendPhoton
  \/ Tap \/ Resend \/ PhotonArrives \/ BasisArrives("basis_x") \/ BasisArrives("basis_y")
  \/ V0Measures \/ ProverMeasures \/ AnswerArrives \/ SendReport \/ Done

Spec == Init /\ [][Next]_allVars

-----------------------------------------------------------------------------
Handles == {Home, Flying} \union IF Resent.state \in DOMAIN store THEN {Resent} ELSE {}

TypeOK ==
  /\ phase \in {"new", "rejected", "ready", "refused", "running"}
  /\ \A d \in pending : d.at >= now
  /\ bit \in [{"prover", "v0"} -> Bits \union {None}]
  /\ DOMAIN keyOf \subseteq {h.qubit : h \in Handles}
  /\ Range(keyOf) = DOMAIN manager
  /\ \A id \in DOMAIN store : \A s \in store[id] : s.sign \in {-1, 1}

Total(numbers) == FoldLeft(LAMBDA n, k : n + k, 0, numbers)

\* The ids of the attacks of the list at the places S, in their order.
Lists(ids, as, S) ==
  /\ Len(ids) = Cardinality(S)
  /\ \A i \in S : ids[Cardinality({j \in S : j <= i})] = as[i].id

\* tx bears their ids and is later by all their delays.
JammedBy(as, tx, S) ==
  /\ Lists(tx.ids, as, S)
  /\ tx.added = Total([i \in DOMAIN as |-> IF i \in S THEN as[i].delay ELSE 0])

\* A message is as the jammers active when it left made it: untouched when
\* there were none; else later by all their delays, and lost if and only if the
\* last of them said so, whatever the ones before it decided (alter_classical,
\* SelectiveJammingAttack).
MessagesAsJammed ==
  \A tx \in sent : tx.type # None =>
    LET active == {i \in DOMAIN attacks : Jams(attacks[i], tx)} IN
    /\ JammedBy(attacks, tx, active)
    /\ tx.dropped \in IF active = {} THEN {FALSE} ELSE attacks[Max(active)].drop

\* A photon once lost stays lost and no later jammer touches it; one that got
\* through was let through by every active jammer (decide_quantum_send).
PhotonAsJammed ==
  \A tx \in sent : tx.type = None =>
    LET active == {i \in DOMAIN attacks : JamsPhoton(attacks[i], tx)} IN
    \/ /\ ~tx.dropped /\ JammedBy(attacks, tx, active)
       /\ \A i \in active : FALSE \in attacks[i].drop
    \/ /\ tx.dropped
       /\ \E last \in active :
            /\ JammedBy(attacks, tx, {i \in active : i <= last}) /\ TRUE \in attacks[last].drop
            /\ \A i \in active : i < last => FALSE \in attacks[i].drop

\* A security-aware controller lets a round run only when the T2 that the last
\* poisoning of a memory reports, if it is a number, is within bounds, and when
\* the plan that the skews make together is, unless the last skew hides them
\* all (SecurityTelemetryPolicy, SchedulePolicy, _on_round_start).
SecureRunsOnlyWhatItSees ==
  phase = "running" /\ secure =>
    /\ \A d \in DOMAIN T2 :
         LET lies == {i \in OfKind(attacks, "poison") : attacks[i].device = d}
             told == attacks[Max(lies)].fields.t2_ps IN
         lies # {} /\ told \in Int =>
           told <= 2 * T2[d] /\ (MaximumT2 # None => told <= MaximumT2)
    /\ LET skews == OfKind(attacks, "skew")
           shift(f) == Total([i \in DOMAIN attacks |-> IF i \in skews THEN attacks[i][f] ELSE 0])
           delta(f) == Plan[f] + shift(f) - Plan.challenge - shift("challenge") IN
       skews # {} /\ attacks[Max(skews)].seen =>
         /\ delta("x") \in 0 .. Bounds.delta /\ delta("y") \in 0 .. Bounds.delta
         /\ delta("x") - delta("y") \in -Bounds.skew .. Bounds.skew

\* Attacks on what is reported never reach what is: the devices keep their
\* capabilities, and v0's record keeps the time the answer came
\* (TelemetryPoisoningAttack, TimestampForgeryAttack).
TruthIsKept ==
  /\ \A d \in DOMAIN T2 : snapshot.devices[d].physical.t2_ps = T2[d]
  /\ report # None =>
       /\ report.local = report.physical
       /\ report.physical.answer_arrival \in {None, answerAt}

\* Prover and v0 read the same bit, whoever measures first, also when an
\* interceptor has measured and replaced the photon, if it guessed the basis;
\* errors along the measured letter do no harm (measure_bb84, prepare_bb84).
BitsAgree ==
  LET basis == BasisOf(inputs) IN
  /\ bit.prover # None /\ bit.v0 # None
  /\ tapped = None \/ tapped.basis = basis
  /\ errors \subseteq {"I", LetterOf(basis)}
  => bit.prover = bit.v0

\* The two backends never part: for every qubit of the round and both bases
\* they leave the same outcomes open, after any measurements, replacements and
\* errors (DensityMatrixQuantumOperations, SequenceQuantumOperations).
BackendsAgree ==
  phase = "running" =>
    \A h \in Handles, basis \in Basis : StoreOutcomes(h, basis) = AdapterOutcomes(h, basis)
=============================================================================
