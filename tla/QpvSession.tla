----------------------------- MODULE QpvSession -----------------------------
(***************************************************************************)
(* QpvSessionRuntime (qpv/session.py) with the devices, the classical      *)
(* channel and the scheduler it runs on.                                   *)
(*                                                                         *)
(* The program is one thread: the scheduler pops the first event, its      *)
(* handler runs to the end with every callback it triggers, and what the   *)
(* handler scheduled is in the heap before the next pop.  One action is    *)
(* one handler, for the event at the head of the heap.  What random        *)
(* numbers and attacks decide is chosen nondeterministically from the sets *)
(* of the configuration; everything else follows from the configuration.   *)
(*                                                                         *)
(* Two verifiers v0 and v1 check where the prover is.  v0 makes a photon   *)
(* pair, keeps one half in its memory and sends the other; the prover's    *)
(* detector registers it, stores it and commits.  The basis inputs x (from *)
(* v0) and y (from v1) then reach the prover, both halves are retrieved    *)
(* and measured, the prover answers, and each verifier reports to the      *)
(* controller, which decides the round.                                    *)
(***************************************************************************)
EXTENDS EventQueue, RoundTiming, Acceptance

CONSTANTS
  NumRounds,  \* simulation.rounds
  Configs     \* the configurations a behaviour may start with

(***************************************************************************)
(* Fields of a configuration besides those of RoundTiming:                 *)
(*   stop                        stop_time                                 *)
(*   gateWidth, qndDead, rest    detector gate width and dead time; the    *)
(*                               source's repetition period                *)
(*   dead[m], hold[m]            meter dead time; maximum_hold or None     *)
(*   skew = [x, y, challenge, seen]   ScheduleSkewAttack: the shifts and   *)
(*                               modify_controller_view                    *)
(*   secure, uncertainty, maxSkew, stale   controller.policy, its bounds,  *)
(*                               and whether telemetry was rejected        *)
(*   bias[v] = [commitment, answer]   TimestampForgeryAttack on v          *)
(*   intercept = [on, process, prepare, toHim, toProver]                   *)
(*                               InterceptResendAttack and its delays      *)
(*   tamper[kind]                what may become of a classical message:   *)
(*                               a set of sequences of added delays, one   *)
(*                               copy for each; the empty one is a loss    *)
(*   photonDelay                 delays jamming may add to the photon      *)
(*   can                         the outcomes random numbers may give:     *)
(*                               can.epr, can.photon, can.load[m],         *)
(*                               can.retrieve[m] are sets of BOOLEAN,      *)
(*                               can.qnd and can.close sets of outcomes,   *)
(*                               can.bit[m] the bits a meter may read      *)
(***************************************************************************)
Rounds == 0 .. NumRounds - 1
Inputs == [v0 |-> "x", v1 |-> "y"]  \* v0 sends x, v1 sends y
MessageKinds == {"basis", "commitment", "answer", "report"}

SessionConfig(c) ==
  /\ TimingConfig(c)
  /\ {c.stop, c.gateWidth, c.qndDead, c.rest, c.uncertainty, c.maxSkew} \subseteq Nat
  /\ \A m \in Holders : c.dead[m] \in Nat /\ c.hold[m] \in Nat \union {None}
  /\ {c.skew.x, c.skew.y, c.skew.challenge} \subseteq Int
  /\ {c.secure, c.stale, c.skew.seen, c.intercept.on} \subseteq BOOLEAN
  /\ \A v \in Verifiers : {c.bias[v].commitment, c.bias[v].answer} \subseteq Int
  /\ {c.intercept.process, c.intercept.prepare, c.intercept.toHim, c.intercept.toProver}
       \subseteq Nat
  /\ \A kind \in MessageKinds : c.tamper[kind] \subseteq Seq(Nat)
  /\ c.photonDelay \subseteq Nat
  /\ c.can.qnd \subseteq {"valid_detection", "missed_photon", "state_destroyed"}
  /\ c.can.close \subseteq {"missed_photon", "dark_count"}
  /\ \A m \in Holders : c.can.bit[m] \subseteq {0, 1}

\* QOrchSimConfig and validate_execution_horizon let no other configuration run.
ASSUME SessionAssumption ==
  /\ NumRounds \in Nat \ {0}
  /\ None \notin Int /\ None \notin BOOLEAN
  /\ \A c \in Configs : SessionConfig(c) /\ HorizonOK(c, NumRounds, c.stop)

VARIABLES
  config,     \* the configuration, fixed
  now, queue, nextSeq, status,          \* the scheduler
  source,     \* EprSource: [busy, freeAt]
  gate,       \* QndDetector._gates by round: [opens, closes, resolved]
  busyUntil,  \* QndDetector._busy_until_ps
  mem,        \* the two memories: [state, holds, storedAt, gen]
  meter,      \* the two measurement devices: [busy, freeAt]
  started,    \* self.rounds has the round
  completed,  \* runtime.completed
  round,      \* the rest of the round's runtime, its observations and reports
  results     \* self.results

schedulerVars == <<now, queue, nextSeq, status>>
deviceVars    == <<source, gate, busyUntil, mem, meter>>
decisionVars  == <<completed, results>>
vars == <<config, schedulerVars, deviceVars, started, round, decisionVars>>

\* holds is the round of the stored qubit, or None: qubits are named after
\* the round they were made for.
EmptySlot == [state |-> "empty", holds |-> None, storedAt |-> None, gen |-> 0]

NoObservation ==
  [commitment |-> None, commitAt |-> None, answer |-> None, answerAt |-> None,
   report |-> None]

FreshRound ==
  [outcome |-> "none", committed |-> FALSE, valid |-> FALSE, commitAt |-> None,
   arrival |-> [v \in Verifiers |-> None], measuring |-> FALSE,
   bit |-> [m \in Holders |-> None], dwell |-> None,
   seen |-> [v \in Verifiers |-> NoObservation], received |-> {}]

Event(w, p, kind, r, who, val) ==
  [when |-> w, phase |-> p, seq |-> 0, kind |-> kind, round |-> r, who |-> who,
   val |-> val]

\* schedule(): every round start is in the heap before the run.
StartEvents ==
  Stamp([i \in 1 .. NumRounds |->
           Event(RoundStartAt(config, i - 1), Control, "start", i - 1, "controller", 0)], 0)

Init ==
  /\ config \in Configs
  /\ now = 0 /\ queue = StartEvents /\ nextSeq = NumRounds /\ status = "running"
  /\ source = [busy |-> FALSE, freeAt |-> 0]
  /\ gate = [r \in Rounds |-> [opens |-> 0, closes |-> 0, resolved |-> TRUE]]
  /\ busyUntil = 0
  /\ mem = [m \in Holders |-> EmptySlot]
  /\ meter = [m \in Holders |-> [busy |-> FALSE, freeAt |-> 0]]
  /\ started = [r \in Rounds |-> FALSE]
  /\ completed = [r \in Rounds |-> FALSE]
  /\ round = [r \in Rounds |-> FreshRound]
  /\ results = <<>>

-----------------------------------------------------------------------------
(* The scheduler, as handlers see it. *)

\* DeterministicScheduler.run pops e and calls its handler.
Handle(e, kind) ==
  /\ status = "running"
  /\ e.kind = kind
  /\ IsFirst(e, queue)
  /\ e.when < config.stop
  /\ now' = e.when
  /\ UNCHANGED config

\* The handler returns, having scheduled evs in this order.
Return(e, evs) ==
  /\ queue' = (queue \ {e}) \union Stamp(evs, nextSeq)
  /\ nextSeq' = nextSeq + Len(evs)
  /\ UNCHANGED status

\* An exception leaves the handler and run(); run_experiment records the
\* failure and drops the session, so nothing reads its state afterwards.
Raise(e, error) ==
  /\ queue' = queue \ {e}
  /\ status' = error
  /\ UNCHANGED <<nextSeq, deviceVars, started, round, decisionVars>>

Errors == {"InvalidDeviceState", "PastEvent"}

-----------------------------------------------------------------------------
(* Messages. *)

\* _send_classical and AttackableClassicalChannel.send for one message whose
\* copies suffer the added delays of out.  The sender's delay is part of the
\* propagation delay and is added once more as added_delay_ps.
Copies(t, s, d, kind, r, who, val, out) ==
  [i \in DOMAIN out |->
     Event(t + ClassicalDelay(config, s, d) + config.sender[s][d] + out[i],
           PhysicalArrival, kind, r, who, val)]

\* One message from the prover to each verifier, v0 first.
Broadcast(t, kind, r, val, outs) ==
  Copies(t, "prover", "v0", kind, r, "v0", val, outs[1])
    \o Copies(t, "prover", "v1", kind, r, "v1", val, outs[2])

Pairs(kind) == config.tamper[kind] \X config.tamper[kind]

\* TimestampForgeryAttack.alter_report shifts what a report says, not what
\* happened.
Reported(at, bias) == IF at = None THEN None ELSE at + bias

\* The report v sends now on observation o with v0's bit (_maybe_send_report).
ReportOf(r, v, o, bit) ==
  [commitment |-> o.commitment, commitAt |-> o.commitAt,
   commitReported |-> Reported(o.commitAt, config.bias[v].commitment),
   answer |-> o.answer, answerAt |-> o.answerAt,
   answerReported |-> Reported(o.answerAt, config.bias[v].answer),
   local |-> IF v = "v0" THEN bit ELSE None,
   deadline |-> AnswerDeadline(config, r, v)]

Ready(v, rd) ==
  /\ rd.seen[v].commitment # None /\ rd.seen[v].answer # None
  /\ v = "v0" => rd.bit["v0"] # None

\* _maybe_send_report: a report goes out once, when it is complete or forced.
Reports(v, rd, force) == rd.seen[v].report = None /\ (Ready(v, rd) \/ force)

WithReport(r, v, rd, force) ==
  IF Reports(v, rd, force)
  THEN [rd EXCEPT !.seen[v].report = ReportOf(r, v, rd.seen[v], rd.bit["v0"])]
  ELSE rd

ReportCopies(t, r, v, rd, force, out) ==
  IF Reports(v, rd, force)
  THEN Copies(t, v, "controller", "report", r, v, 0, out)
  ELSE <<>>

-----------------------------------------------------------------------------
(* Memories and meters. *)

Loading(m) == [mem EXCEPT ![m].state = "loading", ![m].gen = @ + 1]

LoadEvent(t, m, r) ==
  Event(t + config.load[m], DeviceCompletion, "load", r, m, 0)

\* _try_measure on runtime rd and memories mm: whether it starts, what it
\* does to both memories, and the retrievals it schedules.  Mutant: v0's
\* memory is not looked at.
CanMeasureWithoutV0(rd, mm) ==
  /\ ~rd.measuring /\ rd.valid
  /\ \A v \in Verifiers : rd.arrival[v] # None
  /\ mm["prover"].state = "stored"

CanMeasure(rd, mm) ==
  /\ ~rd.measuring /\ rd.valid
  /\ \A v \in Verifiers : rd.arrival[v] # None
  /\ \A m \in Holders : mm[m].state = "stored"

AfterTry(rd, mm) == [rd EXCEPT !.measuring = @ \/ CanMeasure(rd, mm)]

Retrieving(rd, mm) ==
  IF CanMeasure(rd, mm)
  THEN [m \in Holders |-> [mm[m] EXCEPT !.state = "retrieving", !.gen = @ + 1]]
  ELSE mm

Retrievals(t, r, rd, mm) ==
  IF CanMeasure(rd, mm)
  THEN <<Event(t + config.retrieve["prover"], DeviceCompletion, "retrieve", r, "prover", 0),
         Event(t + config.retrieve["v0"], DeviceCompletion, "retrieve", r, "v0", 0)>>
  ELSE <<>>

-----------------------------------------------------------------------------
(* Deciding a round. *)

ReceivedReports(rd) == [v \in rd.received |-> rd.seen[v].report]

Reasons(rd) ==
  IF config.secure THEN SecurityReasons(ReceivedReports(rd), config.uncertainty)
  ELSE BaselineReasons(ReceivedReports(rd))

Margin(deadline, at) == IF deadline = None \/ at = None THEN None ELSE deadline - at

RoundResult(r, rd) ==
  LET basisAvailable ==
        IF \A v \in Verifiers : rd.arrival[v] # None
        THEN Larger(rd.arrival["v0"], rd.arrival["v1"]) ELSE None
      bits == {rd.bit[m] : m \in Holders}
      answerAt(v) == IF v \in rd.received THEN rd.seen[v].report.answerAt ELSE None
  IN  [round |-> r, accepted |-> Reasons(rd) = {}, reasons |-> Reasons(rd),
       committed |-> rd.committed, valid |-> rd.valid, outcome |-> rd.outcome,
       bit |-> rd.bit, dwell |-> rd.dwell,
       match |-> IF None \in bits THEN None ELSE rd.bit["prover"] = rd.bit["v0"],
       margins |-> [f \in MarginNames |->
                      IF f = "commitment" THEN Margin(basisAvailable, rd.commitAt)
                      ELSE Margin(AnswerDeadline(config, r, f), answerAt(f))]]

RejectedResult(r, reasons) ==
  [round |-> r, accepted |-> FALSE, reasons |-> reasons, committed |-> FALSE,
   valid |-> FALSE, outcome |-> "not_executed", bit |-> FreshRound.bit,
   dwell |-> None, match |-> None, margins |-> [f \in MarginNames |-> None]]

\* Mutants: the prover's slot only; a slot under retrieval too.
ReleasedProver(r) ==
  [mem EXCEPT !["prover"] =
     IF @.holds = r /\ @.state = "stored" THEN [EmptySlot EXCEPT !.gen = mem["prover"].gen + 1] ELSE @]

ReleasedAtOnce(r) ==
  [m \in Holders |->
     IF mem[m].holds = r THEN [EmptySlot EXCEPT !.gen = mem[m].gen + 1] ELSE mem[m]]

\* discard of the slots that still hold the round's qubit.
Released(r) ==
  [m \in Holders |->
     IF mem[m].holds = r /\ mem[m].state \in {"stored", "expired", "failed"}
     THEN [EmptySlot EXCEPT !.gen = mem[m].gen + 1]
     ELSE mem[m]]

\* Mutant: a completed round is decided again.
FinalizeAgain(r, rd) ==
  /\ completed' = [completed EXCEPT ![r] = TRUE]
  /\ results' = Append(results, RoundResult(r, rd))
  /\ mem' = Released(r)

\* _finalize_round, whose first line returns when the round is completed.
Finalize(r, rd) ==
  IF completed[r] THEN UNCHANGED <<completed, results, mem>>
  ELSE /\ completed' = [completed EXCEPT ![r] = TRUE]
       /\ results' = Append(results, RoundResult(r, rd))
       /\ mem' = Released(r)

-----------------------------------------------------------------------------
(* Round start. *)

\* AttackPipeline.alter_plan leaves the original plan to the controller.
SkewedChallenge(r) == ChallengeAt(config, r) + config.skew.challenge
SkewedBasis(r, v) == BasisSendAt(config, r, v) + config.skew[Inputs[v]]

\* SchedulePolicy on the plan the controller sees, and the telemetry verdict
\* of the constructor.
ScheduleReasons(r) ==
  LET on == config.skew.seen
      challenge == IF on THEN SkewedChallenge(r) ELSE ChallengeAt(config, r)
      send(v) == IF on THEN SkewedBasis(r, v) ELSE BasisSendAt(config, r, v)
      delta(v) == send(v) - challenge
  IN  For("delta_out_of_bounds",
          {v \in Verifiers : delta(v) \notin 0 .. config.c2b + config.uncertainty})
      \union IF send("v0") - send("v1") \notin -config.maxSkew .. config.maxSkew
             THEN {<<"basis_skew_out_of_bounds">>} ELSE {}

PreflightReasons(r) ==
  IF ~config.secure THEN {}
  ELSE ScheduleReasons(r) \union IF config.stale THEN {<<"telemetry">>} ELSE {}

SourceBusy(t) == source.busy \/ t < source.freeAt

RoundEvents(t, r, closes) ==
  <<Event(closes, Timeout, "gate", r, "prover", 0),
    Event(t + config.epr, DeviceCompletion, "epr", r, "v0", 0),
    Event(SkewedBasis(r, "v0"), Protocol, "send", r, "v0", 0),
    Event(SkewedBasis(r, "v1"), Protocol, "send", r, "v1", 0),
    Event(RoundTimeoutAt(config, r), Timeout, "timeout", r, "controller", 0)>>

\* Mutant: the refused round is not marked completed.
RejectPlanOpen(e) ==
  /\ Handle(e, "start")
  /\ PreflightReasons(e.round) # {}
  /\ started' = [started EXCEPT ![e.round] = TRUE]
  /\ results' = Append(results, RejectedResult(e.round, PreflightReasons(e.round)))
  /\ Return(e, <<>>)
  /\ UNCHANGED <<deviceVars, round, completed>>

\* The plan is refused before anything is sent.
RejectPlan(e) ==
  /\ Handle(e, "start")
  /\ PreflightReasons(e.round) # {}
  /\ started' = [started EXCEPT ![e.round] = TRUE]
  /\ completed' = [completed EXCEPT ![e.round] = TRUE]
  /\ results' = Append(results, RejectedResult(e.round, PreflightReasons(e.round)))
  /\ Return(e, <<>>)
  /\ UNCHANGED <<deviceVars, round>>

StartRound(e) ==
  LET r     == e.round
      t     == e.when
      opens == Larger(t, ChallengeAt(config, r) + config.qGeo - config.gateWidth \div 2)
  IN  /\ Handle(e, "start")
      /\ PreflightReasons(r) = {}
      /\ ~SourceBusy(t)
      /\ \A v \in Verifiers : SkewedBasis(r, v) >= t
      /\ started' = [started EXCEPT ![r] = TRUE]
      /\ gate' = [gate EXCEPT ![r] = [opens |-> opens, closes |-> opens + config.gateWidth,
                                      resolved |-> FALSE]]
      /\ source' = [source EXCEPT !.busy = TRUE]
      /\ Return(e, RoundEvents(t, r, opens + config.gateWidth))
      /\ UNCHANGED <<busyUntil, mem, meter, round, decisionVars>>

StartRoundRaises(e) ==
  /\ Handle(e, "start")
  /\ PreflightReasons(e.round) = {}
  /\ \/ SourceBusy(e.when) /\ Raise(e, "InvalidDeviceState")
     \/ /\ ~SourceBusy(e.when)
        /\ \E v \in Verifiers : SkewedBasis(e.round, v) < e.when
        /\ Raise(e, "PastEvent")

-----------------------------------------------------------------------------
(* The challenge photon. *)

SourceDone == source' = [busy |-> FALSE, freeAt |-> now' + config.rest]

\* EprSource._on_complete and _on_pair_ready.
PairReady(e) ==
  /\ Handle(e, "epr")
  /\ TRUE \in config.can.epr
  /\ mem["v0"].state = "empty"
  /\ SourceDone
  /\ mem' = Loading("v0")
  /\ Return(e, <<LoadEvent(e.when, "v0", e.round),
                 Event(Larger(e.when, SkewedChallenge(e.round)), Protocol, "challenge",
                       e.round, "v0", 0)>>)
  /\ UNCHANGED <<gate, busyUntil, meter, started, round, decisionVars>>

PairReadyRaises(e) ==
  /\ Handle(e, "epr")
  /\ TRUE \in config.can.epr
  /\ mem["v0"].state # "empty"
  /\ Raise(e, "InvalidDeviceState")

PairFails(e) ==
  /\ Handle(e, "epr")
  /\ FALSE \in config.can.epr
  /\ SourceDone
  /\ Return(e, <<>>)
  /\ UNCHANGED <<gate, busyUntil, mem, meter, started, round, decisionVars>>

\* Handlers that only schedule: the photon on its way.
Passes(e, evs) ==
  /\ Return(e, evs)
  /\ UNCHANGED <<deviceVars, started, round, decisionVars>>

\* _on_challenge_send: the photon is lost or jammed, intercepted, or sent.
SendChallenge(e) ==
  /\ Handle(e, "challenge")
  /\ \/ FALSE \in config.can.photon /\ Passes(e, <<>>)
     \/ /\ TRUE \in config.can.photon /\ config.intercept.on
        /\ Passes(e, <<Event(e.when + config.intercept.toHim + config.intercept.process,
                             DeviceCompletion, "intercept", e.round, "attacker", 0)>>)
     \/ /\ TRUE \in config.can.photon /\ ~config.intercept.on
        /\ \E d \in config.photonDelay :
             Passes(e, <<Event(e.when + config.qLink + d, PhysicalArrival, "photon",
                               e.round, "prover", 0)>>)

\* _on_intercept_complete and _on_replacement_send.
InterceptDone(e) ==
  /\ Handle(e, "intercept")
  /\ Passes(e, <<Event(e.when + config.intercept.prepare, Protocol, "replacement",
                       e.round, "attacker", 0)>>)

SendReplacement(e) ==
  /\ Handle(e, "replacement")
  /\ Passes(e, <<Event(e.when + config.intercept.toProver, PhysicalArrival, "photon",
                       e.round, "prover", 0)>>)

-----------------------------------------------------------------------------
(* Detection and commitment. *)

\* Mutant: the gate is not marked resolved.
CommitUnresolved(e, outcome) ==
  LET dark == outcome = "dark_count" IN
  /\ round' = [round EXCEPT ![e.round].outcome = outcome,
                            ![e.round].committed = dark,
                            ![e.round].valid = IF dark THEN FALSE ELSE @,
                            ![e.round].commitAt = e.when]
  /\ \E outs \in Pairs("commitment") :
       Return(e, Broadcast(e.when, "commitment", e.round, IF dark THEN 1 ELSE 0, outs))
  /\ UNCHANGED <<source, gate, mem, meter, started, decisionVars>>

\* _on_qnd_result without a stored qubit: a dark count commits all the same.
Commit(e, outcome) ==
  LET dark == outcome = "dark_count" IN
  /\ gate' = [gate EXCEPT ![e.round].resolved = TRUE]
  /\ round' = [round EXCEPT ![e.round].outcome = outcome,
                            ![e.round].committed = dark,
                            ![e.round].valid = IF dark THEN FALSE ELSE @,
                            ![e.round].commitAt = e.when]
  /\ \E outs \in Pairs("commitment") :
       Return(e, Broadcast(e.when, "commitment", e.round, IF dark THEN 1 ELSE 0, outs))
  /\ UNCHANGED <<source, mem, meter, started, decisionVars>>

Resolved(e) == gate[e.round].resolved /\ Passes(e, <<>>)

\* QndDetector.photon_arrival.
PhotonArrives(e) ==
  LET g == gate[e.round]
      inGate == e.when \in g.opens .. g.closes
  IN  /\ Handle(e, "photon")
      /\ \/ Resolved(e)
         \/ ~g.resolved /\ ~inGate /\ Commit(e, "outside_gate") /\ UNCHANGED busyUntil
         \/ /\ ~g.resolved /\ inGate /\ e.when < busyUntil
            /\ Commit(e, "detector_busy") /\ UNCHANGED busyUntil
         \/ /\ ~g.resolved /\ inGate /\ e.when >= busyUntil
            /\ Passes(e, <<Event(e.when + config.qnd, DeviceCompletion, "qnd", e.round,
                                 "prover", 0)>>)

\* QndDetector._on_complete; a valid detection loads the prover's memory.
DetectionDone(e) ==
  /\ Handle(e, "qnd")
  /\ \/ Resolved(e)
     \/ /\ ~gate[e.round].resolved
        /\ busyUntil' = e.when + config.qndDead
        /\ \E outcome \in config.can.qnd \ {"valid_detection"} : Commit(e, outcome)
     \/ /\ ~gate[e.round].resolved
        /\ "valid_detection" \in config.can.qnd
        /\ mem["prover"].state = "empty"
        /\ busyUntil' = e.when + config.qndDead
        /\ gate' = [gate EXCEPT ![e.round].resolved = TRUE]
        /\ round' = [round EXCEPT ![e.round].outcome = "valid_detection"]
        /\ mem' = Loading("prover")
        /\ Return(e, <<LoadEvent(e.when, "prover", e.round)>>)
        /\ UNCHANGED <<source, meter, started, decisionVars>>
     \/ /\ ~gate[e.round].resolved
        /\ "valid_detection" \in config.can.qnd
        /\ mem["prover"].state # "empty"
        /\ Raise(e, "InvalidDeviceState")

\* QndDetector._on_gate_close.
GateCloses(e) ==
  /\ Handle(e, "gate")
  /\ \/ Resolved(e)
     \/ /\ ~gate[e.round].resolved
        /\ \E outcome \in config.can.close : Commit(e, outcome)
        /\ UNCHANGED busyUntil

-----------------------------------------------------------------------------
(* Memories. *)

\* Mutant: the generation is taken too early, so that the expiry never matches.
ExpiryOfLastUse(t, m, r, gen) ==
  IF config.hold[m] = None THEN <<>>
  ELSE <<Event(t + config.hold[m], Timeout, "expire", r, m, gen - 1)>>

Expiry(t, m, r, gen) ==
  IF config.hold[m] = None THEN <<>>
  ELSE <<Event(t + config.hold[m], Timeout, "expire", r, m, gen)>>

\* TimedQuantumMemory._on_load_complete with _on_v0_memory_loaded or
\* _on_prover_memory_loaded.
LoadDone(e) ==
  LET m  == e.who
      r  == e.round
      mm == [mem EXCEPT ![m] = [@ EXCEPT !.state = "stored", !.holds = r,
                                         !.storedAt = e.when]]
      rd == IF m = "v0" THEN round[r]
            ELSE [round[r] EXCEPT !.committed = TRUE, !.valid = TRUE, !.commitAt = e.when]
      commit(outs) == IF m = "v0" THEN <<>>
                      ELSE Broadcast(e.when, "commitment", r, 1, outs)
  IN  /\ Handle(e, "load")
      /\ TRUE \in config.can.load[m]
      /\ mem' = Retrieving(rd, mm)
      /\ round' = [round EXCEPT ![r] = AfterTry(rd, mm)]
      /\ \E outs \in IF m = "v0" THEN {<<>>} ELSE Pairs("commitment") :
           Return(e, Expiry(e.when, m, r, mem[m].gen) \o commit(outs)
                       \o Retrievals(e.when, r, rd, mm))
      /\ UNCHANGED <<source, gate, busyUntil, meter, started, decisionVars>>

\* Mutant: the failed slot is not reset.
LoadFailsForGood(e) ==
  /\ Handle(e, "load")
  /\ FALSE \in config.can.load[e.who]
  /\ mem' = [mem EXCEPT ![e.who].state = "failed"]
  /\ Return(e, <<>>)
  /\ UNCHANGED <<source, gate, busyUntil, meter, started, round, decisionVars>>

\* The failed slot is empty again once the callback has run.
LoadFails(e) ==
  LET m == e.who  r == e.round IN
  /\ Handle(e, "load")
  /\ FALSE \in config.can.load[m]
  /\ mem' = [mem EXCEPT ![m].state = "empty"]
  /\ \/ m = "v0" /\ Return(e, <<>>) /\ UNCHANGED round
     \/ /\ m = "prover"
        /\ round' = [round EXCEPT ![r].committed = FALSE, ![r].valid = FALSE,
                                  ![r].commitAt = e.when]
        /\ \E outs \in Pairs("commitment") :
             Return(e, Broadcast(e.when, "commitment", r, 0, outs))
  /\ UNCHANGED <<source, gate, busyUntil, meter, started, decisionVars>>

\* Mutant: whatever is stored expires.
ExpireAnything(e) ==
  /\ Handle(e, "expire")
  /\ mem' = IF mem[e.who].state = "stored"
            THEN [mem EXCEPT ![e.who] = [@ EXCEPT !.state = "expired", !.holds = None,
                                                  !.storedAt = None]]
            ELSE mem
  /\ Return(e, <<>>)
  /\ UNCHANGED <<source, gate, busyUntil, meter, started, round, decisionVars>>

\* TimedQuantumMemory._on_expire.
Expire(e) ==
  LET m == e.who  slot == mem[m] IN
  /\ Handle(e, "expire")
  /\ mem' = IF slot.state = "stored" /\ slot.holds = e.round /\ slot.gen = e.val
            THEN [mem EXCEPT ![m] = [@ EXCEPT !.state = "expired", !.holds = None,
                                              !.storedAt = None]]
            ELSE mem
  /\ Return(e, <<>>)
  /\ UNCHANGED <<source, gate, busyUntil, meter, started, round, decisionVars>>

MeterBusy(m, t) == meter[m].busy \/ t < meter[m].freeAt

\* TimedQuantumMemory._on_retrieve_complete with _on_prover_retrieved or
\* _on_v0_retrieved, and TimedMeasurementDevice.measure.  Its early return,
\* for an empty slot, has no disjunct: nothing empties a slot in retrieval,
\* and a run in which something did would end in a deadlock here.
RetrieveDone(e) ==
  LET m == e.who  r == e.round
      emptied == [mem EXCEPT ![m] = [EmptySlot EXCEPT !.gen = mem[m].gen + 1]]
      dwelt == IF m = "prover"
               THEN [round EXCEPT ![r].dwell = e.when - mem[m].storedAt] ELSE round
  IN  /\ Handle(e, "retrieve")
      /\ mem[m].holds # None
      /\ \/ /\ FALSE \in config.can.retrieve[m]
            /\ mem' = emptied /\ round' = dwelt
            /\ Return(e, <<>>)
            /\ UNCHANGED <<source, gate, busyUntil, meter, started, decisionVars>>
         \/ /\ TRUE \in config.can.retrieve[m] /\ ~MeterBusy(m, e.when)
            /\ mem' = emptied /\ round' = dwelt
            /\ meter' = [meter EXCEPT ![m].busy = TRUE]
            /\ Return(e, <<Event(e.when + config.switch[m] + config.measure[m],
                                 DeviceCompletion, "measured", r, m, 0)>>)
            /\ UNCHANGED <<source, gate, busyUntil, started, decisionVars>>
         \/ /\ TRUE \in config.can.retrieve[m] /\ MeterBusy(m, e.when)
            /\ Raise(e, "InvalidDeviceState")

-----------------------------------------------------------------------------
(* Basis inputs, measurements, answers. *)

\* _on_basis_send.
SendBasis(e) ==
  /\ Handle(e, "send")
  /\ \E out \in config.tamper["basis"] :
       Passes(e, Copies(e.when, e.who, "prover", "basis", e.round, e.who, 0, out))

\* _on_classical_arrival at the prover.
BasisArrives(e) ==
  LET r  == e.round
      rd == [round[r] EXCEPT !.arrival[e.who] = e.when]
  IN  /\ Handle(e, "basis")
      /\ mem' = Retrieving(rd, mem)
      /\ round' = [round EXCEPT ![r] = AfterTry(rd, mem)]
      /\ Return(e, Retrievals(e.when, r, rd, mem))
      /\ UNCHANGED <<source, gate, busyUntil, meter, started, decisionVars>>

MeterDone(e) ==
  meter' = [meter EXCEPT ![e.who] = [busy |-> FALSE, freeAt |-> e.when + config.dead[e.who]]]

\* TimedMeasurementDevice._on_complete and _on_prover_measurement.
ProverMeasured(e) ==
  /\ Handle(e, "measured") /\ e.who = "prover"
  /\ MeterDone(e)
  /\ \E bit \in config.can.bit["prover"], outs \in Pairs("answer") :
       /\ round' = [round EXCEPT ![e.round].bit["prover"] = bit]
       /\ Return(e, Broadcast(e.when, "answer", e.round, bit, outs))
  /\ UNCHANGED <<source, gate, busyUntil, mem, started, decisionVars>>

\* The same with _on_v0_measurement, which may complete v0's report.
V0Measured(e) ==
  LET r == e.round IN
  /\ Handle(e, "measured") /\ e.who = "v0"
  /\ MeterDone(e)
  /\ \E bit \in config.can.bit["v0"], out \in config.tamper["report"] :
       LET rd == [round[r] EXCEPT !.bit["v0"] = bit] IN
       /\ round' = [round EXCEPT ![r] = WithReport(r, "v0", rd, FALSE)]
       /\ Return(e, ReportCopies(e.when, r, "v0", rd, FALSE, out))
  /\ UNCHANGED <<source, gate, busyUntil, mem, started, decisionVars>>

\* _on_classical_arrival at a verifier: a later copy overwrites.
VerifierReceives(e) ==
  LET r == e.round  v == e.who
      rd == IF e.kind = "commitment"
            THEN [round[r] EXCEPT !.seen[v].commitment = e.val, !.seen[v].commitAt = e.when]
            ELSE [round[r] EXCEPT !.seen[v].answer = e.val, !.seen[v].answerAt = e.when]
  IN  /\ Handle(e, "commitment") \/ Handle(e, "answer")
      /\ \E out \in config.tamper["report"] :
           /\ round' = [round EXCEPT ![r] = WithReport(r, v, rd, FALSE)]
           /\ Return(e, ReportCopies(e.when, r, v, rd, FALSE, out))
      /\ UNCHANGED <<deviceVars, started, decisionVars>>

-----------------------------------------------------------------------------
(* Reports, timeouts and decisions. *)

\* _on_classical_arrival at the controller.
ReportArrives(e) ==
  LET r  == e.round
      rd == [round[r] EXCEPT !.received = @ \union {e.who}]
  IN  /\ Handle(e, "report")
      /\ round' = [round EXCEPT ![r] = rd]
      /\ IF rd.received = Verifiers THEN Finalize(r, rd)
         ELSE UNCHANGED <<completed, results, mem>>
      /\ Return(e, <<>>)
      /\ UNCHANGED <<source, gate, busyUntil, meter, started>>

\* Mutant: the reports are forced out and nothing waits for them.
RoundTimesOutOnce(e) ==
  LET r == e.round
      rd0 == WithReport(r, "v0", round[r], TRUE)
  IN  /\ Handle(e, "timeout")
      /\ round' = [round EXCEPT ![r] = WithReport(r, "v1", rd0, TRUE)]
      /\ \E outs \in Pairs("report") :
           Return(e, ReportCopies(e.when, r, "v0", round[r], TRUE, outs[1])
                       \o ReportCopies(e.when, r, "v1", rd0, TRUE, outs[2]))
      /\ UNCHANGED <<deviceVars, started, decisionVars>>

\* _on_round_timeout: both reports are forced out before the final timeout.
RoundTimesOut(e) ==
  LET r == e.round
      rd0 == WithReport(r, "v0", round[r], TRUE)
  IN  /\ Handle(e, "timeout")
      /\ \/ completed[r] /\ Passes(e, <<>>)
         \/ /\ ~completed[r]
            /\ round' = [round EXCEPT ![r] = WithReport(r, "v1", rd0, TRUE)]
            /\ \E outs \in Pairs("report") :
                 Return(e, ReportCopies(e.when, r, "v0", round[r], TRUE, outs[1])
                             \o ReportCopies(e.when, r, "v1", rd0, TRUE, outs[2])
                             \o <<Event(e.when + FinalDelay(config), Timeout, "final", r,
                                        "controller", 0)>>)
            /\ UNCHANGED <<deviceVars, started, decisionVars>>

\* Mutant: a round nobody reported on is left alone.
FinalTimesOutIfHeard(e) ==
  /\ Handle(e, "final")
  /\ IF round[e.round].received # {} THEN Finalize(e.round, round[e.round])
     ELSE UNCHANGED <<completed, results, mem>>
  /\ Return(e, <<>>)
  /\ UNCHANGED <<source, gate, busyUntil, meter, started, round>>

FinalTimesOut(e) ==
  /\ Handle(e, "final")
  /\ Finalize(e.round, round[e.round])
  /\ Return(e, <<>>)
  /\ UNCHANGED <<source, gate, busyUntil, meter, started, round>>

-----------------------------------------------------------------------------
\* run() returns: nothing is pending before the stop time.
Finish ==
  /\ status = "running"
  /\ \A e \in queue : e.when >= config.stop
  /\ status' = "finished"
  /\ UNCHANGED <<config, now, queue, nextSeq, deviceVars, started, round, decisionVars>>

Over == status # "running" /\ UNCHANGED vars

DeviceStep(e) ==
  \/ PairReady(e) \/ PairReadyRaises(e) \/ PairFails(e)
  \/ PhotonArrives(e) \/ DetectionDone(e) \/ GateCloses(e)
  \/ LoadDone(e) \/ LoadFails(e) \/ Expire(e) \/ RetrieveDone(e)
  \/ ProverMeasured(e) \/ V0Measured(e)

ProtocolStep(e) ==
  \/ StartRound(e) \/ StartRoundRaises(e)
  \/ SendChallenge(e) \/ InterceptDone(e) \/ SendReplacement(e)
  \/ SendBasis(e) \/ BasisArrives(e) \/ VerifierReceives(e)
  \/ RoundTimesOut(e)

DecisionStep(e) == RejectPlan(e) \/ ReportArrives(e) \/ FinalTimesOut(e)

Step == \E e \in queue : DeviceStep(e) \/ ProtocolStep(e) \/ DecisionStep(e)

Next == Step \/ Finish \/ Over

Spec == Init /\ [][Next]_vars

\* run() keeps popping until the heap is empty or the stop time is reached.
FairSpec == Spec /\ WF_vars(Step) /\ WF_vars(Finish)
=============================================================================
