----------------------------- MODULE RoundTiming -----------------------------
(***************************************************************************)
(* The timing of a round: QpvSessionRuntime._plan and _classical_delay     *)
(* (qpv/session.py), estimate_round_period_ps and                          *)
(* validate_execution_horizon (config/validation.py).                      *)
(*                                                                         *)
(* Times are integer picoseconds.  A configuration c is a record; the      *)
(* fields read here are                                                    *)
(*   initialStart, c2b, slack, cleanup   protocol and simulation times     *)
(*   geo[v][n]          delay between verifier v and node n over the       *)
(*                      straight line, n the prover or the controller      *)
(*   link[s][d]         delay of the classical link s -> d: its length_m   *)
(*                      when the configuration gives one, else geo         *)
(*   sender[s][d]       the link's sender_delay                            *)
(*   qGeo, qLink        the same two delays for the photon, v0 -> prover   *)
(*   epr, qnd, load, retrieve, switch, measure   device latencies, the     *)
(*                      last four by node                                  *)
(***************************************************************************)
EXTENDS Integers

Verifiers == {"v0", "v1"}
Holders   == {"prover", "v0"}   \* the nodes with a memory and a meter

Lead == 1000000                 \* the 1_000_000 of _plan; the estimate adds it twice
Larger(a, b) == IF a >= b THEN a ELSE b

\* The fields above are natural numbers.  Links run from each verifier to the
\* prover and to the controller, and from the prover to each verifier.
TimingConfig(c) ==
  /\ {c.initialStart, c.c2b, c.slack, c.cleanup, c.qGeo, c.qLink, c.epr, c.qnd}
       \subseteq Nat
  /\ c.geo \in [Verifiers -> [{"prover", "controller"} -> Nat]]
  /\ \A delay \in {c.link, c.sender} :
       /\ \A v \in Verifiers : {delay[v]["prover"], delay[v]["controller"],
                                delay["prover"][v]} \subseteq Nat
  /\ \A latency \in {c.load, c.retrieve, c.switch, c.measure} :
       \A m \in Holders : latency[m] \in Nat

\* No link has a length_m of its own and no sender delays its messages.
Geometric(c) ==
  /\ c.qLink = c.qGeo
  /\ \A v \in Verifiers :
       /\ c.link[v] = c.geo[v]
       /\ c.link["prover"][v] = c.geo[v]["prover"]
       /\ \A n \in {"prover", "controller"} : c.sender[v][n] = 0
       /\ c.sender["prover"][v] = 0

ClassicalDelay(c, s, d) == c.link[s][d] + c.sender[s][d]

ControllerDelay(c) ==
  Larger(ClassicalDelay(c, "v0", "controller"), ClassicalDelay(c, "v1", "controller"))

-----------------------------------------------------------------------------
\* Mutant: the period without the windows of the reports.
RoundPeriodWithoutReports(c) ==
  LET toProver == Larger(c.geo["v0"]["prover"], c.geo["v1"]["prover"])
  IN  (c.c2b + toProver + Lead) + c.epr + c.qGeo + c.c2b + c.qnd + c.load["prover"]
        + c.retrieve["prover"] + c.switch["prover"] + c.measure["prover"]
        + toProver + c.slack

\* estimate_round_period_ps, which reads the geometry and not the links.
RoundPeriod(c) ==
  LET toProver     == Larger(c.geo["v0"]["prover"], c.geo["v1"]["prover"])
      toController == Larger(c.geo["v0"]["controller"], c.geo["v1"]["controller"])
  IN  (c.c2b + toProver + Lead) + c.epr + c.qGeo + c.c2b + c.qnd + c.load["prover"]
        + c.retrieve["prover"] + c.switch["prover"] + c.measure["prover"]
        + toProver + 2 * c.slack + 2 * toController + Lead + 1

RoundStartAt(c, i) == c.initialStart + i * RoundPeriod(c)

ChallengeAt(c, i) ==
  RoundStartAt(c, i) + c.epr
    + c.c2b + Larger(ClassicalDelay(c, "v0", "prover"), ClassicalDelay(c, "v1", "prover"))
    + Lead

BasisArrivalAt(c, i) == ChallengeAt(c, i) + c.qGeo + c.c2b

\* The x input leaves v0 and the y input leaves v1.
BasisSendAt(c, i, v) == BasisArrivalAt(c, i) - ClassicalDelay(c, v, "prover")

AnswerDeadline(c, i, v) ==
  BasisArrivalAt(c, i) + c.retrieve["prover"] + c.switch["prover"] + c.measure["prover"]
    + ClassicalDelay(c, "prover", v) + c.slack

\* Where _on_round_start and _on_round_timeout put the two timeouts.
RoundTimeoutAt(c, i) ==
  Larger(AnswerDeadline(c, i, "v0"), AnswerDeadline(c, i, "v1"))
    + ControllerDelay(c) + c.slack

\* Mutant: only v0's report is waited for.
FinalDelayOfV0(c) == ClassicalDelay(c, "v0", "controller") + 1

FinalDelay(c) == ControllerDelay(c) + 1

FinalTimeoutAt(c, i) == RoundTimeoutAt(c, i) + FinalDelay(c)

\* validate_execution_horizon, for n rounds.
HorizonOK(c, n, stop) == stop > c.initialStart + n * RoundPeriod(c) + c.cleanup
=============================================================================
