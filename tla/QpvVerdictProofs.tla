-------------------------- MODULE QpvVerdictProofs --------------------------
(***************************************************************************)
(* What a verdict says is what happened: for every configuration and number *)
(* of rounds, the facts in the result of an accepted round are true, no    *)
(* report is missing when a round is decided, and the verdict on a session *)
(* follows from its rounds.                                                *)
(***************************************************************************)
EXTENDS QpvMemoryProofs, SessionVerdict

-----------------------------------------------------------------------------
(* The handlers as operations on the runtime of one round: e is the event,  *)
(* rd and n the runtime before and after, N what the handler leaves behind. *)

\* The round has not started, or its gate is still open.
Unresolved(r) == ~started[r] \/ ~gate[r].resolved

IsLoad(x) == x.kind = "load" /\ x.who = "prover"

\* Events that say nothing about detection, measurements or reports.
Aside(N, r) ==
  \A x \in N : /\ x.round = r
               /\ \/ x.kind \in QuietKinds \union {"expire"}
                  \/ x.kind = "load" /\ x.who = "v0"

IdleOp(e, rd, n, N) == n = rd /\ e.kind # "report" /\ Aside(N, e.round)

CommitOp(e, rd, n, N) ==
  /\ \E outcome \in Outcomes \ {"valid_detection"} : CommittingEffect(n, rd, outcome)
  /\ e.kind \in {"photon", "qnd", "gate"} /\ Aside(N, e.round)

DetectOp(e, rd, n, N) ==
  /\ DetectedEffect(n, rd)
  /\ e.kind = "qnd" /\ \E x \in LoadsAt(e.when, "prover", e.round) : N = {x}

TryOp(e, rd, n, N) ==
  \E rd1, mm, X, R :
    /\ rd1 \in RoundType
    /\ \/ rd1 = rd
       \/ ArrivalEffect(rd1, rd)
       \/ IsLoad(e) /\ LoadEffect(rd1, rd, TRUE)
    /\ TryEffect(n, rd1, mm)
    /\ e.kind \in {"load", "basis"} /\ N = X \union R
    /\ Aside(X, e.round) /\ RetrievalsLeft(R, e.when, e.round, rd1, mm)

LoadFailsOp(e, rd, n, N) == IsLoad(e) /\ LoadEffect(n, rd, FALSE) /\ Aside(N, e.round)

RetrievedOp(e, rd, n, N) ==
  /\ n = rd \/ DwellEffect(n, rd)
  /\ e.kind = "retrieve"
  /\ N = {} \/ \E x \in MeasuredAt(e.when, e.who, e.round) : N = {x}

AnswersOp(e, rd, n, N) ==
  \E bit \in Nat :
    /\ BitEffect(n, rd, "prover", bit)
    /\ e.kind = "measured" /\ e.who = "prover"
    /\ N \subseteq UNION {AnswersAt(e.when, v, e.round, bit) : v \in Verifiers}

V0Op(e, rd, n, N) ==
  \E bit \in Nat, n1 \in RoundType :
    /\ BitEffect(n1, rd, "v0", bit) /\ ReportEffect(n, n1, e.round, "v0", FALSE)
    /\ e.kind = "measured" /\ e.who = "v0"
    /\ ReportsLeft(N, e.when, "v0", e.round, Reports("v0", n1, FALSE))

SeesOp(e, rd, n, N) ==
  \E n1 \in RoundType :
    /\ SeeingEffect(n1, rd, e) /\ ReportEffect(n, n1, e.round, e.who, FALSE)
    /\ e.kind \in {"commitment", "answer"} /\ e.who \in Verifiers
    /\ ReportsLeft(N, e.when, e.who, e.round, Reports(e.who, n1, FALSE))

ReceivedOp(e, rd, n, N) ==
  ReceivedEffect(n, rd, e.who) /\ e.kind = "report" /\ e.who \in Verifiers /\ N = {}

ForcedOp(e, rd, n, N) ==
  \E n1 \in RoundType :
    /\ ReportEffect(n1, rd, e.round, "v0", TRUE) /\ ReportEffect(n, n1, e.round, "v1", TRUE)
    /\ e.kind = "timeout"
    /\ \E P0, P1 : \E x \in FinalsAt(e.when, e.round) :
         /\ ReportsLeft(P0, e.when, "v0", e.round, Reports("v0", rd, TRUE))
         /\ ReportsLeft(P1, e.when, "v1", e.round, Reports("v1", n1, TRUE))
         /\ N = P0 \union P1 \union {x}

\* u and u1: the round is unresolved, before and after.
Op(e, rd, n, N, u, u1) ==
  /\ u1 => u
  /\ \/ IdleOp(e, rd, n, N)
     \/ u /\ CommitOp(e, rd, n, N)
     \/ u /\ ~u1 /\ DetectOp(e, rd, n, N)
     \/ TryOp(e, rd, n, N) \/ LoadFailsOp(e, rd, n, N)
     \/ RetrievedOp(e, rd, n, N) \/ AnswersOp(e, rd, n, N) \/ V0Op(e, rd, n, N)
     \/ SeesOp(e, rd, n, N) \/ ReceivedOp(e, rd, n, N) \/ ForcedOp(e, rd, n, N)

LEMMA QuietIsAside ==
  ASSUME NEW r, NEW t, NEW N \in SUBSET QuietEvents(r, t) PROVE Aside(N, r)
BY DEF QuietEvents, Aside

\* No round starts twice, and a gate resolves once.
LEMMA StepResolves ==
  ASSUME TypeOK, Agenda, NEW e \in queue, DeviceStep(e) \/ ProtocolStep(e) \/ DecisionStep(e),
         NEW q \in Rounds
  PROVE  /\ started[q] => started'[q]
         /\ Unresolved(q)' => Unresolved(q)
         /\ q # e.round => UNCHANGED <<started[q], gate[q]>>
<1>1. /\ e.round \in Rounds /\ started \in [Rounds -> BOOLEAN]
      /\ gate \in [Rounds -> [opens : Int, closes : Int, resolved : BOOLEAN]]
  BY TypesOfEvent DEF TypeOK, DeviceType
<1>2. CASE UNCHANGED <<started, gate>>
  BY <1>2 DEF Unresolved
<1>3. ASSUME started' = started, gate' = [gate EXCEPT ![e.round].resolved = TRUE]
      PROVE  /\ started[q] => started'[q]
             /\ Unresolved(q)' => Unresolved(q)
             /\ q # e.round => UNCHANGED <<started[q], gate[q]>>
  BY <1>1, <1>3 DEF Unresolved
<1>4. CASE \E outcome : Commit(e, outcome)
  BY <1>3, <1>4 DEF Commit
<1>5. CASE StartRound(e) \/ RejectPlan(e)
  <2>1. ~started[e.round] /\ started' = [started EXCEPT ![e.round] = TRUE]
    BY <1>5 DEF StartRound, RejectPlan, Handle, Agenda, StartsAreAhead
  <2>2. \A s \in Rounds : s # e.round => gate'[s] = gate[s]
    BY <1>1, <1>5 DEF StartRound, RejectPlan, deviceVars
  <2>3. CASE q = e.round
    BY <1>1, <2>1, <2>3 DEF Unresolved
  <2>4. CASE q # e.round
    BY <1>1, <2>1, <2>2, <2>4 DEF Unresolved
  <2>5. QED
    BY <2>3, <2>4
<1>6. CASE PhotonArrives(e) \/ GateCloses(e)
  BY <1>2, <1>4, <1>6 DEF PhotonArrives, GateCloses, Resolved, Passes, deviceVars
<1>7. CASE DetectionDone(e)
  BY <1>2, <1>3, <1>4, <1>7 DEF DetectionDone, Resolved, Passes, Raise, deviceVars
<1>8. CASE \/ PairReady(e) \/ PairReadyRaises(e) \/ PairFails(e) \/ LoadDone(e) \/ LoadFails(e)
           \/ Expire(e) \/ RetrieveDone(e) \/ ProverMeasured(e) \/ V0Measured(e)
           \/ StartRoundRaises(e)
  BY <1>2, <1>8 DEF PairReady, PairReadyRaises, PairFails, LoadDone, LoadFails, Expire,
     RetrieveDone, ProverMeasured, V0Measured, StartRoundRaises, Raise, deviceVars
<1>9. CASE \/ SendChallenge(e) \/ InterceptDone(e) \/ SendReplacement(e) \/ SendBasis(e)
           \/ BasisArrives(e) \/ VerifierReceives(e) \/ RoundTimesOut(e)
           \/ ReportArrives(e) \/ FinalTimesOut(e)
  BY <1>2, <1>9 DEF SendChallenge, InterceptDone, SendReplacement, SendBasis, BasisArrives,
     VerifierReceives, RoundTimesOut, ReportArrives, FinalTimesOut, Passes, deviceVars
<1>10. QED
  BY <1>5, <1>6, <1>7, <1>8, <1>9 DEF DeviceStep, ProtocolStep, DecisionStep

\* The handler of e is one of the operations.
OpStep(e) ==
  \E n \in RoundType : \E N :
    /\ Runs(e, n) /\ Leaves(e, N)
    /\ Op(e, round[e.round], n, N, Unresolved(e.round), Unresolved(e.round)')

LEMMA StepOps ==
  ASSUME TypeOK, Agenda, MemInv, RuntimeTypes, NEW e \in queue,
         DeviceStep(e) \/ ProtocolStep(e) \/ DecisionStep(e)
  PROVE  OpStep(e)
<1> DEFINE t == e.when
           r == e.round
           rd == round[r]
           u == Unresolved(r)
           u1 == Unresolved(r)'
<1>1. /\ r \in Rounds /\ rd \in RoundType /\ t \in Int /\ config \in Configs
      /\ round \in [Rounds -> RoundType]
  BY TypesOfEvent DEF RuntimeTypes, TypeOK
<1>2. u1 => u
  BY <1>1, StepResolves
<1>3. UNCHANGED round => Runs(e, rd)
  BY <1>1 DEF Runs
<1>23. ASSUME NEW n \in RoundType, NEW N, Runs(e, n), Leaves(e, N), Op(e, rd, n, N, u, u1)
      PROVE  OpStep(e)
  BY <1>23 DEF OpStep
<1>4. ASSUME NEW N, UNCHANGED round, e.kind # "report", Leaves(e, N), Aside(N, r)
      PROVE  OpStep(e)
  <2>1. IdleOp(e, rd, rd, N)
    BY <1>4 DEF IdleOp
  <2> HIDE DEF rd, u, u1
  <2>2. Op(e, rd, rd, N, u, u1)
    BY <1>2, <2>1 DEF Op
  <2>3. QED
    BY <1>1, <1>3, <1>4, <1>23, <2>2
<1>5. CASE \E N \in SUBSET QuietEvents(r, t) : Leaves(e, N) /\ UNCHANGED round /\ e.kind # "report"
  BY <1>4, <1>5, QuietIsAside
<1>6. ASSUME \E error : Raise(e, error), e.kind # "report" PROVE OpStep(e)
  <2>1. Leaves(e, {}) /\ UNCHANGED round /\ Aside({}, r)
    BY <1>6 DEF Raise, Leaves, Aside
  <2>2. QED
    BY <1>4, <1>6, <2>1
<1>7. ASSUME NEW outcome \in Outcomes \ {"valid_detection"}, Commit(e, outcome), u,
             e.kind \in {"photon", "qnd", "gate"}
      PROVE  OpStep(e)
  <2>1. PICK n \in RoundType : Runs(e, n) /\ CommittingEffect(n, rd, outcome)
    BY <1>7, CommitEffects
  <2>2. PICK N \in SUBSET QuietEvents(r, t) : Leaves(e, N)
    BY <1>7, CommitLeaves
  <2>3. Aside(N, r)
    BY QuietIsAside
  <2> HIDE DEF rd, u, u1
  <2>4. CommitOp(e, rd, n, N)
    BY <1>7, <2>1, <2>3 DEF CommitOp
  <2>5. Op(e, rd, n, N, u, u1)
    BY <1>2, <1>7, <2>4 DEF Op
  <2>6. QED
    BY <1>23, <2>1, <2>2, <2>5
<1>8. CASE PhotonArrives(e) \/ GateCloses(e)
  <2>1. e.kind \in {"photon", "gate"}
    BY <1>8 DEF PhotonArrives, GateCloses, Handle
  <2>2. \E N \in SUBSET QuietEvents(r, t) : Leaves(e, N)
    BY <1>8, PhotonLeaves
  <2>3. config.can.close \subseteq {"missed_photon", "dark_count"}
    BY <1>1, SessionAssumption DEF SessionConfig
  <2>4. \/ UNCHANGED round
        \/ u /\ \E outcome \in Outcomes \ {"valid_detection"} : Commit(e, outcome)
    <3>1. CASE PhotonArrives(e)
      BY <3>1 DEF PhotonArrives, Resolved, Passes, Outcomes, Unresolved
    <3>2. CASE GateCloses(e)
      BY <2>3, <3>2 DEF GateCloses, Resolved, Passes, Outcomes, Unresolved
    <3>3. QED
      BY <1>8, <3>1, <3>2
  <2> HIDE DEF u
  <2>5. QED
    BY <1>5, <1>7, <2>1, <2>2, <2>4
<1>9. CASE DetectionDone(e)
  <2>1. e.kind = "qnd"
    BY <1>9 DEF DetectionDone, Handle
  <2>2. config.can.qnd \subseteq {"valid_detection", "missed_photon", "state_destroyed"}
    BY <1>1, SessionAssumption DEF SessionConfig
  <2> DEFINE Detects == /\ round' = [round EXCEPT ![r].outcome = "valid_detection"]
                        /\ Return(e, <<LoadEvent(e.when, "prover", e.round)>>)
                        /\ gate' = [gate EXCEPT ![r].resolved = TRUE]
                        /\ UNCHANGED started /\ u
  <2>3. \/ UNCHANGED round /\ Return(e, <<>>)
        \/ \E error : Raise(e, error)
        \/ u /\ \E outcome \in Outcomes \ {"valid_detection"} : Commit(e, outcome)
        \/ Detects
    BY <1>9, <2>2 DEF DetectionDone, Resolved, Passes, Outcomes, Unresolved
  <2>4. ASSUME Detects PROVE OpStep(e)
    <3> DEFINE n == [rd EXCEPT !.outcome = "valid_detection"]
    <3>1. Runs(e, n)
      BY <1>1, <2>4 DEF Runs
    <3>2. n \in RoundType /\ DetectedEffect(n, rd)
      <4>1. "valid_detection" \in Outcomes
        BY DEF Outcomes
      <4>2. n \in RoundType
        BY <1>1, <4>1, DetectorRuntime
      <4>3. DetectedEffect(n, rd)
        BY <1>1, SimpleEffects
      <4>4. QED
        BY <4>2, <4>3
    <3>3. PICK x \in LoadsAt(t, "prover", r) : Leaves(e, {x})
      BY <2>4, LoadLeaves
    <3>4. ~u1
      <4>1. started[r]
        BY <2>1 DEF Agenda, StartsAreAhead
      <4>2. gate \in [Rounds -> [opens : Int, closes : Int, resolved : BOOLEAN]]
        BY DEF TypeOK, DeviceType
      <4>3. QED
        BY <1>1, <2>4, <4>1, <4>2 DEF Unresolved
    <3>5. u
      BY <2>4
    <3> HIDE DEF rd, u, u1, n
    <3>6. DetectOp(e, rd, n, {x})
      BY <2>1, <3>2, <3>3 DEF DetectOp
    <3>7. Op(e, rd, n, {x}, u, u1)
      BY <3>4, <3>5, <3>6 DEF Op
    <3>8. QED
      BY <1>23, <3>1, <3>2, <3>3, <3>7
  <2>5. ASSUME UNCHANGED round, Return(e, <<>>) PROVE OpStep(e)
    <3>1. \E N \in SUBSET QuietEvents(r, t) : Leaves(e, N)
      BY <2>5, NothingIsQuiet
    <3>2. QED
      BY <1>5, <2>1, <2>5, <3>1
  <2> HIDE DEF u, Detects
  <2>6. QED
    BY <1>6, <1>7, <2>1, <2>3, <2>4, <2>5
<1>10. CASE PairReady(e)
  <2>1. PICK x \in LoadsAt(t, "v0", r), N \in SUBSET QuietEvents(r, t) : Leaves(e, {x} \union N)
    BY <1>10, PairLeaves
  <2>2. Aside({x} \union N, r)
    BY <2>1, QuietIsAside DEF Aside, LoadsAt, EventsAt
  <2>3. UNCHANGED round /\ e.kind # "report"
    BY <1>10 DEF PairReady, Handle
  <2>4. QED
    BY <1>4, <2>1, <2>2, <2>3
<1>11. CASE \/ PairFails(e) \/ Expire(e) \/ StartRound(e) \/ SendChallenge(e) \/ InterceptDone(e)
            \/ SendReplacement(e) \/ SendBasis(e) \/ RejectPlan(e) \/ FinalTimesOut(e)
            \/ RoundTimesOut(e) /\ completed[r]
  <2>1. UNCHANGED round
    BY <1>11, NothingRuns
  <2>2. e.kind # "report"
    BY <1>11 DEF PairFails, Expire, StartRound, SendChallenge, InterceptDone, SendReplacement,
       SendBasis, RejectPlan, FinalTimesOut, RoundTimesOut, Handle
  <2>3. \E N \in SUBSET QuietEvents(r, t) : Leaves(e, N)
    <3>1. CASE RoundTimesOut(e) /\ completed[r]
      BY <3>1, NothingIsQuiet DEF RoundTimesOut, Passes
    <3>2. QED
      BY <1>11, <3>1, PhotonLeaves, SendLeaves, StartLeaves
  <2>4. QED
    BY <1>5, <2>1, <2>2, <2>3
<1>12. CASE PairReadyRaises(e) \/ StartRoundRaises(e)
  <2>1. e.kind # "report" /\ \E error : Raise(e, error)
    BY <1>12 DEF PairReadyRaises, StartRoundRaises, Handle
  <2>2. QED
    BY <1>6, <2>1
<1>13. CASE LoadDone(e)
  <2>1. /\ LoadedRound(e) \in RoundType
        /\ IF e.who = "v0" THEN LoadedRound(e) = rd ELSE LoadEffect(LoadedRound(e), rd, TRUE)
        /\ \E n \in RoundType : Runs(e, n) /\ TryEffect(n, LoadedRound(e), LoadedMem(e))
    BY <1>13, LoadEffects
  <2>2. PICK n \in RoundType : Runs(e, n) /\ TryEffect(n, LoadedRound(e), LoadedMem(e))
    BY <2>1
  <2>3. e.kind = "load" /\ e.who \in Holders
    BY <1>13, ActorOfEvent DEF LoadDone, Handle
  <2>4. LoadedRound(e) = rd \/ (IsLoad(e) /\ LoadEffect(LoadedRound(e), rd, TRUE))
    BY <2>1, <2>3 DEF IsLoad, Holders
  <2>5. PICK X, R : \E N \in SUBSET QuietEvents(r, t) :
          /\ ExpiryLeft(X, t, e.who, r, mem[e.who].gen)
          /\ RetrievalsLeft(R, t, r, LoadedRound(e), LoadedMem(e))
          /\ Leaves(e, X \union N \union R)
    BY <1>13, LoadedLeaves
  <2>6. PICK N \in SUBSET QuietEvents(r, t) : Leaves(e, X \union N \union R)
    BY <2>5
  <2> DEFINE Y == X \union N
  <2>7. Aside(Y, r)
    <3>1. Aside(N, r)
      BY QuietIsAside
    <3>2. Aside(X, r)
      BY <2>5 DEF ExpiryLeft, ExpiriesAt, EventsAt, Aside
    <3>3. QED
      BY <3>1, <3>2 DEF Aside
  <2>8. Leaves(e, Y \union R)
    BY <2>6
  <2> HIDE DEF rd, u, u1, Y
  <2>9. TryOp(e, rd, n, Y \union R)
    BY <2>1, <2>2, <2>3, <2>4, <2>5, <2>7 DEF TryOp
  <2>10. Op(e, rd, n, Y \union R, u, u1)
    BY <1>2, <2>9 DEF Op
  <2>11. QED
    BY <1>23, <2>2, <2>8, <2>10
<1>14. CASE LoadFails(e)
  <2>1. e.kind = "load"
    BY <1>14 DEF LoadFails, Handle
  <2>2. PICK N \in SUBSET QuietEvents(r, t) : Leaves(e, N)
    BY <1>14, FailedLoadLeaves
  <2>3. CASE UNCHANGED round
    BY <1>5, <2>1, <2>2, <2>3
  <2>4. CASE e.who = "prover" /\ \E n \in RoundType : Runs(e, n) /\ LoadEffect(n, rd, FALSE)
    <3>1. PICK n \in RoundType : Runs(e, n) /\ LoadEffect(n, rd, FALSE)
      BY <2>4
    <3> HIDE DEF rd, u, u1
    <3>2. LoadFailsOp(e, rd, n, N)
      BY <2>1, <2>4, <3>1, QuietIsAside DEF LoadFailsOp, IsLoad
    <3>3. Op(e, rd, n, N, u, u1)
      BY <1>2, <3>2 DEF Op
    <3>4. QED
      BY <1>23, <2>2, <3>1, <3>3
  <2>5. QED
    BY <1>14, <2>3, <2>4, LoadEffects
<1>15. CASE RetrieveDone(e)
  <2>1. e.kind = "retrieve"
    BY <1>15 DEF RetrieveDone, Handle
  <2>2. CASE \E error : Raise(e, error)
    BY <1>6, <2>1, <2>2
  <2>3. CASE status' \notin Errors
    <3>1. PICK n \in RoundType : Runs(e, n) /\ (n = rd \/ DwellEffect(n, rd))
      BY <1>1, <1>3, <1>15, MeasureEffects
    <3>2. PICK N : Leaves(e, N) /\ (N = {} \/ \E x \in MeasuredAt(t, e.who, r) : N = {x})
      BY <1>15, <2>3, RetrievedLeaves
    <3> HIDE DEF rd, u, u1
    <3>3. RetrievedOp(e, rd, n, N)
      BY <2>1, <3>1, <3>2 DEF RetrievedOp
    <3>4. Op(e, rd, n, N, u, u1)
      BY <1>2, <3>3 DEF Op
    <3>5. QED
      BY <1>23, <3>1, <3>2, <3>4
  <2>4. QED
    BY <1>15, <2>2, <2>3 DEF RetrieveDone, Return, Handle, Errors
<1>16. CASE BasisArrives(e)
  <2> DEFINE rd1 == [rd EXCEPT !.arrival[e.who] = e.when]
  <2>1. /\ rd1 \in RoundType /\ ArrivalEffect(rd1, rd)
        /\ \E n \in RoundType : Runs(e, n) /\ TryEffect(n, rd1, mem)
    BY <1>16, MeasureEffects
  <2>2. PICK n \in RoundType : Runs(e, n) /\ TryEffect(n, rd1, mem)
    BY <2>1
  <2>3. PICK R : RetrievalsLeft(R, t, r, rd1, mem) /\ Leaves(e, R)
    BY <1>16, BasisLeaves
  <2>4. e.kind = "basis"
    BY <1>16 DEF BasisArrives, Handle
  <2>5. Aside({}, r)
    BY DEF Aside
  <2> HIDE DEF rd, u, u1, rd1
  <2>6. TryOp(e, rd, n, {} \union R)
    BY <2>1, <2>2, <2>3, <2>4, <2>5 DEF TryOp
  <2>7. {} \union R = R
    OBVIOUS
  <2>8. Op(e, rd, n, R, u, u1)
    BY <1>2, <2>6, <2>7 DEF Op
  <2>9. QED
    BY <1>23, <2>2, <2>3, <2>8
<1>17. CASE ProverMeasured(e)
  <2>1. PICK bit \in Nat, outs \in Pairs("answer"), n \in RoundType :
          /\ Runs(e, n) /\ BitEffect(n, rd, "prover", bit)
          /\ Return(e, Broadcast(e.when, "answer", e.round, bit, outs))
    BY <1>17, MeasureEffects
  <2>2. PICK A \in SUBSET (UNION {AnswersAt(t, v, r, bit) : v \in Verifiers}) : Leaves(e, A)
    BY <2>1, AnswerLeaves
  <2>3. e.kind = "measured" /\ e.who = "prover"
    BY <1>17 DEF ProverMeasured, Handle
  <2> HIDE DEF rd, u, u1
  <2>4. AnswersOp(e, rd, n, A)
    BY <2>1, <2>2, <2>3 DEF AnswersOp
  <2>5. Op(e, rd, n, A, u, u1)
    BY <1>2, <2>4 DEF Op
  <2>6. QED
    BY <1>23, <2>1, <2>2, <2>5
<1>18. CASE V0Measured(e)
  <2>1. PICK bit \in Nat, n1 \in RoundType, n \in RoundType :
          /\ BitEffect(n1, rd, "v0", bit) /\ Reporting(e, "v0", n1)
          /\ Runs(e, n) /\ ReportEffect(n, n1, r, "v0", FALSE)
    BY <1>18, ReportEffects
  <2>2. PICK out \in config.tamper["report"] :
          Return(e, ReportCopies(e.when, e.round, "v0", n1, FALSE, out))
    BY <2>1 DEF Reporting
  <2>3. PICK P : ReportsLeft(P, t, "v0", r, Reports("v0", n1, FALSE)) /\ Leaves(e, P)
    BY <2>2, ReportLeaves DEF Verifiers
  <2>4. e.kind = "measured" /\ e.who = "v0"
    BY <1>18 DEF V0Measured, Handle
  <2> HIDE DEF rd, u, u1
  <2>5. V0Op(e, rd, n, P)
    BY <2>1, <2>3, <2>4 DEF V0Op
  <2>6. Op(e, rd, n, P, u, u1)
    BY <1>2, <2>5 DEF Op
  <2>7. QED
    BY <1>23, <2>1, <2>3, <2>6
<1>19. CASE VerifierReceives(e)
  <2>1. PICK n1 \in RoundType, n \in RoundType :
          /\ e.who \in Verifiers /\ SeeingEffect(n1, rd, e) /\ Reporting(e, e.who, n1)
          /\ Runs(e, n) /\ ReportEffect(n, n1, r, e.who, FALSE)
    BY <1>19, ReportEffects
  <2>2. PICK out \in config.tamper["report"] :
          Return(e, ReportCopies(e.when, e.round, e.who, n1, FALSE, out))
    BY <2>1 DEF Reporting
  <2>3. PICK P : ReportsLeft(P, t, e.who, r, Reports(e.who, n1, FALSE)) /\ Leaves(e, P)
    BY <2>1, <2>2, ReportLeaves
  <2>4. e.kind \in {"commitment", "answer"}
    BY <1>19 DEF VerifierReceives, Handle
  <2> HIDE DEF rd, u, u1
  <2>5. SeesOp(e, rd, n, P)
    BY <2>1, <2>3, <2>4 DEF SeesOp
  <2>6. Op(e, rd, n, P, u, u1)
    BY <1>2, <2>5 DEF Op
  <2>7. QED
    BY <1>23, <2>1, <2>3, <2>6
<1>20. CASE ReportArrives(e)
  <2>1. e.who \in Verifiers /\ e.kind = "report" /\ Return(e, <<>>)
    BY <1>20, ReportEffects DEF ReportArrives, Handle
  <2>2. PICK n \in RoundType : Runs(e, n) /\ ReceivedEffect(n, rd, e.who)
    BY <1>20, ReportEffects
  <2>3. Leaves(e, {})
    BY <2>1, NothingLeft
  <2> HIDE DEF rd, u, u1
  <2>4. Op(e, rd, n, {}, u, u1)
    BY <1>2, <2>1, <2>2 DEF Op, ReceivedOp
  <2>5. QED
    BY <1>23, <2>2, <2>3, <2>4
<1>21. CASE RoundTimesOut(e) /\ ~completed[r]
  <2> DEFINE n1 == WithReport(r, "v0", rd, TRUE)
  <2>1. PICK n \in RoundType :
          /\ n1 \in RoundType /\ ReportEffect(n1, rd, r, "v0", TRUE)
          /\ Runs(e, n) /\ ReportEffect(n, n1, r, "v1", TRUE)
    BY <1>21, ReportEffects
  <2>2. PICK P0, P1 : \E x \in FinalsAt(t, r) :
          /\ ReportsLeft(P0, t, "v0", r, Reports("v0", rd, TRUE))
          /\ ReportsLeft(P1, t, "v1", r, Reports("v1", n1, TRUE))
          /\ Leaves(e, P0 \union P1 \union {x})
    BY <1>21, TimeoutLeaves
  <2>3. e.kind = "timeout"
    BY <1>21 DEF RoundTimesOut, Handle
  <2>4. PICK x \in FinalsAt(t, r) : Leaves(e, P0 \union P1 \union {x})
    BY <2>2
  <2> HIDE DEF rd, u, u1, n1
  <2>5. ForcedOp(e, rd, n, P0 \union P1 \union {x})
    BY <2>1, <2>2, <2>3, <2>4 DEF ForcedOp
  <2>6. Op(e, rd, n, P0 \union P1 \union {x}, u, u1)
    BY <1>2, <2>5 DEF Op
  <2>7. QED
    BY <1>23, <2>1, <2>4, <2>6
<1>22. QED
  BY <1>8, <1>9, <1>10, <1>11, <1>12, <1>13, <1>14, <1>15, <1>16, <1>17, <1>18, <1>19, <1>20,
     <1>21 DEF DeviceStep, ProtocolStep, DecisionStep

-----------------------------------------------------------------------------
(* What a runtime rd says of its round, with the events E that are pending  *)
(* for it.                                                                  *)

Reading(x) == x.kind \in {"retrieve", "measured"}
ReportOfV(x, v) == x.kind = "report" /\ x.who = v

\* Valid means that the detector registered the photon and the prover stored it.
Detected(rd, E, u) ==
  /\ u => ~rd.valid
  /\ \A x \in E : IsLoad(x) => ~u /\ rd.outcome = "valid_detection" /\ ~rd.valid
  /\ \A x, y \in E : IsLoad(x) /\ IsLoad(y) => x = y
  /\ rd.valid => rd.outcome = "valid_detection" /\ rd.committed
  /\ rd.measuring => rd.valid

\* Each memory is read at most once, after the start of the measurement, and
\* what is on its way to the verifiers is what the prover read.
Measured(rd, E) ==
  /\ \A m \in Holders : rd.bit[m] # None => rd.measuring
  /\ \A x \in E : Reading(x) => rd.measuring /\ rd.bit[x.who] = None
  /\ \A x, y \in E : Reading(x) /\ Reading(y) /\ x.who = y.who => x = y
  /\ \A x \in E : x.kind = "answer" => rd.bit["prover"] # None /\ x.val = rd.bit["prover"]

\* A report repeats what its verifier saw, but for the forged times.
Honest(r, v, rd, p) ==
  /\ p.answer # None => p.answer = rd.bit["prover"]
  /\ p.answer = None <=> p.answerAt = None
  /\ p.answerAt \in Opt(Int)
  /\ p.answerReported = Reported(p.answerAt, config.bias[v].answer)
  /\ p.deadline = AnswerDeadline(config, r, v)
  /\ p.local # None => v = "v0" /\ p.local = rd.bit["v0"]

Saw(r, v, rd, E) ==
  LET o == rd.seen[v] IN
  /\ o.answer # None => o.answer = rd.bit["prover"]
  /\ o.answer = None <=> o.answerAt = None
  /\ \/ Honest(r, v, rd, o.report)
     \/ o.report = None /\ v \notin rd.received /\ \A x \in E : ~ReportOfV(x, v)

Truth(r, rd, E, u) ==
  Detected(rd, E, u) /\ Measured(rd, E) /\ \A v \in Verifiers : Saw(r, v, rd, E)

LEMMA LeftAside ==
  ASSUME NEW r, NEW N, Aside(N, r), NEW x \in N
  PROVE  ~IsLoad(x) /\ ~Reading(x) /\ x.kind \notin {"answer", "report", "final"} /\ x.round = r
BY DEF Aside, QuietKinds, IsLoad, Reading

LEMMA LeftRetrievals ==
  ASSUME NEW t, NEW r, NEW rd, NEW mm, NEW R, RetrievalsLeft(R, t, r, rd, mm), NEW x \in R
  PROVE  /\ x.kind = "retrieve" /\ x.round = r /\ x.who \in Holders /\ CanMeasure(rd, mm)
         /\ \A y \in R : y.who = x.who => y = x
BY DEF RetrievalsLeft, RetrievesAt, EventsAt, Holders

LEMMA LeftReports ==
  ASSUME NEW t, NEW v, NEW r, NEW x \in ReportsAt(t, v, r)
  PROVE  x.kind = "report" /\ x.round = r /\ x.who = v /\ x.when \in From(t)
BY DEF ReportsAt, EventsAt

LEMMA LeftReadings ==
  ASSUME NEW t, NEW m, NEW r
  PROVE  /\ \A x \in MeasuredAt(t, m, r) : x.kind = "measured" /\ x.round = r /\ x.who = m
         /\ \A x \in LoadsAt(t, m, r) : x.kind = "load" /\ x.round = r /\ x.who = m
BY DEF MeasuredAt, LoadsAt, EventsAt

LEMMA LeftAnswers ==
  ASSUME NEW t, NEW r, NEW bit, NEW N,
         N \subseteq UNION {AnswersAt(t, v, r, bit) : v \in Verifiers}, NEW x \in N
  PROVE  /\ x.kind = "answer" /\ x.round = r /\ x.who \in Verifiers /\ x.val = bit
         /\ x.when \in From(t + AnswerTravel(x.who))
<1>1. PICK v \in Verifiers : x \in AnswersAt(t, v, r, bit)
  OBVIOUS
<1>2. QED
  BY <1>1 DEF AnswersAt, EventsAt

\* What is left behind by handlers that measure or report.
LEMMA LeftReporting ==
  ASSUME NEW e, NEW rd, NEW n, NEW N,
         V0Op(e, rd, n, N) \/ SeesOp(e, rd, n, N) \/ ReceivedOp(e, rd, n, N) \/ ForcedOp(e, rd, n, N),
         NEW x \in N
  PROVE  x.kind \in {"report", "final"} /\ x.round = e.round
<1>1. CASE V0Op(e, rd, n, N)
  BY <1>1, LeftReports DEF V0Op, ReportsLeft
<1>2. CASE SeesOp(e, rd, n, N)
  BY <1>2, LeftReports DEF SeesOp, ReportsLeft
<1>3. CASE ReceivedOp(e, rd, n, N)
  BY <1>3 DEF ReceivedOp
<1>4. CASE ForcedOp(e, rd, n, N)
  <2>1. PICK P0, P1 : \E y \in FinalsAt(e.when, e.round) :
          /\ P0 \subseteq ReportsAt(e.when, "v0", e.round)
          /\ P1 \subseteq ReportsAt(e.when, "v1", e.round)
          /\ N = P0 \union P1 \union {y}
    BY <1>4 DEF ForcedOp, ReportsLeft
  <2>2. CASE x \in P0 \union P1
    BY <2>1, <2>2, LeftReports
  <2>3. CASE x \notin P0 \union P1
    BY <2>1, <2>3 DEF FinalsAt, EventsAt
  <2>4. QED
    BY <2>2, <2>3
<1>5. QED
  BY <1>1, <1>2, <1>3, <1>4

LEMMA DetectedKept ==
  ASSUME NEW rd \in RoundType, NEW n \in RoundType, NEW E, NEW e \in E, NEW N,
         NEW u \in BOOLEAN, NEW u1 \in BOOLEAN, Detected(rd, E, u), Op(e, rd, n, N, u, u1)
  PROVE  Detected(n, (E \ {e}) \union N, u1)
<1>1. u1 => u
  BY DEF Op
<1>2. ASSUME n.valid = rd.valid, n.outcome = rd.outcome, n.committed = rd.committed,
             n.measuring = rd.measuring, \A x \in N : ~IsLoad(x)
      PROVE  Detected(n, (E \ {e}) \union N, u1)
  BY <1>1, <1>2 DEF Detected
<1>3. CASE IdleOp(e, rd, n, N)
  BY <1>2, <1>3, LeftAside DEF IdleOp
<1>4. CASE u /\ CommitOp(e, rd, n, N)
  <2>1. \A x \in (E \ {e}) \union N : ~IsLoad(x)
    BY <1>4, LeftAside DEF CommitOp, Detected
  <2>2. ~n.valid /\ ~n.measuring
    BY <1>4 DEF CommitOp, CommittingEffect, Detected, RoundType
  <2>3. QED
    BY <2>1, <2>2 DEF Detected
<1>5. CASE u /\ ~u1 /\ DetectOp(e, rd, n, N)
  <2>1. PICK y : N = {y}
    BY <1>5 DEF DetectOp
  <2>2. \A x \in E \ {e} : ~IsLoad(x)
    BY <1>5 DEF Detected
  <2>3. n.outcome = "valid_detection" /\ ~n.valid /\ ~n.measuring
    BY <1>5 DEF DetectOp, DetectedEffect, Detected
  <2>4. QED
    BY <1>5, <2>1, <2>2, <2>3 DEF Detected
<1>6. CASE TryOp(e, rd, n, N)
  <2>1. PICK rd1, mm, X, R :
          /\ \/ rd1 = rd
             \/ ArrivalEffect(rd1, rd)
             \/ IsLoad(e) /\ LoadEffect(rd1, rd, TRUE)
          /\ TryEffect(n, rd1, mm)
          /\ e.kind \in {"load", "basis"} /\ N = X \union R
          /\ Aside(X, e.round) /\ RetrievalsLeft(R, e.when, e.round, rd1, mm)
    BY <1>6 DEF TryOp
  <2>2. \A x \in N : ~IsLoad(x)
    BY <2>1, LeftAside, LeftRetrievals DEF IsLoad
  <2>3. n.outcome = rd1.outcome /\ n.committed = rd1.committed /\ n.valid = rd1.valid
        /\ (n.measuring => rd1.measuring \/ rd1.valid)
    BY <2>1 DEF TryEffect, CanMeasure
  <2>4. CASE IsLoad(e) /\ LoadEffect(rd1, rd, TRUE)
    <3>1. rd1.valid /\ rd1.committed /\ rd1.outcome = rd.outcome
      BY <2>4 DEF LoadEffect
    <3>2. ~u /\ rd.outcome = "valid_detection" /\ \A x \in E \ {e} : ~IsLoad(x)
      BY <2>4 DEF Detected
    <3>3. QED
      BY <1>1, <2>2, <2>3, <3>1, <3>2 DEF Detected
  <2>5. CASE rd1 = rd \/ ArrivalEffect(rd1, rd)
    <3>1. /\ rd1.valid = rd.valid /\ rd1.committed = rd.committed
          /\ rd1.outcome = rd.outcome /\ rd1.measuring = rd.measuring
      BY <2>5 DEF ArrivalEffect
    <3>2. QED
      BY <1>1, <2>2, <2>3, <3>1 DEF Detected
  <2>6. QED
    BY <2>1, <2>4, <2>5
<1>7. CASE LoadFailsOp(e, rd, n, N)
  <2>1. \A x \in (E \ {e}) \union N : ~IsLoad(x)
    BY <1>7, LeftAside DEF LoadFailsOp, Detected
  <2>2. ~n.valid /\ ~n.measuring
    BY <1>7 DEF LoadFailsOp, LoadEffect, Detected
  <2>3. QED
    BY <2>1, <2>2 DEF Detected
<1>8. CASE RetrievedOp(e, rd, n, N)
  <2>1. \A x \in N : ~IsLoad(x)
    BY <1>8, LeftReadings DEF RetrievedOp, IsLoad
  <2>2. QED
    BY <1>2, <1>8, <2>1 DEF RetrievedOp, DwellEffect
<1>9. CASE AnswersOp(e, rd, n, N)
  <2>1. \A x \in N : x.kind = "answer"
    BY <1>9, LeftAnswers DEF AnswersOp
  <2>2. QED
    BY <1>2, <1>9, <2>1 DEF AnswersOp, BitEffect, IsLoad
<1>10. CASE V0Op(e, rd, n, N) \/ SeesOp(e, rd, n, N) \/ ReceivedOp(e, rd, n, N)
            \/ ForcedOp(e, rd, n, N)
  <2>1. \A x \in N : ~IsLoad(x)
    BY <1>10, LeftReporting DEF IsLoad
  <2>2. /\ n.valid = rd.valid /\ n.outcome = rd.outcome /\ n.committed = rd.committed
        /\ n.measuring = rd.measuring
    BY <1>10 DEF V0Op, SeesOp, ReceivedOp, ForcedOp, BitEffect, SeeingEffect, ReceivedEffect,
       ReportEffect
  <2>3. QED
    BY <1>2, <2>1, <2>2
<1>11. QED
  BY <1>3, <1>4, <1>5, <1>6, <1>7, <1>8, <1>9, <1>10 DEF Op

LEMMA MeasuredKept ==
  ASSUME NEW rd \in RoundType, NEW n \in RoundType, NEW E, NEW e \in E, NEW N,
         NEW u \in BOOLEAN, NEW u1 \in BOOLEAN, \A x \in E : Reading(x) => x.who \in Holders,
         Measured(rd, E), Op(e, rd, n, N, u, u1)
  PROVE  Measured(n, (E \ {e}) \union N)
<1> DEFINE E1 == (E \ {e}) \union N
<1>1. rd.bit \in [Holders -> Opt(Nat)] /\ n.bit \in [Holders -> Opt(Nat)]
  BY DEF RoundType
<1>2. "prover" \in Holders /\ "v0" \in Holders /\ Holders = {"prover", "v0"}
  BY DEF Holders
<1>3. ASSUME n.bit = rd.bit, n.measuring = rd.measuring,
             \A x \in N : ~Reading(x) /\ x.kind # "answer"
      PROVE  Measured(n, E1)
  BY <1>3 DEF Measured
<1>4. CASE IdleOp(e, rd, n, N) \/ CommitOp(e, rd, n, N) \/ LoadFailsOp(e, rd, n, N)
  <2>1. Aside(N, e.round)
    BY <1>4 DEF IdleOp, CommitOp, LoadFailsOp
  <2>2. n.bit = rd.bit /\ n.measuring = rd.measuring
    BY <1>4 DEF IdleOp, CommitOp, LoadFailsOp, CommittingEffect, LoadEffect
  <2>3. QED
    BY <1>3, <2>1, <2>2, LeftAside
<1>5. CASE DetectOp(e, rd, n, N)
  <2>1. \A x \in N : x.kind = "load"
    BY <1>5, LeftReadings DEF DetectOp
  <2>2. QED
    BY <1>3, <1>5, <2>1 DEF DetectOp, DetectedEffect, Reading
<1>6. CASE TryOp(e, rd, n, N)
  <2>1. PICK rd1, mm, X, R :
          /\ \/ rd1 = rd
             \/ ArrivalEffect(rd1, rd)
             \/ IsLoad(e) /\ LoadEffect(rd1, rd, TRUE)
          /\ TryEffect(n, rd1, mm)
          /\ e.kind \in {"load", "basis"} /\ N = X \union R
          /\ Aside(X, e.round) /\ RetrievalsLeft(R, e.when, e.round, rd1, mm)
    BY <1>6 DEF TryOp
  <2>2. /\ n.bit = rd.bit
        /\ n.measuring = (rd.measuring \/ CanMeasure(rd1, mm))
        /\ CanMeasure(rd1, mm) => ~rd.measuring
    BY <2>1 DEF TryEffect, ArrivalEffect, LoadEffect, CanMeasure
  <2>3. \A x \in X : ~Reading(x) /\ x.kind # "answer"
    BY <2>1, LeftAside
  <2>4. CASE ~CanMeasure(rd1, mm)
    <3>1. R = {}
      BY <2>1, <2>4 DEF RetrievalsLeft
    <3>2. n.measuring = rd.measuring
      BY <2>2, <2>4 DEF RoundType
    <3>3. QED
      BY <1>3, <2>1, <2>2, <2>3, <3>1, <3>2
  <2>5. CASE CanMeasure(rd1, mm)
    <3>1. n.measuring /\ ~rd.measuring
      BY <2>2, <2>5
    <3>2. (\A m \in Holders : n.bit[m] = None) /\ \A x \in E : ~Reading(x) /\ x.kind # "answer"
      BY <1>2, <2>2, <3>1 DEF Measured
    <3>3. /\ \A x \in R : x.kind # "answer" /\ x.who \in Holders
          /\ \A x, y \in R : x.who = y.who => x = y
      BY <2>1, LeftRetrievals
    <3>4. \A x \in E1 : Reading(x) => x \in R
      BY <2>1, <2>3, <3>2
    <3>5. \A x \in E1 : x.kind # "answer"
      BY <2>1, <2>3, <3>2, <3>3
    <3>6. QED
      BY <3>1, <3>2, <3>3, <3>4, <3>5 DEF Measured
  <2>6. QED
    BY <2>4, <2>5
<1>7. CASE RetrievedOp(e, rd, n, N)
  <2>1. Reading(e) /\ n.bit = rd.bit /\ n.measuring = rd.measuring
    BY <1>7 DEF RetrievedOp, DwellEffect, Reading
  <2>2. /\ \A x \in N : x.kind = "measured" /\ x.who = e.who
        /\ \A x, y \in N : x = y
    BY <1>7, LeftReadings DEF RetrievedOp
  <2>3. /\ rd.measuring /\ rd.bit[e.who] = None
        /\ \A x \in E \ {e} : Reading(x) => x.who # e.who
    BY <2>1 DEF Measured
  <2>4. QED
    BY <2>1, <2>2, <2>3 DEF Measured
<1>8. ASSUME NEW m \in Holders, NEW bit \in Nat, BitEffect(n, rd, m, bit), Reading(e), e.who = m,
             \A x \in N : ~Reading(x),
             \A x \in N : x.kind = "answer" => m = "prover" /\ x.val = bit
      PROVE  Measured(n, E1)
  <2>1. bit # None /\ n.bit[m] = bit /\ n.measuring = rd.measuring /\ rd.measuring
    BY <1>8, SessionAssumption DEF BitEffect, Measured
  <2>2. \A k \in Holders \ {m} : n.bit[k] = rd.bit[k]
    BY <1>8 DEF BitEffect
  <2>3. rd.bit[m] = None /\ \A x \in E \ {e} : Reading(x) => x.who # m
    BY <1>8 DEF Measured
  <2>4. \A x \in E1 : Reading(x) => x \in E \ {e} /\ n.bit[x.who] = None
    BY <1>8, <2>2, <2>3 DEF Measured
  <2>5. ASSUME NEW x \in E1, x.kind = "answer"
        PROVE  n.bit["prover"] # None /\ x.val = n.bit["prover"]
    <3>1. CASE x \in N
      BY <1>8, <2>1, <2>5, <3>1
    <3>2. CASE x \notin N
      <4>1. rd.bit["prover"] # None /\ x.val = rd.bit["prover"]
        BY <2>5, <3>2 DEF Measured
      <4>2. QED
        BY <1>2, <2>2, <2>3, <4>1
    <3>3. QED
      BY <3>1, <3>2
  <2>6. QED
    BY <2>1, <2>4, <2>5 DEF Measured
<1>9. CASE AnswersOp(e, rd, n, N)
  <2>1. PICK bit \in Nat :
          /\ BitEffect(n, rd, "prover", bit)
          /\ e.kind = "measured" /\ e.who = "prover"
          /\ N \subseteq UNION {AnswersAt(e.when, v, e.round, bit) : v \in Verifiers}
    BY <1>9 DEF AnswersOp
  <2>2. \A x \in N : x.kind = "answer" /\ x.val = bit
    BY <2>1, LeftAnswers
  <2>3. QED
    BY <1>2, <1>8, <2>1, <2>2 DEF Reading
<1>10. CASE V0Op(e, rd, n, N)
  <2>1. PICK bit \in Nat, n1 \in RoundType :
          /\ BitEffect(n1, rd, "v0", bit) /\ ReportEffect(n, n1, e.round, "v0", FALSE)
    BY <1>10 DEF V0Op
  <2>3. /\ n.bit["v0"] = bit /\ n.bit["prover"] = rd.bit["prover"] /\ n.measuring = rd.measuring
    BY <1>2, <2>1 DEF BitEffect, ReportEffect
  <2>4. \A x \in N : ~Reading(x) /\ x.kind # "answer"
    BY <1>10, LeftReporting DEF Reading
  <2>5. Reading(e) /\ e.who = "v0"
    BY <1>10 DEF V0Op, Reading
  <2>6. rd.measuring /\ \A x \in E \ {e} : Reading(x) => x.who = "prover"
    BY <1>2, <2>5 DEF Measured
  <2>7. QED
    BY <1>2, <2>3, <2>4, <2>6 DEF Measured
<1>11. CASE SeesOp(e, rd, n, N) \/ ReceivedOp(e, rd, n, N) \/ ForcedOp(e, rd, n, N)
  <2>1. \A x \in N : ~Reading(x) /\ x.kind # "answer"
    BY <1>11, LeftReporting DEF Reading
  <2>2. n.bit = rd.bit /\ n.measuring = rd.measuring
    BY <1>11 DEF SeesOp, ReceivedOp, ForcedOp, SeeingEffect, ReceivedEffect, ReportEffect
  <2>3. QED
    BY <1>3, <2>1, <2>2
<1>12. QED
  BY <1>4, <1>5, <1>6, <1>7, <1>9, <1>10, <1>11 DEF Op

LEMMA SeenTypes ==
  ASSUME NEW rd \in RoundType, NEW v \in Verifiers
  PROVE  /\ rd.seen[v] \in ObservationType /\ rd.seen[v].answerAt \in Opt(Int)
         /\ rd.received \subseteq Verifiers
BY DEF RoundType, ObservationType

\* A report is sent, or not.
LEMMA SawReported ==
  ASSUME NEW rd \in RoundType, NEW n \in RoundType, NEW r, NEW v \in Verifiers, NEW w \in Verifiers,
         NEW force, NEW P, NEW t, NEW E, Saw(r, w, rd, E), ReportEffect(n, rd, r, v, force),
         ReportsLeft(P, t, v, r, Reports(v, rd, force))
  PROVE  Saw(r, w, n, E \union P)
<1>1. n.bit = rd.bit /\ n.received = rd.received
  BY DEF ReportEffect
<1>2. \A x \in P : x.kind = "report" /\ x.who = v
  BY LeftReports DEF ReportsLeft
<1>3. CASE w # v
  <2>1. n.seen[w] = rd.seen[w]
    BY <1>3 DEF ReportEffect
  <2>2. Honest(r, w, rd, rd.seen[w].report) => Honest(r, w, n, n.seen[w].report)
    BY <1>1, <2>1 DEF Honest
  <2>3. QED
    BY <1>1, <1>2, <1>3, <2>1, <2>2 DEF Saw, ReportOfV
<1>4. CASE w = v
  <2> DEFINE o == rd.seen[v]
             p == n.seen[v]
  <2>1. p.answer = o.answer /\ p.answerAt = o.answerAt
    BY DEF ReportEffect
  <2>2. /\ o.answer # None => o.answer = rd.bit["prover"]
        /\ o.answer = None <=> o.answerAt = None
        /\ o.answerAt \in Opt(Int)
    BY <1>4, SeenTypes DEF Saw
  <2>3. CASE Reports(v, rd, force)
    <3>1. p.report = ReportOf(r, v, o, rd.bit["v0"])
      BY <2>3 DEF ReportEffect
    <3> DEFINE q == ReportOf(r, v, o, rd.bit["v0"])
    <3>2. /\ q.answer = o.answer /\ q.answerAt = o.answerAt
          /\ q.answerReported = Reported(o.answerAt, config.bias[v].answer)
          /\ q.deadline = AnswerDeadline(config, r, v)
          /\ q.local = IF v = "v0" THEN rd.bit["v0"] ELSE None
      BY DEF ReportOf
    <3> HIDE DEF q, o, p
    <3>3. Honest(r, v, n, q)
      BY <1>1, <2>2, <3>2 DEF Honest
    <3>4. QED
      BY <1>1, <1>4, <2>1, <2>2, <3>1, <3>3 DEF Saw, o, p, q
  <2>4. CASE ~Reports(v, rd, force)
    <3>1. p.report = o.report
      BY <2>4 DEF ReportEffect
    <3>2. P = {}
      BY <2>4 DEF ReportsLeft
    <3> HIDE DEF o, p
    <3>3. Honest(r, v, rd, o.report) => Honest(r, v, n, p.report)
      BY <1>1, <3>1 DEF Honest
    <3>4. QED
      BY <1>1, <1>4, <2>1, <2>2, <3>1, <3>2, <3>3 DEF Saw, o, p
  <2>5. QED
    BY <2>3, <2>4
<1>5. QED
  BY <1>3, <1>4

\* A bit is read that was not known before.
LEMMA SawBit ==
  ASSUME NEW rd \in RoundType, NEW n \in RoundType, NEW r, NEW w \in Verifiers, NEW m \in Holders,
         NEW bit \in Nat, NEW E, Saw(r, w, rd, E), BitEffect(n, rd, m, bit), rd.bit[m] = None
  PROVE  Saw(r, w, n, E)
<1>1. /\ n.received = rd.received /\ n.seen = rd.seen
      /\ \A k \in Holders : n.bit[k] = rd.bit[k] \/ rd.bit[k] = None
      /\ "prover" \in Holders /\ "v0" \in Holders
  BY DEF BitEffect, Holders
<1>2. ASSUME NEW p, Honest(r, w, rd, p) PROVE Honest(r, w, n, p)
  BY <1>1, <1>2 DEF Honest
<1>3. QED
  BY <1>1, <1>2 DEF Saw

LEMMA SawSeeing ==
  ASSUME NEW rd \in RoundType, NEW n \in RoundType, NEW r, NEW w \in Verifiers, NEW E, NEW e \in E,
         Measured(rd, E), Saw(r, w, rd, E), SeeingEffect(n, rd, e), e.who \in Verifiers,
         e.kind \in {"commitment", "answer"}, e.when \in Int
  PROVE  Saw(r, w, n, E)
<1>1. n.bit = rd.bit /\ n.received = rd.received
  BY DEF SeeingEffect
<1>2. ASSUME NEW p, Honest(r, w, rd, p) PROVE Honest(r, w, n, p)
  BY <1>1, <1>2 DEF Honest
<1>3. CASE w # e.who
  <2>1. n.seen[w] = rd.seen[w]
    BY <1>3 DEF SeeingEffect
  <2>2. QED
    BY <1>1, <1>2, <2>1 DEF Saw
<1>4. CASE w = e.who /\ e.kind = "commitment"
  <2>1. /\ n.seen[w].answer = rd.seen[w].answer /\ n.seen[w].answerAt = rd.seen[w].answerAt
        /\ n.seen[w].report = rd.seen[w].report
    BY <1>4 DEF SeeingEffect
  <2>2. QED
    BY <1>1, <1>2, <2>1 DEF Saw
<1>5. CASE w = e.who /\ e.kind = "answer"
  <2>1. /\ n.seen[w].answer = e.val /\ n.seen[w].answerAt = e.when
        /\ n.seen[w].report = rd.seen[w].report
    BY <1>5 DEF SeeingEffect
  <2>2. e.val # None /\ e.val = n.bit["prover"] /\ e.when # None
    BY <1>1, <1>5, SessionAssumption DEF Measured
  <2>3. QED
    BY <1>1, <1>2, <2>1, <2>2 DEF Saw
<1>6. QED
  BY <1>3, <1>4, <1>5

LEMMA SawKept ==
  ASSUME NEW rd \in RoundType, NEW n \in RoundType, NEW r, NEW w \in Verifiers, NEW E, NEW e \in E,
         NEW N, NEW u \in BOOLEAN, NEW u1 \in BOOLEAN, e.round = r, e.when \in Int,
         Measured(rd, E), Saw(r, w, rd, E), Op(e, rd, n, N, u, u1)
  PROVE  Saw(r, w, n, (E \ {e}) \union N)
<1> DEFINE E1 == (E \ {e}) \union N
<1>1. Saw(r, w, rd, E \ {e})
  BY DEF Saw
<1>2. ASSUME n.bit = rd.bit, n.seen = rd.seen, n.received = rd.received,
             \A x \in N : x.kind # "report"
      PROVE  Saw(r, w, n, E1)
  <2>1. ASSUME NEW p, Honest(r, w, rd, p) PROVE Honest(r, w, n, p)
    BY <1>2, <2>1 DEF Honest
  <2>2. QED
    BY <1>2, <2>1 DEF Saw, ReportOfV
<1>3. CASE IdleOp(e, rd, n, N) \/ CommitOp(e, rd, n, N) \/ LoadFailsOp(e, rd, n, N)
  <2>1. Aside(N, e.round)
    BY <1>3 DEF IdleOp, CommitOp, LoadFailsOp
  <2>2. n.bit = rd.bit /\ n.seen = rd.seen /\ n.received = rd.received
    BY <1>3 DEF IdleOp, CommitOp, LoadFailsOp, CommittingEffect, LoadEffect
  <2>3. QED
    BY <1>2, <2>1, <2>2, LeftAside
<1>4. CASE DetectOp(e, rd, n, N)
  <2>1. \A x \in N : x.kind = "load"
    BY <1>4, LeftReadings DEF DetectOp
  <2>2. QED
    BY <1>2, <1>4, <2>1 DEF DetectOp, DetectedEffect
<1>5. CASE TryOp(e, rd, n, N)
  <2>1. PICK rd1, mm, X, R :
          /\ \/ rd1 = rd
             \/ ArrivalEffect(rd1, rd)
             \/ IsLoad(e) /\ LoadEffect(rd1, rd, TRUE)
          /\ TryEffect(n, rd1, mm)
          /\ e.kind \in {"load", "basis"} /\ N = X \union R
          /\ Aside(X, e.round) /\ RetrievalsLeft(R, e.when, e.round, rd1, mm)
    BY <1>5 DEF TryOp
  <2>2. n.bit = rd.bit /\ n.seen = rd.seen /\ n.received = rd.received
    BY <2>1 DEF TryEffect, ArrivalEffect, LoadEffect
  <2>3. \A x \in N : x.kind # "report"
    BY <2>1, LeftAside, LeftRetrievals
  <2>4. QED
    BY <1>2, <2>2, <2>3
<1>6. CASE RetrievedOp(e, rd, n, N)
  <2>1. \A x \in N : x.kind # "report"
    BY <1>6, LeftReadings DEF RetrievedOp
  <2>2. QED
    BY <1>2, <1>6, <2>1 DEF RetrievedOp, DwellEffect
<1>7. CASE AnswersOp(e, rd, n, N)
  <2>1. PICK bit \in Nat :
          /\ BitEffect(n, rd, "prover", bit)
          /\ e.kind = "measured" /\ e.who = "prover"
          /\ N \subseteq UNION {AnswersAt(e.when, v, e.round, bit) : v \in Verifiers}
    BY <1>7 DEF AnswersOp
  <2>2. rd.bit["prover"] = None /\ "prover" \in Holders
    BY <2>1 DEF Measured, Reading, Holders
  <2>3. Saw(r, w, n, E \ {e})
    BY <1>1, <2>1, <2>2, SawBit
  <2>4. \A x \in N : x.kind # "report"
    BY <2>1, LeftAnswers
  <2>5. QED
    BY <2>3, <2>4 DEF Saw, ReportOfV
<1>8. CASE V0Op(e, rd, n, N)
  <2>1. PICK bit \in Nat, n1 \in RoundType :
          /\ BitEffect(n1, rd, "v0", bit) /\ ReportEffect(n, n1, e.round, "v0", FALSE)
          /\ e.kind = "measured" /\ e.who = "v0"
          /\ ReportsLeft(N, e.when, "v0", e.round, Reports("v0", n1, FALSE))
    BY <1>8 DEF V0Op
  <2>2. rd.bit["v0"] = None /\ "v0" \in Holders /\ "v0" \in Verifiers
    BY <2>1 DEF Measured, Reading, Holders, Verifiers
  <2>3. Saw(r, w, n1, E \ {e})
    BY <1>1, <2>1, <2>2, SawBit
  <2>4. QED
    BY <2>1, <2>2, <2>3, SawReported
<1>9. CASE SeesOp(e, rd, n, N)
  <2>1. PICK n1 \in RoundType :
          /\ SeeingEffect(n1, rd, e) /\ ReportEffect(n, n1, e.round, e.who, FALSE)
          /\ e.kind \in {"commitment", "answer"} /\ e.who \in Verifiers
          /\ ReportsLeft(N, e.when, e.who, e.round, Reports(e.who, n1, FALSE))
    BY <1>9 DEF SeesOp
  <2>2. Saw(r, w, n1, E)
    BY <2>1, SawSeeing
  <2>3. Saw(r, w, n1, E \ {e})
    BY <2>2 DEF Saw
  <2>4. QED
    BY <2>1, <2>3, SawReported
<1>10. CASE ReceivedOp(e, rd, n, N)
  <2>1. /\ n.bit = rd.bit /\ n.seen = rd.seen /\ n.received = rd.received \union {e.who}
        /\ N = {} /\ e.kind = "report"
    BY <1>10 DEF ReceivedOp, ReceivedEffect
  <2>2. ASSUME NEW p, Honest(r, w, rd, p) PROVE Honest(r, w, n, p)
    BY <2>1, <2>2 DEF Honest
  <2>3. QED
    BY <2>1, <2>2 DEF Saw, ReportOfV
<1>11. CASE ForcedOp(e, rd, n, N)
  <2>1. PICK n1 \in RoundType :
          /\ ReportEffect(n1, rd, e.round, "v0", TRUE) /\ ReportEffect(n, n1, e.round, "v1", TRUE)
          /\ \E P0, P1 : \E x \in FinalsAt(e.when, e.round) :
               /\ ReportsLeft(P0, e.when, "v0", e.round, Reports("v0", rd, TRUE))
               /\ ReportsLeft(P1, e.when, "v1", e.round, Reports("v1", n1, TRUE))
               /\ N = P0 \union P1 \union {x}
    BY <1>11 DEF ForcedOp
  <2>2. PICK P0, P1 : \E x \in FinalsAt(e.when, e.round) :
               /\ ReportsLeft(P0, e.when, "v0", e.round, Reports("v0", rd, TRUE))
               /\ ReportsLeft(P1, e.when, "v1", e.round, Reports("v1", n1, TRUE))
               /\ N = P0 \union P1 \union {x}
    BY <2>1
  <2>3. PICK x \in FinalsAt(e.when, e.round) : N = P0 \union P1 \union {x}
    BY <2>2
  <2>4. "v0" \in Verifiers /\ "v1" \in Verifiers
    BY DEF Verifiers
  <2>5. Saw(r, w, n1, (E \ {e}) \union P0)
    BY <1>1, <2>1, <2>2, <2>4, SawReported
  <2>6. Saw(r, w, n, ((E \ {e}) \union P0) \union P1)
    BY <2>1, <2>2, <2>4, <2>5, SawReported
  <2>7. x.kind # "report"
    BY DEF FinalsAt, EventsAt
  <2>8. QED
    BY <2>3, <2>6, <2>7 DEF Saw, ReportOfV
<1>12. QED
  BY <1>3, <1>4, <1>5, <1>6, <1>7, <1>8, <1>9, <1>10, <1>11 DEF Op

-----------------------------------------------------------------------------
(* One step of the session, seen from one round. *)

\* The events pending for round r.
Pending(r) == {x \in queue : x.round = r}

LEMMA OpRound ==
  ASSUME NEW e, NEW rd, NEW n, NEW N, NEW u, NEW u1, Op(e, rd, n, N, u, u1), NEW x \in N
  PROVE  x.round = e.round
<1>1. CASE IdleOp(e, rd, n, N) \/ CommitOp(e, rd, n, N) \/ LoadFailsOp(e, rd, n, N)
  BY <1>1, LeftAside DEF IdleOp, CommitOp, LoadFailsOp
<1>2. CASE DetectOp(e, rd, n, N) \/ RetrievedOp(e, rd, n, N)
  BY <1>2, LeftReadings DEF DetectOp, RetrievedOp
<1>3. CASE TryOp(e, rd, n, N)
  <2>1. PICK rd1, mm, X, R :
          N = X \union R /\ Aside(X, e.round) /\ RetrievalsLeft(R, e.when, e.round, rd1, mm)
    BY <1>3 DEF TryOp
  <2>2. QED
    BY <2>1, LeftAside, LeftRetrievals
<1>4. CASE AnswersOp(e, rd, n, N)
  BY <1>4, LeftAnswers DEF AnswersOp
<1>5. CASE V0Op(e, rd, n, N) \/ SeesOp(e, rd, n, N) \/ ReceivedOp(e, rd, n, N)
           \/ ForcedOp(e, rd, n, N)
  BY <1>5, LeftReporting
<1>6. QED
  BY <1>1, <1>2, <1>3, <1>4, <1>5 DEF Op

\* The round of e takes the step, the others look on.
Moves(e, n, N) ==
  LET r == e.round IN
  /\ n \in RoundType /\ round'[r] = n
  /\ e \in Pending(r) /\ Pending(r)' = (Pending(r) \ {e}) \union N
  /\ Op(e, round[r], n, N, Unresolved(r), Unresolved(r)')
  /\ \A q \in Rounds : q # r =>
       /\ round'[q] = round[q] /\ Pending(q)' = Pending(q) /\ Unresolved(q)' = Unresolved(q)

LEMMA StepMoves ==
  ASSUME TypeOK, Agenda, MemInv, RuntimeTypes, NEW e \in queue,
         DeviceStep(e) \/ ProtocolStep(e) \/ DecisionStep(e)
  PROVE  \E n, N : Moves(e, n, N)
<1> DEFINE r == e.round
<1>1. PICK n, N :
        /\ n \in RoundType /\ Runs(e, n) /\ Leaves(e, N)
        /\ Op(e, round[r], n, N, Unresolved(r), Unresolved(r)')
  BY StepOps DEF OpStep
<1>2. r \in Rounds /\ round \in [Rounds -> RoundType]
  BY TypesOfEvent DEF RuntimeTypes
<1>3. \A x \in N : x.round = r
  BY <1>1, OpRound
<1>4. /\ e \in Pending(r) /\ Pending(r)' = (Pending(r) \ {e}) \union N
      /\ \A q \in Rounds : q # r => Pending(q)' = Pending(q)
  BY <1>1, <1>3 DEF Pending, Leaves
<1>5. /\ round'[r] = n
      /\ \A q \in Rounds : q # r => round'[q] = round[q]
  BY <1>1, <1>2 DEF Runs
<1>6. \A q \in Rounds : q # r => Unresolved(q)' = Unresolved(q)
  BY StepResolves DEF Unresolved
<1>7. QED
  BY <1>1, <1>4, <1>5, <1>6 DEF Moves

LEMMA PendingTypes ==
  ASSUME TypeOK, NEW r \in Rounds
  PROVE  /\ Unresolved(r) \in BOOLEAN
         /\ \A x \in Pending(r) :
              /\ x.when \in Int /\ x.round = r
              /\ Reading(x) => x.who \in Holders
BY TypesOfEvent DEF Pending, Unresolved, ActorsOf, Reading

-----------------------------------------------------------------------------
(* Truth holds of every round. *)

Truths == \A r \in Rounds : Truth(r, round[r], Pending(r), Unresolved(r))

LEMMA StepTruths ==
  ASSUME TypeOK, TypeOK', Agenda, MemInv, RuntimeTypes, Truths, NEW e \in queue,
         DeviceStep(e) \/ ProtocolStep(e) \/ DecisionStep(e)
  PROVE  Truths'
<1> SUFFICES ASSUME NEW q \in Rounds
             PROVE  Truth(q, round[q], Pending(q), Unresolved(q))'
  BY DEF Truths
<1> DEFINE r == e.round
           rd == round[r]
           E == Pending(r)
           u == Unresolved(r)
           u1 == Unresolved(r)'
<1>1. PICK n, N : Moves(e, n, N)
  BY StepMoves
<1>2. /\ r \in Rounds /\ config' = config /\ e.when \in Int
      /\ round[q] \in RoundType /\ rd \in RoundType
  BY StepIsFirst, TypesOfEvent DEF RuntimeTypes
<1>3. Truth(q, round[q], Pending(q), Unresolved(q)) /\ Truth(r, rd, E, u)
  BY <1>2 DEF Truths
<1>4. ASSUME NEW n1, NEW E1, NEW v1, Truth(q, n1, E1, v1),
             round'[q] = n1, Pending(q)' = E1, Unresolved(q)' = v1
      PROVE  Truth(q, round[q], Pending(q), Unresolved(q))'
  BY <1>2, <1>4 DEF Truth, Detected, Measured, Saw, Honest
<1>5. CASE q # r
  <2>1. round'[q] = round[q] /\ Pending(q)' = Pending(q) /\ Unresolved(q)' = Unresolved(q)
    BY <1>1, <1>5 DEF Moves
  <2>2. QED
    BY <1>3, <1>4, <2>1
<1>6. CASE q = r
  <2> DEFINE E1 == (E \ {e}) \union N
  <2>1. /\ n \in RoundType /\ round'[q] = n /\ e \in E /\ Pending(q)' = E1
        /\ Op(e, rd, n, N, u, u1)
    BY <1>1, <1>6 DEF Moves
  <2>2. u \in BOOLEAN /\ u1 \in BOOLEAN /\ \A x \in E : Reading(x) => x.who \in Holders
    BY <1>2, PendingTypes DEF Unresolved
  <2>3. e.round = q
    BY <1>6
  <2> HIDE DEF r, rd, E, u, u1
  <2>4. Detected(rd, E, u) /\ Measured(rd, E) /\ \A v \in Verifiers : Saw(r, v, rd, E)
    BY <1>3 DEF Truth
  <2>5. Detected(n, E1, u1)
    BY <1>2, <2>1, <2>2, <2>4, DetectedKept
  <2>6. Measured(n, E1)
    BY <1>2, <2>1, <2>2, <2>4, MeasuredKept
  <2>7. \A v \in Verifiers : Saw(q, v, n, E1)
    BY <1>2, <1>6, <2>1, <2>2, <2>3, <2>4, SawKept
  <2>8. Truth(q, n, E1, u1)
    BY <2>5, <2>6, <2>7 DEF Truth
  <2>9. Unresolved(q)' = u1
    BY <1>6 DEF u1
  <2> HIDE DEF E1
  <2>10. QED
    BY <1>4, <2>1, <2>8, <2>9
<1>7. QED
  BY <1>5, <1>6

LEMMA NextTruths ==
  ASSUME TypeOK, TypeOK', Agenda, MemInv, RuntimeTypes, Truths, [Next]_vars
  PROVE  Truths'
<1>1. CASE Step
  BY <1>1, StepTruths DEF Step
<1>2. CASE Finish \/ UNCHANGED vars
  <2>1. UNCHANGED <<config, queue, started, gate, round>>
    BY <1>2 DEF Finish, vars, schedulerVars, deviceVars
  <2>2. QED
    BY <2>1, SMTT(30) DEF Truths, Truth, Detected, Measured, Saw, Honest, Pending, Unresolved
<1>3. QED
  BY <1>1, <1>2 DEF Next, Over

LEMMA InitTruths == ASSUME Init PROVE Truths
<1> SUFFICES ASSUME NEW r \in Rounds PROVE Truth(r, round[r], Pending(r), Unresolved(r))
  BY DEF Truths
<1>1. round[r] = FreshRound
  BY DEF Init
<1>2. \A x \in Pending(r) : x.kind = "start"
  BY InitialEvents DEF Pending
<1>3. Detected(FreshRound, Pending(r), Unresolved(r))
  BY <1>2 DEF Detected, IsLoad, FreshRound
<1>4. Measured(FreshRound, Pending(r))
  BY <1>2 DEF Measured, Reading, FreshRound
<1>5. ASSUME NEW v \in Verifiers PROVE Saw(r, v, FreshRound, Pending(r))
  BY <1>2 DEF Saw, ReportOfV, FreshRound, NoObservation
<1>6. QED
  BY <1>1, <1>3, <1>4, <1>5 DEF Truth

LEMMA SessionTruths == Spec => []Truths
<1>1. Init => Truths
  BY InitTruths
<1>2. TypeOK /\ TypeOK' /\ Agenda /\ MemInv /\ RuntimeTypes /\ Truths /\ [Next]_vars => Truths'
  BY NextTruths
<1>3. QED
  BY <1>1, <1>2, SessionTypes, SessionAgenda, SessionMemory, SessionRuntime, PTL DEF Spec

-----------------------------------------------------------------------------
(* What a step adds to the results. *)

Adds(e, x) ==
  LET r == e.round IN
  /\ results' = Append(results, x) /\ status' \notin Errors
  /\ \/ x = RejectedResult(r, PreflightReasons(r)) /\ e.kind = "start"
     \/ /\ x = RoundResult(r, round'[r]) /\ ~completed[r] /\ e.kind \in {"report", "final"}
        /\ e.kind = "report" => round'[r].received = Verifiers
        /\ e.kind = "final" => UNCHANGED round

LEMMA StepAdds ==
  ASSUME TypeOK, RuntimeTypes, NEW e \in queue,
         DeviceStep(e) \/ ProtocolStep(e) \/ DecisionStep(e)
  PROVE  UNCHANGED results \/ \E x : Adds(e, x)
<1> DEFINE r == e.round
<1>1. r \in Rounds /\ round \in [Rounds -> RoundType] /\ config' = config
  BY StepIsFirst, TypesOfEvent DEF RuntimeTypes
<1>2. CASE DeviceStep(e) \/ ProtocolStep(e)
  BY <1>2 DEF DeviceStep, ProtocolStep, PairReady, PairReadyRaises, PairFails, PhotonArrives,
     DetectionDone, GateCloses, LoadDone, LoadFails, Expire, RetrieveDone, ProverMeasured,
     V0Measured, StartRound, StartRoundRaises, SendChallenge, InterceptDone, SendReplacement,
     SendBasis, BasisArrives, VerifierReceives, RoundTimesOut, Resolved, Passes, Commit, Raise,
     decisionVars
<1>3. CASE RejectPlan(e)
  <2>1. status' \notin Errors
    BY <1>3 DEF RejectPlan, Handle, Return, Errors
  <2>2. QED
    BY <1>3, <2>1 DEF RejectPlan, Handle, Adds
<1>4. ASSUME NEW rd, Finalize(r, rd), rd = round'[r], status = "running", status' = status,
             e.kind \in {"report", "final"}, e.kind = "report" => rd.received = Verifiers,
             e.kind = "final" => UNCHANGED round
      PROVE  UNCHANGED results \/ \E x : Adds(e, x)
  BY <1>4 DEF Finalize, Adds, Errors
<1>5. CASE ReportArrives(e)
  <2> DEFINE rd == [round[r] EXCEPT !.received = @ \union {e.who}]
  <2>1. rd = round'[r] /\ status = "running" /\ status' = status /\ e.kind = "report"
    BY <1>1, <1>5 DEF ReportArrives, Handle, Return
  <2>2. UNCHANGED results \/ (Finalize(r, rd) /\ rd.received = Verifiers)
    BY <1>5 DEF ReportArrives
  <2> HIDE DEF rd
  <2>3. QED
    BY <1>4, <2>1, <2>2
<1>6. CASE FinalTimesOut(e)
  <2>1. /\ Finalize(r, round[r]) /\ UNCHANGED round /\ status = "running" /\ status' = status
        /\ e.kind = "final"
    BY <1>6 DEF FinalTimesOut, Handle, Return
  <2>2. round[r] = round'[r]
    BY <2>1
  <2>3. QED
    BY <1>4, <2>1, <2>2
<1>7. QED
  BY <1>2, <1>3, <1>5, <1>6 DEF DecisionStep

-----------------------------------------------------------------------------
(* The facts in a result. *)

\* What AcceptedRoundsAreGenuine says of an accepted result x, but for what v0
\* measured.
Happened(x) ==
  /\ x.outcome = "valid_detection" /\ x.valid /\ x.committed /\ x.bit["prover"] # None
  /\ config.secure \/ Unforged => \A v \in Verifiers : x.margins[v] >= -Tolerance

ResultFacts(x) ==
  /\ x.accepted \in BOOLEAN /\ x.match \in Opt(BOOLEAN)
  /\ x.margins \in [MarginNames -> Opt(Int)]
  /\ x.accepted => Happened(x)
  /\ x.match = TRUE => Proven(x)

LEMMA PolicyTypes ==
  ASSUME config \in Configs
  PROVE  /\ config.uncertainty \in Nat /\ config.secure \in BOOLEAN
         /\ \A v \in Verifiers : config.bias[v].answer \in Int
<1>1. SessionConfig(config)
  BY SessionAssumption
<1>2. /\ config.uncertainty \in Nat /\ config.secure \in BOOLEAN
      /\ \A v \in Verifiers : config.bias[v].answer \in Int
  BY <1>1 DEF SessionConfig
<1>3. QED
  BY <1>2

LEMMA BothReported ==
  ASSUME NEW V \in SUBSET Verifiers, ~(Cardinality(V) < 2)
  PROVE  V = Verifiers
<1>1. CASE V = {}
  BY <1>1, FS_EmptySet
<1>2. ASSUME NEW v \in Verifiers, V = {v} PROVE FALSE
  <2>1. Cardinality({v}) = 1
    BY FS_Singleton
  <2>2. QED
    BY <1>2, <2>1
<1>3. V = {} \/ V = Verifiers \/ \E v \in Verifiers : V = {v}
  BY DEF Verifiers
<1>4. QED
  BY <1>1, <1>2, <1>3, FS_EmptySet

LEMMA ForNobody == ASSUME NEW reason, NEW V, For(reason, V) = {} PROVE V = {}
BY DEF For

\* Reasons is empty: both reports are in, each with an answer that it says was in time.
LEMMA NoReasons ==
  ASSUME NEW rd \in RoundType, Reasons(rd) = {}
  PROVE  /\ rd.received = Verifiers
         /\ \A v \in Verifiers :
              LET p == rd.seen[v].report IN
              /\ p.answerReported # None /\ ~(p.answerReported > p.deadline)
              /\ p.local # None /\ p.answer # None => p.local = p.answer
              /\ config.secure => ~Inconsistent(p.answerAt, p.answerReported, config.uncertainty)
<1> DEFINE R == ReceivedReports(rd)
<1>1. BaselineReasons(R) = {}
  BY DEF Reasons, SecurityReasons
<1>2. DOMAIN R = rd.received /\ \A v \in rd.received : R[v] = rd.seen[v].report
  BY DEF ReceivedReports
<1>3. rd.received \subseteq Verifiers
  BY DEF RoundType
<1> HIDE DEF R
<1>4. ~(Cardinality(rd.received) < 2)
  BY <1>1, <1>2 DEF BaselineReasons
<1>5. rd.received = Verifiers
  BY <1>3, <1>4, BothReported
<1>6. ASSUME NEW v \in Verifiers
      PROVE  LET p == R[v] IN
             /\ p.answerReported # None /\ ~(p.answerReported > p.deadline)
             /\ p.local # None /\ p.answer # None => p.local = p.answer
  <2> DEFINE late == {w \in Verifiers : \/ R[w].answerReported = None
                                       \/ R[w].answerReported > R[w].deadline}
             other == {w \in Verifiers : /\ R[w].local # None /\ R[w].answer # None
                                        /\ R[w].local # R[w].answer}
  <2>1. For("reported_answer_deadline", late) = {} /\ For("outcome_mismatch", other) = {}
    BY <1>1, <1>2, <1>4, <1>5 DEF BaselineReasons
  <2>2. late = {} /\ other = {}
    BY <2>1, ForNobody
  <2>3. QED
    BY <2>2
<1>7. ASSUME NEW v \in Verifiers, config.secure
      PROVE  ~Inconsistent(R[v].answerAt, R[v].answerReported, config.uncertainty)
  <2>1. SecurityReasons(R, config.uncertainty) = {}
    BY <1>7 DEF Reasons, R
  <2> DEFINE far == {w \in Verifiers : Inconsistent(R[w].answerAt, R[w].answerReported,
                                                    config.uncertainty)}
  <2>2. For("timestamp_inconsistency", far) = {}
    BY <1>2, <1>5, <2>1 DEF SecurityReasons
  <2>3. far = {}
    BY <2>2, ForNobody
  <2>4. QED
    BY <2>3
<1>8. QED
  BY <1>2, <1>5, <1>6, <1>7

\* The answer of an accepted round is the prover's bit, in time but for the forged times.
LEMMA AcceptedAnswers ==
  ASSUME config \in Configs, NEW r \in Rounds, NEW rd \in RoundType, NEW E, NEW u,
         Truth(r, rd, E, u), Reasons(rd) = {}, NEW v \in Verifiers
  PROVE  LET p == rd.seen[v].report IN
         /\ Honest(r, v, rd, p) /\ p.answer = rd.bit["prover"] /\ p.answer # None
         /\ p.answerAt \in Int /\ config.bias[v].answer \in Int
         /\ p.answerReported = p.answerAt + config.bias[v].answer
         /\ p.answerAt + config.bias[v].answer <= AnswerDeadline(config, r, v)
         /\ AnswerDeadline(config, r, v) \in Int
<1> DEFINE p == rd.seen[v].report
<1>1. rd.received = Verifiers /\ p.answerReported # None /\ ~(p.answerReported > p.deadline)
  BY NoReasons
<1>2. Honest(r, v, rd, p)
  BY <1>1 DEF Truth, Saw
<1>3. config.bias[v].answer \in Int /\ AnswerDeadline(config, r, v) \in Int
  BY PolicyTypes, ConfigTypes, RoundIsNat, PlanTypes
<1> HIDE DEF p
<1>4. p.answerAt # None /\ p.answerAt \in Int /\ p.answer # None
  BY <1>1, <1>2 DEF Honest, Reported, Opt
<1>5. p.answerReported = p.answerAt + config.bias[v].answer
  BY <1>2, <1>4 DEF Honest, Reported
<1>6. p.answer = rd.bit["prover"] /\ p.deadline = AnswerDeadline(config, r, v)
  BY <1>2, <1>4 DEF Honest
<1>7. QED
  BY <1>1, <1>2, <1>3, <1>4, <1>5, <1>6 DEF p

LEMMA MarginType ==
  ASSUME NEW deadline \in Opt(Int), NEW at \in Opt(Int)
  PROVE  Margin(deadline, at) \in Opt(Int)
BY DEF Margin, Opt

LEMMA DecidedMargins ==
  ASSUME config \in Configs, NEW r \in Rounds, NEW rd \in RoundType, NEW E, NEW u,
         Truth(r, rd, E, u)
  PROVE  RoundResult(r, rd).margins \in [MarginNames -> Opt(Int)]
<1> DEFINE basis == IF \A v \in Verifiers : rd.arrival[v] # None
                    THEN Larger(rd.arrival["v0"], rd.arrival["v1"]) ELSE None
           at(v) == IF v \in rd.received THEN rd.seen[v].report.answerAt ELSE None
           margin(f) == IF f = "commitment" THEN Margin(basis, rd.commitAt)
                        ELSE Margin(AnswerDeadline(config, r, f), at(f))
<1>1. /\ rd.arrival["v0"] \in Opt(Int) /\ rd.arrival["v1"] \in Opt(Int) /\ rd.commitAt \in Opt(Int)
      /\ "v0" \in Verifiers /\ "v1" \in Verifiers
  BY DEF RoundType, Verifiers
<1>2. basis \in Opt(Int)
  BY <1>1 DEF Larger, Opt
<1>3. ASSUME NEW v \in Verifiers PROVE at(v) \in Opt(Int) /\ AnswerDeadline(config, r, v) \in Opt(Int)
  <2>1. AnswerDeadline(config, r, v) \in Int
    BY ConfigTypes, RoundIsNat, PlanTypes
  <2>2. v \in rd.received => rd.seen[v].report.answerAt \in Opt(Int)
    BY DEF Truth, Saw, Honest
  <2>3. QED
    BY <2>1, <2>2 DEF Opt
<1>4. ASSUME NEW f \in MarginNames PROVE margin(f) \in Opt(Int)
  <2>1. CASE f = "commitment"
    <3> HIDE DEF basis
    <3>1. QED
      BY <1>1, <1>2, <2>1, MarginType
  <2>2. CASE f \in Verifiers
    <3>1. f # "commitment"
      BY <2>2 DEF Verifiers
    <3>2. Margin(AnswerDeadline(config, r, f), at(f)) \in Opt(Int)
      <4> HIDE DEF at
      <4>1. QED
        BY <1>3, <2>2, MarginType
    <3>3. QED
      BY <3>1, <3>2
  <2>3. QED
    BY <2>1, <2>2 DEF MarginNames, Verifiers
<1>5. RoundResult(r, rd).margins = [f \in MarginNames |-> margin(f)]
  BY DEF RoundResult
<1> HIDE DEF margin
<1>6. QED
  BY <1>4, <1>5

LEMMA DecidedFacts ==
  ASSUME config \in Configs, NEW r \in Rounds, NEW rd \in RoundType, NEW E, NEW u,
         Truth(r, rd, E, u)
  PROVE  ResultFacts(RoundResult(r, rd))
<1> DEFINE x == RoundResult(r, rd)
<1>1. /\ x.accepted = (Reasons(rd) = {}) /\ x.outcome = rd.outcome /\ x.valid = rd.valid
      /\ x.committed = rd.committed /\ x.bit = rd.bit
      /\ x.match = IF None \in {rd.bit[m] : m \in Holders} THEN None
                   ELSE rd.bit["prover"] = rd.bit["v0"]
  BY DEF RoundResult
<1>2. ASSUME NEW v \in Verifiers, v \in rd.received
      PROVE  x.margins[v] = Margin(AnswerDeadline(config, r, v), rd.seen[v].report.answerAt)
  BY <1>2 DEF RoundResult, MarginNames, Verifiers
<1> HIDE DEF x
<1>3. rd.bit["prover"] # None => rd.outcome = "valid_detection" /\ rd.valid /\ rd.committed
  BY DEF Truth, Measured, Detected, Holders
<1>4. "prover" \in Holders /\ "v0" \in Holders /\ "v0" \in Verifiers
  BY DEF Holders, Verifiers
<1>5. x.match = TRUE => Proven(x)
  <2> SUFFICES ASSUME x.match = TRUE PROVE Proven(x)
    OBVIOUS
  <2>1. None # TRUE
    BY SessionAssumption
  <2>2. rd.bit["prover"] # None /\ rd.bit["prover"] = rd.bit["v0"]
    BY <1>1, <1>4, <2>1
  <2>3. QED
    BY <1>1, <1>3, <2>2 DEF Proven
<1>6. x.accepted => Happened(x)
  <2> SUFFICES ASSUME Reasons(rd) = {} PROVE Happened(x)
    BY <1>1
  <2>1. ASSUME NEW v \in Verifiers
        PROVE  LET p == rd.seen[v].report IN
               /\ p.answer = rd.bit["prover"] /\ p.answer # None
               /\ p.answerAt \in Int /\ config.bias[v].answer \in Int
               /\ p.answerReported = p.answerAt + config.bias[v].answer
               /\ p.answerAt + config.bias[v].answer <= AnswerDeadline(config, r, v)
               /\ AnswerDeadline(config, r, v) \in Int
    BY AcceptedAnswers
  <2>2. rd.received = Verifiers
    BY NoReasons
  <2>3. rd.bit["prover"] # None
    BY <1>4, <2>1
  <2>4. ASSUME NEW v \in Verifiers, config.secure \/ Unforged
        PROVE  x.margins[v] >= -Tolerance
    <3> DEFINE at == rd.seen[v].report.answerAt
               b == config.bias[v].answer
               d == AnswerDeadline(config, r, v)
               unc == config.uncertainty
    <3>1. at \in Int /\ b \in Int /\ d \in Int /\ at + b <= d /\ unc \in Nat
      BY <2>1, PolicyTypes
    <3>2. x.margins[v] = d - at
      <4>1. d # None /\ at # None
        BY <3>1, SessionAssumption
      <4>2. QED
        BY <1>2, <2>2, <4>1 DEF Margin
    <3>3. CASE config.secure
      <4>1. ~Inconsistent(at, at + b, unc)
        BY <2>1, <3>3, NoReasons
      <4> HIDE DEF at, b, d, unc
      <4>2. at # None /\ at + b # None
        BY <3>1, SessionAssumption
      <4>3. at - (at + b) \in -unc .. unc
        BY <4>1, <4>2 DEF Inconsistent
      <4>4. d - at >= -unc
        BY <3>1, <4>3
      <4>5. QED
        BY <3>2, <3>3, <4>4 DEF Tolerance, unc
    <3>4. CASE ~config.secure
      <4>1. b = 0
        BY <2>4, <3>4 DEF Unforged
      <4> HIDE DEF at, b, d, unc
      <4>2. d - at >= 0
        BY <3>1, <4>1
      <4>3. QED
        BY <3>2, <3>4, <4>2 DEF Tolerance
    <3>5. QED
      BY <3>3, <3>4
  <2>5. QED
    BY <1>1, <1>3, <2>3, <2>4 DEF Happened
<1>7. /\ x.accepted \in BOOLEAN /\ x.match \in Opt(BOOLEAN)
      /\ x.margins \in [MarginNames -> Opt(Int)]
  BY <1>1, DecidedMargins DEF Opt, x
<1>8. QED
  BY <1>5, <1>6, <1>7 DEF ResultFacts, x

LEMMA RefusedFacts == ASSUME NEW r, NEW reasons PROVE ResultFacts(RejectedResult(r, reasons))
<1>1. None # TRUE
  BY SessionAssumption
<1>2. QED
  BY <1>1 DEF ResultFacts, RejectedResult, Opt

\* The results are a sequence of facts.
TrueResults == \A i \in DOMAIN results : ResultFacts(results[i])

LEMMA StepResults ==
  ASSUME TypeOK, RuntimeTypes, RuntimeTypes', Books, TypeOK', Truths', TrueResults,
         NEW e \in queue, DeviceStep(e) \/ ProtocolStep(e) \/ DecisionStep(e)
  PROVE  TrueResults'
<1>1. /\ config' = config /\ config \in Configs /\ e.round \in Rounds
      /\ round'[e.round] \in RoundType
  BY StepIsFirst, TypesOfEvent DEF RuntimeTypes, TypeOK
<1>2. ASSUME NEW x, ResultFacts(x) PROVE ResultFacts(x)'
  BY <1>1, <1>2 DEF ResultFacts, Happened, Unforged, Tolerance
<1>3. CASE UNCHANGED results
  BY <1>2, <1>3 DEF TrueResults
<1>4. ASSUME NEW x, Adds(e, x) PROVE ResultFacts(x)
  <2>1. CASE x = RejectedResult(e.round, PreflightReasons(e.round))
    BY <2>1, RefusedFacts
  <2>2. CASE x = RoundResult(e.round, round'[e.round])
    <3> DEFINE E == Pending(e.round)'
               u == Unresolved(e.round)'
               rd == round'[e.round]
    <3>1. Truth(e.round, round[e.round], Pending(e.round), Unresolved(e.round))'
      BY <1>1 DEF Truths
    <3>2. Truth(e.round, rd, E, u)
      BY <1>1, <3>1 DEF Truth, Saw, Honest, Measured, Detected
    <3> HIDE DEF E, u, rd
    <3>3. ResultFacts(RoundResult(e.round, rd))
      BY <1>1, <3>2, DecidedFacts DEF rd
    <3>4. QED
      BY <2>2, <3>3 DEF rd
  <2>3. QED
    BY <1>4, <2>1, <2>2 DEF Adds
<1>5. ASSUME NEW x, Adds(e, x) PROVE TrueResults'
  <2> DEFINE R == {results[i] : i \in DOMAIN results}
             n == Len(results)
  <2>1. results \in Seq(R) /\ results' = Append(results, x)
    BY <1>5 DEF Books, Adds
  <2>2. /\ DOMAIN results = 1 .. n /\ DOMAIN results' = 1 .. n + 1 /\ n \in Nat
        /\ \A i \in 1 .. n : results'[i] = results[i]
        /\ results'[n + 1] = x
    BY <2>1, AppendedBook
  <2>3. ResultFacts(x)'
    BY <1>2, <1>4, <1>5
  <2>4. ASSUME NEW i \in 1 .. n + 1 PROVE ResultFacts(results[i])'
    <3>1. CASE i \in 1 .. n
      <4>1. ResultFacts(results[i])' <=> ResultFacts(results[i])
        BY <1>1, <2>2, <3>1 DEF ResultFacts, Happened, Unforged, Tolerance
      <4>2. QED
        BY <2>2, <3>1, <4>1 DEF TrueResults
    <3>2. CASE i = n + 1
      <4>1. results'[i] = x
        BY <2>2, <3>2
      <4>2. QED
        BY <2>3, <4>1
    <3>3. QED
      BY <2>2, <3>1, <3>2
  <2>5. QED
    BY <2>2, <2>4 DEF TrueResults
<1>6. QED
  BY <1>3, <1>5, StepAdds

LEMMA NextResults ==
  ASSUME TypeOK, TypeOK', RuntimeTypes, RuntimeTypes', Books, Truths', TrueResults, [Next]_vars
  PROVE  TrueResults'
<1>1. CASE Step
  BY <1>1, StepResults DEF Step
<1>2. CASE Finish \/ UNCHANGED vars
  <2>1. UNCHANGED <<config, results>>
    BY <1>2 DEF Finish, vars, decisionVars
  <2>2. QED
    BY <2>1 DEF TrueResults, ResultFacts, Happened, Unforged, Tolerance
<1>3. QED
  BY <1>1, <1>2 DEF Next, Over

LEMMA SessionResults == Spec => []TrueResults
<1>1. Init => TrueResults
  BY DEF Init, TrueResults
<1>2. /\ TypeOK /\ TypeOK' /\ RuntimeTypes /\ RuntimeTypes' /\ Books /\ Truths' /\ TrueResults
      /\ [Next]_vars
      => TrueResults'
  BY NextResults
<1>3. QED
  BY <1>1, <1>2, SessionTypes, SessionRuntime, SessionBooks, SessionTruths, PTL DEF Spec

\* What an accepted round shows, whatever v0 measured.
AcceptedRoundsHappened ==
  \A i \in DOMAIN results : results[i].accepted => Happened(results[i])

\* The photon of an accepted round was detected, stored and measured by the
\* prover, and the answers came in time, but for the clocks' uncertainty under
\* the policy that compares them (_finalize_round, decide).
THEOREM SessionRoundsHappened == Spec => []AcceptedRoundsHappened
<1>1. TrueResults => AcceptedRoundsHappened
  BY DEF TrueResults, ResultFacts, AcceptedRoundsHappened
<1>2. QED
  BY <1>1, SessionResults, PTL

-----------------------------------------------------------------------------
(* v0 measures its half before it can hear the prover's answer, when its    *)
(* devices are no slower than the prover's by more than the answer's way.   *)

V0MeasuresFirst(c) ==
  c.retrieve["v0"] + c.switch["v0"] + c.measure["v0"]
    <= c.retrieve["prover"] + c.switch["prover"] + c.measure["prover"]
         + (ClassicalDelay(c, "prover", "v0") + c.sender["prover"]["v0"])

\* When the bit that is being read will be known.
BitDue(x) ==
  IF x.kind = "retrieve" THEN x.when + config.switch[x.who] + config.measure[x.who] ELSE x.when

ReadingOf(x, m) == Reading(x) /\ x.who = m
AnswerToV0(x) == x.kind = "answer" /\ x.who = "v0"

\* As long as v0 is reading, no answer is due or has been seen before its bit is.
InTime(rd, E, t) ==
  LET at == rd.seen["v0"].answerAt IN
  /\ at # None => at <= t
  /\ \A x \in E : ReadingOf(x, "v0") =>
       /\ \A y \in E : ReadingOf(y, "prover") => BitDue(x) <= BitDue(y) + AnswerTravel("v0")
       /\ \A y \in E : AnswerToV0(y) => BitDue(x) <= y.when
       /\ at # None => BitDue(x) <= at

\* A report of v0 that has the answer and not v0's bit was forced out of a
\* round in which v0 never measures.
Punctual(rd, E) ==
  LET p == rd.seen["v0"].report IN
  p.answer # None /\ p.local = None =>
    rd.bit["v0"] = None /\ \A x \in E : ~ReadingOf(x, "v0")

V0Reported(rd, E) ==
  \/ Punctual(rd, E)
  \/ /\ rd.seen["v0"].report = None /\ "v0" \notin rd.received
     /\ \A x \in E : ~ReportOfV(x, "v0")

LEMMA BitDueTypes ==
  ASSUME config \in Configs, NEW x, x.when \in Int, x.who \in Holders
  PROVE  BitDue(x) \in Int /\ x.when <= BitDue(x)
<1>1. config.switch[x.who] \in Nat /\ config.measure[x.who] \in Nat
  BY ConfigTypes
<1> DEFINE a == config.switch[x.who]
           b == config.measure[x.who]
<1> HIDE DEF a, b
<1>2. x.when + a + b \in Int /\ x.when <= x.when + a + b
  BY <1>1 DEF a, b
<1>3. QED
  BY <1>2 DEF BitDue, a, b

\* Nothing more is being read or on its way to v0.
LEMMA InTimeFrame ==
  ASSUME NEW rd, NEW n, NEW E, NEW E1, NEW t \in Int, NEW t1 \in Int, t <= t1, InTime(rd, E, t),
         rd.seen["v0"].answerAt \in Opt(Int),
         n.seen["v0"].answerAt = rd.seen["v0"].answerAt,
         \A x \in E1 : Reading(x) \/ AnswerToV0(x) => x \in E
  PROVE  InTime(n, E1, t1)
<1>1. rd.seen["v0"].answerAt # None => rd.seen["v0"].answerAt <= t1
  BY DEF InTime, Opt
<1>2. QED
  BY <1>1 DEF InTime, ReadingOf

LEMMA InTimeKept ==
  ASSUME config \in Configs, V0MeasuresFirst(config), NEW r, NEW rd \in RoundType,
         NEW n \in RoundType, NEW E, NEW e \in E, NEW N, NEW u \in BOOLEAN, NEW u1 \in BOOLEAN,
         NEW t \in Int, t <= e.when, e.when \in Int,
         \A x \in E : x.when \in Int /\ (Reading(x) => x.who \in Holders),
         Measured(rd, E), Saw(r, "v0", rd, E), InTime(rd, E, t), Op(e, rd, n, N, u, u1)
  PROVE  InTime(n, (E \ {e}) \union N, e.when)
<1> DEFINE E1 == (E \ {e}) \union N
           at == rd.seen["v0"].answerAt
<1>1. at \in Opt(Int) /\ "v0" \in Verifiers /\ Holders = {"prover", "v0"}
  BY SeenTypes DEF Verifiers, Holders
<1>2. ASSUME n.seen["v0"].answerAt = at, \A x \in N : ~Reading(x) /\ ~AnswerToV0(x)
      PROVE  InTime(n, E1, e.when)
  <2>1. \A x \in E1 : Reading(x) \/ AnswerToV0(x) => x \in E
    BY <1>2
  <2> HIDE DEF E1, at
  <2>2. QED
    BY <1>1, <1>2, <2>1, InTimeFrame DEF at
<1>3. CASE IdleOp(e, rd, n, N) \/ CommitOp(e, rd, n, N) \/ LoadFailsOp(e, rd, n, N)
  <2>1. Aside(N, e.round)
    BY <1>3 DEF IdleOp, CommitOp, LoadFailsOp
  <2>2. n.seen = rd.seen
    BY <1>3 DEF IdleOp, CommitOp, LoadFailsOp, CommittingEffect, LoadEffect
  <2>3. \A x \in N : ~Reading(x) /\ ~AnswerToV0(x)
    BY <2>1, LeftAside DEF AnswerToV0
  <2>4. QED
    BY <1>2, <2>2, <2>3
<1>4. CASE DetectOp(e, rd, n, N)
  <2>1. \A x \in N : x.kind = "load"
    BY <1>4, LeftReadings DEF DetectOp
  <2>2. QED
    BY <1>2, <1>4, <2>1 DEF DetectOp, DetectedEffect, Reading, AnswerToV0
<1>5. CASE TryOp(e, rd, n, N)
  <2>1. PICK rd1, mm, X, R :
          /\ \/ rd1 = rd
             \/ ArrivalEffect(rd1, rd)
             \/ IsLoad(e) /\ LoadEffect(rd1, rd, TRUE)
          /\ TryEffect(n, rd1, mm)
          /\ e.kind \in {"load", "basis"} /\ N = X \union R
          /\ Aside(X, e.round) /\ RetrievalsLeft(R, e.when, e.round, rd1, mm)
    BY <1>5 DEF TryOp
  <2>2. n.seen = rd.seen /\ (CanMeasure(rd1, mm) => ~rd.measuring)
    BY <2>1 DEF TryEffect, ArrivalEffect, LoadEffect, CanMeasure
  <2>3. \A x \in X : ~Reading(x) /\ ~AnswerToV0(x)
    BY <2>1, LeftAside DEF AnswerToV0
  <2>4. CASE ~CanMeasure(rd1, mm)
    <3>1. R = {}
      BY <2>1, <2>4 DEF RetrievalsLeft
    <3>2. QED
      BY <1>2, <2>1, <2>2, <2>3, <3>1
  <2>5. CASE CanMeasure(rd1, mm)
    <3>1. PICK y \in RetrievesAt(e.when, "prover", e.round), x \in RetrievesAt(e.when, "v0", e.round) :
            R = {y, x}
      BY <2>1, <2>5 DEF RetrievalsLeft
    <3>2. \A z \in E : ~Reading(z) /\ ~AnswerToV0(z)
      BY <1>1, <2>2, <2>5 DEF Measured, AnswerToV0
    <3>3. rd.seen["v0"].answerAt = None
      BY <1>1, <2>2, <2>5 DEF Measured, Saw
    <3>4. /\ y.kind = "retrieve" /\ y.who = "prover" /\ y.when = e.when + config.retrieve["prover"]
          /\ x.kind = "retrieve" /\ x.who = "v0" /\ x.when = e.when + config.retrieve["v0"]
      BY DEF RetrievesAt, EventsAt
    <3>5. BitDue(x) <= BitDue(y) + AnswerTravel("v0")
      <4> DEFINE rp == config.retrieve["prover"]
                 sp == config.switch["prover"]
                 mp == config.measure["prover"]
                 rv == config.retrieve["v0"]
                 sv == config.switch["v0"]
                 mv == config.measure["v0"]
                 a == ClassicalDelay(config, "prover", "v0") + config.sender["prover"]["v0"]
      <4>1. /\ BitDue(y) = (e.when + rp) + sp + mp /\ BitDue(x) = (e.when + rv) + sv + mv
            /\ AnswerTravel("v0") = a
        BY <3>4 DEF BitDue, AnswerTravel
      <4>2. /\ rp \in Nat /\ sp \in Nat /\ mp \in Nat /\ rv \in Nat /\ sv \in Nat /\ mv \in Nat
        BY <1>1, ConfigTypes
      <4>3. a \in Nat
        <5>1. ClassicalDelay(config, "prover", "v0") \in Nat /\ config.sender["prover"]["v0"] \in Nat
          BY <1>1, ConfigTypes, MessageDelays
        <5>2. QED
          BY <5>1
      <4>4. rv + sv + mv <= rp + sp + mp + a
        BY DEF V0MeasuresFirst
      <4> HIDE DEF rp, sp, mp, rv, sv, mv, a
      <4>5. QED
        BY <4>1, <4>2, <4>3, <4>4
    <3>6. \A z \in E1 : (Reading(z) => z \in {x, y}) /\ ~AnswerToV0(z)
      BY <2>1, <2>3, <3>1, <3>2, <3>4 DEF AnswerToV0
    <3>7. QED
      BY <2>2, <3>3, <3>4, <3>5, <3>6 DEF InTime, ReadingOf
  <2>6. QED
    BY <2>4, <2>5
<1>6. CASE RetrievedOp(e, rd, n, N)
  <2>1. n.seen = rd.seen /\ e.kind = "retrieve" /\ Reading(e) /\ e.who \in Holders
    BY <1>6 DEF RetrievedOp, DwellEffect, Reading
  <2>2. CASE N = {}
    BY <1>2, <2>1, <2>2
  <2>3. ASSUME NEW x \in MeasuredAt(e.when, e.who, e.round), N = {x} PROVE InTime(n, E1, e.when)
    <3>1. x.kind = "measured" /\ x.who = e.who /\ BitDue(x) = BitDue(e)
      BY <2>1 DEF MeasuredAt, EventsAt, BitDue
    <3>2. \A z \in E1 : Reading(z) /\ z.who = e.who => z = x
      BY <2>1, <2>3 DEF Measured
    <3>3. /\ at # None => at <= e.when
      BY <1>1 DEF InTime, Opt
    <3>4. \A z \in E1 : Reading(z) \/ AnswerToV0(z) => z = x \/ z \in E
      BY <2>3
    <3>5. ~AnswerToV0(x) /\ Reading(x)
      BY <3>1 DEF AnswerToV0, Reading
    <3>6. ASSUME NEW y \in E1, NEW z \in E1, ReadingOf(y, "v0")
          PROVE  /\ ReadingOf(z, "prover") => BitDue(y) <= BitDue(z) + AnswerTravel("v0")
                 /\ AnswerToV0(z) => BitDue(y) <= z.when
                 /\ at # None => BitDue(y) <= at
      <4>1. PICK y1 \in E : ReadingOf(y1, "v0") /\ BitDue(y1) = BitDue(y)
        BY <2>1, <3>1, <3>4, <3>6 DEF ReadingOf
      <4>2. AnswerToV0(z) => z \in E
        BY <3>4, <3>5
      <4>3. ReadingOf(z, "prover") => \E z1 \in E : ReadingOf(z1, "prover") /\ BitDue(z1) = BitDue(z)
        BY <2>1, <3>1, <3>4 DEF ReadingOf
      <4>4. QED
        BY <4>1, <4>2, <4>3 DEF InTime
    <3> HIDE DEF E1
    <3>7. QED
      BY <2>1, <3>3, <3>6 DEF InTime
  <2>4. QED
    BY <1>6, <2>2, <2>3 DEF RetrievedOp
<1>7. CASE AnswersOp(e, rd, n, N)
  <2>1. PICK bit \in Nat :
          /\ BitEffect(n, rd, "prover", bit)
          /\ e.kind = "measured" /\ e.who = "prover"
          /\ N \subseteq UNION {AnswersAt(e.when, v, e.round, bit) : v \in Verifiers}
    BY <1>7 DEF AnswersOp
  <2>2. n.seen = rd.seen
    BY <2>1 DEF BitEffect
  <2>3. \A x \in N : x.kind = "answer" /\ x.when \in From(e.when + AnswerTravel(x.who))
    BY <2>1, LeftAnswers
  <2>4. AnswerTravel("v0") \in Nat
    <3>1. ClassicalDelay(config, "prover", "v0") \in Nat /\ config.sender["prover"]["v0"] \in Nat
      BY <1>1, ConfigTypes, MessageDelays
    <3>2. QED
      BY <3>1 DEF AnswerTravel
  <2>5. /\ at # None => at <= e.when
    BY <1>1 DEF InTime, Opt
  <2>6. ASSUME NEW x \in E1, NEW y \in N, ReadingOf(x, "v0"), AnswerToV0(y)
        PROVE  BitDue(x) <= y.when
    <3>1. x \in E
      BY <2>3, <2>6 DEF ReadingOf, Reading
    <3>2. BitDue(e) = e.when /\ ReadingOf(e, "prover")
      BY <2>1 DEF BitDue, ReadingOf, Reading
    <3>3. BitDue(x) <= e.when + AnswerTravel("v0")
      BY <2>6, <3>1, <3>2 DEF InTime
    <3>4. y.when \in Int /\ y.when >= e.when + AnswerTravel("v0")
      BY <2>3, <2>6 DEF AnswerToV0, From
    <3>5. BitDue(x) \in Int
      BY <1>1, <2>6, <3>1, BitDueTypes DEF ReadingOf
    <3>6. QED
      BY <2>4, <3>3, <3>4, <3>5
  <2>7. \A x \in E1 : Reading(x) => x \in E
    BY <2>3 DEF Reading
  <2>8. QED
    BY <2>2, <2>5, <2>6, <2>7 DEF InTime, ReadingOf
<1>8. CASE V0Op(e, rd, n, N)
  <2>1. \A x \in N : ~Reading(x)
    BY <1>8, LeftReporting DEF Reading
  <2>2. ReadingOf(e, "v0")
    BY <1>8 DEF V0Op, ReadingOf, Reading
  <2>3. \A x \in E1 : ~ReadingOf(x, "v0")
    BY <2>1, <2>2 DEF Measured, ReadingOf
  <2>4. n.seen["v0"].answerAt = at
    BY <1>8 DEF V0Op, BitEffect, ReportEffect
  <2>5. at # None => at <= e.when
    BY <1>1 DEF InTime, Opt
  <2>6. QED
    BY <2>3, <2>4, <2>5 DEF InTime
<1>9. CASE SeesOp(e, rd, n, N)
  <2>1. PICK n1 \in RoundType :
          /\ SeeingEffect(n1, rd, e) /\ ReportEffect(n, n1, e.round, e.who, FALSE)
          /\ e.kind \in {"commitment", "answer"} /\ e.who \in Verifiers
    BY <1>9 DEF SeesOp
  <2>2. \A x \in N : ~Reading(x) /\ ~AnswerToV0(x)
    BY <1>9, LeftReporting DEF Reading, AnswerToV0
  <2>3. n.seen["v0"].answerAt = n1.seen["v0"].answerAt
    BY <1>1, <2>1 DEF ReportEffect
  <2>4. CASE AnswerToV0(e)
    <3>1. n1.seen["v0"].answerAt = e.when
      BY <2>1, <2>4 DEF SeeingEffect, AnswerToV0
    <3>2. \A x \in E1 : Reading(x) \/ AnswerToV0(x) => x \in E
      BY <2>2
    <3>3. \A x \in E : ReadingOf(x, "v0") => BitDue(x) <= e.when
      BY <2>4 DEF InTime
    <3>4. QED
      BY <2>3, <3>1, <3>2, <3>3 DEF InTime, ReadingOf
  <2>5. CASE ~AnswerToV0(e)
    <3>1. n1.seen["v0"].answerAt = at
      BY <1>1, <2>1, <2>5 DEF SeeingEffect, AnswerToV0
    <3>2. QED
      BY <1>2, <2>2, <2>3, <3>1
  <2>6. QED
    BY <2>4, <2>5
<1>10. CASE ReceivedOp(e, rd, n, N) \/ ForcedOp(e, rd, n, N)
  <2>1. \A x \in N : ~Reading(x) /\ ~AnswerToV0(x)
    BY <1>10, LeftReporting DEF Reading, AnswerToV0
  <2>2. n.seen["v0"].answerAt = at
    BY <1>1, <1>10 DEF ReceivedOp, ForcedOp, ReceivedEffect, ReportEffect
  <2>3. QED
    BY <1>2, <2>1, <2>2
<1>11. QED
  BY <1>3, <1>4, <1>5, <1>6, <1>7, <1>8, <1>9, <1>10 DEF Op

LEMMA V0ReportedKept ==
  ASSUME config \in Configs, NEW r, NEW rd \in RoundType,
         NEW n \in RoundType, NEW E, NEW e \in E, NEW N, NEW u \in BOOLEAN, NEW u1 \in BOOLEAN,
         NEW t \in Int, t <= e.when, e.when \in Int,
         \A x \in E : x.when \in Int /\ (Reading(x) => x.who \in Holders),
         e.kind = "timeout" => \A x \in E : Reading(x) => x.when > e.when,
         Measured(rd, E), Saw(r, "v0", rd, E), InTime(rd, E, t), V0Reported(rd, E),
         Op(e, rd, n, N, u, u1)
  PROVE  V0Reported(n, (E \ {e}) \union N)
<1> DEFINE E1 == (E \ {e}) \union N
           o == rd.seen["v0"]
<1>1. /\ "v0" \in Verifiers /\ "v1" \in Verifiers /\ Holders = {"prover", "v0"}
      /\ o.answerAt \in Opt(Int)
  BY SeenTypes DEF Verifiers, Holders
<1>2. ASSUME n.bit["v0"] = rd.bit["v0"], n.seen["v0"] = o, n.received = rd.received,
             \A x \in N : ~ReadingOf(x, "v0") /\ ~ReportOfV(x, "v0")
      PROVE  V0Reported(n, E1)
  BY <1>2 DEF V0Reported, Punctual
<1>3. CASE IdleOp(e, rd, n, N) \/ CommitOp(e, rd, n, N) \/ LoadFailsOp(e, rd, n, N)
  <2>1. Aside(N, e.round)
    BY <1>3 DEF IdleOp, CommitOp, LoadFailsOp
  <2>2. n.bit = rd.bit /\ n.seen = rd.seen /\ n.received = rd.received
    BY <1>3 DEF IdleOp, CommitOp, LoadFailsOp, CommittingEffect, LoadEffect
  <2>3. \A x \in N : ~ReadingOf(x, "v0") /\ ~ReportOfV(x, "v0")
    BY <2>1, LeftAside DEF ReadingOf, ReportOfV
  <2>4. QED
    BY <1>2, <2>2, <2>3
<1>4. CASE DetectOp(e, rd, n, N)
  <2>1. \A x \in N : x.kind = "load"
    BY <1>4, LeftReadings DEF DetectOp
  <2>2. QED
    BY <1>2, <1>4, <2>1 DEF DetectOp, DetectedEffect, ReadingOf, Reading, ReportOfV
<1>5. CASE TryOp(e, rd, n, N)
  <2>1. PICK rd1, mm, X, R :
          /\ \/ rd1 = rd
             \/ ArrivalEffect(rd1, rd)
             \/ IsLoad(e) /\ LoadEffect(rd1, rd, TRUE)
          /\ TryEffect(n, rd1, mm)
          /\ e.kind \in {"load", "basis"} /\ N = X \union R
          /\ Aside(X, e.round) /\ RetrievalsLeft(R, e.when, e.round, rd1, mm)
    BY <1>5 DEF TryOp
  <2>2. /\ n.seen = rd.seen /\ n.bit = rd.bit /\ n.received = rd.received
        /\ CanMeasure(rd1, mm) => ~rd.measuring
    BY <2>1 DEF TryEffect, ArrivalEffect, LoadEffect, CanMeasure
  <2>3. \A x \in X : ~Reading(x) /\ x.kind # "report"
    BY <2>1, LeftAside
  <2>4. CASE ~CanMeasure(rd1, mm)
    <3>1. R = {}
      BY <2>1, <2>4 DEF RetrievalsLeft
    <3>2. QED
      BY <1>2, <2>1, <2>2, <2>3, <3>1 DEF ReadingOf, ReportOfV
  <2>5. CASE CanMeasure(rd1, mm)
    <3>1. \A x \in N : x.kind # "report"
      BY <2>1, <2>3, LeftRetrievals
    <3>2. rd.bit["prover"] = None
      BY <1>1, <2>2, <2>5 DEF Measured
    <3>3. Honest(r, "v0", rd, o.report) => Punctual(n, E1)
      BY <2>2, <3>2 DEF Honest, Punctual
    <3> HIDE DEF o
    <3>4. QED
      BY <2>2, <3>1, <3>3 DEF Saw, V0Reported, ReportOfV, o
  <2>6. QED
    BY <2>4, <2>5
<1>6. CASE RetrievedOp(e, rd, n, N)
  <2>1. /\ n.seen = rd.seen /\ n.bit = rd.bit /\ n.received = rd.received /\ e.kind = "retrieve"
    BY <1>6 DEF RetrievedOp, DwellEffect
  <2>2. \A x \in N : x.kind = "measured" /\ x.who = e.who
    BY <1>6, LeftReadings DEF RetrievedOp
  <2>3. CASE e.who = "v0"
    <3>1. ReadingOf(e, "v0")
      BY <2>1, <2>3 DEF ReadingOf, Reading
    <3>2. QED
      BY <2>1, <2>2, <3>1 DEF V0Reported, Punctual, ReportOfV
  <2>4. CASE e.who # "v0"
    BY <1>2, <2>1, <2>2, <2>4 DEF ReadingOf, ReportOfV
  <2>5. QED
    BY <2>3, <2>4
<1>7. CASE AnswersOp(e, rd, n, N)
  <2>1. /\ n.seen = rd.seen /\ n.bit["v0"] = rd.bit["v0"] /\ n.received = rd.received
    BY <1>1, <1>7 DEF AnswersOp, BitEffect
  <2>2. \A x \in N : x.kind = "answer"
    BY <1>7, LeftAnswers DEF AnswersOp
  <2>3. QED
    BY <1>2, <2>1, <2>2 DEF ReadingOf, Reading, ReportOfV
<1>8. ASSUME NEW n1 \in RoundType, NEW force, ReportEffect(n, n1, e.round, "v0", force),
             Reports("v0", n1, force),
             n1.seen["v0"].answer # None =>
               n1.bit["v0"] # None \/ \A x \in E1 : ~ReadingOf(x, "v0")
      PROVE  V0Reported(n, E1)
  <2> DEFINE o1 == n1.seen["v0"]
             q == ReportOf(e.round, "v0", o1, n1.bit["v0"])
  <2>1. n.seen["v0"].report = q /\ n.bit = n1.bit
    BY <1>8 DEF ReportEffect
  <2>2. q.answer = o1.answer /\ q.local = n1.bit["v0"]
    BY DEF ReportOf
  <2> HIDE DEF q, E1
  <2>3. QED
    BY <1>8, <2>1, <2>2 DEF V0Reported, Punctual
<1>9. CASE V0Op(e, rd, n, N)
  <2>1. PICK bit \in Nat, n1 \in RoundType :
          /\ BitEffect(n1, rd, "v0", bit) /\ ReportEffect(n, n1, e.round, "v0", FALSE)
          /\ e.kind = "measured" /\ e.who = "v0"
          /\ ReportsLeft(N, e.when, "v0", e.round, Reports("v0", n1, FALSE))
    BY <1>9 DEF V0Op
  <2>2. /\ n1.bit["v0"] # None /\ n1.seen = rd.seen /\ n1.received = rd.received
        /\ ReadingOf(e, "v0")
    BY <2>1, SessionAssumption DEF BitEffect, ReadingOf, Reading
  <2>3. CASE Reports("v0", n1, FALSE)
    BY <1>8, <2>1, <2>2, <2>3
  <2>4. CASE ~Reports("v0", n1, FALSE)
    <3>1. /\ n.seen["v0"].report = o.report /\ n.received = rd.received /\ N = {}
      BY <2>1, <2>2, <2>4 DEF ReportEffect, ReportsLeft
    <3> HIDE DEF o
    <3>2. V0Reported(rd, E) => V0Reported(n, E1)
      BY <2>2, <3>1 DEF V0Reported, Punctual, ReportOfV, o
    <3>3. QED
      BY <3>2
  <2>5. QED
    BY <2>3, <2>4
<1>10. CASE SeesOp(e, rd, n, N)
  <2>1. PICK n1 \in RoundType :
          /\ SeeingEffect(n1, rd, e) /\ ReportEffect(n, n1, e.round, e.who, FALSE)
          /\ e.kind \in {"commitment", "answer"} /\ e.who \in Verifiers
          /\ ReportsLeft(N, e.when, e.who, e.round, Reports(e.who, n1, FALSE))
    BY <1>10 DEF SeesOp
  <2>2. n.bit = rd.bit /\ n.received = rd.received /\ n1.seen["v0"].report = o.report
    BY <1>1, <2>1 DEF SeeingEffect, ReportEffect
  <2>3. \A x \in N : x.kind = "report" /\ x.who = e.who
    BY <2>1, LeftReports DEF ReportsLeft
  <2>4. CASE e.who = "v0" /\ Reports("v0", n1, FALSE)
    <3>1. n1.bit["v0"] # None
      BY <2>4 DEF Reports, Ready
    <3>2. QED
      BY <1>8, <2>1, <2>4, <3>1
  <2>5. CASE ~(e.who = "v0" /\ Reports("v0", n1, FALSE))
    <3>1. n.seen["v0"].report = o.report
      BY <1>1, <2>1, <2>2, <2>5 DEF ReportEffect
    <3>2. \A x \in N : ~ReportOfV(x, "v0") /\ ~ReadingOf(x, "v0")
      BY <2>1, <2>3, <2>5 DEF ReportsLeft, ReportOfV, ReadingOf, Reading
    <3> HIDE DEF o
    <3>3. V0Reported(rd, E) => V0Reported(n, E1)
      BY <2>2, <3>1, <3>2 DEF V0Reported, Punctual, o
    <3>4. QED
      BY <3>3
  <2>6. QED
    BY <2>4, <2>5
<1>11. CASE ReceivedOp(e, rd, n, N)
  BY <1>11 DEF ReceivedOp, ReceivedEffect, V0Reported, Punctual, ReportOfV
<1>12. CASE ForcedOp(e, rd, n, N)
  <2>1. PICK n1 \in RoundType :
          /\ ReportEffect(n1, rd, e.round, "v0", TRUE) /\ ReportEffect(n, n1, e.round, "v1", TRUE)
          /\ e.kind = "timeout"
    BY <1>12 DEF ForcedOp
  <2>2. /\ n.bit = rd.bit /\ n.received = rd.received
        /\ n.seen["v0"].report = n1.seen["v0"].report
    BY <1>1, <2>1 DEF ReportEffect
  <2>3. \A x \in N : ~ReadingOf(x, "v0")
    BY <1>12, LeftReporting DEF ReadingOf, Reading
  <2>4. CASE o.report = None
    <3> DEFINE q == ReportOf(e.round, "v0", o, rd.bit["v0"])
    <3>1. n.seen["v0"].report = q
      BY <2>1, <2>2, <2>4 DEF ReportEffect, Reports
    <3>2. q.answer = o.answer /\ q.local = rd.bit["v0"]
      BY DEF ReportOf
    <3>3. ASSUME o.answer # None, NEW x \in E, ReadingOf(x, "v0") PROVE FALSE
      <4>1. o.answerAt # None
        BY <1>1, <3>3 DEF Saw
      <4>2. o.answerAt \in Int /\ o.answerAt <= t /\ BitDue(x) <= o.answerAt
        BY <1>1, <3>3, <4>1 DEF InTime, Opt
      <4>3. BitDue(x) \in Int /\ x.when <= BitDue(x) /\ x.when \in Int
        BY <1>1, <3>3, BitDueTypes DEF ReadingOf
      <4>4. x.when > e.when
        BY <2>1, <3>3 DEF ReadingOf
      <4> HIDE DEF o
      <4>5. QED
        BY <4>2, <4>3, <4>4
    <3>4. o.answer # None => \A x \in E1 : ~ReadingOf(x, "v0")
      BY <2>3, <3>3
    <3>5. V0Reported(n, E1)
      <4> HIDE DEF q, o, E1
      <4>1. QED
        BY <2>2, <3>1, <3>2, <3>4 DEF V0Reported, Punctual
    <3>6. QED
      BY <3>5
  <2>5. CASE o.report # None
    <3>1. n.seen["v0"].report = o.report
      BY <2>1, <2>2, <2>5 DEF ReportEffect, Reports
    <3> HIDE DEF o
    <3>2. V0Reported(rd, E) => V0Reported(n, E1)
      BY <2>2, <2>3, <2>5, <3>1 DEF V0Reported, Punctual, o
    <3>3. QED
      BY <3>2
  <2>6. QED
    BY <2>4, <2>5
<1>13. QED
  BY <1>3, <1>4, <1>5, <1>6, <1>7, <1>9, <1>10, <1>11, <1>12 DEF Op

-----------------------------------------------------------------------------
(* The bits that are compared agree. *)

V0AlwaysFirst == \A c \in Configs : V0MeasuresFirst(c)

V0Timely ==
  \A r \in Rounds : InTime(round[r], Pending(r), now) /\ V0Reported(round[r], Pending(r))

LEMMA StepTimely ==
  ASSUME V0AlwaysFirst, TypeOK, Agenda, MemInv, RuntimeTypes, HeapOrder, Truths, V0Timely,
         NEW e \in queue, DeviceStep(e) \/ ProtocolStep(e) \/ DecisionStep(e)
  PROVE  V0Timely'
<1> SUFFICES ASSUME NEW q \in Rounds
             PROVE  (InTime(round[q], Pending(q), now) /\ V0Reported(round[q], Pending(q)))'
  BY DEF V0Timely
<1> DEFINE r == e.round
           rd == round[r]
           E == Pending(r)
           u == Unresolved(r)
           u1 == Unresolved(r)'
<1>1. PICK n, N : Moves(e, n, N)
  BY StepMoves
<1>2. /\ r \in Rounds /\ config' = config /\ config \in Configs /\ e.when \in Int /\ now \in Int
      /\ now' = e.when /\ round[q] \in RoundType /\ rd \in RoundType
      /\ now <= e.when /\ IsFirst(e, queue)
  BY StepIsFirst, TypesOfEvent DEF RuntimeTypes, HeapOrder, TypeOK, QueueType
<1>3. /\ InTime(round[q], Pending(q), now) /\ V0Reported(round[q], Pending(q))
      /\ InTime(rd, E, now) /\ V0Reported(rd, E)
      /\ Truth(r, rd, E, u)
  BY <1>2 DEF V0Timely, Truths
<1>4. ASSUME NEW n1, NEW E1, InTime(n1, E1, e.when), V0Reported(n1, E1),
             round'[q] = n1, Pending(q)' = E1
      PROVE  (InTime(round[q], Pending(q), now) /\ V0Reported(round[q], Pending(q)))'
  BY <1>2, <1>4 DEF InTime, V0Reported, Punctual, BitDue, AnswerTravel
<1>5. CASE q # r
  <2>1. round'[q] = round[q] /\ Pending(q)' = Pending(q)
    BY <1>1, <1>5 DEF Moves
  <2>2. round[q].seen["v0"].answerAt \in Opt(Int)
    BY <1>2, SeenTypes DEF Verifiers
  <2>3. InTime(round[q], Pending(q), e.when)
    BY <1>2, <1>3, <2>2, InTimeFrame
  <2>4. QED
    BY <1>3, <1>4, <2>1, <2>3
<1>6. CASE q = r
  <2> DEFINE E1 == (E \ {e}) \union N
  <2>1. /\ n \in RoundType /\ round'[q] = n /\ e \in E /\ Pending(q)' = E1
        /\ Op(e, rd, n, N, u, u1)
    BY <1>1, <1>6 DEF Moves
  <2>2. /\ u \in BOOLEAN /\ u1 \in BOOLEAN
        /\ \A x \in E : x.when \in Int /\ (Reading(x) => x.who \in Holders)
    BY <1>2, PendingTypes DEF Unresolved
  <2>3. ASSUME NEW x \in E, e.kind = "timeout", Reading(x) PROVE x.when > e.when
    <3>1. x \in queue /\ x # e /\ x.when \in Int
      BY <2>2, <2>3 DEF Pending, Reading
    <3>2. e.phase = Timeout /\ x.phase = DeviceCompletion
      BY <2>3, <3>1 DEF HeapOrder, RankOK, Reading
    <3>3. Before(e, x)
      BY <1>2, <3>1 DEF IsFirst
    <3>4. QED
      BY <1>2, <3>1, <3>2, <3>3 DEF Before, Timeout, DeviceCompletion
  <2>4. V0MeasuresFirst(config)
    BY <1>2 DEF V0AlwaysFirst
  <2> HIDE DEF rd, E, u, u1
  <2>5. Measured(rd, E) /\ Saw(r, "v0", rd, E)
    BY <1>3 DEF Truth, Verifiers
  <2>6. InTime(n, E1, e.when)
    <3>1. config \in Configs /\ rd \in RoundType /\ now \in Int /\ now <= e.when /\ e.when \in Int
      BY <1>2
    <3>2. InTime(rd, E, now)
      BY <1>3
    <3>3. n \in RoundType /\ e \in E /\ Op(e, rd, n, N, u, u1)
      BY <2>1
    <3>4. QED
      BY ONLY <3>1, <3>2, <3>3, <2>2, <2>4, <2>5, InTimeKept, ZenonT(60)
  <2>7. V0Reported(n, E1)
    BY <1>2, <1>3, <2>1, <2>2, <2>3, <2>5, V0ReportedKept
  <2> HIDE DEF E1
  <2>8. QED
    BY <1>4, <2>1, <2>6, <2>7
<1>7. QED
  BY <1>5, <1>6

LEMMA NextTimely ==
  ASSUME V0AlwaysFirst, TypeOK, Agenda, MemInv, RuntimeTypes, HeapOrder, Truths, V0Timely,
         [Next]_vars
  PROVE  V0Timely'
<1>1. CASE Step
  BY <1>1, StepTimely DEF Step
<1>2. CASE Finish \/ UNCHANGED vars
  <2>1. UNCHANGED <<config, queue, round, now>>
    BY <1>2 DEF Finish, vars, schedulerVars, deviceVars
  <2>2. QED
    BY <2>1 DEF V0Timely, InTime, V0Reported, Punctual, Pending, BitDue, AnswerTravel
<1>3. QED
  BY <1>1, <1>2 DEF Next, Over

LEMMA InitTimely == ASSUME Init PROVE V0Timely
<1> SUFFICES ASSUME NEW r \in Rounds
             PROVE  InTime(round[r], Pending(r), now) /\ V0Reported(round[r], Pending(r))
  BY DEF V0Timely
<1>1. round[r] = FreshRound
  BY DEF Init
<1>2. \A x \in Pending(r) : x.kind = "start"
  BY InitialEvents DEF Pending
<1>3. InTime(FreshRound, Pending(r), now)
  <2>1. FreshRound.seen["v0"].answerAt = None
    BY DEF FreshRound, NoObservation, Verifiers
  <2>2. QED
    BY <1>2, <2>1 DEF InTime, ReadingOf, Reading
<1>4. V0Reported(FreshRound, Pending(r))
  BY <1>2 DEF V0Reported, ReportOfV, FreshRound, NoObservation, Verifiers
<1>5. QED
  BY <1>1, <1>3, <1>4

LEMMA SessionTimely ==
  ASSUME V0AlwaysFirst
  PROVE  Spec => []V0Timely
<1>1. Init => V0Timely
  BY InitTimely
<1>2. /\ TypeOK /\ Agenda /\ MemInv /\ RuntimeTypes /\ HeapOrder /\ Truths /\ V0Timely
      /\ [Next]_vars
      => V0Timely'
  BY NextTimely
<1>3. QED
  BY <1>1, <1>2, SessionTypes, SessionAgenda, SessionMemory, SessionRuntime, SessionHeapOrder,
     SessionTruths, PTL DEF Spec

LEMMA DecidedMatch ==
  ASSUME config \in Configs, NEW r \in Rounds, NEW rd \in RoundType, NEW E, NEW u,
         Truth(r, rd, E, u), V0Reported(rd, E), Reasons(rd) = {}
  PROVE  RoundResult(r, rd).match # FALSE
<1> DEFINE p == rd.seen["v0"].report
           x == RoundResult(r, rd)
<1>1. /\ "v0" \in Verifiers /\ "prover" \in Holders /\ "v0" \in Holders
      /\ None # FALSE
  BY SessionAssumption DEF Verifiers, Holders
<1>2. Honest(r, "v0", rd, p) /\ p.answer = rd.bit["prover"] /\ p.answer # None
  BY <1>1, AcceptedAnswers
<1>3. rd.received = Verifiers /\ (p.local # None => p.local = p.answer)
  BY <1>1, <1>2, NoReasons
<1>4. Punctual(rd, E)
  BY <1>1, <1>3 DEF V0Reported
<1>5. rd.bit["v0"] = None \/ rd.bit["v0"] = rd.bit["prover"]
  BY <1>2, <1>3, <1>4 DEF Punctual, Honest
<1>6. x.match = IF None \in {rd.bit[m] : m \in Holders} THEN None
                ELSE rd.bit["prover"] = rd.bit["v0"]
  BY DEF RoundResult
<1> HIDE DEF x
<1>7. x.match = None \/ x.match = TRUE
  BY <1>1, <1>5, <1>6
<1>8. QED
  BY <1>1, <1>7 DEF x

MatchedResults == \A i \in DOMAIN results : results[i].accepted => results[i].match # FALSE

LEMMA StepMatched ==
  ASSUME TypeOK, TypeOK', RuntimeTypes, RuntimeTypes', Books, Truths', V0Timely', MatchedResults,
         NEW e \in queue, DeviceStep(e) \/ ProtocolStep(e) \/ DecisionStep(e)
  PROVE  MatchedResults'
<1>1. /\ config' = config /\ config \in Configs /\ e.round \in Rounds
      /\ round'[e.round] \in RoundType
  BY StepIsFirst, TypesOfEvent DEF RuntimeTypes, TypeOK
<1>2. CASE UNCHANGED results
  BY <1>2 DEF MatchedResults
<1>3. ASSUME NEW x, Adds(e, x) PROVE x.accepted => x.match # FALSE
  <2>1. CASE x = RejectedResult(e.round, PreflightReasons(e.round))
    BY <2>1 DEF RejectedResult
  <2>2. CASE x = RoundResult(e.round, round'[e.round])
    <3> DEFINE E == Pending(e.round)'
               u == Unresolved(e.round)'
               rd == round'[e.round]
    <3>1. /\ Truth(e.round, round[e.round], Pending(e.round), Unresolved(e.round))'
          /\ V0Reported(round[e.round], Pending(e.round))'
      BY <1>1 DEF Truths, V0Timely
    <3>2. Truth(e.round, rd, E, u) /\ V0Reported(rd, E)
      BY <1>1, <3>1 DEF Truth, Saw, Honest, Measured, Detected, V0Reported, Punctual
    <3>3. RoundResult(e.round, rd).accepted => Reasons(rd) = {}
      BY DEF RoundResult
    <3> HIDE DEF E, u, rd
    <3>4. RoundResult(e.round, rd).accepted => RoundResult(e.round, rd).match # FALSE
      BY <1>1, <3>2, <3>3, DecidedMatch DEF rd
    <3>5. QED
      BY <2>2, <3>4 DEF rd
  <2>3. QED
    BY <1>3, <2>1, <2>2 DEF Adds
<1>4. ASSUME NEW x, Adds(e, x) PROVE MatchedResults'
  <2> DEFINE R == {results[i] : i \in DOMAIN results}
             n == Len(results)
  <2>1. results \in Seq(R) /\ results' = Append(results, x)
    BY <1>4 DEF Books, Adds
  <2>2. /\ DOMAIN results = 1 .. n /\ DOMAIN results' = 1 .. n + 1 /\ n \in Nat
        /\ \A i \in 1 .. n : results'[i] = results[i]
        /\ results'[n + 1] = x
    BY <2>1, AppendedBook
  <2>3. x.accepted => x.match # FALSE
    BY <1>3, <1>4
  <2>4. ASSUME NEW i \in 1 .. n + 1 PROVE results'[i].accepted => results'[i].match # FALSE
    <3>1. CASE i \in 1 .. n
      BY <2>2, <3>1 DEF MatchedResults
    <3>2. CASE i = n + 1
      BY <2>2, <2>3, <3>2
    <3>3. i \in 1 .. n \/ i = n + 1
      BY <2>2
    <3>4. QED
      BY <3>1, <3>2, <3>3
  <2>5. QED
    BY <2>2, <2>4 DEF MatchedResults
<1>5. QED
  BY <1>2, <1>4, StepAdds

LEMMA NextMatched ==
  ASSUME TypeOK, TypeOK', RuntimeTypes, RuntimeTypes', Books, Truths', V0Timely', MatchedResults,
         [Next]_vars
  PROVE  MatchedResults'
<1>1. CASE Step
  BY <1>1, StepMatched DEF Step
<1>2. CASE Finish \/ UNCHANGED vars
  BY <1>2 DEF Finish, vars, decisionVars, MatchedResults
<1>3. QED
  BY <1>1, <1>2 DEF Next, Over

LEMMA SessionMatched ==
  ASSUME V0AlwaysFirst
  PROVE  Spec => []MatchedResults
<1>1. Init => MatchedResults
  BY DEF Init, MatchedResults
<1>2. /\ TypeOK /\ TypeOK' /\ RuntimeTypes /\ RuntimeTypes' /\ Books /\ Truths' /\ V0Timely'
      /\ MatchedResults /\ [Next]_vars
      => MatchedResults'
  BY NextMatched
<1>3. QED
  BY <1>1, <1>2, SessionTypes, SessionRuntime, SessionBooks, SessionTruths, SessionTimely, PTL
     DEF Spec

\* An accepted round really happened, and v0 did not measure something else
\* than the answer it heard, provided that v0 reads its half before it can hear
\* the prover's answer (_finalize_round, BaselineRoundAcceptance.decide).
THEOREM AcceptedAreGenuine ==
  ASSUME V0AlwaysFirst
  PROVE  Spec => []AcceptedRoundsAreGenuine
<1>1. AcceptedRoundsHappened /\ MatchedResults => AcceptedRoundsAreGenuine
  BY DEF AcceptedRoundsHappened, Happened, MatchedResults, AcceptedRoundsAreGenuine
<1>2. QED
  BY <1>1, SessionRoundsHappened, SessionMatched, PTL

-----------------------------------------------------------------------------
(* Every report reaches the controller before the final timeout. *)

\* No report is lost or held back.
EveryReportPrompt ==
  \A c \in Configs, v \in Verifiers :
    /\ c.sender[v]["controller"] = 0
    /\ \A out \in c.tamper["report"] : \E i \in DOMAIN out : out[i] = 0

\* The report of v is in, or will be.
Underway(v, r, rd, E) ==
  v \in rd.received \/ \E x \in E : ReportOfV(x, v) /\ x.when < FinalTimeoutAt(config, r)

FinalIn(E) == \E x \in E : x.kind = "final"

Heard(r, rd, E) ==
  \A v \in Verifiers : rd.seen[v].report # None \/ FinalIn(E) => Underway(v, r, rd, E)

\* The controller waits for a report that leaves at the round timeout.
LEMMA ReportInTime ==
  ASSUME config \in Configs, NEW r \in Rounds, NEW v \in Verifiers, NEW t \in Int,
         t <= RoundTimeoutAt(config, r)
  PROVE  t + ClassicalDelay(config, v, "controller") < FinalTimeoutAt(config, r)
<1> DEFINE d0 == ClassicalDelay(config, "v0", "controller")
           d1 == ClassicalDelay(config, "v1", "controller")
           d == ClassicalDelay(config, v, "controller")
           T == RoundTimeoutAt(config, r)
<1>1. "report" \in MessageKinds
  BY DEF MessageKinds
<1>2. d0 \in Nat /\ d1 \in Nat /\ (d = d0 \/ d = d1) /\ T \in Int
  BY ConfigTypes, MessageDelays, RoundIsNat, PlanTypes DEF Verifiers
<1> HIDE DEF d0, d1, d, T
<1>3. ControllerDelay(config) = IF d0 > d1 THEN d0 ELSE d1
  BY <1>2 DEF ControllerDelay, Larger, d0, d1
<1>4. FinalTimeoutAt(config, r) = T + (ControllerDelay(config) + 1)
  BY DEF FinalTimeoutAt, FinalDelay, T
<1>5. t <= T
  BY DEF T
<1>6. QED
  BY <1>2, <1>3, <1>4, <1>5 DEF d

LEMMA HeardFrame ==
  ASSUME NEW r, NEW rd, NEW n, NEW E, NEW E1, Heard(r, rd, E),
         \A v \in Verifiers : n.seen[v].report = rd.seen[v].report,
         n.received = rd.received,
         \A x \in E : x.kind = "report" => x \in E1,
         \A x \in E1 : x.kind = "final" => x \in E
  PROVE  Heard(r, n, E1)
BY DEF Heard, FinalIn, Underway, ReportOfV

LEMMA HeardKept ==
  ASSUME config \in Configs, EveryReportPrompt, NEW r \in Rounds, NEW rd \in RoundType,
         NEW n \in RoundType, NEW E, NEW e \in E, NEW N, NEW u \in BOOLEAN, NEW u1 \in BOOLEAN,
         e.round = r, e.when \in Int,
         e.kind = "start" \/ FinalIn(E) \/ e.when <= RoundTimeoutAt(config, r),
         Heard(r, rd, E), Op(e, rd, n, N, u, u1)
  PROVE  Heard(r, n, (E \ {e}) \union N)
<1> DEFINE E1 == (E \ {e}) \union N
<1>1. ASSUME \A v \in Verifiers : n.seen[v].report = rd.seen[v].report,
             n.received = rd.received, e.kind # "report",
             \A x \in N : x.kind # "final"
      PROVE  Heard(r, n, E1)
  BY <1>1, HeardFrame
<1>2. CASE IdleOp(e, rd, n, N) \/ CommitOp(e, rd, n, N) \/ LoadFailsOp(e, rd, n, N)
  <2>1. Aside(N, e.round) /\ e.kind # "report"
    BY <1>2 DEF IdleOp, CommitOp, LoadFailsOp, IsLoad
  <2>2. n.seen = rd.seen /\ n.received = rd.received
    BY <1>2 DEF IdleOp, CommitOp, LoadFailsOp, CommittingEffect, LoadEffect
  <2>3. \A x \in N : x.kind # "final"
    BY <2>1, LeftAside
  <2>4. QED
    BY <1>1, <2>1, <2>2, <2>3
<1>3. CASE DetectOp(e, rd, n, N)
  <2>1. \A x \in N : x.kind = "load"
    BY <1>3, LeftReadings DEF DetectOp
  <2>2. QED
    BY <1>1, <1>3, <2>1 DEF DetectOp, DetectedEffect
<1>4. CASE TryOp(e, rd, n, N)
  <2>1. PICK rd1, mm, X, R :
          /\ \/ rd1 = rd
             \/ ArrivalEffect(rd1, rd)
             \/ IsLoad(e) /\ LoadEffect(rd1, rd, TRUE)
          /\ TryEffect(n, rd1, mm)
          /\ e.kind \in {"load", "basis"} /\ N = X \union R
          /\ Aside(X, e.round) /\ RetrievalsLeft(R, e.when, e.round, rd1, mm)
    BY <1>4 DEF TryOp
  <2>2. n.seen = rd.seen /\ n.received = rd.received
    BY <2>1 DEF TryEffect, ArrivalEffect, LoadEffect
  <2>3. \A x \in N : x.kind # "final"
    BY <2>1, LeftAside, LeftRetrievals
  <2>4. QED
    BY <1>1, <2>1, <2>2, <2>3
<1>5. CASE RetrievedOp(e, rd, n, N)
  <2>1. n.seen = rd.seen /\ n.received = rd.received /\ e.kind = "retrieve"
    BY <1>5 DEF RetrievedOp, DwellEffect
  <2>2. \A x \in N : x.kind = "measured"
    BY <1>5, LeftReadings DEF RetrievedOp
  <2>3. QED
    BY <1>1, <2>1, <2>2
<1>6. CASE AnswersOp(e, rd, n, N)
  <2>1. n.seen = rd.seen /\ n.received = rd.received /\ e.kind = "measured"
    BY <1>6 DEF AnswersOp, BitEffect
  <2>2. \A x \in N : x.kind = "answer"
    BY <1>6, LeftAnswers DEF AnswersOp
  <2>3. QED
    BY <1>1, <2>1, <2>2
<1>7. ASSUME NEW v \in Verifiers, n.received = rd.received, e.kind # "report",
             Underway(v, r, rd, E)
      PROVE  Underway(v, r, n, E1)
  BY <1>7 DEF Underway, ReportOfV
<1>8. ASSUME NEW v \in Verifiers, NEW P \in SUBSET N, NEW old, NEW new,
             ReportsLeft(P, e.when, v, e.round, Reports(v, old, new)), Reports(v, old, new),
             n.received = rd.received, e.kind \notin {"start", "report"}
      PROVE  Underway(v, r, n, E1)
  <2>1. CASE Underway(v, r, rd, E)
    BY <1>7, <1>8, <2>1
  <2>2. CASE ~Underway(v, r, rd, E)
    <3>1. e.when <= RoundTimeoutAt(config, r)
      BY <1>8, <2>2 DEF Heard
    <3>2. PromptReports(v)
      BY DEF EveryReportPrompt, PromptReports
    <3>3. PICK x \in P : x.when = e.when + ClassicalDelay(config, v, "controller")
      BY <1>8, <3>2 DEF ReportsLeft
    <3>4. x.kind = "report" /\ x.who = v
      BY <1>8, LeftReports DEF ReportsLeft
    <3>5. x.when < FinalTimeoutAt(config, r)
      BY <3>1, <3>3, ReportInTime
    <3>6. QED
      BY <1>8, <3>4, <3>5 DEF Underway, ReportOfV
  <2>3. QED
    BY <2>1, <2>2
<1>9. ASSUME NEW v \in Verifiers, NEW n1 \in RoundType,
              \A w \in Verifiers : n1.seen[w].report = rd.seen[w].report,
              n1.received = rd.received,
              ReportEffect(n, n1, e.round, v, FALSE),
              ReportsLeft(N, e.when, v, e.round, Reports(v, n1, FALSE)),
              e.kind \notin {"start", "report"}
       PROVE  Heard(r, n, E1)
  <2>1. \A x \in N : x.kind = "report"
    BY <1>9, LeftReports DEF ReportsLeft
  <2>2. n.received = rd.received /\ \A w \in Verifiers \ {v} : n.seen[w].report = rd.seen[w].report
    BY <1>9 DEF ReportEffect
  <2>3. CASE Reports(v, n1, FALSE)
    <3>1. Underway(v, r, n, E1)
      BY <1>8, <1>9, <2>2, <2>3
    <3>2. ASSUME NEW w \in Verifiers \ {v}, n.seen[w].report # None \/ FinalIn(E1)
          PROVE  Underway(w, r, n, E1)
      <4>1. rd.seen[w].report # None \/ FinalIn(E)
        BY <2>1, <2>2, <3>2 DEF FinalIn
      <4>2. Underway(w, r, rd, E)
        BY <4>1 DEF Heard
      <4>3. QED
        BY <1>7, <1>9, <2>2, <4>2
    <3> HIDE DEF E1
    <3>3. Heard(r, n, E1)
      BY <3>1, <3>2 DEF Heard
    <3>4. QED
      BY <3>3
  <2>4. CASE ~Reports(v, n1, FALSE)
    <3>1. n.seen[v].report = rd.seen[v].report
      BY <1>9, <2>4 DEF ReportEffect
    <3>2. QED
      BY <1>1, <1>9, <2>1, <2>2, <3>1
  <2>5. QED
    BY <2>3, <2>4
<1>10. CASE V0Op(e, rd, n, N)
  <2>1. PICK bit \in Nat, n1 \in RoundType :
          /\ BitEffect(n1, rd, "v0", bit) /\ ReportEffect(n, n1, e.round, "v0", FALSE)
          /\ e.kind = "measured" /\ e.who = "v0"
          /\ ReportsLeft(N, e.when, "v0", e.round, Reports("v0", n1, FALSE))
    BY <1>10 DEF V0Op
  <2>2. n1.seen = rd.seen /\ n1.received = rd.received /\ "v0" \in Verifiers
    BY <2>1 DEF BitEffect, Verifiers
  <2>3. QED
    BY <1>9, <2>1, <2>2
<1>11. CASE SeesOp(e, rd, n, N)
  <2>1. PICK n1 \in RoundType :
          /\ SeeingEffect(n1, rd, e) /\ ReportEffect(n, n1, e.round, e.who, FALSE)
          /\ e.kind \in {"commitment", "answer"} /\ e.who \in Verifiers
          /\ ReportsLeft(N, e.when, e.who, e.round, Reports(e.who, n1, FALSE))
    BY <1>11 DEF SeesOp
  <2>2. /\ \A w \in Verifiers : n1.seen[w].report = rd.seen[w].report
        /\ n1.received = rd.received
    BY <2>1 DEF SeeingEffect
  <2>3. QED
    BY <1>9, <2>1, <2>2
<1>12. CASE ReceivedOp(e, rd, n, N)
  <2>1. n.seen = rd.seen /\ n.received = rd.received \union {e.who} /\ N = {}
    BY <1>12 DEF ReceivedOp, ReceivedEffect
  <2>2. ASSUME NEW v \in Verifiers, Underway(v, r, rd, E) PROVE Underway(v, r, n, E1)
    BY <2>1, <2>2 DEF Underway, ReportOfV
  <2>3. QED
    BY <2>1, <2>2 DEF Heard, FinalIn
<1>13. CASE ForcedOp(e, rd, n, N)
  <2>1. PICK n1 \in RoundType :
          /\ ReportEffect(n1, rd, e.round, "v0", TRUE) /\ ReportEffect(n, n1, e.round, "v1", TRUE)
          /\ e.kind = "timeout"
          /\ \E P0, P1 : \E x \in FinalsAt(e.when, e.round) :
               /\ ReportsLeft(P0, e.when, "v0", e.round, Reports("v0", rd, TRUE))
               /\ ReportsLeft(P1, e.when, "v1", e.round, Reports("v1", n1, TRUE))
               /\ N = P0 \union P1 \union {x}
    BY <1>13 DEF ForcedOp
  <2>2. PICK P0, P1 :
          /\ ReportsLeft(P0, e.when, "v0", e.round, Reports("v0", rd, TRUE))
          /\ ReportsLeft(P1, e.when, "v1", e.round, Reports("v1", n1, TRUE))
          /\ P0 \in SUBSET N /\ P1 \in SUBSET N
    BY <2>1
  <2>3. /\ n.received = rd.received /\ "v0" \in Verifiers /\ "v1" \in Verifiers
        /\ n1.seen["v1"].report = rd.seen["v1"].report
    BY <2>1 DEF ReportEffect, Verifiers
  <2>4. ASSUME NEW v \in Verifiers, rd.seen[v].report # None PROVE Underway(v, r, n, E1)
    <3>1. Underway(v, r, rd, E)
      BY <2>4 DEF Heard
    <3>2. QED
      BY <1>7, <2>1, <2>3, <3>1
  <2>5. Underway("v0", r, n, E1)
    <3>1. CASE rd.seen["v0"].report = None
      <4>1. Reports("v0", rd, TRUE)
        BY <3>1 DEF Reports
      <4>2. QED
        BY <1>8, <2>1, <2>2, <2>3, <4>1
    <3>2. QED
      BY <2>3, <2>4, <3>1
  <2>6. Underway("v1", r, n, E1)
    <3>1. CASE rd.seen["v1"].report = None
      <4>1. Reports("v1", n1, TRUE)
        BY <2>3, <3>1 DEF Reports
      <4>2. QED
        BY <1>8, <2>1, <2>2, <2>3, <4>1
    <3>2. QED
      BY <2>3, <2>4, <3>1
  <2>7. QED
    BY <2>5, <2>6 DEF Heard, Verifiers
<1>14. QED
  BY <1>2, <1>3, <1>4, <1>5, <1>6, <1>10, <1>11, <1>12, <1>13 DEF Op

\* What is decided stays decided, and an exception is the last event.
LEMMA StepDecides ==
  ASSUME TypeOK, NEW e \in queue, DeviceStep(e) \/ ProtocolStep(e) \/ DecisionStep(e),
         status' \notin Errors
  PROVE  /\ status \notin Errors
         /\ \A q \in Rounds : completed[q] => completed'[q]
<1>1. /\ e.round \in Rounds /\ completed \in [Rounds -> BOOLEAN]
  BY TypesOfEvent DEF TypeOK
<1>2. status \notin Errors
  BY StepIsFirst DEF Errors
<1>3. CASE UNCHANGED completed
  BY <1>2, <1>3
<1>4. ASSUME completed' = [completed EXCEPT ![e.round] = TRUE]
      PROVE  \A q \in Rounds : completed[q] => completed'[q]
  BY <1>1, <1>4
<1>5. CASE DeviceStep(e) \/ ProtocolStep(e)
  BY <1>3, <1>5 DEF DeviceStep, ProtocolStep, PairReady, PairReadyRaises, PairFails, PhotonArrives,
     DetectionDone, GateCloses, LoadDone, LoadFails, Expire, RetrieveDone, ProverMeasured,
     V0Measured, StartRound, StartRoundRaises, SendChallenge, InterceptDone, SendReplacement,
     SendBasis, BasisArrives, VerifierReceives, RoundTimesOut, Resolved, Passes, Commit, Raise,
     decisionVars
<1>6. CASE DecisionStep(e)
  BY <1>2, <1>3, <1>4, <1>6 DEF DecisionStep, RejectPlan, ReportArrives, FinalTimesOut, Finalize
<1>7. QED
  BY <1>5, <1>6

AllHeard ==
  status \notin Errors =>
    \A r \in Rounds : ~completed[r] => Heard(r, round[r], Pending(r))

LEMMA StepHeard ==
  ASSUME EveryReportPrompt, TypeOK, Agenda, MemInv, RuntimeTypes, AllHeard,
         NEW e \in queue, DeviceStep(e) \/ ProtocolStep(e) \/ DecisionStep(e)
  PROVE  AllHeard'
<1> SUFFICES ASSUME status' \notin Errors, NEW q \in Rounds, ~completed'[q]
             PROVE  Heard(q, round[q], Pending(q))'
  BY DEF AllHeard
<1> DEFINE r == e.round
           rd == round[r]
           E == Pending(r)
           u == Unresolved(r)
           u1 == Unresolved(r)'
<1>1. PICK n, N : Moves(e, n, N)
  BY StepMoves
<1>2. /\ r \in Rounds /\ config' = config /\ config \in Configs /\ e.when \in Int
      /\ rd \in RoundType /\ IsFirst(e, queue)
  BY StepIsFirst, TypesOfEvent DEF RuntimeTypes, TypeOK
<1>3. status \notin Errors /\ ~completed[q]
  BY StepDecides
<1>4. Heard(q, round[q], Pending(q))
  BY <1>3 DEF AllHeard
<1>5. ASSUME NEW n1, NEW E1, Heard(q, n1, E1), round'[q] = n1, Pending(q)' = E1
      PROVE  Heard(q, round[q], Pending(q))'
  <2>1. FinalTimeoutAt(config, q)' = FinalTimeoutAt(config, q)
    BY <1>2
  <2>2. QED
    BY <1>5, <2>1 DEF Heard, FinalIn, Underway
<1>6. CASE q # r
  BY <1>1, <1>4, <1>5, <1>6 DEF Moves
<1>7. CASE q = r
  <2> DEFINE E1 == (E \ {e}) \union N
  <2>1. /\ n \in RoundType /\ round'[q] = n /\ e \in E /\ Pending(q)' = E1
        /\ Op(e, rd, n, N, u, u1)
    BY <1>1, <1>7 DEF Moves
  <2>2. u \in BOOLEAN /\ u1 \in BOOLEAN
    BY DEF Unresolved
  <2>3. e.kind = "start" \/ FinalIn(E) \/ e.when <= RoundTimeoutAt(config, r)
    <3> SUFFICES ASSUME e.kind # "start", ~FinalIn(E) PROVE e.when <= RoundTimeoutAt(config, r)
      OBVIOUS
    <3>1. started[r]
      BY DEF Agenda, StartsAreAhead
    <3>2. PICK x \in queue : x.kind \in {"timeout", "final"} /\ x.round = r
      BY <1>2, <1>3, <1>7, <3>1 DEF Agenda, NothingIsForgotten
    <3>3. x.kind = "timeout"
      BY <3>2 DEF FinalIn, Pending
    <3>4. x.when = RoundTimeoutAt(config, r)
      BY <3>2, <3>3 DEF Agenda, TimersAreSet
    <3>5. x = e \/ Before(e, x)
      BY <1>2 DEF IsFirst
    <3>6. x.when \in Int
      BY TypesOfEvent DEF TypeOK
    <3>7. QED
      BY <1>2, <3>4, <3>5, <3>6 DEF Before
  <2>4. Heard(r, rd, E)
    BY <1>4, <1>7
  <2> HIDE DEF rd, E, u, u1
  <2>5. Heard(r, n, (E \ {e}) \union N)
    BY ONLY <1>2, <2>1, <2>2, <2>3, <2>4, EveryReportPrompt, HeardKept
  <2> HIDE DEF E1
  <2>6. QED
    BY <1>5, <1>7, <2>1, <2>5 DEF E1
<1>8. QED
  BY <1>6, <1>7

LEMMA NextHeard ==
  ASSUME EveryReportPrompt, TypeOK, Agenda, MemInv, RuntimeTypes, AllHeard, [Next]_vars
  PROVE  AllHeard'
<1>1. CASE Step
  BY <1>1, StepHeard DEF Step
<1>2. CASE Finish \/ UNCHANGED vars
  <2>1. UNCHANGED <<config, queue, round, completed>> /\ (status' \notin Errors => status \notin Errors)
    BY <1>2 DEF Finish, vars, schedulerVars, deviceVars, decisionVars, Errors
  <2>2. QED
    BY <2>1 DEF AllHeard, Heard, FinalIn, Underway, Pending
<1>3. QED
  BY <1>1, <1>2 DEF Next, Over

LEMMA InitHeard == ASSUME Init PROVE AllHeard
<1> SUFFICES ASSUME NEW r \in Rounds PROVE Heard(r, round[r], Pending(r))
  BY DEF AllHeard
<1>1. round[r] = FreshRound /\ \A v \in Verifiers : FreshRound.seen[v].report = None
  BY DEF Init, FreshRound, NoObservation
<1>2. \A x \in Pending(r) : x.kind = "start"
  BY InitialEvents DEF Pending
<1>3. QED
  BY <1>1, <1>2 DEF Heard, FinalIn

LEMMA SessionHeard ==
  ASSUME EveryReportPrompt
  PROVE  Spec => []AllHeard
<1>1. Init => AllHeard
  BY InitHeard
<1>2. TypeOK /\ Agenda /\ MemInv /\ RuntimeTypes /\ AllHeard /\ [Next]_vars => AllHeard'
  BY NextHeard
<1>3. QED
  BY <1>1, <1>2, SessionTypes, SessionAgenda, SessionMemory, SessionRuntime, PTL DEF Spec

MissingReport == <<"missing_verifier_report">>

LEMMA TwoVerifiers == Cardinality(Verifiers) = 2
<1>1. IsFiniteSet({"v0"}) /\ Cardinality({"v0"}) = 1
  BY FS_Singleton
<1>2. Cardinality({"v0"} \union {"v1"}) = Cardinality({"v0"}) + 1
  BY <1>1, FS_AddElement
<1>3. QED
  BY <1>1, <1>2 DEF Verifiers

LEMMA NothingMissing ==
  ASSUME NEW rd, rd.received = Verifiers
  PROVE  MissingReport \notin Reasons(rd)
<1>1. ASSUME NEW reason, NEW V PROVE MissingReport \notin For(reason, V)
  BY DEF For, MissingReport
<1>2. DOMAIN ReceivedReports(rd) = Verifiers
  BY DEF ReceivedReports
<1>3. ~(Cardinality(Verifiers) < 2)
  BY TwoVerifiers
<1>4. MissingReport \notin BaselineReasons(ReceivedReports(rd))
  BY <1>1, <1>2, <1>3 DEF BaselineReasons
<1>5. MissingReport \notin SecurityReasons(ReceivedReports(rd), config.uncertainty)
  BY <1>1, <1>4 DEF SecurityReasons
<1>6. QED
  BY <1>4, <1>5 DEF Reasons

\* When a round is decided both reports are in.
LEMMA DecidedHeard ==
  ASSUME TypeOK, RuntimeTypes, Agenda, AllHeard, NEW e \in queue,
         DeviceStep(e) \/ ProtocolStep(e) \/ DecisionStep(e), NEW x, Adds(e, x)
  PROVE  MissingReport \notin x.reasons
<1> DEFINE r == e.round
<1>1. CASE x = RejectedResult(r, PreflightReasons(r))
  <2>1. x.reasons = PreflightReasons(r)
    BY <1>1 DEF RejectedResult
  <2>2. MissingReport \notin PreflightReasons(r)
    BY DEF PreflightReasons, ScheduleReasons, For, MissingReport
  <2>3. QED
    BY <2>1, <2>2
<1>2. CASE x = RoundResult(r, round'[r]) /\ round'[r].received = Verifiers
  <2>1. x.reasons = Reasons(round'[r])
    BY <1>2 DEF RoundResult
  <2>2. QED
    BY <1>2, <2>1, NothingMissing
<1>3. CASE e.kind = "final" /\ ~completed[r] /\ UNCHANGED round
  <2>1. /\ status \notin Errors /\ r \in Rounds /\ IsFirst(e, queue)
        /\ round[r].received \subseteq Verifiers
    BY StepDecides, StepIsFirst, TypesOfEvent DEF Adds, RuntimeTypes, RoundType
  <2>2. Heard(r, round[r], Pending(r)) /\ FinalIn(Pending(r))
    BY <1>3, <2>1 DEF AllHeard, FinalIn, Pending
  <2>3. ASSUME NEW v \in Verifiers, v \notin round[r].received PROVE FALSE
    <3>1. PICK y \in Pending(r) : ReportOfV(y, v) /\ y.when < FinalTimeoutAt(config, r)
      BY <2>2, <2>3 DEF Heard, Underway
    <3>2. y \in queue \ {e} /\ y.when \in Int /\ e.when \in Int
      BY <1>3, <3>1, TypesOfEvent DEF Pending, ReportOfV, TypeOK
    <3>3. e.when = FinalTimeoutAt(config, r)
      BY <1>3 DEF Agenda, TimersAreSet
    <3>4. Before(e, y)
      BY <2>1, <3>2 DEF IsFirst
    <3>5. QED
      BY <3>1, <3>2, <3>3, <3>4 DEF Before
  <2>4. round'[r].received = Verifiers
    BY <1>3, <2>1, <2>3
  <2>5. QED
    BY <1>1, <1>2, <2>4 DEF Adds
<1>4. QED
  BY <1>1, <1>2, <1>3 DEF Adds

\* No round is decided while a report is missing, provided that no report is
\* lost or held back (_on_round_timeout, _on_final_timeout).
THEOREM ReportsHeard ==
  ASSUME EveryReportPrompt
  PROVE  Spec => []ReportsAreHeard
<1>1. Init => ReportsAreHeard
  BY DEF Init, ReportsAreHeard
<1>2. ASSUME TypeOK, RuntimeTypes, Agenda, Books, AllHeard, ReportsAreHeard, [Next]_vars
      PROVE  ReportsAreHeard'
  <2>1. CASE Finish \/ UNCHANGED vars
    BY <1>2, <2>1 DEF Finish, vars, decisionVars, ReportsAreHeard
  <2>2. ASSUME NEW e \in queue, DeviceStep(e) \/ ProtocolStep(e) \/ DecisionStep(e)
        PROVE  ReportsAreHeard'
    <3>1. CASE UNCHANGED results
      BY <1>2, <3>1 DEF ReportsAreHeard
    <3>2. ASSUME NEW x, Adds(e, x) PROVE ReportsAreHeard'
      <4> DEFINE R == {results[i] : i \in DOMAIN results}
                 n == Len(results)
      <4>1. results \in Seq(R) /\ results' = Append(results, x)
        BY <1>2, <3>2 DEF Books, Adds
      <4>2. /\ DOMAIN results = 1 .. n /\ DOMAIN results' = 1 .. n + 1 /\ n \in Nat
            /\ \A i \in 1 .. n : results'[i] = results[i]
            /\ results'[n + 1] = x
        BY <4>1, AppendedBook
      <4>3. MissingReport \notin x.reasons
        BY <1>2, <2>2, <3>2, DecidedHeard
      <4>4. ASSUME NEW i \in 1 .. n + 1 PROVE MissingReport \notin results'[i].reasons
        <5>1. CASE i \in 1 .. n
          BY <1>2, <4>2, <5>1 DEF ReportsAreHeard, MissingReport
        <5>2. CASE i = n + 1
          BY <4>2, <4>3, <5>2
        <5>3. i \in 1 .. n \/ i = n + 1
          BY <4>2
        <5>4. QED
          BY <5>1, <5>2, <5>3
      <4>5. QED
        BY <4>2, <4>4 DEF ReportsAreHeard, MissingReport
    <3>3. QED
      BY <1>2, <2>2, <3>1, <3>2, StepAdds
  <2>3. QED
    BY <1>2, <2>1, <2>2 DEF Next, Over, Step
<1>3. QED
  BY <1>1, <1>2, SessionTypes, SessionRuntime, SessionAgenda, SessionBooks, SessionHeard, PTL
     DEF Spec

-----------------------------------------------------------------------------
(* The verdict on a session follows from its rounds. *)

LEMMA ResultsAreFinite == ASSUME Books PROVE IsFiniteSet(DOMAIN results)
<1> DEFINE n == Len(results)
<1>1. DOMAIN results = 1 .. n /\ n \in Nat
  BY DEF Books
<1> HIDE DEF n
<1>2. QED
  BY <1>1, FS_Interval

LEMMA ResultOfEveryRound ==
  ASSUME Books, \A r \in Rounds : completed[r]
  PROVE  NumRounds <= Cardinality(DOMAIN results) /\ Cardinality(DOMAIN results) \in Nat
<1> DEFINE D == DOMAIN results
           f == [r \in Rounds |-> CHOOSE i \in D : results[i].round = r]
<1>1. NumRounds \in Nat /\ NumRounds > 0
  BY SessionAssumption
<1>2. IsFiniteSet(Rounds) /\ Cardinality(Rounds) = NumRounds
  BY <1>1, FS_Interval DEF Rounds
<1>3. IsFiniteSet(D) /\ Cardinality(D) \in Nat
  BY ResultsAreFinite, FS_CardinalityType
<1>4. \A r \in Rounds : f[r] \in D /\ results[f[r]].round = r
  BY DEF Books
<1>5. f \in [Rounds -> D]
  BY <1>4
<1> HIDE DEF f
<1>6. ASSUME Cardinality(D) < Cardinality(Rounds) PROVE FALSE
  <2>1. PICK x, y \in Rounds : x # y /\ f[x] = f[y]
    BY <1>2, <1>3, <1>5, <1>6, FS_PigeonHole
  <2>2. QED
    BY <1>4, <2>1
<1> HIDE DEF D
<1>7. NumRounds <= Cardinality(D)
  BY <1>1, <1>2, <1>3, <1>6
<1>8. QED
  BY <1>3, <1>7 DEF D

LEMMA Counted ==
  ASSUME Books, NEW S \in SUBSET DOMAIN results
  PROVE  IsFiniteSet(S) /\ Cardinality(S) \in Nat
BY ResultsAreFinite, FS_Subset, FS_CardinalityType

\* A session whose compared rounds all disagree is refused, unless every error is tolerated.
LEMMA AcceptedHasProven ==
  ASSUME Books, TrueResults, NEW th \in Thresholds, SessionAccepted(th), th.maximumQber < 100
  PROVE  \E i \in DOMAIN results : Proven(results[i])
<1> SUFFICES ASSUME \A i \in DOMAIN results : ~Proven(results[i]) PROVE FALSE
  OBVIOUS
<1> DEFINE C == {i \in DOMAIN results : results[i].match # None}
           M == {i \in DOMAIN results : results[i].match = FALSE}
           k == Cardinality(C)
           m == th.maximumQber
<1>1. Compared = Cardinality(C) /\ Mismatches = Cardinality(M)
  BY DEF Compared, Mismatches, Quantify
<1>2. M = C
  <2>1. ASSUME NEW i \in DOMAIN results
        PROVE  results[i].match # None <=> results[i].match = FALSE
    <3>1. /\ results[i].match \in Opt(BOOLEAN)
          /\ results[i].match = TRUE => Proven(results[i])
      BY DEF TrueResults, ResultFacts
    <3>2. None # FALSE
      BY SessionAssumption
    <3>3. QED
      BY <3>1, <3>2 DEF Opt
  <2>2. QED
    BY <2>1
<1>3. k \in Nat
  BY Counted
<1>4. m \in 0 .. 100
  BY ThresholdsAssumption
<1>5. ~QberExceeds(m)
  BY DEF SessionAccepted, SessionReasons
<1>6. Compared = k /\ Mismatches = k
  BY <1>1, <1>2
<1> HIDE DEF C, M, k
<1>7. k # 0 /\ ~(100 * k > m * k)
  BY <1>4, <1>5, <1>6 DEF QberExceeds
<1> HIDE DEF m
<1>8. ASSUME NEW a \in Nat, NEW b \in 0 .. 100, a # 0, b < 100 PROVE 100 * a > b * a
  <2>1. (100 - b) * a = 100 * a - b * a
    OBVIOUS
  <2>2. (100 - b) * a > 0
    BY <1>8
  <2>3. QED
    BY <2>1, <2>2
<1>9. m < 100
  BY DEF m
<1>10. QED
  BY <1>3, <1>4, <1>7, <1>8, <1>9

\* A session all of whose rounds were accepted, compared and committed in time
\* passes every threshold.
LEMMA GoodRoundsAccepted ==
  ASSUME config \in Configs, Books, TrueResults, MatchedResults,
         \A r \in Rounds : completed[r], NEW th \in Thresholds, Unforged, Tolerance = 0,
         \A i \in DOMAIN results : /\ results[i].accepted /\ results[i].match # None
                                    /\ results[i].margins["commitment"] >= 0
  PROVE  SessionAccepted(th)
<1> DEFINE D == DOMAIN results
           n == Cardinality(D)
<1>1. /\ NumRounds <= n /\ n \in Nat /\ NumRounds \in Nat /\ NumRounds > 0
  BY ResultOfEveryRound, SessionAssumption
<1>2. th.minimumCommitted \in 0 .. NumRounds /\ th.maximumQber \in 0 .. 100 /\ th.maximumViolations \in Nat
  BY ThresholdsAssumption
<1>3. ASSUME NEW i \in D
      PROVE  /\ results[i].committed /\ results[i].match = TRUE /\ results[i].match # FALSE
             /\ \A f \in MarginNames : LET margin == results[i].margins[f] IN
                  margin \in Opt(Int) /\ (margin # None => margin >= 0)
  <2>1. /\ results[i].accepted /\ results[i].match # None /\ results[i].match # FALSE
        /\ results[i].margins["commitment"] >= 0
    BY DEF MatchedResults
  <2>2. /\ Happened(results[i]) /\ results[i].match \in Opt(BOOLEAN)
        /\ results[i].margins \in [MarginNames -> Opt(Int)]
    BY <2>1 DEF TrueResults, ResultFacts
  <2>3. \A v \in Verifiers : results[i].margins[v] >= -Tolerance
    BY <2>2 DEF Happened
  <2>4. ASSUME NEW x \in Int, NEW t, t = 0, x >= -t PROVE x >= 0
    BY <2>4
  <2>5. \A v \in Verifiers : results[i].margins[v] \in Int => results[i].margins[v] >= 0
    BY <2>3, <2>4
  <2>6. \A f \in MarginNames :
          /\ results[i].margins[f] \in Opt(Int)
          /\ results[i].margins[f] # None => results[i].margins[f] >= 0
    BY <2>1, <2>2, <2>5 DEF MarginNames, Verifiers, Opt
  <2>7. results[i].committed
    BY <2>2 DEF Happened
  <2>8. results[i].match = TRUE
    BY <2>1, <2>2 DEF Opt
  <2>9. QED
    BY <2>1, <2>2, <2>6, <2>7, <2>8
<1>4. Committed = n
  <2>1. Committed = Cardinality({i \in D : results[i].committed})
    BY DEF Committed, Quantify
  <2>2. {i \in D : results[i].committed} = D
    BY <1>3
  <2>3. QED
    BY <2>1, <2>2
<1>5. Compared = n
  <2>1. Compared = Cardinality({i \in D : results[i].match # None})
    BY DEF Compared, Quantify
  <2>2. {i \in D : results[i].match # None} = D
    OBVIOUS
  <2>3. QED
    BY <2>1, <2>2
<1>6. Mismatches = 0
  <2>1. Mismatches = Cardinality({i \in D : results[i].match = FALSE})
    BY DEF Mismatches, Quantify
  <2>2. {i \in D : results[i].match = FALSE} = {}
    BY <1>3
  <2>3. QED
    BY <2>1, <2>2, FS_EmptySet
<1>7. Violations = 0
  <2> DEFINE late(p) == LET margin == results[p[1]].margins[p[2]] IN margin # None /\ margin < 0
  <2>1. ASSUME NEW p \in D \X MarginNames PROVE ~late(p)
    <3>1. p[1] \in D /\ p[2] \in MarginNames
      OBVIOUS
    <3> DEFINE margin == results[p[1]].margins[p[2]]
    <3>2. margin \in Opt(Int) /\ (margin # None => margin >= 0)
      BY <1>3, <3>1
    <3> HIDE DEF margin
    <3>3. ~(margin # None /\ margin < 0)
      BY <3>2 DEF Opt
    <3>4. QED
      BY <3>3 DEF margin
  <2>2. {p \in D \X MarginNames : late(p)} = {}
    BY <2>1
  <2>3. Violations = Cardinality({p \in D \X MarginNames : late(p)})
    BY DEF Violations
  <2>4. QED
    BY <2>2, <2>3, FS_EmptySet
<1> HIDE DEF n, D
<1>8. ~(Committed < th.minimumCommitted)
  BY <1>1, <1>2, <1>4
<1>9. ~QberExceeds(th.maximumQber)
  <2>1. ASSUME NEW a \in Nat, NEW b \in 0 .. 100 PROVE ~(100 * 0 > b * a)
    <3>1. b * a >= 0
      OBVIOUS
    <3>2. QED
      BY <3>1
  <2>2. Compared # 0
    BY <1>1, <1>5
  <2>3. QED
    BY <1>1, <1>2, <1>5, <1>6, <2>1, <2>2 DEF QberExceeds
<1>10. ~(Violations > th.maximumViolations)
  BY <1>2, <1>7
<1>11. QED
  BY <1>8, <1>9, <1>10 DEF SessionAccepted, SessionReasons

\* The half of SessionFollowsItsRounds that needs no hypothesis, at any time.
AcceptedSessionsAreProven ==
  \A th \in Thresholds :
    SessionAccepted(th) /\ th.maximumQber < 100 => \E i \in DOMAIN results : Proven(results[i])

\* No configuration, loss or delay makes an accepted session out of rounds none
\* of which is proven, unless every error is tolerated (aggregate_session).
THEOREM SessionsAreProven == Spec => []AcceptedSessionsAreProven
<1>1. Books /\ TrueResults => AcceptedSessionsAreProven
  BY AcceptedHasProven DEF AcceptedSessionsAreProven
<1>2. QED
  BY <1>1, SessionBooks, SessionResults, PTL

\* The verdict on a session follows from what its rounds measured and when,
\* provided that the plan leaves room for every round and that v0 reads its
\* half before it can hear the prover's answer (aggregate_session).
THEOREM VerdictFollowsRounds ==
  ASSUME AllGeometric, V0AlwaysFirst
  PROVE  Spec => []SessionFollowsItsRounds
<1>1. TypeOK /\ Books /\ TrueResults /\ MatchedResults /\ FinishedMeansDecided
      => SessionFollowsItsRounds
  <2> SUFFICES ASSUME TypeOK, Books, TrueResults, MatchedResults, FinishedMeansDecided,
                      status = "finished", NEW th \in Thresholds
               PROVE  /\ SessionAccepted(th) /\ th.maximumQber < 100 =>
                           \E i \in DOMAIN results : Proven(results[i])
                      /\ (/\ Unforged /\ Tolerance = 0
                          /\ \A i \in DOMAIN results :
                               LET result == results[i] IN
                               /\ result.accepted /\ result.match # None
                               /\ result.margins["commitment"] >= 0)
                           => SessionAccepted(th)
    BY DEF SessionFollowsItsRounds
  <2>1. (\A r \in Rounds : completed[r]) /\ config \in Configs
    BY DEF FinishedMeansDecided, TypeOK
  <2>2. SessionAccepted(th) /\ th.maximumQber < 100 => \E i \in DOMAIN results : Proven(results[i])
    BY AcceptedHasProven
  <2>3. (/\ Unforged /\ Tolerance = 0
         /\ \A i \in DOMAIN results : /\ results[i].accepted /\ results[i].match # None
                                       /\ results[i].margins["commitment"] >= 0)
        => SessionAccepted(th)
    BY <2>1, GoodRoundsAccepted
  <2>4. QED
    BY <2>2, <2>3
<1>2. QED
  BY <1>1, SessionTypes, SessionBooks, SessionResults, SessionMatched, FinishedSessions, PTL
=============================================================================
