-------------------------- MODULE QpvSessionProofs --------------------------
(***************************************************************************)
(* What holds of a session for every configuration and number of rounds.   *)
(***************************************************************************)
EXTENDS QpvProperties, TLAPS, SequenceTheorems

-----------------------------------------------------------------------------
(* The timing arithmetic of a plan.                                        *)

LEMMA LeadType == Lead \in Nat
BY SMT DEF Lead

LEMMA PeriodStep ==
  ASSUME NEW P \in Nat, NEW i \in Nat
  PROVE  (i + 1) * P = i * P + P /\ i * P \in Nat
BY SMT

\* The integers the arithmetic below is about.
LEMMA TimingTypes ==
  ASSUME NEW c, TimingConfig(c)
  PROVE  /\ c.initialStart \in Nat /\ c.c2b \in Nat /\ c.slack \in Nat
         /\ c.cleanup \in Nat /\ c.qGeo \in Nat /\ c.qLink \in Nat
         /\ c.epr \in Nat /\ c.qnd \in Nat /\ c.load["prover"] \in Nat
         /\ c.retrieve["prover"] \in Nat /\ c.switch["prover"] \in Nat
         /\ c.measure["prover"] \in Nat
         /\ \A v \in Verifiers :
              /\ c.geo[v]["prover"] \in Nat /\ c.geo[v]["controller"] \in Nat
              /\ ClassicalDelay(c, v, "prover") \in Nat
              /\ ClassicalDelay(c, v, "controller") \in Nat
              /\ ClassicalDelay(c, "prover", v) \in Nat
BY SMT DEF TimingConfig, ClassicalDelay, Verifiers, Holders

LEMMA PeriodType ==
  ASSUME NEW c, TimingConfig(c)
  PROVE  RoundPeriod(c) \in Nat
BY TimingTypes, LeadType, SMT DEF RoundPeriod, Larger, Verifiers

LEMMA NextRoundStart ==
  ASSUME NEW c, TimingConfig(c), NEW i \in Nat
  PROVE  /\ RoundStartAt(c, i) \in Nat
         /\ RoundStartAt(c, i + 1) = RoundStartAt(c, i) + RoundPeriod(c)
<1>1. RoundPeriod(c) \in Nat /\ c.initialStart \in Nat
  BY PeriodType, TimingTypes
<1>2. (i + 1) * RoundPeriod(c) = i * RoundPeriod(c) + RoundPeriod(c)
      /\ i * RoundPeriod(c) \in Nat
  BY <1>1, PeriodStep
<1>3. QED
  BY <1>1, <1>2, SMT DEF RoundStartAt

LEMMA LeadPositive == Lead > 0
BY SMT DEF Lead

LEMMA PeriodPositive ==
  ASSUME NEW c, TimingConfig(c)
  PROVE  RoundPeriod(c) > 0
BY TimingTypes, LeadType, SMTT(30) DEF RoundPeriod, Larger, Verifiers

LEMMA ProductIsMonotone ==
  ASSUME NEW P \in Nat, NEW i \in Nat, NEW j \in Nat, i <= j
  PROVE  i * P <= j * P
<1>1. PICK k \in Nat : j = i + k
  BY SMT
<1>2. j * P = i * P + k * P /\ k * P >= 0 /\ i * P \in Nat
  BY <1>1, SMT
<1>3. QED
  BY <1>2, SMT

\* Round starts are in the order of the rounds.
LEMMA StartsInOrder ==
  ASSUME NEW c, TimingConfig(c), NEW i \in Nat, NEW j \in Nat, i < j
  PROVE  RoundStartAt(c, i + 1) <= RoundStartAt(c, j) /\ RoundStartAt(c, i) < RoundStartAt(c, j)
<1>1. (i + 1) * RoundPeriod(c) <= j * RoundPeriod(c)
  BY PeriodType, ProductIsMonotone
<1>2. /\ (i + 1) * RoundPeriod(c) \in Nat /\ j * RoundPeriod(c) \in Nat
      /\ c.initialStart \in Nat /\ RoundPeriod(c) \in Nat
  BY PeriodType, PeriodStep, TimingTypes
<1>3. RoundStartAt(c, i + 1) <= RoundStartAt(c, j)
  BY <1>1, <1>2, SMT DEF RoundStartAt
<1>4. RoundStartAt(c, i) < RoundStartAt(c, i + 1)
  BY <1>2, NextRoundStart, PeriodPositive
<1>5. QED
  BY <1>3, <1>4, NextRoundStart

LEMMA ChallengeType ==
  ASSUME NEW c, TimingConfig(c), NEW i \in Nat
  PROVE  ChallengeAt(c, i) \in Int
<1>1. /\ RoundStartAt(c, i) \in Nat /\ c.epr \in Nat /\ c.c2b \in Nat /\ Lead \in Nat
      /\ ClassicalDelay(c, "v0", "prover") \in Nat
      /\ ClassicalDelay(c, "v1", "prover") \in Nat
  BY NextRoundStart, LeadType, TimingTypes DEF Verifiers
<1>2. Larger(ClassicalDelay(c, "v0", "prover"), ClassicalDelay(c, "v1", "prover")) \in Nat
  BY <1>1 DEF Larger
<1>3. QED
  BY <1>1, <1>2 DEF ChallengeAt

\* The times of a round's plan.
LEMMA PlanTypes ==
  ASSUME NEW c, TimingConfig(c), NEW i \in Nat
  PROVE  /\ \A v \in Verifiers : BasisSendAt(c, i, v) \in Int /\ AnswerDeadline(c, i, v) \in Int
         /\ RoundTimeoutAt(c, i) \in Int /\ FinalDelay(c) \in Nat
<1>1. ChallengeAt(c, i) \in Int
  BY ChallengeType
<1>2. BasisArrivalAt(c, i) \in Int
  BY <1>1, TimingTypes DEF BasisArrivalAt
<1>3. ASSUME NEW v \in Verifiers PROVE BasisSendAt(c, i, v) \in Int
  <2>1. ClassicalDelay(c, v, "prover") \in Nat
    BY TimingTypes
  <2>2. QED
    BY <1>2, <2>1 DEF BasisSendAt
<1>4. ASSUME NEW v \in Verifiers PROVE AnswerDeadline(c, i, v) \in Int
  <2>1. /\ ClassicalDelay(c, "prover", v) \in Nat /\ c.slack \in Nat
        /\ c.retrieve["prover"] \in Nat /\ c.switch["prover"] \in Nat
        /\ c.measure["prover"] \in Nat
    BY TimingTypes
  <2>2. QED
    BY <1>2, <2>1 DEF AnswerDeadline
<1>5. ControllerDelay(c) \in Nat
  <2>1. ClassicalDelay(c, "v0", "controller") \in Nat /\ ClassicalDelay(c, "v1", "controller") \in Nat
    BY TimingTypes DEF Verifiers
  <2>2. QED
    BY <2>1 DEF ControllerDelay, Larger
<1>6. RoundTimeoutAt(c, i) \in Int
  <2>1. AnswerDeadline(c, i, "v0") \in Int /\ AnswerDeadline(c, i, "v1") \in Int /\ c.slack \in Nat
    BY <1>4, TimingTypes DEF Verifiers
  <2>2. Larger(AnswerDeadline(c, i, "v0"), AnswerDeadline(c, i, "v1")) \in Int
    BY <2>1 DEF Larger
  <2>3. QED
    BY <1>5, <2>1, <2>2 DEF RoundTimeoutAt
<1>7. FinalDelay(c) \in Nat
  BY <1>5 DEF FinalDelay
<1>8. QED
  BY <1>3, <1>4, <1>6, <1>7

\* A round times out after it starts.
LEMMA TimeoutAfterStart ==
  ASSUME NEW c, TimingConfig(c), NEW i \in Nat
  PROVE  RoundTimeoutAt(c, i) >= RoundStartAt(c, i)
<1> DEFINE start == RoundStartAt(c, i)
           p0 == ClassicalDelay(c, "v0", "prover")
           p1 == ClassicalDelay(c, "v1", "prover")
           a0 == AnswerDeadline(c, i, "v0")
           a1 == AnswerDeadline(c, i, "v1")
           l0 == ClassicalDelay(c, "prover", "v0")
<1>1. start \in Int /\ p0 \in Nat /\ p1 \in Nat /\ l0 \in Nat /\ a0 \in Int /\ a1 \in Int
  BY NextRoundStart, TimingTypes, PlanTypes DEF Verifiers
<1>2. /\ c.epr \in Nat /\ c.c2b \in Nat /\ c.qGeo \in Nat /\ c.slack \in Nat
      /\ c.retrieve["prover"] \in Nat /\ c.switch["prover"] \in Nat
      /\ c.measure["prover"] \in Nat
      /\ Lead \in Nat
  BY TimingTypes, LeadType
<1>3. ChallengeAt(c, i) \in Int /\ ChallengeAt(c, i) >= start
  <2>1. Larger(p0, p1) \in Nat
    BY <1>1 DEF Larger
  <2>2. ChallengeAt(c, i) = start + c.epr + c.c2b + Larger(p0, p1) + Lead
    BY DEF ChallengeAt
  <2> HIDE DEF start, p0, p1
  <2>3. QED
    BY <1>1, <1>2, <2>1, <2>2
<1> HIDE DEF start
<1>4. BasisArrivalAt(c, i) \in Int /\ BasisArrivalAt(c, i) >= start
  BY <1>1, <1>2, <1>3 DEF BasisArrivalAt
<1>5. a0 >= start
  <2>1. a0 = BasisArrivalAt(c, i) + c.retrieve["prover"] + c.switch["prover"]
               + c.measure["prover"] + l0 + c.slack
    BY DEF AnswerDeadline
  <2> HIDE DEF a0, l0
  <2>2. QED
    BY <1>1, <1>2, <1>4, <2>1
<1>6. ControllerDelay(c) \in Nat
  <2>1. ClassicalDelay(c, "v0", "controller") \in Nat /\ ClassicalDelay(c, "v1", "controller") \in Nat
    BY TimingTypes DEF Verifiers
  <2>2. QED
    BY <2>1 DEF ControllerDelay, Larger
<1>7. RoundTimeoutAt(c, i) = Larger(a0, a1) + ControllerDelay(c) + c.slack
  BY DEF RoundTimeoutAt
<1> HIDE DEF a0, a1
<1>8. Larger(a0, a1) \in Int /\ Larger(a0, a1) >= a0
  BY <1>1 DEF Larger
<1>9. RoundTimeoutAt(c, i) >= start
  BY <1>1, <1>2, <1>5, <1>6, <1>7, <1>8
<1>10. QED
  BY <1>9 DEF start

LEMMA LargerShift ==
  ASSUME NEW a \in Int, NEW b \in Int, NEW k \in Int, NEW l \in Int
  PROVE  /\ Larger(a, b) \in Int
         /\ Larger(k + a + l, k + b + l) = k + Larger(a, b) + l
BY SMT DEF Larger

\* With geometric links the final timeout of a round is due before the next
\* round starts, by exactly the detector's and the memory's latency and the
\* planning lead: estimate_round_period_ps covers the path of the forced
\* reports that its comment describes.
THEOREM RoundsDoNotOverlap ==
  ASSUME NEW c, TimingConfig(c), Geometric(c), NEW i \in Nat
  PROVE  FinalTimeoutAt(c, i) + c.qnd + c.load["prover"] + Lead = RoundStartAt(c, i + 1)
<1> DEFINE S == RoundStartAt(c, i)
           xp == c.geo["v0"]["prover"]
           yp == c.geo["v1"]["prover"]
           xc == c.geo["v0"]["controller"]
           yc == c.geo["v1"]["controller"]
           toP == Larger(xp, yp)
           toC == Larger(xc, yc)
           B   == S + c.epr + c.c2b + toP + Lead + c.qGeo + c.c2b
           work == c.retrieve["prover"] + c.switch["prover"] + c.measure["prover"]
<1>1. /\ ClassicalDelay(c, "v0", "prover") = xp
      /\ ClassicalDelay(c, "v1", "prover") = yp
      /\ ClassicalDelay(c, "prover", "v0") = xp
      /\ ClassicalDelay(c, "prover", "v1") = yp
      /\ ClassicalDelay(c, "v0", "controller") = xc
      /\ ClassicalDelay(c, "v1", "controller") = yc
  BY TimingTypes, SMT DEF Geometric, ClassicalDelay, Verifiers
<1>2. /\ S \in Nat /\ Lead \in Nat
      /\ xp \in Int /\ yp \in Int /\ xc \in Int /\ yc \in Int
      /\ toP \in Int /\ toC \in Int
  <2>1. S \in Nat /\ Lead \in Nat
    BY NextRoundStart, LeadType
  <2>2. xp \in Int /\ yp \in Int /\ xc \in Int /\ yc \in Int
    BY TimingTypes, SMT DEF Verifiers
  <2>3. toP \in Int /\ toC \in Int
    <3> HIDE DEF xp, yp, xc, yc
    <3> QED BY <2>2, SMT DEF Larger
  <2>4. QED
    BY <2>1, <2>2, <2>3
<1>3. RoundStartAt(c, i + 1) = S + RoundPeriod(c)
  BY NextRoundStart
<1>4. BasisArrivalAt(c, i) = B
  BY <1>1 DEF BasisArrivalAt, ChallengeAt
<1>5. B \in Int /\ work \in Int /\ c.slack \in Int
  BY <1>2, TimingTypes, SMT
<1>6. /\ AnswerDeadline(c, i, "v0") = (B + work) + xp + c.slack
      /\ AnswerDeadline(c, i, "v1") = (B + work) + yp + c.slack
  <2> HIDE DEF B
  <2> QED
    BY <1>1, <1>4, <1>5, <1>2, TimingTypes, SMT DEF AnswerDeadline
<1>7. Larger(AnswerDeadline(c, i, "v0"), AnswerDeadline(c, i, "v1"))
        = (B + work) + toP + c.slack
  <2> HIDE DEF B, work, toP
  <2>1. B + work \in Int
    BY <1>5, SMT
  <2>2. Larger((B + work) + xp + c.slack, (B + work) + yp + c.slack)
          = (B + work) + Larger(xp, yp) + c.slack
    <3> HIDE DEF xp, yp
    <3> QED BY <1>2, <1>5, <2>1, SMT DEF Larger
  <2>3. QED
    BY <1>6, <2>2 DEF toP
<1>8. ControllerDelay(c) = toC
  BY <1>1 DEF ControllerDelay
<1>9. FinalTimeoutAt(c, i) = ((B + work) + toP + c.slack) + toC + c.slack + (toC + 1)
  BY <1>7, <1>8 DEF FinalTimeoutAt, FinalDelay, RoundTimeoutAt
<1>10. RoundPeriod(c) = (c.c2b + toP + Lead) + c.epr + c.qGeo + c.c2b + c.qnd
         + c.load["prover"] + c.retrieve["prover"] + c.switch["prover"]
         + c.measure["prover"] + toP + 2 * c.slack + 2 * toC + Lead + 1
  BY DEF RoundPeriod
<1>11. /\ c.c2b \in Int /\ c.epr \in Int /\ c.qGeo \in Int /\ c.qnd \in Int
       /\ c.load["prover"] \in Int /\ c.retrieve["prover"] \in Int
       /\ c.switch["prover"] \in Int /\ c.measure["prover"] \in Int
       /\ c.slack \in Int
  BY TimingTypes, SMT
<1>12. QED
  <2> DEFINE c2b == c.c2b  epr == c.epr  q == c.qGeo  qnd == c.qnd  sl == c.slack
             ld == c.load["prover"]  rt == c.retrieve["prover"]
             sw == c.switch["prover"]  ms == c.measure["prover"]
  <2>1. /\ c2b \in Int /\ epr \in Int /\ q \in Int /\ qnd \in Int /\ sl \in Int
        /\ ld \in Int /\ rt \in Int /\ sw \in Int /\ ms \in Int
    BY <1>11
  <2>2. FinalTimeoutAt(c, i) = S + epr + c2b + toP + Lead + q + c2b
          + (rt + sw + ms) + toP + sl + toC + sl + (toC + 1)
    BY <1>9
  <2>3. RoundStartAt(c, i + 1) = S + ((c2b + toP + Lead) + epr + q + c2b + qnd
          + ld + rt + sw + ms + toP + 2 * sl + 2 * toC + Lead + 1)
    BY <1>3, <1>10
  <2> HIDE DEF S, toP, toC, c2b, epr, q, qnd, sl, ld, rt, sw, ms
  <2>4. FinalTimeoutAt(c, i) + qnd + ld + Lead = RoundStartAt(c, i + 1)
    BY <2>1, <2>2, <2>3, <1>2, SMT
  <2>5. QED
    BY <2>4 DEF qnd, ld
\* With geometric links both timeouts of a round are due before the next start.
COROLLARY TimersBeforeNextStart ==
  ASSUME NEW c, TimingConfig(c), Geometric(c), NEW i \in Nat
  PROVE  RoundTimeoutAt(c, i) < RoundStartAt(c, i + 1) /\ FinalTimeoutAt(c, i) < RoundStartAt(c, i + 1)
<1>1. FinalTimeoutAt(c, i) + c.qnd + c.load["prover"] + Lead = RoundStartAt(c, i + 1)
  BY RoundsDoNotOverlap
<1>2. /\ RoundTimeoutAt(c, i) \in Int /\ FinalDelay(c) \in Nat
      /\ c.qnd \in Nat /\ c.load["prover"] \in Nat /\ Lead \in Nat /\ Lead > 0
  BY PlanTypes, TimingTypes, LeadType, LeadPositive
<1>3. FinalTimeoutAt(c, i) = RoundTimeoutAt(c, i) + FinalDelay(c)
  BY DEF FinalTimeoutAt
<1> DEFINE final == FinalTimeoutAt(c, i)
           qnd == c.qnd
           load == c.load["prover"]
<1>4. final \in Int /\ RoundTimeoutAt(c, i) <= final
  BY <1>2, <1>3
<1>5. final + qnd + load + Lead = RoundStartAt(c, i + 1) /\ qnd \in Nat /\ load \in Nat
  BY <1>1, <1>2
<1> HIDE DEF final, qnd, load
<1>6. final < RoundStartAt(c, i + 1)
  BY <1>2, <1>4, <1>5
<1>7. QED
  BY <1>2, <1>4, <1>5, <1>6 DEF final

-----------------------------------------------------------------------------
(* The events a handler schedules. *)

\* The events any handler but those of round starts and timeouts may schedule
\* for round r.
FollowUpKinds == Kinds \ {"start", "timeout", "final"}

FollowUps(r) ==
  {e \in [when : Int, phase : Phases, seq : Nat, kind : FollowUpKinds, round : {r},
          who : Nodes, val : Nat] : e.who \in ActorsOf(e.kind)}

LEMMA EventIsFollowUp ==
  ASSUME NEW r, NEW w \in Int, NEW p \in Phases, NEW kind \in FollowUpKinds,
         NEW who \in ActorsOf(kind), NEW val \in Nat
  PROVE  Event(w, p, kind, r, who, val) \in FollowUps(r)
<1>1. who \in Nodes
  BY DEF ActorsOf, Nodes, Holders, Verifiers
<1>2. QED
  BY <1>1, SMT DEF Event, FollowUps

LEMMA RenumberedFollowUp ==
  ASSUME NEW r, NEW x \in FollowUps(r), NEW m \in Nat
  PROVE  [x EXCEPT !.seq = m] \in FollowUps(r)
<1> DEFINE y == [x EXCEPT !.seq = m]
<1>1. y.kind = x.kind /\ y.who = x.who
  BY DEF FollowUps
<1>2. y.who \in ActorsOf(y.kind)
  BY <1>1 DEF FollowUps
<1>3. QED
  BY <1>2 DEF FollowUps

LEMMA StampFollowUps ==
  ASSUME NEW r, NEW evs \in Seq(FollowUps(r)), NEW n \in Nat
  PROVE  Stamp(evs, n) \subseteq FollowUps(r)
<1> SUFFICES ASSUME NEW i \in DOMAIN evs
             PROVE  [evs[i] EXCEPT !.seq = n + i - 1] \in FollowUps(r)
  BY DEF Stamp
<1>1. i \in 1 .. Len(evs) /\ evs[i] \in FollowUps(r)
  BY LenProperties, ElementOfSeq
<1>2. n + i - 1 \in Nat
  BY <1>1, LenProperties, SMT
<1>3. QED
  BY <1>1, <1>2, RenumberedFollowUp

LEMMA CopiesAreFollowUps ==
  ASSUME NEW t \in Int, NEW s, NEW d,
         ClassicalDelay(config, s, d) \in Nat, config.sender[s][d] \in Nat,
         NEW kind \in MessageKinds, NEW r, NEW who \in Verifiers, NEW val \in Nat,
         NEW out \in Seq(Nat)
  PROVE  Copies(t, s, d, kind, r, who, val, out) \in Seq(FollowUps(r))
<1>1. Len(out) \in Nat /\ DOMAIN out = 1 .. Len(out)
  BY LenProperties
<1>2. \A i \in 1 .. Len(out) :
        Event(t + ClassicalDelay(config, s, d) + config.sender[s][d] + out[i],
              PhysicalArrival, kind, r, who, val) \in FollowUps(r)
  <2> TAKE i \in 1 .. Len(out)
  <2>1. out[i] \in Nat
    BY ElementOfSeq
  <2> DEFINE a == ClassicalDelay(config, s, d)
             b == config.sender[s][d]
             w == t + a + b + out[i]
  <2>2. a \in Nat /\ b \in Nat
    OBVIOUS
  <2>3. w \in Int
    <3> HIDE DEF a, b
    <3> QED BY <2>1, <2>2, SMT
  <2>4. PhysicalArrival \in Phases /\ kind \in FollowUpKinds /\ who \in ActorsOf(kind)
    BY SMT DEF Phases, FollowUpKinds, Kinds, MessageKinds, ActorsOf, Verifiers
  <2> HIDE DEF w
  <2>5. Event(w, PhysicalArrival, kind, r, who, val) \in FollowUps(r)
    BY <2>3, <2>4, EventIsFollowUp
  <2>6. QED
    BY <2>5 DEF w
<1> DEFINE e(i) == Event(t + ClassicalDelay(config, s, d) + config.sender[s][d] + out[i],
                         PhysicalArrival, kind, r, who, val)
<1>3. Copies(t, s, d, kind, r, who, val, out) = [i \in 1 .. Len(out) |-> e(i)]
  BY <1>1 DEF Copies
<1> HIDE DEF e
<1>4. [i \in 1 .. Len(out) |-> e(i)] \in [1 .. Len(out) -> FollowUps(r)]
  BY <1>2 DEF e
<1>5. QED
  BY <1>1, <1>3, <1>4, SeqDef

LEMMA ConfigTypes ==
  ASSUME config \in Configs
  PROVE  /\ TimingConfig(config) /\ NumRounds \in Nat \ {0}
         /\ \A v \in Verifiers :
              /\ config.sender[v]["prover"] \in Nat
              /\ config.sender[v]["controller"] \in Nat
              /\ config.sender["prover"][v] \in Nat
         /\ \A m \in Holders :
              /\ config.load[m] \in Nat /\ config.retrieve[m] \in Nat
              /\ config.switch[m] \in Nat /\ config.measure[m] \in Nat
              /\ config.dead[m] \in Nat /\ config.hold[m] \in Nat \union {None}
              /\ config.can.bit[m] \subseteq {0, 1}
         /\ config.stop \in Nat /\ config.gateWidth \in Nat /\ config.qndDead \in Nat
         /\ config.rest \in Nat /\ config.epr \in Nat /\ config.qnd \in Nat
         /\ config.skew.x \in Int /\ config.skew.y \in Int /\ config.skew.challenge \in Int
         /\ config.intercept.process \in Nat /\ config.intercept.prepare \in Nat
         /\ config.intercept.toHim \in Nat /\ config.intercept.toProver \in Nat
         /\ \A kind \in MessageKinds : config.tamper[kind] \subseteq Seq(Nat)
         /\ config.photonDelay \subseteq Nat
<1>1. SessionConfig(config) /\ NumRounds \in Nat \ {0}
  BY SessionAssumption
<1>2. TimingConfig(config)
  BY <1>1 DEF SessionConfig
<1>3. \A v \in Verifiers :
        /\ config.sender[v]["prover"] \in Nat
        /\ config.sender[v]["controller"] \in Nat
        /\ config.sender["prover"][v] \in Nat
  BY <1>2 DEF TimingConfig
<1>4. \A m \in Holders :
        /\ config.load[m] \in Nat /\ config.retrieve[m] \in Nat
        /\ config.switch[m] \in Nat /\ config.measure[m] \in Nat
  BY <1>2 DEF TimingConfig
<1>5. \A m \in Holders :
        /\ config.dead[m] \in Nat /\ config.hold[m] \in Nat \union {None}
        /\ config.can.bit[m] \subseteq {0, 1}
  BY <1>1 DEF SessionConfig
<1>6. /\ config.stop \in Nat /\ config.gateWidth \in Nat /\ config.qndDead \in Nat
      /\ config.rest \in Nat
      /\ config.skew.x \in Int /\ config.skew.y \in Int /\ config.skew.challenge \in Int
  BY <1>1 DEF SessionConfig
<1>7. config.epr \in Nat /\ config.qnd \in Nat
  BY <1>2 DEF TimingConfig
<1>8. /\ config.intercept.process \in Nat /\ config.intercept.prepare \in Nat
      /\ config.intercept.toHim \in Nat /\ config.intercept.toProver \in Nat
      /\ \A kind \in MessageKinds : config.tamper[kind] \subseteq Seq(Nat)
      /\ config.photonDelay \subseteq Nat
  BY <1>1 DEF SessionConfig
<1>9. QED
  BY <1>1, <1>2, <1>3, <1>4, <1>5, <1>6, <1>7, <1>8

LEMMA RoundIsNat ==
  ASSUME NEW r \in Rounds
  PROVE  r \in Nat
<1>1. NumRounds \in Nat
  BY SessionAssumption
<1>2. QED
  BY <1>1, SMT DEF Rounds

LEMMA MessageDelays ==
  ASSUME config \in Configs, NEW v \in Verifiers
  PROVE  /\ ClassicalDelay(config, v, "prover") \in Nat
         /\ ClassicalDelay(config, v, "controller") \in Nat
         /\ ClassicalDelay(config, "prover", v) \in Nat
BY ConfigTypes, TimingTypes

LEMMA BroadcastFollowsUp ==
  ASSUME config \in Configs, NEW t \in Int, NEW kind \in MessageKinds, NEW r,
         NEW val \in Nat, NEW outs \in Pairs(kind)
  PROVE  Broadcast(t, kind, r, val, outs) \in Seq(FollowUps(r))
<1>1. "v0" \in Verifiers /\ "v1" \in Verifiers /\ "v0" \in Nodes /\ "v1" \in Nodes
  BY DEF Verifiers, Nodes
<1>2. outs[1] \in Seq(Nat) /\ outs[2] \in Seq(Nat)
  BY ConfigTypes DEF Pairs
<1>3. Copies(t, "prover", "v0", kind, r, "v0", val, outs[1]) \in Seq(FollowUps(r))
  BY <1>1, <1>2, ConfigTypes, MessageDelays, CopiesAreFollowUps
<1>4. Copies(t, "prover", "v1", kind, r, "v1", val, outs[2]) \in Seq(FollowUps(r))
  BY <1>1, <1>2, ConfigTypes, MessageDelays, CopiesAreFollowUps
<1>5. QED
  BY <1>3, <1>4, ConcatProperties DEF Broadcast

LEMMA ReportFollowsUp ==
  ASSUME config \in Configs, NEW t \in Int, NEW r, NEW v \in Verifiers, NEW rd, NEW force,
         NEW out \in config.tamper["report"]
  PROVE  ReportCopies(t, r, v, rd, force, out) \in Seq(FollowUps(r))
<1>1. "report" \in MessageKinds /\ v \in Nodes
  BY DEF MessageKinds, Verifiers, Nodes
<1>2. out \in Seq(Nat)
  BY <1>1, ConfigTypes
<1>3. Copies(t, v, "controller", "report", r, v, 0, out) \in Seq(FollowUps(r))
  BY <1>1, <1>2, ConfigTypes, MessageDelays, CopiesAreFollowUps
<1>4. <<>> \in Seq(FollowUps(r))
  BY EmptySeq
<1>5. QED
  BY <1>3, <1>4 DEF ReportCopies

LEMMA PhasesAndKinds ==
  /\ {PhysicalArrival, DeviceCompletion, Protocol, Control, Timeout} \subseteq Phases
  /\ {"epr", "challenge", "intercept", "replacement", "photon", "qnd", "gate", "load",
      "expire", "retrieve", "measured", "send"} \union MessageKinds \subseteq FollowUpKinds
  /\ Verifiers \subseteq Nodes /\ Holders \subseteq Nodes
  /\ \A kind \in {"epr", "challenge", "intercept", "replacement", "photon", "qnd", "gate"} :
       ActorsOf(kind) = {"v0", "v1", "prover", "controller", "attacker"}
  /\ \A kind \in {"load", "expire", "retrieve", "measured"} : ActorsOf(kind) = Holders
  /\ \A kind \in MessageKinds \union {"send"} : ActorsOf(kind) = Verifiers
  /\ Holders = {"prover", "v0"} /\ Verifiers = {"v0", "v1"}
BY DEF Phases, FollowUpKinds, Kinds, MessageKinds, Verifiers, Holders, Nodes, ActorsOf

LEMMA OneFollowUp ==
  ASSUME NEW r, NEW w \in Int, NEW p \in Phases, NEW kind \in FollowUpKinds,
         NEW who \in ActorsOf(kind), NEW val \in Nat
  PROVE  <<Event(w, p, kind, r, who, val)>> \in Seq(FollowUps(r))
BY EventIsFollowUp

LEMMA RetrievalsFollowUp ==
  ASSUME config \in Configs, NEW t \in Int, NEW r, NEW rd, NEW mm
  PROVE  Retrievals(t, r, rd, mm) \in Seq(FollowUps(r))
<1> DEFINE e1 == Event(t + config.retrieve["prover"], DeviceCompletion, "retrieve", r, "prover", 0)
           e2 == Event(t + config.retrieve["v0"], DeviceCompletion, "retrieve", r, "v0", 0)
<1>1. t + config.retrieve["prover"] \in Int /\ t + config.retrieve["v0"] \in Int
  <2>1. config.retrieve["prover"] \in Nat /\ config.retrieve["v0"] \in Nat
    BY ConfigTypes DEF Holders
  <2>2. QED
    BY <2>1
<1>2. e1 \in FollowUps(r) /\ e2 \in FollowUps(r)
  BY <1>1, PhasesAndKinds, EventIsFollowUp
<1> HIDE DEF e1, e2
<1>3. <<e1, e2>> \in Seq(FollowUps(r)) /\ <<>> \in Seq(FollowUps(r))
  BY <1>2
<1>4. QED
  BY <1>3 DEF Retrievals, e1, e2

LEMMA ExpiryFollowsUp ==
  ASSUME config \in Configs, NEW t \in Int, NEW m \in Holders, NEW r, NEW gen \in Nat
  PROVE  Expiry(t, m, r, gen) \in Seq(FollowUps(r))
<1>1. CASE config.hold[m] = None
  BY <1>1, EmptySeq DEF Expiry
<1>2. CASE config.hold[m] # None
  <2>0. config.hold[m] \in Nat \union {None}
    BY ConfigTypes
  <2>1. t + config.hold[m] \in Int
    BY <1>2, <2>0
  <2>2. <<Event(t + config.hold[m], Timeout, "expire", r, m, gen)>> \in Seq(FollowUps(r))
    BY <2>1, PhasesAndKinds, OneFollowUp
  <2>3. QED
    BY <1>2, <2>2 DEF Expiry
<1>3. QED
  BY <1>1, <1>2

-----------------------------------------------------------------------------
(* What the handlers of devices and messages do to the agenda. *)

\* The handler of e removes e from the queue and schedules follow-ups for e's
\* round; no round starts or is decided.
OrdinaryStep(e) ==
  /\ status = "running"
  /\ e.kind \notin {"start", "timeout", "final"}
  /\ now' = e.when
  /\ \E evs \in Seq(FollowUps(e.round)) : Return(e, evs)
  /\ UNCHANGED <<config, started, completed, results>>

\* The handler of e raises.
RaisingStep(e) ==
  /\ now' = e.when
  /\ \E error \in Errors : Raise(e, error)
  /\ UNCHANGED config

LEMMA TypesOfEvent ==
  ASSUME TypeOK, NEW e \in queue
  PROVE  /\ e.when \in Int /\ e.round \in Rounds /\ e.who \in ActorsOf(e.kind)
         /\ e.kind \in Kinds /\ e.val \in Nat
BY DEF TypeOK, QueueType, EventType

LEMMA PassesIsOrdinary ==
  ASSUME TypeOK, NEW e \in queue, NEW kind, Handle(e, kind),
         kind \notin {"start", "timeout", "final"},
         NEW evs \in Seq(FollowUps(e.round)), Return(e, evs),
         UNCHANGED <<started, completed, results>>
  PROVE  OrdinaryStep(e)
BY DEF Handle, OrdinaryStep

LEMMA PairStepShape ==
  ASSUME TypeOK, NEW e \in queue, PairReady(e) \/ PairReadyRaises(e) \/ PairFails(e)
  PROVE  OrdinaryStep(e) \/ RaisingStep(e)
<1>1. e.when \in Int /\ config \in Configs
  BY TypesOfEvent DEF TypeOK
<1>2. CASE PairReady(e)
  <2> DEFINE later == Larger(e.when, SkewedChallenge(e.round))
             e1 == Event(e.when + config.load["v0"], DeviceCompletion, "load", e.round, "v0", 0)
             e2 == Event(later, Protocol, "challenge", e.round, "v0", 0)
  <2>1. config.load["v0"] \in Nat /\ config.skew.challenge \in Int
    BY <1>1, ConfigTypes DEF Holders
  <2>2. later \in Int
    <3>1. ChallengeAt(config, e.round) \in Int
      BY <1>1, TypesOfEvent, RoundIsNat, ConfigTypes, ChallengeType
    <3>2. SkewedChallenge(e.round) \in Int
      BY <2>1, <3>1 DEF SkewedChallenge
    <3>3. QED
      BY <1>1, <3>2 DEF Larger
  <2> HIDE DEF later
  <2>3. e1 \in FollowUps(e.round) /\ e2 \in FollowUps(e.round)
    <3>1. e.when + config.load["v0"] \in Int
      BY <1>1, <2>1
    <3>2. QED
      BY <2>2, <3>1, PhasesAndKinds, EventIsFollowUp
  <2> HIDE DEF e1, e2
  <2>4. <<e1, e2>> \in Seq(FollowUps(e.round))
    BY <2>3
  <2>5. Return(e, <<e1, e2>>)
    BY <1>2 DEF PairReady, LoadEvent, e1, e2, later
  <2>6. QED
    BY <1>2, <2>4, <2>5, PassesIsOrdinary DEF PairReady, decisionVars
<1>3. CASE PairReadyRaises(e)
  BY <1>3 DEF PairReadyRaises, RaisingStep, Errors, Handle
<1>4. CASE PairFails(e)
  <2>1. <<>> \in Seq(FollowUps(e.round))
    BY EmptySeq
  <2>2. QED
    BY <1>4, <2>1, PassesIsOrdinary DEF PairFails, decisionVars
<1>5. QED
  BY <1>2, <1>3, <1>4

LEMMA CommitShape ==
  ASSUME TypeOK, NEW e \in queue, NEW outcome, Commit(e, outcome)
  PROVE  /\ \E evs \in Seq(FollowUps(e.round)) : Return(e, evs)
         /\ UNCHANGED <<started, completed, results>>
<1>1. PICK outs \in Pairs("commitment") :
        Return(e, Broadcast(e.when, "commitment", e.round,
                            IF outcome = "dark_count" THEN 1 ELSE 0, outs))
  BY DEF Commit
<1> DEFINE val == IF outcome = "dark_count" THEN 1 ELSE 0
<1>2. e.when \in Int /\ config \in Configs /\ val \in Nat /\ "commitment" \in MessageKinds
  BY TypesOfEvent DEF TypeOK, MessageKinds
<1> HIDE DEF val
<1>3. Broadcast(e.when, "commitment", e.round, val, outs) \in Seq(FollowUps(e.round))
  BY <1>2, BroadcastFollowsUp
<1>4. QED
  BY <1>1, <1>3 DEF Commit, decisionVars, val

LEMMA DetectorStepShape ==
  ASSUME TypeOK, NEW e \in queue, PhotonArrives(e) \/ DetectionDone(e) \/ GateCloses(e)
  PROVE  OrdinaryStep(e) \/ RaisingStep(e)
<1>1. e.when \in Int /\ config \in Configs
  BY TypesOfEvent DEF TypeOK
<1>2. \/ Handle(e, "photon") \/ Handle(e, "qnd") \/ Handle(e, "gate")
  BY DEF PhotonArrives, DetectionDone, GateCloses
<1>3. CASE \E outcome : Commit(e, outcome)
  <2>1. PICK outcome : Commit(e, outcome)
    BY <1>3
  <2>2. PICK evs \in Seq(FollowUps(e.round)) : Return(e, evs)
    BY <2>1, CommitShape
  <2>3. UNCHANGED <<started, completed, results>>
    BY <2>1, CommitShape
  <2>4. QED
    BY <1>2, <2>2, <2>3, PassesIsOrdinary
<1>4. CASE \E evs \in Seq(FollowUps(e.round)) : Passes(e, evs)
  BY <1>2, <1>4, PassesIsOrdinary DEF Passes, decisionVars
<1>5. CASE Resolved(e)
  BY <1>4, <1>5, EmptySeq DEF Resolved
<1>6. CASE PhotonArrives(e)
  <2>1. <<Event(e.when + config.qnd, DeviceCompletion, "qnd", e.round, "prover", 0)>>
          \in Seq(FollowUps(e.round))
    <3>1. config.qnd \in Nat
      BY <1>1, ConfigTypes
    <3>2. e.when + config.qnd \in Int
      BY <1>1, <3>1
    <3>3. QED
      BY <3>2, PhasesAndKinds, OneFollowUp
  <2>2. QED
    BY <1>3, <1>4, <1>5, <1>6, <2>1 DEF PhotonArrives
<1>7. CASE DetectionDone(e)
  <2>1. CASE Return(e, <<LoadEvent(e.when, "prover", e.round)>>)
             /\ UNCHANGED <<started, decisionVars>>
    <3>1. e.when + config.load["prover"] \in Int
      <4>1. config.load["prover"] \in Nat
        BY <1>1, ConfigTypes DEF Holders
      <4>2. QED
        BY <1>1, <4>1
    <3>2. <<LoadEvent(e.when, "prover", e.round)>> \in Seq(FollowUps(e.round))
      BY <3>1, PhasesAndKinds, OneFollowUp DEF LoadEvent
    <3>3. QED
      BY <1>2, <2>1, <3>2, PassesIsOrdinary DEF decisionVars
  <2>2. CASE Raise(e, "InvalidDeviceState")
    BY <1>2, <2>2 DEF RaisingStep, Errors, Handle
  <2>3. QED
    BY <1>3, <1>5, <1>7, <2>1, <2>2 DEF DetectionDone
<1>8. CASE GateCloses(e)
  BY <1>3, <1>5, <1>8 DEF GateCloses
<1>9. QED
  BY <1>6, <1>7, <1>8
LEMMA NothingScheduled == ASSUME NEW S PROVE <<>> \in Seq(S)
BY EmptySeq

\* The kind of an event and the actors it is about.
LEMMA ActorOfEvent ==
  ASSUME TypeOK, NEW e \in queue
  PROVE  /\ e.kind \in {"load", "expire", "retrieve", "measured"} => e.who \in Holders
         /\ e.kind \in MessageKinds \union {"send"} => e.who \in Verifiers
BY TypesOfEvent, PhasesAndKinds

LEMMA SlotTypes ==
  ASSUME TypeOK, NEW m \in Holders
  PROVE  mem[m] \in SlotType /\ mem[m].gen \in Nat
BY DEF TypeOK, DeviceType, SlotType

LEMMA MemoryStepShape ==
  ASSUME TypeOK, NEW e \in queue, LoadDone(e) \/ LoadFails(e) \/ Expire(e) \/ RetrieveDone(e)
  PROVE  OrdinaryStep(e) \/ RaisingStep(e)
<1>1. e.when \in Int /\ config \in Configs /\ "commitment" \in MessageKinds
  BY TypesOfEvent DEF TypeOK, MessageKinds
<1>2. CASE LoadDone(e)
  <2> DEFINE m == e.who
             r == e.round
             mm == [mem EXCEPT ![m] = [@ EXCEPT !.state = "stored", !.holds = r,
                                                !.storedAt = e.when]]
             rd == IF m = "v0" THEN round[r]
                   ELSE [round[r] EXCEPT !.committed = TRUE, !.valid = TRUE,
                                         !.commitAt = e.when]
             commit(outs) == IF m = "v0" THEN <<>>
                             ELSE Broadcast(e.when, "commitment", r, 1, outs)
  <2>1. PICK outs \in (IF m = "v0" THEN {<<>>} ELSE Pairs("commitment")) :
          Return(e, Expiry(e.when, m, r, mem[m].gen) \o commit(outs)
                      \o Retrievals(e.when, r, rd, mm))
    BY <1>2 DEF LoadDone
  <2>2. m \in Holders /\ mem[m].gen \in Nat
    BY <1>2, ActorOfEvent, SlotTypes DEF LoadDone, Handle
  <2> HIDE DEF rd, mm
  <2>3. Expiry(e.when, m, r, mem[m].gen) \in Seq(FollowUps(r))
    BY <1>1, <2>2, ExpiryFollowsUp
  <2>4. commit(outs) \in Seq(FollowUps(r))
    <3>1. CASE m = "v0"
      BY <3>1, NothingScheduled
    <3>2. CASE m # "v0"
      BY <1>1, <2>1, <3>2, BroadcastFollowsUp
    <3>3. QED
      BY <3>1, <3>2
  <2>5. Retrievals(e.when, r, rd, mm) \in Seq(FollowUps(r))
    BY <1>1, RetrievalsFollowUp
  <2> HIDE DEF commit
  <2>6. Expiry(e.when, m, r, mem[m].gen) \o commit(outs) \o Retrievals(e.when, r, rd, mm)
          \in Seq(FollowUps(r))
    BY <2>3, <2>4, <2>5, ConcatProperties
  <2>7. QED
    BY <1>2, <2>1, <2>6, PassesIsOrdinary DEF LoadDone, decisionVars
<1>3. CASE LoadFails(e)
  <2>1. PICK evs \in Seq(FollowUps(e.round)) : Return(e, evs)
    <3>1. CASE e.who = "v0" /\ Return(e, <<>>)
      BY <3>1, NothingScheduled
    <3>2. CASE \E outs \in Pairs("commitment") :
                 Return(e, Broadcast(e.when, "commitment", e.round, 0, outs))
      BY <1>1, <3>2, BroadcastFollowsUp
    <3>3. QED
      BY <1>3, <3>1, <3>2 DEF LoadFails
  <2>2. QED
    BY <1>3, <2>1, PassesIsOrdinary DEF LoadFails, decisionVars
<1>4. CASE Expire(e)
  BY <1>4, NothingScheduled, PassesIsOrdinary DEF Expire, decisionVars
<1>5. CASE RetrieveDone(e)
  <2>1. e.who \in Holders
    BY <1>5, ActorOfEvent DEF RetrieveDone, Handle
  <2>2. CASE Raise(e, "InvalidDeviceState")
    BY <1>5, <2>2 DEF RetrieveDone, RaisingStep, Errors, Handle
  <2>3. CASE Return(e, <<>>) /\ UNCHANGED <<started, decisionVars>>
    BY <1>5, <2>3, NothingScheduled, PassesIsOrdinary DEF RetrieveDone, decisionVars
  <2>4. CASE /\ Return(e, <<Event(e.when + config.switch[e.who] + config.measure[e.who],
                                  DeviceCompletion, "measured", e.round, e.who, 0)>>)
             /\ UNCHANGED <<started, decisionVars>>
    <3> DEFINE a == config.switch[e.who]
               b == config.measure[e.who]
               w == e.when + a + b
    <3>1. a \in Nat /\ b \in Nat
      BY <1>1, <2>1, ConfigTypes
    <3>2. w \in Int
      <4> HIDE DEF a, b
      <4> QED BY <1>1, <3>1
    <3> HIDE DEF w
    <3>3. <<Event(w, DeviceCompletion, "measured", e.round, e.who, 0)>>
            \in Seq(FollowUps(e.round))
      BY <2>1, <3>2, PhasesAndKinds, OneFollowUp
    <3>4. QED
      BY <1>5, <2>4, <3>3, PassesIsOrdinary DEF RetrieveDone, decisionVars, w
  <2>5. QED
    BY <1>5, <2>2, <2>3, <2>4 DEF RetrieveDone
<1>6. QED
  BY <1>2, <1>3, <1>4, <1>5

LEMMA MeasureStepShape ==
  ASSUME TypeOK, NEW e \in queue, ProverMeasured(e) \/ V0Measured(e)
  PROVE  OrdinaryStep(e)
<1>1. e.when \in Int /\ config \in Configs /\ "answer" \in MessageKinds /\ "v0" \in Verifiers
  BY TypesOfEvent DEF TypeOK, MessageKinds, Verifiers
<1>2. CASE ProverMeasured(e)
  <2>1. PICK bit \in config.can.bit["prover"], outs \in Pairs("answer") :
          Return(e, Broadcast(e.when, "answer", e.round, bit, outs))
    BY <1>2 DEF ProverMeasured
  <2>2. bit \in Nat
    <3>1. config.can.bit["prover"] \subseteq {0, 1}
      BY <1>1, ConfigTypes DEF Holders
    <3>2. QED
      BY <3>1
  <2>3. Broadcast(e.when, "answer", e.round, bit, outs) \in Seq(FollowUps(e.round))
    BY <1>1, <2>2, BroadcastFollowsUp
  <2>4. QED
    BY <1>2, <2>1, <2>3, PassesIsOrdinary DEF ProverMeasured, decisionVars
<1>3. CASE V0Measured(e)
  <2>1. PICK bit \in config.can.bit["v0"], out \in config.tamper["report"] :
          Return(e, ReportCopies(e.when, e.round, "v0",
                                 [round[e.round] EXCEPT !.bit["v0"] = bit], FALSE, out))
    BY <1>3 DEF V0Measured
  <2>2. ReportCopies(e.when, e.round, "v0", [round[e.round] EXCEPT !.bit["v0"] = bit],
                     FALSE, out) \in Seq(FollowUps(e.round))
    BY <1>1, ReportFollowsUp
  <2>3. QED
    BY <1>3, <2>1, <2>2, PassesIsOrdinary DEF V0Measured, decisionVars
<1>4. QED
  BY <1>2, <1>3

LEMMA PhotonStepShape ==
  ASSUME TypeOK, NEW e \in queue, SendChallenge(e) \/ InterceptDone(e) \/ SendReplacement(e)
  PROVE  OrdinaryStep(e)
<1>1. e.when \in Int /\ config \in Configs
  BY TypesOfEvent DEF TypeOK
<1>2. \A evs \in Seq(FollowUps(e.round)) :
        Passes(e, evs) /\ (Handle(e, "challenge") \/ Handle(e, "intercept")
                             \/ Handle(e, "replacement")) => OrdinaryStep(e)
  BY PassesIsOrdinary DEF Passes, decisionVars
<1>3. CASE SendChallenge(e)
  <2>1. CASE Passes(e, <<>>)
    BY <1>2, <1>3, <2>1, NothingScheduled DEF SendChallenge
  <2>2. CASE Passes(e, <<Event(e.when + config.intercept.toHim + config.intercept.process,
                              DeviceCompletion, "intercept", e.round, "attacker", 0)>>)
    <3>1. e.when + config.intercept.toHim + config.intercept.process \in Int
      <4>1. config.intercept.toHim \in Nat /\ config.intercept.process \in Nat
        BY <1>1, ConfigTypes
      <4>2. QED
        BY <1>1, <4>1
    <3>2. <<Event(e.when + config.intercept.toHim + config.intercept.process,
                  DeviceCompletion, "intercept", e.round, "attacker", 0)>>
            \in Seq(FollowUps(e.round))
      BY <3>1, PhasesAndKinds, OneFollowUp
    <3>3. QED
      BY <1>2, <1>3, <2>2, <3>2 DEF SendChallenge
  <2>3. CASE \E d \in config.photonDelay :
               Passes(e, <<Event(e.when + config.qLink + d, PhysicalArrival, "photon",
                                 e.round, "prover", 0)>>)
    <3>1. PICK d \in config.photonDelay :
            Passes(e, <<Event(e.when + config.qLink + d, PhysicalArrival, "photon",
                              e.round, "prover", 0)>>)
      BY <2>3
    <3>2. config.qLink \in Nat /\ d \in Nat
      BY <1>1, ConfigTypes, TimingTypes
    <3>3. e.when + config.qLink + d \in Int
      BY <1>1, <3>2
    <3>4. <<Event(e.when + config.qLink + d, PhysicalArrival, "photon", e.round, "prover", 0)>>
            \in Seq(FollowUps(e.round))
      BY <3>3, PhasesAndKinds, OneFollowUp
    <3>5. QED
      BY <1>2, <1>3, <3>1, <3>4 DEF SendChallenge
  <2>4. QED
    BY <1>3, <2>1, <2>2, <2>3 DEF SendChallenge
<1>4. CASE InterceptDone(e)
  <2>0. config.intercept.prepare \in Nat
    BY <1>1, ConfigTypes
  <2>1. e.when + config.intercept.prepare \in Int
    BY <1>1, <2>0
  <2>2. <<Event(e.when + config.intercept.prepare, Protocol, "replacement", e.round,
                "attacker", 0)>> \in Seq(FollowUps(e.round))
    BY <2>1, PhasesAndKinds, OneFollowUp
  <2>3. QED
    BY <1>2, <1>4, <2>2 DEF InterceptDone
<1>5. CASE SendReplacement(e)
  <2>0. config.intercept.toProver \in Nat
    BY <1>1, ConfigTypes
  <2>1. e.when + config.intercept.toProver \in Int
    BY <1>1, <2>0
  <2>2. <<Event(e.when + config.intercept.toProver, PhysicalArrival, "photon", e.round,
                "prover", 0)>> \in Seq(FollowUps(e.round))
    BY <2>1, PhasesAndKinds, OneFollowUp
  <2>3. QED
    BY <1>2, <1>5, <2>2 DEF SendReplacement
<1>6. QED
  BY <1>3, <1>4, <1>5

LEMMA MessageStepShape ==
  ASSUME TypeOK, NEW e \in queue, SendBasis(e) \/ BasisArrives(e) \/ VerifierReceives(e)
  PROVE  OrdinaryStep(e)
<1>1. /\ e.when \in Int /\ config \in Configs
      /\ {"basis", "commitment", "answer"} \subseteq MessageKinds
  BY TypesOfEvent DEF TypeOK, MessageKinds
<1>2. CASE SendBasis(e)
  <2>1. PICK out \in config.tamper["basis"] :
          Passes(e, Copies(e.when, e.who, "prover", "basis", e.round, e.who, 0, out))
    BY <1>2 DEF SendBasis
  <2>2. e.who \in Verifiers /\ out \in Seq(Nat)
    BY <1>1, <1>2, ActorOfEvent, ConfigTypes DEF SendBasis, Handle
  <2>3. Copies(e.when, e.who, "prover", "basis", e.round, e.who, 0, out)
          \in Seq(FollowUps(e.round))
    BY <1>1, <2>2, ConfigTypes, MessageDelays, CopiesAreFollowUps
  <2>4. QED
    BY <1>2, <2>1, <2>3, PassesIsOrdinary DEF SendBasis, Passes, decisionVars
<1>3. CASE BasisArrives(e)
  <2> DEFINE rd == [round[e.round] EXCEPT !.arrival[e.who] = e.when]
  <2>1. Return(e, Retrievals(e.when, e.round, rd, mem))
    BY <1>3 DEF BasisArrives
  <2> HIDE DEF rd
  <2>2. Retrievals(e.when, e.round, rd, mem) \in Seq(FollowUps(e.round))
    BY <1>1, RetrievalsFollowUp
  <2>3. QED
    BY <1>3, <2>1, <2>2, PassesIsOrdinary DEF BasisArrives, decisionVars
<1>4. CASE VerifierReceives(e)
  <2> DEFINE rd == IF e.kind = "commitment"
                   THEN [round[e.round] EXCEPT !.seen[e.who].commitment = e.val,
                                               !.seen[e.who].commitAt = e.when]
                   ELSE [round[e.round] EXCEPT !.seen[e.who].answer = e.val,
                                               !.seen[e.who].answerAt = e.when]
  <2>1. PICK out \in config.tamper["report"] :
          Return(e, ReportCopies(e.when, e.round, e.who, rd, FALSE, out))
    BY <1>4 DEF VerifierReceives
  <2> HIDE DEF rd
  <2>2. e.who \in Verifiers
    BY <1>1, <1>4, ActorOfEvent DEF VerifierReceives, Handle
  <2>3. ReportCopies(e.when, e.round, e.who, rd, FALSE, out) \in Seq(FollowUps(e.round))
    BY <1>1, <2>2, ReportFollowsUp
  <2>4. QED
    BY <1>4, <2>1, <2>3, PassesIsOrdinary DEF VerifierReceives, decisionVars
<1>5. QED
  BY <1>2, <1>3, <1>4
-----------------------------------------------------------------------------
(* Types. *)

LEMMA InitTypes == ASSUME Init PROVE TypeOK
<1>1. config \in Configs /\ NumRounds \in Nat \ {0} /\ TimingConfig(config)
  BY ConfigTypes DEF Init
<1>2. \A i \in 1 .. NumRounds : i - 1 \in Rounds /\ i - 1 \in Nat
  BY <1>1, SMT DEF Rounds
<1>3. queue \subseteq EventType
  <2> SUFFICES ASSUME NEW e \in queue PROVE e \in EventType
    OBVIOUS
  <2> DEFINE start(i) == Event(RoundStartAt(config, i - 1), Control, "start", i - 1,
                               "controller", 0)
             evs == [i \in 1 .. NumRounds |-> start(i)]
  <2>1. PICK i \in DOMAIN evs : e = [evs[i] EXCEPT !.seq = 0 + i - 1]
    BY DEF Init, StartEvents, Stamp
  <2>2. i \in 1 .. NumRounds
    BY <2>1
  <2>3. i - 1 \in Rounds /\ i - 1 \in Nat /\ 0 + i - 1 \in Nat
    BY <1>1, <1>2, <2>2, SMT
  <2>4. RoundStartAt(config, i - 1) \in Nat
    BY <1>1, <2>3, NextRoundStart
  <2> DEFINE w == RoundStartAt(config, i - 1)
             n == i - 1
             k == 0 + i - 1
  <2>5. e = [Event(w, Control, "start", n, "controller", 0) EXCEPT !.seq = k]
    BY <2>1, <2>2
  <2>6. w \in Int /\ n \in Rounds /\ k \in Nat
    BY <2>3, <2>4
  <2> HIDE DEF w, n, k
  <2>7. Control \in Phases /\ "start" \in Kinds /\ "controller" \in Nodes
        /\ "controller" \in ActorsOf("start")
    BY DEF Phases, Kinds, Nodes, ActorsOf, MessageKinds
  <2>8. e = [when |-> w, phase |-> Control, seq |-> k, kind |-> "start", round |-> n,
             who |-> "controller", val |-> 0]
    BY <2>5 DEF Event
  <2> QED
    BY <2>6, <2>7, <2>8 DEF EventType
<1>4. DeviceType
  <2>1. EmptySlot \in SlotType
    BY DEF EmptySlot, SlotType, Opt
  <2>2. QED
    BY <2>1 DEF Init, DeviceType
<1>5. QED
  BY <1>1, <1>3, <1>4 DEF Init, TypeOK, QueueType

LEMMA FollowUpIsEvent ==
  ASSUME NEW r \in Rounds
  PROVE  FollowUps(r) \subseteq EventType
BY DEF FollowUps, EventType, FollowUpKinds

LEMMA ReturnTypes ==
  ASSUME TypeOK, NEW e \in queue, NEW evs \in Seq(EventType), Return(e, evs)
  PROVE  queue' \subseteq EventType /\ nextSeq' \in Nat
                /\ status' \in {"running", "finished"} \union Errors
<1>1. nextSeq \in Nat /\ queue \subseteq EventType
  BY DEF TypeOK, QueueType
<1>2. Stamp(evs, nextSeq) \subseteq EventType
  <2> SUFFICES ASSUME NEW i \in DOMAIN evs
               PROVE  [evs[i] EXCEPT !.seq = nextSeq + i - 1] \in EventType
    BY DEF Stamp
  <2>1. i \in 1 .. Len(evs) /\ evs[i] \in EventType
    BY LenProperties, ElementOfSeq
  <2>2. nextSeq + i - 1 \in Nat
    BY <1>1, <2>1, LenProperties, SMT
  <2> DEFINE x == evs[i]
             y == [x EXCEPT !.seq = nextSeq + i - 1]
  <2>3. y.kind = x.kind /\ y.who = x.who
    BY <2>1 DEF EventType
  <2>4. QED
    BY <2>1, <2>2, <2>3 DEF EventType
<1>3. Len(evs) \in Nat
  BY LenProperties
<1>4. QED
  BY <1>1, <1>2, <1>3 DEF Return, TypeOK, QueueType

LEMMA OrdinaryQueue ==
  ASSUME TypeOK, NEW e \in queue, OrdinaryStep(e)
  PROVE  /\ QueueType' /\ config' \in Configs
         /\ started' \in [Rounds -> BOOLEAN] /\ completed' \in [Rounds -> BOOLEAN]
<1>1. PICK evs \in Seq(FollowUps(e.round)) : Return(e, evs)
  BY DEF OrdinaryStep
<1>2. evs \in Seq(EventType)
  <2>1. FollowUps(e.round) \subseteq EventType
    BY TypesOfEvent, FollowUpIsEvent
  <2>2. evs \in [1 .. Len(evs) -> FollowUps(e.round)] /\ Len(evs) \in Nat
    BY LenProperties
  <2>3. evs \in [1 .. Len(evs) -> EventType]
    BY <2>1, <2>2
  <2>4. QED
    BY <2>2, <2>3, SeqDef
<1>3. now' \in Int
  BY TypesOfEvent DEF OrdinaryStep
<1>4. QED
  BY <1>1, <1>2, <1>3, ReturnTypes DEF OrdinaryStep, TypeOK, QueueType

LEMMA RaisingTypes ==
  ASSUME TypeOK, NEW e \in queue, RaisingStep(e)
  PROVE  TypeOK'
<1>1. UNCHANGED <<config, nextSeq, deviceVars, started, completed>> /\ now' = e.when
      /\ queue' \subseteq queue /\ status' \in Errors
  BY DEF RaisingStep, Raise, decisionVars
<1>2. now' \in Int
  BY <1>1, TypesOfEvent
<1>3. DeviceType'
  BY <1>1 DEF TypeOK, DeviceType, deviceVars
<1>4. QED
  BY <1>1, <1>2, <1>3 DEF TypeOK, QueueType

\* The operators on memories keep their types.
LEMMA MemoryTypes ==
  ASSUME TypeOK, NEW r \in Rounds, NEW t \in Int
  PROVE  /\ \A m \in Nodes : Loading(m) \in [Holders -> SlotType]
         /\ Released(r) \in [Holders -> SlotType]
         /\ \A m \in Nodes : [mem EXCEPT ![m] = [EmptySlot EXCEPT !.gen = mem[m].gen + 1]]
                              \in [Holders -> SlotType]
         /\ \A m \in Nodes : [mem EXCEPT ![m] = [@ EXCEPT !.state = "stored", !.holds = r,
                                                         !.storedAt = t]]
                              \in [Holders -> SlotType]
         /\ \A m \in Nodes : [mem EXCEPT ![m].state = "empty"] \in [Holders -> SlotType]
         /\ \A m \in Nodes : [mem EXCEPT ![m] = [@ EXCEPT !.state = "expired", !.holds = None,
                                                         !.storedAt = None]]
                              \in [Holders -> SlotType]
<1>1. mem \in [Holders -> SlotType]
  BY DEF TypeOK, DeviceType
<1>2. \A m \in Holders : [mem[m] EXCEPT !.state = "loading", !.gen = @ + 1] \in SlotType
  <2> SUFFICES ASSUME NEW slot \in SlotType
               PROVE  [slot EXCEPT !.state = "loading", !.gen = @ + 1] \in SlotType
    BY <1>1
  <2>1. slot.gen + 1 \in Nat
    BY DEF SlotType
  <2> QED
    BY <2>1 DEF SlotType
<1>3. \A m \in Holders : [EmptySlot EXCEPT !.gen = mem[m].gen + 1] \in SlotType
  <2> SUFFICES ASSUME NEW g \in Nat PROVE [EmptySlot EXCEPT !.gen = g + 1] \in SlotType
    BY <1>1 DEF SlotType
  <2> QED
    BY DEF SlotType, EmptySlot, Opt
<1>4. \A m \in Holders : [mem[m] EXCEPT !.state = "stored", !.holds = r, !.storedAt = t]
                            \in SlotType
  BY <1>1 DEF SlotType, Opt
<1>5. \A m \in Holders : [mem[m] EXCEPT !.state = "empty"] \in SlotType
  BY <1>1 DEF SlotType
<1>6. \A m \in Holders : [mem[m] EXCEPT !.state = "expired", !.holds = None,
                                        !.storedAt = None] \in SlotType
  BY <1>1 DEF SlotType, Opt
<1>7. QED
  BY <1>1, <1>2, <1>3, <1>4, <1>5, <1>6 DEF Loading, Released

LEMMA RetrievingTypes ==
  ASSUME NEW mm \in [Holders -> SlotType], NEW rd
  PROVE  Retrieving(rd, mm) \in [Holders -> SlotType]
<1>1. \A m \in Holders : [mm[m] EXCEPT !.state = "retrieving", !.gen = @ + 1] \in SlotType
  <2> SUFFICES ASSUME NEW slot \in SlotType
               PROVE  [slot EXCEPT !.state = "retrieving", !.gen = @ + 1] \in SlotType
    OBVIOUS
  <2>1. slot.gen + 1 \in Nat
    BY DEF SlotType
  <2> QED
    BY <2>1 DEF SlotType
<1>2. QED
  BY <1>1 DEF Retrieving
\* The time of a completion.
LEMMA LatencyType ==
  ASSUME config \in Configs, NEW t \in Int
  PROVE  /\ t + config.rest \in Int /\ t + config.qndDead \in Int
         /\ \A m \in Holders : t + config.dead[m] \in Int
<1>1. config.rest \in Nat /\ config.qndDead \in Nat /\ \A m \in Holders : config.dead[m] \in Nat
  BY ConfigTypes
<1>2. QED
  BY <1>1

LEMMA PairDevices ==
  ASSUME TypeOK, NEW e \in queue, PairReady(e) \/ PairFails(e)
  PROVE  DeviceType'
<1>1. e.when \in Int /\ config \in Configs /\ e.when + config.rest \in Int
  BY TypesOfEvent, LatencyType DEF TypeOK
<1>2. source' \in [busy : BOOLEAN, freeAt : Int]
  <2>1. now' = e.when /\ source' = [busy |-> FALSE, freeAt |-> now' + config.rest]
    BY DEF PairReady, PairFails, SourceDone, Handle
  <2> DEFINE free == e.when + config.rest
  <2>2. source' = [busy |-> FALSE, freeAt |-> free] /\ free \in Int
    BY <1>1, <2>1
  <2> HIDE DEF free
  <2>3. QED
    BY <2>2
<1>3. mem' \in [Holders -> SlotType]
  <2>1. Loading("v0") \in [Holders -> SlotType]
    BY <1>1, PhasesAndKinds, TypesOfEvent, MemoryTypes
  <2>2. mem \in [Holders -> SlotType]
    BY DEF TypeOK, DeviceType
  <2>3. QED
    BY <2>1, <2>2 DEF PairReady, PairFails
<1>4. QED
  BY <1>2, <1>3 DEF PairReady, PairFails, TypeOK, DeviceType

\* Resolving a gate.
LEMMA GateTypes ==
  ASSUME TypeOK, NEW r \in Rounds, gate' = [gate EXCEPT ![r].resolved = TRUE]
  PROVE  gate' \in [Rounds -> [opens : Int, closes : Int, resolved : BOOLEAN]]
<1>1. gate \in [Rounds -> [opens : Int, closes : Int, resolved : BOOLEAN]]
  BY DEF TypeOK, DeviceType
<1>2. [gate[r] EXCEPT !.resolved = TRUE] \in [opens : Int, closes : Int, resolved : BOOLEAN]
  BY <1>1
<1>3. QED
  BY <1>1, <1>2

LEMMA DetectorDevices ==
  ASSUME TypeOK, NEW e \in queue, PhotonArrives(e) \/ DetectionDone(e) \/ GateCloses(e),
         status' \notin Errors
  PROVE  DeviceType'
<1>1. /\ e.when \in Int /\ config \in Configs /\ e.when + config.qndDead \in Int
      /\ e.round \in Rounds
  BY TypesOfEvent, LatencyType DEF TypeOK
<1>2. CASE \E evs : Passes(e, evs)
  BY <1>2 DEF Passes, TypeOK, DeviceType, deviceVars
<1>3. CASE /\ \E outcome : Commit(e, outcome)
           /\ busyUntil' = busyUntil \/ busyUntil' = e.when + config.qndDead
  <2>1. gate' = [gate EXCEPT ![e.round].resolved = TRUE] /\ UNCHANGED <<source, mem, meter>>
    BY <1>3 DEF Commit
  <2>2. gate' \in [Rounds -> [opens : Int, closes : Int, resolved : BOOLEAN]]
    BY <1>1, <2>1, GateTypes
  <2>3. QED
    BY <1>1, <1>3, <2>1, <2>2 DEF TypeOK, DeviceType
<1>4. CASE /\ busyUntil' = e.when + config.qndDead
           /\ gate' = [gate EXCEPT ![e.round].resolved = TRUE]
           /\ mem' = Loading("prover") /\ UNCHANGED <<source, meter>>
  <2>1. gate' \in [Rounds -> [opens : Int, closes : Int, resolved : BOOLEAN]]
    BY <1>1, <1>4, GateTypes
  <2>2. Loading("prover") \in [Holders -> SlotType]
    BY <1>1, PhasesAndKinds, MemoryTypes
  <2>3. QED
    BY <1>1, <1>4, <2>1, <2>2 DEF TypeOK, DeviceType
<1>5. CASE PhotonArrives(e)
  BY <1>2, <1>3, <1>5 DEF PhotonArrives, Resolved
<1>6. CASE DetectionDone(e)
  BY <1>2, <1>3, <1>4, <1>6 DEF DetectionDone, Resolved, Raise, Errors
<1>7. CASE GateCloses(e)
  BY <1>2, <1>3, <1>7 DEF GateCloses, Resolved
<1>8. QED
  BY <1>5, <1>6, <1>7

LEMMA MemoryDevices ==
  ASSUME TypeOK, NEW e \in queue, LoadDone(e) \/ LoadFails(e) \/ Expire(e) \/ RetrieveDone(e),
         status' \notin Errors
  PROVE  DeviceType'
<1>1. /\ e.when \in Int /\ e.round \in Rounds /\ e.who \in Holders /\ e.who \in Nodes
      /\ mem \in [Holders -> SlotType]
      /\ meter \in [Holders -> [busy : BOOLEAN, freeAt : Int]]
  <2>1. e.kind \in {"load", "expire", "retrieve"}
    BY DEF LoadDone, LoadFails, Expire, RetrieveDone, Handle
  <2>2. QED
    BY <2>1, TypesOfEvent, ActorOfEvent, PhasesAndKinds DEF TypeOK, DeviceType
<1>2. UNCHANGED <<source, gate, busyUntil>>
  BY DEF LoadDone, LoadFails, Expire, RetrieveDone, Raise, Errors
<1>3. mem' \in [Holders -> SlotType] /\ meter' \in [Holders -> [busy : BOOLEAN, freeAt : Int]]
  <2>1. CASE LoadDone(e)
    <3> DEFINE mm == [mem EXCEPT ![e.who] = [@ EXCEPT !.state = "stored", !.holds = e.round,
                                                      !.storedAt = e.when]]
               rd == IF e.who = "v0" THEN round[e.round]
                     ELSE [round[e.round] EXCEPT !.committed = TRUE, !.valid = TRUE,
                                                 !.commitAt = e.when]
    <3>1. mem' = Retrieving(rd, mm) /\ UNCHANGED meter
      BY <2>1 DEF LoadDone
    <3>2. mm \in [Holders -> SlotType]
      BY <1>1, MemoryTypes
    <3> HIDE DEF mm, rd
    <3>3. QED
      BY <1>1, <3>1, <3>2, RetrievingTypes
  <2>2. CASE LoadFails(e)
    BY <1>1, <2>2, MemoryTypes DEF LoadFails
  <2>3. CASE Expire(e)
    BY <1>1, <2>3, MemoryTypes DEF Expire
  <2>4. CASE RetrieveDone(e)
    <3>1. mem' = [mem EXCEPT ![e.who] = [EmptySlot EXCEPT !.gen = mem[e.who].gen + 1]]
      BY <2>4 DEF RetrieveDone, Raise, Errors
    <3>2. mem' \in [Holders -> SlotType]
      BY <1>1, <3>1, MemoryTypes
    <3>3. meter' = meter \/ meter' = [meter EXCEPT ![e.who].busy = TRUE]
      BY <2>4 DEF RetrieveDone, Raise, Errors
    <3>4. [meter[e.who] EXCEPT !.busy = TRUE] \in [busy : BOOLEAN, freeAt : Int]
      BY <1>1
    <3>5. QED
      BY <1>1, <3>2, <3>3, <3>4
  <2>5. QED
    BY <2>1, <2>2, <2>3, <2>4
<1>4. QED
  BY <1>2, <1>3 DEF TypeOK, DeviceType

LEMMA MeasureDevices ==
  ASSUME TypeOK, NEW e \in queue, ProverMeasured(e) \/ V0Measured(e)
  PROVE  DeviceType'
<1>1. e.kind = "measured"
  BY DEF ProverMeasured, V0Measured, Handle
<1>2. e.who \in Holders /\ e.when \in Int /\ config \in Configs
  BY <1>1, ActorOfEvent, TypesOfEvent DEF TypeOK
<1>3. e.when + config.dead[e.who] \in Int
  BY <1>2, LatencyType
<1>4. meter' \in [Holders -> [busy : BOOLEAN, freeAt : Int]]
  <2> DEFINE free == e.when + config.dead[e.who]
             done == [busy |-> FALSE, freeAt |-> free]
  <2>1. meter' = [meter EXCEPT ![e.who] = done]
    BY DEF ProverMeasured, V0Measured, MeterDone
  <2>2. free \in Int
    BY <1>3
  <2> HIDE DEF free
  <2>3. done \in [busy : BOOLEAN, freeAt : Int]
    BY <2>2
  <2> HIDE DEF done
  <2>4. QED
    BY <1>2, <2>1, <2>3 DEF TypeOK, DeviceType
<1>5. QED
  BY <1>4 DEF ProverMeasured, V0Measured, TypeOK, DeviceType

LEMMA MessageDevices ==
  ASSUME TypeOK, NEW e \in queue,
         \/ SendChallenge(e) \/ InterceptDone(e) \/ SendReplacement(e)
         \/ SendBasis(e) \/ BasisArrives(e) \/ VerifierReceives(e)
  PROVE  DeviceType'
<1>1. CASE UNCHANGED deviceVars
  BY <1>1 DEF TypeOK, DeviceType, deviceVars
<1>2. CASE BasisArrives(e)
  <2>1. mem \in [Holders -> SlotType]
    BY DEF TypeOK, DeviceType
  <2>2. mem' \in [Holders -> SlotType]
    BY <1>2, <2>1, RetrievingTypes DEF BasisArrives
  <2>3. QED
    BY <1>2, <2>2 DEF BasisArrives, TypeOK, DeviceType
<1>3. QED
  BY <1>1, <1>2 DEF SendChallenge, InterceptDone, SendReplacement, SendBasis,
     VerifierReceives, Passes
\* The plan of a round.
LEMMA RoundPlanTypes ==
  ASSUME config \in Configs, NEW r \in Rounds
  PROVE  /\ \A v \in Verifiers : BasisSendAt(config, r, v) \in Int
         /\ \A v \in Verifiers : SkewedBasis(r, v) \in Int
         /\ ChallengeAt(config, r) \in Int /\ RoundTimeoutAt(config, r) \in Int
         /\ FinalDelay(config) \in Nat
<1>1. TimingConfig(config) /\ r \in Nat
  BY ConfigTypes, RoundIsNat
<1>2. /\ \A v \in Verifiers : BasisSendAt(config, r, v) \in Int
      /\ ChallengeAt(config, r) \in Int /\ RoundTimeoutAt(config, r) \in Int
      /\ FinalDelay(config) \in Nat
  BY <1>1, PlanTypes, ChallengeType
<1>3. ASSUME NEW v \in Verifiers PROVE SkewedBasis(r, v) \in Int
  <2>1. Inputs[v] = "x" \/ Inputs[v] = "y"
    BY DEF Inputs, Verifiers
  <2>2. config.skew.x \in Int /\ config.skew.y \in Int
    BY ConfigTypes
  <2>3. config.skew[Inputs[v]] \in Int
    BY <2>1, <2>2
  <2>4. BasisSendAt(config, r, v) \in Int
    BY <1>2
  <2>5. QED
    BY <2>3, <2>4 DEF SkewedBasis
<1>4. QED
  BY <1>2, <1>3

\* What the handler of a round start schedules.
LEMMA RoundEventTypes ==
  ASSUME config \in Configs, NEW r \in Rounds, NEW t \in Int, NEW closes \in Int
  PROVE  /\ RoundEvents(t, r, closes) \in Seq(EventType)
         /\ Len(RoundEvents(t, r, closes)) = 5
         /\ \A i \in 1 .. 4 : RoundEvents(t, r, closes)[i] \in FollowUps(r)
         /\ RoundEvents(t, r, closes)[5]
              = Event(RoundTimeoutAt(config, r), Timeout, "timeout", r, "controller", 0)
<1> DEFINE e1 == Event(closes, Timeout, "gate", r, "prover", 0)
           e2 == Event(t + config.epr, DeviceCompletion, "epr", r, "v0", 0)
           e3 == Event(SkewedBasis(r, "v0"), Protocol, "send", r, "v0", 0)
           e4 == Event(SkewedBasis(r, "v1"), Protocol, "send", r, "v1", 0)
           e5 == Event(RoundTimeoutAt(config, r), Timeout, "timeout", r, "controller", 0)
<1>1. e1 \in FollowUps(r)
  BY PhasesAndKinds, EventIsFollowUp
<1>2. e2 \in FollowUps(r)
  <2>1. t + config.epr \in Int
    BY ConfigTypes
  <2>2. QED
    BY <2>1, PhasesAndKinds, EventIsFollowUp
<1>3. e3 \in FollowUps(r) /\ e4 \in FollowUps(r)
  <2>1. SkewedBasis(r, "v0") \in Int /\ SkewedBasis(r, "v1") \in Int
    BY RoundPlanTypes, PhasesAndKinds
  <2>2. QED
    BY <2>1, PhasesAndKinds, EventIsFollowUp
<1>4. e5 \in EventType
  <2>1. RoundTimeoutAt(config, r) \in Int
    BY RoundPlanTypes
  <2>2. Timeout \in Phases /\ "timeout" \in Kinds /\ "controller" \in Nodes
        /\ "controller" \in ActorsOf("timeout")
    BY DEF Phases, Kinds, Nodes, ActorsOf, MessageKinds
  <2>3. QED
    BY <2>1, <2>2 DEF Event, EventType
<1>5. RoundEvents(t, r, closes) = <<e1, e2, e3, e4, e5>>
  BY DEF RoundEvents
<1> HIDE DEF e1, e2, e3, e4, e5
<1>6. {e1, e2, e3, e4, e5} \subseteq EventType
  BY <1>1, <1>2, <1>3, <1>4, FollowUpIsEvent
<1>7. <<e1, e2, e3, e4, e5>> \in Seq(EventType)
  BY <1>6
<1>8. /\ Len(<<e1, e2, e3, e4, e5>>) = 5
      /\ \A i \in 1 .. 4 : <<e1, e2, e3, e4, e5>>[i] \in FollowUps(r)
      /\ <<e1, e2, e3, e4, e5>>[5] = e5
  BY <1>1, <1>2, <1>3
<1>9. QED
  BY <1>5, <1>7, <1>8 DEF e5

LEMMA StartTypes ==
  ASSUME TypeOK, NEW e \in queue, StartRound(e)
  PROVE  TypeOK'
<1> DEFINE r == e.round
           t == e.when
           opens == Larger(t, ChallengeAt(config, r) + config.qGeo - config.gateWidth \div 2)
           closes == opens + config.gateWidth
<1>1. t \in Int /\ r \in Rounds /\ config \in Configs
  BY TypesOfEvent DEF TypeOK
<1>2. opens \in Int /\ closes \in Int
  <2>1. ChallengeAt(config, r) \in Int /\ config.qGeo \in Nat /\ config.gateWidth \in Nat
    BY <1>1, RoundPlanTypes, ConfigTypes, TimingTypes
  <2>2. config.gateWidth \div 2 \in Int
    BY <2>1, SMT
  <2> HIDE DEF t, r
  <2>3. ChallengeAt(config, r) + config.qGeo - config.gateWidth \div 2 \in Int
    BY <2>1, <2>2
  <2>4. opens \in Int
    BY <1>1, <2>3 DEF Larger
  <2> HIDE DEF opens
  <2>5. QED
    BY <2>1, <2>4
<1> HIDE DEF opens, closes
<1>3. /\ Handle(e, "start") /\ started' = [started EXCEPT ![r] = TRUE]
      /\ gate' = [gate EXCEPT ![r] = [opens |-> opens, closes |-> closes, resolved |-> FALSE]]
      /\ source' = [source EXCEPT !.busy = TRUE]
      /\ Return(e, RoundEvents(t, r, closes))
      /\ UNCHANGED <<busyUntil, mem, meter, completed>>
  BY DEF StartRound, opens, closes, decisionVars
<1>4. RoundEvents(t, r, closes) \in Seq(EventType)
  BY <1>1, <1>2, RoundEventTypes
<1>5. QueueType'
  BY <1>1, <1>3, <1>4, ReturnTypes DEF QueueType, Handle
<1>6. DeviceType'
  <2>1. gate' \in [Rounds -> [opens : Int, closes : Int, resolved : BOOLEAN]]
    BY <1>1, <1>2, <1>3 DEF TypeOK, DeviceType
  <2>2. source' \in [busy : BOOLEAN, freeAt : Int]
    BY <1>3 DEF TypeOK, DeviceType
  <2>3. QED
    BY <1>3, <2>1, <2>2 DEF TypeOK, DeviceType
<1>7. QED
  BY <1>1, <1>3, <1>5, <1>6 DEF TypeOK, Handle

LEMMA RejectTypes ==
  ASSUME TypeOK, NEW e \in queue, RejectPlan(e)
  PROVE  TypeOK'
<1>1. e.when \in Int /\ e.round \in Rounds
  BY TypesOfEvent
<1>2. QueueType'
  BY <1>1, NothingScheduled, ReturnTypes DEF RejectPlan, QueueType, Handle
<1>3. DeviceType'
  BY DEF RejectPlan, TypeOK, DeviceType, deviceVars
<1>4. QED
  BY <1>1, <1>2, <1>3 DEF RejectPlan, TypeOK, Handle

\* Finalize and the handlers that call it.
LEMMA DecisionTypes ==
  ASSUME TypeOK, NEW e \in queue, ReportArrives(e) \/ FinalTimesOut(e)
  PROVE  TypeOK'
<1>1. e.when \in Int /\ e.round \in Rounds
  BY TypesOfEvent
<1>2. /\ now' = e.when /\ Return(e, <<>>)
      /\ UNCHANGED <<config, source, gate, busyUntil, meter, started>>
      /\ \/ UNCHANGED <<completed, mem>>
         \/ completed' = [completed EXCEPT ![e.round] = TRUE] /\ mem' = Released(e.round)
  BY DEF ReportArrives, FinalTimesOut, Finalize, Handle
<1>3. QueueType'
  BY <1>1, <1>2, NothingScheduled, ReturnTypes DEF QueueType
<1>4. mem' \in [Holders -> SlotType] /\ completed' \in [Rounds -> BOOLEAN]
  BY <1>1, <1>2, MemoryTypes DEF TypeOK, DeviceType
<1>5. DeviceType'
  BY <1>2, <1>4 DEF TypeOK, DeviceType
<1>6. QED
  BY <1>2, <1>3, <1>4, <1>5 DEF TypeOK
LEMMA TimeoutShape ==
  ASSUME TypeOK, NEW e \in queue, RoundTimesOut(e)
  PROVE  /\ status = "running" /\ e.kind = "timeout" /\ now' = e.when
         /\ UNCHANGED <<config, started, completed, results, deviceVars>>
         /\ \/ completed[e.round] /\ Return(e, <<>>)
            \/ /\ ~completed[e.round]
               /\ \E evs \in Seq(FollowUps(e.round)) :
                    Return(e, evs \o <<Event(e.when + FinalDelay(config), Timeout, "final",
                                            e.round, "controller", 0)>>)
<1> DEFINE final == <<Event(e.when + FinalDelay(config), Timeout, "final", e.round,
                            "controller", 0)>>
           rd0 == WithReport(e.round, "v0", round[e.round], TRUE)
<1>1. /\ status = "running" /\ e.kind = "timeout" /\ now' = e.when
      /\ UNCHANGED <<config, started, completed, results, deviceVars>>
  BY DEF RoundTimesOut, Passes, Handle, decisionVars
<1>2. CASE completed[e.round]
  BY <1>1, <1>2 DEF RoundTimesOut, Passes
<1>3. CASE ~completed[e.round]
  <2>1. PICK outs \in Pairs("report") :
          Return(e, ReportCopies(e.when, e.round, "v0", round[e.round], TRUE, outs[1])
                      \o ReportCopies(e.when, e.round, "v1", rd0, TRUE, outs[2]) \o final)
    BY <1>3 DEF RoundTimesOut
  <2>2. /\ config \in Configs /\ e.when \in Int /\ "v0" \in Verifiers /\ "v1" \in Verifiers
        /\ outs[1] \in config.tamper["report"] /\ outs[2] \in config.tamper["report"]
    BY TypesOfEvent DEF TypeOK, Verifiers, Pairs
  <2> HIDE DEF rd0
  <2>3. ReportCopies(e.when, e.round, "v0", round[e.round], TRUE, outs[1])
          \in Seq(FollowUps(e.round))
    BY <2>2, ReportFollowsUp
  <2>4. ReportCopies(e.when, e.round, "v1", rd0, TRUE, outs[2]) \in Seq(FollowUps(e.round))
    BY <2>2, ReportFollowsUp
  <2>5. ReportCopies(e.when, e.round, "v0", round[e.round], TRUE, outs[1])
          \o ReportCopies(e.when, e.round, "v1", rd0, TRUE, outs[2]) \in Seq(FollowUps(e.round))
    BY <2>3, <2>4, ConcatProperties
  <2>6. QED
    BY <1>1, <1>3, <2>1, <2>5
<1>4. QED
  BY <1>2, <1>3

\* The final timeout that the round timeout sets.
LEMMA FinalEventType ==
  ASSUME config \in Configs, NEW r \in Rounds, NEW t \in Int
  PROVE  Event(t + FinalDelay(config), Timeout, "final", r, "controller", 0) \in EventType
<1> DEFINE w == t + FinalDelay(config)
<1>1. w \in Int
  BY RoundPlanTypes
<1> HIDE DEF w
<1>2. Timeout \in Phases /\ "final" \in Kinds /\ "controller" \in Nodes
      /\ "controller" \in ActorsOf("final")
  BY DEF Phases, Kinds, Nodes, ActorsOf, MessageKinds
<1>3. Event(w, Timeout, "final", r, "controller", 0) \in EventType
  BY <1>1, <1>2 DEF Event, EventType
<1>4. QED
  BY <1>3 DEF w

\* A sequence over a set is one over any larger set.
LEMMA WiderSeq ==
  ASSUME NEW S, NEW T, S \subseteq T, NEW s \in Seq(S)
  PROVE  s \in Seq(T)
<1>1. s \in [1 .. Len(s) -> S] /\ Len(s) \in Nat
  BY LenProperties
<1>2. s \in [1 .. Len(s) -> T]
  BY <1>1
<1>3. QED
  BY <1>1, <1>2, SeqDef

LEMMA TimeoutTypes ==
  ASSUME TypeOK, NEW e \in queue, RoundTimesOut(e)
  PROVE  TypeOK'
<1> DEFINE final == Event(e.when + FinalDelay(config), Timeout, "final", e.round,
                          "controller", 0)
<1>1. /\ now' = e.when /\ UNCHANGED <<config, started, completed, deviceVars>>
      /\ e.when \in Int /\ e.round \in Rounds /\ config \in Configs
  BY TimeoutShape, TypesOfEvent DEF TypeOK
<1>2. DeviceType'
  BY <1>1 DEF TypeOK, DeviceType, deviceVars
<1>3. CASE Return(e, <<>>)
  BY <1>1, <1>2, <1>3, NothingScheduled, ReturnTypes DEF TypeOK, QueueType
<1>4. CASE \E evs \in Seq(FollowUps(e.round)) : Return(e, evs \o <<final>>)
  <2>1. PICK evs \in Seq(FollowUps(e.round)) : Return(e, evs \o <<final>>)
    BY <1>4
  <2>2. final \in EventType
    BY <1>1, FinalEventType
  <2> HIDE DEF final
  <2>3. evs \in Seq(EventType) /\ <<final>> \in Seq(EventType)
    BY <1>1, <2>2, FollowUpIsEvent, WiderSeq
  <2>4. evs \o <<final>> \in Seq(EventType)
    BY <2>3, ConcatProperties
  <2>5. QED
    BY <1>1, <1>2, <2>1, <2>4, ReturnTypes DEF TypeOK, QueueType
<1>5. QED
  BY <1>3, <1>4, TimeoutShape

LEMMA OrdinarySteps ==
  ASSUME TypeOK, NEW e \in queue,
         \/ DeviceStep(e)
         \/ SendChallenge(e) \/ InterceptDone(e) \/ SendReplacement(e)
         \/ SendBasis(e) \/ BasisArrives(e) \/ VerifierReceives(e)
  PROVE  OrdinaryStep(e) \/ RaisingStep(e)
BY PairStepShape, DetectorStepShape, MemoryStepShape, MeasureStepShape, PhotonStepShape,
   MessageStepShape DEF DeviceStep

LEMMA OrdinaryTypes ==
  ASSUME TypeOK, NEW e \in queue, OrdinaryStep(e),
         \/ DeviceStep(e)
         \/ SendChallenge(e) \/ InterceptDone(e) \/ SendReplacement(e)
         \/ SendBasis(e) \/ BasisArrives(e) \/ VerifierReceives(e)
  PROVE  TypeOK'
<1>1. /\ QueueType' /\ config' \in Configs
      /\ started' \in [Rounds -> BOOLEAN] /\ completed' \in [Rounds -> BOOLEAN]
  BY OrdinaryQueue
<1>2. status' \notin Errors
  BY DEF OrdinaryStep, Return, Errors
<1>3. DeviceType'
  <2>1. ~PairReadyRaises(e)
    BY <1>2 DEF PairReadyRaises, Raise, Errors
  <2>2. QED
    BY <1>2, <2>1, PairDevices, DetectorDevices, MemoryDevices, MeasureDevices, MessageDevices
       DEF DeviceStep
<1>4. QED
  BY <1>1, <1>3 DEF TypeOK

LEMMA StartRaises ==
  ASSUME NEW e \in queue, StartRoundRaises(e)
  PROVE  RaisingStep(e)
BY DEF StartRoundRaises, RaisingStep, Errors, Handle

LEMMA NextTypes ==
  ASSUME TypeOK, [Next]_vars
  PROVE  TypeOK'
<1>1. CASE Step
  <2>1. PICK e \in queue : DeviceStep(e) \/ ProtocolStep(e) \/ DecisionStep(e)
    BY <1>1 DEF Step
  <2>2. CASE \/ DeviceStep(e)
             \/ SendChallenge(e) \/ InterceptDone(e) \/ SendReplacement(e)
             \/ SendBasis(e) \/ BasisArrives(e) \/ VerifierReceives(e)
    BY <2>2, OrdinarySteps, OrdinaryTypes, RaisingTypes
  <2>3. CASE StartRound(e) \/ RejectPlan(e)
    BY <2>3, StartTypes, RejectTypes
  <2>4. CASE StartRoundRaises(e)
    BY <2>4, StartRaises, RaisingTypes
  <2>5. CASE RoundTimesOut(e)
    BY <2>5, TimeoutTypes
  <2>6. CASE ReportArrives(e) \/ FinalTimesOut(e)
    BY <2>6, DecisionTypes
  <2>7. QED
    BY <2>1, <2>2, <2>3, <2>4, <2>5, <2>6 DEF ProtocolStep, DecisionStep
<1>2. CASE Finish
  BY <1>2 DEF Finish, TypeOK, QueueType, DeviceType, deviceVars, decisionVars
<1>3. CASE UNCHANGED vars
  BY <1>3 DEF TypeOK, QueueType, DeviceType, vars, schedulerVars, deviceVars, decisionVars
<1>4. QED
  BY <1>1, <1>2, <1>3 DEF Next, Over

\* The state of the scheduler and of the devices has its type, and events are
\* about rounds and actors of the session.
THEOREM SessionTypes == Spec => []TypeOK
<1>1. Init => TypeOK
  BY InitTypes
<1>2. TypeOK /\ [Next]_vars => TypeOK'
  BY NextTypes
<1>3. QED
  BY <1>1, <1>2, PTL DEF Spec
=============================================================================
