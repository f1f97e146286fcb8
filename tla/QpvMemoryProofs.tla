--------------------------- MODULE QpvMemoryProofs ---------------------------
(***************************************************************************)
(* The memories, for every configuration and number of rounds: a stored    *)
(* qubit has its expiry in the heap, and no other event takes it.          *)
(***************************************************************************)
EXTENDS QpvRoundProofs

-----------------------------------------------------------------------------
(* What handlers leave in the heap.  The events an operator of the model   *)
(* schedules are described by the set of events they belong to, whatever   *)
(* number the scheduler gives them.                                        *)

From(t) == {w \in Int : w >= t}

EventsAt(W, p, kind, r, who, val) ==
  [when : W, phase : {p}, seq : Nat, kind : {kind}, round : {r}, who : {who}, val : {val}]

LEMMA StampConcat ==
  ASSUME NEW a \in Seq(EventType), NEW b \in Seq(EventType), NEW n \in Nat
  PROVE  /\ Stamp(a \o b, n) = Stamp(a, n) \union Stamp(b, n + Len(a))
         /\ Len(a) \in Nat /\ n + Len(a) \in Nat /\ a \o b \in Seq(EventType)
<1>1. /\ Len(a) \in Nat /\ Len(b) \in Nat /\ n + Len(a) \in Nat
      /\ DOMAIN a = 1 .. Len(a) /\ DOMAIN b = 1 .. Len(b)
  BY LenProperties
<1>2. /\ a \o b \in Seq(EventType) /\ Len(a \o b) = Len(a) + Len(b)
      /\ \A i \in 1 .. Len(a) + Len(b) :
           (a \o b)[i] = IF i <= Len(a) THEN a[i] ELSE b[i - Len(a)]
  BY ConcatProperties
<1> DEFINE c == a \o b
           x(s, m, i) == [s[i] EXCEPT !.seq = m + i - 1]
<1>3. DOMAIN c = 1 .. Len(a) + Len(b)
  BY <1>2, LenProperties
<1>4. \A i \in 1 .. Len(a) : i \in 1 .. Len(a) + Len(b) /\ x(c, n, i) = x(a, n, i)
  BY <1>1, <1>2
<1>5. \A i \in 1 .. Len(b) : /\ Len(a) + i \in 1 .. Len(a) + Len(b)
                             /\ x(c, n, Len(a) + i) = x(b, n + Len(a), i)
  <2> TAKE i \in 1 .. Len(b)
  <2>1. Len(a) + i \in 1 .. Len(a) + Len(b)
    BY <1>1
  <2>2. c[Len(a) + i] = b[i]
    <3>1. ~(Len(a) + i <= Len(a)) /\ Len(a) + i - Len(a) = i
      BY <1>1
    <3>2. QED
      BY <1>2, <2>1, <3>1
  <2>3. n + (Len(a) + i) - 1 = (n + Len(a)) + i - 1
    BY <1>1
  <2>4. QED
    BY <2>1, <2>2, <2>3
<1>6. \A i \in 1 .. Len(a) + Len(b) :
        i \in 1 .. Len(a) \/ \E j \in 1 .. Len(b) : i = Len(a) + j
  <2> SUFFICES ASSUME NEW i \in 1 .. Len(a) + Len(b), i \notin 1 .. Len(a)
               PROVE  \E j \in 1 .. Len(b) : i = Len(a) + j
    OBVIOUS
  <2>1. i - Len(a) \in 1 .. Len(b) /\ i = Len(a) + (i - Len(a))
    BY <1>1
  <2>2. QED
    BY <2>1
<1>7. /\ Stamp(c, n) = {x(c, n, i) : i \in 1 .. Len(a) + Len(b)}
      /\ Stamp(a, n) = {x(a, n, i) : i \in 1 .. Len(a)}
      /\ Stamp(b, n + Len(a)) = {x(b, n + Len(a), i) : i \in 1 .. Len(b)}
  BY <1>1, <1>3 DEF Stamp
<1> HIDE DEF x, c
<1>8. Stamp(c, n) = Stamp(a, n) \union Stamp(b, n + Len(a))
  BY <1>4, <1>5, <1>6, <1>7
<1>9. QED
  BY <1>1, <1>2, <1>8 DEF c

LEMMA StampNothing == ASSUME NEW n PROVE Stamp(<<>>, n) = {}
BY DEF Stamp

LEMMA StampOne ==
  ASSUME NEW w, NEW p, NEW kind, NEW r, NEW who, NEW val, NEW n \in Nat
  PROVE  \E x \in EventsAt({w}, p, kind, r, who, val) :
           Stamp(<<Event(w, p, kind, r, who, val)>>, n) = {x}
<1> DEFINE e == Event(w, p, kind, r, who, val)
           x == [e EXCEPT !.seq = n + 1 - 1]
<1>1. DOMAIN <<e>> = {1} /\ <<e>>[1] = e
  OBVIOUS
<1>2. Stamp(<<e>>, n) = {x}
  BY <1>1 DEF Stamp
<1>3. n + 1 - 1 \in Nat
  OBVIOUS
<1>4. x \in EventsAt({w}, p, kind, r, who, val)
  BY <1>3 DEF Event, EventsAt
<1>5. QED
  BY <1>2, <1>4

LEMMA StampCopies ==
  ASSUME NEW t \in Int, NEW s, NEW d,
         ClassicalDelay(config, s, d) \in Nat, config.sender[s][d] \in Nat,
         NEW kind, NEW r, NEW who, NEW val, NEW out \in Seq(Nat), NEW n \in Nat
  PROVE  Stamp(Copies(t, s, d, kind, r, who, val, out), n)
           \subseteq EventsAt(From(t + (ClassicalDelay(config, s, d) + config.sender[s][d])),
                              PhysicalArrival, kind, r, who, val)
<1> DEFINE a == ClassicalDelay(config, s, d)
           b == config.sender[s][d]
           w(i) == t + a + b + out[i]
           e(i) == Event(w(i), PhysicalArrival, kind, r, who, val)
           x(i) == [e(i) EXCEPT !.seq = n + i - 1]
<1>1. Len(out) \in Nat /\ DOMAIN out = 1 .. Len(out) /\ \A i \in 1 .. Len(out) : out[i] \in Nat
  BY LenProperties, ElementOfSeq
<1>2. Copies(t, s, d, kind, r, who, val, out) = [i \in 1 .. Len(out) |-> e(i)]
  BY <1>1 DEF Copies
<1>3. Stamp([i \in 1 .. Len(out) |-> e(i)], n) = {x(i) : i \in 1 .. Len(out)}
  BY DEF Stamp
<1>4. ASSUME NEW i \in 1 .. Len(out)
      PROVE  /\ w(i) \in From(t + (a + b)) /\ n + i - 1 \in Nat
  <2>1. a \in Nat /\ b \in Nat /\ out[i] \in Nat
    BY <1>1
  <2> HIDE DEF a, b
  <2>2. QED
    BY <1>1, <2>1 DEF From
<1> HIDE DEF w
<1>5. ASSUME NEW i \in 1 .. Len(out)
      PROVE  x(i) \in EventsAt(From(t + (a + b)), PhysicalArrival, kind, r, who, val)
  BY <1>4, <1>5 DEF Event, EventsAt
<1> HIDE DEF x, e
<1>6. QED
  BY <1>1, <1>2, <1>3, <1>5

\* A copy nobody delays arrives one classical delay later.
LEMMA PromptCopy ==
  ASSUME NEW t \in Int, NEW s, NEW d, ClassicalDelay(config, s, d) \in Nat,
         config.sender[s][d] = 0,
         NEW kind, NEW r, NEW who, NEW val, NEW out \in Seq(Nat), NEW n \in Nat,
         NEW i \in DOMAIN out, out[i] = 0
  PROVE  \E x \in Stamp(Copies(t, s, d, kind, r, who, val, out), n) :
           x.when = t + ClassicalDelay(config, s, d)
<1> DEFINE a == ClassicalDelay(config, s, d)
           e(j) == Event(t + a + config.sender[s][d] + out[j], PhysicalArrival, kind, r, who, val)
           x(j) == [e(j) EXCEPT !.seq = n + j - 1]
<1>1. Len(out) \in Nat /\ DOMAIN out = 1 .. Len(out)
  BY LenProperties
<1>2. Copies(t, s, d, kind, r, who, val, out) = [j \in 1 .. Len(out) |-> e(j)]
  BY <1>1 DEF Copies
<1>3. Stamp([j \in 1 .. Len(out) |-> e(j)], n) = {x(j) : j \in 1 .. Len(out)}
  BY DEF Stamp
<1>4. x(i).when = t + a + config.sender[s][d] + out[i]
  BY DEF Event
<1>5. t + a + config.sender[s][d] + out[i] = t + a
  <2>1. a \in Nat
    OBVIOUS
  <2> HIDE DEF a
  <2>2. QED
    BY <2>1
<1> HIDE DEF x, e
<1>6. QED
  BY <1>1, <1>2, <1>3, <1>4, <1>5

LEMMA StampTwo ==
  ASSUME NEW a \in EventType, NEW b \in EventType, NEW n \in Nat
  PROVE  Stamp(<<a, b>>, n) = Stamp(<<a>>, n) \union Stamp(<<b>>, n + 1)
<1>1. /\ DOMAIN <<a, b>> = {1, 2} /\ <<a, b>>[1] = a /\ <<a, b>>[2] = b
      /\ DOMAIN <<a>> = {1} /\ <<a>>[1] = a /\ DOMAIN <<b>> = {1} /\ <<b>>[1] = b
  OBVIOUS
<1>2. n + 2 - 1 = (n + 1) + 1 - 1 /\ n + 1 - 1 = n
  OBVIOUS
<1> DEFINE x == [a EXCEPT !.seq = n + 1 - 1]
           y == [b EXCEPT !.seq = n + 2 - 1]
<1>3. Stamp(<<a>>, n) = {x}
  BY <1>1 DEF Stamp
<1>4. Stamp(<<b>>, n + 1) = {y}
  BY <1>1, <1>2 DEF Stamp
<1>5. Stamp(<<a, b>>, n) = {x, y}
  BY <1>1 DEF Stamp
<1>6. QED
  BY <1>3, <1>4, <1>5

\* The kinds whose events neither touch a memory nor say anything of a
\* measurement.
QuietKinds ==
  {"epr", "challenge", "intercept", "replacement", "photon", "qnd", "gate", "send",
   "basis", "commitment", "timeout"}

QuietEvents(r, t) ==
  {x \in EventType : /\ x.kind \in QuietKinds /\ x.round = r /\ x.when \in From(t)
                     /\ x.kind = "timeout" => x.phase = Timeout}

\* The handler of e leaves events of N behind, and no others.
Leaves(e, N) == queue' = (queue \ {e}) \union N

LEMMA QuietEvent ==
  ASSUME NEW t \in Int, NEW w \in From(t), NEW p \in Phases, NEW kind \in QuietKinds,
         NEW r \in Rounds, NEW who \in ActorsOf(kind), NEW val \in Nat,
         kind = "timeout" => p = Timeout
  PROVE  Event(w, p, kind, r, who, val) \in QuietEvents(r, t)
<1>1. kind \in Kinds /\ w \in Int
  BY DEF QuietKinds, Kinds, MessageKinds, From
<1>2. who \in Nodes
  BY DEF ActorsOf, Nodes, Holders, Verifiers
<1>3. Event(w, p, kind, r, who, val) \in EventType
  BY <1>1, <1>2, SMT DEF Event, EventType
<1>4. QED
  BY <1>3 DEF Event, QuietEvents

LEMMA StampQuiet ==
  ASSUME NEW r, NEW t, NEW evs \in Seq(QuietEvents(r, t)), NEW n \in Nat
  PROVE  Stamp(evs, n) \subseteq QuietEvents(r, t)
<1> SUFFICES ASSUME NEW i \in DOMAIN evs
             PROVE  [evs[i] EXCEPT !.seq = n + i - 1] \in QuietEvents(r, t)
  BY DEF Stamp
<1>1. i \in 1 .. Len(evs) /\ evs[i] \in QuietEvents(r, t)
  BY LenProperties, ElementOfSeq
<1>2. n + i - 1 \in Nat
  BY <1>1, LenProperties, SMT
<1> DEFINE x == evs[i]
           y == [x EXCEPT !.seq = n + i - 1]
<1>3. /\ y.kind = x.kind /\ y.who = x.who /\ y.round = x.round /\ y.when = x.when
      /\ y.phase = x.phase
  BY <1>1 DEF QuietEvents, EventType
<1>4. y \in EventType
  BY <1>1, <1>2, <1>3 DEF QuietEvents, EventType
<1>5. QED
  BY <1>1, <1>3, <1>4 DEF QuietEvents

LEMMA QuietReturn ==
  ASSUME TypeOK, NEW e \in queue, NEW evs \in Seq(QuietEvents(e.round, e.when)),
         Return(e, evs)
  PROVE  \E N \in SUBSET QuietEvents(e.round, e.when) : Leaves(e, N)
<1>1. nextSeq \in Nat
  BY DEF TypeOK, QueueType
<1>2. QED
  BY <1>1, StampQuiet DEF Return, Leaves

\* One message to or from the prover, or to the controller.
LEMMA MessageCopies ==
  ASSUME config \in Configs, NEW t \in Int, NEW v \in Verifiers, NEW kind \in MessageKinds,
         NEW r \in Rounds, NEW val \in Nat, NEW out \in config.tamper[kind], NEW n \in Nat,
         NEW s, NEW d,
         <<s, d>> \in {<<"prover", v>>, <<v, "prover">>, <<v, "controller">>}
  PROVE  LET evs    == Copies(t, s, d, kind, r, v, val, out)
             travel == ClassicalDelay(config, s, d) + config.sender[s][d]
         IN  /\ travel \in Nat
             /\ Stamp(evs, n)
                  \subseteq EventsAt(From(t + travel), PhysicalArrival, kind, r, v, val)
             /\ evs \in Seq(FollowUps(r)) /\ evs \in Seq(EventType)
             /\ kind \in QuietKinds => evs \in Seq(QuietEvents(r, t))
<1> DEFINE evs    == Copies(t, s, d, kind, r, v, val, out)
           travel == ClassicalDelay(config, s, d) + config.sender[s][d]
<1>1. out \in Seq(Nat)
  BY ConfigTypes
<1>2. ClassicalDelay(config, s, d) \in Nat /\ config.sender[s][d] \in Nat
  BY ConfigTypes, MessageDelays
<1>3. travel \in Nat
  BY <1>2
<1>4. Stamp(evs, n) \subseteq EventsAt(From(t + travel), PhysicalArrival, kind, r, v, val)
  BY <1>1, <1>2, StampCopies
<1>5. evs \in Seq(FollowUps(r))
  BY <1>1, <1>2, CopiesAreFollowUps
<1>6. evs \in Seq(EventType)
  BY <1>5, FollowUpIsEvent, WiderSeq
<1>7. ASSUME kind \in QuietKinds PROVE evs \in Seq(QuietEvents(r, t))
  <2> DEFINE a == ClassicalDelay(config, s, d)
             b == config.sender[s][d]
             e(i) == Event(t + a + b + out[i], PhysicalArrival, kind, r, v, val)
  <2>1. /\ Len(out) \in Nat /\ DOMAIN out = 1 .. Len(out)
        /\ \A i \in 1 .. Len(out) : out[i] \in Nat
    BY <1>1, LenProperties, ElementOfSeq
  <2>2. evs = [i \in 1 .. Len(out) |-> e(i)]
    BY <2>1 DEF Copies
  <2>3. ASSUME NEW i \in 1 .. Len(out) PROVE e(i) \in QuietEvents(r, t)
    <3> DEFINE w == t + a + b + out[i]
    <3>1. w \in From(t)
      <4>1. a \in Nat /\ b \in Nat /\ out[i] \in Nat
        BY <1>2, <2>1
      <4> HIDE DEF a, b
      <4>2. QED
        BY <4>1 DEF From
    <3>2. PhysicalArrival \in Phases /\ v \in ActorsOf(kind) /\ kind # "timeout"
      BY PhasesAndKinds DEF MessageKinds
    <3> HIDE DEF w
    <3>3. Event(w, PhysicalArrival, kind, r, v, val) \in QuietEvents(r, t)
      BY <1>7, <3>1, <3>2, QuietEvent
    <3>4. QED
      BY <3>3 DEF w
  <2> HIDE DEF e
  <2>4. [i \in 1 .. Len(out) |-> e(i)] \in [1 .. Len(out) -> QuietEvents(r, t)]
    BY <2>3
  <2>5. QED
    BY <2>1, <2>2, <2>4, SeqDef
<1>8. QED
  BY <1>3, <1>4, <1>5, <1>6, <1>7

LEMMA QuietBroadcast ==
  ASSUME config \in Configs, NEW t \in Int, NEW r \in Rounds, NEW val \in Nat,
         NEW outs \in Pairs("commitment")
  PROVE  Broadcast(t, "commitment", r, val, outs) \in Seq(QuietEvents(r, t))
<1>1. /\ "v0" \in Verifiers /\ "v1" \in Verifiers /\ "commitment" \in MessageKinds
      /\ "commitment" \in QuietKinds /\ 0 \in Nat
      /\ outs[1] \in config.tamper["commitment"] /\ outs[2] \in config.tamper["commitment"]
  BY DEF Verifiers, MessageKinds, QuietKinds, Pairs
<1>2. Copies(t, "prover", "v0", "commitment", r, "v0", val, outs[1]) \in Seq(QuietEvents(r, t))
  BY <1>1, MessageCopies
<1>3. Copies(t, "prover", "v1", "commitment", r, "v1", val, outs[2]) \in Seq(QuietEvents(r, t))
  BY <1>1, MessageCopies
<1>4. QED
  BY <1>2, <1>3, ConcatProperties DEF Broadcast

LEMMA CommitLeaves ==
  ASSUME TypeOK, NEW e \in queue, NEW outcome, Commit(e, outcome)
  PROVE  \E N \in SUBSET QuietEvents(e.round, e.when) : Leaves(e, N)
<1> DEFINE val == IF outcome = "dark_count" THEN 1 ELSE 0
<1>1. PICK outs \in Pairs("commitment") :
        Return(e, Broadcast(e.when, "commitment", e.round, val, outs))
  BY DEF Commit
<1>2. e.when \in Int /\ e.round \in Rounds /\ config \in Configs /\ val \in Nat
  BY TypesOfEvent DEF TypeOK
<1> HIDE DEF val
<1>3. Broadcast(e.when, "commitment", e.round, val, outs)
        \in Seq(QuietEvents(e.round, e.when))
  BY <1>2, QuietBroadcast
<1>4. QED
  BY <1>1, <1>3, QuietReturn

LEMMA NothingLeft ==
  ASSUME TypeOK, NEW e \in queue, Return(e, <<>>)
  PROVE  Leaves(e, {})
BY StampNothing DEF Return, Leaves

LEMMA NothingIsQuiet ==
  ASSUME TypeOK, NEW e \in queue, Return(e, <<>>)
  PROVE  \E N \in SUBSET QuietEvents(e.round, e.when) : Leaves(e, N)
BY NothingLeft

\* The handler that schedules one quiet event.
LEMMA OneQuiet ==
  ASSUME TypeOK, NEW e \in queue, NEW w \in From(e.when), NEW p \in Phases,
         NEW kind \in QuietKinds, NEW who \in ActorsOf(kind), kind # "timeout",
         Return(e, <<Event(w, p, kind, e.round, who, 0)>>)
  PROVE  \E N \in SUBSET QuietEvents(e.round, e.when) : Leaves(e, N)
<1> DEFINE x == Event(w, p, kind, e.round, who, 0)
<1>1. x \in QuietEvents(e.round, e.when)
  <2>1. e.when \in Int /\ e.round \in Rounds /\ 0 \in Nat
    BY TypesOfEvent
  <2>2. QED
    BY <2>1, QuietEvent
<1> HIDE DEF x
<1>2. <<x>> \in Seq(QuietEvents(e.round, e.when))
  BY <1>1
<1>3. Return(e, <<x>>)
  BY DEF x
<1>4. QED
  BY <1>2, <1>3, QuietReturn

LEMMA PhotonLeaves ==
  ASSUME TypeOK, NEW e \in queue,
         \/ SendChallenge(e) \/ InterceptDone(e) \/ SendReplacement(e) \/ PairFails(e)
         \/ PhotonArrives(e) \/ GateCloses(e) \/ Expire(e) \/ RejectPlan(e)
         \/ ReportArrives(e) \/ FinalTimesOut(e)
  PROVE  \E N \in SUBSET QuietEvents(e.round, e.when) : Leaves(e, N)
<1>1. e.when \in Int /\ e.round \in Rounds /\ config \in Configs
  BY TypesOfEvent DEF TypeOK
<1>2. CASE Return(e, <<>>)
  BY <1>2, NothingIsQuiet
<1>3. CASE \E outcome : Commit(e, outcome)
  BY <1>3, CommitLeaves
<1>4. /\ {"intercept", "photon", "replacement", "qnd"} \subseteq QuietKinds
      /\ {DeviceCompletion, PhysicalArrival, Protocol} \subseteq Phases
      /\ "attacker" \in ActorsOf("intercept") /\ "attacker" \in ActorsOf("replacement")
      /\ "prover" \in ActorsOf("photon") /\ "prover" \in ActorsOf("qnd")
  BY PhasesAndKinds DEF QuietKinds
<1>5. CASE SendChallenge(e)
  <2>1. CASE Return(e, <<Event(e.when + config.intercept.toHim + config.intercept.process,
                               DeviceCompletion, "intercept", e.round, "attacker", 0)>>)
    <3>1. config.intercept.toHim \in Nat /\ config.intercept.process \in Nat
      BY <1>1, ConfigTypes
    <3>2. e.when + config.intercept.toHim + config.intercept.process \in From(e.when)
      BY <1>1, <3>1 DEF From
    <3>3. QED
      BY <1>4, <2>1, <3>2, OneQuiet
  <2>2. CASE \E d \in config.photonDelay :
               Return(e, <<Event(e.when + config.qLink + d, PhysicalArrival, "photon",
                                 e.round, "prover", 0)>>)
    <3>1. PICK d \in config.photonDelay :
            Return(e, <<Event(e.when + config.qLink + d, PhysicalArrival, "photon",
                              e.round, "prover", 0)>>)
      BY <2>2
    <3>2. config.qLink \in Nat /\ d \in Nat
      BY <1>1, ConfigTypes, TimingTypes
    <3>3. e.when + config.qLink + d \in From(e.when)
      BY <1>1, <3>2 DEF From
    <3>4. QED
      BY <1>4, <3>1, <3>3, OneQuiet
  <2>3. QED
    BY <1>2, <1>5, <2>1, <2>2 DEF SendChallenge, Passes
<1>6. CASE InterceptDone(e)
  <2>1. config.intercept.prepare \in Nat
    BY <1>1, ConfigTypes
  <2>2. e.when + config.intercept.prepare \in From(e.when)
    BY <1>1, <2>1 DEF From
  <2>3. QED
    BY <1>4, <1>6, <2>2, OneQuiet DEF InterceptDone, Passes
<1>7. CASE SendReplacement(e)
  <2>1. config.intercept.toProver \in Nat
    BY <1>1, ConfigTypes
  <2>2. e.when + config.intercept.toProver \in From(e.when)
    BY <1>1, <2>1 DEF From
  <2>3. QED
    BY <1>4, <1>7, <2>2, OneQuiet DEF SendReplacement, Passes
<1>8. CASE PhotonArrives(e)
  <2>1. config.qnd \in Nat
    BY <1>1, ConfigTypes
  <2>2. e.when + config.qnd \in From(e.when)
    BY <1>1, <2>1 DEF From
  <2>3. CASE Return(e, <<Event(e.when + config.qnd, DeviceCompletion, "qnd", e.round,
                               "prover", 0)>>)
    BY <1>4, <2>2, <2>3, OneQuiet
  <2>4. QED
    BY <1>2, <1>3, <1>8, <2>3 DEF PhotonArrives, Resolved, Passes
<1>9. CASE GateCloses(e)
  BY <1>2, <1>3, <1>9 DEF GateCloses, Resolved, Passes
<1>10. CASE PairFails(e) \/ Expire(e) \/ RejectPlan(e) \/ ReportArrives(e) \/ FinalTimesOut(e)
  BY <1>2, <1>10 DEF PairFails, Expire, RejectPlan, ReportArrives, FinalTimesOut
<1>11. QED
  BY <1>5, <1>6, <1>7, <1>8, <1>9, <1>10

LEMMA SendLeaves ==
  ASSUME TypeOK, NEW e \in queue, SendBasis(e)
  PROVE  \E N \in SUBSET QuietEvents(e.round, e.when) : Leaves(e, N)
<1>1. /\ e.when \in Int /\ e.round \in Rounds /\ config \in Configs /\ e.who \in Verifiers
      /\ "basis" \in MessageKinds /\ "basis" \in QuietKinds /\ 0 \in Nat
  BY TypesOfEvent, ActorOfEvent DEF TypeOK, SendBasis, Handle, MessageKinds, QuietKinds
<1>2. PICK out \in config.tamper["basis"] :
        Return(e, Copies(e.when, e.who, "prover", "basis", e.round, e.who, 0, out))
  BY DEF SendBasis, Passes
<1>3. Copies(e.when, e.who, "prover", "basis", e.round, e.who, 0, out)
        \in Seq(QuietEvents(e.round, e.when))
  BY <1>1, MessageCopies
<1>4. QED
  BY <1>2, <1>3, QuietReturn

LEMMA FailedLoadLeaves ==
  ASSUME TypeOK, NEW e \in queue, LoadFails(e)
  PROVE  \E N \in SUBSET QuietEvents(e.round, e.when) : Leaves(e, N)
<1>1. /\ e.when \in Int /\ e.round \in Rounds /\ config \in Configs /\ 0 \in Nat
  BY TypesOfEvent DEF TypeOK
<1>2. CASE Return(e, <<>>)
  BY <1>2, NothingIsQuiet
<1>3. CASE \E outs \in Pairs("commitment") :
             Return(e, Broadcast(e.when, "commitment", e.round, 0, outs))
  <2>1. PICK outs \in Pairs("commitment") :
          Return(e, Broadcast(e.when, "commitment", e.round, 0, outs))
    BY <1>3
  <2>2. Broadcast(e.when, "commitment", e.round, 0, outs)
          \in Seq(QuietEvents(e.round, e.when))
    BY <1>1, QuietBroadcast
  <2>3. QED
    BY <2>1, <2>2, QuietReturn
<1>4. QED
  BY <1>2, <1>3 DEF LoadFails

LEMMA StartLeaves ==
  ASSUME TypeOK, Agenda, NEW e \in queue, StartRound(e)
  PROVE  \E N \in SUBSET QuietEvents(e.round, e.when) : Leaves(e, N)
<1> DEFINE r == e.round
           t == e.when
           opens == Larger(t, ChallengeAt(config, r) + config.qGeo - config.gateWidth \div 2)
           closes == opens + config.gateWidth
           due == t + config.epr
           e1 == Event(closes, Timeout, "gate", r, "prover", 0)
           e2 == Event(due, DeviceCompletion, "epr", r, "v0", 0)
           e3 == Event(SkewedBasis(r, "v0"), Protocol, "send", r, "v0", 0)
           e4 == Event(SkewedBasis(r, "v1"), Protocol, "send", r, "v1", 0)
           e5 == Event(RoundTimeoutAt(config, r), Timeout, "timeout", r, "controller", 0)
<1>1. t \in Int /\ r \in Rounds /\ config \in Configs /\ "v0" \in Verifiers /\ "v1" \in Verifiers
      /\ r \in Nat /\ TimingConfig(config)
  BY TypesOfEvent, RoundIsNat, ConfigTypes DEF TypeOK, Verifiers
<1>2. closes \in From(t)
  <2>1. ChallengeAt(config, r) \in Int /\ config.qGeo \in Nat /\ config.gateWidth \in Nat
    BY <1>1, RoundPlanTypes, ConfigTypes, TimingTypes
  <2>2. config.gateWidth \div 2 \in Int
    BY <2>1, SMT
  <2> DEFINE u == ChallengeAt(config, r) + config.qGeo - config.gateWidth \div 2
  <2> HIDE DEF t, r
  <2>3. u \in Int
    BY <2>1, <2>2
  <2> HIDE DEF u
  <2>4. Larger(t, u) \in Int /\ Larger(t, u) >= t
    BY <1>1, <2>3 DEF Larger
  <2>5. opens \in Int /\ opens >= t
    BY <2>4 DEF u
  <2> HIDE DEF opens
  <2>6. QED
    BY <1>1, <2>1, <2>5 DEF From
<1>3. due \in From(t)
  <2>1. config.epr \in Nat
    BY <1>1, ConfigTypes
  <2>2. QED
    BY <1>1, <2>1 DEF From
<1>4. SkewedBasis(r, "v0") \in From(t) /\ SkewedBasis(r, "v1") \in From(t)
  <2>1. SkewedBasis(r, "v0") \in Int /\ SkewedBasis(r, "v1") \in Int
    BY <1>1, RoundPlanTypes
  <2>2. \A v \in Verifiers : SkewedBasis(r, v) >= t
    BY DEF StartRound
  <2>3. QED
    BY <1>1, <2>1, <2>2 DEF From
<1>5. RoundTimeoutAt(config, r) \in From(t)
  <2>1. t = RoundStartAt(config, r)
    BY DEF Agenda, StartsAreAhead, StartRound, Handle
  <2>2. RoundTimeoutAt(config, r) >= RoundStartAt(config, r)
    BY <1>1, TimeoutAfterStart
  <2>3. QED
    BY <1>1, <2>1, <2>2, RoundPlanTypes DEF From
<1>6. /\ {Timeout, DeviceCompletion, Protocol} \subseteq Phases /\ 0 \in Nat
      /\ {"gate", "epr", "send", "timeout"} \subseteq QuietKinds
      /\ "prover" \in ActorsOf("gate") /\ "v0" \in ActorsOf("epr")
      /\ "v0" \in ActorsOf("send") /\ "v1" \in ActorsOf("send")
      /\ "controller" \in ActorsOf("timeout")
  BY PhasesAndKinds DEF QuietKinds, ActorsOf, Nodes, MessageKinds
<1> HIDE DEF closes, due
<1>7. {e1, e2, e3, e4, e5} \subseteq QuietEvents(r, t)
  <2>1. e1 \in QuietEvents(r, t)
    BY <1>1, <1>2, <1>6, QuietEvent
  <2>2. e2 \in QuietEvents(r, t)
    BY <1>1, <1>3, <1>6, QuietEvent
  <2>3. e3 \in QuietEvents(r, t) /\ e4 \in QuietEvents(r, t)
    BY <1>1, <1>4, <1>6, QuietEvent
  <2>4. e5 \in QuietEvents(r, t)
    BY <1>1, <1>5, <1>6, QuietEvent
  <2>5. QED
    BY <2>1, <2>2, <2>3, <2>4
<1>8. Return(e, <<e1, e2, e3, e4, e5>>)
  BY DEF StartRound, RoundEvents, closes, opens, due
<1> HIDE DEF e1, e2, e3, e4, e5
<1>9. <<e1, e2, e3, e4, e5>> \in Seq(QuietEvents(r, t))
  BY <1>7
<1>10. QED
  BY <1>8, <1>9, QuietReturn

-----------------------------------------------------------------------------
(* Handlers that touch memories, measure or report. *)

LoadsAt(t, m, r) == EventsAt({t + config.load[m]}, DeviceCompletion, "load", r, m, 0)

ExpiriesAt(t, m, r, gen) == EventsAt({t + config.hold[m]}, Timeout, "expire", r, m, gen)

RetrievesAt(t, m, r) ==
  EventsAt({t + config.retrieve[m]}, DeviceCompletion, "retrieve", r, m, 0)

MeasuredAt(t, m, r) ==
  EventsAt({t + config.switch[m] + config.measure[m]}, DeviceCompletion, "measured", r, m, 0)

\* What Expiry and Retrievals add to the heap.
ExpiryLeft(X, t, m, r, gen) ==
  IF config.hold[m] = None THEN X = {} ELSE \E x \in ExpiriesAt(t, m, r, gen) : X = {x}

RetrievalsLeft(X, t, r, rd, mm) ==
  IF CanMeasure(rd, mm)
  THEN \E x \in RetrievesAt(t, "prover", r), y \in RetrievesAt(t, "v0", r) : X = {x, y}
  ELSE X = {}

LEMMA LoadLeaves ==
  ASSUME TypeOK, NEW e \in queue, NEW m, Return(e, <<LoadEvent(e.when, m, e.round)>>)
  PROVE  \E x \in LoadsAt(e.when, m, e.round) : Leaves(e, {x})
<1>1. nextSeq \in Nat
  BY DEF TypeOK, QueueType
<1>2. PICK x \in LoadsAt(e.when, m, e.round) :
        Stamp(<<LoadEvent(e.when, m, e.round)>>, nextSeq) = {x}
  BY <1>1, StampOne DEF LoadsAt, LoadEvent
<1>3. QED
  BY <1>2 DEF Return, Leaves

LEMMA PairLeaves ==
  ASSUME TypeOK, NEW e \in queue, PairReady(e)
  PROVE  \E x \in LoadsAt(e.when, "v0", e.round), N \in SUBSET QuietEvents(e.round, e.when) :
           Leaves(e, {x} \union N)
<1> DEFINE later == Larger(e.when, SkewedChallenge(e.round))
           load  == LoadEvent(e.when, "v0", e.round)
           send  == Event(later, Protocol, "challenge", e.round, "v0", 0)
<1>1. /\ e.when \in Int /\ e.round \in Rounds /\ config \in Configs /\ nextSeq \in Nat
      /\ "v0" \in Holders
  BY TypesOfEvent DEF TypeOK, QueueType, Holders
<1>2. later \in From(e.when)
  <2>1. ChallengeAt(config, e.round) \in Int /\ config.skew.challenge \in Int
    BY <1>1, RoundPlanTypes, ConfigTypes
  <2>2. SkewedChallenge(e.round) \in Int
    BY <2>1 DEF SkewedChallenge
  <2>3. QED
    BY <1>1, <2>2 DEF Larger, From
<1> HIDE DEF later
<1>3. send \in QuietEvents(e.round, e.when)
  <2>1. Protocol \in Phases /\ "challenge" \in QuietKinds /\ "v0" \in ActorsOf("challenge")
    BY PhasesAndKinds DEF QuietKinds
  <2>2. QED
    BY <1>1, <1>2, <2>1, QuietEvent
<1>4. load \in EventType
  <2>1. config.load["v0"] \in Nat
    BY <1>1, ConfigTypes
  <2>2. e.when + config.load["v0"] \in Int
    BY <1>1, <2>1
  <2>3. load \in FollowUps(e.round)
    BY <1>1, <2>2, PhasesAndKinds, EventIsFollowUp DEF LoadEvent
  <2>4. QED
    BY <1>1, <2>3, FollowUpIsEvent
<1>5. Return(e, <<load, send>>)
  BY DEF PairReady, load, send, later
<1>6. PICK x \in LoadsAt(e.when, "v0", e.round) : Stamp(<<load>>, nextSeq) = {x}
  BY <1>1, StampOne DEF LoadsAt, LoadEvent
<1> HIDE DEF load, send
<1>7. <<send>> \in Seq(QuietEvents(e.round, e.when)) /\ send \in EventType
  BY <1>3 DEF QuietEvents
<1>8. Stamp(<<load, send>>, nextSeq)
        = Stamp(<<load>>, nextSeq) \union Stamp(<<send>>, nextSeq + 1)
  BY <1>1, <1>4, <1>7, StampTwo
<1>9. Stamp(<<send>>, nextSeq + 1) \subseteq QuietEvents(e.round, e.when)
  <2>1. nextSeq + 1 \in Nat
    BY <1>1
  <2>2. QED
    BY <1>7, <2>1, StampQuiet
<1>10. QED
  BY <1>5, <1>6, <1>8, <1>9 DEF Return, Leaves

LEMMA ExpiryStamp ==
  ASSUME NEW t, NEW m, NEW r, NEW gen, NEW n \in Nat
  PROVE  ExpiryLeft(Stamp(Expiry(t, m, r, gen), n), t, m, r, gen)
<1>1. CASE config.hold[m] = None
  BY <1>1, StampNothing DEF Expiry, ExpiryLeft
<1>2. CASE config.hold[m] # None
  BY <1>2, StampOne DEF Expiry, ExpiryLeft, ExpiriesAt
<1>3. QED
  BY <1>1, <1>2

LEMMA RetrievalsStamp ==
  ASSUME config \in Configs, NEW t \in Int, NEW r \in Rounds, NEW rd, NEW mm, NEW n \in Nat
  PROVE  RetrievalsLeft(Stamp(Retrievals(t, r, rd, mm), n), t, r, rd, mm)
<1>1. CASE ~CanMeasure(rd, mm)
  BY <1>1, StampNothing DEF Retrievals, RetrievalsLeft
<1>2. CASE CanMeasure(rd, mm)
  <2> DEFINE e1 == Event(t + config.retrieve["prover"], DeviceCompletion, "retrieve", r, "prover", 0)
             e2 == Event(t + config.retrieve["v0"], DeviceCompletion, "retrieve", r, "v0", 0)
  <2>1. e1 \in FollowUps(r) /\ e2 \in FollowUps(r)
    <3>1. t + config.retrieve["prover"] \in Int /\ t + config.retrieve["v0"] \in Int
      <4>1. config.retrieve["prover"] \in Nat /\ config.retrieve["v0"] \in Nat
        BY ConfigTypes DEF Holders
      <4>2. QED
        BY <4>1
    <3>2. QED
      BY <3>1, PhasesAndKinds, EventIsFollowUp
  <2>2. PICK x \in RetrievesAt(t, "prover", r) : Stamp(<<e1>>, n) = {x}
    BY StampOne DEF RetrievesAt
  <2>3. n + 1 \in Nat
    OBVIOUS
  <2>4. PICK y \in RetrievesAt(t, "v0", r) : Stamp(<<e2>>, n + 1) = {y}
    BY <2>3, StampOne DEF RetrievesAt
  <2>5. Retrievals(t, r, rd, mm) = <<e1, e2>>
    BY <1>2 DEF Retrievals
  <2> HIDE DEF e1, e2
  <2>6. e1 \in EventType /\ e2 \in EventType
    BY <2>1, FollowUpIsEvent
  <2>7. Stamp(<<e1, e2>>, n) = Stamp(<<e1>>, n) \union Stamp(<<e2>>, n + 1)
    BY <2>6, StampTwo
  <2>8. Stamp(Retrievals(t, r, rd, mm), n) = {x, y}
    BY <2>2, <2>4, <2>5, <2>7
  <2>9. QED
    BY <1>2, <2>8 DEF RetrievalsLeft
<1>3. QED
  BY <1>1, <1>2

LEMMA BasisLeaves ==
  ASSUME TypeOK, NEW e \in queue, BasisArrives(e)
  PROVE  \E R : /\ RetrievalsLeft(R, e.when, e.round,
                                  [round[e.round] EXCEPT !.arrival[e.who] = e.when], mem)
                /\ Leaves(e, R)
<1> DEFINE rd == [round[e.round] EXCEPT !.arrival[e.who] = e.when]
<1>1. e.when \in Int /\ e.round \in Rounds /\ config \in Configs /\ nextSeq \in Nat
  BY TypesOfEvent DEF TypeOK, QueueType
<1>2. Return(e, Retrievals(e.when, e.round, rd, mem))
  BY DEF BasisArrives
<1> HIDE DEF rd
<1>3. RetrievalsLeft(Stamp(Retrievals(e.when, e.round, rd, mem), nextSeq), e.when, e.round,
                     rd, mem)
  BY <1>1, RetrievalsStamp
<1>4. QED
  BY <1>2, <1>3 DEF Return, Leaves, rd

LEMMA RetrievedLeaves ==
  ASSUME TypeOK, NEW e \in queue, RetrieveDone(e), status' \notin Errors
  PROVE  Leaves(e, {}) \/ \E x \in MeasuredAt(e.when, e.who, e.round) : Leaves(e, {x})
<1>1. nextSeq \in Nat
  BY DEF TypeOK, QueueType
<1>2. CASE Return(e, <<>>)
  BY <1>2, NothingLeft
<1>3. CASE Return(e, <<Event(e.when + config.switch[e.who] + config.measure[e.who],
                             DeviceCompletion, "measured", e.round, e.who, 0)>>)
  BY <1>1, <1>3, StampOne DEF Return, Leaves, MeasuredAt
<1>4. QED
  BY <1>2, <1>3 DEF RetrieveDone, Raise, Errors

\* The runtime and the memories after the load of e, before _try_measure.
LoadedRound(e) ==
  IF e.who = "v0" THEN round[e.round]
  ELSE [round[e.round] EXCEPT !.committed = TRUE, !.valid = TRUE, !.commitAt = e.when]

LoadedMem(e) ==
  [mem EXCEPT ![e.who] = [@ EXCEPT !.state = "stored", !.holds = e.round, !.storedAt = e.when]]

LEMMA LoadedLeaves ==
  ASSUME TypeOK, NEW e \in queue, LoadDone(e)
  PROVE  \E X, R : \E N \in SUBSET QuietEvents(e.round, e.when) :
           /\ ExpiryLeft(X, e.when, e.who, e.round, mem[e.who].gen)
           /\ RetrievalsLeft(R, e.when, e.round, LoadedRound(e), LoadedMem(e))
           /\ Leaves(e, X \union N \union R)
<1> DEFINE t == e.when
           m == e.who
           r == e.round
           commit(outs) == IF m = "v0" THEN <<>> ELSE Broadcast(t, "commitment", r, 1, outs)
           expiry == Expiry(t, m, r, mem[m].gen)
           retrieval == Retrievals(t, r, LoadedRound(e), LoadedMem(e))
<1>1. PICK outs \in (IF m = "v0" THEN {<<>>} ELSE Pairs("commitment")) :
        Return(e, expiry \o commit(outs) \o retrieval)
  BY DEF LoadDone, LoadedRound, LoadedMem
<1>2. /\ t \in Int /\ r \in Rounds /\ config \in Configs /\ nextSeq \in Nat /\ 1 \in Nat
      /\ m \in Holders /\ mem[m].gen \in Nat
  BY TypesOfEvent, ActorOfEvent, SlotTypes DEF TypeOK, QueueType, LoadDone, Handle
<1>3. expiry \in Seq(EventType)
  BY <1>2, ExpiryFollowsUp, FollowUpIsEvent, WiderSeq
<1>4. retrieval \in Seq(EventType)
  BY <1>2, RetrievalsFollowUp, FollowUpIsEvent, WiderSeq
<1>5. commit(outs) \in Seq(QuietEvents(r, t)) /\ commit(outs) \in Seq(EventType)
  <2>1. commit(outs) \in Seq(QuietEvents(r, t))
    <3>1. CASE m = "v0"
      BY <3>1, NothingScheduled
    <3>2. CASE m # "v0"
      BY <1>1, <1>2, <3>2, QuietBroadcast
    <3>3. QED
      BY <3>1, <3>2
  <2>2. QuietEvents(r, t) \subseteq EventType
    BY DEF QuietEvents
  <2>3. QED
    BY <2>1, <2>2, WiderSeq
<1> DEFINE n1 == nextSeq + Len(expiry)
           n2 == nextSeq + Len(expiry \o commit(outs))
<1> HIDE DEF expiry, retrieval, commit
<1>6. /\ Stamp(expiry \o commit(outs), nextSeq)
           = Stamp(expiry, nextSeq) \union Stamp(commit(outs), n1)
      /\ n1 \in Nat /\ expiry \o commit(outs) \in Seq(EventType)
  BY <1>2, <1>3, <1>5, StampConcat
<1>7. /\ Stamp(expiry \o commit(outs) \o retrieval, nextSeq)
           = Stamp(expiry \o commit(outs), nextSeq) \union Stamp(retrieval, n2)
      /\ n2 \in Nat
  BY <1>2, <1>4, <1>6, StampConcat, ZenonT(60)
<1> HIDE DEF n1, n2
<1>8. ExpiryLeft(Stamp(expiry, nextSeq), t, m, r, mem[m].gen)
  BY <1>2, ExpiryStamp DEF expiry
<1>9. RetrievalsLeft(Stamp(retrieval, n2), t, r, LoadedRound(e), LoadedMem(e))
  BY <1>2, <1>7, RetrievalsStamp DEF retrieval
<1>10. Stamp(commit(outs), n1) \subseteq QuietEvents(r, t)
  BY <1>5, <1>6, StampQuiet
<1>11. Leaves(e, Stamp(expiry, nextSeq) \union Stamp(commit(outs), n1) \union Stamp(retrieval, n2))
  BY <1>1, <1>6, <1>7 DEF Return, Leaves
<1>12. QED
  BY <1>8, <1>9, <1>10, <1>11

\* The answers to both verifiers, and how long one to v is on its way.
AnswerTravel(v) == ClassicalDelay(config, "prover", v) + config.sender["prover"][v]

AnswersAt(t, v, r, bit) ==
  EventsAt(From(t + AnswerTravel(v)), PhysicalArrival, "answer", r, v, bit)

LEMMA AnswerLeaves ==
  ASSUME TypeOK, NEW e \in queue, NEW bit \in Nat, NEW outs \in Pairs("answer"),
         Return(e, Broadcast(e.when, "answer", e.round, bit, outs))
  PROVE  /\ \A v \in Verifiers : AnswerTravel(v) \in Nat
         /\ \E A \in SUBSET (UNION {AnswersAt(e.when, v, e.round, bit) : v \in Verifiers}) :
              Leaves(e, A)
<1> DEFINE a(v, i) == Copies(e.when, "prover", v, "answer", e.round, v, bit, outs[i])
<1>1. /\ e.when \in Int /\ e.round \in Rounds /\ config \in Configs /\ nextSeq \in Nat
      /\ "v0" \in Verifiers /\ "v1" \in Verifiers /\ "answer" \in MessageKinds
      /\ outs[1] \in config.tamper["answer"] /\ outs[2] \in config.tamper["answer"]
  BY TypesOfEvent DEF TypeOK, QueueType, Verifiers, MessageKinds, Pairs
<1>2. ASSUME NEW v \in Verifiers PROVE AnswerTravel(v) \in Nat
  <2>1. ClassicalDelay(config, "prover", v) \in Nat /\ config.sender["prover"][v] \in Nat
    BY <1>1, ConfigTypes, MessageDelays
  <2>2. QED
    BY <2>1 DEF AnswerTravel
<1>3. a("v0", 1) \in Seq(EventType) /\ a("v1", 2) \in Seq(EventType)
  BY <1>1, MessageCopies
<1>4. ASSUME NEW n \in Nat, NEW v \in Verifiers, NEW i, outs[i] \in config.tamper["answer"]
      PROVE  Stamp(a(v, i), n) \subseteq AnswersAt(e.when, v, e.round, bit)
  <2>1. /\ outs[i] \in Seq(Nat) /\ ClassicalDelay(config, "prover", v) \in Nat
        /\ config.sender["prover"][v] \in Nat
    BY <1>1, <1>4, ConfigTypes, MessageDelays
  <2> DEFINE travel == ClassicalDelay(config, "prover", v) + config.sender["prover"][v]
  <2>2. Stamp(a(v, i), n)
          \subseteq EventsAt(From(e.when + travel), PhysicalArrival, "answer", e.round, v, bit)
    BY <1>1, <2>1, StampCopies
  <2>3. QED
    BY <2>2 DEF AnswersAt, AnswerTravel
<1>5. Return(e, a("v0", 1) \o a("v1", 2))
  BY DEF Broadcast
<1> HIDE DEF a
<1>6. /\ Stamp(a("v0", 1) \o a("v1", 2), nextSeq)
           = Stamp(a("v0", 1), nextSeq) \union Stamp(a("v1", 2), nextSeq + Len(a("v0", 1)))
      /\ nextSeq + Len(a("v0", 1)) \in Nat
  BY <1>1, <1>3, StampConcat
<1>7. Stamp(a("v0", 1) \o a("v1", 2), nextSeq)
        \subseteq UNION {AnswersAt(e.when, v, e.round, bit) : v \in Verifiers}
  BY <1>1, <1>4, <1>6
<1>8. QED
  BY <1>2, <1>5, <1>7 DEF Return, Leaves

\* The report of v.
ReportsAt(t, v, r) == EventsAt(From(t), PhysicalArrival, "report", r, v, 0)

\* No jammer loses every copy of a report or delays them all, and v sends at once.
PromptReports(v) ==
  /\ config.sender[v]["controller"] = 0
  /\ \A out \in config.tamper["report"] : \E i \in DOMAIN out : out[i] = 0

ReportsLeft(P, t, v, r, reports) ==
  /\ P \subseteq ReportsAt(t, v, r)
  /\ ~reports => P = {}
  /\ reports /\ PromptReports(v) =>
       \E x \in P : x.when = t + ClassicalDelay(config, v, "controller")

LEMMA ReportStamp ==
  ASSUME config \in Configs, NEW t \in Int, NEW r \in Rounds, NEW v \in Verifiers, NEW rd,
         NEW force, NEW out \in config.tamper["report"], NEW n \in Nat
  PROVE  /\ ReportsLeft(Stamp(ReportCopies(t, r, v, rd, force, out), n), t, v, r,
                        Reports(v, rd, force))
         /\ ReportCopies(t, r, v, rd, force, out) \in Seq(EventType)
<1> DEFINE travel == ClassicalDelay(config, v, "controller") + config.sender[v]["controller"]
           evs == Copies(t, v, "controller", "report", r, v, 0, out)
<1>1. "report" \in MessageKinds /\ 0 \in Nat
  BY DEF MessageKinds
<1>2. /\ travel \in Nat /\ evs \in Seq(EventType)
      /\ Stamp(evs, n) \subseteq EventsAt(From(t + travel), PhysicalArrival, "report", r, v, 0)
  <2>1. /\ out \in Seq(Nat) /\ ClassicalDelay(config, v, "controller") \in Nat
        /\ config.sender[v]["controller"] \in Nat
    BY <1>1, ConfigTypes, MessageDelays
  <2>2. evs \in Seq(FollowUps(r))
    BY <1>1, <2>1, CopiesAreFollowUps
  <2>3. evs \in Seq(EventType)
    BY <2>2, FollowUpIsEvent, WiderSeq
  <2>4. Stamp(evs, n) \subseteq EventsAt(From(t + travel), PhysicalArrival, "report", r, v, 0)
    BY <1>1, <2>1, StampCopies
  <2>5. QED
    BY <2>1, <2>3, <2>4
<1>4. PromptReports(v) =>
        \E x \in Stamp(evs, n) : x.when = t + ClassicalDelay(config, v, "controller")
  <2> SUFFICES ASSUME PromptReports(v)
               PROVE  \E x \in Stamp(evs, n) : x.when = t + ClassicalDelay(config, v, "controller")
    OBVIOUS
  <2>1. out \in Seq(Nat) /\ ClassicalDelay(config, v, "controller") \in Nat
    BY <1>1, ConfigTypes, MessageDelays
  <2>2. PICK i \in DOMAIN out : out[i] = 0
    BY DEF PromptReports
  <2>3. config.sender[v]["controller"] = 0
    BY DEF PromptReports
  <2>4. QED
    BY <2>1, <2>2, <2>3, PromptCopy
<1> HIDE DEF travel, evs
<1>3. EventsAt(From(t + travel), PhysicalArrival, "report", r, v, 0) \subseteq ReportsAt(t, v, r)
  BY <1>2 DEF EventsAt, From, ReportsAt
<1>5. Stamp(<<>>, n) = {} /\ <<>> \in Seq(EventType)
  BY StampNothing, NothingScheduled
<1>6. CASE Reports(v, rd, force)
  BY <1>2, <1>3, <1>4, <1>6 DEF ReportCopies, ReportsLeft, evs
<1>7. CASE ~Reports(v, rd, force)
  BY <1>5, <1>7 DEF ReportCopies, ReportsLeft
<1>8. QED
  BY <1>6, <1>7

LEMMA ReportLeaves ==
  ASSUME TypeOK, NEW e \in queue, NEW v \in Verifiers, NEW rd, NEW force,
         NEW out \in config.tamper["report"],
         Return(e, ReportCopies(e.when, e.round, v, rd, force, out))
  PROVE  \E P \in SUBSET ReportsAt(e.when, v, e.round) :
            ReportsLeft(P, e.when, v, e.round, Reports(v, rd, force)) /\ Leaves(e, P)
<1>1. e.when \in Int /\ e.round \in Rounds /\ config \in Configs /\ nextSeq \in Nat
  BY TypesOfEvent DEF TypeOK, QueueType
<1>2. ReportsLeft(Stamp(ReportCopies(e.when, e.round, v, rd, force, out), nextSeq), e.when, v,
                  e.round, Reports(v, rd, force))
  BY <1>1, ReportStamp
<1>3. QED
  BY <1>2 DEF Return, Leaves, ReportsLeft

FinalsAt(t, r) == EventsAt({t + FinalDelay(config)}, Timeout, "final", r, "controller", 0)

\* Both reports are forced out and the final timeout is set.
LEMMA TimeoutLeaves ==
  ASSUME TypeOK, NEW e \in queue, RoundTimesOut(e), ~completed[e.round]
  PROVE  LET rd0 == WithReport(e.round, "v0", round[e.round], TRUE) IN
         \E P0 \in SUBSET ReportsAt(e.when, "v0", e.round),
            P1 \in SUBSET ReportsAt(e.when, "v1", e.round), x \in FinalsAt(e.when, e.round) :
            /\ ReportsLeft(P0, e.when, "v0", e.round, Reports("v0", round[e.round], TRUE))
            /\ ReportsLeft(P1, e.when, "v1", e.round, Reports("v1", rd0, TRUE))
            /\ Leaves(e, P0 \union P1 \union {x})
<1> DEFINE t == e.when
           r == e.round
           rd0 == WithReport(r, "v0", round[r], TRUE)
           a(outs) == ReportCopies(t, r, "v0", round[r], TRUE, outs[1])
           b(outs) == ReportCopies(t, r, "v1", rd0, TRUE, outs[2])
           final == <<Event(t + FinalDelay(config), Timeout, "final", r, "controller", 0)>>
<1>1. PICK outs \in Pairs("report") : Return(e, a(outs) \o b(outs) \o final)
  BY DEF RoundTimesOut
<1>2. /\ t \in Int /\ r \in Rounds /\ config \in Configs /\ nextSeq \in Nat
      /\ "v0" \in Verifiers /\ "v1" \in Verifiers
      /\ outs[1] \in config.tamper["report"] /\ outs[2] \in config.tamper["report"]
  BY TypesOfEvent DEF TypeOK, QueueType, Verifiers, Pairs
<1> HIDE DEF rd0
<1>3. a(outs) \in Seq(EventType) /\ b(outs) \in Seq(EventType)
  BY <1>2, ReportStamp
<1>4. final \in Seq(EventType)
  BY <1>2, FinalEventType
<1>5. \A n \in Nat :
        /\ ReportsLeft(Stamp(a(outs), n), t, "v0", r, Reports("v0", round[r], TRUE))
        /\ ReportsLeft(Stamp(b(outs), n), t, "v1", r, Reports("v1", rd0, TRUE))
  BY <1>2, ReportStamp
<1>6. ASSUME NEW n \in Nat PROVE \E x \in FinalsAt(t, r) : Stamp(final, n) = {x}
  <2>1. ASSUME NEW w
        PROVE  \E x \in EventsAt({w}, Timeout, "final", r, "controller", 0) :
                 Stamp(<<Event(w, Timeout, "final", r, "controller", 0)>>, n) = {x}
    BY StampOne
  <2>2. QED
    BY <2>1 DEF FinalsAt
<1> DEFINE n1 == nextSeq + Len(a(outs))
           n2 == nextSeq + Len(a(outs) \o b(outs))
<1> HIDE DEF a, b, final
<1>7. /\ Stamp(a(outs) \o b(outs), nextSeq)
           = Stamp(a(outs), nextSeq) \union Stamp(b(outs), n1)
      /\ n1 \in Nat /\ a(outs) \o b(outs) \in Seq(EventType)
  BY <1>2, <1>3, StampConcat
<1>8. /\ Stamp(a(outs) \o b(outs) \o final, nextSeq)
           = Stamp(a(outs) \o b(outs), nextSeq) \union Stamp(final, n2)
      /\ n2 \in Nat
  BY <1>2, <1>4, <1>7, StampConcat
<1> HIDE DEF n1, n2
<1>9. PICK x \in FinalsAt(t, r) : Stamp(final, n2) = {x}
  BY <1>6, <1>8
<1>10. Leaves(e, Stamp(a(outs), nextSeq) \union Stamp(b(outs), n1) \union {x})
  BY <1>1, <1>7, <1>8, <1>9 DEF Return, Leaves
<1>11. QED
  BY <1>2, <1>5, <1>7, <1>9, <1>10 DEF rd0, ReportsLeft

-----------------------------------------------------------------------------
(* The order of the heap. *)

RankOK(x) ==
  /\ x.kind \in {"retrieve", "measured"} => x.phase = DeviceCompletion
  /\ x.kind = "timeout" => x.phase = Timeout

\* Nothing is due before now, and completions rank before timeouts.
HeapOrder == \A x \in queue : x.when >= now /\ RankOK(x)

\* An event that a handler at time t may leave behind for round r.
OnTime(x, t, r) == x.when \in From(t) /\ x.round = r /\ RankOK(x)

LEMMA QuietOnTime == ASSUME NEW t, NEW r, NEW x \in QuietEvents(r, t) PROVE OnTime(x, t, r)
BY DEF QuietEvents, OnTime, RankOK, QuietKinds

\* Events due some latency after t.
LEMMA DueOnTime ==
  ASSUME NEW t \in Int, NEW d \in Nat, NEW p, NEW kind, NEW r, NEW who, NEW val,
         kind \in {"retrieve", "measured"} => p = DeviceCompletion, kind # "timeout"
  PROVE  /\ \A x \in EventsAt({t + d}, p, kind, r, who, val) : OnTime(x, t, r)
         /\ \A x \in EventsAt(From(t + d), p, kind, r, who, val) : OnTime(x, t, r)
BY DEF EventsAt, OnTime, RankOK, From

LEMMA ReportOnTime ==
  ASSUME NEW t \in Int, NEW v, NEW r
  PROVE  \A x \in ReportsAt(t, v, r) : OnTime(x, t, r)
BY DEF ReportsAt, EventsAt, OnTime, RankOK, From

\* Every handler that returns or raises: what it leaves is due at its own time
\* or later, and about the round of its event.
LEMMA StepLeaves ==
  ASSUME TypeOK, Agenda, NEW e \in queue, DeviceStep(e) \/ ProtocolStep(e) \/ DecisionStep(e)
  PROVE  \E N : Leaves(e, N) /\ \A x \in N : OnTime(x, e.when, e.round)
<1> DEFINE t == e.when
           r == e.round
<1>1. t \in Int /\ r \in Rounds /\ config \in Configs
  BY TypesOfEvent DEF TypeOK
<1>2. CASE \E N \in SUBSET QuietEvents(r, t) : Leaves(e, N)
  BY <1>2, QuietOnTime
<1>3. CASE \E error : Raise(e, error)
  <2>1. Leaves(e, {})
    BY <1>3 DEF Raise, Leaves
  <2>2. QED
    BY <2>1
<1>4. ASSUME NEW m \in Holders
      PROVE  /\ \A x \in LoadsAt(t, m, r) : OnTime(x, t, r)
             /\ \A x \in RetrievesAt(t, m, r) : OnTime(x, t, r)
             /\ \A x \in MeasuredAt(t, m, r) : OnTime(x, t, r)
             /\ config.hold[m] # None =>
                  \A gen : \A x \in ExpiriesAt(t, m, r, gen) : OnTime(x, t, r)
  <2> DEFINE l == config.load[m]
             g == config.retrieve[m]
             s == config.switch[m]
             d == config.measure[m]
             h == config.hold[m]
  <2>1. l \in Nat /\ g \in Nat /\ s \in Nat /\ d \in Nat /\ h \in Nat \union {None}
    BY <1>1, ConfigTypes
  <2>2. \A x \in LoadsAt(t, m, r) : OnTime(x, t, r)
    BY <1>1, <2>1, DueOnTime DEF LoadsAt
  <2>3. \A x \in RetrievesAt(t, m, r) : OnTime(x, t, r)
    BY <1>1, <2>1, DueOnTime DEF RetrievesAt
  <2>4. \A x \in MeasuredAt(t, m, r) : OnTime(x, t, r)
    <3>1. s + d \in Nat /\ t + s + d = t + (s + d)
      <4> HIDE DEF s, d
      <4> QED BY <1>1, <2>1
    <3>2. MeasuredAt(t, m, r) = EventsAt({t + (s + d)}, DeviceCompletion, "measured", r, m, 0)
      BY <3>1 DEF MeasuredAt
    <3> DEFINE k == s + d
    <3>3. k \in Nat /\ MeasuredAt(t, m, r) = EventsAt({t + k}, DeviceCompletion, "measured", r, m, 0)
      BY <3>1, <3>2
    <3> HIDE DEF k
    <3>4. \A x \in EventsAt({t + k}, DeviceCompletion, "measured", r, m, 0) : OnTime(x, t, r)
      BY <1>1, <3>3, DueOnTime
    <3>5. QED
      BY <3>3, <3>4
  <2>5. ASSUME h # None, NEW gen, NEW x \in ExpiriesAt(t, m, r, gen) PROVE OnTime(x, t, r)
    BY <1>1, <2>1, <2>5, DueOnTime DEF ExpiriesAt
  <2>6. QED
    BY <2>2, <2>3, <2>4, <2>5
<1>5. ASSUME NEW R, NEW rd, NEW mm, RetrievalsLeft(R, t, r, rd, mm)
      PROVE  \A x \in R : OnTime(x, t, r)
  BY <1>4, <1>5 DEF RetrievalsLeft, Holders
<1>6. CASE PairReady(e)
  <2>1. PICK x \in LoadsAt(t, "v0", r), N \in SUBSET QuietEvents(r, t) :
          Leaves(e, {x} \union N)
    BY <1>6, PairLeaves
  <2>2. \A y \in {x} \union N : OnTime(y, t, r)
    BY <1>4, <2>1, QuietOnTime DEF Holders
  <2>3. QED
    BY <2>1, <2>2
<1>7. CASE DetectionDone(e)
  <2>1. CASE Return(e, <<LoadEvent(e.when, "prover", e.round)>>)
    <3>1. PICK x \in LoadsAt(t, "prover", r) : Leaves(e, {x})
      BY <2>1, LoadLeaves
    <3>2. QED
      BY <1>4, <3>1 DEF Holders
  <2>2. QED
    BY <1>2, <1>3, <1>7, <2>1, CommitLeaves, NothingIsQuiet
       DEF DetectionDone, Resolved, Passes
<1>8. CASE LoadDone(e)
  <2>1. PICK X, R : \E N \in SUBSET QuietEvents(r, t) :
          /\ ExpiryLeft(X, t, e.who, r, mem[e.who].gen)
          /\ RetrievalsLeft(R, t, r, LoadedRound(e), LoadedMem(e))
          /\ Leaves(e, X \union N \union R)
    BY <1>8, LoadedLeaves
  <2>2. PICK N \in SUBSET QuietEvents(r, t) : Leaves(e, X \union N \union R)
    BY <2>1
  <2>3. e.who \in Holders
    BY <1>8, ActorOfEvent DEF LoadDone, Handle
  <2>4. \A x \in X : OnTime(x, t, r)
    BY <1>4, <2>1, <2>3 DEF ExpiryLeft
  <2>5. \A x \in X \union N \union R : OnTime(x, t, r)
    BY <1>5, <2>1, <2>4, QuietOnTime
  <2>6. QED
    BY <2>2, <2>5
<1>9. CASE RetrieveDone(e)
  <2>1. CASE status' \in Errors
    BY <1>3, <1>9, <2>1 DEF RetrieveDone, Return, Handle, Errors
  <2>2. CASE status' \notin Errors
    <3>1. e.who \in Holders
      BY <1>9, ActorOfEvent DEF RetrieveDone, Handle
    <3>2. CASE Leaves(e, {})
      BY <3>2
    <3>3. CASE \E x \in MeasuredAt(t, e.who, r) : Leaves(e, {x})
      <4>1. PICK x \in MeasuredAt(t, e.who, r) : Leaves(e, {x})
        BY <3>3
      <4>2. OnTime(x, t, r)
        BY <1>4, <3>1, <4>1
      <4>3. QED
        BY <4>1, <4>2
    <3>4. QED
      BY <1>9, <2>2, <3>2, <3>3, RetrievedLeaves
  <2>3. QED
    BY <2>1, <2>2
<1>10. CASE BasisArrives(e)
  BY <1>5, <1>10, BasisLeaves
<1>11. CASE ProverMeasured(e)
  <2>1. PICK bit \in config.can.bit["prover"], outs \in Pairs("answer") :
          Return(e, Broadcast(e.when, "answer", e.round, bit, outs))
    BY <1>11 DEF ProverMeasured
  <2>2. bit \in Nat
    <3>1. config.can.bit["prover"] \subseteq {0, 1}
      BY <1>1, ConfigTypes DEF Holders
    <3>2. QED
      BY <3>1
  <2>3. PICK A \in SUBSET (UNION {AnswersAt(t, v, r, bit) : v \in Verifiers}) : Leaves(e, A)
    BY <2>1, <2>2, AnswerLeaves
  <2>4. ASSUME NEW v \in Verifiers PROVE \A x \in AnswersAt(t, v, r, bit) : OnTime(x, t, r)
    <3>1. AnswerTravel(v) \in Nat
      BY <2>1, <2>2, AnswerLeaves
    <3>2. QED
      BY <1>1, <3>1, DueOnTime DEF AnswersAt
  <2>5. QED
    BY <2>3, <2>4
<1>12. CASE V0Measured(e) \/ VerifierReceives(e)
  <2>1. \E v \in Verifiers : \E rd : \E out \in config.tamper["report"] :
          Return(e, ReportCopies(t, r, v, rd, FALSE, out))
    <3>1. "v0" \in Verifiers /\ (VerifierReceives(e) => e.who \in Verifiers)
      BY ActorOfEvent DEF VerifierReceives, Handle, Verifiers, MessageKinds
    <3>2. QED
      BY <1>12, <3>1 DEF V0Measured, VerifierReceives
  <2>2. PICK v \in Verifiers : \E rd : \E out \in config.tamper["report"] :
          Return(e, ReportCopies(t, r, v, rd, FALSE, out))
    BY <2>1
  <2>5. PICK rd : \E out \in config.tamper["report"] :
          Return(e, ReportCopies(t, r, v, rd, FALSE, out))
    BY <2>2
  <2>3. \E P \in SUBSET ReportsAt(t, v, r) : Leaves(e, P)
    BY <2>5, ReportLeaves
  <2>4. QED
    BY <1>1, <2>3, ReportOnTime
<1>13. CASE RoundTimesOut(e)
  <2>1. CASE completed[r]
    BY <1>2, <1>13, <2>1, NothingIsQuiet DEF RoundTimesOut, Passes
  <2>2. CASE ~completed[r]
    <3>1. PICK P0 \in SUBSET ReportsAt(t, "v0", r), P1 \in SUBSET ReportsAt(t, "v1", r),
               x \in FinalsAt(t, r) : Leaves(e, P0 \union P1 \union {x})
      BY <1>13, <2>2, TimeoutLeaves
    <3>2. OnTime(x, t, r)
      <4>1. FinalDelay(config) \in Nat
        BY <1>1, RoundPlanTypes
      <4>2. QED
        BY <1>1, <3>1, <4>1, DueOnTime DEF FinalsAt
    <3>3. \A y \in P0 \union P1 \union {x} : OnTime(y, t, r)
      BY <1>1, <3>1, <3>2, ReportOnTime
    <3>4. QED
      BY <3>1, <3>3
  <2>3. QED
    BY <2>1, <2>2
<1>14. CASE PairReadyRaises(e) \/ StartRoundRaises(e)
  BY <1>3, <1>14 DEF PairReadyRaises, StartRoundRaises
<1>15. CASE \/ SendBasis(e) \/ StartRound(e) \/ LoadFails(e)
            \/ SendChallenge(e) \/ InterceptDone(e) \/ SendReplacement(e) \/ PairFails(e)
            \/ PhotonArrives(e) \/ GateCloses(e) \/ Expire(e) \/ RejectPlan(e)
            \/ ReportArrives(e) \/ FinalTimesOut(e)
  BY <1>2, <1>15, PhotonLeaves, SendLeaves, StartLeaves, FailedLoadLeaves
<1>16. QED
  BY <1>6, <1>7, <1>8, <1>9, <1>10, <1>11, <1>12, <1>13, <1>14, <1>15
     DEF DeviceStep, ProtocolStep, DecisionStep

\* Every handler runs at the time of the first event.
LEMMA StepIsFirst ==
  ASSUME NEW e \in queue, DeviceStep(e) \/ ProtocolStep(e) \/ DecisionStep(e)
  PROVE  IsFirst(e, queue) /\ now' = e.when /\ config' = config /\ status = "running"
BY DEF DeviceStep, ProtocolStep, DecisionStep, PairReady, PairReadyRaises, PairFails,
   PhotonArrives, DetectionDone, GateCloses, LoadDone, LoadFails, Expire, RetrieveDone,
   ProverMeasured, V0Measured, StartRound, StartRoundRaises, SendChallenge, InterceptDone,
   SendReplacement, SendBasis, BasisArrives, VerifierReceives, RoundTimesOut, RejectPlan,
   ReportArrives, FinalTimesOut, Handle

LEMMA NextHeapOrder ==
  ASSUME TypeOK, Agenda, HeapOrder, [Next]_vars
  PROVE  HeapOrder'
<1>1. CASE Step
  <2>1. PICK e \in queue : DeviceStep(e) \/ ProtocolStep(e) \/ DecisionStep(e)
    BY <1>1 DEF Step
  <2>2. PICK N : Leaves(e, N) /\ \A x \in N : OnTime(x, e.when, e.round)
    BY <2>1, StepLeaves
  <2>3. IsFirst(e, queue) /\ now' = e.when
    BY <2>1, StepIsFirst
  <2>4. \A x \in queue \ {e} : x.when >= e.when
    <3> TAKE x \in queue \ {e}
    <3>1. Before(e, x) /\ x.when \in Int /\ e.when \in Int
      BY <2>3, TypesOfEvent DEF IsFirst
    <3>2. QED
      BY <3>1 DEF Before
  <2>5. QED
    BY <2>2, <2>3, <2>4 DEF HeapOrder, Leaves, OnTime, From, RankOK
<1>2. CASE Finish \/ UNCHANGED vars
  BY <1>2 DEF Finish, HeapOrder, RankOK, vars, schedulerVars
<1>3. QED
  BY <1>1, <1>2 DEF Next, Over

LEMMA InitialEvents == ASSUME Init, NEW x \in queue PROVE x.kind = "start"
<1>1. TypeOK /\ Agenda
  BY InitTypes, InitAgenda
<1>2. x.round \in Rounds
  BY <1>1, TypesOfEvent
<1>3. started[x.round] = FALSE
  BY <1>2 DEF Init
<1>4. QED
  BY <1>1, <1>3 DEF Agenda, StartsAreAhead

LEMMA InitHeapOrder == ASSUME Init PROVE HeapOrder
<1> SUFFICES ASSUME NEW x \in queue PROVE x.when >= now /\ RankOK(x)
  BY DEF HeapOrder
<1>1. TypeOK /\ Agenda
  BY InitTypes, InitAgenda
<1>2. x.kind = "start"
  BY InitialEvents
<1>3. x.when = RoundStartAt(config, x.round) /\ x.round \in Rounds /\ config \in Configs
  BY <1>1, <1>2, TypesOfEvent DEF Agenda, StartsAreAhead, TypeOK
<1>4. RoundStartAt(config, x.round) \in Nat
  BY <1>3, ConfigTypes, RoundIsNat, NextRoundStart
<1>5. QED
  BY <1>2, <1>3, <1>4 DEF RankOK, Init

LEMMA SessionHeapOrder == Spec => []HeapOrder
<1>1. Init => HeapOrder
  BY InitHeapOrder
<1>2. TypeOK /\ Agenda /\ HeapOrder /\ [Next]_vars => HeapOrder'
  BY NextHeapOrder
<1>3. QED
  BY <1>1, <1>2, SessionTypes, SessionAgenda, PTL DEF Spec


-----------------------------------------------------------------------------
(* A memory and its events.  A slot that is loading or being read has one   *)
(* completion pending; a stored qubit with a maximum hold has its expiry    *)
(* pending, and the expiries of earlier qubits name earlier generations.    *)

MemoryKinds == {"load", "expire", "retrieve"}

MemoryEvents(q, m) == {x \in q : x.kind \in MemoryKinds /\ x.who = m}

CompletionsInUse(m, slot, E) ==
  \A x \in E :
    /\ x.kind = "load" => slot.state = "loading"
    /\ x.kind = "retrieve" =>
         /\ slot.state = "retrieving"
         /\ config.hold[m] # None =>
              x.when <= slot.storedAt + config.hold[m] + config.retrieve[m]

OneCompletion(E) ==
  \A x, y \in E : x.kind = y.kind /\ x.kind # "expire" => x = y

ExpiriesAreDated(m, slot, E) ==
  \A x \in E :
    x.kind = "expire" =>
      /\ config.hold[m] # None /\ x.val <= slot.gen
      /\ x.val = slot.gen =>
           /\ slot.state \in {"stored", "expired"}
           /\ slot.state = "stored" => x.when = slot.storedAt + config.hold[m]

ExpiryIsPending(m, slot, E) ==
  /\ slot.state \in {"stored", "retrieving"} => slot.storedAt # None
  /\ slot.state = "stored" /\ config.hold[m] # None =>
       \E x \in E : x.kind = "expire" /\ x.round = slot.holds /\ x.val = slot.gen

SlotInv(m, slot, E) ==
  /\ CompletionsInUse(m, slot, E) /\ OneCompletion(E)
  /\ ExpiriesAreDated(m, slot, E) /\ ExpiryIsPending(m, slot, E)

MemInv == \A m \in Holders : SlotInv(m, mem[m], MemoryEvents(queue, m))

\* One lemma for each thing that may happen to a slot.
LEMMA SlotFrame ==
  ASSUME NEW m, NEW slot, NEW E, NEW F \in SUBSET E, SlotInv(m, slot, E),
         \A x \in E : /\ x.kind = "expire" /\ slot.state = "stored"
                      /\ x.round = slot.holds /\ x.val = slot.gen
                      => x \in F
  PROVE  SlotInv(m, slot, F)
BY DEF SlotInv, CompletionsInUse, OneCompletion, ExpiriesAreDated, ExpiryIsPending

LEMMA SlotLoading ==
  ASSUME NEW m, NEW slot \in SlotType, NEW E, \A y \in E : y.kind \in MemoryKinds /\ y.val \in Nat,
         SlotInv(m, slot, E), slot.state = "empty", NEW x, x.kind = "load"
  PROVE  SlotInv(m, [slot EXCEPT !.state = "loading", !.gen = @ + 1], E \union {x})
<1> DEFINE s == [slot EXCEPT !.state = "loading", !.gen = @ + 1]
<1>1. s.state = "loading" /\ s.gen = slot.gen + 1 /\ slot.gen \in Nat
  BY DEF SlotType
<1>2. \A y \in E : y.kind = "expire" /\ y.val <= slot.gen /\ config.hold[m] # None
  BY DEF SlotInv, CompletionsInUse, ExpiriesAreDated, MemoryKinds
<1> HIDE DEF s
<1>3. \A y \in E : y.val <= s.gen /\ y.val # s.gen
  BY <1>1, <1>2
<1>4. QED
  BY <1>1, <1>2, <1>3
     DEF SlotInv, CompletionsInUse, OneCompletion, ExpiriesAreDated, ExpiryIsPending

LEMMA SlotStored ==
  ASSUME NEW m, NEW slot \in SlotType, NEW E, \A y \in E : y.kind \in MemoryKinds /\ y.val \in Nat,
         SlotInv(m, slot, E), NEW e \in E, e.kind = "load",
         NEW t \in Int, NEW r, NEW X, ExpiryLeft(X, t, m, r, slot.gen),
         NEW s \in SlotType, s.state = "stored", s.holds = r, s.storedAt = t, s.gen = slot.gen
  PROVE  SlotInv(m, s, (E \ {e}) \union X)
<1>1. slot.state = "loading" /\ slot.gen \in Nat /\ t # None
  BY SessionAssumption DEF SlotInv, CompletionsInUse, SlotType
<1>2. \A y \in E \ {e} : /\ y.kind = "expire" /\ config.hold[m] # None
                         /\ y.val <= slot.gen /\ y.val # slot.gen
  BY <1>1 DEF SlotInv, CompletionsInUse, OneCompletion, ExpiriesAreDated, MemoryKinds
<1>3. \A y \in X : /\ y.kind = "expire" /\ y.round = r /\ y.val = slot.gen
                   /\ config.hold[m] # None /\ y.when = t + config.hold[m]
  BY DEF ExpiryLeft, ExpiriesAt, EventsAt
<1>4. config.hold[m] # None => \E y \in X : TRUE
  BY DEF ExpiryLeft
<1>5. CompletionsInUse(m, s, (E \ {e}) \union X) /\ OneCompletion((E \ {e}) \union X)
  BY <1>2, <1>3 DEF CompletionsInUse, OneCompletion
<1>6. ExpiriesAreDated(m, s, (E \ {e}) \union X)
  BY <1>1, <1>2, <1>3 DEF ExpiriesAreDated
<1>7. ExpiryIsPending(m, s, (E \ {e}) \union X)
  BY <1>1, <1>3, <1>4 DEF ExpiryIsPending
<1>8. QED
  BY <1>5, <1>6, <1>7 DEF SlotInv

LEMMA SlotFailed ==
  ASSUME NEW m, NEW slot \in SlotType, NEW E, \A y \in E : y.kind \in MemoryKinds,
         SlotInv(m, slot, E), NEW e \in E, e.kind = "load"
  PROVE  SlotInv(m, [slot EXCEPT !.state = "empty"], E \ {e})
<1> DEFINE s == [slot EXCEPT !.state = "empty"]
<1>1. s.state = "empty" /\ s.gen = slot.gen /\ slot.state = "loading"
  BY DEF SlotType, SlotInv, CompletionsInUse
<1>2. \A y \in E \ {e} : /\ y.kind = "expire" /\ config.hold[m] # None
                         /\ y.val <= slot.gen /\ y.val # slot.gen
  BY <1>1 DEF SlotInv, CompletionsInUse, OneCompletion, ExpiriesAreDated, MemoryKinds
<1> HIDE DEF s
<1>3. QED
  BY <1>1, <1>2
     DEF SlotInv, CompletionsInUse, OneCompletion, ExpiriesAreDated, ExpiryIsPending

LEMMA SlotRetrieving ==
  ASSUME NEW m, NEW slot \in SlotType, NEW E, \A y \in E : y.kind \in MemoryKinds /\ y.val \in Nat,
         SlotInv(m, slot, E), slot.state = "stored", NEW t \in Int, NEW r,
         config.hold[m] \in Nat \union {None}, config.retrieve[m] \in Nat,
         config.hold[m] # None => t <= slot.storedAt + config.hold[m],
         NEW x \in RetrievesAt(t, m, r)
  PROVE  SlotInv(m, [slot EXCEPT !.state = "retrieving", !.gen = @ + 1], E \union {x})
<1> DEFINE s == [slot EXCEPT !.state = "retrieving", !.gen = @ + 1]
<1>1. /\ s.state = "retrieving" /\ s.gen = slot.gen + 1 /\ slot.gen \in Nat
      /\ s.storedAt = slot.storedAt /\ slot.storedAt \in Int
  BY DEF SlotType, Opt, SlotInv, ExpiryIsPending
<1>2. \A y \in E : y.kind = "expire" /\ y.val <= slot.gen /\ config.hold[m] # None
  BY DEF SlotInv, CompletionsInUse, ExpiriesAreDated, MemoryKinds
<1> HIDE DEF s
<1>3. \A y \in E : y.val <= s.gen /\ y.val # s.gen
  BY <1>1, <1>2
<1>4. x.kind = "retrieve" /\ x.when = t + config.retrieve[m]
  BY DEF RetrievesAt, EventsAt
<1>5. config.hold[m] # None => x.when <= s.storedAt + config.hold[m] + config.retrieve[m]
  <2> DEFINE h == config.hold[m]
             d == config.retrieve[m]
  <2>1. h # None => h \in Nat
    OBVIOUS
  <2> HIDE DEF h, d
  <2>2. h # None => t + d <= slot.storedAt + h + d
    BY <1>1, <2>1 DEF h, d
  <2>3. QED
    BY <1>1, <1>4, <2>2 DEF h, d
<1>6. CompletionsInUse(m, s, E \union {x}) /\ OneCompletion(E \union {x})
  BY <1>1, <1>2, <1>4, <1>5 DEF CompletionsInUse, OneCompletion
<1>7. ExpiriesAreDated(m, s, E \union {x}) /\ ExpiryIsPending(m, s, E \union {x})
  BY <1>1, <1>2, <1>3, <1>4, SessionAssumption DEF ExpiriesAreDated, ExpiryIsPending
<1>8. QED
  BY <1>6, <1>7 DEF SlotInv, s

\* A slot read or discarded: what is pending is of earlier qubits.
LEMMA SlotEmptied ==
  ASSUME NEW m, NEW slot \in SlotType, NEW E, \A y \in E : y.kind \in MemoryKinds /\ y.val \in Nat,
         SlotInv(m, slot, E), NEW F \in SUBSET E,
         \/ slot.state \in {"stored", "expired"}
         \/ \E e \in E : e.kind = "retrieve" /\ F = E \ {e}
  PROVE  SlotInv(m, [EmptySlot EXCEPT !.gen = slot.gen + 1], F)
<1> DEFINE s == [EmptySlot EXCEPT !.gen = slot.gen + 1]
<1>1. s.state = "empty" /\ s.gen = slot.gen + 1 /\ slot.gen \in Nat
  BY DEF SlotType, EmptySlot
<1>2. \A y \in F : y.kind = "expire" /\ y.val <= slot.gen /\ config.hold[m] # None
  BY DEF SlotInv, CompletionsInUse, OneCompletion, ExpiriesAreDated, MemoryKinds
<1> HIDE DEF s
<1>3. \A y \in F : y.val <= s.gen /\ y.val # s.gen
  BY <1>1, <1>2
<1>4. SlotInv(m, s, F)
  BY <1>1, <1>2, <1>3
     DEF SlotInv, CompletionsInUse, OneCompletion, ExpiriesAreDated, ExpiryIsPending
<1>5. QED
  BY <1>4 DEF s

LEMMA SlotExpired ==
  ASSUME NEW m, NEW slot \in SlotType, NEW E, SlotInv(m, slot, E), slot.state = "stored",
         NEW F \in SUBSET E
  PROVE  SlotInv(m, [slot EXCEPT !.state = "expired", !.holds = None, !.storedAt = None], F)
<1> DEFINE s == [slot EXCEPT !.state = "expired", !.holds = None, !.storedAt = None]
<1>1. s.state = "expired" /\ s.gen = slot.gen
  BY DEF SlotType
<1> HIDE DEF s
<1>2. QED
  BY <1>1
     DEF SlotInv, CompletionsInUse, OneCompletion, ExpiriesAreDated, ExpiryIsPending


-----------------------------------------------------------------------------
(* The handlers keep the invariant of the memories. *)

LEMMA MemoryEventsLeft ==
  ASSUME NEW e, NEW N, Leaves(e, N), NEW m
  PROVE  MemoryEvents(queue', m) = (MemoryEvents(queue, m) \ {e}) \union MemoryEvents(N, m)
BY DEF MemoryEvents, Leaves

LEMMA MemoryEventTypes ==
  ASSUME TypeOK, NEW m
  PROVE  \A x \in MemoryEvents(queue, m) : x.kind \in MemoryKinds /\ x.val \in Nat
BY TypesOfEvent DEF MemoryEvents

\* Handlers of other events that leave no event of a memory behind.
Apart(N) == \A x \in N : x.kind \notin MemoryKinds

LEMMA QuietIsApart ==
  /\ \A r, t : \A N \in SUBSET QuietEvents(r, t) : Apart(N)
  /\ \A r, t, v : \A N \in SUBSET ReportsAt(t, v, r) : Apart(N)
  /\ \A r, t, m : \A x \in MeasuredAt(t, m, r) : Apart({x})
  /\ \A r, t, bit : \A N \in SUBSET (UNION {AnswersAt(t, v, r, bit) : v \in Verifiers}) : Apart(N)
  /\ \A r, t : \A x \in FinalsAt(t, r) : Apart({x})
BY DEF Apart, QuietEvents, QuietKinds, ReportsAt, MeasuredAt, AnswersAt, FinalsAt, EventsAt,
       MemoryKinds

LEMMA ApartKeepsEvents ==
  ASSUME NEW e, NEW N, Leaves(e, N), Apart(N), NEW m
  PROVE  MemoryEvents(queue', m) = MemoryEvents(queue, m) \ {e}
BY DEF Apart, MemoryEvents, Leaves

LEMMA MemoryUntouched ==
  ASSUME MemInv, UNCHANGED config, UNCHANGED mem, NEW e, e.kind # "expire",
         NEW N, Leaves(e, N), Apart(N)
  PROVE  MemInv'
<1> SUFFICES ASSUME NEW m \in Holders
             PROVE  SlotInv(m, mem[m], MemoryEvents(queue', m))
  BY DEF MemInv, SlotInv, CompletionsInUse, OneCompletion, ExpiriesAreDated, ExpiryIsPending
<1>1. MemoryEvents(queue', m) = MemoryEvents(queue, m) \ {e}
  BY ApartKeepsEvents
<1>2. SlotInv(m, mem[m], MemoryEvents(queue, m))
  BY DEF MemInv
<1>3. QED
  BY <1>1, <1>2, SlotFrame

\* The same when the slots of a decided round are discarded.
LEMMA MemoryReleased ==
  ASSUME TypeOK, MemInv, UNCHANGED config, NEW r, mem' = Released(r), NEW e,
         e.kind \notin MemoryKinds, NEW N, Leaves(e, N), Apart(N)
  PROVE  MemInv'
<1> SUFFICES ASSUME NEW m \in Holders
             PROVE  SlotInv(m, mem'[m], MemoryEvents(queue', m))
  BY DEF MemInv, SlotInv, CompletionsInUse, OneCompletion, ExpiriesAreDated, ExpiryIsPending
<1>1. MemoryEvents(queue', m) = MemoryEvents(queue, m)
  BY ApartKeepsEvents DEF MemoryEvents
<1>2. SlotInv(m, mem[m], MemoryEvents(queue, m)) /\ mem[m] \in SlotType
  BY SlotTypes DEF MemInv
<1>3. CASE mem'[m] = mem[m]
  BY <1>1, <1>2, <1>3
<1>4. CASE mem'[m] = [EmptySlot EXCEPT !.gen = mem[m].gen + 1]
           /\ mem[m].state \in {"stored", "expired"}
  BY <1>1, <1>2, <1>4, MemoryEventTypes, SlotEmptied
<1>5. QED
  BY <1>2, <1>3, <1>4 DEF Released, SlotType

\* _try_measure at t on memories mm, once the events of Q are pending.
LEMMA MemoryRetrieving ==
  ASSUME config \in Configs, NEW mm \in [Holders -> SlotType], NEW Q, NEW t \in Int, NEW r,
         NEW rd, \A x \in Q : x.when \in Int /\ x.when >= t /\ x.val \in Nat,
         \A m \in Holders : SlotInv(m, mm[m], MemoryEvents(Q, m)),
         NEW R, RetrievalsLeft(R, t, r, rd, mm)
  PROVE  \A m \in Holders : SlotInv(m, Retrieving(rd, mm)[m], MemoryEvents(Q \union R, m))
<1>1. CASE ~CanMeasure(rd, mm)
  <2>1. Q \union R = Q /\ Retrieving(rd, mm) = mm
    BY <1>1 DEF RetrievalsLeft, Retrieving
  <2>2. QED
    BY <2>1
<1>2. CASE CanMeasure(rd, mm)
  <2> SUFFICES ASSUME NEW m \in Holders
               PROVE  SlotInv(m, Retrieving(rd, mm)[m], MemoryEvents(Q \union R, m))
    OBVIOUS
  <2>1. PICK x \in RetrievesAt(t, m, r) :
          MemoryEvents(Q \union R, m) = MemoryEvents(Q, m) \union {x}
    <3>1. PICK p \in RetrievesAt(t, "prover", r), v \in RetrievesAt(t, "v0", r) : R = {p, v}
      BY <1>2 DEF RetrievalsLeft
    <3>2. /\ p.kind \in MemoryKinds /\ p.who = "prover"
          /\ v.kind \in MemoryKinds /\ v.who = "v0"
      BY DEF RetrievesAt, EventsAt, MemoryKinds
    <3>3. CASE m = "prover"
      BY <3>1, <3>2, <3>3 DEF MemoryEvents
    <3>4. CASE m = "v0"
      BY <3>1, <3>2, <3>4 DEF MemoryEvents
    <3>5. QED
      BY <3>3, <3>4 DEF Holders
  <2>2. Retrieving(rd, mm)[m] = [mm[m] EXCEPT !.state = "retrieving", !.gen = @ + 1]
    BY <1>2 DEF Retrieving
  <2>3. mm[m].state = "stored" /\ mm[m] \in SlotType /\ SlotInv(m, mm[m], MemoryEvents(Q, m))
    BY <1>2 DEF CanMeasure
  <2>4. config.hold[m] \in Nat \union {None} /\ config.retrieve[m] \in Nat
    BY ConfigTypes
  <2>5. config.hold[m] # None => t <= mm[m].storedAt + config.hold[m]
    <3> SUFFICES ASSUME config.hold[m] # None PROVE t <= mm[m].storedAt + config.hold[m]
      OBVIOUS
    <3>1. PICK x1 \in MemoryEvents(Q, m) : x1.kind = "expire" /\ x1.val = mm[m].gen
      BY <2>3 DEF SlotInv, ExpiryIsPending
    <3>2. x1.when = mm[m].storedAt + config.hold[m]
      BY <2>3, <3>1 DEF SlotInv, ExpiriesAreDated
    <3>3. QED
      BY <3>2 DEF MemoryEvents
  <2>6. \A y \in MemoryEvents(Q, m) : y.kind \in MemoryKinds /\ y.val \in Nat
    BY DEF MemoryEvents
  <2>7. ASSUME NEW slot, slot = mm[m], NEW E, E = MemoryEvents(Q, m)
        PROVE  SlotInv(m, [slot EXCEPT !.state = "retrieving", !.gen = @ + 1], E \union {x})
    BY <2>3, <2>4, <2>5, <2>6, <2>7, SlotRetrieving
  <2>8. SlotInv(m, [mm[m] EXCEPT !.state = "retrieving", !.gen = @ + 1],
                MemoryEvents(Q, m) \union {x})
    BY <2>7
  <2>9. QED
    BY <2>1, <2>2, <2>8
<1>3. QED
  BY <1>1, <1>2


LEMMA MemoryKept ==
  ASSUME UNCHANGED config,
         \A m \in Holders : SlotInv(m, mem'[m], MemoryEvents(queue', m))
  PROVE  MemInv'
BY DEF MemInv, SlotInv, CompletionsInUse, OneCompletion, ExpiriesAreDated, ExpiryIsPending

\* A load begins in m; the rest of what is left behind touches no memory.
LEMMA MemoryLoading ==
  ASSUME TypeOK, MemInv, UNCHANGED config, NEW m \in Holders, mem[m].state = "empty",
         mem' = Loading(m), NEW e, e.kind \notin MemoryKinds, NEW t, NEW r,
         NEW x \in LoadsAt(t, m, r), NEW N, Apart(N), Leaves(e, {x} \union N)
  PROVE  MemInv'
<1> SUFFICES ASSUME NEW n \in Holders
             PROVE  SlotInv(n, mem'[n], MemoryEvents(queue', n))
  BY MemoryKept
<1>1. SlotInv(n, mem[n], MemoryEvents(queue, n)) /\ mem[n] \in SlotType
  BY SlotTypes DEF MemInv
<1>2. x.kind = "load" /\ x.who = m
  BY DEF LoadsAt, EventsAt
<1>3. CASE n = m
  <2>1. MemoryEvents(queue', n) = MemoryEvents(queue, n) \union {x}
    BY <1>2, <1>3 DEF Leaves, Apart, MemoryEvents, MemoryKinds
  <2>2. mem'[n] = [mem[n] EXCEPT !.state = "loading", !.gen = @ + 1]
    BY <1>3 DEF Loading, TypeOK, DeviceType
  <2>3. ASSUME NEW slot, slot = mem[n], NEW E, E = MemoryEvents(queue, n)
        PROVE  SlotInv(n, [slot EXCEPT !.state = "loading", !.gen = @ + 1], E \union {x})
    BY <1>1, <1>2, <1>3, <2>3, MemoryEventTypes, SlotLoading
  <2>4. SlotInv(n, [mem[n] EXCEPT !.state = "loading", !.gen = @ + 1],
                MemoryEvents(queue, n) \union {x})
    BY <2>3
  <2>5. QED
    BY <2>1, <2>2, <2>4
<1>4. CASE n # m
  <2>1. MemoryEvents(queue', n) = MemoryEvents(queue, n)
    BY <1>2, <1>4 DEF Leaves, Apart, MemoryEvents
  <2>2. mem'[n] = mem[n]
    BY <1>4 DEF Loading, TypeOK, DeviceType
  <2>3. QED
    BY <1>1, <2>1, <2>2
<1>5. QED
  BY <1>3, <1>4

LEMMA RaiseKeepsMemory ==
  ASSUME MemInv, UNCHANGED config, NEW e, e.kind # "expire", NEW error, Raise(e, error)
  PROVE  MemInv'
<1>1. Leaves(e, {}) /\ UNCHANGED mem
  BY DEF Raise, Leaves, deviceVars
<1>2. Apart({})
  BY DEF Apart
<1>3. QED
  BY <1>1, <1>2, MemoryUntouched

LEMMA PairMemory ==
  ASSUME TypeOK, MemInv, NEW e \in queue, PairReady(e) \/ PairReadyRaises(e) \/ DetectionDone(e)
  PROVE  MemInv'
<1>1. UNCHANGED config /\ e.kind \notin MemoryKinds
  BY DEF PairReady, PairReadyRaises, DetectionDone, Handle, MemoryKinds
<1>2. CASE \E error : Raise(e, error)
  BY <1>1, <1>2, RaiseKeepsMemory DEF MemoryKinds
<1>3. CASE PairReady(e)
  <2>1. PICK x \in LoadsAt(e.when, "v0", e.round), N \in SUBSET QuietEvents(e.round, e.when) :
          Leaves(e, {x} \union N)
    BY <1>3, PairLeaves
  <2>2. Apart(N) /\ "v0" \in Holders /\ mem["v0"].state = "empty" /\ mem' = Loading("v0")
    BY <1>3, <2>1, QuietIsApart DEF PairReady, Holders
  <2>3. QED
    BY <1>1, <2>1, <2>2, MemoryLoading
<1>4. CASE /\ mem["prover"].state = "empty" /\ mem' = Loading("prover")
           /\ Return(e, <<LoadEvent(e.when, "prover", e.round)>>)
  <2>1. PICK x \in LoadsAt(e.when, "prover", e.round) : Leaves(e, {x})
    BY <1>4, LoadLeaves
  <2>2. Apart({}) /\ "prover" \in Holders /\ {x} \union {} = {x}
    BY DEF Apart, Holders
  <2>3. QED
    BY <1>1, <1>4, <2>1, <2>2, MemoryLoading
<1>5. CASE (\E outcome : Commit(e, outcome)) \/ Passes(e, <<>>)
  <2>1. UNCHANGED mem
    BY <1>5 DEF Commit, Passes, deviceVars
  <2>2. PICK N \in SUBSET QuietEvents(e.round, e.when) : Leaves(e, N)
    BY <1>5, CommitLeaves, NothingIsQuiet DEF Passes
  <2>3. QED
    BY <1>1, <2>1, <2>2, QuietIsApart, MemoryUntouched DEF MemoryKinds
<1>6. QED
  BY <1>2, <1>3, <1>4, <1>5 DEF PairReadyRaises, DetectionDone, Resolved

LEMMA LoadMemory ==
  ASSUME TypeOK, MemInv, NEW e \in queue, LoadDone(e)
  PROVE  MemInv'
<1> DEFINE t == e.when
           m == e.who
           r == e.round
           mm == LoadedMem(e)
<1>1. /\ t \in Int /\ r \in Rounds /\ config \in Configs /\ m \in Holders
      /\ UNCHANGED config /\ e.kind = "load" /\ IsFirst(e, queue)
  BY TypesOfEvent, ActorOfEvent DEF TypeOK, LoadDone, Handle
<1>2. mem \in [Holders -> SlotType] /\ mem[m].gen \in Nat
  BY <1>1, SlotTypes DEF TypeOK, DeviceType
<1>3. mm \in [Holders -> SlotType]
  BY <1>1, <1>2, MemoryTypes, PhasesAndKinds DEF LoadedMem
<1>4. PICK X, R : \E N \in SUBSET QuietEvents(r, t) :
        /\ ExpiryLeft(X, t, m, r, mem[m].gen)
        /\ RetrievalsLeft(R, t, r, LoadedRound(e), mm)
        /\ Leaves(e, X \union N \union R)
  BY LoadedLeaves
<1>5. PICK N \in SUBSET QuietEvents(r, t) : Leaves(e, X \union N \union R)
  BY <1>4
<1> DEFINE Q == (queue \ {e}) \union X \union N
<1>6. queue' = Q \union R
  BY <1>5 DEF Leaves
<1>7. \A x \in X : /\ x.kind = "expire" /\ x.who = m /\ x.val = mem[m].gen
                   /\ config.hold[m] # None /\ x.when = t + config.hold[m]
  BY <1>4 DEF ExpiryLeft, ExpiriesAt, EventsAt
<1>8. \A x \in Q : x.when \in Int /\ x.when >= t /\ x.val \in Nat
  <2>1. \A x \in queue \ {e} : x.when \in Int /\ x.when >= t /\ x.val \in Nat
    <3> TAKE x \in queue \ {e}
    <3>1. Before(e, x) /\ x.when \in Int /\ x.val \in Nat
      BY <1>1, TypesOfEvent DEF IsFirst
    <3>2. QED
      BY <1>1, <3>1 DEF Before
  <2>2. ASSUME NEW x \in X PROVE x.when \in Int /\ x.when >= t /\ x.val \in Nat
    <3>1. config.hold[m] \in Nat
      BY <1>1, <1>7, ConfigTypes
    <3>2. QED
      BY <1>1, <1>2, <1>7, <3>1
  <2>3. \A x \in N : x.when \in Int /\ x.when >= t /\ x.val \in Nat
    BY DEF QuietEvents, From, EventType
  <2>4. QED
    BY <2>1, <2>2, <2>3
<1>9. ASSUME NEW n \in Holders PROVE SlotInv(n, mm[n], MemoryEvents(Q, n))
  <2>1. /\ SlotInv(n, mem[n], MemoryEvents(queue, n)) /\ mem[n] \in SlotType
        /\ Apart(N)
    BY <1>2, QuietIsApart DEF MemInv
  <2>2. CASE n = m
    <3>1. MemoryEvents(Q, n) = (MemoryEvents(queue, n) \ {e}) \union X
      BY <1>7, <2>1, <2>2 DEF MemoryEvents, Apart, MemoryKinds
    <3>2. /\ mm[n] \in SlotType /\ mm[n].state = "stored" /\ mm[n].holds = r
          /\ mm[n].storedAt = t /\ mm[n].gen = mem[n].gen
      BY <1>2, <1>3, <2>1, <2>2 DEF LoadedMem, SlotType
    <3>3. e \in MemoryEvents(queue, n)
      BY <1>1, <2>2 DEF MemoryEvents, MemoryKinds
    <3>4. ExpiryLeft(X, t, n, r, mem[n].gen)
      BY <1>4, <2>2
    <3> HIDE DEF mm, Q
    <3>5. \A y \in MemoryEvents(queue, n) : y.kind \in MemoryKinds /\ y.val \in Nat
      BY MemoryEventTypes
    <3>6. SlotInv(n, mm[n], (MemoryEvents(queue, n) \ {e}) \union X)
      BY <1>1, <2>1, <3>2, <3>3, <3>4, <3>5, SlotStored
    <3>7. QED
      BY <3>1, <3>6
  <2>3. CASE n # m
    <3>1. MemoryEvents(Q, n) = MemoryEvents(queue, n)
      BY <1>7, <2>1, <2>3 DEF MemoryEvents, Apart
    <3>2. mm[n] = mem[n]
      BY <1>2, <2>3 DEF LoadedMem
    <3>3. QED
      BY <2>1, <3>1, <3>2
  <2>4. QED
    BY <2>2, <2>3
<1>10. mem' = Retrieving(LoadedRound(e), mm)
  BY DEF LoadDone, LoadedRound, LoadedMem
<1> HIDE DEF mm, Q
<1>11. \A n \in Holders : SlotInv(n, Retrieving(LoadedRound(e), mm)[n], MemoryEvents(Q \union R, n))
  BY <1>1, <1>3, <1>4, <1>8, <1>9, MemoryRetrieving
<1>12. QED
  BY <1>1, <1>6, <1>10, <1>11, MemoryKept

LEMMA BasisMemory ==
  ASSUME TypeOK, MemInv, NEW e \in queue, BasisArrives(e)
  PROVE  MemInv'
<1> DEFINE t == e.when
           r == e.round
           rd == [round[r] EXCEPT !.arrival[e.who] = t]
           Q == queue \ {e}
<1>1. /\ t \in Int /\ config \in Configs /\ UNCHANGED config /\ e.kind = "basis"
      /\ IsFirst(e, queue) /\ mem \in [Holders -> SlotType]
  BY TypesOfEvent DEF TypeOK, DeviceType, BasisArrives, Handle
<1>2. PICK R : RetrievalsLeft(R, t, r, rd, mem) /\ Leaves(e, R)
  BY BasisLeaves
<1>3. \A x \in Q : x.when \in Int /\ x.when >= t /\ x.val \in Nat
  <2> TAKE x \in Q
  <2>1. Before(e, x) /\ x.when \in Int /\ x.val \in Nat
    BY <1>1, TypesOfEvent DEF IsFirst
  <2>2. QED
    BY <1>1, <2>1 DEF Before
<1>4. \A m \in Holders : SlotInv(m, mem[m], MemoryEvents(Q, m))
  <2> TAKE m \in Holders
  <2>1. MemoryEvents(Q, m) = MemoryEvents(queue, m)
    BY <1>1 DEF MemoryEvents, MemoryKinds
  <2>2. QED
    BY <2>1 DEF MemInv
<1>5. mem' = Retrieving(rd, mem) /\ queue' = Q \union R
  BY <1>2 DEF BasisArrives, Leaves
<1> HIDE DEF rd, Q
<1>6. \A m \in Holders : SlotInv(m, Retrieving(rd, mem)[m], MemoryEvents(Q \union R, m))
  BY <1>1, <1>2, <1>3, <1>4, MemoryRetrieving
<1>7. QED
  BY <1>1, <1>5, <1>6, MemoryKept

\* The completion or the expiry of one slot, which leaves no event of a memory.
LEMMA OneSlot ==
  ASSUME TypeOK, MemInv, UNCHANGED config, NEW e \in queue, e.kind \in MemoryKinds,
         e.who \in Holders, NEW s, mem' = [mem EXCEPT ![e.who] = s],
         NEW N, Apart(N), Leaves(e, N),
         SlotInv(e.who, s, MemoryEvents(queue, e.who) \ {e})
  PROVE  MemInv'
<1> SUFFICES ASSUME NEW n \in Holders
             PROVE  SlotInv(n, mem'[n], MemoryEvents(queue', n))
  BY MemoryKept
<1>1. MemoryEvents(queue', n) = MemoryEvents(queue, n) \ {e} /\ mem \in [Holders -> SlotType]
  BY ApartKeepsEvents DEF TypeOK, DeviceType
<1>2. CASE n = e.who
  BY <1>1, <1>2
<1>3. CASE n # e.who
  <2>1. MemoryEvents(queue', n) = MemoryEvents(queue, n) /\ mem'[n] = mem[n]
    BY <1>1, <1>3 DEF MemoryEvents
  <2>2. QED
    BY <2>1 DEF MemInv
<1>4. QED
  BY <1>2, <1>3

LEMMA SlotMemory ==
  ASSUME TypeOK, MemInv, NEW e \in queue, LoadFails(e) \/ Expire(e) \/ RetrieveDone(e)
  PROVE  MemInv'
<1> DEFINE m == e.who
           E == MemoryEvents(queue, m)
<1>1. /\ UNCHANGED config /\ m \in Holders /\ e.kind \in MemoryKinds /\ e \in E
      /\ mem \in [Holders -> SlotType] /\ mem[m] \in SlotType /\ SlotInv(m, mem[m], E)
      /\ \A y \in E : y.kind \in MemoryKinds /\ y.val \in Nat
  <2>1. UNCHANGED config /\ m \in Holders /\ e.kind \in MemoryKinds
    BY ActorOfEvent DEF LoadFails, Expire, RetrieveDone, Handle, MemoryKinds
  <2>2. QED
    BY <2>1, SlotTypes, MemoryEventTypes DEF TypeOK, DeviceType, MemInv, MemoryEvents
<1>2. CASE LoadFails(e)
  <2> DEFINE s == [mem[m] EXCEPT !.state = "empty"]
  <2>1. PICK N \in SUBSET QuietEvents(e.round, e.when) : Leaves(e, N)
    BY <1>2, FailedLoadLeaves
  <2>2. mem' = [mem EXCEPT ![m] = s] /\ e.kind = "load"
    BY <1>1, <1>2 DEF LoadFails, Handle
  <2>3. SlotInv(m, s, E \ {e})
    BY <1>1, <2>2, SlotFailed
  <2> HIDE DEF s
  <2>4. QED
    BY <1>1, <2>1, <2>2, <2>3, QuietIsApart, OneSlot
<1>3. CASE Expire(e)
  <2>1. Leaves(e, {}) /\ Apart({}) /\ e.kind = "expire"
    BY <1>3, NothingLeft DEF Expire, Apart, Handle
  <2>2. CASE mem[m].state = "stored" /\ mem[m].holds = e.round /\ mem[m].gen = e.val
    <3> DEFINE s == [mem[m] EXCEPT !.state = "expired", !.holds = None, !.storedAt = None]
    <3>1. mem' = [mem EXCEPT ![m] = s]
      BY <1>1, <1>3, <2>2 DEF Expire
    <3>2. SlotInv(m, s, E \ {e})
      BY <1>1, <2>2, SlotExpired
    <3> HIDE DEF s
    <3>3. QED
      BY <1>1, <2>1, <3>1, <3>2, OneSlot
  <2>3. CASE ~(mem[m].state = "stored" /\ mem[m].holds = e.round /\ mem[m].gen = e.val)
    <3>1. mem' = [mem EXCEPT ![m] = mem[m]]
      BY <1>1, <1>3, <2>3 DEF Expire
    <3>2. SlotInv(m, mem[m], E \ {e})
      BY <1>1, <2>3, SlotFrame
    <3>3. QED
      BY <1>1, <2>1, <3>1, <3>2, OneSlot
  <2>4. QED
    BY <2>2, <2>3
<1>4. CASE RetrieveDone(e)
  <2>1. CASE \E error : Raise(e, error)
    BY <1>1, <1>4, <2>1, RaiseKeepsMemory DEF RetrieveDone, Handle
  <2>2. CASE mem' = [mem EXCEPT ![m] = [EmptySlot EXCEPT !.gen = mem[m].gen + 1]]
             /\ status' \notin Errors
    <3> DEFINE s == [EmptySlot EXCEPT !.gen = mem[m].gen + 1]
    <3>1. PICK N : Leaves(e, N) /\ Apart(N)
      <4>1. Apart({}) /\ \A x \in MeasuredAt(e.when, m, e.round) : Apart({x})
        BY QuietIsApart DEF Apart
      <4>2. QED
        BY <1>4, <2>2, <4>1, RetrievedLeaves
    <3>2. SlotInv(m, s, E \ {e})
      <4>1. e.kind = "retrieve"
        BY <1>4 DEF RetrieveDone, Handle
      <4>2. QED
        BY <1>1, <4>1, SlotEmptied
    <3> HIDE DEF s
    <3>3. mem' = [mem EXCEPT ![m] = s]
      BY <2>2 DEF s
    <3>4. QED
      BY <1>1, <3>1, <3>2, <3>3, OneSlot
  <2>3. QED
    BY <1>4, <2>1, <2>2 DEF RetrieveDone, Return, Handle, Errors
<1>5. QED
  BY <1>2, <1>3, <1>4


\* The handlers that leave the memories alone, or discard a decided round's.
LEMMA OtherLeaves ==
  ASSUME TypeOK, Agenda, NEW e \in queue,
         \/ PairFails(e) \/ PhotonArrives(e) \/ GateCloses(e) \/ ProverMeasured(e)
         \/ V0Measured(e) \/ StartRound(e) \/ SendChallenge(e) \/ InterceptDone(e)
         \/ SendReplacement(e) \/ SendBasis(e) \/ VerifierReceives(e) \/ RoundTimesOut(e)
         \/ RejectPlan(e) \/ ReportArrives(e) \/ FinalTimesOut(e)
  PROVE  \E N : Leaves(e, N) /\ Apart(N)
<1> DEFINE t == e.when
           r == e.round
<1>1. config \in Configs
  BY DEF TypeOK
<1>2. CASE \E N \in SUBSET QuietEvents(r, t) : Leaves(e, N)
  BY <1>2, QuietIsApart
<1>3. CASE ProverMeasured(e)
  <2>1. PICK bit \in config.can.bit["prover"], outs \in Pairs("answer") :
          Return(e, Broadcast(e.when, "answer", e.round, bit, outs))
    BY <1>3 DEF ProverMeasured
  <2>2. config.can.bit["prover"] \subseteq {0, 1}
    BY <1>1, ConfigTypes DEF Holders
  <2>3. bit \in Nat
    BY <2>2
  <2>4. QED
    BY <2>1, <2>3, AnswerLeaves, QuietIsApart
<1>4. CASE V0Measured(e) \/ VerifierReceives(e)
  <2>1. "v0" \in Verifiers /\ (VerifierReceives(e) => e.who \in Verifiers)
    BY ActorOfEvent DEF VerifierReceives, Handle, Verifiers, MessageKinds
  <2>2. PICK v \in Verifiers : \E rd : \E out \in config.tamper["report"] :
          Return(e, ReportCopies(t, r, v, rd, FALSE, out))
    BY <1>4, <2>1 DEF V0Measured, VerifierReceives
  <2>5. PICK rd : \E out \in config.tamper["report"] :
          Return(e, ReportCopies(t, r, v, rd, FALSE, out))
    BY <2>2
  <2>3. \E P \in SUBSET ReportsAt(t, v, r) : Leaves(e, P)
    BY <2>5, ReportLeaves
  <2>4. QED
    BY <2>3, QuietIsApart
<1>5. CASE RoundTimesOut(e)
  <2>1. CASE completed[r]
    BY <1>2, <1>5, <2>1, NothingIsQuiet DEF RoundTimesOut, Passes
  <2>2. CASE ~completed[r]
    <3>1. PICK P0 \in SUBSET ReportsAt(t, "v0", r), P1 \in SUBSET ReportsAt(t, "v1", r),
               x \in FinalsAt(t, r) : Leaves(e, P0 \union P1 \union {x})
      BY <1>5, <2>2, TimeoutLeaves
    <3>2. Apart(P0) /\ Apart(P1) /\ Apart({x})
      BY QuietIsApart
    <3>3. Apart(P0 \union P1 \union {x})
      BY <3>2 DEF Apart
    <3>4. QED
      BY <3>1, <3>3
  <2>3. QED
    BY <2>1, <2>2
<1>6. CASE \/ SendBasis(e) \/ StartRound(e) \/ SendChallenge(e) \/ InterceptDone(e)
           \/ SendReplacement(e) \/ PairFails(e) \/ PhotonArrives(e) \/ GateCloses(e)
           \/ RejectPlan(e) \/ ReportArrives(e) \/ FinalTimesOut(e)
  BY <1>2, <1>6, PhotonLeaves, SendLeaves, StartLeaves
<1>7. QED
  BY <1>3, <1>4, <1>5, <1>6

LEMMA OtherSlots ==
  ASSUME NEW e,
         \/ PairFails(e) \/ PhotonArrives(e) \/ GateCloses(e) \/ ProverMeasured(e)
         \/ V0Measured(e) \/ StartRound(e) \/ SendChallenge(e) \/ InterceptDone(e)
         \/ SendReplacement(e) \/ SendBasis(e) \/ VerifierReceives(e) \/ RoundTimesOut(e)
         \/ RejectPlan(e) \/ ReportArrives(e) \/ FinalTimesOut(e)
  PROVE  UNCHANGED mem \/ mem' = Released(e.round)
<1>1. CASE ReportArrives(e) \/ FinalTimesOut(e)
  BY <1>1 DEF ReportArrives, FinalTimesOut, Finalize
<1>2. CASE PhotonArrives(e) \/ GateCloses(e)
  BY <1>2 DEF PhotonArrives, GateCloses, Resolved, Passes, Commit, deviceVars
<1>3. CASE \/ SendChallenge(e) \/ InterceptDone(e) \/ SendReplacement(e) \/ SendBasis(e)
           \/ PairFails(e) \/ ProverMeasured(e) \/ V0Measured(e) \/ StartRound(e)
           \/ VerifierReceives(e) \/ RoundTimesOut(e) \/ RejectPlan(e)
  BY <1>3 DEF PairFails, ProverMeasured, V0Measured, StartRound, SendChallenge, InterceptDone,
     SendReplacement, SendBasis, VerifierReceives, RoundTimesOut, RejectPlan, Passes, deviceVars
<1>4. QED
  BY <1>1, <1>2, <1>3

LEMMA OtherMemory ==
  ASSUME TypeOK, Agenda, MemInv, NEW e \in queue,
         \/ PairFails(e) \/ PhotonArrives(e) \/ GateCloses(e) \/ ProverMeasured(e)
         \/ V0Measured(e) \/ StartRound(e) \/ SendChallenge(e) \/ InterceptDone(e)
         \/ SendReplacement(e) \/ SendBasis(e) \/ VerifierReceives(e) \/ RoundTimesOut(e)
         \/ RejectPlan(e) \/ ReportArrives(e) \/ FinalTimesOut(e)
  PROVE  MemInv'
<1>1. PICK N : Leaves(e, N) /\ Apart(N)
  BY OtherLeaves
<1>2. UNCHANGED config /\ e.kind \notin MemoryKinds
  BY DEF PairFails, PhotonArrives, GateCloses, ProverMeasured, V0Measured, StartRound,
         SendChallenge, InterceptDone, SendReplacement, SendBasis, VerifierReceives,
         RoundTimesOut, RejectPlan, ReportArrives, FinalTimesOut, Handle, MemoryKinds
<1>3. UNCHANGED mem \/ mem' = Released(e.round)
  BY OtherSlots
<1>4. e.kind # "expire"
  BY <1>2 DEF MemoryKinds
<1>5. QED
  BY <1>1, <1>2, <1>3, <1>4, MemoryUntouched, MemoryReleased

LEMMA NextMemInv ==
  ASSUME TypeOK, Agenda, MemInv, [Next]_vars
  PROVE  MemInv'
<1>1. CASE Step
  <2>1. PICK e \in queue : DeviceStep(e) \/ ProtocolStep(e) \/ DecisionStep(e)
    BY <1>1 DEF Step
  <2>2. CASE StartRoundRaises(e)
    BY <2>2, RaiseKeepsMemory DEF StartRoundRaises, Handle
  <2>3. QED
    BY <2>1, <2>2, PairMemory, LoadMemory, BasisMemory, SlotMemory, OtherMemory
       DEF DeviceStep, ProtocolStep, DecisionStep
<1>2. CASE Finish \/ UNCHANGED vars
  BY <1>2, MemoryKept DEF Finish, MemInv, vars, schedulerVars, deviceVars
<1>3. QED
  BY <1>1, <1>2 DEF Next, Over

LEMMA InitMemInv == ASSUME Init PROVE MemInv
<1> SUFFICES ASSUME NEW m \in Holders PROVE SlotInv(m, mem[m], MemoryEvents(queue, m))
  BY DEF MemInv
<1>1. \A x \in queue : x.kind = "start"
  BY InitialEvents
<1>2. MemoryEvents(queue, m) = {}
  BY <1>1 DEF MemoryEvents, MemoryKinds
<1>3. mem[m].state = "empty"
  BY DEF Init, EmptySlot
<1>4. QED
  BY <1>2, <1>3
     DEF SlotInv, CompletionsInUse, OneCompletion, ExpiriesAreDated, ExpiryIsPending

LEMMA SessionMemory == Spec => []MemInv
<1>1. Init => MemInv
  BY InitMemInv
<1>2. TypeOK /\ Agenda /\ MemInv /\ [Next]_vars => MemInv'
  BY NextMemInv
<1>3. QED
  BY <1>1, <1>2, SessionTypes, SessionAgenda, PTL DEF Spec

\* An expiry takes effect when its qubit has been held for the maximum, and on
\* no other (_on_expire).
THEOREM SessionExpiresWhenDue == Spec => ExpiresOnlyWhenDue
<1>1. ASSUME TypeOK, MemInv, [Next]_vars, NEW m \in Holders,
             mem[m].state # "expired", mem'[m].state = "expired"
      PROVE  now' = mem[m].storedAt + config.hold[m]
  <2>1. mem \in [Holders -> SlotType]
    BY <1>1 DEF TypeOK, DeviceType
  <2>2. ~(Finish \/ UNCHANGED vars)
    BY <1>1 DEF Finish, vars, deviceVars
  <2>3. PICK e \in queue : DeviceStep(e) \/ ProtocolStep(e) \/ DecisionStep(e)
    BY <1>1, <2>2 DEF Next, Over, Step
  <2>4. CASE Expire(e)
    <3>1. e.who = m /\ mem[m].state = "stored" /\ mem[m].gen = e.val /\ now' = e.when
          /\ e.kind = "expire"
      BY <1>1, <2>1, <2>4 DEF Expire, Handle
    <3>2. e \in MemoryEvents(queue, m)
      BY <3>1 DEF MemoryEvents, MemoryKinds
    <3>3. QED
      BY <1>1, <3>1, <3>2 DEF MemInv, SlotInv, ExpiriesAreDated
  <2>5. CASE UNCHANGED mem \/ mem' = Released(e.round)
    BY <1>1, <2>1, <2>5 DEF Released, EmptySlot
  <2>6. CASE \E n \in Holders : mem' = Loading(n)
    BY <1>1, <2>1, <2>6 DEF Loading, SlotType
  <2>7. ASSUME NEW rd, NEW mm \in [Holders -> SlotType], mem' = Retrieving(rd, mm),
               mm[m].state \in {mem[m].state, "stored"}
        PROVE  FALSE
    <3>1. CASE CanMeasure(rd, mm)
      <4>1. mem'[m].state = "retrieving"
        BY <2>7, <3>1 DEF Retrieving, SlotType
      <4>2. QED
        BY <1>1, <4>1
    <3>2. CASE ~CanMeasure(rd, mm)
      BY <1>1, <2>7, <3>2 DEF Retrieving
    <3>3. QED
      BY <3>1, <3>2
  <2>8. CASE LoadFails(e) \/ RetrieveDone(e)
    BY <1>1, <2>1, <2>8 DEF LoadFails, RetrieveDone, Raise, deviceVars, EmptySlot, SlotType
  <2>9. CASE LoadDone(e)
    <3>1. mem' = Retrieving(LoadedRound(e), LoadedMem(e))
      BY <2>9 DEF LoadDone, LoadedRound, LoadedMem
    <3>2. e.round \in Rounds /\ e.when \in Int /\ e.who \in Nodes
      BY <1>1, <2>9, TypesOfEvent, ActorOfEvent, PhasesAndKinds DEF LoadDone, Handle
    <3>3. LoadedMem(e) \in [Holders -> SlotType]
      BY <1>1, <3>2, MemoryTypes DEF LoadedMem
    <3>4. LoadedMem(e)[m].state \in {mem[m].state, "stored"}
      BY <2>1 DEF LoadedMem, SlotType
    <3>5. QED
      BY <2>7, <3>1, <3>3, <3>4
  <2>10. CASE BasisArrives(e)
    BY <2>1, <2>7, <2>10 DEF BasisArrives
  <2>11. CASE PairReady(e) \/ PairReadyRaises(e) \/ DetectionDone(e) \/ StartRoundRaises(e)
    <3>1. UNCHANGED mem \/ mem' = Loading("v0") \/ mem' = Loading("prover")
      BY <2>11 DEF PairReady, PairReadyRaises, DetectionDone, StartRoundRaises, Raise, Resolved,
                   Passes, Commit, deviceVars
    <3>2. QED
      BY <2>5, <2>6, <3>1 DEF Holders
  <2>12. QED
    BY <2>3, <2>4, <2>5, <2>8, <2>9, <2>10, <2>11, OtherSlots
       DEF DeviceStep, ProtocolStep, DecisionStep
<1>2. TypeOK /\ MemInv /\ [Next]_vars =>
        [\A m \in Holders :
           mem[m].state # "expired" /\ mem'[m].state = "expired" =>
             now' = mem[m].storedAt + config.hold[m]]_vars
  BY <1>1
<1>3. QED
  BY <1>2, SessionTypes, SessionMemory, PTL DEF Spec, ExpiresOnlyWhenDue


-----------------------------------------------------------------------------
(* The runtime of a round has its type. *)

Outcomes ==
  {"none", "valid_detection", "missed_photon", "state_destroyed", "outside_gate",
   "detector_busy", "dark_count"}

ReportType ==
  [commitment : Opt(Nat), commitAt : Opt(Int), commitReported : Opt(Int),
   answer : Opt(Nat), answerAt : Opt(Int), answerReported : Opt(Int),
   local : Opt(Nat), deadline : Int]

ObservationType ==
  [commitment : Opt(Nat), commitAt : Opt(Int), answer : Opt(Nat), answerAt : Opt(Int),
   report : Opt(ReportType)]

RoundType ==
  [outcome : Outcomes, committed : BOOLEAN, valid : BOOLEAN, commitAt : Opt(Int),
   arrival : [Verifiers -> Opt(Int)], measuring : BOOLEAN, bit : [Holders -> Opt(Nat)],
   dwell : Opt(Int), seen : [Verifiers -> ObservationType], received : SUBSET Verifiers]

RuntimeTypes == round \in [Rounds -> RoundType]

\* What a handler does to the runtime of its round.
Runs(e, rd) == round' = [round EXCEPT ![e.round] = rd]

Committing(rd, outcome, t) ==
  LET dark == outcome = "dark_count" IN
  [rd EXCEPT !.outcome = outcome, !.committed = dark,
             !.valid = IF dark THEN FALSE ELSE rd.valid, !.commitAt = t]

Seeing(rd, e) ==
  IF e.kind = "commitment"
  THEN [rd EXCEPT !.seen[e.who].commitment = e.val, !.seen[e.who].commitAt = e.when]
  ELSE [rd EXCEPT !.seen[e.who].answer = e.val, !.seen[e.who].answerAt = e.when]

LEMMA FreshTypes == FreshRound \in RoundType
BY DEF FreshRound, RoundType, Outcomes, Opt, NoObservation, ObservationType

LEMMA DetectorRuntime ==
  ASSUME NEW rd \in RoundType, NEW t \in Int, NEW outcome \in Outcomes
  PROVE  /\ Committing(rd, outcome, t) \in RoundType
         /\ [rd EXCEPT !.outcome = "valid_detection"] \in RoundType
BY ZenonT(60) DEF RoundType, Committing, Outcomes, Opt

LEMMA LoadRuntime ==
  ASSUME NEW rd \in RoundType, NEW t \in Int, NEW b \in BOOLEAN
  PROVE  [rd EXCEPT !.committed = b, !.valid = b, !.commitAt = t] \in RoundType
BY DEF RoundType, Opt

LEMMA TryRuntime ==
  ASSUME NEW rd \in RoundType, NEW mm
  PROVE  AfterTry(rd, mm) \in RoundType
BY DEF RoundType, AfterTry, CanMeasure

LEMMA ArrivalRuntime ==
  ASSUME NEW rd \in RoundType, NEW v \in Verifiers, NEW t \in Int
  PROVE  [rd EXCEPT !.arrival[v] = t] \in RoundType
<1>1. [rd.arrival EXCEPT ![v] = t] \in [Verifiers -> Opt(Int)]
  BY DEF RoundType, Opt
<1>2. QED
  BY <1>1 DEF RoundType

LEMMA DwellRuntime ==
  ASSUME NEW rd \in RoundType, NEW t \in Int
  PROVE  [rd EXCEPT !.dwell = t] \in RoundType
BY DEF RoundType, Opt

LEMMA BitRuntime ==
  ASSUME NEW rd \in RoundType, NEW m \in Holders, NEW bit \in Nat
  PROVE  [rd EXCEPT !.bit[m] = bit] \in RoundType
<1>1. [rd.bit EXCEPT ![m] = bit] \in [Holders -> Opt(Nat)]
  BY DEF RoundType, Opt
<1>2. QED
  BY <1>1 DEF RoundType

LEMMA ReceivedRuntime ==
  ASSUME NEW rd \in RoundType, NEW v \in Verifiers
  PROVE  [rd EXCEPT !.received = @ \union {v}] \in RoundType
BY DEF RoundType

LEMMA SeenRuntime ==
  ASSUME NEW rd \in RoundType, NEW v \in Verifiers, NEW o \in ObservationType
  PROVE  [rd EXCEPT !.seen[v] = o] \in RoundType
<1>1. [rd.seen EXCEPT ![v] = o] \in [Verifiers -> ObservationType]
  BY DEF RoundType
<1>2. QED
  BY <1>1 DEF RoundType

LEMMA SeeingRuntime ==
  ASSUME NEW rd \in RoundType, NEW e, e.who \in Verifiers, e.val \in Nat, e.when \in Int
  PROVE  Seeing(rd, e) \in RoundType
<1> DEFINE v == e.who
           o == rd.seen[v]
<1>1. o \in ObservationType
  BY DEF RoundType
<1>2. /\ [o EXCEPT !.commitment = e.val, !.commitAt = e.when] \in ObservationType
      /\ [o EXCEPT !.answer = e.val, !.answerAt = e.when] \in ObservationType
  BY <1>1 DEF ObservationType, Opt
<1>3. CASE e.kind = "commitment"
  <2>1. [rd EXCEPT !.seen[v] = [o EXCEPT !.commitment = e.val, !.commitAt = e.when]] \in RoundType
    BY <1>2, SeenRuntime
  <2>2. QED
    BY <1>3, <2>1 DEF Seeing
<1>4. CASE e.kind # "commitment"
  <2>1. [rd EXCEPT !.seen[v] = [o EXCEPT !.answer = e.val, !.answerAt = e.when]] \in RoundType
    BY <1>2, SeenRuntime
  <2>2. QED
    BY <1>4, <2>1 DEF Seeing
<1>5. QED
  BY <1>3, <1>4

LEMMA ReportedTypes ==
  ASSUME NEW at \in Opt(Int), NEW bias \in Int
  PROVE  Reported(at, bias) \in Opt(Int)
BY DEF Reported, Opt

LEMMA ReportTypes ==
  ASSUME config \in Configs, NEW r \in Rounds, NEW v \in Verifiers, NEW o \in ObservationType,
         NEW bit \in Opt(Nat)
  PROVE  ReportOf(r, v, o, bit) \in ReportType
<1>1. config.bias[v].commitment \in Int /\ config.bias[v].answer \in Int
  BY SessionAssumption DEF SessionConfig
<1>2. /\ o.commitment \in Opt(Nat) /\ o.commitAt \in Opt(Int)
      /\ o.answer \in Opt(Nat) /\ o.answerAt \in Opt(Int)
  BY DEF ObservationType
<1>3. /\ Reported(o.commitAt, config.bias[v].commitment) \in Opt(Int)
      /\ Reported(o.answerAt, config.bias[v].answer) \in Opt(Int)
  BY <1>1, <1>2, ReportedTypes
<1>4. AnswerDeadline(config, r, v) \in Int
  BY ConfigTypes, RoundIsNat, PlanTypes
<1>5. (IF v = "v0" THEN bit ELSE None) \in Opt(Nat)
  BY DEF Opt
<1>6. QED
  BY <1>2, <1>3, <1>4, <1>5 DEF ReportOf, ReportType

LEMMA WithReportRuntime ==
  ASSUME config \in Configs, NEW r \in Rounds, NEW v \in Verifiers, NEW rd \in RoundType,
         NEW force
  PROVE  WithReport(r, v, rd, force) \in RoundType
<1> DEFINE o == rd.seen[v]
           rep == ReportOf(r, v, o, rd.bit["v0"])
<1>1. o \in ObservationType /\ rd.bit["v0"] \in Opt(Nat)
  BY DEF RoundType, Holders
<1>2. rep \in ReportType
  BY <1>1, ReportTypes
<1> HIDE DEF rep
<1>3. [o EXCEPT !.report = rep] \in ObservationType
  BY <1>1, <1>2 DEF ObservationType, Opt
<1>4. [rd EXCEPT !.seen[v] = [o EXCEPT !.report = rep]] \in RoundType
  BY <1>3, SeenRuntime
<1>5. [rd EXCEPT !.seen[v].report = rep] \in RoundType
  BY <1>4
<1>6. QED
  BY <1>5 DEF WithReport, rep


\* What each handler does to the runtime of its round.
LEMMA CommitRuns ==
  ASSUME TypeOK, RuntimeTypes, NEW e \in queue, NEW outcome, Commit(e, outcome)
  PROVE  Runs(e, Committing(round[e.round], outcome, e.when))
<1>1. e.round \in Rounds /\ round[e.round] \in RoundType
  BY TypesOfEvent DEF RuntimeTypes
<1>2. QED
  BY <1>1 DEF Commit, Runs, Committing, RuntimeTypes

LEMMA DeviceRuns ==
  ASSUME TypeOK, RuntimeTypes, NEW e \in queue
  PROVE  LET rd == round[e.round] IN
         /\ LoadDone(e) => Runs(e, AfterTry(LoadedRound(e), LoadedMem(e)))
         /\ LoadFails(e) =>
              \/ e.who = "v0" /\ UNCHANGED round
              \/ /\ e.who = "prover"
                 /\ Runs(e, [rd EXCEPT !.committed = FALSE, !.valid = FALSE, !.commitAt = e.when])
         /\ RetrieveDone(e) =>
              \/ UNCHANGED round
              \/ /\ e.who = "prover"
                 /\ Runs(e, [rd EXCEPT !.dwell = e.when - mem["prover"].storedAt])
         /\ BasisArrives(e) => Runs(e, AfterTry([rd EXCEPT !.arrival[e.who] = e.when], mem))
         /\ ProverMeasured(e) =>
              \E bit \in config.can.bit["prover"], outs \in Pairs("answer") :
                /\ Runs(e, [rd EXCEPT !.bit["prover"] = bit])
                /\ Return(e, Broadcast(e.when, "answer", e.round, bit, outs))
<1>1. e.round \in Rounds /\ round[e.round] \in RoundType
  BY TypesOfEvent DEF RuntimeTypes
<1>2. LoadDone(e) => Runs(e, AfterTry(LoadedRound(e), LoadedMem(e)))
  BY DEF LoadDone, LoadedRound, LoadedMem, Runs
<1>3. LoadFails(e) =>
        \/ e.who = "v0" /\ UNCHANGED round
        \/ /\ e.who = "prover"
           /\ Runs(e, [round[e.round] EXCEPT !.committed = FALSE, !.valid = FALSE,
                                             !.commitAt = e.when])
  BY <1>1 DEF LoadFails, Runs, RuntimeTypes
<1>4. RetrieveDone(e) =>
        \/ UNCHANGED round
        \/ /\ e.who = "prover"
           /\ Runs(e, [round[e.round] EXCEPT !.dwell = e.when - mem["prover"].storedAt])
  BY <1>1 DEF RetrieveDone, Raise, Runs, RuntimeTypes
<1>5. BasisArrives(e) =>
        Runs(e, AfterTry([round[e.round] EXCEPT !.arrival[e.who] = e.when], mem))
  BY DEF BasisArrives, Runs
<1>6. ProverMeasured(e) =>
        \E bit \in config.can.bit["prover"], outs \in Pairs("answer") :
          /\ Runs(e, [round[e.round] EXCEPT !.bit["prover"] = bit])
          /\ Return(e, Broadcast(e.when, "answer", e.round, bit, outs))
  BY <1>1 DEF ProverMeasured, Runs, RuntimeTypes
<1>7. QED
  BY <1>2, <1>3, <1>4, <1>5, <1>6

\* The handler of e brings the runtime to rd and has v report if it can.
Reporting(e, v, rd) ==
  /\ Runs(e, WithReport(e.round, v, rd, FALSE))
  /\ \E out \in config.tamper["report"] :
       Return(e, ReportCopies(e.when, e.round, v, rd, FALSE, out))

LEMMA ReportRuns ==
  ASSUME NEW e
  PROVE  LET r == e.round  rd == round[r] IN
         /\ V0Measured(e) =>
              \E bit \in config.can.bit["v0"] : Reporting(e, "v0", [rd EXCEPT !.bit["v0"] = bit])
         /\ VerifierReceives(e) => Reporting(e, e.who, Seeing(rd, e))
         /\ ReportArrives(e) => Runs(e, [rd EXCEPT !.received = @ \union {e.who}])
         /\ RoundTimesOut(e) /\ ~completed[r] =>
              Runs(e, WithReport(r, "v1", WithReport(r, "v0", rd, TRUE), TRUE))
<1>1. V0Measured(e) =>
        \E bit \in config.can.bit["v0"] :
          Reporting(e, "v0", [round[e.round] EXCEPT !.bit["v0"] = bit])
  BY DEF V0Measured, Runs, Reporting
<1>2. VerifierReceives(e) => Reporting(e, e.who, Seeing(round[e.round], e))
  BY DEF VerifierReceives, Runs, Reporting, Seeing
<1>3. ReportArrives(e) => Runs(e, [round[e.round] EXCEPT !.received = @ \union {e.who}])
  BY DEF ReportArrives, Runs
<1>4. RoundTimesOut(e) /\ ~completed[e.round] =>
        Runs(e, WithReport(e.round, "v1", WithReport(e.round, "v0", round[e.round], TRUE), TRUE))
  BY DEF RoundTimesOut, Runs
<1>5. QED
  BY <1>1, <1>2, <1>3, <1>4

\* The handlers that leave the runtime as it is.
LEMMA NothingRuns ==
  ASSUME NEW e,
         \/ PairReady(e) \/ PairReadyRaises(e) \/ PairFails(e) \/ Expire(e)
         \/ StartRound(e) \/ StartRoundRaises(e) \/ SendChallenge(e) \/ InterceptDone(e)
         \/ SendReplacement(e) \/ SendBasis(e) \/ RejectPlan(e) \/ FinalTimesOut(e)
         \/ RoundTimesOut(e) /\ completed[e.round]
  PROVE  UNCHANGED round
BY DEF PairReady, PairReadyRaises, PairFails, Expire, StartRound, StartRoundRaises,
   SendChallenge, InterceptDone, SendReplacement, SendBasis, RejectPlan, FinalTimesOut,
   RoundTimesOut, Passes, Raise

LEMMA DetectorRuns ==
  ASSUME TypeOK, RuntimeTypes, NEW e \in queue,
         PhotonArrives(e) \/ DetectionDone(e) \/ GateCloses(e)
  PROVE  \/ UNCHANGED round
         \/ \E outcome \in Outcomes \ {"valid_detection"} :
              Commit(e, outcome) /\ ~gate[e.round].resolved
         \/ /\ DetectionDone(e) /\ ~gate[e.round].resolved
            /\ Runs(e, [round[e.round] EXCEPT !.outcome = "valid_detection"])
            /\ Return(e, <<LoadEvent(e.when, "prover", e.round)>>)
            /\ gate' = [gate EXCEPT ![e.round].resolved = TRUE]
<1>1. e.round \in Rounds /\ round[e.round] \in RoundType
  BY TypesOfEvent DEF RuntimeTypes
<1>2. /\ config.can.qnd \subseteq {"valid_detection", "missed_photon", "state_destroyed"}
      /\ config.can.close \subseteq {"missed_photon", "dark_count"}
  BY SessionAssumption DEF SessionConfig, TypeOK
<1>3. CASE PhotonArrives(e)
  BY <1>3 DEF PhotonArrives, Resolved, Passes, Outcomes
<1>4. CASE DetectionDone(e)
  BY <1>1, <1>2, <1>4
     DEF DetectionDone, Resolved, Passes, Outcomes, Runs, Raise, RuntimeTypes
<1>5. CASE GateCloses(e)
  BY <1>2, <1>5 DEF GateCloses, Resolved, Passes, Outcomes
<1>6. QED
  BY <1>3, <1>4, <1>5

\* Every handler that returns or raises changes the runtime of one round at most.
LEMMA StepRuns ==
  ASSUME TypeOK, MemInv, RuntimeTypes, NEW e \in queue,
         DeviceStep(e) \/ ProtocolStep(e) \/ DecisionStep(e)
  PROVE  UNCHANGED round \/ \E rd \in RoundType : Runs(e, rd)
<1> DEFINE r == e.round
<1>1. /\ r \in Rounds /\ round[r] \in RoundType /\ e.when \in Int /\ config \in Configs
      /\ e.val \in Nat
  BY TypesOfEvent DEF RuntimeTypes, TypeOK
<1>2. CASE PhotonArrives(e) \/ DetectionDone(e) \/ GateCloses(e)
  <2>1. CASE \E outcome \in Outcomes : Commit(e, outcome)
    BY <1>1, <2>1, CommitRuns, DetectorRuntime
  <2>2. CASE Runs(e, [round[r] EXCEPT !.outcome = "valid_detection"])
    <3>1. "valid_detection" \in Outcomes
      BY DEF Outcomes
    <3>2. QED
      BY <1>1, <2>2, <3>1, DetectorRuntime
  <2>3. QED
    BY <1>2, <2>1, <2>2, DetectorRuns
<1>3. CASE LoadDone(e)
  <2>1. LoadedRound(e) \in RoundType
    BY <1>1, LoadRuntime DEF LoadedRound
  <2>2. QED
    BY <1>3, <2>1, DeviceRuns, TryRuntime
<1>4. CASE LoadFails(e)
  BY <1>1, <1>4, DeviceRuns, LoadRuntime
<1>5. CASE RetrieveDone(e)
  <2>1. CASE UNCHANGED round
    BY <2>1
  <2>2. CASE /\ e.who = "prover"
             /\ Runs(e, [round[r] EXCEPT !.dwell = e.when - mem["prover"].storedAt])
    <3>1. e \in MemoryEvents(queue, "prover") /\ e.kind = "retrieve" /\ "prover" \in Holders
      BY <1>5, <2>2 DEF RetrieveDone, Handle, MemoryEvents, MemoryKinds, Holders
    <3>2. mem["prover"].storedAt # None /\ mem["prover"] \in SlotType
      BY <3>1, SlotTypes
         DEF MemInv, SlotInv, CompletionsInUse, ExpiryIsPending
    <3>3. e.when - mem["prover"].storedAt \in Int
      BY <1>1, <3>2 DEF SlotType, Opt
    <3>4. QED
      BY <1>1, <2>2, <3>3, DwellRuntime
  <2>3. QED
    BY <1>5, <2>1, <2>2, DeviceRuns
<1>6. CASE BasisArrives(e)
  <2>1. e.who \in Verifiers
    BY <1>6, ActorOfEvent DEF BasisArrives, Handle, MessageKinds
  <2>2. QED
    BY <1>1, <1>6, <2>1, DeviceRuns, ArrivalRuntime, TryRuntime
<1>7. CASE ProverMeasured(e)
  <2>1. config.can.bit["prover"] \subseteq {0, 1} /\ "prover" \in Holders
    BY <1>1, ConfigTypes DEF Holders
  <2>2. PICK bit \in config.can.bit["prover"] : Runs(e, [round[r] EXCEPT !.bit["prover"] = bit])
    BY <1>7, DeviceRuns
  <2>3. bit \in Nat
    BY <2>1
  <2>4. QED
    BY <1>1, <2>1, <2>2, <2>3, BitRuntime
<1>8. CASE V0Measured(e)
  <2>1. config.can.bit["v0"] \subseteq {0, 1} /\ "v0" \in Holders /\ "v0" \in Verifiers
    BY <1>1, ConfigTypes DEF Holders, Verifiers
  <2>2. PICK bit \in config.can.bit["v0"] :
          Runs(e, WithReport(r, "v0", [round[r] EXCEPT !.bit["v0"] = bit], FALSE))
    BY <1>8, ReportRuns DEF Reporting
  <2>3. bit \in Nat
    BY <2>1
  <2>4. [round[r] EXCEPT !.bit["v0"] = bit] \in RoundType
    BY <1>1, <2>1, <2>3, BitRuntime
  <2>5. QED
    BY <1>1, <2>1, <2>2, <2>4, WithReportRuntime
<1>9. CASE VerifierReceives(e)
  <2>1. e.who \in Verifiers
    BY <1>9, ActorOfEvent DEF VerifierReceives, Handle, MessageKinds
  <2>2. Seeing(round[r], e) \in RoundType
    BY <1>1, <2>1, SeeingRuntime
  <2>3. QED
    BY <1>1, <1>9, <2>1, <2>2, ReportRuns, WithReportRuntime DEF Reporting
<1>10. CASE ReportArrives(e)
  <2>1. e.who \in Verifiers
    BY <1>10, ActorOfEvent DEF ReportArrives, Handle, MessageKinds
  <2>2. QED
    BY <1>1, <1>10, <2>1, ReportRuns, ReceivedRuntime
<1>11. CASE RoundTimesOut(e) /\ ~completed[r]
  <2>1. "v0" \in Verifiers /\ "v1" \in Verifiers
    BY DEF Verifiers
  <2>2. WithReport(r, "v0", round[r], TRUE) \in RoundType
    BY <1>1, <2>1, WithReportRuntime
  <2>3. WithReport(r, "v1", WithReport(r, "v0", round[r], TRUE), TRUE) \in RoundType
    BY <1>1, <2>1, <2>2, WithReportRuntime
  <2>4. QED
    BY <1>11, <2>3, ReportRuns
<1>12. QED
  BY <1>2, <1>3, <1>4, <1>5, <1>6, <1>7, <1>8, <1>9, <1>10, <1>11, NothingRuns
     DEF DeviceStep, ProtocolStep, DecisionStep

LEMMA NextRuntimeTypes ==
  ASSUME TypeOK, MemInv, RuntimeTypes, [Next]_vars
  PROVE  RuntimeTypes'
<1>1. CASE Step
  <2>1. PICK e \in queue : DeviceStep(e) \/ ProtocolStep(e) \/ DecisionStep(e)
    BY <1>1 DEF Step
  <2>2. CASE \E rd \in RoundType : Runs(e, rd)
    BY <2>2 DEF Runs, RuntimeTypes
  <2>3. QED
    BY <2>1, <2>2, StepRuns DEF RuntimeTypes
<1>2. CASE Finish \/ UNCHANGED vars
  BY <1>2 DEF Finish, RuntimeTypes, vars
<1>3. QED
  BY <1>1, <1>2 DEF Next, Over

LEMMA SessionRuntime == Spec => []RuntimeTypes
<1>1. Init => RuntimeTypes
  BY FreshTypes DEF Init, RuntimeTypes
<1>2. TypeOK /\ MemInv /\ RuntimeTypes /\ [Next]_vars => RuntimeTypes'
  BY NextRuntimeTypes
<1>3. QED
  BY <1>1, <1>2, SessionTypes, SessionMemory, PTL DEF Spec


\* What each operation changes in a runtime rd, field by field.
CommittingEffect(n, rd, outcome) ==
  /\ n.arrival = rd.arrival /\ n.measuring = rd.measuring /\ n.bit = rd.bit /\ n.dwell = rd.dwell
  /\ n.seen = rd.seen /\ n.received = rd.received
  /\ n.outcome = outcome /\ n.committed = (outcome = "dark_count")
  /\ n.valid = IF outcome = "dark_count" THEN FALSE ELSE rd.valid

DetectedEffect(n, rd) ==
  /\ n.committed = rd.committed /\ n.valid = rd.valid /\ n.commitAt = rd.commitAt /\ n.arrival = rd.arrival
  /\ n.measuring = rd.measuring /\ n.bit = rd.bit /\ n.dwell = rd.dwell /\ n.seen = rd.seen
  /\ n.received = rd.received
  /\ n.outcome = "valid_detection"

LoadEffect(n, rd, b) ==
  /\ n.outcome = rd.outcome /\ n.arrival = rd.arrival /\ n.measuring = rd.measuring /\ n.bit = rd.bit
  /\ n.dwell = rd.dwell /\ n.seen = rd.seen /\ n.received = rd.received
  /\ n.committed = b /\ n.valid = b

TryEffect(n, rd, mm) ==
  /\ n.outcome = rd.outcome /\ n.committed = rd.committed /\ n.valid = rd.valid /\ n.commitAt = rd.commitAt
  /\ n.arrival = rd.arrival /\ n.bit = rd.bit /\ n.dwell = rd.dwell /\ n.seen = rd.seen
  /\ n.received = rd.received
  /\ n.measuring = (rd.measuring \/ CanMeasure(rd, mm))

ArrivalEffect(n, rd) ==
  /\ n.outcome = rd.outcome /\ n.committed = rd.committed /\ n.valid = rd.valid /\ n.commitAt = rd.commitAt
  /\ n.measuring = rd.measuring /\ n.bit = rd.bit /\ n.dwell = rd.dwell /\ n.seen = rd.seen
  /\ n.received = rd.received

DwellEffect(n, rd) ==
  /\ n.outcome = rd.outcome /\ n.committed = rd.committed /\ n.valid = rd.valid /\ n.commitAt = rd.commitAt
  /\ n.arrival = rd.arrival /\ n.measuring = rd.measuring /\ n.bit = rd.bit /\ n.seen = rd.seen
  /\ n.received = rd.received

BitEffect(n, rd, m, bit) ==
  /\ n.outcome = rd.outcome /\ n.committed = rd.committed /\ n.valid = rd.valid /\ n.commitAt = rd.commitAt
  /\ n.arrival = rd.arrival /\ n.measuring = rd.measuring /\ n.dwell = rd.dwell /\ n.seen = rd.seen
  /\ n.received = rd.received
  /\ n.bit[m] = bit /\ \A k \in Holders \ {m} : n.bit[k] = rd.bit[k]

ReceivedEffect(n, rd, v) ==
  /\ n.outcome = rd.outcome /\ n.committed = rd.committed /\ n.valid = rd.valid /\ n.commitAt = rd.commitAt
  /\ n.arrival = rd.arrival /\ n.measuring = rd.measuring /\ n.bit = rd.bit /\ n.dwell = rd.dwell
  /\ n.seen = rd.seen
  /\ n.received = rd.received \union {v}

SeeingEffect(n, rd, e) ==
  /\ n.outcome = rd.outcome /\ n.committed = rd.committed /\ n.valid = rd.valid /\ n.commitAt = rd.commitAt
  /\ n.arrival = rd.arrival /\ n.measuring = rd.measuring /\ n.bit = rd.bit /\ n.dwell = rd.dwell
  /\ n.received = rd.received
  /\ \A w \in Verifiers \ {e.who} : n.seen[w] = rd.seen[w]
  /\ LET o == rd.seen[e.who]  p == n.seen[e.who] IN
     /\ p.report = o.report
     /\ e.kind = "commitment" =>
          /\ p.commitment = e.val /\ p.commitAt = e.when
          /\ p.answer = o.answer /\ p.answerAt = o.answerAt
     /\ e.kind # "commitment" =>
          /\ p.answer = e.val /\ p.answerAt = e.when
          /\ p.commitment = o.commitment /\ p.commitAt = o.commitAt

ReportEffect(n, rd, r, v, force) ==
  /\ n.outcome = rd.outcome /\ n.committed = rd.committed /\ n.valid = rd.valid /\ n.commitAt = rd.commitAt
  /\ n.arrival = rd.arrival /\ n.measuring = rd.measuring /\ n.bit = rd.bit /\ n.dwell = rd.dwell
  /\ n.received = rd.received
  /\ \A w \in Verifiers \ {v} : n.seen[w] = rd.seen[w]
  /\ LET o == rd.seen[v]  p == n.seen[v] IN
     /\ p.commitment = o.commitment /\ p.commitAt = o.commitAt
     /\ p.answer = o.answer /\ p.answerAt = o.answerAt
     /\ p.report = IF Reports(v, rd, force) THEN ReportOf(r, v, o, rd.bit["v0"]) ELSE o.report

LEMMA SimpleEffects ==
  ASSUME NEW rd \in RoundType
  PROVE  /\ \A outcome, t : CommittingEffect(Committing(rd, outcome, t), rd, outcome)
         /\ DetectedEffect([rd EXCEPT !.outcome = "valid_detection"], rd)
         /\ \A b, t : LoadEffect([rd EXCEPT !.committed = b, !.valid = b, !.commitAt = t], rd, b)
         /\ \A t : DwellEffect([rd EXCEPT !.dwell = t], rd)
         /\ \A mm : TryEffect(AfterTry(rd, mm), rd, mm)
         /\ \A v, t : ArrivalEffect([rd EXCEPT !.arrival[v] = t], rd)
         /\ \A m \in Holders : \A bit : BitEffect([rd EXCEPT !.bit[m] = bit], rd, m, bit)
         /\ \A v : ReceivedEffect([rd EXCEPT !.received = @ \union {v}], rd, v)
<1>1. \A outcome, t : CommittingEffect(Committing(rd, outcome, t), rd, outcome)
  BY DEF RoundType, Committing, CommittingEffect
<1>2. /\ DetectedEffect([rd EXCEPT !.outcome = "valid_detection"], rd)
      /\ \A t : DwellEffect([rd EXCEPT !.dwell = t], rd)
  BY DEF RoundType, DetectedEffect, DwellEffect
<1>3. \A b, t : LoadEffect([rd EXCEPT !.committed = b, !.valid = b, !.commitAt = t], rd, b)
  BY DEF RoundType, LoadEffect
<1>4. \A mm : TryEffect(AfterTry(rd, mm), rd, mm)
  BY DEF RoundType, AfterTry, TryEffect
<1>5. \A v, t : ArrivalEffect([rd EXCEPT !.arrival[v] = t], rd)
  BY DEF RoundType, ArrivalEffect
<1>6. \A m \in Holders : \A bit : BitEffect([rd EXCEPT !.bit[m] = bit], rd, m, bit)
  BY DEF RoundType, BitEffect
<1>7. \A v : ReceivedEffect([rd EXCEPT !.received = @ \union {v}], rd, v)
  BY DEF RoundType, ReceivedEffect
<1>8. QED
  BY <1>1, <1>2, <1>3, <1>4, <1>5, <1>6, <1>7

LEMMA SeeingEffects ==
  ASSUME NEW rd \in RoundType, NEW e, e.who \in Verifiers
  PROVE  SeeingEffect(Seeing(rd, e), rd, e)
<1> DEFINE v == e.who
           o == rd.seen[v]
<1>1. rd.seen \in [Verifiers -> ObservationType] /\ o \in ObservationType
  BY DEF RoundType
<1>2. CASE e.kind = "commitment"
  <2>1. Seeing(rd, e) = [rd EXCEPT !.seen = [rd.seen EXCEPT ![v] = [o EXCEPT !.commitment = e.val,
                                                                            !.commitAt = e.when]]]
    BY <1>1, <1>2 DEF Seeing, RoundType
  <2>2. QED
    BY <1>1, <1>2, <2>1 DEF RoundType, ObservationType, SeeingEffect
<1>3. CASE e.kind # "commitment"
  <2>1. Seeing(rd, e) = [rd EXCEPT !.seen = [rd.seen EXCEPT ![v] = [o EXCEPT !.answer = e.val,
                                                                            !.answerAt = e.when]]]
    BY <1>1, <1>3 DEF Seeing, RoundType
  <2>2. QED
    BY <1>1, <1>3, <2>1 DEF RoundType, ObservationType, SeeingEffect
<1>4. QED
  BY <1>2, <1>3

LEMMA WithReportEffects ==
  ASSUME NEW rd \in RoundType, NEW r, NEW v \in Verifiers, NEW force
  PROVE  ReportEffect(WithReport(r, v, rd, force), rd, r, v, force)
<1> DEFINE o == rd.seen[v]
           rep == ReportOf(r, v, o, rd.bit["v0"])
<1>1. rd.seen \in [Verifiers -> ObservationType] /\ o \in ObservationType
  BY DEF RoundType
<1>2. CASE Reports(v, rd, force)
  <2>1. WithReport(r, v, rd, force) = [rd EXCEPT !.seen[v].report = rep]
    BY <1>2 DEF WithReport
  <2> HIDE DEF rep
  <2>2. QED
    BY <1>1, <1>2, <2>1 DEF RoundType, ObservationType, ReportEffect, rep
<1>3. CASE ~Reports(v, rd, force)
  BY <1>3 DEF WithReport, ReportEffect
<1>4. QED
  BY <1>2, <1>3

\* The same for the handlers.
LEMMA CommitEffects ==
  ASSUME TypeOK, RuntimeTypes, NEW e \in queue, NEW outcome \in Outcomes, Commit(e, outcome)
  PROVE  \E n \in RoundType : Runs(e, n) /\ CommittingEffect(n, round[e.round], outcome)
<1>1. round[e.round] \in RoundType /\ e.when \in Int
  BY TypesOfEvent DEF RuntimeTypes
<1>2. Runs(e, Committing(round[e.round], outcome, e.when))
  BY CommitRuns
<1>3. Committing(round[e.round], outcome, e.when) \in RoundType
  BY <1>1, DetectorRuntime
<1>4. CommittingEffect(Committing(round[e.round], outcome, e.when), round[e.round], outcome)
  BY <1>1, SimpleEffects
<1>5. QED
  BY <1>2, <1>3, <1>4

LEMMA LoadEffects ==
  ASSUME TypeOK, RuntimeTypes, NEW e \in queue
  PROVE  LET rd == round[e.round] IN
         /\ LoadDone(e) =>
              /\ LoadedRound(e) \in RoundType
              /\ IF e.who = "v0" THEN LoadedRound(e) = rd ELSE LoadEffect(LoadedRound(e), rd, TRUE)
              /\ \E n \in RoundType : Runs(e, n) /\ TryEffect(n, LoadedRound(e), LoadedMem(e))
         /\ LoadFails(e) =>
              \/ e.who = "v0" /\ UNCHANGED round
              \/ e.who = "prover" /\ \E n \in RoundType : Runs(e, n) /\ LoadEffect(n, rd, FALSE)
<1> DEFINE rd == round[e.round]
<1>1. rd \in RoundType /\ e.when \in Int
  BY TypesOfEvent DEF RuntimeTypes
<1>2. ASSUME NEW b \in BOOLEAN, NEW n, n = [rd EXCEPT !.committed = b, !.valid = b, !.commitAt = e.when]
      PROVE  n \in RoundType /\ LoadEffect(n, rd, b)
  BY <1>1, <1>2, LoadRuntime, SimpleEffects
<1>3. ASSUME LoadDone(e)
      PROVE  /\ LoadedRound(e) \in RoundType
             /\ IF e.who = "v0" THEN LoadedRound(e) = rd ELSE LoadEffect(LoadedRound(e), rd, TRUE)
             /\ \E n \in RoundType : Runs(e, n) /\ TryEffect(n, LoadedRound(e), LoadedMem(e))
  <2>1. e.who = "v0" => LoadedRound(e) = rd
    BY DEF LoadedRound
  <2>2. e.who # "v0" => LoadedRound(e) = [rd EXCEPT !.committed = TRUE, !.valid = TRUE, !.commitAt = e.when]
    BY DEF LoadedRound
  <2> HIDE DEF rd
  <2>3. /\ LoadedRound(e) \in RoundType
        /\ IF e.who = "v0" THEN LoadedRound(e) = rd ELSE LoadEffect(LoadedRound(e), rd, TRUE)
    <3>1. CASE e.who = "v0"
      BY <1>1, <2>1, <3>1
    <3>2. CASE e.who # "v0"
      BY <1>2, <2>2, <3>2
    <3>3. QED
      BY <3>1, <3>2
  <2>4. Runs(e, AfterTry(LoadedRound(e), LoadedMem(e)))
    BY <1>3, DeviceRuns
  <2>5. AfterTry(LoadedRound(e), LoadedMem(e)) \in RoundType
    BY <2>3, TryRuntime
  <2>6. TryEffect(AfterTry(LoadedRound(e), LoadedMem(e)), LoadedRound(e), LoadedMem(e))
    BY <2>3, SimpleEffects
  <2>7. QED
    BY <2>3, <2>4, <2>5, <2>6
<1>4. ASSUME LoadFails(e)
      PROVE  \/ e.who = "v0" /\ UNCHANGED round
             \/ e.who = "prover" /\ \E n \in RoundType : Runs(e, n) /\ LoadEffect(n, rd, FALSE)
  <2>1. CASE e.who = "v0" /\ UNCHANGED round
    BY <2>1
  <2> DEFINE n == [rd EXCEPT !.committed = FALSE, !.valid = FALSE, !.commitAt = e.when]
  <2>2. CASE e.who = "prover" /\ Runs(e, n)
    <3>1. n \in RoundType /\ LoadEffect(n, rd, FALSE)
      BY <1>2
    <3>2. QED
      BY <2>2, <3>1
  <2>3. QED
    BY <1>4, <2>1, <2>2, DeviceRuns
<1>5. QED
  BY <1>3, <1>4

LEMMA MeasureEffects ==
  ASSUME TypeOK, MemInv, RuntimeTypes, NEW e \in queue
  PROVE  LET rd == round[e.round] IN
         /\ RetrieveDone(e) =>
              \/ UNCHANGED round
              \/ \E n \in RoundType : Runs(e, n) /\ DwellEffect(n, rd)
         /\ BasisArrives(e) =>
              LET rd1 == [rd EXCEPT !.arrival[e.who] = e.when] IN
              /\ rd1 \in RoundType /\ ArrivalEffect(rd1, rd)
              /\ \E n \in RoundType : Runs(e, n) /\ TryEffect(n, rd1, mem)
         /\ ProverMeasured(e) =>
              \E bit \in Nat, outs \in Pairs("answer"), n \in RoundType :
                /\ Runs(e, n) /\ BitEffect(n, rd, "prover", bit)
                /\ Return(e, Broadcast(e.when, "answer", e.round, bit, outs))
<1> DEFINE rd == round[e.round]
<1>1. rd \in RoundType /\ e.when \in Int /\ config \in Configs /\ e.round \in Rounds
  BY TypesOfEvent DEF RuntimeTypes, TypeOK
<1>2. ASSUME RetrieveDone(e), ~UNCHANGED round
      PROVE  \E n \in RoundType : Runs(e, n) /\ DwellEffect(n, rd)
  <2> DEFINE n == [rd EXCEPT !.dwell = e.when - mem["prover"].storedAt]
  <2>1. Runs(e, n)
    BY <1>2, DeviceRuns
  <2>2. n \in RoundType
    <3>1. PICK n1 \in RoundType : Runs(e, n1)
      BY <1>2, StepRuns DEF DeviceStep
    <3>2. n = n1
      BY <1>1, <2>1, <3>1 DEF Runs, RuntimeTypes
    <3>3. QED
      BY <3>1, <3>2
  <2>3. DwellEffect(n, rd)
    BY <1>1, SimpleEffects
  <2>4. QED
    BY <2>1, <2>2, <2>3
<1>3. ASSUME BasisArrives(e), NEW rd1, rd1 = [rd EXCEPT !.arrival[e.who] = e.when]
      PROVE  /\ rd1 \in RoundType /\ ArrivalEffect(rd1, rd)
             /\ \E n \in RoundType : Runs(e, n) /\ TryEffect(n, rd1, mem)
  <2>1. e.who \in Verifiers
    BY <1>3, ActorOfEvent DEF BasisArrives, Handle, MessageKinds
  <2>2. rd1 \in RoundType /\ ArrivalEffect(rd1, rd)
    BY <1>1, <1>3, <2>1, ArrivalRuntime, SimpleEffects
  <2>3. Runs(e, AfterTry(rd1, mem))
    BY <1>3, DeviceRuns
  <2>4. AfterTry(rd1, mem) \in RoundType /\ TryEffect(AfterTry(rd1, mem), rd1, mem)
    BY <2>2, TryRuntime, SimpleEffects
  <2>5. QED
    BY <2>2, <2>3, <2>4
<1>4. ASSUME ProverMeasured(e)
      PROVE  \E bit \in Nat, outs \in Pairs("answer"), n \in RoundType :
               /\ Runs(e, n) /\ BitEffect(n, rd, "prover", bit)
               /\ Return(e, Broadcast(e.when, "answer", e.round, bit, outs))
  <2>1. PICK bit \in config.can.bit["prover"], outs \in Pairs("answer") :
          /\ Runs(e, [rd EXCEPT !.bit["prover"] = bit])
          /\ Return(e, Broadcast(e.when, "answer", e.round, bit, outs))
    BY <1>4, DeviceRuns
  <2>2. config.can.bit["prover"] \subseteq {0, 1} /\ "prover" \in Holders
    BY <1>1, ConfigTypes DEF Holders
  <2>3. bit \in Nat
    BY <2>2
  <2> DEFINE n == [rd EXCEPT !.bit["prover"] = bit]
  <2>4. n \in RoundType
    BY <1>1, <2>2, <2>3, BitRuntime
  <2>5. BitEffect(n, rd, "prover", bit)
    BY <1>1, <2>2, SimpleEffects
  <2>6. QED
    BY <2>1, <2>3, <2>4, <2>5
<1>5. QED
  BY <1>2, <1>3, <1>4

LEMMA ReportEffects ==
  ASSUME TypeOK, RuntimeTypes, NEW e \in queue
  PROVE  LET r == e.round  rd == round[r] IN
         /\ V0Measured(e) =>
              \E bit \in Nat, n1, n \in RoundType :
                /\ BitEffect(n1, rd, "v0", bit) /\ Reporting(e, "v0", n1)
                /\ Runs(e, n) /\ ReportEffect(n, n1, r, "v0", FALSE)
         /\ VerifierReceives(e) =>
              \E n1, n \in RoundType :
                /\ e.who \in Verifiers /\ SeeingEffect(n1, rd, e) /\ Reporting(e, e.who, n1)
                /\ Runs(e, n) /\ ReportEffect(n, n1, r, e.who, FALSE)
         /\ ReportArrives(e) =>
              e.who \in Verifiers /\ \E n \in RoundType : Runs(e, n) /\ ReceivedEffect(n, rd, e.who)
         /\ RoundTimesOut(e) /\ ~completed[r] =>
              \E n1, n \in RoundType :
                /\ n1 = WithReport(r, "v0", rd, TRUE) /\ ReportEffect(n1, rd, r, "v0", TRUE)
                /\ Runs(e, n) /\ ReportEffect(n, n1, r, "v1", TRUE)
<1> DEFINE r == e.round
           rd == round[r]
<1>1. /\ rd \in RoundType /\ e.when \in Int /\ e.val \in Nat /\ config \in Configs
      /\ r \in Rounds /\ "v0" \in Verifiers /\ "v1" \in Verifiers
  BY TypesOfEvent DEF RuntimeTypes, TypeOK, Verifiers
<1>2. ASSUME V0Measured(e)
      PROVE  \E bit \in Nat, n1, n \in RoundType :
               /\ BitEffect(n1, rd, "v0", bit) /\ Reporting(e, "v0", n1)
               /\ Runs(e, n) /\ ReportEffect(n, n1, r, "v0", FALSE)
  <2>1. PICK bit \in config.can.bit["v0"] : Reporting(e, "v0", [rd EXCEPT !.bit["v0"] = bit])
    BY <1>2, ReportRuns
  <2>2. config.can.bit["v0"] \subseteq {0, 1} /\ "v0" \in Holders
    BY <1>1, ConfigTypes DEF Holders
  <2>3. bit \in Nat
    BY <2>2
  <2> DEFINE n1 == [rd EXCEPT !.bit["v0"] = bit]
  <2>4. n1 \in RoundType /\ BitEffect(n1, rd, "v0", bit)
    <3>1. n1 \in RoundType
      BY <1>1, <2>2, <2>3, BitRuntime
    <3>2. BitEffect(n1, rd, "v0", bit)
      BY <1>1, <2>2, SimpleEffects
    <3>3. QED
      BY <3>1, <3>2
  <2> HIDE DEF n1
  <2>5. Reporting(e, "v0", n1) /\ Runs(e, WithReport(r, "v0", n1, FALSE))
    BY <2>1 DEF n1, Reporting
  <2>6. /\ WithReport(r, "v0", n1, FALSE) \in RoundType
        /\ ReportEffect(WithReport(r, "v0", n1, FALSE), n1, r, "v0", FALSE)
    BY <1>1, <2>4, WithReportRuntime, WithReportEffects
  <2>7. QED
    BY <2>3, <2>4, <2>5, <2>6
<1>3. ASSUME VerifierReceives(e)
      PROVE  \E n1, n \in RoundType :
               /\ e.who \in Verifiers /\ SeeingEffect(n1, rd, e) /\ Reporting(e, e.who, n1)
               /\ Runs(e, n) /\ ReportEffect(n, n1, r, e.who, FALSE)
  <2>1. e.who \in Verifiers
    BY <1>3, ActorOfEvent DEF VerifierReceives, Handle, MessageKinds
  <2> DEFINE n1 == Seeing(rd, e)
  <2>2. n1 \in RoundType /\ SeeingEffect(n1, rd, e)
    BY <1>1, <2>1, SeeingRuntime, SeeingEffects
  <2>3. Reporting(e, e.who, n1) /\ Runs(e, WithReport(r, e.who, n1, FALSE))
    BY <1>3, ReportRuns DEF Reporting
  <2> HIDE DEF n1
  <2>4. /\ WithReport(r, e.who, n1, FALSE) \in RoundType
        /\ ReportEffect(WithReport(r, e.who, n1, FALSE), n1, r, e.who, FALSE)
    BY <1>1, <2>1, <2>2, WithReportRuntime, WithReportEffects
  <2>5. QED
    BY <2>1, <2>2, <2>3, <2>4
<1>4. ASSUME ReportArrives(e)
      PROVE  e.who \in Verifiers /\ \E n \in RoundType : Runs(e, n) /\ ReceivedEffect(n, rd, e.who)
  <2>1. e.who \in Verifiers
    BY <1>4, ActorOfEvent DEF ReportArrives, Handle, MessageKinds
  <2> DEFINE n == [rd EXCEPT !.received = @ \union {e.who}]
  <2>2. n \in RoundType /\ ReceivedEffect(n, rd, e.who)
    BY <1>1, <2>1, ReceivedRuntime, SimpleEffects
  <2>3. Runs(e, n)
    BY <1>4, ReportRuns
  <2>4. QED
    BY <2>1, <2>2, <2>3
<1>5. ASSUME RoundTimesOut(e), ~completed[r]
      PROVE  \E n1, n \in RoundType :
               /\ n1 = WithReport(r, "v0", rd, TRUE) /\ ReportEffect(n1, rd, r, "v0", TRUE)
               /\ Runs(e, n) /\ ReportEffect(n, n1, r, "v1", TRUE)
  <2> DEFINE n1 == WithReport(r, "v0", rd, TRUE)
  <2>1. n1 \in RoundType /\ ReportEffect(n1, rd, r, "v0", TRUE)
    BY <1>1, WithReportRuntime, WithReportEffects
  <2>2. Runs(e, WithReport(r, "v1", n1, TRUE))
    BY <1>5, ReportRuns
  <2>5. n1 = WithReport(r, "v0", rd, TRUE)
    OBVIOUS
  <2> HIDE DEF n1
  <2>3. /\ WithReport(r, "v1", n1, TRUE) \in RoundType
        /\ ReportEffect(WithReport(r, "v1", n1, TRUE), n1, r, "v1", TRUE)
    BY <1>1, <2>1, WithReportRuntime, WithReportEffects
  <2>4. QED
    BY <2>1, <2>2, <2>3, <2>5
<1>6. QED
  BY <1>2, <1>3, <1>4, <1>5

-----------------------------------------------------------------------------
(* Hard expiration. *)

DwellBound == config.hold["prover"] + config.retrieve["prover"]

Dwells ==
  \A r \in Rounds :
    round[r].dwell # None /\ config.hold["prover"] # None => round[r].dwell <= DwellBound

LEMMA StepDwells ==
  ASSUME TypeOK, MemInv, RuntimeTypes, Dwells, NEW e \in queue,
         DeviceStep(e) \/ ProtocolStep(e) \/ DecisionStep(e)
  PROVE  Dwells'
<1> DEFINE r == e.round
<1>1. /\ r \in Rounds /\ round[r] \in RoundType /\ e.when \in Int /\ config \in Configs
      /\ e.val \in Nat /\ UNCHANGED config
  BY TypesOfEvent, StepIsFirst DEF RuntimeTypes, TypeOK
<1>2. CASE UNCHANGED round
  BY <1>1, <1>2 DEF Dwells, DwellBound
<1>3. ASSUME NEW rd, Runs(e, rd), rd.dwell = round[r].dwell PROVE Dwells'
  BY <1>1, <1>3 DEF Dwells, DwellBound, Runs, RuntimeTypes
<1>4. CASE RetrieveDone(e) /\ ~UNCHANGED round
  <2> DEFINE d == e.when - mem["prover"].storedAt
  <2>1. e.who = "prover" /\ Runs(e, [round[r] EXCEPT !.dwell = d])
    BY <1>4, DeviceRuns
  <2>2. e \in MemoryEvents(queue, "prover") /\ e.kind = "retrieve" /\ "prover" \in Holders
    BY <1>4, <2>1 DEF RetrieveDone, Handle, MemoryEvents, MemoryKinds, Holders
  <2>3. /\ mem["prover"].storedAt # None /\ mem["prover"] \in SlotType
        /\ config.hold["prover"] # None =>
             e.when <= mem["prover"].storedAt + config.hold["prover"] + config.retrieve["prover"]
    BY <2>2, SlotTypes DEF MemInv, SlotInv, CompletionsInUse, ExpiryIsPending
  <2>4. config.hold["prover"] \in Nat \union {None} /\ config.retrieve["prover"] \in Nat
    BY <1>1, <2>2, ConfigTypes
  <2>5. config.hold["prover"] # None => d <= DwellBound
    <3> DEFINE s == mem["prover"].storedAt
               h == config.hold["prover"]
               g == config.retrieve["prover"]
    <3>1. s \in Int
      BY <2>3 DEF SlotType, Opt
    <3> HIDE DEF s, h, g
    <3>2. h # None => h \in Nat
      BY <2>4 DEF h
    <3>3. h # None /\ e.when <= s + h + g => e.when - s <= h + g
      BY <1>1, <2>4, <3>1, <3>2 DEF g
    <3>4. QED
      BY <2>3, <3>3 DEF DwellBound, s, h, g
  <2> HIDE DEF d
  <2>6. ASSUME NEW q \in Rounds, round'[q].dwell # None, config.hold["prover"] # None
        PROVE  round'[q].dwell <= DwellBound
    <3>1. CASE q = r
      <4>1. round'[q].dwell = d
        BY <1>1, <2>1, <3>1 DEF Runs, RuntimeTypes, RoundType
      <4>2. QED
        BY <2>5, <2>6, <4>1
    <3>2. CASE q # r
      <4>1. round'[q] = round[q]
        BY <2>1, <3>2 DEF Runs, RuntimeTypes
      <4>2. QED
        BY <2>6, <4>1 DEF Dwells
    <3>3. QED
      BY <3>1, <3>2
  <2>7. QED
    BY <1>1, <2>6 DEF Dwells, DwellBound
<1>5. CASE PhotonArrives(e) \/ DetectionDone(e) \/ GateCloses(e)
  <2>1. CASE \E outcome \in Outcomes : Commit(e, outcome)
    BY <1>3, <2>1, CommitEffects DEF CommittingEffect
  <2>2. CASE Runs(e, [round[r] EXCEPT !.outcome = "valid_detection"])
    BY <1>1, <1>3, <2>2 DEF RoundType
  <2>3. QED
    BY <1>2, <1>5, <2>1, <2>2, DetectorRuns
<1>6. CASE LoadDone(e)
  <2>1. LoadedRound(e).dwell = round[r].dwell
    BY <1>6, LoadEffects DEF LoadEffect
  <2>2. QED
    BY <1>3, <1>6, <2>1, LoadEffects DEF TryEffect
<1>7. CASE LoadFails(e)
  BY <1>2, <1>3, <1>7, LoadEffects DEF LoadEffect
<1>8. CASE BasisArrives(e)
  <2> DEFINE rd == [round[r] EXCEPT !.arrival[e.who] = e.when]
  <2>1. ArrivalEffect(rd, round[r]) /\ \E n \in RoundType : Runs(e, n) /\ TryEffect(n, rd, mem)
    BY <1>8, MeasureEffects
  <2> HIDE DEF rd
  <2>2. QED
    BY <1>3, <2>1 DEF ArrivalEffect, TryEffect
<1>9. CASE ProverMeasured(e)
  BY <1>3, <1>9, MeasureEffects DEF BitEffect
<1>10. CASE V0Measured(e)
  <2>1. PICK bit \in Nat, n1 \in RoundType, n \in RoundType :
          BitEffect(n1, round[r], "v0", bit) /\ Runs(e, n) /\ ReportEffect(n, n1, r, "v0", FALSE)
    BY <1>10, ReportEffects
  <2>2. n1.dwell = round[r].dwell
    BY <2>1 DEF BitEffect
  <2>3. n.dwell = n1.dwell
    BY <2>1 DEF ReportEffect
  <2>4. QED
    BY <1>3, <2>1, <2>2, <2>3
<1>11. CASE VerifierReceives(e)
  <2>1. PICK n1 \in RoundType, n \in RoundType :
          SeeingEffect(n1, round[r], e) /\ Runs(e, n) /\ ReportEffect(n, n1, r, e.who, FALSE)
    BY <1>11, ReportEffects
  <2>2. n1.dwell = round[r].dwell
    BY <2>1 DEF SeeingEffect
  <2>3. n.dwell = n1.dwell
    BY <2>1 DEF ReportEffect
  <2>4. QED
    BY <1>3, <2>1, <2>2, <2>3
<1>12. CASE ReportArrives(e)
  BY <1>3, <1>12, ReportEffects DEF ReceivedEffect
<1>13. CASE RoundTimesOut(e) /\ ~completed[r]
  <2>1. PICK n1 \in RoundType, n \in RoundType :
          /\ ReportEffect(n1, round[r], r, "v0", TRUE) /\ Runs(e, n)
          /\ ReportEffect(n, n1, r, "v1", TRUE)
    BY <1>13, ReportEffects
  <2>2. n1.dwell = round[r].dwell
    BY <2>1 DEF ReportEffect
  <2>3. n.dwell = n1.dwell
    BY <2>1 DEF ReportEffect
  <2>4. QED
    BY <1>3, <2>1, <2>2, <2>3
<1>14. QED
  BY <1>2, <1>4, <1>5, <1>6, <1>7, <1>8, <1>9, <1>10, <1>11, <1>12, <1>13, NothingRuns
     DEF DeviceStep, ProtocolStep, DecisionStep

LEMMA SessionDwells == Spec => []Dwells
<1>1. Init => Dwells
  BY DEF Init, Dwells, FreshRound
<1>2. ASSUME TypeOK, MemInv, RuntimeTypes, Dwells, [Next]_vars PROVE Dwells'
  <2>1. CASE Step
    BY <1>2, <2>1, StepDwells DEF Step
  <2>2. CASE Finish \/ UNCHANGED vars
    BY <1>2, <2>2 DEF Finish, Dwells, DwellBound, vars
  <2>3. QED
    BY <1>2, <2>1, <2>2 DEF Next, Over
<1>3. QED
  BY <1>1, <1>2, SessionTypes, SessionMemory, SessionRuntime, PTL DEF Spec

\* No qubit is in store after its maximum hold, nor taken out later than one
\* retrieval after it, whatever the configuration, the losses and the delays
\* (TimedQuantumMemory: "hard storage expiration").
THEOREM SessionExpiresHard == Spec => []HardExpiration
<1>1. ASSUME TypeOK, HeapOrder, MemInv, Dwells PROVE HardExpiration
  <2>1. ASSUME NEW m \in Holders, mem[m].state = "stored", config.hold[m] # None
        PROVE  now <= mem[m].storedAt + config.hold[m]
    <3>1. SlotInv(m, mem[m], MemoryEvents(queue, m))
      BY <1>1 DEF MemInv
    <3>2. PICK x \in MemoryEvents(queue, m) : x.kind = "expire" /\ x.val = mem[m].gen
      BY <2>1, <3>1 DEF SlotInv, ExpiryIsPending
    <3>3. x.when = mem[m].storedAt + config.hold[m]
      BY <2>1, <3>1, <3>2 DEF SlotInv, ExpiriesAreDated
    <3>4. x.when >= now /\ x.when \in Int /\ now \in Int
      BY <1>1, TypesOfEvent DEF HeapOrder, MemoryEvents, TypeOK, QueueType
    <3>5. QED
      BY <3>3, <3>4
  <2>2. QED
    BY <1>1, <2>1 DEF HardExpiration, Dwells, DwellBound
<1>2. QED
  BY <1>1, SessionTypes, SessionHeapOrder, SessionMemory, SessionDwells, PTL
=============================================================================
