-------------------------- MODULE QpvDeviceProofs --------------------------
(***************************************************************************)
(* The devices of a session in time: in which configurations a retrieval   *)
(* finds the qubit of its round, every round starts on idle devices, and   *)
(* no handler raises; and which moves of the participants no table lists.  *)
(***************************************************************************)
EXTENDS QpvVerdictProofs, Participants

-----------------------------------------------------------------------------
(* What a handler schedules, by the kind and the time of the event. *)

\* Where _on_round_start puts the end of the gate and the sending of the inputs.
GateClosesAt(c, r) ==
  Larger(RoundStartAt(c, r), ChallengeAt(c, r) + c.qGeo - c.gateWidth \div 2) + c.gateWidth

SendAt(c, r, v) == BasisSendAt(c, r, v) + c.skew[Inputs[v]]

\* How long a copy of v's input travels when it is jammed by d.
InputTravel(c, v, d) == ClassicalDelay(c, v, "prover") + c.sender[v]["prover"] + d

\* The challenge on its way to the detector, and what concerns no device.
PhotonKinds == {"challenge", "intercept", "replacement", "photon", "qnd"}
DeskKinds   == {"commitment", "answer", "report", "expire", "timeout", "final"}

\* The slot that a measurement of e's round may take from m's memory.
Takes(e, m) ==
  /\ round'[e.round].valid /\ mem'[m].state = "retrieving"
  /\ \/ mem[m].state = "stored" /\ mem'[m].holds = mem[m].holds
     \/ e.kind = "load" /\ e.who = m /\ mem'[m].holds = e.round

\* The handler of e may schedule x.
Child(e, x) ==
  /\ x.round = e.round
  /\ \/ x.kind \in DeskKinds
     \/ e.kind = "start" /\ x.kind = "epr" /\ x.when = e.when + config.epr
     \/ e.kind = "start" /\ x.kind = "gate" /\ x.when = GateClosesAt(config, e.round)
     \/ e.kind = "start" /\ x.kind = "send" /\ x.when = SendAt(config, e.round, x.who)
     \/ /\ e.kind = "epr" /\ x.kind = "load" /\ x.who = "v0"
        /\ x.when = e.when + config.load["v0"]
     \/ e.kind = "epr" /\ x.kind = "challenge" /\ mem["v0"].state = "empty"
     \/ e.kind \in PhotonKinds /\ x.kind \in PhotonKinds \ {"qnd"}
     \/ /\ e.kind = "photon" /\ x.kind = "qnd" /\ x.who = "prover"
        /\ ~gate[e.round].resolved /\ gate' = gate
     \/ /\ e.kind = "qnd" /\ x.kind = "load" /\ x.who = "prover"
        /\ x.when = e.when + config.load["prover"] /\ ~gate[e.round].resolved
     \/ /\ e.kind = "send" /\ x.kind = "basis" /\ x.who = e.who
        /\ \E out \in config.tamper["basis"] : \E i \in DOMAIN out :
             x.when = e.when + InputTravel(config, e.who, out[i])
     \/ /\ e.kind \in {"load", "basis"} /\ x.kind = "retrieve" /\ x.who \in Holders
        /\ x.when = e.when + config.retrieve[x.who] /\ Takes(e, x.who)
     \/ /\ e.kind = "retrieve" /\ x.kind = "measured" /\ x.who = e.who
        /\ x.when = e.when + config.switch[e.who] + config.measure[e.who]

Children(e) == {x \in EventType : Child(e, x)}

LEMMA DeviceTimes ==
  ASSUME config \in Configs, NEW r \in Rounds
  PROVE  /\ RoundStartAt(config, r) \in Nat /\ GateClosesAt(config, r) \in Int
         /\ \A v \in Verifiers : SendAt(config, r, v) \in Int
<1> DEFINE u == ChallengeAt(config, r) + config.qGeo - config.gateWidth \div 2
           s == RoundStartAt(config, r)
<1>1. TimingConfig(config) /\ r \in Nat
  BY ConfigTypes, RoundIsNat
<1>2. s \in Nat
  BY <1>1, NextRoundStart
<1>3. GateClosesAt(config, r) \in Int
  <2>1. ChallengeAt(config, r) \in Int /\ config.qGeo \in Nat /\ config.gateWidth \in Nat
    BY <1>1, RoundPlanTypes, ConfigTypes, TimingTypes
  <2>2. config.gateWidth \div 2 \in Int
    BY <2>1, SMT
  <2>3. u \in Int
    BY <2>1, <2>2
  <2>4. GateClosesAt(config, r) = Larger(s, u) + config.gateWidth
    BY DEF GateClosesAt
  <2> HIDE DEF u, s
  <2>5. Larger(s, u) \in Int
    BY <1>2, <2>3 DEF Larger
  <2>6. QED
    BY <2>1, <2>4, <2>5
<1>4. \A v \in Verifiers : SendAt(config, r, v) \in Int
  BY RoundPlanTypes DEF SkewedBasis, SendAt
<1>5. QED
  BY <1>2, <1>3, <1>4

LEMMA ChildRenumbered ==
  ASSUME NEW e, NEW x \in Children(e), NEW m \in Nat
  PROVE  [x EXCEPT !.seq = m] \in Children(e)
<1> DEFINE y == [x EXCEPT !.seq = m]
<1>1. x \in EventType /\ Child(e, x)
  BY DEF Children
<1>2. /\ y.kind = x.kind /\ y.who = x.who /\ y.round = x.round /\ y.when = x.when
      /\ y.phase = x.phase
  BY <1>1 DEF EventType
<1>3. y \in EventType
  BY <1>1, <1>2 DEF EventType
<1>4. Child(e, y)
  <2> HIDE DEF y
  <2> QED BY <1>1, <1>2 DEF Child
<1>5. QED
  BY <1>3, <1>4 DEF Children

LEMMA StampChildren ==
  ASSUME NEW e, NEW evs \in Seq(Children(e)), NEW n \in Nat
  PROVE  Stamp(evs, n) \subseteq Children(e)
<1> SUFFICES ASSUME NEW i \in DOMAIN evs
             PROVE  [evs[i] EXCEPT !.seq = n + i - 1] \in Children(e)
  BY DEF Stamp
<1>1. i \in 1 .. Len(evs) /\ evs[i] \in Children(e)
  BY LenProperties, ElementOfSeq
<1>2. n + i - 1 \in Nat
  BY <1>1, LenProperties, SMT
<1>3. QED
  BY <1>1, <1>2, ChildRenumbered

\* What a handler leaves in the heap are children of its event.
Begets(e) == \E N : Leaves(e, N) /\ \A x \in N : Child(e, x)

LEMMA ChildReturn ==
  ASSUME TypeOK, NEW e \in queue, NEW evs \in Seq(Children(e)), Return(e, evs)
  PROVE  Begets(e)
<1>1. nextSeq \in Nat
  BY DEF TypeOK, QueueType
<1>2. Stamp(evs, nextSeq) \in SUBSET Children(e)
  BY <1>1, StampChildren
<1>3. Leaves(e, Stamp(evs, nextSeq))
  BY DEF Return, Leaves
<1>4. QED
  BY <1>2, <1>3 DEF Begets, Children

LEMMA ChildlessReturn ==
  ASSUME TypeOK, NEW e \in queue, Return(e, <<>>)
  PROVE  Begets(e)
BY NothingLeft DEF Begets

LEMMA ChildlessRaise ==
  ASSUME NEW e \in queue, NEW error, Raise(e, error)
  PROVE  Begets(e)
<1>1. Leaves(e, {})
  BY DEF Raise, Leaves
<1>2. QED
  BY <1>1 DEF Begets

\* One scheduled event.
LEMMA NewChild ==
  ASSUME TypeOK, NEW e \in queue, NEW w \in Int, NEW p \in Phases, NEW kind \in Kinds,
         NEW who \in Nodes, who \in ActorsOf(kind), NEW val \in Nat,
         Child(e, Event(w, p, kind, e.round, who, val))
  PROVE  Event(w, p, kind, e.round, who, val) \in Children(e)
<1>1. e.round \in Rounds
  BY TypesOfEvent
<1>2. Event(w, p, kind, e.round, who, val) \in EventType
  BY <1>1 DEF Event, EventType
<1>3. QED
  BY <1>2 DEF Children

LEMMA CopiesIn ==
  ASSUME NEW S, NEW t, NEW s, NEW d, NEW kind, NEW r, NEW who, NEW val, NEW out \in Seq(Nat),
         \A i \in DOMAIN out :
           Event(t + ClassicalDelay(config, s, d) + config.sender[s][d] + out[i],
                 PhysicalArrival, kind, r, who, val) \in S
  PROVE  Copies(t, s, d, kind, r, who, val, out) \in Seq(S)
<1> DEFINE e(i) == Event(t + ClassicalDelay(config, s, d) + config.sender[s][d] + out[i],
                         PhysicalArrival, kind, r, who, val)
<1>1. Len(out) \in Nat /\ DOMAIN out = 1 .. Len(out)
  BY LenProperties
<1>2. Copies(t, s, d, kind, r, who, val, out) = [i \in 1 .. Len(out) |-> e(i)]
  BY <1>1 DEF Copies
<1>3. \A i \in 1 .. Len(out) : e(i) \in S
  BY <1>1
<1> HIDE DEF e
<1>4. [i \in 1 .. Len(out) |-> e(i)] \in [1 .. Len(out) -> S]
  BY <1>3
<1>5. QED
  BY <1>1, <1>2, <1>4, SeqDef

\* Commitments, whoever's handler sends them.
LEMMA CommitmentCopies ==
  ASSUME TypeOK, NEW e \in queue, NEW v \in Verifiers, NEW val \in Nat,
         NEW out \in config.tamper["commitment"]
  PROVE  Copies(e.when, "prover", v, "commitment", e.round, v, val, out) \in Seq(Children(e))
<1>1. e.when \in Int /\ e.round \in Rounds /\ config \in Configs
  BY TypesOfEvent DEF TypeOK
<1>2. out \in Seq(Nat)
  BY <1>1, ConfigTypes DEF MessageKinds
<1>3. ClassicalDelay(config, "prover", v) \in Nat /\ config.sender["prover"][v] \in Nat
  BY <1>1, ConfigTypes, MessageDelays
<1>4. /\ PhysicalArrival \in Phases /\ "commitment" \in Kinds /\ v \in Nodes
      /\ v \in ActorsOf("commitment")
  BY PhasesAndKinds DEF Kinds, MessageKinds
<1>5. ASSUME NEW i \in DOMAIN out
      PROVE  Event(e.when + ClassicalDelay(config, "prover", v) + config.sender["prover"][v]
                     + out[i], PhysicalArrival, "commitment", e.round, v, val) \in Children(e)
  <2> DEFINE a == ClassicalDelay(config, "prover", v)
             b == config.sender["prover"][v]
             w == e.when + a + b + out[i]
  <2>1. out[i] \in Nat /\ a \in Nat /\ b \in Nat
    BY <1>2, <1>3, LenProperties, ElementOfSeq
  <2> HIDE DEF a, b
  <2>2. w \in Int
    BY <1>1, <2>1
  <2> HIDE DEF w
  <2>3. Child(e, Event(w, PhysicalArrival, "commitment", e.round, v, val))
    BY DEF Child, Event, DeskKinds
  <2>4. Event(w, PhysicalArrival, "commitment", e.round, v, val) \in Children(e)
    BY <1>4, <2>2, <2>3, NewChild
  <2>5. QED
    BY <2>4 DEF w, a, b
<1>6. QED
  BY <1>2, <1>5, CopiesIn

LEMMA CommitmentChildren ==
  ASSUME TypeOK, NEW e \in queue, NEW val \in Nat, NEW outs \in Pairs("commitment")
  PROVE  Broadcast(e.when, "commitment", e.round, val, outs) \in Seq(Children(e))
<1>1. /\ "v0" \in Verifiers /\ "v1" \in Verifiers
      /\ outs[1] \in config.tamper["commitment"] /\ outs[2] \in config.tamper["commitment"]
  BY DEF Verifiers, Pairs
<1>2. Copies(e.when, "prover", "v0", "commitment", e.round, "v0", val, outs[1])
        \in Seq(Children(e))
  BY <1>1, CommitmentCopies
<1>3. Copies(e.when, "prover", "v1", "commitment", e.round, "v1", val, outs[2])
        \in Seq(Children(e))
  BY <1>1, CommitmentCopies
<1>4. QED
  BY <1>2, <1>3, ConcatProperties DEF Broadcast

LEMMA CommitBegets ==
  ASSUME TypeOK, NEW e \in queue, NEW outcome, Commit(e, outcome)
  PROVE  Begets(e)
<1> DEFINE val == IF outcome = "dark_count" THEN 1 ELSE 0
<1>1. PICK outs \in Pairs("commitment") :
        Return(e, Broadcast(e.when, "commitment", e.round, val, outs))
  BY DEF Commit
<1>2. val \in Nat
  OBVIOUS
<1> HIDE DEF val
<1>3. Broadcast(e.when, "commitment", e.round, val, outs) \in Seq(Children(e))
  BY <1>2, CommitmentChildren
<1>4. QED
  BY <1>1, <1>3, ChildReturn

LEMMA FailedLoadBegets ==
  ASSUME TypeOK, NEW e \in queue, LoadFails(e)
  PROVE  Begets(e)
<1>1. CASE Return(e, <<>>)
  BY <1>1, ChildlessReturn
<1>2. CASE \E outs \in Pairs("commitment") :
             Return(e, Broadcast(e.when, "commitment", e.round, 0, outs))
  <2>1. PICK outs \in Pairs("commitment") :
          Return(e, Broadcast(e.when, "commitment", e.round, 0, outs))
    BY <1>2
  <2>2. 0 \in Nat
    OBVIOUS
  <2>3. Broadcast(e.when, "commitment", e.round, 0, outs) \in Seq(Children(e))
    BY <2>2, CommitmentChildren
  <2>4. QED
    BY <2>1, <2>3, ChildReturn
<1>3. QED
  BY <1>1, <1>2 DEF LoadFails

\* The handler that schedules one event.
LEMMA OneChild ==
  ASSUME TypeOK, NEW e \in queue, NEW w \in Int, NEW p \in Phases, NEW kind \in Kinds,
         NEW who \in Nodes, who \in ActorsOf(kind),
         Child(e, Event(w, p, kind, e.round, who, 0)),
         Return(e, <<Event(w, p, kind, e.round, who, 0)>>)
  PROVE  Begets(e)
<1> DEFINE x == Event(w, p, kind, e.round, who, 0)
<1>1. x \in Children(e)
  BY NewChild
<1> HIDE DEF x
<1>2. <<x>> \in Seq(Children(e))
  BY <1>1
<1>3. Return(e, <<x>>)
  BY DEF x
<1>4. QED
  BY <1>2, <1>3, ChildReturn

LEMMA PhotonChild ==
  ASSUME TypeOK, NEW e \in queue, e.kind \in PhotonKinds, NEW w \in Int, NEW p \in Phases,
         NEW kind \in PhotonKinds, NEW who \in Nodes,
         kind = "qnd" =>
           e.kind = "photon" /\ who = "prover" /\ ~gate[e.round].resolved /\ gate' = gate,
         Return(e, <<Event(w, p, kind, e.round, who, 0)>>)
  PROVE  Begets(e)
<1>1. kind \in Kinds /\ who \in ActorsOf(kind)
  BY DEF PhotonKinds, Kinds, ActorsOf, MessageKinds
<1>2. Child(e, Event(w, p, kind, e.round, who, 0))
  BY DEF Child, Event
<1>3. QED
  BY <1>1, <1>2, OneChild

LEMMA FlightBegets ==
  ASSUME TypeOK, NEW e \in queue, SendChallenge(e) \/ InterceptDone(e) \/ SendReplacement(e)
  PROVE  Begets(e)
<1> DEFINE a == config.intercept.toHim
           b == config.intercept.process
           p == config.intercept.prepare
           g == config.intercept.toProver
           l == config.qLink
<1>1. /\ e.when \in Int /\ config \in Configs
      /\ {DeviceCompletion, PhysicalArrival, Protocol} \subseteq Phases
      /\ "prover" \in Nodes /\ "attacker" \in Nodes
  BY TypesOfEvent, PhasesAndKinds DEF TypeOK, Nodes
<1>2. /\ a \in Nat /\ b \in Nat /\ p \in Nat /\ g \in Nat /\ l \in Nat
      /\ config.photonDelay \subseteq Nat
  BY <1>1, ConfigTypes, TimingTypes
<1> HIDE DEF a, b, p, g, l
<1>3. CASE SendChallenge(e)
  <2>1. e.kind \in PhotonKinds
    BY <1>3 DEF SendChallenge, Handle, PhotonKinds
  <2>2. CASE Return(e, <<>>)
    BY <2>2, ChildlessReturn
  <2>3. CASE Return(e, <<Event(e.when + a + b, DeviceCompletion, "intercept", e.round,
                               "attacker", 0)>>)
    <3>1. e.when + a + b \in Int /\ "intercept" \in PhotonKinds
      BY <1>1, <1>2 DEF PhotonKinds
    <3>2. QED
      BY <1>1, <2>1, <2>3, <3>1, PhotonChild
  <2>4. CASE \E d \in config.photonDelay :
               Return(e, <<Event(e.when + l + d, PhysicalArrival, "photon", e.round,
                                 "prover", 0)>>)
    <3>1. PICK d \in config.photonDelay :
            Return(e, <<Event(e.when + l + d, PhysicalArrival, "photon", e.round,
                              "prover", 0)>>)
      BY <2>4
    <3>2. e.when + l + d \in Int /\ "photon" \in PhotonKinds
      BY <1>1, <1>2, <3>1 DEF PhotonKinds
    <3>3. QED
      BY <1>1, <2>1, <3>1, <3>2, PhotonChild
  <2>5. QED
    BY <1>3, <2>2, <2>3, <2>4 DEF SendChallenge, Passes, a, b, l
<1>4. CASE InterceptDone(e)
  <2>1. e.kind \in PhotonKinds
    BY <1>4 DEF InterceptDone, Handle, PhotonKinds
  <2>2. Return(e, <<Event(e.when + p, Protocol, "replacement", e.round, "attacker", 0)>>)
    BY <1>4 DEF InterceptDone, Passes, p
  <2>3. e.when + p \in Int /\ "replacement" \in PhotonKinds
    BY <1>1, <1>2 DEF PhotonKinds
  <2>4. QED
    BY <1>1, <2>1, <2>2, <2>3, PhotonChild
<1>5. CASE SendReplacement(e)
  <2>1. e.kind \in PhotonKinds
    BY <1>5 DEF SendReplacement, Handle, PhotonKinds
  <2>2. Return(e, <<Event(e.when + g, PhysicalArrival, "photon", e.round, "prover", 0)>>)
    BY <1>5 DEF SendReplacement, Passes, g
  <2>3. e.when + g \in Int /\ "photon" \in PhotonKinds
    BY <1>1, <1>2 DEF PhotonKinds
  <2>4. QED
    BY <1>1, <2>1, <2>2, <2>3, PhotonChild
<1>6. QED
  BY <1>3, <1>4, <1>5

LEMMA DetectorBegets ==
  ASSUME TypeOK, NEW e \in queue, PhotonArrives(e) \/ DetectionDone(e) \/ GateCloses(e)
  PROVE  Begets(e)
<1>1. /\ e.when \in Int /\ config \in Configs /\ config.qnd \in Nat
      /\ config.load["prover"] \in Nat /\ DeviceCompletion \in Phases /\ "prover" \in Nodes
  BY TypesOfEvent, ConfigTypes, PhasesAndKinds DEF TypeOK, Nodes, Holders
<1>2. CASE \E outcome : Commit(e, outcome)
  BY <1>2, CommitBegets
<1>3. CASE Return(e, <<>>)
  BY <1>3, ChildlessReturn
<1>4. CASE \E error : Raise(e, error)
  BY <1>4, ChildlessRaise
<1>5. CASE /\ e.kind = "photon" /\ ~gate[e.round].resolved /\ gate' = gate
           /\ Return(e, <<Event(e.when + config.qnd, DeviceCompletion, "qnd", e.round,
                                "prover", 0)>>)
  <2>1. e.when + config.qnd \in Int /\ "qnd" \in PhotonKinds /\ e.kind \in PhotonKinds
    BY <1>1, <1>5 DEF PhotonKinds
  <2>2. QED
    BY <1>1, <1>5, <2>1, PhotonChild
<1>6. CASE /\ e.kind = "qnd" /\ ~gate[e.round].resolved
           /\ Return(e, <<LoadEvent(e.when, "prover", e.round)>>)
  <2> DEFINE w == e.when + config.load["prover"]
  <2>1. w \in Int /\ "load" \in Kinds /\ "prover" \in ActorsOf("load")
    BY <1>1 DEF Kinds, ActorsOf, Holders
  <2>2. w = e.when + config.load["prover"]
    OBVIOUS
  <2> HIDE DEF w
  <2>3. Child(e, Event(w, DeviceCompletion, "load", e.round, "prover", 0))
    BY <1>6, <2>2 DEF Child, Event
  <2>4. Return(e, <<Event(w, DeviceCompletion, "load", e.round, "prover", 0)>>)
    BY <1>6, <2>2 DEF LoadEvent
  <2>5. QED
    BY <1>1, <2>1, <2>3, <2>4, OneChild
<1>7. CASE PhotonArrives(e)
  BY <1>2, <1>3, <1>5, <1>7 DEF PhotonArrives, Resolved, Passes, Handle, deviceVars
<1>8. CASE DetectionDone(e)
  BY <1>2, <1>3, <1>4, <1>6, <1>8 DEF DetectionDone, Resolved, Passes, Handle
<1>9. CASE GateCloses(e)
  BY <1>2, <1>3, <1>9 DEF GateCloses, Resolved, Passes
<1>10. QED
  BY <1>7, <1>8, <1>9

LEMMA PairBegets ==
  ASSUME TypeOK, NEW e \in queue, PairReady(e)
  PROVE  Begets(e)
<1> DEFINE later == Larger(e.when, SkewedChallenge(e.round))
           due   == e.when + config.load["v0"]
           load  == Event(due, DeviceCompletion, "load", e.round, "v0", 0)
           send  == Event(later, Protocol, "challenge", e.round, "v0", 0)
<1>1. /\ e.when \in Int /\ e.round \in Rounds /\ config \in Configs
      /\ config.load["v0"] \in Nat /\ {DeviceCompletion, Protocol} \subseteq Phases
      /\ "v0" \in Nodes /\ "load" \in Kinds /\ "challenge" \in Kinds
      /\ "v0" \in ActorsOf("load") /\ "v0" \in ActorsOf("challenge")
  <2>1. e.when \in Int /\ e.round \in Rounds /\ config \in Configs
    BY TypesOfEvent DEF TypeOK
  <2>2. config.load["v0"] \in Nat
    BY <2>1, ConfigTypes DEF Holders
  <2>3. /\ {DeviceCompletion, Protocol} \subseteq Phases
        /\ "v0" \in Nodes /\ "load" \in Kinds /\ "challenge" \in Kinds
        /\ "v0" \in ActorsOf("load") /\ "v0" \in ActorsOf("challenge")
    BY PhasesAndKinds DEF Nodes, Holders, Kinds, ActorsOf, MessageKinds
  <2>4. QED
    BY <2>1, <2>2, <2>3
<1>2. later \in Int
  <2>1. ChallengeAt(config, e.round) \in Int /\ config.skew.challenge \in Int
    BY <1>1, RoundPlanTypes, ConfigTypes
  <2>2. SkewedChallenge(e.round) \in Int
    BY <2>1 DEF SkewedChallenge
  <2>3. QED
    BY <1>1, <2>2 DEF Larger
<1>3. due \in Int
  BY <1>1
<1>4. Return(e, <<load, send>>) /\ e.kind = "epr" /\ mem["v0"].state = "empty"
  BY DEF PairReady, Handle, LoadEvent
<1>5. due = e.when + config.load["v0"]
  OBVIOUS
<1> HIDE DEF later, due
<1>6. load \in Children(e)
  <2>1. Child(e, load)
    BY <1>4, <1>5 DEF Child, Event
  <2>2. QED
    BY <1>1, <1>3, <2>1, NewChild
<1>7. send \in Children(e)
  <2>1. Child(e, send)
    BY <1>4 DEF Child, Event
  <2>2. QED
    BY <1>1, <1>2, <2>1, NewChild
<1> HIDE DEF load, send
<1>8. <<load, send>> \in Seq(Children(e))
  BY <1>6, <1>7
<1>9. QED
  BY <1>4, <1>8, ChildReturn

LEMMA StartBegets ==
  ASSUME TypeOK, Agenda, NEW e \in queue, StartRound(e)
  PROVE  /\ \E evs \in Seq(Children(e)) :
              /\ Return(e, evs) /\ Len(evs) = 5
              /\ evs[1].kind = "gate" /\ evs[2].kind = "epr"
              /\ \A i \in 1 .. 5 : evs[i].kind = "epr" => i = 2
              /\ evs[3].who = "v0" /\ evs[4].who = "v1"
              /\ \A i \in 1 .. 5 : evs[i].kind = "send" => i \in {3, 4}
         /\ Begets(e)
<1> DEFINE r == e.round
           t == e.when
           closes == GateClosesAt(config, r)
           due == t + config.epr
           s0 == SkewedBasis(r, "v0")
           s1 == SkewedBasis(r, "v1")
           late == RoundTimeoutAt(config, r)
           e1 == Event(closes, Timeout, "gate", r, "prover", 0)
           e2 == Event(due, DeviceCompletion, "epr", r, "v0", 0)
           e3 == Event(s0, Protocol, "send", r, "v0", 0)
           e4 == Event(s1, Protocol, "send", r, "v1", 0)
           e5 == Event(late, Timeout, "timeout", r, "controller", 0)
<1>1. /\ t \in Int /\ r \in Rounds /\ config \in Configs /\ "v0" \in Verifiers
      /\ "v1" \in Verifiers /\ r \in Nat /\ TimingConfig(config)
  BY TypesOfEvent, RoundIsNat, ConfigTypes DEF TypeOK, Verifiers
<1>2. t = RoundStartAt(config, r) /\ e.kind = "start"
  BY DEF Agenda, StartsAreAhead, StartRound, Handle
<1>3. closes \in Int
  BY <1>1, DeviceTimes
<1>4. Return(e, RoundEvents(t, r, closes))
  BY <1>2 DEF StartRound, GateClosesAt
<1>5. due \in Int
  <2>1. config.epr \in Nat
    BY <1>1 DEF TimingConfig
  <2> HIDE DEF t
  <2>2. QED
    BY <1>1, <2>1
<1>6. /\ s0 \in Int /\ s1 \in Int /\ late \in Int
      /\ s0 = SendAt(config, r, "v0") /\ s1 = SendAt(config, r, "v1")
  BY <1>1, RoundPlanTypes DEF SkewedBasis, SendAt
<1>7. due = t + config.epr /\ closes = GateClosesAt(config, r)
  OBVIOUS
<1>8. /\ {Timeout, DeviceCompletion, Protocol} \subseteq Phases /\ 0 \in Nat
      /\ {"gate", "epr", "send", "timeout"} \subseteq Kinds
      /\ {"prover", "v0", "v1", "controller"} \subseteq Nodes
      /\ "prover" \in ActorsOf("gate") /\ "v0" \in ActorsOf("epr")
      /\ "v0" \in ActorsOf("send") /\ "v1" \in ActorsOf("send")
      /\ "controller" \in ActorsOf("timeout")
  BY PhasesAndKinds DEF Kinds, ActorsOf, Nodes, MessageKinds
<1>9. RoundEvents(t, r, closes) = <<e1, e2, e3, e4, e5>>
  BY DEF RoundEvents
<1> HIDE DEF closes, due, s0, s1, late
<1>10. e1 \in Children(e)
  <2>1. Child(e, e1)
    BY <1>2, <1>7 DEF Child, Event
  <2>2. QED
    BY <1>3, <1>8, <2>1, NewChild
<1>11. e2 \in Children(e)
  <2>1. Child(e, e2)
    BY <1>2, <1>7 DEF Child, Event
  <2>2. QED
    BY <1>5, <1>8, <2>1, NewChild
<1>12. e3 \in Children(e)
  <2>1. Child(e, e3)
    BY <1>2, <1>6 DEF Child, Event
  <2>2. QED
    BY <1>6, <1>8, <2>1, NewChild
<1>13. e4 \in Children(e)
  <2>1. Child(e, e4)
    BY <1>2, <1>6 DEF Child, Event
  <2>2. QED
    BY <1>6, <1>8, <2>1, NewChild
<1>14. e5 \in Children(e)
  <2>1. Child(e, e5)
    BY DEF Child, Event, DeskKinds
  <2>2. QED
    BY <1>6, <1>8, <2>1, NewChild
<1>15. /\ e1.kind = "gate" /\ e2.kind = "epr" /\ e5.kind = "timeout"
       /\ e3.kind = "send" /\ e3.who = "v0" /\ e4.kind = "send" /\ e4.who = "v1"
  BY DEF Event
<1> HIDE DEF e1, e2, e3, e4, e5
<1>16. /\ <<e1, e2, e3, e4, e5>> \in Seq(Children(e))
       /\ Len(<<e1, e2, e3, e4, e5>>) = 5
       /\ <<e1, e2, e3, e4, e5>>[1] = e1 /\ <<e1, e2, e3, e4, e5>>[2] = e2
       /\ <<e1, e2, e3, e4, e5>>[3] = e3 /\ <<e1, e2, e3, e4, e5>>[4] = e4
       /\ <<e1, e2, e3, e4, e5>>[5] = e5
  BY <1>10, <1>11, <1>12, <1>13, <1>14
<1>17. \E evs \in Seq(Children(e)) :
         /\ Return(e, evs) /\ Len(evs) = 5
         /\ evs[1].kind = "gate" /\ evs[2].kind = "epr"
         /\ \A i \in 1 .. 5 : evs[i].kind = "epr" => i = 2
         /\ evs[3].who = "v0" /\ evs[4].who = "v1"
         /\ \A i \in 1 .. 5 : evs[i].kind = "send" => i \in {3, 4}
  <2> DEFINE evs == <<e1, e2, e3, e4, e5>>
  <2>1. /\ evs \in Seq(Children(e)) /\ Len(evs) = 5
        /\ evs[1] = e1 /\ evs[2] = e2 /\ evs[3] = e3 /\ evs[4] = e4 /\ evs[5] = e5
    BY <1>16
  <2>2. Return(e, evs)
    BY <1>4, <1>9
  <2> HIDE DEF evs
  <2>3. \A i \in 1 .. 5 : i = 1 \/ i = 2 \/ i = 3 \/ i = 4 \/ i = 5
    OBVIOUS
  <2>4. \A i \in 1 .. 5 : /\ evs[i].kind = "epr" => i = 2
                          /\ evs[i].kind = "send" => i \in {3, 4}
    BY <1>15, <2>1, <2>3
  <2>5. QED
    BY <1>15, <2>1, <2>2, <2>4
<1>18. QED
  BY <1>17, ChildReturn

LEMMA InputBegets ==
  ASSUME TypeOK, NEW e \in queue, SendBasis(e)
  PROVE  Begets(e)
<1>1. PICK out \in config.tamper["basis"] :
        Return(e, Copies(e.when, e.who, "prover", "basis", e.round, e.who, 0, out))
  BY DEF SendBasis, Passes
<1> DEFINE v == e.who
<1>2. e.kind = "send" /\ v \in Verifiers
  BY ActorOfEvent DEF SendBasis, Handle
<1>3. /\ e.when \in Int /\ config \in Configs /\ out \in Seq(Nat)
      /\ ClassicalDelay(config, v, "prover") \in Nat /\ config.sender[v]["prover"] \in Nat
      /\ PhysicalArrival \in Phases /\ "basis" \in Kinds /\ v \in Nodes
      /\ v \in ActorsOf("basis")
  BY <1>2, TypesOfEvent, ConfigTypes, MessageDelays, PhasesAndKinds
     DEF TypeOK, Kinds, MessageKinds
<1>4. ASSUME NEW i \in DOMAIN out
      PROVE  Event(e.when + ClassicalDelay(config, v, "prover") + config.sender[v]["prover"]
                     + out[i], PhysicalArrival, "basis", e.round, v, 0) \in Children(e)
  <2> DEFINE a == ClassicalDelay(config, v, "prover")
             b == config.sender[v]["prover"]
             w == e.when + a + b + out[i]
  <2>1. out[i] \in Nat /\ a \in Nat /\ b \in Nat
    BY <1>3, LenProperties, ElementOfSeq
  <2>2. InputTravel(config, v, out[i]) = a + b + out[i]
    BY DEF InputTravel
  <2>3. w \in Int /\ w = e.when + InputTravel(config, v, out[i])
    <3> DEFINE t == e.when
               k == out[i]
               g == InputTravel(config, v, k)
    <3>1. t \in Int /\ k \in Nat /\ g = a + b + k
      BY <1>3, <2>1, <2>2
    <3> HIDE DEF a, b, t, k, g
    <3>2. t + a + b + k \in Int /\ t + a + b + k = t + g
      BY <2>1, <3>1
    <3>3. QED
      BY <3>2 DEF t, k, g
  <2> HIDE DEF a, b, w
  <2>4. Child(e, Event(w, PhysicalArrival, "basis", e.round, v, 0))
    <3> DEFINE x == Event(w, PhysicalArrival, "basis", e.round, v, 0)
    <3>1. x.round = e.round /\ x.kind = "basis" /\ x.who = e.who /\ x.when = w
      BY DEF Event
    <3> HIDE DEF x
    <3>2. Child(e, x)
      BY <1>1, <1>2, <2>3, <3>1 DEF Child
    <3>3. QED
      BY <3>2 DEF x
  <2>5. Event(w, PhysicalArrival, "basis", e.round, v, 0) \in Children(e)
    BY <1>3, <2>3, <2>4, NewChild
  <2>6. QED
    BY <2>5 DEF w, a, b
<1>5. Copies(e.when, v, "prover", "basis", e.round, v, 0, out) \in Seq(Children(e))
  BY <1>3, <1>4, CopiesIn
<1>6. QED
  BY <1>1, <1>5, ChildReturn

\* The measurement of e's round begins on the memories mm.
LEMMA TryChildren ==
  ASSUME TypeOK, NEW e \in queue, e.kind \in {"load", "basis"}, NEW rd, NEW mm,
         mm \in [Holders -> SlotType], mem' = Retrieving(rd, mm),
         round'[e.round].valid = rd.valid,
         \A m \in Holders : mm[m].state = "stored" =>
           \/ mem[m].state = "stored" /\ mm[m].holds = mem[m].holds
           \/ e.kind = "load" /\ e.who = m /\ mm[m].holds = e.round
  PROVE  Retrievals(e.when, e.round, rd, mm) \in Seq(Children(e))
<1>1. CASE ~CanMeasure(rd, mm)
  BY <1>1, NothingScheduled DEF Retrievals
<1>2. CASE CanMeasure(rd, mm)
  <2>1. /\ e.when \in Int /\ config \in Configs /\ DeviceCompletion \in Phases
        /\ "retrieve" \in Kinds /\ Holders = {"prover", "v0"}
        /\ \A m \in Holders : m \in Nodes /\ m \in ActorsOf("retrieve")
    BY TypesOfEvent, PhasesAndKinds DEF TypeOK, Kinds, Nodes, Holders, ActorsOf
  <2>2. \A m \in Holders : config.retrieve[m] \in Nat
    BY <2>1, ConfigTypes
  <2>3. ASSUME NEW m \in Holders PROVE Takes(e, m)
    <3>1. mem'[m] = [mm[m] EXCEPT !.state = "retrieving", !.gen = @ + 1]
      BY <1>2 DEF Retrieving
    <3>2. mem'[m].state = "retrieving" /\ mem'[m].holds = mm[m].holds
      BY <3>1 DEF SlotType
    <3>3. mm[m].state = "stored" /\ rd.valid
      BY <1>2 DEF CanMeasure
    <3>4. QED
      BY <3>2, <3>3 DEF Takes
  <2>4. ASSUME NEW m \in Holders
        PROVE  Event(e.when + config.retrieve[m], DeviceCompletion, "retrieve", e.round, m, 0)
                 \in Children(e)
    <3> DEFINE w == e.when + config.retrieve[m]
               x == Event(w, DeviceCompletion, "retrieve", e.round, m, 0)
    <3>1. w \in Int /\ w = e.when + config.retrieve[m]
      BY <2>1, <2>2
    <3> HIDE DEF w
    <3>2. x.round = e.round /\ x.kind = "retrieve" /\ x.who = m /\ x.when = w
      BY DEF Event
    <3> HIDE DEF x
    <3>3. Child(e, x)
      BY <2>3, <3>1, <3>2 DEF Child
    <3>4. Child(e, Event(w, DeviceCompletion, "retrieve", e.round, m, 0))
      BY <3>3 DEF x
    <3>5. Event(w, DeviceCompletion, "retrieve", e.round, m, 0) \in Children(e)
      BY <2>1, <3>1, <3>4, NewChild
    <3>6. QED
      BY <3>5 DEF w
  <2> DEFINE a == Event(e.when + config.retrieve["prover"], DeviceCompletion, "retrieve",
                        e.round, "prover", 0)
             b == Event(e.when + config.retrieve["v0"], DeviceCompletion, "retrieve",
                        e.round, "v0", 0)
  <2>5. a \in Children(e) /\ b \in Children(e)
    BY <2>1, <2>4
  <2>6. Retrievals(e.when, e.round, rd, mm) = <<a, b>>
    BY <1>2 DEF Retrievals
  <2> HIDE DEF a, b
  <2>7. QED
    BY <2>5, <2>6
<1>3. QED
  BY <1>1, <1>2

LEMMA ExpiryChildren ==
  ASSUME TypeOK, NEW e \in queue, NEW m \in Holders, NEW gen \in Nat
  PROVE  Expiry(e.when, m, e.round, gen) \in Seq(Children(e))
<1>1. CASE config.hold[m] = None
  BY <1>1, NothingScheduled DEF Expiry
<1>2. CASE config.hold[m] # None
  <2> DEFINE w == e.when + config.hold[m]
             x == Event(w, Timeout, "expire", e.round, m, gen)
  <2>1. w \in Int
    <3>1. e.when \in Int /\ config.hold[m] \in Nat
      BY <1>2, TypesOfEvent, ConfigTypes DEF TypeOK
    <3>2. QED
      BY <3>1
  <2>2. /\ Timeout \in Phases /\ "expire" \in Kinds /\ m \in Nodes /\ m \in ActorsOf("expire")
    BY PhasesAndKinds DEF Kinds
  <2>3. Expiry(e.when, m, e.round, gen) = <<x>>
    BY <1>2 DEF Expiry
  <2> HIDE DEF w
  <2>4. Child(e, x)
    BY DEF Child, Event, DeskKinds
  <2>5. x \in Children(e)
    BY <2>1, <2>2, <2>4, NewChild
  <2> HIDE DEF x
  <2>6. QED
    BY <2>3, <2>5
<1>3. QED
  BY <1>1, <1>2

LEMMA LoadBegets ==
  ASSUME TypeOK, RuntimeTypes, NEW e \in queue, LoadDone(e)
  PROVE  Begets(e)
<1> DEFINE t == e.when
           m == e.who
           r == e.round
           commit(outs) == IF m = "v0" THEN <<>> ELSE Broadcast(t, "commitment", r, 1, outs)
           expiry == Expiry(t, m, r, mem[m].gen)
           retrieval == Retrievals(t, r, LoadedRound(e), LoadedMem(e))
<1>1. PICK outs \in (IF m = "v0" THEN {<<>>} ELSE Pairs("commitment")) :
        Return(e, expiry \o commit(outs) \o retrieval)
  BY DEF LoadDone, LoadedRound, LoadedMem
<1>2. /\ t \in Int /\ r \in Rounds /\ 1 \in Nat /\ e.kind = "load"
      /\ m \in Holders /\ m \in Nodes /\ mem[m].gen \in Nat
  BY TypesOfEvent, ActorOfEvent, SlotTypes, PhasesAndKinds DEF LoadDone, Handle
<1>3. expiry \in Seq(Children(e))
  BY <1>2, ExpiryChildren
<1>4. commit(outs) \in Seq(Children(e))
  <2>1. CASE m = "v0"
    BY <2>1, NothingScheduled
  <2>2. CASE m # "v0"
    BY <1>1, <1>2, <2>2, CommitmentChildren
  <2>3. QED
    BY <2>1, <2>2
<1>5. retrieval \in Seq(Children(e))
  <2>1. mem \in [Holders -> SlotType] /\ LoadedMem(e) \in [Holders -> SlotType]
    BY <1>2, MemoryTypes DEF LoadedMem, TypeOK, DeviceType
  <2>2. mem' = Retrieving(LoadedRound(e), LoadedMem(e))
    BY DEF LoadDone, LoadedRound, LoadedMem
  <2>3. round'[e.round].valid = LoadedRound(e).valid
    <3>1. PICK n \in RoundType : Runs(e, n) /\ TryEffect(n, LoadedRound(e), LoadedMem(e))
      BY LoadEffects
    <3>2. round'[e.round] = n
      BY <1>2, <3>1 DEF Runs, RuntimeTypes
    <3>3. QED
      BY <3>1, <3>2 DEF TryEffect
  <2>4. ASSUME NEW k \in Holders, LoadedMem(e)[k].state = "stored"
        PROVE  \/ mem[k].state = "stored" /\ LoadedMem(e)[k].holds = mem[k].holds
               \/ e.kind = "load" /\ e.who = k /\ LoadedMem(e)[k].holds = e.round
    <3>1. CASE k = m
      BY <1>2, <2>1, <3>1 DEF LoadedMem, SlotType
    <3>2. CASE k # m
      BY <2>1, <2>4, <3>2 DEF LoadedMem
    <3>3. QED
      BY <3>1, <3>2
  <2>5. QED
    BY <1>2, <2>1, <2>2, <2>3, <2>4, TryChildren
<1> HIDE DEF expiry, retrieval, commit
<1>6. expiry \o commit(outs) \o retrieval \in Seq(Children(e))
  BY <1>3, <1>4, <1>5, ConcatProperties
<1>7. QED
  BY <1>1, <1>6, ChildReturn

LEMMA BasisBegets ==
  ASSUME TypeOK, MemInv, RuntimeTypes, NEW e \in queue, BasisArrives(e)
  PROVE  Begets(e)
<1> DEFINE rd == [round[e.round] EXCEPT !.arrival[e.who] = e.when]
<1>1. /\ Return(e, Retrievals(e.when, e.round, rd, mem)) /\ e.kind = "basis"
      /\ mem' = Retrieving(rd, mem) /\ e.round \in Rounds
  BY TypesOfEvent DEF BasisArrives, Handle
<1>2. round'[e.round].valid = rd.valid
  <2>1. PICK n \in RoundType : Runs(e, n) /\ TryEffect(n, rd, mem)
    BY MeasureEffects
  <2>2. round'[e.round] = n
    BY <1>1, <2>1 DEF Runs, RuntimeTypes
  <2>3. QED
    BY <2>1, <2>2 DEF TryEffect
<1>3. mem \in [Holders -> SlotType]
  BY DEF TypeOK, DeviceType
<1> HIDE DEF rd
<1>4. Retrievals(e.when, e.round, rd, mem) \in Seq(Children(e))
  BY <1>1, <1>2, <1>3, TryChildren
<1>5. QED
  BY <1>1, <1>4, ChildReturn

\* The events that existing lemmas describe by their sets.
LEMMA DeskChildren ==
  ASSUME NEW e, NEW N, \A x \in N : x.round = e.round /\ x.kind \in DeskKinds, Leaves(e, N)
  PROVE  Begets(e)
BY DEF Begets, Child

LEMMA RetrieveBegets ==
  ASSUME TypeOK, NEW e \in queue, RetrieveDone(e)
  PROVE  Begets(e)
<1>1. e.kind = "retrieve"
  BY DEF RetrieveDone, Handle
<1>2. CASE status' \in Errors
  <2>1. \E error : Raise(e, error)
    BY <1>2 DEF RetrieveDone, Return, Handle, Errors
  <2>2. QED
    BY <2>1, ChildlessRaise
<1>3. CASE status' \notin Errors
  <2>1. CASE Leaves(e, {})
    BY <2>1 DEF Begets
  <2>2. CASE \E x \in MeasuredAt(e.when, e.who, e.round) : Leaves(e, {x})
    <3>1. PICK x \in MeasuredAt(e.when, e.who, e.round) : Leaves(e, {x})
      BY <2>2
    <3>2. /\ x.kind = "measured" /\ x.round = e.round /\ x.who = e.who
          /\ x.when = e.when + config.switch[e.who] + config.measure[e.who]
      BY <3>1 DEF MeasuredAt, EventsAt
    <3>3. Child(e, x)
      BY <1>1, <3>2 DEF Child
    <3>4. QED
      BY <3>1, <3>3 DEF Begets
  <2>3. QED
    BY <1>3, <2>1, <2>2, RetrievedLeaves
<1>4. QED
  BY <1>2, <1>3

LEMMA VerdictBegets ==
  ASSUME TypeOK, NEW e \in queue,
         ProverMeasured(e) \/ V0Measured(e) \/ VerifierReceives(e) \/ RoundTimesOut(e)
  PROVE  Begets(e)
<1> DEFINE t == e.when
           r == e.round
<1>1. t \in Int /\ r \in Rounds /\ config \in Configs
  BY TypesOfEvent DEF TypeOK
<1>2. CASE ProverMeasured(e)
  <2>1. PICK bit \in config.can.bit["prover"], outs \in Pairs("answer") :
          Return(e, Broadcast(e.when, "answer", e.round, bit, outs))
    BY <1>2 DEF ProverMeasured
  <2>2. bit \in Nat
    <3>1. config.can.bit["prover"] \subseteq {0, 1}
      BY <1>1, ConfigTypes DEF Holders
    <3>2. QED
      BY <3>1
  <2>3. PICK A \in SUBSET (UNION {AnswersAt(t, v, r, bit) : v \in Verifiers}) : Leaves(e, A)
    BY <2>1, <2>2, AnswerLeaves
  <2>4. \A x \in A : x.round = e.round /\ x.kind \in DeskKinds
    BY <2>3, LeftAnswers DEF DeskKinds
  <2>5. QED
    BY <2>3, <2>4, DeskChildren
<1>3. CASE V0Measured(e) \/ VerifierReceives(e)
  <2>1. \E v \in Verifiers : \E rd : \E out \in config.tamper["report"] :
          Return(e, ReportCopies(t, r, v, rd, FALSE, out))
    <3>1. "v0" \in Verifiers /\ (VerifierReceives(e) => e.who \in Verifiers)
      BY ActorOfEvent DEF VerifierReceives, Handle, Verifiers, MessageKinds
    <3>2. QED
      BY <1>3, <3>1 DEF V0Measured, VerifierReceives
  <2>2. PICK v \in Verifiers : \E rd : \E out \in config.tamper["report"] :
          Return(e, ReportCopies(t, r, v, rd, FALSE, out))
    BY <2>1
  <2>3. PICK rd : \E out \in config.tamper["report"] :
          Return(e, ReportCopies(t, r, v, rd, FALSE, out))
    BY <2>2
  <2>4. PICK P \in SUBSET ReportsAt(t, v, r) : Leaves(e, P)
    BY <2>3, ReportLeaves
  <2>5. \A x \in P : x.round = e.round /\ x.kind \in DeskKinds
    BY <2>4, LeftReports DEF DeskKinds
  <2>6. QED
    BY <2>4, <2>5, DeskChildren
<1>4. CASE RoundTimesOut(e)
  <2>1. CASE completed[r]
    BY <1>4, <2>1, ChildlessReturn DEF RoundTimesOut, Passes
  <2>2. CASE ~completed[r]
    <3>1. PICK P0 \in SUBSET ReportsAt(t, "v0", r), P1 \in SUBSET ReportsAt(t, "v1", r),
               x \in FinalsAt(t, r) : Leaves(e, P0 \union P1 \union {x})
      BY <1>4, <2>2, TimeoutLeaves
    <3>2. x.round = e.round /\ x.kind \in DeskKinds
      BY <3>1 DEF FinalsAt, EventsAt, DeskKinds
    <3>3. \A y \in P0 \union P1 : y.round = e.round /\ y.kind \in DeskKinds
      BY <3>1, LeftReports DEF DeskKinds
    <3>4. QED
      BY <3>1, <3>2, <3>3, DeskChildren
  <2>3. QED
    BY <2>1, <2>2
<1>5. QED
  BY <1>2, <1>3, <1>4

\* What any handler leaves in the heap.
LEMMA StepBegets ==
  ASSUME TypeOK, Agenda, MemInv, RuntimeTypes, NEW e \in queue,
         DeviceStep(e) \/ ProtocolStep(e) \/ DecisionStep(e)
  PROVE  Begets(e)
<1>1. CASE PairReadyRaises(e) \/ StartRoundRaises(e)
  BY <1>1, ChildlessRaise DEF PairReadyRaises, StartRoundRaises
<1>2. CASE PairFails(e) \/ Expire(e) \/ RejectPlan(e) \/ ReportArrives(e) \/ FinalTimesOut(e)
  BY <1>2, ChildlessReturn DEF PairFails, Expire, RejectPlan, ReportArrives, FinalTimesOut
<1>3. QED
  BY <1>1, <1>2, StartBegets, PairBegets, FlightBegets, DetectorBegets, LoadBegets,
     FailedLoadBegets, InputBegets, BasisBegets, RetrieveBegets, VerdictBegets
     DEF DeviceStep, ProtocolStep, DecisionStep

-----------------------------------------------------------------------------
(* What a handler does to a slot. *)

Fills(e, m, s, n) ==
  /\ e.kind = (IF m = "v0" THEN "epr" ELSE "qnd")
  /\ s.state = "empty" /\ n.state = "loading" /\ n.holds = s.holds
  /\ m = "prover" => ~gate[e.round].resolved /\ gate'[e.round].resolved

Stores(e, m, s, n) ==
  /\ e.kind = "load" /\ e.who = m /\ s.state = "loading"
  /\ n.state \in {"stored", "retrieving"} /\ n.holds = e.round /\ n.storedAt = e.when

Fails(e, m, s, n) ==
  /\ e.kind = "load" /\ e.who = m /\ s.state = "loading"
  /\ n.state = "empty" /\ n.holds = s.holds

Measures(e, s, n) ==
  /\ e.kind \in {"load", "basis"} /\ s.state = "stored"
  /\ n.state = "retrieving" /\ n.holds = s.holds

Expires(e, m, s, n) ==
  /\ e.kind = "expire" /\ e.who = m
  /\ s.state = "stored" /\ s.holds = e.round /\ s.gen = e.val
  /\ n.state = "expired" /\ n.holds = None

Empties(e, m, s, n) ==
  /\ n.state = "empty" /\ n.holds = None
  /\ \/ e.kind = "retrieve" /\ e.who = m /\ s.state = "retrieving"
     \/ /\ e.kind \in {"report", "final"} /\ s.holds = e.round
        /\ s.state \in {"stored", "expired"}

SlotMoves(e, m, s, n) ==
  n = s \/ Fills(e, m, s, n) \/ Stores(e, m, s, n) \/ Fails(e, m, s, n)
    \/ Measures(e, s, n) \/ Expires(e, m, s, n) \/ Empties(e, m, s, n)

LEMMA RetrievedSlot ==
  ASSUME NEW mm \in [Holders -> SlotType], NEW rd, NEW m \in Holders
  PROVE  \/ Retrieving(rd, mm)[m] = mm[m]
         \/ /\ mm[m].state = "stored" /\ Retrieving(rd, mm)[m].state = "retrieving"
            /\ Retrieving(rd, mm)[m].holds = mm[m].holds
            /\ Retrieving(rd, mm)[m].storedAt = mm[m].storedAt
<1>1. CASE ~CanMeasure(rd, mm)
  BY <1>1 DEF Retrieving
<1>2. CASE CanMeasure(rd, mm)
  <2>1. /\ Retrieving(rd, mm)[m] = [mm[m] EXCEPT !.state = "retrieving", !.gen = @ + 1]
        /\ mm[m].state = "stored"
    BY <1>2 DEF Retrieving, CanMeasure
  <2>2. mm[m] \in SlotType
    OBVIOUS
  <2>3. QED
    BY <2>1, <2>2 DEF SlotType
<1>3. QED
  BY <1>1, <1>2

\* A load or a retrieval that is due finds its slot in that state.
LEMMA SlotInUse ==
  ASSUME MemInv, NEW e \in queue, e.who \in Holders
  PROVE  /\ e.kind = "load" => mem[e.who].state = "loading"
         /\ e.kind = "retrieve" => mem[e.who].state = "retrieving"
<1>1. SlotInv(e.who, mem[e.who], MemoryEvents(queue, e.who))
  BY DEF MemInv
<1>2. e.kind \in {"load", "retrieve"} => e \in MemoryEvents(queue, e.who)
  BY DEF MemoryEvents, MemoryKinds
<1>3. QED
  BY <1>1, <1>2 DEF SlotInv, CompletionsInUse

LEMMA LoadSlots ==
  ASSUME TypeOK, MemInv, NEW e \in queue, LoadDone(e), NEW m \in Holders
  PROVE  SlotMoves(e, m, mem[m], mem'[m])
<1>1. /\ mem' = Retrieving(LoadedRound(e), LoadedMem(e)) /\ e.kind = "load"
  BY DEF LoadDone, LoadedRound, LoadedMem, Handle
<1>2. /\ e.who \in Holders /\ e.who \in Nodes /\ e.round \in Rounds /\ e.when \in Int
      /\ mem \in [Holders -> SlotType] /\ mem[e.who].state = "loading"
  BY <1>1, ActorOfEvent, TypesOfEvent, PhasesAndKinds, SlotInUse DEF TypeOK, DeviceType
<1>3. LoadedMem(e) \in [Holders -> SlotType]
  BY <1>2, MemoryTypes DEF LoadedMem
<1> DEFINE mm == LoadedMem(e)
           n  == mem'[m]
<1>4. \/ n = mm[m]
      \/ /\ mm[m].state = "stored" /\ n.state = "retrieving" /\ n.holds = mm[m].holds
         /\ n.storedAt = mm[m].storedAt
  BY <1>1, <1>3, RetrievedSlot
<1>5. CASE m = e.who
  <2>1. mm[m].state = "stored" /\ mm[m].holds = e.round /\ mm[m].storedAt = e.when
    BY <1>2, <1>5 DEF LoadedMem, SlotType
  <2>2. Stores(e, m, mem[m], n)
    BY <1>1, <1>2, <1>4, <1>5, <2>1 DEF Stores
  <2>3. QED
    BY <2>2 DEF SlotMoves
<1>6. CASE m # e.who
  <2>1. mm[m] = mem[m]
    BY <1>2, <1>6 DEF LoadedMem
  <2>2. QED
    BY <1>1, <1>4, <2>1 DEF SlotMoves, Measures
<1>7. QED
  BY <1>5, <1>6

LEMMA BasisSlots ==
  ASSUME TypeOK, NEW e \in queue, BasisArrives(e), NEW m \in Holders
  PROVE  SlotMoves(e, m, mem[m], mem'[m])
<1>1. e.kind = "basis" /\ \E rd : mem' = Retrieving(rd, mem)
  BY DEF BasisArrives, Handle
<1>2. mem \in [Holders -> SlotType]
  BY DEF TypeOK, DeviceType
<1>3. QED
  BY <1>1, <1>2, RetrievedSlot DEF SlotMoves, Measures

LEMMA FilledSlots ==
  ASSUME TypeOK, NEW e \in queue, PairReady(e) \/ DetectionDone(e), NEW m \in Holders
  PROVE  SlotMoves(e, m, mem[m], mem'[m])
<1>1. mem \in [Holders -> SlotType] /\ "v0" \in Holders /\ "prover" \in Holders
  BY DEF TypeOK, DeviceType, Holders
<1>2. ASSUME NEW k \in Holders, mem' = Loading(k), mem[k].state = "empty",
             e.kind = (IF k = "v0" THEN "epr" ELSE "qnd"),
             k = "prover" => ~gate[e.round].resolved /\ gate'[e.round].resolved
      PROVE  SlotMoves(e, m, mem[m], mem'[m])
  <2>1. CASE m = k
    <3>1. mem'[m] = [mem[m] EXCEPT !.state = "loading", !.gen = @ + 1]
      BY <1>1, <1>2, <2>1 DEF Loading
    <3>2. mem'[m].state = "loading" /\ mem'[m].holds = mem[m].holds
      BY <1>1, <3>1 DEF SlotType
    <3>3. QED
      BY <1>2, <2>1, <3>2 DEF SlotMoves, Fills
  <2>2. CASE m # k
    BY <1>1, <1>2, <2>2 DEF Loading, SlotMoves
  <2>3. QED
    BY <2>1, <2>2
<1>3. CASE UNCHANGED mem
  BY <1>3 DEF SlotMoves
<1>4. CASE PairReady(e)
  BY <1>1, <1>2, <1>4 DEF PairReady, Handle
<1>5. CASE DetectionDone(e)
  <2>1. CASE /\ ~gate[e.round].resolved /\ mem["prover"].state = "empty"
             /\ gate' = [gate EXCEPT ![e.round].resolved = TRUE] /\ mem' = Loading("prover")
    <3>1. gate'[e.round].resolved
      <4>1. e.round \in Rounds /\ gate \in [Rounds -> [opens : Int, closes : Int, resolved : BOOLEAN]]
        BY TypesOfEvent DEF TypeOK, DeviceType
      <4>2. QED
        BY <2>1, <4>1
    <3>2. e.kind = "qnd" /\ "prover" # "v0"
      BY <1>5 DEF DetectionDone, Handle
    <3>3. QED
      BY <1>1, <1>2, <2>1, <3>1, <3>2
  <2>2. QED
    BY <1>3, <1>5, <2>1 DEF DetectionDone, Resolved, Passes, Commit, Raise, deviceVars
<1>6. QED
  BY <1>4, <1>5

LEMMA EmptiedSlots ==
  ASSUME TypeOK, MemInv, NEW e \in queue, LoadFails(e) \/ Expire(e) \/ RetrieveDone(e),
         NEW m \in Holders
  PROVE  SlotMoves(e, m, mem[m], mem'[m])
<1>1. /\ mem \in [Holders -> SlotType] /\ e.who \in Holders
      /\ e.kind = "load" => mem[e.who].state = "loading"
      /\ e.kind = "retrieve" => mem[e.who].state = "retrieving"
  <2>1. e.who \in Holders
    BY ActorOfEvent DEF LoadFails, Expire, RetrieveDone, Handle
  <2>2. QED
    BY <2>1, SlotInUse DEF TypeOK, DeviceType
<1>2. CASE UNCHANGED mem
  BY <1>2 DEF SlotMoves
<1>3. CASE LoadFails(e)
  <2>1. mem' = [mem EXCEPT ![e.who].state = "empty"] /\ e.kind = "load"
    BY <1>3 DEF LoadFails, Handle
  <2>2. CASE m = e.who
    BY <1>1, <2>1, <2>2 DEF SlotMoves, Fails, SlotType
  <2>3. CASE m # e.who
    BY <1>1, <2>1, <2>3 DEF SlotMoves
  <2>4. QED
    BY <2>2, <2>3
<1>4. CASE Expire(e)
  <2> DEFINE s == mem[e.who]
  <2>1. CASE /\ s.state = "stored" /\ s.holds = e.round /\ s.gen = e.val
             /\ mem' = [mem EXCEPT ![e.who] = [@ EXCEPT !.state = "expired", !.holds = None,
                                                        !.storedAt = None]]
    <3>1. e.kind = "expire"
      BY <1>4 DEF Expire, Handle
    <3>2. CASE m = e.who
      <4>1. mem'[m].state = "expired" /\ mem'[m].holds = None
        BY <1>1, <2>1, <3>2 DEF SlotType
      <4>2. QED
        BY <2>1, <3>1, <3>2, <4>1 DEF SlotMoves, Expires
    <3>3. CASE m # e.who
      BY <1>1, <2>1, <3>3 DEF SlotMoves
    <3>4. QED
      BY <3>2, <3>3
  <2>2. QED
    BY <1>2, <1>4, <2>1 DEF Expire
<1>5. CASE RetrieveDone(e)
  <2>1. CASE mem' = [mem EXCEPT ![e.who] = [EmptySlot EXCEPT !.gen = mem[e.who].gen + 1]]
    <3>1. CASE m = e.who
      <4>1. mem'[m].state = "empty" /\ mem'[m].holds = None
        BY <1>1, <2>1, <3>1 DEF EmptySlot
      <4>2. QED
        BY <1>1, <1>5, <3>1, <4>1 DEF SlotMoves, Empties, RetrieveDone, Handle
    <3>2. CASE m # e.who
      BY <1>1, <2>1, <3>2 DEF SlotMoves
    <3>3. QED
      BY <3>1, <3>2
  <2>2. QED
    BY <1>2, <1>5, <2>1 DEF RetrieveDone, Raise, deviceVars
<1>6. QED
  BY <1>3, <1>4, <1>5

LEMMA StepSlots ==
  ASSUME TypeOK, MemInv, NEW e \in queue, DeviceStep(e) \/ ProtocolStep(e) \/ DecisionStep(e),
         NEW m \in Holders
  PROVE  SlotMoves(e, m, mem[m], mem'[m])
<1>1. CASE UNCHANGED mem
  BY <1>1 DEF SlotMoves
<1>2. CASE PairReadyRaises(e) \/ StartRoundRaises(e)
  BY <1>1, <1>2 DEF PairReadyRaises, StartRoundRaises, Raise, deviceVars
<1>3. CASE ReportArrives(e) \/ FinalTimesOut(e)
  <2>1. e.kind \in {"report", "final"}
    BY <1>3 DEF ReportArrives, FinalTimesOut, Handle
  <2>2. CASE mem' = Released(e.round)
    <3>1. mem[m] \in SlotType
      BY SlotTypes
    <3>2. CASE mem[m].holds = e.round /\ mem[m].state \in {"stored", "expired"}
      <4>1. mem'[m] = [EmptySlot EXCEPT !.gen = mem[m].gen + 1]
        BY <2>2, <3>2 DEF Released
      <4>2. mem'[m].state = "empty" /\ mem'[m].holds = None
        BY <4>1 DEF EmptySlot
      <4>3. QED
        BY <2>1, <3>2, <4>2 DEF SlotMoves, Empties
    <3>3. CASE ~(mem[m].holds = e.round /\ mem[m].state \in {"stored", "expired"})
      <4>1. mem[m].state # "failed"
        BY <3>1 DEF SlotType
      <4>2. mem'[m] = mem[m]
        BY <2>2, <3>3, <4>1 DEF Released
      <4>3. QED
        BY <4>2 DEF SlotMoves
    <3>4. QED
      BY <3>2, <3>3
  <2>3. QED
    BY <1>1, <1>3, <2>2, OtherSlots
<1>4. CASE \/ PairFails(e) \/ PhotonArrives(e) \/ GateCloses(e) \/ ProverMeasured(e)
           \/ V0Measured(e) \/ StartRound(e) \/ SendChallenge(e) \/ InterceptDone(e)
           \/ SendReplacement(e) \/ SendBasis(e) \/ VerifierReceives(e) \/ RoundTimesOut(e)
           \/ RejectPlan(e)
  <2>1. UNCHANGED mem
    BY <1>4 DEF PairFails, ProverMeasured, V0Measured, StartRound, SendChallenge,
       InterceptDone, SendReplacement, SendBasis, VerifierReceives, RoundTimesOut, RejectPlan,
       PhotonArrives, GateCloses, Resolved, Commit, Passes, deviceVars
  <2>2. QED
    BY <1>1, <2>1
<1>5. QED
  BY <1>2, <1>3, <1>4, LoadSlots, BasisSlots, FilledSlots, EmptiedSlots
     DEF DeviceStep, ProtocolStep, DecisionStep

-----------------------------------------------------------------------------
(* What a handler does to gates and to the validity of a round. *)

LEMMA GateOfStep ==
  ASSUME NEW e \in queue, DeviceStep(e) \/ ProtocolStep(e) \/ DecisionStep(e)
  PROVE  /\ e.kind = "gate" => GateCloses(e)
         /\ e.kind = "start" => StartRound(e) \/ StartRoundRaises(e) \/ RejectPlan(e)
BY DEF DeviceStep, ProtocolStep, DecisionStep, PairReady, PairReadyRaises, PairFails,
   PhotonArrives, DetectionDone, GateCloses, LoadDone, LoadFails, Expire, RetrieveDone,
   ProverMeasured, V0Measured, StartRound, StartRoundRaises, SendChallenge, InterceptDone,
   SendReplacement, SendBasis, BasisArrives, VerifierReceives, RoundTimesOut, RejectPlan,
   ReportArrives, FinalTimesOut, Handle

LEMMA GateMoves ==
  ASSUME TypeOK, NEW e \in queue, DeviceStep(e) \/ ProtocolStep(e) \/ DecisionStep(e),
         NEW q \in Rounds, ~gate'[q].resolved
  PROVE  \/ ~gate[q].resolved /\ ~(e.kind = "gate" /\ e.round = q)
         \/ StartRound(e) /\ q = e.round
<1>1. /\ e.round \in Rounds
      /\ gate \in [Rounds -> [opens : Int, closes : Int, resolved : BOOLEAN]]
  BY TypesOfEvent DEF TypeOK, DeviceType
<1>2. CASE GateCloses(e)
  <2>1. CASE UNCHANGED gate /\ gate[e.round].resolved
    BY <2>1
  <2>2. CASE gate' = [gate EXCEPT ![e.round].resolved = TRUE]
    BY <1>1, <2>2
  <2>3. QED
    BY <1>2, <2>1, <2>2 DEF GateCloses, Resolved, Commit, Passes, deviceVars
<1>3. CASE ~GateCloses(e) /\ ~StartRound(e)
  <2>1. e.kind # "gate"
    BY <1>3, GateOfStep
  <2>2. CASE UNCHANGED gate
    BY <2>1, <2>2
  <2>3. CASE gate' = [gate EXCEPT ![e.round].resolved = TRUE]
    BY <1>1, <2>1, <2>3
  <2>4. CASE PhotonArrives(e) \/ DetectionDone(e)
    BY <2>2, <2>3, <2>4 DEF PhotonArrives, DetectionDone, Resolved, Commit, Passes, Raise,
       deviceVars
  <2>5. CASE ~(PhotonArrives(e) \/ DetectionDone(e))
    BY <1>3, <2>2, <2>5 DEF DeviceStep, ProtocolStep, DecisionStep, PairReady, PairReadyRaises,
       PairFails, LoadDone, LoadFails, Expire, RetrieveDone, ProverMeasured, V0Measured,
       StartRoundRaises, SendChallenge, InterceptDone, SendReplacement, SendBasis,
       BasisArrives, VerifierReceives, RoundTimesOut, RejectPlan, ReportArrives,
       FinalTimesOut, Raise, Passes, deviceVars
  <2>6. QED
    BY <2>4, <2>5
<1>4. CASE StartRound(e)
  <2>1. e.kind = "start" /\ \A s \in Rounds \ {e.round} : gate'[s] = gate[s]
    BY <1>1, <1>4 DEF StartRound, Handle
  <2>2. QED
    BY <1>4, <2>1
<1>5. QED
  BY <1>2, <1>3, <1>4

\* A round becomes valid only by the loading of the prover's memory.
LEMMA OpValid ==
  ASSUME NEW e, NEW rd, NEW n, NEW N, NEW u, NEW u1, Op(e, rd, n, N, u, u1), n.valid
  PROVE  rd.valid \/ IsLoad(e)
<1>1. CASE IdleOp(e, rd, n, N) \/ CommitOp(e, rd, n, N) \/ DetectOp(e, rd, n, N)
  BY <1>1 DEF IdleOp, CommitOp, DetectOp, CommittingEffect, DetectedEffect
<1>2. CASE TryOp(e, rd, n, N)
  <2>1. PICK rd1, mm : /\ rd1 = rd \/ ArrivalEffect(rd1, rd) \/ IsLoad(e)
                       /\ TryEffect(n, rd1, mm)
    BY <1>2 DEF TryOp
  <2>2. QED
    BY <2>1 DEF TryEffect, ArrivalEffect
<1>3. CASE LoadFailsOp(e, rd, n, N) \/ RetrievedOp(e, rd, n, N) \/ AnswersOp(e, rd, n, N)
  BY <1>3 DEF LoadFailsOp, RetrievedOp, AnswersOp, DwellEffect, BitEffect
<1>4. CASE V0Op(e, rd, n, N)
  BY <1>4 DEF V0Op, BitEffect, ReportEffect
<1>5. CASE SeesOp(e, rd, n, N)
  BY <1>5 DEF SeesOp, SeeingEffect, ReportEffect
<1>6. CASE ReceivedOp(e, rd, n, N)
  BY <1>6 DEF ReceivedOp, ReceivedEffect
<1>7. CASE ForcedOp(e, rd, n, N)
  BY <1>7 DEF ForcedOp, ReportEffect
<1>8. QED
  BY <1>1, <1>2, <1>3, <1>4, <1>5, <1>6, <1>7 DEF Op

LEMMA ValidMoves ==
  ASSUME TypeOK, Agenda, MemInv, RuntimeTypes, NEW e \in queue,
         DeviceStep(e) \/ ProtocolStep(e) \/ DecisionStep(e), NEW q \in Rounds,
         round'[q].valid
  PROVE  round[q].valid \/ (q = e.round /\ IsLoad(e))
<1>1. PICK n, N : Moves(e, n, N)
  BY StepMoves
<1>2. CASE q = e.round
  <2>1. n.valid /\ Op(e, round[q], n, N, Unresolved(q), Unresolved(q)')
    BY <1>1, <1>2 DEF Moves
  <2>2. QED
    BY <1>2, <2>1, OpValid
<1>3. CASE q # e.round
  BY <1>1, <1>3 DEF Moves
<1>4. QED
  BY <1>2, <1>3

-----------------------------------------------------------------------------
(* When the events of a round are due. *)

\* By t the devices of round r and the inputs to it have had their say: what
\* may begin its measurement has happened.
TriesBy(c, r, t) ==
  /\ RoundStartAt(c, r) + c.epr + c.load["v0"] <= t
  /\ GateClosesAt(c, r) + c.load["prover"] <= t
  /\ \A v \in Verifiers : \A out \in c.tamper["basis"] : \A i \in DOMAIN out :
       SendAt(c, r, v) + InputTravel(c, v, out[i]) <= t

\* Every measurement begins before the next round.
QubitsInTime(c) == \A r \in Rounds : TriesBy(c, r, RoundStartAt(c, r + 1) - 1)

Due(x) ==
  LET r == x.round IN
  /\ x.kind = "epr" => x.when <= RoundStartAt(config, r) + config.epr
  /\ x.kind = "gate" => x.when <= GateClosesAt(config, r)
  /\ x.kind = "send" => x.when <= SendAt(config, r, x.who)
  /\ x.kind = "load" /\ x.who = "v0" =>
       x.when <= RoundStartAt(config, r) + config.epr + config.load["v0"]
  /\ IsLoad(x) => x.when <= GateClosesAt(config, r) + config.load["prover"]
  /\ x.kind = "basis" => \A t \in Int : TriesBy(config, r, t) => x.when <= t
  /\ x.kind = "retrieve" =>
       \A t \in Int : TriesBy(config, r, t) => x.when <= t + config.retrieve[x.who]
  /\ x.kind = "measured" =>
       \A t \in Int : TriesBy(config, r, t) =>
         x.when <= t + config.retrieve[x.who] + config.switch[x.who] + config.measure[x.who]

AllDue == \A x \in queue : Due(x)

\* A gate that is open has its closing in the heap.
GatesClose ==
  \A r \in Rounds : ~gate[r].resolved => \E x \in queue : x.kind = "gate" /\ x.round = r

LEMMA LoadDue ==
  ASSUME TypeOK, NEW e \in queue, Due(e), e.kind \in {"load", "basis"}, NEW t \in Int,
         TriesBy(config, e.round, t)
  PROVE  e.when <= t
<1>1. CASE e.kind = "basis"
  BY <1>1 DEF Due
<1>2. CASE e.kind = "load"
  <2>1. e.who = "prover" \/ e.who = "v0"
    BY <1>2, ActorOfEvent DEF Holders
  <2> DEFINE a == RoundStartAt(config, e.round) + config.epr + config.load["v0"]
             b == GateClosesAt(config, e.round) + config.load["prover"]
             w == e.when
  <2>2. (e.who = "v0" => w <= a) /\ (e.who = "prover" => w <= b) /\ a <= t /\ b <= t
    BY <1>2 DEF Due, IsLoad, TriesBy
  <2>3. w \in Int /\ a \in Int /\ b \in Int
    <3>1. config \in Configs /\ e.round \in Rounds /\ w \in Int
      BY TypesOfEvent DEF TypeOK
    <3>2. config.epr \in Int /\ config.load["v0"] \in Int /\ config.load["prover"] \in Int
      <4>1. config.epr \in Nat /\ config.load["v0"] \in Nat /\ config.load["prover"] \in Nat
        BY <3>1, ConfigTypes DEF Holders
      <4>2. QED
        BY <4>1
    <3>3. RoundStartAt(config, e.round) \in Int /\ GateClosesAt(config, e.round) \in Int
      BY <3>1, DeviceTimes
    <3>4. QED
      BY <3>1, <3>2, <3>3
  <2> HIDE DEF a, b, w
  <2>4. w <= t
    BY <2>1, <2>2, <2>3
  <2>5. QED
    BY <2>4 DEF w
<1>3. QED
  BY <1>1, <1>2

\* Nothing that is pending is due before the event that is handled.
LEMMA FirstIsEarliest ==
  ASSUME TypeOK, NEW e \in queue, IsFirst(e, queue), NEW x \in queue
  PROVE  e.when <= x.when
<1>1. CASE x = e
  BY <1>1, TypesOfEvent
<1>2. CASE x # e
  <2>1. Before(e, x) /\ x.when \in Int /\ e.when \in Int
    BY <1>2, TypesOfEvent DEF IsFirst
  <2>2. QED
    BY <2>1 DEF Before
<1>3. QED
  BY <1>1, <1>2

LEMMA InputDue ==
  ASSUME TypeOK, NEW e \in queue, Due(e), NEW x, Child(e, x), x.kind = "basis", NEW t \in Int,
         TriesBy(config, x.round, t)
  PROVE  x.when <= t
<1>1. e.kind = "send"
  BY DEF Child, DeskKinds, PhotonKinds
<1>2. PICK out \in config.tamper["basis"] : \E i \in DOMAIN out :
        x.when = e.when + InputTravel(config, e.who, out[i])
  BY DEF Child, DeskKinds, PhotonKinds
<1>3. PICK i \in DOMAIN out : x.when = e.when + InputTravel(config, e.who, out[i])
  BY <1>2
<1> DEFINE g == InputTravel(config, e.who, out[i])
           s == SendAt(config, e.round, e.who)
           w == e.when
<1>4. e.who \in Verifiers /\ e.round \in Rounds /\ config \in Configs /\ w \in Int
  BY <1>1, ActorOfEvent, TypesOfEvent DEF TypeOK
<1>5. g \in Int
  <2> DEFINE a == ClassicalDelay(config, e.who, "prover")
             b == config.sender[e.who]["prover"]
             k == out[i]
  <2>1. a \in Nat /\ b \in Nat
    BY <1>4, ConfigTypes, MessageDelays
  <2>2. k \in Nat
    <3>1. out \in Seq(Nat)
      BY <1>2, <1>4, ConfigTypes DEF MessageKinds
    <3>2. QED
      BY <1>3, <3>1, LenProperties, ElementOfSeq
  <2>3. g = a + b + k
    BY DEF InputTravel
  <2> HIDE DEF a, b, k, g
  <2>4. QED
    BY <2>1, <2>2, <2>3
<1>6. s + g <= t /\ w <= s
  <2>1. x.round = e.round
    BY DEF Child
  <2>2. s + g <= t
    BY <1>2, <1>3, <1>4, <2>1 DEF TriesBy
  <2>3. QED
    BY <1>1, <2>2 DEF Due
<1>7. s \in Int
  BY <1>4, DeviceTimes
<1>8. x.when = w + g
  BY <1>3
<1> HIDE DEF g, s, w
<1>9. QED
  BY <1>4, <1>5, <1>6, <1>7, <1>8

LEMMA ChildDue ==
  ASSUME TypeOK, Agenda, AllDue, GatesClose, NEW e \in queue, IsFirst(e, queue),
         NEW x \in EventType, Child(e, x)
  PROVE  Due(x)
<1> DEFINE r == e.round
           w == e.when
           s == RoundStartAt(config, r)
           c == GateClosesAt(config, r)
           p == config.epr
           l == config.load["v0"]
           k == config.load["prover"]
<1>1. /\ r \in Rounds /\ w \in Int /\ config \in Configs /\ x.round = r /\ x.when \in Int
      /\ Due(e)
  BY TypesOfEvent DEF TypeOK, AllDue, Child, EventType
<1>2. s \in Int /\ c \in Int /\ p \in Int /\ l \in Int /\ k \in Int
  <2>1. s \in Nat /\ c \in Int
    BY <1>1, DeviceTimes
  <2>2. p \in Nat /\ l \in Nat /\ k \in Nat
    BY <1>1, ConfigTypes DEF Holders
  <2>3. QED
    BY <2>1, <2>2
<1>3. CASE x.kind \in DeskKinds \union PhotonKinds
  BY <1>3 DEF Due, DeskKinds, PhotonKinds, IsLoad
<1>4. CASE x.kind = "epr"
  <2>1. e.kind = "start" /\ x.when = w + p
    BY <1>4 DEF Child, DeskKinds, PhotonKinds
  <2>2. w = s
    BY <2>1 DEF Agenda, StartsAreAhead
  <2> HIDE DEF w, s, p
  <2>3. x.when <= s + p
    BY <1>1, <1>2, <2>1, <2>2
  <2>4. QED
    BY <1>1, <1>4, <2>3 DEF Due, IsLoad, s, p
<1>5. CASE x.kind = "gate"
  <2>1. x.when = c
    BY <1>5 DEF Child, DeskKinds, PhotonKinds
  <2>2. x.when <= c
    BY <1>2, <2>1
  <2>3. QED
    BY <1>1, <1>5, <2>2 DEF Due, IsLoad
<1>6. CASE x.kind = "send"
  <2>1. x.when = SendAt(config, r, x.who)
    BY <1>6 DEF Child, DeskKinds, PhotonKinds
  <2>2. x.when <= SendAt(config, r, x.who)
    BY <1>1, <2>1
  <2>3. QED
    BY <1>1, <1>6, <2>2 DEF Due, IsLoad
<1>7. CASE x.kind = "load" /\ x.who = "v0"
  <2>1. e.kind = "epr" /\ x.when = w + l
    BY <1>7 DEF Child, DeskKinds, PhotonKinds
  <2>2. w <= s + p
    BY <1>1, <2>1 DEF Due
  <2> HIDE DEF w, s, p, l
  <2>3. x.when <= s + p + l
    BY <1>1, <1>2, <2>1, <2>2
  <2>4. QED
    BY <1>1, <1>7, <2>3 DEF Due, IsLoad, s, p, l
<1>8. CASE IsLoad(x)
  <2>1. /\ x.when = w + k /\ ~gate[r].resolved
    BY <1>8 DEF Child, DeskKinds, PhotonKinds, IsLoad
  <2>2. PICK g \in queue : g.kind = "gate" /\ g.round = r
    BY <1>1, <2>1 DEF GatesClose
  <2>3. g.when <= c /\ w <= g.when /\ g.when \in Int
    BY <2>2, TypesOfEvent, FirstIsEarliest DEF AllDue, Due
  <2> HIDE DEF w, c, k
  <2>4. x.when <= c + k
    BY <1>1, <1>2, <2>1, <2>3
  <2>5. QED
    BY <1>1, <1>8, <2>4 DEF Due, IsLoad, c, k
<1>9. CASE x.kind = "basis"
  BY <1>1, <1>9, InputDue DEF Due, IsLoad
<1>10. CASE x.kind = "retrieve"
  <2> DEFINE g == config.retrieve[x.who]
  <2>1. e.kind \in {"load", "basis"} /\ x.when = w + g /\ x.who \in Holders
    BY <1>10 DEF Child, DeskKinds, PhotonKinds
  <2>2. g \in Nat
    BY <1>1, <2>1, ConfigTypes
  <2>3. ASSUME NEW t \in Int, TriesBy(config, r, t) PROVE x.when <= t + g
    <3>1. w <= t
      BY <1>1, <2>1, <2>3, LoadDue
    <3> HIDE DEF w, g
    <3>2. QED
      BY <1>1, <2>1, <2>2, <3>1
  <2>4. QED
    BY <1>1, <1>10, <2>3 DEF Due, IsLoad
<1>11. CASE x.kind = "measured"
  <2> DEFINE m == e.who
             g == config.retrieve[m]
             h == config.switch[m]
             d == config.measure[m]
  <2>1. e.kind = "retrieve" /\ x.when = w + h + d /\ x.who = m
    BY <1>11 DEF Child, DeskKinds, PhotonKinds
  <2>2. m \in Holders
    BY <2>1, ActorOfEvent
  <2>3. g \in Nat /\ h \in Nat /\ d \in Nat
    BY <1>1, <2>2, ConfigTypes
  <2>4. ASSUME NEW t \in Int, TriesBy(config, r, t) PROVE x.when <= t + g + h + d
    <3>1. w <= t + g
      BY <1>1, <2>1, <2>4 DEF Due
    <3> HIDE DEF w, g, h, d
    <3>2. QED
      BY <1>1, <2>1, <2>3, <2>4, <3>1
  <2>5. QED
    BY <1>1, <1>11, <2>1, <2>4 DEF Due, IsLoad
<1>12. CASE x.kind = "load" /\ x.who # "v0"
  <2>1. x.who = "prover"
    BY <1>12 DEF Child, DeskKinds, PhotonKinds
  <2>2. QED
    BY <1>8, <1>12, <2>1 DEF IsLoad
<1>13. x.kind \in DeskKinds \union PhotonKinds \union
                  {"epr", "gate", "send", "load", "basis", "retrieve", "measured"}
  BY DEF Child, PhotonKinds
<1>14. QED
  BY <1>3, <1>4, <1>5, <1>6, <1>7, <1>9, <1>10, <1>11, <1>12, <1>13

-----------------------------------------------------------------------------
(* When the events are due and what the slots hold, through every step. *)

\* What the other modules prove of every session.
Groundwork == TypeOK /\ Agenda /\ MemInv /\ RuntimeTypes /\ HeapOrder /\ Truths

LEMMA SessionGroundwork == Spec => []Groundwork
BY SessionTypes, SessionAgenda, SessionMemory, SessionRuntime, SessionHeapOrder, SessionTruths,
   PTL DEF Groundwork

Handles(e) == DeviceStep(e) \/ ProtocolStep(e) \/ DecisionStep(e)

LEMMA StartedMoves ==
  ASSUME TypeOK, NEW e \in queue, Handles(e), NEW q \in Rounds
  PROVE  /\ started[q] => started'[q]
         /\ started'[q] => started[q] \/ (e.kind = "start" /\ q = e.round)
<1>1. e.round \in Rounds /\ started \in [Rounds -> BOOLEAN]
  BY TypesOfEvent DEF TypeOK
<1>2. CASE UNCHANGED started
  BY <1>2
<1>3. CASE e.kind = "start" /\ started' = [started EXCEPT ![e.round] = TRUE]
  BY <1>1, <1>3
<1>4. CASE StartRound(e) \/ RejectPlan(e)
  BY <1>3, <1>4 DEF StartRound, RejectPlan, Handle
<1>5. CASE DeviceStep(e)
  BY <1>2, <1>5 DEF DeviceStep, PairReady, PairReadyRaises, PairFails, PhotonArrives,
     DetectionDone, GateCloses, LoadDone, LoadFails, Expire, RetrieveDone, ProverMeasured,
     V0Measured, Resolved, Passes, Commit, Raise
<1>6. CASE ~DeviceStep(e) /\ ~StartRound(e) /\ ~RejectPlan(e)
  BY <1>2, <1>6 DEF Handles, ProtocolStep, DecisionStep, StartRoundRaises, SendChallenge,
     InterceptDone, SendReplacement, SendBasis, BasisArrives, VerifierReceives, RoundTimesOut,
     ReportArrives, FinalTimesOut, Passes, Raise
<1>7. QED
  BY <1>4, <1>5, <1>6

\* A round that has started began no later than now.
StartedInTime == \A r \in Rounds : started[r] => RoundStartAt(config, r) <= now

Schedule == AllDue /\ GatesClose /\ StartedInTime

LEMMA StepStarted ==
  ASSUME Groundwork, StartedInTime, NEW e \in queue, Handles(e)
  PROVE  StartedInTime'
<1> SUFFICES ASSUME NEW r \in Rounds, started'[r]
             PROVE  RoundStartAt(config, r) <= e.when
  BY StepIsFirst DEF StartedInTime, Handles
<1>1. TypeOK /\ Agenda /\ HeapOrder
  BY DEF Groundwork
<1> DEFINE s == RoundStartAt(config, r)
<1>2. s \in Nat /\ e.when \in Int /\ now \in Int
  BY <1>1, DeviceTimes, TypesOfEvent DEF TypeOK, QueueType
<1>3. CASE started[r]
  <2>1. s <= now /\ now <= e.when
    BY <1>1, <1>2, <1>3 DEF StartedInTime, HeapOrder
  <2> HIDE DEF s
  <2>2. s <= e.when
    BY <1>2, <2>1
  <2>3. QED
    BY <2>2 DEF s
<1>4. CASE e.kind = "start" /\ r = e.round
  <2>1. e.when = s
    BY <1>1, <1>4 DEF Agenda, StartsAreAhead
  <2>2. QED
    BY <1>2, <2>1
<1>5. QED
  BY <1>1, <1>3, <1>4, StartedMoves

LEMMA DueFrame ==
  ASSUME config' = config, NEW x, Due(x)
  PROVE  Due(x)'
BY DEF Due

LEMMA StepDue ==
  ASSUME Groundwork, TypeOK', AllDue, GatesClose, NEW e \in queue, Handles(e)
  PROVE  AllDue'
<1> SUFFICES ASSUME NEW x \in queue' PROVE Due(x)'
  BY DEF AllDue
<1>1. Begets(e)
  BY StepBegets DEF Groundwork, Handles
<1>2. PICK N : Leaves(e, N) /\ \A y \in N : Child(e, y)
  BY <1>1 DEF Begets
<1>3. IsFirst(e, queue) /\ config' = config
  BY StepIsFirst DEF Handles
<1>4. CASE x \in queue
  BY <1>3, <1>4, DueFrame DEF AllDue
<1>5. CASE x \in N
  <2>1. x \in EventType
    BY DEF TypeOK, QueueType
  <2>2. Due(x)
    BY <1>2, <1>3, <1>5, <2>1, ChildDue DEF Groundwork
  <2>3. QED
    BY <1>3, <2>2, DueFrame
<1>6. QED
  BY <1>2, <1>4, <1>5 DEF Leaves

LEMMA StepGates ==
  ASSUME Groundwork, GatesClose, NEW e \in queue, Handles(e)
  PROVE  GatesClose'
<1> SUFFICES ASSUME NEW q \in Rounds, ~gate'[q].resolved
             PROVE  \E x \in queue' : x.kind = "gate" /\ x.round = q
  BY DEF GatesClose
<1>1. TypeOK /\ Agenda /\ MemInv /\ RuntimeTypes
  BY DEF Groundwork
<1>2. CASE ~gate[q].resolved /\ ~(e.kind = "gate" /\ e.round = q)
  <2>1. PICK x \in queue : x.kind = "gate" /\ x.round = q
    BY <1>2 DEF GatesClose
  <2>2. PICK N : Leaves(e, N)
    BY <1>1, StepBegets DEF Handles, Begets
  <2>3. QED
    BY <1>2, <2>1, <2>2 DEF Leaves
<1>3. CASE StartRound(e) /\ q = e.round
  <2>1. PICK evs \in Seq(Children(e)) : Return(e, evs) /\ Len(evs) = 5 /\ evs[1].kind = "gate"
    BY <1>1, <1>3, StartBegets
  <2>2. evs \in Seq(EventType) /\ nextSeq \in Nat
    BY <1>1, WiderSeq DEF Children, TypeOK, QueueType
  <2>3. PICK x \in Stamp(evs, nextSeq) : x.kind = evs[1].kind /\ x.round = evs[1].round
    <3>1. 1 \in 1 .. Len(evs)
      BY <2>1
    <3>2. QED
      BY <2>2, <3>1, Stamped
  <2>4. evs[1] \in Children(e)
    <3>1. 1 \in 1 .. Len(evs)
      BY <2>1
    <3>2. QED
      BY <3>1, ElementOfSeq
  <2>5. x.round = e.round
    BY <2>3, <2>4 DEF Children, Child
  <2>6. QED
    BY <1>3, <2>1, <2>3, <2>5 DEF Return
<1>4. QED
  BY <1>1, <1>2, <1>3, GateMoves DEF Handles

LEMMA NextSchedule ==
  ASSUME Groundwork, TypeOK', Schedule, [Next]_vars
  PROVE  Schedule'
<1>1. ASSUME NEW e \in queue, Handles(e) PROVE Schedule'
  BY <1>1, StepDue, StepGates, StepStarted DEF Schedule
<1>2. CASE Step
  BY <1>1, <1>2 DEF Step, Handles
<1>3. CASE Finish \/ UNCHANGED vars
  <2>1. UNCHANGED <<queue, gate, started, now>> /\ config' = config
    BY <1>3 DEF Finish, vars, schedulerVars, deviceVars
  <2>2. AllDue'
    BY <2>1, DueFrame DEF Schedule, AllDue
  <2>3. QED
    BY <2>1, <2>2 DEF Schedule, GatesClose, StartedInTime
<1>4. QED
  BY <1>2, <1>3 DEF Next, Over

LEMMA InitSchedule == ASSUME Init PROVE Schedule
<1>1. AllDue
  BY InitialEvents DEF AllDue, Due, IsLoad
<1>2. GatesClose /\ StartedInTime
  BY DEF Init, GatesClose, StartedInTime
<1>3. QED
  BY <1>1, <1>2 DEF Schedule

LEMMA SessionSchedule == Spec => []Schedule
<1>1. Init => Schedule
  BY InitSchedule
<1>2. Groundwork /\ TypeOK' /\ Schedule /\ [Next]_vars => Schedule'
  BY NextSchedule
<1>3. QED
  BY <1>1, <1>2, SessionTypes, SessionGroundwork, PTL DEF Spec

-----------------------------------------------------------------------------
(* The qubits in the slots: a round finds none from a round before it. *)

\* What m stores, if it stores anything, is for round r or a later one.
NotEarlier(m, r) == mem[m].holds = None \/ mem[m].holds >= r

\* A slot holds the qubit of a round that has started, while it is stored or
\* taken out.
Occupied ==
  \A m \in Holders :
    /\ mem[m].holds # None <=> mem[m].state \in {"stored", "retrieving"}
    /\ mem[m].holds # None => started[mem[m].holds]

\* The photon is sent when v0's memory is free, and the prover's memory is
\* loaded once; nothing of an earlier round is stored afterwards.
Owned ==
  \A r \in Rounds :
    /\ (\E x \in queue : x.round = r /\ (x.kind \in PhotonKinds \/ IsLoad(x)))
         => NotEarlier("v0", r)
    /\ round[r].valid => \A m \in Holders : NotEarlier(m, r)

Custody == Occupied /\ Owned /\ RetrievesItsOwnQubit

\* Which round's qubit a slot may hold after a step.
LEMMA HoldsMoves ==
  ASSUME NEW e, NEW m, NEW s, NEW n, SlotMoves(e, m, s, n)
  PROVE  \/ n.holds = None \/ n.holds = s.holds
         \/ e.kind = "load" /\ e.who = m /\ n.holds = e.round
BY DEF SlotMoves, Fills, Stores, Fails, Measures, Expires, Empties

\* The rounds that have started when a load or an input is due in time.
LEMMA StartedByThen ==
  ASSUME Groundwork, Schedule, NEW e \in queue, e.kind \in {"load", "basis"},
         QubitsInTime(config), NEW q \in Rounds, started[q]
  PROVE  q <= e.round
<1> DEFINE r == e.round
           t == RoundStartAt(config, r + 1)
           s == RoundStartAt(config, q)
           w == e.when
<1>1. /\ TypeOK /\ r \in Rounds /\ r \in Nat /\ q \in Nat /\ w \in Int /\ config \in Configs
      /\ TimingConfig(config) /\ now \in Int
  BY TypesOfEvent, RoundIsNat, ConfigTypes DEF Groundwork, TypeOK, QueueType
<1>2. r + 1 \in Nat
  BY <1>1
<1>3. t \in Nat /\ s \in Nat
  BY <1>1, <1>2, NextRoundStart
<1>4. w <= t - 1
  <2>1. t - 1 \in Int /\ TriesBy(config, r, t - 1)
    BY <1>1, <1>3 DEF QubitsInTime
  <2>2. QED
    BY <1>1, <2>1, LoadDue DEF Schedule, AllDue
<1>5. s <= now /\ now <= w
  BY DEF Schedule, StartedInTime, Groundwork, HeapOrder
<1>6. r < q => t <= s
  BY <1>1, StartsInOrder
<1> HIDE DEF t, s, w, r
<1>7. ~(r < q)
  BY <1>1, <1>3, <1>4, <1>5, <1>6
<1>8. q <= r
  BY <1>1, <1>7
<1>9. QED
  BY <1>8 DEF r

LEMMA StepOccupied ==
  ASSUME Groundwork, Occupied, NEW e \in queue, Handles(e)
  PROVE  Occupied'
<1> SUFFICES ASSUME NEW m \in Holders
             PROVE  /\ mem'[m].holds # None <=> mem'[m].state \in {"stored", "retrieving"}
                    /\ mem'[m].holds # None => started'[mem'[m].holds]
  BY DEF Occupied
<1> DEFINE s == mem[m]
           n == mem'[m]
<1>1. TypeOK /\ MemInv /\ Agenda /\ e.round \in Rounds
  BY TypesOfEvent DEF Groundwork
<1>2. /\ s.holds # None <=> s.state \in {"stored", "retrieving"}
      /\ s.holds # None => started[s.holds]
      /\ s.holds \in Rounds \union {None}
      /\ s.state \in {"empty", "loading", "stored", "retrieving", "expired"}
  BY <1>1, SlotTypes DEF Occupied, SlotType, Opt
<1>3. SlotMoves(e, m, s, n)
  BY <1>1, StepSlots DEF Handles
<1>4. s.holds # None => started'[s.holds]
  BY <1>1, <1>2, StartedMoves
<1>5. e.kind = "load" => started'[e.round] /\ e.round # None
  <2>1. e.round # None
    BY <1>1, SessionAssumption DEF Rounds
  <2>2. e.kind = "load" => started[e.round]
    BY <1>1 DEF Agenda, StartsAreAhead
  <2>3. QED
    BY <1>1, <2>1, <2>2, StartedMoves
<1> HIDE DEF s, n
<1>6. n.holds # None <=> n.state \in {"stored", "retrieving"}
  BY <1>2, <1>3, <1>5 DEF SlotMoves, Fills, Stores, Fails, Measures, Expires, Empties
<1>7. n.holds # None => started'[n.holds]
  BY <1>3, <1>4, <1>5, HoldsMoves
<1>8. QED
  BY <1>6, <1>7 DEF n

\* Once nothing earlier than a started round is stored, nothing earlier will be.
LEMMA StaysNotEarlier ==
  ASSUME Groundwork, Schedule, QubitsInTime(config), NEW e \in queue, Handles(e),
         NEW m \in Holders, NEW r \in Rounds, started[r], NotEarlier(m, r)
  PROVE  NotEarlier(m, r)'
<1>1. TypeOK /\ MemInv
  BY DEF Groundwork
<1>2. \/ mem'[m].holds = None \/ mem'[m].holds = mem[m].holds
      \/ e.kind = "load" /\ e.who = m /\ mem'[m].holds = e.round
  BY <1>1, StepSlots, HoldsMoves DEF Handles
<1>3. CASE e.kind = "load" /\ mem'[m].holds = e.round
  <2>1. r <= e.round
    BY <1>3, StartedByThen
  <2>2. e.round >= r
    BY <1>1, <2>1, TypesOfEvent, RoundIsNat
  <2>3. QED
    BY <1>3, <2>2 DEF NotEarlier
<1>4. QED
  BY <1>2, <1>3 DEF NotEarlier

LEMMA StepOwned ==
  ASSUME Groundwork, Groundwork', Schedule, Occupied, Owned, QubitsInTime(config),
         NEW e \in queue, Handles(e)
  PROVE  Owned'
<1>1. TypeOK /\ Agenda /\ MemInv /\ RuntimeTypes /\ e.round \in Rounds
  BY TypesOfEvent DEF Groundwork
<1>2. PICK N : Leaves(e, N) /\ \A y \in N : Child(e, y)
  BY <1>1, StepBegets DEF Begets, Handles
<1>3. "v0" \in Holders
  BY DEF Holders
<1>4. ASSUME NEW r \in Rounds, NEW x \in queue', x.round = r, x.kind \in PhotonKinds \/ IsLoad(x)
      PROVE  NotEarlier("v0", r)'
  <2>1. ASSUME NEW y \in queue, y.round = r, y.kind \in PhotonKinds \/ IsLoad(y)
        PROVE  NotEarlier("v0", r)'
    <3>1. started[r]
      BY <1>1, <2>1 DEF Agenda, StartsAreAhead, PhotonKinds, IsLoad
    <3>2. NotEarlier("v0", r)
      BY <2>1 DEF Owned
    <3>3. QED
      BY <1>3, <3>1, <3>2, StaysNotEarlier
  <2>2. CASE x \in N
    <3>1. Child(e, x) /\ e.round = r
      BY <1>2, <1>4, <2>2 DEF Child
    <3>2. CASE e.kind = "epr" /\ mem["v0"].state = "empty"
      <4>1. mem["v0"].holds = None
        BY <1>3, <3>2 DEF Occupied
      <4>2. mem'["v0"].holds = None \/ mem'["v0"].holds = mem["v0"].holds
        BY <1>1, <1>3, <3>2, StepSlots, HoldsMoves DEF Handles
      <4>3. QED
        BY <4>1, <4>2 DEF NotEarlier
    <3>3. CASE e.kind \in PhotonKinds
      BY <2>1, <3>1, <3>3
    <3>4. e.kind \in PhotonKinds \/ (e.kind = "epr" /\ mem["v0"].state = "empty")
      <4>1. x.kind \in {"challenge", "intercept", "replacement", "photon", "qnd", "load"}
        BY <1>4 DEF PhotonKinds, IsLoad
      <4>2. x.kind = "load" => x.who # "v0"
        BY <1>4 DEF PhotonKinds, IsLoad
      <4>3. QED
        BY <3>1, <4>1, <4>2 DEF Child, DeskKinds, PhotonKinds
    <3>5. QED
      BY <3>2, <3>3, <3>4
  <2>3. CASE x \in queue
    BY <1>4, <2>1, <2>3
  <2>4. QED
    BY <1>2, <2>2, <2>3 DEF Leaves
<1>5. ASSUME NEW r \in Rounds, round'[r].valid, NEW m \in Holders
      PROVE  NotEarlier(m, r)'
  <2>1. CASE round[r].valid
    <3>1. started[r]
      BY <2>1 DEF Groundwork, Truths, Truth, Detected, Unresolved
    <3>2. NotEarlier(m, r)
      BY <2>1 DEF Owned
    <3>3. QED
      BY <3>1, <3>2, StaysNotEarlier
  <2>2. CASE r = e.round /\ IsLoad(e)
    <3>1. started[r]
      BY <1>1, <2>2 DEF Agenda, StartsAreAhead, IsLoad
    <3>2. CASE m = "v0"
      <4>1. NotEarlier("v0", r)
        BY <2>2 DEF Owned
      <4>2. QED
        BY <1>3, <3>1, <3>2, <4>1, StaysNotEarlier
    <3>3. CASE m = "prover"
      <4>1. mem[m].state = "loading"
        BY <1>1, <2>2, <3>3, SlotInUse DEF IsLoad
      <4>2. mem[m].holds = None
        BY <4>1 DEF Occupied
      <4>3. QED
        BY <3>1, <4>2, StaysNotEarlier DEF NotEarlier
    <3>4. QED
      BY <3>2, <3>3 DEF Holders
  <2>3. QED
    BY <1>1, <1>5, <2>1, <2>2, ValidMoves DEF Handles
<1>6. QED
  BY <1>4, <1>5 DEF Owned

LEMMA StepRetrieves ==
  ASSUME Groundwork, Groundwork', Schedule, Occupied, Occupied', Owned', QubitsInTime(config),
         RetrievesItsOwnQubit, NEW e \in queue, Handles(e)
  PROVE  RetrievesItsOwnQubit'
<1> SUFFICES ASSUME NEW x \in queue', x.kind = "retrieve"
             PROVE  mem'[x.who].state = "retrieving" /\ mem'[x.who].holds = x.round
  BY DEF RetrievesItsOwnQubit
<1>1. /\ TypeOK /\ Agenda /\ MemInv /\ RuntimeTypes /\ e.round \in Rounds /\ TypeOK' /\ MemInv'
  BY TypesOfEvent DEF Groundwork
<1> DEFINE m == x.who
<1>2. m \in Holders
  <2>1. x \in EventType
    BY <1>1 DEF TypeOK, QueueType
  <2>2. QED
    BY <2>1 DEF EventType, ActorsOf
<1>3. mem'[m].state = "retrieving"
  <2>1. SlotInv(m, mem[m], MemoryEvents(queue, m))'
    BY <1>1, <1>2 DEF MemInv
  <2>2. x \in MemoryEvents(queue, m)'
    BY DEF MemoryEvents, MemoryKinds
  <2>3. QED
    BY <2>1, <2>2 DEF SlotInv, CompletionsInUse
<1>4. PICK N : Leaves(e, N) /\ \A y \in N : Child(e, y)
  BY <1>1, StepBegets DEF Begets, Handles
<1>5. CASE x \in queue
  <2>1. mem[m].state = "retrieving" /\ mem[m].holds = x.round
    BY <1>5 DEF RetrievesItsOwnQubit
  <2>2. SlotMoves(e, m, mem[m], mem'[m])
    BY <1>1, <1>2, StepSlots DEF Handles
  <2>3. mem'[m] = mem[m]
    BY <1>3, <2>1, <2>2 DEF SlotMoves, Fills, Stores, Fails, Measures, Expires, Empties
  <2>4. QED
    BY <2>1, <2>3
<1>6. CASE x \in N
  <2>1. Child(e, x)
    BY <1>4, <1>6
  <2>2. e.kind \in {"load", "basis"} /\ Takes(e, m) /\ x.round = e.round
    BY <2>1 DEF Child, DeskKinds, PhotonKinds
  <2>3. CASE mem[m].state = "stored" /\ mem'[m].holds = mem[m].holds
    <3> DEFINE q == mem[m].holds
    <3>1. q # None /\ started[q]
      BY <1>2, <2>3 DEF Occupied
    <3>2. q \in Rounds
      BY <1>1, <1>2, <3>1, SlotTypes DEF SlotType, Opt
    <3>3. q <= e.round
      BY <2>2, <3>1, <3>2, StartedByThen
    <3>4. q >= e.round
      <4>1. NotEarlier(m, e.round)'
        BY <1>1, <1>2, <2>2 DEF Takes, Owned
      <4>2. QED
        BY <2>3, <3>1, <4>1 DEF NotEarlier
    <3>5. q \in Nat /\ e.round \in Nat
      BY <1>1, <3>2, RoundIsNat
    <3> HIDE DEF q
    <3>6. q = e.round
      BY <3>3, <3>4, <3>5
    <3>7. QED
      BY <1>3, <2>2, <2>3, <3>6 DEF q
  <2>4. QED
    BY <1>3, <2>2, <2>3 DEF Takes
<1>7. QED
  BY <1>4, <1>5, <1>6 DEF Leaves

LEMMA NextCustody ==
  ASSUME \A c \in Configs : QubitsInTime(c), Groundwork, Groundwork', Schedule, Custody,
         [Next]_vars
  PROVE  Custody'
<1>1. QubitsInTime(config)
  BY DEF Groundwork, TypeOK
<1>2. ASSUME NEW e \in queue, Handles(e) PROVE Custody'
  <2>1. Occupied'
    BY <1>2, StepOccupied DEF Custody
  <2>2. Owned'
    BY <1>1, <1>2, StepOwned DEF Custody
  <2>3. RetrievesItsOwnQubit'
    BY <1>1, <1>2, <2>1, <2>2, StepRetrieves DEF Custody
  <2>4. QED
    BY <2>1, <2>2, <2>3 DEF Custody
<1>3. CASE Step
  BY <1>2, <1>3 DEF Step, Handles
<1>4. CASE Finish \/ UNCHANGED vars
  <2>1. UNCHANGED <<queue, mem, round, started>>
    BY <1>4 DEF Finish, vars, schedulerVars, deviceVars
  <2>2. QED
    BY <2>1 DEF Custody, Occupied, Owned, RetrievesItsOwnQubit, NotEarlier
<1>5. QED
  BY <1>3, <1>4 DEF Next, Over

LEMMA InitCustody == ASSUME Init PROVE Custody
<1>1. \A x \in queue : x.kind = "start"
  BY InitialEvents
<1>2. mem = [m \in Holders |-> EmptySlot] /\ round = [r \in Rounds |-> FreshRound]
  BY DEF Init
<1>3. Occupied
  BY <1>2 DEF Occupied, EmptySlot
<1>4. Owned /\ RetrievesItsOwnQubit
  BY <1>1, <1>2 DEF Owned, RetrievesItsOwnQubit, PhotonKinds, IsLoad, FreshRound
<1>5. QED
  BY <1>3, <1>4 DEF Custody

LEMMA SessionCustody ==
  ASSUME \A c \in Configs : QubitsInTime(c)
  PROVE  Spec => []Custody
<1>1. Init => Custody
  BY InitCustody
<1>2. Groundwork /\ Groundwork' /\ Schedule /\ Custody /\ [Next]_vars => Custody'
  BY NextCustody
<1>3. QED
  BY <1>1, <1>2, SessionGroundwork, SessionSchedule, PTL DEF Spec

\* A retrieval that is due finds the qubit it was scheduled for, whatever is
\* lost, jammed or tampered with, when what may begin the measurement of a
\* round has happened before the next one starts (_try_measure,
\* TimedQuantumMemory._on_retrieve_complete).
THEOREM RetrievalsFindTheirQubit ==
  ASSUME \A c \in Configs : QubitsInTime(c)
  PROVE  Spec => []RetrievesItsOwnQubit
<1>1. Custody => RetrievesItsOwnQubit
  BY DEF Custody
<1>2. QED
  BY <1>1, SessionCustody, PTL

-----------------------------------------------------------------------------
(* Configurations whose devices are idle between rounds. *)

WorkTime(c, m) == c.retrieve[m] + c.switch[m] + c.measure[m]

\* The source is ready for every round; no qubit expires within a round; inputs
\* are not sent before their round starts; memories are loaded before the round
\* times out; and whatever is measured has been measured, and the meter has
\* rested, before the next round starts.
RoundsFit(c) ==
  /\ Geometric(c)
  /\ c.epr + c.rest <= RoundPeriod(c)
  /\ \A m \in Holders : c.hold[m] = None \/ c.hold[m] >= RoundPeriod(c)
  /\ \A r \in Rounds :
       /\ \A v \in Verifiers : SendAt(c, r, v) >= RoundStartAt(c, r)
       /\ RoundStartAt(c, r) + c.epr + c.load["v0"] < RoundTimeoutAt(c, r)
       /\ GateClosesAt(c, r) + c.load["prover"] < RoundTimeoutAt(c, r)
       /\ \A m \in Holders :
            TriesBy(c, r, RoundStartAt(c, r + 1) - 1 - WorkTime(c, m) - c.dead[m])

DeviceKinds == {"epr", "gate", "load", "retrieve", "measured"}

LEMMA TriesLater ==
  ASSUME config \in Configs, NEW r \in Rounds, NEW t \in Int, NEW u \in Int, t <= u,
         TriesBy(config, r, t)
  PROVE  TriesBy(config, r, u)
<1> DEFINE a == RoundStartAt(config, r) + config.epr + config.load["v0"]
           b == GateClosesAt(config, r) + config.load["prover"]
<1>1. a \in Int /\ b \in Int
  <2>1. config.epr \in Nat /\ config.load["v0"] \in Nat /\ config.load["prover"] \in Nat
    BY ConfigTypes DEF Holders
  <2>2. RoundStartAt(config, r) \in Nat /\ GateClosesAt(config, r) \in Int
    BY DeviceTimes
  <2>3. QED
    BY <2>1, <2>2
<1>2. a <= t /\ b <= t
  BY DEF TriesBy
<1> HIDE DEF a, b
<1>3. a <= u /\ b <= u
  BY <1>1, <1>2
<1>4. ASSUME NEW v \in Verifiers, NEW out \in config.tamper["basis"], NEW i \in DOMAIN out
      PROVE  SendAt(config, r, v) + InputTravel(config, v, out[i]) <= u
  <2> DEFINE s == SendAt(config, r, v)
             p == ClassicalDelay(config, v, "prover")
             k == config.sender[v]["prover"]
             o == out[i]
  <2>1. s \in Int /\ p \in Nat /\ k \in Nat
    BY DeviceTimes, ConfigTypes, MessageDelays
  <2>2. o \in Nat
    <3>1. out \in Seq(Nat)
      BY <1>4, ConfigTypes DEF MessageKinds
    <3>2. QED
      BY <3>1, LenProperties, ElementOfSeq
  <2>3. s + (p + k + o) <= t
    BY <1>4 DEF TriesBy, InputTravel
  <2> HIDE DEF s, p, k, o
  <2>4. s + (p + k + o) <= u
    BY <2>1, <2>2, <2>3
  <2>5. QED
    BY <2>4 DEF InputTravel, s, p, k, o
<1>5. QED
  BY <1>3, <1>4 DEF TriesBy, a, b

\* The last moment a round has for starting its measurement.
LEMMA LastTries ==
  ASSUME config \in Configs, RoundsFit(config), NEW r \in Rounds, NEW m \in Holders
  PROVE  \E t \in Int : /\ TriesBy(config, r, t)
                        /\ t + WorkTime(config, m) + config.dead[m] < RoundStartAt(config, r + 1)
                        /\ WorkTime(config, m) \in Nat /\ config.dead[m] \in Nat
                        /\ RoundStartAt(config, r + 1) \in Nat
<1> DEFINE n == RoundStartAt(config, r + 1)
           w == WorkTime(config, m)
           d == config.dead[m]
<1>1. r \in Nat /\ TimingConfig(config)
  BY RoundIsNat, ConfigTypes
<1>2. n \in Nat
  <2>1. r + 1 \in Nat
    BY <1>1
  <2>2. QED
    BY <1>1, <2>1, NextRoundStart
<1>3. w \in Nat /\ d \in Nat
  <2>1. /\ config.retrieve[m] \in Nat /\ config.switch[m] \in Nat /\ config.measure[m] \in Nat
        /\ config.dead[m] \in Nat
    BY ConfigTypes
  <2>2. QED
    BY <2>1 DEF WorkTime
<1>4. TriesBy(config, r, n - 1 - w - d)
  BY DEF RoundsFit
<1> HIDE DEF n, w, d
<1>5. n - 1 - w - d \in Int /\ (n - 1 - w - d) + w + d < n
  BY <1>2, <1>3
<1>6. QED
  BY <1>2, <1>3, <1>4, <1>5 DEF n, w, d

LEMMA FitIsInTime == ASSUME config \in Configs, RoundsFit(config) PROVE QubitsInTime(config)
<1> SUFFICES ASSUME NEW r \in Rounds PROVE TriesBy(config, r, RoundStartAt(config, r + 1) - 1)
  BY DEF QubitsInTime
<1> DEFINE n == RoundStartAt(config, r + 1)
           w == WorkTime(config, "v0")
           d == config.dead["v0"]
<1>1. PICK t \in Int : /\ TriesBy(config, r, t) /\ t + w + d < n /\ w \in Nat /\ d \in Nat
                       /\ n \in Nat
  BY LastTries DEF Holders
<1> HIDE DEF n, w, d
<1>2. n - 1 \in Int /\ t <= n - 1
  BY <1>1
<1>3. TriesBy(config, r, n - 1)
  BY <1>1, <1>2, TriesLater
<1>4. QED
  BY <1>3 DEF n

\* What the devices do for a round is over before the next one starts.
LEMMA EndsInRound ==
  ASSUME Groundwork, Schedule, RoundsFit(config), NEW x \in queue, x.kind \in DeviceKinds
  PROVE  /\ x.when < RoundStartAt(config, x.round + 1)
         /\ x.kind = "measured" => x.when + config.dead[x.who] < RoundStartAt(config, x.round + 1)
<1> DEFINE r == x.round
           w == x.when
           n == RoundStartAt(config, r + 1)
<1>1. /\ TypeOK /\ r \in Rounds /\ w \in Int /\ config \in Configs /\ Due(x)
      /\ "v0" \in Holders /\ "prover" \in Holders
  BY TypesOfEvent DEF Groundwork, TypeOK, Schedule, AllDue, Holders
<1>2. CASE x.kind \in {"epr", "gate"}
  <2> DEFINE s == RoundStartAt(config, r)
             c == GateClosesAt(config, r)
             p == config.epr
             l == config.load["v0"]
             k == config.load["prover"]
  <2>1. n \in Nat /\ TriesBy(config, r, n - 1)
    BY <1>1, LastTries, FitIsInTime DEF QubitsInTime
  <2>2. s + p + l <= n - 1 /\ c + k <= n - 1
    BY <2>1 DEF TriesBy
  <2>3. s \in Nat /\ c \in Int /\ p \in Nat /\ l \in Nat /\ k \in Nat
    BY <1>1, DeviceTimes, ConfigTypes
  <2>4. w <= s + p \/ w <= c
    BY <1>1, <1>2 DEF Due
  <2> HIDE DEF s, c, p, l, k, w, n
  <2>5. w < n
    BY <1>1, <2>1, <2>2, <2>3, <2>4
  <2>6. QED
    BY <1>2, <2>5 DEF w, n
<1>3. CASE x.kind = "load"
  <2>1. n \in Nat /\ TriesBy(config, r, n - 1)
    BY <1>1, LastTries, FitIsInTime DEF QubitsInTime
  <2>2. n - 1 \in Int
    BY <2>1
  <2>3. w <= n - 1
    BY <1>1, <1>3, <2>1, <2>2, LoadDue
  <2> HIDE DEF w, n
  <2>4. w < n
    BY <1>1, <2>1, <2>3
  <2>5. QED
    BY <1>3, <2>4 DEF w, n
<1>4. CASE x.kind \in {"retrieve", "measured"}
  <2> DEFINE m == x.who
             g == config.retrieve[m]
             h == config.switch[m]
             k == config.measure[m]
             d == config.dead[m]
  <2>1. m \in Holders
    BY <1>1, <1>4, ActorOfEvent
  <2>2. PICK t \in Int : /\ TriesBy(config, r, t) /\ t + WorkTime(config, m) + d < n
                         /\ n \in Nat
    BY <1>1, <2>1, LastTries
  <2>3. g \in Nat /\ h \in Nat /\ k \in Nat /\ d \in Nat
    BY <1>1, <2>1, ConfigTypes
  <2>4. t + (g + h + k) + d < n
    BY <2>2 DEF WorkTime
  <2>5. (x.kind = "retrieve" => w <= t + g) /\ (x.kind = "measured" => w <= t + g + h + k)
    BY <1>1, <2>2 DEF Due
  <2> HIDE DEF g, h, k, d, w, n
  <2>6. x.kind = "measured" => w + d < n
    BY <1>1, <2>2, <2>3, <2>4, <2>5
  <2>7. w < n
    BY <1>1, <1>4, <2>2, <2>3, <2>4, <2>5
  <2>8. QED
    BY <2>6, <2>7 DEF w, n, d
<1>5. QED
  BY <1>2, <1>3, <1>4 DEF DeviceKinds

\* The pair, the gate and the loads are over before the round times out.
LEMMA EndsBeforeTimeout ==
  ASSUME Groundwork, Schedule, RoundsFit(config), NEW x \in queue,
         x.kind \in {"epr", "gate", "load"}
  PROVE  x.when < RoundTimeoutAt(config, x.round)
<1> DEFINE r == x.round
           w == x.when
           n == RoundTimeoutAt(config, r)
           s == RoundStartAt(config, r)
           c == GateClosesAt(config, r)
           p == config.epr
           l == config.load["v0"]
           k == config.load["prover"]
<1>1. /\ TypeOK /\ r \in Rounds /\ w \in Int /\ config \in Configs /\ Due(x)
      /\ "v0" \in Holders /\ "prover" \in Holders
  BY TypesOfEvent DEF Groundwork, TypeOK, Schedule, AllDue, Holders
<1>2. s \in Nat /\ c \in Int /\ p \in Nat /\ l \in Nat /\ k \in Nat /\ n \in Int
  BY <1>1, DeviceTimes, ConfigTypes, RoundPlanTypes
<1>3. s + p + l < n /\ c + k < n
  BY <1>1 DEF RoundsFit
<1>4. w <= s + p \/ w <= c \/ w <= s + p + l \/ w <= c + k
  <2>1. x.kind = "load" => x.who = "v0" \/ x.who = "prover"
    BY <1>1, ActorOfEvent DEF Holders
  <2>2. QED
    BY <1>1, <2>1 DEF Due, IsLoad
<1> HIDE DEF s, c, p, l, k, w, n
<1>5. w < n
  BY <1>1, <1>2, <1>3, <1>4
<1>6. QED
  BY <1>5 DEF w, n

\* No round has started after the one whose devices are at work.
LEMMA StartedBefore ==
  ASSUME Groundwork, Schedule, RoundsFit(config), NEW x \in queue, x.kind \in DeviceKinds,
         NEW q \in Rounds, started[q]
  PROVE  q <= x.round
<1> DEFINE r == x.round
           w == x.when
           n == RoundStartAt(config, r + 1)
           s == RoundStartAt(config, q)
<1>1. /\ TypeOK /\ r \in Rounds /\ w \in Int /\ config \in Configs /\ now \in Int
      /\ q \in Nat /\ r \in Nat /\ TimingConfig(config)
  BY TypesOfEvent, RoundIsNat, ConfigTypes DEF Groundwork, TypeOK, QueueType
<1>2. s \in Nat /\ n \in Nat
  <2>1. r + 1 \in Nat
    BY <1>1
  <2>2. QED
    BY <1>1, <2>1, NextRoundStart
<1>3. s <= now /\ now <= w /\ w < n
  BY EndsInRound DEF Schedule, StartedInTime, Groundwork, HeapOrder
<1>4. r < q => n <= s
  BY <1>1, StartsInOrder
<1> HIDE DEF r, w, n, s
<1>5. q <= r
  BY <1>1, <1>2, <1>3, <1>4
<1>6. QED
  BY <1>5 DEF r

LEMMA SameRound ==
  ASSUME Groundwork, Schedule, RoundsFit(config), NEW x \in queue, x.kind \in DeviceKinds,
         NEW y \in queue, y.kind \in DeviceKinds
  PROVE  x.round = y.round
<1>1. started[x.round] /\ started[y.round]
  BY DEF Groundwork, Agenda, StartsAreAhead, DeviceKinds
<1>2. /\ x.round \in Rounds /\ y.round \in Rounds /\ x.round \in Nat /\ y.round \in Nat
  BY TypesOfEvent, RoundIsNat DEF Groundwork
<1>3. x.round <= y.round /\ y.round <= x.round
  BY <1>1, <1>2, StartedBefore
<1>4. QED
  BY <1>2, <1>3

\* When a round starts, no device is at work, and no later one has started.
LEMMA AloneAtStart ==
  ASSUME Groundwork, Schedule, RoundsFit(config), NEW e \in queue, IsFirst(e, queue),
         e.kind = "start"
  PROVE  /\ \A q \in Rounds : started[q] => q < e.round
         /\ \A x \in queue : x.kind \notin DeviceKinds
<1> DEFINE r == e.round
           s == RoundStartAt(config, r)
<1>1. /\ TypeOK /\ r \in Rounds /\ e.when \in Int /\ config \in Configs /\ now \in Int
      /\ r \in Nat /\ TimingConfig(config)
  BY TypesOfEvent, RoundIsNat, ConfigTypes DEF Groundwork, TypeOK, QueueType
<1>2. ~started[r] /\ e.when = s /\ now <= e.when
  BY DEF Groundwork, Agenda, StartsAreAhead, HeapOrder
<1>3. s \in Nat
  BY <1>1, NextRoundStart
<1>4. ASSUME NEW q \in Rounds, started[q] PROVE q < r
  <2> DEFINE v == RoundStartAt(config, q)
  <2>1. q \in Nat /\ v <= now
    BY <1>4, RoundIsNat DEF Schedule, StartedInTime
  <2>2. v \in Nat /\ (r < q => s < v) /\ q # r
    BY <1>1, <1>2, <1>4, <2>1, NextRoundStart, StartsInOrder
  <2> HIDE DEF v, s, r
  <2>3. QED
    BY <1>1, <1>2, <1>3, <2>1, <2>2
<1>5. ASSUME NEW x \in queue, x.kind \in DeviceKinds PROVE FALSE
  <2> DEFINE q == x.round
             n == RoundStartAt(config, q + 1)
  <2>1. started[q] /\ q \in Rounds /\ q \in Nat /\ x.when \in Int
    BY <1>1, <1>5, TypesOfEvent, RoundIsNat
       DEF Groundwork, Agenda, StartsAreAhead, DeviceKinds
  <2>2. q < r
    BY <1>4, <2>1
  <2>3. n <= s
    BY <1>1, <2>1, <2>2, StartsInOrder
  <2>4. x.when < n /\ e.when <= x.when
    BY <1>1, <1>5, EndsInRound, FirstIsEarliest
  <2>5. n \in Nat
    <3>1. q + 1 \in Nat
      BY <2>1
    <3>2. QED
      BY <1>1, <3>1, NextRoundStart
  <2> HIDE DEF n, s
  <2>6. QED
    BY <1>1, <1>2, <1>3, <2>1, <2>3, <2>4, <2>5
<1>6. QED
  BY <1>4, <1>5

-----------------------------------------------------------------------------
(* What the devices are about, round by round. *)

\* While the pair is made, nothing of its round is on the way or in store.
Undetected ==
  \A x \in queue :
    x.kind = "epr" =>
      /\ ~round[x.round].valid
      /\ \A y \in queue :
           y.round = x.round => /\ y.kind \notin PhotonKinds \union {"load"}
                                /\ y.kind = "epr" => y = x

\* v0's half is measured only once it has been loaded.
Unread == \A x \in queue : x.kind = "load" /\ x.who = "v0" => ~round[x.round].measuring

\* v0 has not reported; and it does so once it has measured, or at the timeout.
Silent(rd, E) ==
  /\ rd.seen["v0"].report = None /\ "v0" \notin rd.received
  /\ \A x \in E : ~ReportOfV(x, "v0")

Prompted ==
  \A r \in Rounds :
    \/ Silent(round[r], Pending(r)) \/ round[r].bit["v0"] # None
    \/ RoundTimeoutAt(config, r) <= now

\* No round is decided while its photon may still be detected or stored.
AtWork(r) == ~gate[r].resolved \/ \E x \in queue : x.round = r /\ x.kind \in {"epr", "load"}
Undecided == \A r \in Rounds : AtWork(r) => ~completed[r]

\* What is stored is of a round still open, and nothing is held too long.
Stock ==
  \A m \in Holders :
    /\ mem[m].state # "expired"
    /\ mem[m].state = "stored" =>
         ~completed[mem[m].holds] /\ mem[m].storedAt >= RoundStartAt(config, mem[m].holds)

\* Whatever is at work has its end pending.
EndsSoon(kind, m) == \E x \in queue : x.kind = kind /\ x.who = m
Attended ==
  /\ source.busy => \E x \in queue : x.kind = "epr"
  /\ \A m \in Holders :
       /\ mem[m].state = "loading" => EndsSoon("load", m)
       /\ mem[m].state = "retrieving" => EndsSoon("retrieve", m)
       /\ meter[m].busy => EndsSoon("measured", m)

\* The source and the meters have rested before the round after they worked.
Rested ==
  /\ \/ source.freeAt = 0
     \/ \E s \in Rounds : started[s] /\ source.freeAt <= RoundStartAt(config, s + 1)
  /\ \A m \in Holders :
       \/ meter[m].freeAt = 0
       \/ \E s \in Rounds : /\ started[s] /\ round[s].bit[m] # None
                            /\ meter[m].freeAt < RoundStartAt(config, s + 1)

\* There is room for the photons that are awaited.
Room ==
  /\ (\E x \in queue : x.kind = "epr") => mem["v0"].state = "empty"
  /\ \A r \in Rounds : ~gate[r].resolved => mem["prover"].state = "empty"

\* A round is measured only with v0's half in retrieval.
LEMMA OpMeasures ==
  ASSUME NEW e, NEW rd, NEW n, NEW N, NEW u, NEW u1, Op(e, rd, n, N, u, u1), n.measuring
  PROVE  rd.measuring \/ \E x \in N : x.kind = "retrieve" /\ x.who = "v0"
<1>1. CASE IdleOp(e, rd, n, N) \/ CommitOp(e, rd, n, N) \/ DetectOp(e, rd, n, N)
  BY <1>1 DEF IdleOp, CommitOp, DetectOp, CommittingEffect, DetectedEffect
<1>2. CASE TryOp(e, rd, n, N)
  <2>1. PICK rd1, mm, X, R : /\ rd1 = rd \/ ArrivalEffect(rd1, rd) \/ LoadEffect(rd1, rd, TRUE)
                             /\ TryEffect(n, rd1, mm) /\ N = X \union R
                             /\ RetrievalsLeft(R, e.when, e.round, rd1, mm)
    BY <1>2 DEF TryOp
  <2>2. rd1.measuring = rd.measuring
    BY <2>1 DEF ArrivalEffect, LoadEffect
  <2>3. rd.measuring \/ CanMeasure(rd1, mm)
    BY <2>1, <2>2 DEF TryEffect
  <2>4. CASE CanMeasure(rd1, mm)
    <3>1. PICK y \in RetrievesAt(e.when, "v0", e.round) : y \in R
      BY <2>1, <2>4 DEF RetrievalsLeft
    <3>2. y.kind = "retrieve" /\ y.who = "v0"
      BY <3>1 DEF RetrievesAt, EventsAt
    <3>3. QED
      BY <2>1, <3>1, <3>2
  <2>5. QED
    BY <2>3, <2>4
<1>3. CASE LoadFailsOp(e, rd, n, N) \/ RetrievedOp(e, rd, n, N) \/ AnswersOp(e, rd, n, N)
  BY <1>3 DEF LoadFailsOp, RetrievedOp, AnswersOp, LoadEffect, DwellEffect, BitEffect
<1>4. CASE V0Op(e, rd, n, N)
  BY <1>4 DEF V0Op, BitEffect, ReportEffect
<1>5. CASE SeesOp(e, rd, n, N)
  BY <1>5 DEF SeesOp, SeeingEffect, ReportEffect
<1>6. CASE ReceivedOp(e, rd, n, N)
  BY <1>6 DEF ReceivedOp, ReceivedEffect
<1>7. CASE ForcedOp(e, rd, n, N)
  BY <1>7 DEF ForcedOp, ReportEffect
<1>8. QED
  BY <1>1, <1>2, <1>3, <1>4, <1>5, <1>6, <1>7 DEF Op

\* What has been measured stays measured.
LEMMA OpBits ==
  ASSUME NEW e, NEW rd, NEW n, NEW N, NEW u, NEW u1, Op(e, rd, n, N, u, u1),
         NEW m \in Holders, rd.bit[m] # None
  PROVE  n.bit[m] # None
<1>1. CASE IdleOp(e, rd, n, N) \/ CommitOp(e, rd, n, N) \/ DetectOp(e, rd, n, N)
  BY <1>1 DEF IdleOp, CommitOp, DetectOp, CommittingEffect, DetectedEffect
<1>2. CASE TryOp(e, rd, n, N)
  <2>1. PICK rd1, mm : /\ rd1 = rd \/ ArrivalEffect(rd1, rd) \/ LoadEffect(rd1, rd, TRUE)
                       /\ TryEffect(n, rd1, mm)
    BY <1>2 DEF TryOp
  <2>2. QED
    BY <2>1 DEF TryEffect, ArrivalEffect, LoadEffect
<1>3. CASE LoadFailsOp(e, rd, n, N) \/ RetrievedOp(e, rd, n, N)
  BY <1>3 DEF LoadFailsOp, RetrievedOp, LoadEffect, DwellEffect
<1>4. ASSUME NEW k \in Holders, NEW bit \in Nat, NEW n1, BitEffect(n1, rd, k, bit)
      PROVE  n1.bit[m] # None
  <2>1. bit # None
    BY SessionAssumption
  <2>2. QED
    BY <1>4, <2>1 DEF BitEffect
<1>5. CASE AnswersOp(e, rd, n, N)
  BY <1>4, <1>5 DEF AnswersOp, Holders
<1>6. CASE V0Op(e, rd, n, N)
  BY <1>4, <1>6 DEF V0Op, ReportEffect, Holders
<1>7. CASE SeesOp(e, rd, n, N)
  BY <1>7 DEF SeesOp, SeeingEffect, ReportEffect
<1>8. CASE ReceivedOp(e, rd, n, N) \/ ForcedOp(e, rd, n, N)
  BY <1>8 DEF ReceivedOp, ReceivedEffect, ForcedOp, ReportEffect
<1>9. QED
  BY <1>1, <1>2, <1>3, <1>5, <1>6, <1>7, <1>8 DEF Op

\* v0 breaks its silence with a bit to report, or at the timeout.
LEMMA OpSilence ==
  ASSUME NEW e, NEW rd, NEW n, NEW N, NEW u, NEW u1, Op(e, rd, n, N, u, u1),
         NEW E, e \in E, Silent(rd, E)
  PROVE  Silent(n, (E \ {e}) \union N) \/ n.bit["v0"] # None \/ e.kind = "timeout"
<1> DEFINE quiet == \A x \in N : ~ReportOfV(x, "v0")
           same == n.seen["v0"].report = None /\ "v0" \notin n.received
<1>1. quiet /\ same => Silent(n, (E \ {e}) \union N)
  BY DEF Silent
<1>2. rd.seen["v0"].report = None /\ "v0" \notin rd.received /\ ~ReportOfV(e, "v0")
  BY DEF Silent
<1>3. \A X : Aside(X, e.round) => \A x \in X : ~ReportOfV(x, "v0")
  BY LeftAside DEF ReportOfV
<1>4. CASE IdleOp(e, rd, n, N) \/ CommitOp(e, rd, n, N)
  <2>1. quiet
    BY <1>3, <1>4 DEF IdleOp, CommitOp
  <2>2. same
    BY <1>2, <1>4 DEF IdleOp, CommitOp, CommittingEffect
  <2>3. QED
    BY <1>1, <2>1, <2>2
<1>5. CASE DetectOp(e, rd, n, N)
  <2>1. quiet
    BY <1>5, LeftReadings DEF DetectOp, ReportOfV
  <2>2. same
    BY <1>2, <1>5 DEF DetectOp, DetectedEffect
  <2>3. QED
    BY <1>1, <2>1, <2>2
<1>6. CASE TryOp(e, rd, n, N)
  <2>1. PICK rd1, mm, X, R : /\ rd1 = rd \/ ArrivalEffect(rd1, rd) \/ LoadEffect(rd1, rd, TRUE)
                             /\ TryEffect(n, rd1, mm) /\ N = X \union R /\ Aside(X, e.round)
                             /\ RetrievalsLeft(R, e.when, e.round, rd1, mm)
    BY <1>6 DEF TryOp
  <2>2. \A x \in R : ~ReportOfV(x, "v0")
    BY <2>1, LeftRetrievals DEF ReportOfV
  <2>3. quiet
    BY <1>3, <2>1, <2>2
  <2>4. same
    BY <1>2, <2>1 DEF TryEffect, ArrivalEffect, LoadEffect
  <2>5. QED
    BY <1>1, <2>3, <2>4
<1>7. CASE LoadFailsOp(e, rd, n, N)
  <2>1. quiet
    BY <1>3, <1>7 DEF LoadFailsOp
  <2>2. same
    BY <1>2, <1>7 DEF LoadFailsOp, LoadEffect
  <2>3. QED
    BY <1>1, <2>1, <2>2
<1>8. CASE RetrievedOp(e, rd, n, N)
  <2>1. quiet
    BY <1>8, LeftReadings DEF RetrievedOp, ReportOfV
  <2>2. same
    BY <1>2, <1>8 DEF RetrievedOp, DwellEffect
  <2>3. QED
    BY <1>1, <2>1, <2>2
<1>9. CASE AnswersOp(e, rd, n, N)
  <2>1. quiet
    BY <1>9, LeftAnswers DEF AnswersOp, ReportOfV
  <2>2. same
    BY <1>2, <1>9 DEF AnswersOp, BitEffect
  <2>3. QED
    BY <1>1, <2>1, <2>2
<1>10. ASSUME NEW n1, n1.seen["v0"].report = None, "v0" \notin n1.received,
              ReportEffect(n, n1, e.round, "v0", FALSE),
              ReportsLeft(N, e.when, "v0", e.round, Reports("v0", n1, FALSE))
       PROVE  Silent(n, (E \ {e}) \union N) \/ n.bit["v0"] # None
  <2>1. CASE Reports("v0", n1, FALSE)
    BY <1>10, <2>1 DEF Reports, Ready, ReportEffect
  <2>2. CASE ~Reports("v0", n1, FALSE)
    <3>1. quiet
      BY <1>10, <2>2 DEF ReportsLeft
    <3>2. same
      BY <1>10, <2>2 DEF ReportEffect
    <3>3. QED
      BY <1>1, <3>1, <3>2
  <2>3. QED
    BY <2>1, <2>2
<1>11. CASE V0Op(e, rd, n, N)
  <2>1. PICK bit \in Nat, n1 \in RoundType :
          /\ BitEffect(n1, rd, "v0", bit) /\ ReportEffect(n, n1, e.round, "v0", FALSE)
          /\ ReportsLeft(N, e.when, "v0", e.round, Reports("v0", n1, FALSE))
    BY <1>11 DEF V0Op
  <2>2. n1.seen["v0"].report = None /\ "v0" \notin n1.received
    BY <1>2, <2>1 DEF BitEffect
  <2>3. QED
    BY <1>10, <2>1, <2>2
<1>12. CASE SeesOp(e, rd, n, N)
  <2>1. PICK n1 \in RoundType :
          /\ SeeingEffect(n1, rd, e) /\ ReportEffect(n, n1, e.round, e.who, FALSE)
          /\ ReportsLeft(N, e.when, e.who, e.round, Reports(e.who, n1, FALSE))
    BY <1>12 DEF SeesOp
  <2>2. e.who \in Verifiers /\ "v0" \in Verifiers
    BY <1>12 DEF SeesOp, Verifiers
  <2>3. n1.seen["v0"].report = None /\ "v0" \notin n1.received
    BY <1>2, <2>1, <2>2 DEF SeeingEffect
  <2>4. CASE e.who = "v0"
    BY <1>10, <2>1, <2>3, <2>4
  <2>5. CASE e.who # "v0"
    <3>1. quiet
      BY <2>1, <2>5, LeftReports DEF ReportsLeft, ReportOfV
    <3>2. same
      BY <2>1, <2>2, <2>3, <2>5 DEF ReportEffect
    <3>3. QED
      BY <1>1, <3>1, <3>2
  <2>6. QED
    BY <2>4, <2>5
<1>13. CASE ReceivedOp(e, rd, n, N)
  <2>1. quiet
    BY <1>13 DEF ReceivedOp
  <2>2. same
    BY <1>2, <1>13 DEF ReceivedOp, ReceivedEffect, ReportOfV
  <2>3. QED
    BY <1>1, <2>1, <2>2
<1>14. CASE ForcedOp(e, rd, n, N)
  BY <1>14 DEF ForcedOp
<1>15. QED
  BY <1>4, <1>5, <1>6, <1>7, <1>8, <1>9, <1>11, <1>12, <1>13, <1>14 DEF Op

\* What the handlers do with the devices.
LEMMA HandlerOf ==
  ASSUME NEW e \in queue, Handles(e)
  PROVE  /\ e.kind = "epr" => PairReady(e) \/ PairReadyRaises(e) \/ PairFails(e)
         /\ e.kind = "qnd" => DetectionDone(e)
         /\ e.kind = "load" => LoadDone(e) \/ LoadFails(e)
         /\ e.kind = "basis" => BasisArrives(e)
         /\ e.kind = "expire" => Expire(e)
         /\ e.kind = "retrieve" => RetrieveDone(e)
         /\ e.kind = "measured" => ProverMeasured(e) \/ V0Measured(e)
         /\ e.kind = "timeout" => RoundTimesOut(e)
BY DEF Handles, DeviceStep, ProtocolStep, DecisionStep, PairReady, PairReadyRaises, PairFails,
   PhotonArrives, DetectionDone, GateCloses, LoadDone, LoadFails, Expire, RetrieveDone,
   ProverMeasured, V0Measured, StartRound, StartRoundRaises, SendChallenge, InterceptDone,
   SendReplacement, SendBasis, BasisArrives, VerifierReceives, RoundTimesOut, RejectPlan,
   ReportArrives, FinalTimesOut, Handle

\* A device that is done is free.
LEMMA EndsWork ==
  ASSUME TypeOK, MemInv, NEW e \in queue, Handles(e), status' \notin Errors
  PROVE  /\ e.kind = "epr" => ~source'.busy
         /\ e.kind = "load" => mem'[e.who].state # "loading"
         /\ e.kind = "retrieve" => mem'[e.who].state = "empty"
         /\ e.kind = "measured" => ~meter'[e.who].busy
<1>1. /\ mem \in [Holders -> SlotType] /\ meter \in [Holders -> [busy : BOOLEAN, freeAt : Int]]
  BY DEF TypeOK, DeviceType
<1>2. e.kind \in {"load", "retrieve", "measured"} => e.who \in Holders
  BY ActorOfEvent
<1>3. CASE e.kind = "epr"
  <2>1. PairReady(e) \/ PairFails(e)
    BY <1>3, HandlerOf DEF PairReadyRaises, Raise, Errors
  <2>2. source' = [busy |-> FALSE, freeAt |-> now' + config.rest]
    BY <2>1 DEF PairReady, PairFails, SourceDone
  <2>3. ~source'.busy
    BY <2>2
  <2>4. QED
    BY <1>3, <2>3
<1>4. CASE e.kind = "load"
  <2>1. CASE LoadDone(e)
    <3>1. SlotMoves(e, e.who, mem[e.who], mem'[e.who])
      BY <1>2, <1>4, <2>1, LoadSlots
    <3>2. mem' = Retrieving(LoadedRound(e), LoadedMem(e))
      BY <2>1 DEF LoadDone, LoadedRound, LoadedMem
    <3>3. LoadedMem(e) \in [Holders -> SlotType]
      BY <1>2, <1>4, MemoryTypes, TypesOfEvent, PhasesAndKinds DEF LoadedMem
    <3>4. LoadedMem(e)[e.who].state = "stored"
      BY <1>1, <1>2, <1>4 DEF LoadedMem, SlotType
    <3>5. QED
      BY <1>2, <1>4, <3>2, <3>3, <3>4, RetrievedSlot
  <2>2. CASE LoadFails(e)
    BY <1>1, <1>2, <1>4, <2>2 DEF LoadFails, SlotType
  <2>3. QED
    BY <1>4, <2>1, <2>2, HandlerOf
<1>5. CASE e.kind = "retrieve"
  <2>1. mem' = [mem EXCEPT ![e.who] = [EmptySlot EXCEPT !.gen = mem[e.who].gen + 1]]
    BY <1>5, HandlerOf DEF RetrieveDone, Raise, Errors
  <2>2. QED
    BY <1>1, <1>2, <1>5, <2>1 DEF EmptySlot
<1>6. CASE e.kind = "measured"
  <2>1. MeterDone(e)
    BY <1>6, HandlerOf DEF ProverMeasured, V0Measured
  <2>2. QED
    BY <1>1, <1>2, <1>6, <2>1 DEF MeterDone
<1>7. QED
  BY <1>3, <1>4, <1>5, <1>6

\* A retrieval that begins has its end scheduled.
LEMMA RetrievalEnds ==
  ASSUME TypeOK, MemInv, NEW e \in queue, LoadDone(e) \/ BasisArrives(e), NEW m \in Holders,
         mem'[m].state = "retrieving", mem[m].state # "retrieving"
  PROVE  EndsSoon("retrieve", m)'
<1>1. mem \in [Holders -> SlotType]
  BY DEF TypeOK, DeviceType
<1> DEFINE Ends(R) == \E x \in R : x.kind = "retrieve" /\ x.who = m
<1>2. ASSUME NEW R, NEW rd, NEW mm, RetrievalsLeft(R, e.when, e.round, rd, mm),
             CanMeasure(rd, mm)
      PROVE  Ends(R)
  <2>1. PICK x \in RetrievesAt(e.when, "prover", e.round), y \in RetrievesAt(e.when, "v0", e.round) :
          R = {x, y}
    BY <1>2 DEF RetrievalsLeft
  <2>2. x.kind = "retrieve" /\ y.kind = "retrieve" /\ x.who = "prover" /\ y.who = "v0"
    BY <2>1 DEF RetrievesAt, EventsAt
  <2>3. QED
    BY <2>1, <2>2 DEF Holders
<1>3. CASE LoadDone(e)
  <2>1. mem' = Retrieving(LoadedRound(e), LoadedMem(e)) /\ e.kind = "load"
    BY <1>3 DEF LoadDone, LoadedRound, LoadedMem, Handle
  <2>2. LoadedMem(e)[m].state # "retrieving"
    BY <1>1 DEF LoadedMem, SlotType
  <2>3. CanMeasure(LoadedRound(e), LoadedMem(e))
    BY <2>1, <2>2 DEF Retrieving
  <2>4. PICK X, R : \E N \in SUBSET QuietEvents(e.round, e.when) :
           /\ RetrievalsLeft(R, e.when, e.round, LoadedRound(e), LoadedMem(e))
           /\ Leaves(e, X \union N \union R)
    BY <1>3, LoadedLeaves
  <2>5. Ends(R) /\ R \subseteq queue'
    BY <1>2, <2>3, <2>4 DEF Leaves
  <2>6. QED
    BY <2>5 DEF EndsSoon
<1>4. CASE BasisArrives(e)
  <2> DEFINE rd == [round[e.round] EXCEPT !.arrival[e.who] = e.when]
  <2>1. mem' = Retrieving(rd, mem)
    BY <1>4 DEF BasisArrives
  <2>2. CanMeasure(rd, mem)
    BY <2>1 DEF Retrieving
  <2>3. PICK R : RetrievalsLeft(R, e.when, e.round, rd, mem) /\ Leaves(e, R)
    BY <1>4, BasisLeaves
  <2>4. Ends(R) /\ R \subseteq queue'
    BY <1>2, <2>2, <2>3 DEF Leaves
  <2>5. QED
    BY <2>4 DEF EndsSoon
<1>5. QED
  BY <1>3, <1>4

\* So has a load.
LEMMA LoadEnds ==
  ASSUME TypeOK, MemInv, NEW e \in queue, Handles(e), NEW m \in Holders,
         Fills(e, m, mem[m], mem'[m])
  PROVE  EndsSoon("load", m)'
<1>1. mem[m].state = "empty" /\ mem'[m].state = "loading" /\ m \in {"v0", "prover"}
  BY DEF Fills, Holders
<1>2. CASE m = "v0"
  <2>1. PairReady(e)
    BY <1>1, <1>2, HandlerOf DEF Fills, PairReadyRaises, PairFails, Raise, deviceVars
  <2>2. PICK x \in LoadsAt(e.when, "v0", e.round) : x \in queue'
    BY <2>1, PairLeaves DEF Leaves
  <2>3. x.kind = "load" /\ x.who = "v0"
    BY <2>2 DEF LoadsAt, EventsAt
  <2>4. QED
    BY <1>2, <2>2, <2>3 DEF EndsSoon
<1>3. CASE m = "prover"
  <2>1. DetectionDone(e)
    BY <1>3, HandlerOf DEF Fills
  <2>2. Return(e, <<LoadEvent(e.when, "prover", e.round)>>)
    BY <1>1, <2>1 DEF DetectionDone, Resolved, Passes, Commit, Raise, deviceVars
  <2>3. PICK x \in LoadsAt(e.when, "prover", e.round) : x \in queue'
    BY <2>2, LoadLeaves DEF Leaves
  <2>4. x.kind = "load" /\ x.who = "prover"
    BY <2>3 DEF LoadsAt, EventsAt
  <2>5. QED
    BY <1>3, <2>3, <2>4 DEF EndsSoon
<1>4. QED
  BY <1>1, <1>2, <1>3

\* And a measurement.
LEMMA ReadingEnds ==
  ASSUME TypeOK, NEW e \in queue, Handles(e), NEW m \in Holders, meter'[m].busy, ~meter[m].busy
  PROVE  EndsSoon("measured", m)'
<1>1. meter \in [Holders -> [busy : BOOLEAN, freeAt : Int]] /\ nextSeq \in Nat
  BY DEF TypeOK, DeviceType, QueueType
<1>2. CASE ProverMeasured(e) \/ V0Measured(e)
  <2>1. MeterDone(e)
    BY <1>2 DEF ProverMeasured, V0Measured
  <2>2. \A k \in Holders : meter'[k] = meter[k] \/ ~meter'[k].busy
    BY <1>1, <2>1 DEF MeterDone
  <2>3. QED
    BY <2>2
<1>3. CASE RetrieveDone(e)
  <2>1. /\ meter' = [meter EXCEPT ![e.who].busy = TRUE]
        /\ Return(e, <<Event(e.when + config.switch[e.who] + config.measure[e.who],
                             DeviceCompletion, "measured", e.round, e.who, 0)>>)
    BY <1>3 DEF RetrieveDone, Raise, deviceVars
  <2>2. m = e.who
    BY <1>1, <2>1
  <2>3. PICK x \in MeasuredAt(e.when, e.who, e.round) : x \in queue'
    <3> DEFINE w == e.when + config.switch[e.who] + config.measure[e.who]
               ev == Event(w, DeviceCompletion, "measured", e.round, e.who, 0)
    <3>1. MeasuredAt(e.when, e.who, e.round)
            = EventsAt({w}, DeviceCompletion, "measured", e.round, e.who, 0)
      BY DEF MeasuredAt
    <3>2. Return(e, <<ev>>)
      BY <2>1
    <3> HIDE DEF w
    <3>3. PICK x \in EventsAt({w}, DeviceCompletion, "measured", e.round, e.who, 0) :
            Stamp(<<ev>>, nextSeq) = {x}
      BY <1>1, StampOne
    <3> HIDE DEF ev
    <3>4. x \in queue'
      BY <3>2, <3>3 DEF Return
    <3>5. QED
      BY <3>1, <3>3, <3>4
  <2>4. x.kind = "measured" /\ x.who = m
    BY <2>2, <2>3 DEF MeasuredAt, EventsAt
  <2>5. QED
    BY <2>3, <2>4 DEF EndsSoon
<1>4. CASE ~(ProverMeasured(e) \/ V0Measured(e) \/ RetrieveDone(e))
  <2>1. UNCHANGED meter
    <3>1. CASE PhotonArrives(e) \/ DetectionDone(e) \/ GateCloses(e)
      BY <3>1 DEF PhotonArrives, DetectionDone, GateCloses, Resolved, Commit, Passes, Raise,
         deviceVars
    <3>2. CASE ~(PhotonArrives(e) \/ DetectionDone(e) \/ GateCloses(e))
      BY <1>4, <3>2 DEF Handles, DeviceStep, ProtocolStep, DecisionStep, PairReady,
         PairReadyRaises, PairFails, LoadDone, LoadFails, Expire,
         StartRound, StartRoundRaises, SendChallenge, InterceptDone, SendReplacement, SendBasis,
         BasisArrives, VerifierReceives, RoundTimesOut, RejectPlan, ReportArrives,
         FinalTimesOut, Raise, Passes, deviceVars
    <3>3. QED
      BY <3>1, <3>2
  <2>2. QED
    BY <2>1
<1>5. QED
  BY <1>2, <1>3, <1>4

LEMMA StepAttended ==
  ASSUME TypeOK, MemInv, MemInv', Agenda, RuntimeTypes, Attended, NEW e \in queue, Handles(e),
         status' \notin Errors
  PROVE  Attended'
<1>1. PICK N : Leaves(e, N)
  BY StepBegets DEF Begets, Handles
<1>2. \A x \in queue : x # e => x \in queue'
  BY <1>1 DEF Leaves
<1>3. ASSUME source'.busy PROVE \E x \in queue' : x.kind = "epr"
  <2>1. CASE StartRound(e)
    <3>1. PICK evs \in Seq(Children(e)) :
            Return(e, evs) /\ Len(evs) = 5 /\ evs[2].kind = "epr"
      BY <2>1, StartBegets
    <3>2. evs \in Seq(EventType) /\ nextSeq \in Nat /\ 2 \in 1 .. Len(evs)
      BY <3>1 DEF Children, TypeOK, QueueType
    <3>3. \E x \in Stamp(evs, nextSeq) : x.kind = evs[2].kind
      BY <3>2, Stamped
    <3>4. QED
      BY <3>1, <3>3 DEF Return
  <2>2. CASE ~StartRound(e)
    <3>1. e.kind # "epr"
      BY <1>3, EndsWork
    <3>2. UNCHANGED source
      <4>1. CASE PhotonArrives(e) \/ DetectionDone(e) \/ GateCloses(e)
        BY <4>1 DEF PhotonArrives, DetectionDone, GateCloses, Resolved, Commit, Passes, Raise,
           deviceVars
      <4>2. CASE ~(PhotonArrives(e) \/ DetectionDone(e) \/ GateCloses(e))
        BY <2>2, <3>1, <4>2 DEF Handles, DeviceStep, ProtocolStep, DecisionStep, PairReady,
           PairReadyRaises, PairFails, LoadDone, LoadFails, Expire, RetrieveDone,
           ProverMeasured, V0Measured,
           StartRoundRaises, SendChallenge, InterceptDone, SendReplacement, SendBasis,
           BasisArrives, VerifierReceives, RoundTimesOut, RejectPlan, ReportArrives,
           FinalTimesOut, Raise, Passes, Handle, deviceVars
      <4>3. QED
        BY <4>1, <4>2
    <3>3. QED
      BY <1>2, <1>3, <3>1, <3>2 DEF Attended
  <2>3. QED
    BY <2>1, <2>2
<1>4. ASSUME NEW m \in Holders, mem'[m].state = "loading" PROVE EndsSoon("load", m)'
  <2>1. mem[m].state = "loading" \/ Fills(e, m, mem[m], mem'[m])
    <3>1. SlotMoves(e, m, mem[m], mem'[m])
      BY StepSlots DEF Handles
    <3>2. QED
      BY <1>4, <3>1 DEF SlotMoves, Stores, Fails, Measures, Expires, Empties
  <2>2. CASE mem[m].state = "loading"
    <3>1. PICK x \in queue : x.kind = "load" /\ x.who = m
      BY <2>2 DEF Attended, EndsSoon
    <3>2. x # e
      BY <1>4, <3>1, EndsWork
    <3>3. QED
      BY <1>2, <3>1, <3>2 DEF EndsSoon
  <2>3. QED
    BY <2>1, <2>2, LoadEnds
<1>5. ASSUME NEW m \in Holders, mem'[m].state = "retrieving" PROVE EndsSoon("retrieve", m)'
  <2>1. CASE mem[m].state = "retrieving"
    <3>1. PICK x \in queue : x.kind = "retrieve" /\ x.who = m
      BY <2>1 DEF Attended, EndsSoon
    <3>2. x # e
      BY <1>5, <3>1, EndsWork
    <3>3. QED
      BY <1>2, <3>1, <3>2 DEF EndsSoon
  <2>2. CASE mem[m].state # "retrieving"
    <3>1. SlotMoves(e, m, mem[m], mem'[m])
      BY StepSlots DEF Handles
    <3>2. e.kind \in {"load", "basis"}
      BY <1>5, <2>2, <3>1 DEF SlotMoves, Fills, Stores, Fails, Measures, Expires, Empties
    <3>3. ~LoadFails(e)
      <4>1. LoadFails(e) => mem' = [mem EXCEPT ![e.who].state = "empty"]
        BY DEF LoadFails
      <4>2. mem \in [Holders -> SlotType]
        BY DEF TypeOK, DeviceType
      <4>3. mem' = [mem EXCEPT ![e.who].state = "empty"] => mem'[m].state # "retrieving"
        BY <2>2, <4>2 DEF SlotType
      <4>4. QED
        BY <1>5, <4>1, <4>3
    <3>4. QED
      BY <1>5, <2>2, <3>2, <3>3, HandlerOf, RetrievalEnds
  <2>3. QED
    BY <2>1, <2>2
<1>6. ASSUME NEW m \in Holders, meter'[m].busy PROVE EndsSoon("measured", m)'
  <2>1. CASE meter[m].busy
    <3>1. PICK x \in queue : x.kind = "measured" /\ x.who = m
      BY <2>1 DEF Attended, EndsSoon
    <3>2. x # e
      BY <1>6, <3>1, EndsWork
    <3>3. QED
      BY <1>2, <3>1, <3>2 DEF EndsSoon
  <2>2. QED
    BY <1>6, <2>1, ReadingEnds
<1>7. QED
  BY <1>3, <1>4, <1>5, <1>6 DEF Attended

\* The four places where a handler raises.
LEMMA RaisesWhere ==
  ASSUME NEW e \in queue, Handles(e), status' \in Errors
  PROVE  \/ PairReadyRaises(e) \/ StartRoundRaises(e)
         \/ e.kind = "qnd" /\ ~gate[e.round].resolved /\ mem["prover"].state # "empty"
         \/ e.kind = "retrieve" /\ MeterBusy(e.who, e.when)
<1>1. status = "running" /\ "running" \notin Errors
  BY StepIsFirst DEF Handles, Errors
<1>2. ASSUME NEW evs, Return(e, evs) PROVE FALSE
  BY <1>1, <1>2 DEF Return
<1>3. CASE PhotonArrives(e) \/ GateCloses(e)
  BY <1>2, <1>3 DEF PhotonArrives, GateCloses, Resolved, Commit, Passes
<1>4. CASE DetectionDone(e)
  BY <1>2, <1>4 DEF DetectionDone, Resolved, Commit, Passes, Handle
<1>5. CASE RetrieveDone(e)
  BY <1>2, <1>5 DEF RetrieveDone, Handle
<1>6. CASE PairReady(e) \/ PairFails(e) \/ LoadDone(e) \/ LoadFails(e) \/ Expire(e)
  BY <1>2, <1>6 DEF PairReady, PairFails, LoadDone, LoadFails, Expire
<1>7. CASE ProverMeasured(e) \/ V0Measured(e) \/ StartRound(e) \/ SendChallenge(e)
  BY <1>2, <1>7 DEF ProverMeasured, V0Measured, StartRound, SendChallenge, Passes
<1>8. CASE InterceptDone(e) \/ SendReplacement(e) \/ SendBasis(e) \/ BasisArrives(e)
  BY <1>2, <1>8 DEF InterceptDone, SendReplacement, SendBasis, BasisArrives, Passes
<1>9. CASE VerifierReceives(e) \/ RoundTimesOut(e)
  BY <1>2, <1>9 DEF VerifierReceives, RoundTimesOut, Passes
<1>10. CASE RejectPlan(e) \/ ReportArrives(e) \/ FinalTimesOut(e)
  BY <1>2, <1>10 DEF RejectPlan, ReportArrives, FinalTimesOut
<1>11. QED
  BY <1>3, <1>4, <1>5, <1>6, <1>7, <1>8, <1>9, <1>10
     DEF Handles, DeviceStep, ProtocolStep, DecisionStep

\* The hypotheses of this section, and its invariant.
Office == Groundwork /\ Books /\ Schedule /\ Occupied

Tidy ==
  /\ Undetected /\ Unread /\ Prompted /\ Undecided
  /\ Stock /\ Attended /\ Rested /\ Room

\* A round that starts finds both memories empty.
LEMMA CleanStart ==
  ASSUME AllGeometric, Office, Tidy, RoundsFit(config), NEW e \in queue, IsFirst(e, queue),
         e.kind = "start", status = "running", NEW m \in Holders
  PROVE  mem[m].state = "empty"
<1>1. TypeOK /\ Agenda /\ status \notin Errors /\ mem[m] \in SlotType
  BY SlotTypes DEF Office, Groundwork, Errors
<1>2. /\ \A q \in Rounds : started[q] => q < e.round
      /\ \A x \in queue : x.kind \notin {"epr", "gate", "load", "retrieve", "measured"}
  BY AloneAtStart DEF Office, DeviceKinds
<1>3. mem[m].state \notin {"loading", "retrieving", "expired"}
  BY <1>2 DEF Tidy, Attended, EndsSoon, Stock
<1>4. ASSUME mem[m].state = "stored" PROVE FALSE
  <2> DEFINE q == mem[m].holds
  <2>1. q # None /\ started[q] /\ ~completed[q]
    BY <1>4 DEF Office, Occupied, Tidy, Stock
  <2>2. q \in Rounds
    BY <1>1, <2>1 DEF SlotType, Opt
  <2>3. q < e.round
    BY <1>2, <2>1, <2>2
  <2>4. completed[q]
    BY <1>1, <2>2, <2>3, EarlierAreDecided
  <2>5. QED
    BY <2>1, <2>4
<1>5. QED
  BY <1>1, <1>3, <1>4 DEF SlotType

\* The source and the meters are free when their work begins.
LEMMA SourceFree ==
  ASSUME Office, Tidy, RoundsFit(config), NEW e \in queue, IsFirst(e, queue), e.kind = "start"
  PROVE  ~SourceBusy(e.when)
<1> DEFINE s0 == RoundStartAt(config, e.round)
<1>1. /\ TypeOK /\ e.when = s0 /\ e.round \in Rounds /\ e.round \in Nat /\ TimingConfig(config)
  BY TypesOfEvent, RoundIsNat, ConfigTypes
     DEF Office, Groundwork, Agenda, StartsAreAhead, TypeOK
<1>2. source.freeAt \in Int /\ s0 \in Nat
  BY <1>1, NextRoundStart DEF TypeOK, DeviceType
<1>3. /\ \A q \in Rounds : started[q] => q < e.round
      /\ \A x \in queue : x.kind # "epr"
  BY AloneAtStart DEF Office, DeviceKinds
<1>4. ~source.busy
  BY <1>3 DEF Tidy, Attended
<1>5. source.freeAt <= s0
  <2>1. CASE source.freeAt = 0
    <3>1. \A n \in Nat : 0 <= n
      OBVIOUS
    <3>2. QED
      BY <1>2, <2>1, <3>1
  <2>2. CASE source.freeAt # 0
    <3>1. PICK q \in Rounds : started[q] /\ source.freeAt <= RoundStartAt(config, q + 1)
      BY <2>2 DEF Tidy, Rested
    <3>2. q < e.round /\ q \in Nat /\ q + 1 \in Nat
      BY <1>3, <3>1, RoundIsNat
    <3> DEFINE n == RoundStartAt(config, q + 1)
    <3>3. n <= s0 /\ n \in Nat
      BY <1>1, <3>2, StartsInOrder, NextRoundStart
    <3>4. source.freeAt <= n
      BY <3>1
    <3> DEFINE f == source.freeAt
    <3> HIDE DEF n, s0, f
    <3>5. f <= s0
      BY <1>2, <3>3, <3>4 DEF f
    <3>6. QED
      BY <3>5 DEF f
  <2>3. QED
    BY <2>1, <2>2
<1>6. QED
  <2> DEFINE f == source.freeAt
             w == e.when
  <2>1. f \in Int /\ w \in Int /\ f <= w
    BY <1>1, <1>2, <1>5
  <2> HIDE DEF f, w
  <2>2. ~(w < f)
    BY <2>1
  <2>3. QED
    BY <1>4, <2>2 DEF SourceBusy, f, w

LEMMA MeterFree ==
  ASSUME Office, Tidy, RoundsFit(config), NEW e \in queue, e.kind = "retrieve"
  PROVE  ~MeterBusy(e.who, e.when)
<1> DEFINE m == e.who
           r == e.round
           w == e.when
           f == meter[m].freeAt
           s0 == RoundStartAt(config, r)
<1>1. /\ TypeOK /\ w \in Int /\ r \in Rounds /\ r \in Nat /\ TimingConfig(config)
      /\ m \in Holders /\ now \in Int
  BY TypesOfEvent, RoundIsNat, ConfigTypes, ActorOfEvent
     DEF Office, Groundwork, TypeOK, QueueType
<1>2. f \in Int /\ s0 \in Nat
  BY <1>1, NextRoundStart DEF TypeOK, DeviceType
<1>3. /\ round[r].bit[m] = None
      /\ \A x, y \in Pending(r) : Reading(x) /\ Reading(y) /\ x.who = y.who => x = y
      /\ e \in Pending(r)
  <2>1. e \in Pending(r) /\ Reading(e)
    BY DEF Pending, Reading
  <2>2. Measured(round[r], Pending(r))
    BY <1>1 DEF Office, Groundwork, Truths, Truth
  <2>3. QED
    BY <2>1, <2>2 DEF Measured
<1>4. ~meter[m].busy
  <2>1. ASSUME meter[m].busy PROVE FALSE
    <3>1. PICK y \in queue : y.kind = "measured" /\ y.who = m
      BY <1>1, <2>1 DEF Tidy, Attended, EndsSoon
    <3>2. y.round = r
      BY <3>1, SameRound DEF Office, DeviceKinds
    <3>3. y \in Pending(r) /\ Reading(y) /\ Reading(e) /\ y # e
      BY <3>1, <3>2 DEF Pending, Reading
    <3>4. QED
      BY <1>3, <3>1, <3>3
  <2>2. QED
    BY <2>1
<1>5. s0 <= now /\ now <= w
  BY <1>1 DEF Office, Groundwork, HeapOrder, Schedule, StartedInTime, Agenda, StartsAreAhead
<1>6. f <= s0
  <2>1. CASE f = 0
    <3>1. \A n \in Nat : 0 <= n
      OBVIOUS
    <3>2. QED
      BY <1>2, <2>1, <3>1
  <2>2. CASE f # 0
    <3>1. PICK q \in Rounds : /\ started[q] /\ round[q].bit[m] # None
                              /\ f < RoundStartAt(config, q + 1)
      BY <1>1, <2>2 DEF Tidy, Rested
    <3>2. q <= r /\ q # r /\ q \in Nat /\ q + 1 \in Nat
      BY <1>3, <3>1, StartedBefore, RoundIsNat DEF Office, DeviceKinds
    <3>3. q < r
      BY <1>1, <3>2
    <3> DEFINE n == RoundStartAt(config, q + 1)
    <3>4. n <= s0 /\ n \in Nat /\ f < n
      BY <1>1, <3>1, <3>2, <3>3, StartsInOrder, NextRoundStart
    <3> HIDE DEF n, s0, f
    <3>5. QED
      BY <1>2, <3>4
  <2>3. QED
    BY <2>1, <2>2
<1> HIDE DEF f, w, s0
<1>7. ~(w < f)
  BY <1>1, <1>2, <1>5, <1>6
<1>8. QED
  BY <1>4, <1>7 DEF MeterBusy, f, w

\* No handler raises.
LEMMA NoRaise ==
  ASSUME AllGeometric, Office, Tidy, RoundsFit(config), NEW e \in queue, Handles(e)
  PROVE  status' \notin Errors
<1>1. TypeOK /\ IsFirst(e, queue) /\ status = "running" /\ e.round \in Rounds
  BY StepIsFirst, TypesOfEvent DEF Handles, Office, Groundwork
<1>2. ~PairReadyRaises(e)
  BY DEF PairReadyRaises, Handle, Tidy, Room
<1>3. ~StartRoundRaises(e)
  <2>1. ASSUME StartRoundRaises(e) PROVE FALSE
    <3>1. e.kind = "start"
      BY <2>1 DEF StartRoundRaises, Handle
    <3>2. e.when = RoundStartAt(config, e.round)
      BY <3>1 DEF Office, Groundwork, Agenda, StartsAreAhead
    <3>3. ~SourceBusy(e.when)
      BY <1>1, <3>1, SourceFree
    <3>4. PICK v \in Verifiers : SkewedBasis(e.round, v) < e.when
      BY <2>1, <3>3 DEF StartRoundRaises
    <3> DEFINE b == SendAt(config, e.round, v)
               t == e.when
    <3>5. b >= t /\ b < t
      BY <1>1, <3>2, <3>4 DEF RoundsFit, SkewedBasis, SendAt
    <3>6. b \in Int /\ t \in Int
      BY <1>1, TypesOfEvent, DeviceTimes DEF TypeOK
    <3> HIDE DEF b, t
    <3>7. QED
      BY <3>5, <3>6
  <2>2. QED
    BY <2>1
<1>4. ~(e.kind = "qnd" /\ ~gate[e.round].resolved /\ mem["prover"].state # "empty")
  BY <1>1 DEF Tidy, Room
<1>5. e.kind = "retrieve" => ~MeterBusy(e.who, e.when)
  BY MeterFree
<1>6. QED
  BY <1>2, <1>3, <1>4, <1>5, RaisesWhere

LEMMA StartsAlone ==
  ASSUME Office, NEW e \in queue, e.kind = "start", NEW x \in queue, x.round = e.round
  PROVE  x = e
BY DEF Office, Groundwork, Agenda, StartsAreAhead, OneStart

LEMMA OnePair ==
  ASSUME Office, NEW e \in queue, Handles(e), e.kind = "start"
  PROVE  \A x, y \in queue' :
           x.kind = "epr" /\ y.kind = "epr" /\ x.round = e.round /\ y.round = e.round => x = y
<1>1. TypeOK /\ Agenda
  BY DEF Office, Groundwork
<1>2. CASE ~StartRound(e)
  <2>1. CASE RejectPlan(e)
    <3>1. Return(e, <<>>)
      BY <2>1 DEF RejectPlan
    <3>2. Leaves(e, {})
      BY <1>1, <3>1, NothingLeft
    <3>3. queue' \subseteq queue
      BY <3>2 DEF Leaves
    <3>4. QED
      BY <3>3, StartsAlone
  <2>2. CASE StartRoundRaises(e)
    <3>1. queue' \subseteq queue
      BY <2>2 DEF StartRoundRaises, Raise
    <3>2. QED
      BY <3>1, StartsAlone
  <2>3. QED
    BY <1>2, <2>1, <2>2, GateOfStep DEF Handles
<1>3. CASE StartRound(e)
  <2>1. PICK evs \in Seq(Children(e)) :
          Return(e, evs) /\ Len(evs) = 5 /\ \A i \in 1 .. 5 : evs[i].kind = "epr" => i = 2
    BY <1>1, <1>3, StartBegets
  <2>2. queue' = (queue \ {e}) \union Stamp(evs, nextSeq) /\ DOMAIN evs = 1 .. 5
    BY <2>1 DEF Return
  <2>3. \A i \in 1 .. 5 : evs[i] \in EventType
    <3>1. \A i \in 1 .. Len(evs) : evs[i] \in Children(e)
      BY <2>1
    <3>2. QED
      BY <2>1, <3>1 DEF Children
  <2>4. ASSUME NEW x \in queue', x.kind = "epr", x.round = e.round
        PROVE  x = [evs[2] EXCEPT !.seq = nextSeq + 2 - 1]
    <3>1. x \in Stamp(evs, nextSeq)
      BY <2>2, <2>4, StartsAlone
    <3>2. PICK i \in 1 .. 5 : x = [evs[i] EXCEPT !.seq = nextSeq + i - 1]
      BY <2>2, <3>1 DEF Stamp
    <3>3. evs[i].kind = "epr"
      BY <2>3, <2>4, <3>2 DEF EventType
    <3>4. QED
      BY <2>1, <3>2, <3>3
  <2>5. QED
    BY <2>4
<1>4. QED
  BY <1>2, <1>3

LEMMA StepUndetected ==
  ASSUME Office, Undetected, NEW e \in queue, Handles(e)
  PROVE  Undetected'
<1>1. TypeOK /\ TypeOK /\ Agenda /\ MemInv /\ RuntimeTypes /\ e.round \in Rounds
  BY TypesOfEvent DEF Office, Groundwork
<1>2. PICK N : Leaves(e, N) /\ \A y \in N : Child(e, y)
  BY <1>1, StepBegets DEF Begets, Handles
<1>3. queue' = (queue \ {e}) \union N
  BY <1>2 DEF Leaves
<1>4. ASSUME e.kind = "start", NEW x \in queue', x.kind = "epr", x.round = e.round
      PROVE  /\ ~round'[x.round].valid
             /\ \A y \in queue' :
                  y.round = x.round => /\ y.kind \notin PhotonKinds \union {"load"}
                                       /\ y.kind = "epr" => y = x
  <2>1. ~round[e.round].valid
    <3>1. ~started[e.round]
      BY <1>4 DEF Office, Groundwork, Agenda, StartsAreAhead
    <3>2. Detected(round[e.round], Pending(e.round), Unresolved(e.round))
      BY <1>1 DEF Office, Groundwork, Truths, Truth
    <3>3. QED
      BY <3>1, <3>2 DEF Detected, Unresolved
  <2>2. ~round'[e.round].valid
    BY <1>1, <1>4, <2>1, ValidMoves DEF Handles, IsLoad
  <2>3. ASSUME NEW y \in queue', y.round = x.round
        PROVE  y.kind \notin PhotonKinds \union {"load"}
    <3>1. y \in N
      BY <1>3, <1>4, <2>3, StartsAlone
    <3>2. Child(e, y)
      BY <1>2, <3>1
    <3>3. QED
      BY <1>4, <3>2 DEF Child, PhotonKinds, DeskKinds
  <2>4. QED
    BY <1>4, <2>2, <2>3, OnePair
<1>5. ASSUME NEW x \in queue', x.kind = "epr", ~(e.kind = "start" /\ x.round = e.round)
      PROVE  /\ ~round'[x.round].valid
             /\ \A y \in queue' :
                  y.round = x.round => /\ y.kind \notin PhotonKinds \union {"load"}
                                       /\ y.kind = "epr" => y = x
  <2>1. x \in queue /\ x # e
    <3>1. ASSUME x \in N PROVE FALSE
      <4>1. Child(e, x)
        BY <1>2, <3>1
      <4>2. QED
        BY <1>5, <4>1 DEF Child, PhotonKinds, DeskKinds
    <3>2. QED
      BY <1>3, <3>1
  <2>2. /\ ~round[x.round].valid /\ x.round \in Rounds
        /\ \A y \in queue : y.round = x.round => /\ y.kind \notin PhotonKinds \union {"load"}
                                                 /\ y.kind = "epr" => y = x
    BY <1>1, <1>5, <2>1, TypesOfEvent DEF Undetected
  <2>3. ~round'[x.round].valid
    BY <1>1, <2>2, ValidMoves DEF Handles, IsLoad
  <2>4. ASSUME NEW y \in N, y.round = x.round
        PROVE  y.kind \notin PhotonKinds \union {"load", "epr"}
    <3>1. Child(e, y)
      BY <1>2
    <3>2. e.round = x.round
      BY <2>4, <3>1 DEF Child
    <3>3. e.kind \notin PhotonKinds \union {"load", "epr", "start"}
      BY <1>5, <2>1, <2>2, <3>2
    <3>4. QED
      BY <3>1, <3>3 DEF Child, PhotonKinds, DeskKinds
  <2>5. QED
    BY <1>3, <2>2, <2>3, <2>4
<1>6. QED
  BY <1>4, <1>5 DEF Undetected

LEMMA StepUnread ==
  ASSUME Office, MemInv', Undetected, Unread, NEW e \in queue, Handles(e)
  PROVE  Unread'
<1>1. TypeOK /\ Agenda /\ MemInv /\ RuntimeTypes /\ e.round \in Rounds
  BY TypesOfEvent DEF Office, Groundwork
<1>2. PICK N : Leaves(e, N) /\ \A y \in N : Child(e, y)
  BY <1>1, StepBegets DEF Begets, Handles
<1>3. queue' = (queue \ {e}) \union N
  BY <1>2 DEF Leaves
<1>4. SUFFICES ASSUME NEW x \in queue', x.kind = "load", x.who = "v0",
                      round'[x.round].measuring
               PROVE  FALSE
  BY DEF Unread
<1> DEFINE q == x.round
<1>5. ~round[q].measuring /\ q \in Rounds
  <2>1. CASE x \in queue
    BY <1>1, <1>4, <2>1, TypesOfEvent DEF Unread
  <2>2. CASE x \in N
    <3>1. Child(e, x)
      BY <1>2, <2>2
    <3>2. e.kind = "epr" /\ q = e.round
      BY <1>4, <3>1 DEF Child, PhotonKinds, DeskKinds
    <3>3. ~round[q].valid
      BY <3>2 DEF Undetected
    <3>4. Detected(round[q], Pending(q), Unresolved(q))
      BY <1>1, <3>2 DEF Office, Groundwork, Truths, Truth
    <3>5. QED
      BY <1>1, <3>2, <3>3, <3>4 DEF Detected
  <2>3. QED
    BY <1>3, <2>1, <2>2
<1>6. \E y \in queue' : y.kind = "retrieve" /\ y.who = "v0"
  <2>1. PICK n, M : Moves(e, n, M)
    BY <1>1, StepMoves DEF Handles
  <2>2. q = e.round
    BY <1>4, <1>5, <2>1 DEF Moves
  <2>3. Op(e, round[q], n, M, Unresolved(q), Unresolved(q)') /\ n.measuring /\ M \subseteq queue'
    BY <1>4, <2>1, <2>2 DEF Moves, Pending
  <2>4. \E y \in M : y.kind = "retrieve" /\ y.who = "v0"
    BY <1>5, <2>3, OpMeasures
  <2>5. QED
    BY <2>3, <2>4
<1>7. PICK y \in queue' : y.kind = "retrieve" /\ y.who = "v0"
  BY <1>6
<1>8. SlotInv("v0", mem["v0"], MemoryEvents(queue, "v0"))'
  BY DEF MemInv, Holders
<1>9. CompletionsInUse("v0", mem["v0"], MemoryEvents(queue, "v0"))'
  BY <1>8 DEF SlotInv
<1>10. x \in MemoryEvents(queue, "v0")' /\ y \in MemoryEvents(queue, "v0")'
  BY <1>4, <1>7 DEF MemoryEvents, MemoryKinds
<1>11. mem'["v0"].state = "loading" /\ mem'["v0"].state = "retrieving"
  BY <1>4, <1>7, <1>9, <1>10 DEF CompletionsInUse
<1>12. QED
  BY <1>11

LEMMA StepPrompted ==
  ASSUME Office, Prompted, NEW e \in queue, Handles(e)
  PROVE  Prompted'
<1>1. /\ TypeOK /\ Agenda /\ MemInv /\ RuntimeTypes /\ e.round \in Rounds /\ now \in Int
      /\ e.when \in Int /\ now' = e.when /\ now <= e.when /\ config' = config
      /\ config \in Configs
  BY TypesOfEvent, StepIsFirst DEF Office, Groundwork, HeapOrder, TypeOK, QueueType, Handles
<1>2. PICK n, M : Moves(e, n, M)
  BY <1>1, StepMoves DEF Handles
<1>3. SUFFICES ASSUME NEW q \in Rounds
               PROVE  (\/ Silent(round[q], Pending(q)) \/ round[q].bit["v0"] # None
                       \/ RoundTimeoutAt(config, q) <= now)'
  BY DEF Prompted
<1>4. (RoundTimeoutAt(config, q) <= now)' <=> RoundTimeoutAt(config, q) <= now'
  BY <1>1
<1> DEFINE late == RoundTimeoutAt(config, q)
<1>5. late \in Int
  BY <1>1, RoundPlanTypes
<1>6. CASE late <= now
  <2> HIDE DEF late
  <2>1. late <= now'
    BY <1>1, <1>5, <1>6
  <2>2. QED
    BY <1>4, <2>1 DEF late
<1>7. CASE q # e.round /\ ~(late <= now)
  <2>1. round'[q] = round[q] /\ Pending(q)' = Pending(q)
    BY <1>2, <1>7 DEF Moves
  <2>2. Silent(round[q], Pending(q)) \/ round[q].bit["v0"] # None
    BY <1>7 DEF Prompted
  <2>3. QED
    BY <2>1, <2>2 DEF Silent
<1>8. CASE q = e.round /\ ~(late <= now)
  <2>1. /\ round'[q] = n /\ Pending(q)' = (Pending(q) \ {e}) \union M /\ e \in Pending(q)
        /\ Op(e, round[q], n, M, Unresolved(q), Unresolved(q)')
    BY <1>2, <1>8 DEF Moves
  <2>2. CASE round[q].bit["v0"] # None
    <3>1. n.bit["v0"] # None
      BY <2>1, <2>2, OpBits DEF Holders
    <3>2. QED
      BY <2>1, <3>1
  <2>3. CASE Silent(round[q], Pending(q))
    <3>1. CASE e.kind = "timeout"
      <4>1. e.when = late
        BY <1>8, <3>1 DEF Office, Groundwork, Agenda, TimersAreSet
      <4>2. late <= now'
        BY <1>1, <1>5, <4>1
      <4>3. QED
        BY <1>4, <4>2
    <3>2. CASE e.kind # "timeout"
      <4>1. Silent(n, (Pending(q) \ {e}) \union M) \/ n.bit["v0"] # None
        BY <2>1, <2>3, <3>2, OpSilence
      <4>2. QED
        BY <2>1, <4>1 DEF Silent
    <3>3. QED
      BY <3>1, <3>2
  <2>4. QED
    BY <1>8, <2>2, <2>3 DEF Prompted
<1>9. QED
  BY <1>6, <1>7, <1>8

\* How a round comes to be decided.
LEMMA CompletedMoves ==
  ASSUME TypeOK, NEW e \in queue, Handles(e), NEW q \in Rounds, completed'[q], ~completed[q]
  PROVE  /\ q = e.round
         /\ \/ RejectPlan(e) /\ e.kind = "start"
            \/ FinalTimesOut(e) /\ e.kind = "final" /\ mem' = Released(q)
            \/ /\ ReportArrives(e) /\ e.kind = "report" /\ mem' = Released(q)
               /\ "v0" \in round[q].received \union {e.who}
<1>1. e.round \in Rounds /\ completed \in [Rounds -> BOOLEAN] /\ "v0" \in Verifiers
  BY TypesOfEvent DEF TypeOK, Verifiers
<1>2. CASE RejectPlan(e)
  BY <1>1, <1>2 DEF RejectPlan, Handle
<1>3. CASE FinalTimesOut(e)
  BY <1>1, <1>3 DEF FinalTimesOut, Finalize, Handle
<1>4. CASE ReportArrives(e)
  <2> DEFINE rd == [round[e.round] EXCEPT !.received = @ \union {e.who}]
  <2>1. rd.received = Verifiers /\ Finalize(e.round, rd) /\ e.kind = "report"
    BY <1>4 DEF ReportArrives, Handle
  <2>2. q = e.round /\ mem' = Released(q)
    BY <1>1, <2>1 DEF Finalize
  <2>3. rd.received = round[e.round].received \union {e.who}
        \/ rd.received = round[e.round].received
    OBVIOUS
  <2>4. "v0" \in rd.received
    BY <1>1, <2>1
  <2> HIDE DEF rd
  <2>5. "v0" \in round[q].received \union {e.who}
    BY <2>2, <2>3, <2>4
  <2>6. QED
    BY <1>4, <2>1, <2>2, <2>5
<1>5. CASE ~(RejectPlan(e) \/ FinalTimesOut(e) \/ ReportArrives(e))
  <2>1. UNCHANGED completed
    <3>1. CASE PhotonArrives(e) \/ DetectionDone(e) \/ GateCloses(e) \/ RetrieveDone(e)
      BY <3>1 DEF PhotonArrives, DetectionDone, GateCloses, RetrieveDone, Resolved, Commit,
         Passes, Raise, decisionVars
    <3>2. CASE ~(PhotonArrives(e) \/ DetectionDone(e) \/ GateCloses(e) \/ RetrieveDone(e))
      BY <1>5, <3>2 DEF Handles, DeviceStep, ProtocolStep, DecisionStep, PairReady,
         PairReadyRaises, PairFails, LoadDone, LoadFails, Expire, ProverMeasured, V0Measured,
         StartRound, StartRoundRaises, SendChallenge, InterceptDone, SendReplacement,
         SendBasis, BasisArrives, VerifierReceives, RoundTimesOut, Raise, Passes, decisionVars
    <3>3. QED
      BY <3>1, <3>2
  <2>2. QED
    BY <2>1
<1>6. QED
  BY <1>2, <1>3, <1>4, <1>5

\* Work comes of work, or of the start of its round.
LEMMA WorkMoves ==
  ASSUME Office, NEW e \in queue, Handles(e), NEW q \in Rounds, AtWork(q)'
  PROVE  AtWork(q) \/ (StartRound(e) /\ q = e.round)
<1>1. TypeOK /\ Agenda /\ MemInv /\ RuntimeTypes /\ e.round \in Rounds
  BY TypesOfEvent DEF Office, Groundwork
<1>2. PICK N : Leaves(e, N) /\ \A y \in N : Child(e, y)
  BY <1>1, StepBegets DEF Begets, Handles
<1>3. queue' = (queue \ {e}) \union N
  BY <1>2 DEF Leaves
<1>4. CASE ~gate'[q].resolved
  BY <1>1, <1>4, GateMoves DEF AtWork, Handles
<1>5. ASSUME NEW x \in queue', x.round = q, x.kind \in {"epr", "load"}
      PROVE  AtWork(q) \/ (StartRound(e) /\ q = e.round)
  <2>1. CASE x \in queue
    BY <1>5, <2>1 DEF AtWork
  <2>2. CASE x \notin queue
    <3>1. Child(e, x) /\ x \in N
      BY <1>2, <1>3, <2>2
    <3>2. q = e.round /\ (\/ e.kind = "start" /\ x.kind = "epr"
                          \/ e.kind = "epr"
                          \/ ~gate[q].resolved)
      BY <1>5, <3>1 DEF Child, PhotonKinds, DeskKinds
    <3>3. CASE e.kind = "start"
      <4>1. CASE StartRoundRaises(e)
        BY <1>5, <2>2, <4>1 DEF StartRoundRaises, Raise
      <4>2. CASE RejectPlan(e)
        <5>1. Return(e, <<>>)
          BY <4>2 DEF RejectPlan
        <5>2. Leaves(e, {})
          BY <1>1, <5>1, NothingLeft
        <5>3. QED
          BY <2>2, <5>2 DEF Leaves
      <4>3. QED
        BY <3>2, <3>3, <4>1, <4>2, GateOfStep DEF Handles
    <3>4. QED
      BY <3>2, <3>3 DEF AtWork
  <2>3. QED
    BY <2>1, <2>2
<1>6. QED
  BY <1>4, <1>5 DEF AtWork

\* While a round is at work its timeout has not come.
LEMMA WorkIsPending ==
  ASSUME Office, RoundsFit(config), NEW q \in Rounds, AtWork(q), NEW e \in queue,
         IsFirst(e, queue)
  PROVE  /\ e.when < RoundTimeoutAt(config, q)
         /\ started[q]
<1>1. TypeOK /\ config \in Configs
  BY DEF Office, Groundwork, TypeOK
<1>2. PICK y \in queue : y.round = q /\ y.kind \in {"epr", "gate", "load"}
  BY DEF AtWork, Office, Schedule, GatesClose
<1> DEFINE late == RoundTimeoutAt(config, q)
           w == e.when
           z == y.when
<1>3. z < late /\ w <= z
  BY <1>1, <1>2, EndsBeforeTimeout, FirstIsEarliest DEF Office
<1>4. w \in Int /\ z \in Int /\ late \in Int
  BY <1>1, TypesOfEvent, RoundPlanTypes
<1>5. started[q]
  BY <1>2 DEF Office, Groundwork, Agenda, StartsAreAhead
<1> HIDE DEF late, w, z
<1>6. w < late
  BY <1>3, <1>4
<1>7. QED
  BY <1>5, <1>6 DEF w, late

LEMMA StepUndecided ==
  ASSUME Office, Tidy, RoundsFit(config), NEW e \in queue, Handles(e)
  PROVE  Undecided'
<1>1. /\ TypeOK /\ Agenda /\ e.round \in Rounds /\ config \in Configs /\ now \in Int
      /\ IsFirst(e, queue) /\ now <= e.when /\ e.when \in Int
  BY TypesOfEvent, StepIsFirst
     DEF Office, Groundwork, TypeOK, HeapOrder, QueueType, Handles
<1>2. SUFFICES ASSUME NEW q \in Rounds, AtWork(q)', completed'[q]
               PROVE  FALSE
  BY DEF Undecided
<1>3. AtWork(q) \/ (StartRound(e) /\ q = e.round)
  BY <1>2, WorkMoves
<1>4. CASE StartRound(e) /\ q = e.round
  <2>1. ~started[q] /\ completed' = completed
    BY <1>4 DEF StartRound, Handle, Office, Groundwork, Agenda, StartsAreAhead, decisionVars
  <2>2. QED
    BY <1>2, <2>1 DEF Office, Books
<1>5. CASE AtWork(q)
  <2>1. ~completed[q]
    BY <1>5 DEF Tidy, Undecided
  <2> DEFINE late == RoundTimeoutAt(config, q)
             w == e.when
  <2>2. w < late /\ started[q]
    BY <1>1, <1>5, WorkIsPending
  <2>3. late \in Int /\ FinalDelay(config) \in Nat
    BY <1>1, RoundPlanTypes
  <2>4. q = e.round /\ ~RejectPlan(e)
    BY <1>1, <1>2, <2>1, <2>2, CompletedMoves
       DEF RejectPlan, Handle, Office, Groundwork, Agenda, StartsAreAhead
  <2>5. CASE e.kind = "final"
    <3>1. w = late + FinalDelay(config)
      BY <2>4, <2>5 DEF Office, Groundwork, Agenda, TimersAreSet, FinalTimeoutAt
    <3> DEFINE d == FinalDelay(config)
    <3> HIDE DEF late, d, w
    <3>2. QED
      BY <2>2, <2>3, <3>1 DEF d
  <2>6. CASE e.kind = "report" /\ "v0" \in round[q].received \union {e.who}
    <3>1. ~Silent(round[q], Pending(q))
      BY <2>4, <2>6 DEF Silent, Pending, ReportOfV
    <3>2. ~(late <= now)
      <4> HIDE DEF late, w
      <4>1. now <= w /\ w \in Int
        BY <1>1 DEF w
      <4>2. QED
        BY <1>1, <2>2, <2>3, <4>1
    <3>3. round[q].bit["v0"] # None
      BY <3>1, <3>2 DEF Tidy, Prompted
    <3>4. Truth(q, round[q], Pending(q), Unresolved(q))
      BY DEF Office, Groundwork, Truths
    <3>5. round[q].measuring /\ round[q].valid
      BY <3>3, <3>4 DEF Truth, Measured, Detected, Holders
    <3>6. gate[q].resolved /\ \A x \in Pending(q) : ~IsLoad(x)
      BY <3>4, <3>5 DEF Truth, Detected, Unresolved
    <3>7. PICK x \in queue : x.round = q /\ x.kind \in {"epr", "load"}
      BY <1>5, <3>6 DEF AtWork
    <3>8. x.kind = "load" /\ x.who \in Holders
      BY <1>1, <3>5, <3>7, ActorOfEvent DEF Tidy, Undetected
    <3>9. x.who = "v0"
      BY <3>6, <3>7, <3>8 DEF Pending, IsLoad, Holders
    <3>10. QED
      BY <3>5, <3>7, <3>8, <3>9 DEF Tidy, Unread
  <2>7. QED
    BY <1>1, <1>2, <2>1, <2>4, <2>5, <2>6, CompletedMoves
<1>6. QED
  BY <1>3, <1>4, <1>5

\* An open round has a timer before the next round starts.
LEMMA OpenBefore ==
  ASSUME Office, RoundsFit(config), NEW q \in Rounds, started[q], ~completed[q],
         NEW e \in queue, IsFirst(e, queue), status = "running"
  PROVE  e.when < RoundStartAt(config, q + 1)
<1>1. TypeOK /\ config \in Configs /\ q \in Nat /\ TimingConfig(config) /\ Geometric(config)
  BY RoundIsNat, ConfigTypes DEF Office, Groundwork, TypeOK, RoundsFit
<1>2. PICK y \in queue : y.kind \in {"timeout", "final"} /\ y.round = q
  BY DEF Office, Groundwork, Agenda, NothingIsForgotten, Errors
<1> DEFINE n == RoundStartAt(config, q + 1)
           w == e.when
           z == y.when
<1>3. z = RoundTimeoutAt(config, q) \/ z = FinalTimeoutAt(config, q)
  BY <1>2 DEF Office, Groundwork, Agenda, TimersAreSet
<1>4. z < n
  BY <1>1, <1>3, TimersBeforeNextStart
<1>5. w <= z /\ w \in Int /\ z \in Int
  BY <1>1, TypesOfEvent, FirstIsEarliest
<1>6. n \in Nat
  <2>1. q + 1 \in Nat
    BY <1>1
  <2>2. QED
    BY <1>1, <2>1, NextRoundStart
<1> HIDE DEF n, w, z
<1>7. w < n
  BY <1>4, <1>5, <1>6
<1>8. QED
  BY <1>7 DEF w, n

LEMMA StepStock ==
  ASSUME Office, Tidy, RoundsFit(config), NEW e \in queue, Handles(e)
  PROVE  Stock'
<1>1. /\ TypeOK /\ Agenda /\ MemInv /\ e.round \in Rounds /\ config \in Configs /\ now \in Int
      /\ IsFirst(e, queue) /\ now <= e.when /\ e.when \in Int /\ config' = config
      /\ status = "running" /\ TimingConfig(config) /\ e.round \in Nat
  BY TypesOfEvent, StepIsFirst, ConfigTypes, RoundIsNat
     DEF Office, Groundwork, TypeOK, HeapOrder, QueueType, Handles
<1>2. SUFFICES ASSUME NEW m \in Holders
               PROVE  (/\ mem[m].state # "expired"
                       /\ mem[m].state = "stored" =>
                            /\ ~completed[mem[m].holds]
                            /\ mem[m].storedAt >= RoundStartAt(config, mem[m].holds))'
  BY DEF Stock
<1>3. SlotMoves(e, m, mem[m], mem'[m]) /\ mem[m] \in SlotType
  BY <1>1, StepSlots, SlotTypes DEF Handles
<1>4. ~Expires(e, m, mem[m], mem'[m])
  <2>1. SUFFICES ASSUME Expires(e, m, mem[m], mem'[m]) PROVE FALSE
    OBVIOUS
  <2> DEFINE q == e.round
             s0 == RoundStartAt(config, q)
             s1 == RoundStartAt(config, q + 1)
             h == config.hold[m]
             at == mem[m].storedAt
             w == e.when
             p == RoundPeriod(config)
  <2>2. /\ e.kind = "expire" /\ e.who = m /\ mem[m].state = "stored" /\ mem[m].holds = q
        /\ mem[m].gen = e.val
    BY <2>1 DEF Expires
  <2>3. e \in MemoryEvents(queue, m) /\ SlotInv(m, mem[m], MemoryEvents(queue, m))
    BY <1>1, <2>2 DEF MemoryEvents, MemoryKinds, MemInv
  <2>4. h # None /\ w = at + h /\ at # None
    BY <2>2, <2>3 DEF SlotInv, ExpiriesAreDated, ExpiryIsPending
  <2>5. q # None
    <3>1. q \in Int
      BY <1>1
    <3>2. QED
      BY <3>1, SessionAssumption
  <2>6. started[q] /\ ~completed[q] /\ at >= s0
    BY <2>2, <2>5 DEF Office, Occupied, Tidy, Stock
  <2>7. w < s1
    BY <1>1, <2>6, OpenBefore
  <2>8. h >= p /\ h \in Nat /\ at \in Int /\ p \in Nat /\ s0 \in Nat /\ s1 = s0 + p
    BY <1>1, <1>3, <2>4, ConfigTypes, PeriodType, NextRoundStart DEF RoundsFit, SlotType, Opt
  <2> HIDE DEF s0, s1, h, at, w, p
  <2>9. QED
    BY <2>4, <2>6, <2>7, <2>8
<1>5. mem'[m].state # "expired"
  BY <1>3, <1>4 DEF SlotMoves, Fills, Stores, Fails, Measures, Empties, Tidy, Stock
<1>6. ASSUME mem'[m].state = "stored"
      PROVE  /\ ~completed'[mem'[m].holds]
             /\ mem'[m].storedAt >= RoundStartAt(config, mem'[m].holds)
  <2>1. CASE mem'[m] = mem[m]
    <3> DEFINE q == mem[m].holds
    <3>1. /\ mem[m].state = "stored" /\ ~completed[q] /\ q # None /\ started[q]
          /\ mem[m].storedAt >= RoundStartAt(config, q)
      BY <1>6, <2>1 DEF Tidy, Stock, Office, Occupied
    <3>2. q \in Rounds
      BY <1>3, <3>1 DEF SlotType, Opt
    <3>3. ASSUME completed'[q] PROVE FALSE
      <4>1. q = e.round /\ (e.kind = "start" \/ mem' = Released(q))
        BY <1>1, <3>1, <3>2, <3>3, CompletedMoves
      <4>2. e.kind # "start"
        BY <3>1, <4>1 DEF Office, Groundwork, Agenda, StartsAreAhead
      <4>3. mem'[m] = [EmptySlot EXCEPT !.gen = mem[m].gen + 1]
        BY <3>1, <4>1, <4>2 DEF Released
      <4>4. QED
        BY <1>6, <4>3 DEF EmptySlot
    <3>4. QED
      BY <2>1, <3>1, <3>3
  <2>2. CASE Stores(e, m, mem[m], mem'[m])
    <3>1. e.kind = "load" /\ mem'[m].holds = e.round /\ mem'[m].storedAt = e.when
      BY <2>2 DEF Stores
    <3>2. ~completed[e.round] /\ started[e.round]
      BY <1>1, <3>1 DEF Tidy, Undecided, AtWork, Office, Groundwork, Agenda, StartsAreAhead
    <3>3. ~completed'[e.round]
      BY <1>1, <3>1, <3>2, CompletedMoves
    <3> DEFINE s0 == RoundStartAt(config, e.round)
               w == e.when
    <3>4. s0 <= now /\ s0 \in Nat
      BY <1>1, <3>2, NextRoundStart DEF Office, Schedule, StartedInTime
    <3>5. w \in Int /\ now <= w
      BY <1>1
    <3> HIDE DEF s0, w
    <3>6. w >= s0
      BY <1>1, <3>4, <3>5
    <3>7. QED
      BY <3>1, <3>3, <3>6 DEF w, s0
  <2>3. QED
    BY <1>3, <1>6, <2>1, <2>2 DEF SlotMoves, Fills, Fails, Measures, Expires, Empties
<1>7. QED
  BY <1>1, <1>5, <1>6

LEMMA BitsStay ==
  ASSUME Office, NEW e \in queue, Handles(e), NEW q \in Rounds, NEW m \in Holders
  PROVE  /\ round[q].bit[m] # None => round'[q].bit[m] # None
         /\ e.kind = "measured" /\ q = e.round /\ m = e.who => round'[q].bit[m] # None
<1>1. TypeOK /\ Agenda /\ MemInv /\ RuntimeTypes
  BY DEF Office, Groundwork
<1>2. PICK n, N : Moves(e, n, N)
  BY <1>1, StepMoves DEF Handles
<1>3. ASSUME round[q].bit[m] # None PROVE round'[q].bit[m] # None
  <2>1. CASE q = e.round
    <3>1. round'[q] = n /\ Op(e, round[q], n, N, Unresolved(q), Unresolved(q)')
      BY <1>2, <2>1 DEF Moves
    <3>2. n.bit[m] # None
      BY <1>3, <3>1, OpBits
    <3>3. QED
      BY <3>1, <3>2
  <2>2. QED
    BY <1>2, <1>3, <2>1 DEF Moves
<1>4. ASSUME e.kind = "measured", q = e.round, m = e.who PROVE round'[q].bit[m] # None
  <2>1. round \in [Rounds -> RoundType] /\ \A b \in Nat : b # None
    BY <1>1, SessionAssumption DEF RuntimeTypes
  <2>2. CASE ProverMeasured(e)
    <3>1. PICK b \in Nat, rd \in RoundType :
            Runs(e, rd) /\ BitEffect(rd, round[q], "prover", b)
      BY <1>1, <1>4, <2>2, MeasureEffects
    <3>2. rd.bit["prover"] = b /\ e.who = "prover"
      BY <2>2, <3>1 DEF BitEffect, ProverMeasured
    <3>3. round'[q] = rd
      BY <1>4, <2>1, <3>1 DEF Runs
    <3>4. QED
      BY <1>4, <2>1, <3>2, <3>3
  <2>3. CASE V0Measured(e)
    <3>1. PICK b \in Nat, rd1 \in RoundType, rd \in RoundType :
            /\ BitEffect(rd1, round[q], "v0", b)
            /\ Runs(e, rd) /\ ReportEffect(rd, rd1, q, "v0", FALSE)
      BY <1>1, <1>4, <2>3, ReportEffects
    <3>2. rd1.bit["v0"] = b /\ rd.bit = rd1.bit /\ e.who = "v0"
      BY <2>3, <3>1 DEF BitEffect, ReportEffect, V0Measured
    <3>3. round'[q] = rd
      BY <1>4, <2>1, <3>1 DEF Runs
    <3>4. QED
      BY <1>4, <2>1, <3>2, <3>3
  <2>4. QED
    BY <1>4, <2>2, <2>3, HandlerOf
<1>5. QED
  BY <1>3, <1>4

LEMMA MeterMoves ==
  ASSUME TypeOK, NEW e \in queue, Handles(e), NEW m \in Holders
  PROVE  \/ meter'[m].freeAt = meter[m].freeAt
         \/ /\ e.kind = "measured" /\ e.who = m
            /\ meter'[m].freeAt = e.when + config.dead[e.who]
<1>1. meter \in [Holders -> [busy : BOOLEAN, freeAt : Int]]
  BY DEF TypeOK, DeviceType
<1>2. CASE ProverMeasured(e) \/ V0Measured(e)
  <2>1. MeterDone(e) /\ e.kind = "measured"
    BY <1>2 DEF ProverMeasured, V0Measured, Handle
  <2>2. CASE m = e.who
    BY <1>1, <2>1, <2>2 DEF MeterDone
  <2>3. CASE m # e.who
    BY <1>1, <2>1, <2>3 DEF MeterDone
  <2>4. QED
    BY <2>2, <2>3
<1>3. CASE RetrieveDone(e)
  <2>1. meter' = meter \/ meter' = [meter EXCEPT ![e.who].busy = TRUE]
    BY <1>3 DEF RetrieveDone, Raise, deviceVars
  <2>2. QED
    BY <1>1, <2>1
<1>4. CASE PhotonArrives(e) \/ DetectionDone(e) \/ GateCloses(e)
  BY <1>4 DEF PhotonArrives, DetectionDone, GateCloses, Resolved, Commit, Passes, Raise,
     deviceVars
<1>5. CASE /\ ~(PhotonArrives(e) \/ DetectionDone(e) \/ GateCloses(e))
           /\ ~(ProverMeasured(e) \/ V0Measured(e) \/ RetrieveDone(e))
  BY <1>5 DEF Handles, DeviceStep, ProtocolStep, DecisionStep, PairReady,
     PairReadyRaises, PairFails, LoadDone, LoadFails, Expire,
     StartRound, StartRoundRaises, SendChallenge, InterceptDone, SendReplacement, SendBasis,
     BasisArrives, VerifierReceives, RoundTimesOut, RejectPlan, ReportArrives,
     FinalTimesOut, Raise, Passes, deviceVars
<1>6. QED
  BY <1>2, <1>3, <1>4, <1>5

LEMMA SourceMoves ==
  ASSUME TypeOK, NEW e \in queue, Handles(e)
  PROVE  \/ source'.freeAt = source.freeAt
         \/ e.kind = "epr" /\ source'.freeAt = e.when + config.rest
<1>1. source \in [busy : BOOLEAN, freeAt : Int]
  BY DEF TypeOK, DeviceType
<1>2. CASE PairReady(e) \/ PairFails(e)
  <2>1. e.kind = "epr" /\ now' = e.when /\ SourceDone
    BY <1>2 DEF PairReady, PairFails, Handle
  <2>2. QED
    BY <2>1 DEF SourceDone
<1>3. CASE StartRound(e)
  <2>1. source' = [source EXCEPT !.busy = TRUE]
    BY <1>3 DEF StartRound
  <2>2. QED
    BY <1>1, <2>1
<1>4. CASE PhotonArrives(e) \/ DetectionDone(e) \/ GateCloses(e) \/ RetrieveDone(e)
  BY <1>4 DEF PhotonArrives, DetectionDone, GateCloses, RetrieveDone, Resolved, Commit,
     Passes, Raise, deviceVars
<1>5. CASE /\ ~(PhotonArrives(e) \/ DetectionDone(e) \/ GateCloses(e) \/ RetrieveDone(e))
           /\ ~(PairReady(e) \/ PairFails(e) \/ StartRound(e))
  BY <1>5 DEF Handles, DeviceStep, ProtocolStep, DecisionStep,
     PairReadyRaises, LoadDone, LoadFails, Expire, ProverMeasured, V0Measured,
     StartRoundRaises, SendChallenge, InterceptDone, SendReplacement, SendBasis,
     BasisArrives, VerifierReceives, RoundTimesOut, RejectPlan, ReportArrives,
     FinalTimesOut, Raise, Passes, deviceVars
<1>6. QED
  BY <1>2, <1>3, <1>4, <1>5

LEMMA StepRested ==
  ASSUME Office, Rested, RoundsFit(config), NEW e \in queue, Handles(e)
  PROVE  Rested'
<1>1. /\ TypeOK /\ Agenda /\ e.round \in Rounds /\ e.when \in Int /\ config' = config
      /\ config \in Configs /\ e.round \in Nat /\ TimingConfig(config)
  BY TypesOfEvent, StepIsFirst, RoundIsNat, ConfigTypes
     DEF Office, Groundwork, TypeOK, Handles
<1>2. \A q \in Rounds : started[q] => started'[q]
  BY <1>1, StartedMoves
<1> DEFINE r == e.round
           w == e.when
           n == RoundStartAt(config, r + 1)
<1>3. (\/ source.freeAt = 0
       \/ \E s \in Rounds : started[s] /\ source.freeAt <= RoundStartAt(config, s + 1))'
  <2>1. CASE source'.freeAt = source.freeAt
    BY <1>1, <1>2, <2>1 DEF Rested
  <2>2. CASE e.kind = "epr" /\ source'.freeAt = e.when + config.rest
    <3> DEFINE s0 == RoundStartAt(config, r)
               p == RoundPeriod(config)
               d == config.epr
               k == config.rest
    <3>1. w <= s0 + d /\ started[r]
      BY <2>2 DEF Office, Schedule, AllDue, Due, Groundwork, Agenda, StartsAreAhead
    <3>2. s0 \in Nat /\ n = s0 + p /\ p \in Nat /\ d \in Nat /\ k \in Nat /\ d + k <= p
      BY <1>1, NextRoundStart, PeriodType, ConfigTypes DEF RoundsFit
    <3> HIDE DEF s0, p, d, k, n, w
    <3>3. w + k <= n
      BY <1>1, <3>1, <3>2 DEF w
    <3>4. source'.freeAt <= n
      BY <2>2, <3>3 DEF w, k
    <3>5. started'[r]
      BY <1>1, <1>2, <3>1
    <3>6. QED
      BY <1>1, <3>4, <3>5 DEF n
  <2>3. QED
    BY <1>1, <2>1, <2>2, SourceMoves
<1>4. ASSUME NEW m \in Holders
      PROVE  (\/ meter[m].freeAt = 0
              \/ \E s \in Rounds : /\ started[s] /\ round[s].bit[m] # None
                                   /\ meter[m].freeAt < RoundStartAt(config, s + 1))'
  <2>1. CASE meter'[m].freeAt = meter[m].freeAt
    <3>1. CASE meter[m].freeAt = 0
      BY <2>1, <3>1
    <3>2. CASE meter[m].freeAt # 0
      <4>1. PICK s \in Rounds : /\ started[s] /\ round[s].bit[m] # None
                                /\ meter[m].freeAt < RoundStartAt(config, s + 1)
        BY <3>2 DEF Rested
      <4>2. started'[s] /\ round'[s].bit[m] # None
        BY <1>2, <4>1, BitsStay
      <4>3. QED
        BY <1>1, <2>1, <4>1, <4>2
    <3>3. QED
      BY <3>1, <3>2
  <2>2. CASE /\ e.kind = "measured" /\ e.who = m
             /\ meter'[m].freeAt = e.when + config.dead[e.who]
    <3>1. round'[r].bit[m] # None
      BY <1>1, <2>2, BitsStay
    <3>2. started'[r]
      BY <1>1, <1>2, <2>2 DEF Agenda, StartsAreAhead
    <3>3. e.when + config.dead[e.who] < n
      BY <2>2, EndsInRound DEF Office, DeviceKinds
    <3>4. QED
      BY <1>1, <2>2, <3>1, <3>2, <3>3
  <2>3. QED
    BY <1>1, <2>1, <2>2, MeterMoves
<1>5. QED
  BY <1>3, <1>4 DEF Rested

LEMMA StepRoom ==
  ASSUME AllGeometric, Office, Tidy, RoundsFit(config), NEW e \in queue, Handles(e)
  PROVE  Room'
<1>1. /\ TypeOK /\ Agenda /\ MemInv /\ RuntimeTypes /\ e.round \in Rounds
      /\ IsFirst(e, queue) /\ status = "running"
  BY TypesOfEvent, StepIsFirst DEF Office, Groundwork, Handles
<1>2. PICK N : Leaves(e, N) /\ \A y \in N : Child(e, y)
  BY <1>1, StepBegets DEF Begets, Handles
<1>3. ASSUME NEW m \in Holders PROVE SlotMoves(e, m, mem[m], mem'[m])
  BY <1>1, <1>3, StepSlots DEF Handles
<1>4. ASSUME NEW m \in Holders, mem[m].state = "empty", ~Fills(e, m, mem[m], mem'[m])
      PROVE  mem'[m].state = "empty"
  BY <1>3, <1>4 DEF SlotMoves, Stores, Fails, Measures, Expires, Empties
<1>5. ASSUME e.kind = "start", NEW m \in Holders PROVE mem'[m].state = "empty"
  <2>1. mem[m].state = "empty"
    BY <1>1, <1>5, CleanStart
  <2>2. ~Fills(e, m, mem[m], mem'[m])
    BY <1>5 DEF Fills
  <2>3. QED
    BY <1>4, <2>1, <2>2
<1>6. ASSUME NEW x \in queue', x.kind = "epr" PROVE mem'["v0"].state = "empty"
  <2>1. CASE e.kind = "start"
    BY <1>5, <2>1 DEF Holders
  <2>2. CASE e.kind # "start"
    <3>1. x \in queue /\ x # e
      <4>1. x \in N => Child(e, x)
        BY <1>2
      <4>2. x \notin N
        BY <1>6, <2>2, <4>1 DEF Child, PhotonKinds, DeskKinds
      <4>3. QED
        BY <1>2, <4>2 DEF Leaves
    <3>2. mem["v0"].state = "empty"
      BY <1>6, <3>1 DEF Tidy, Room
    <3>3. ASSUME e.kind = "epr" PROVE FALSE
      <4>1. e.round = x.round
        BY <1>6, <3>1, <3>3, SameRound DEF Office, DeviceKinds
      <4>2. QED
        BY <1>6, <3>1, <3>3, <4>1 DEF Tidy, Undetected
    <3>4. ~Fills(e, "v0", mem["v0"], mem'["v0"])
      BY <3>3 DEF Fills
    <3>5. QED
      BY <1>4, <3>2, <3>4 DEF Holders
  <2>3. QED
    BY <2>1, <2>2
<1>7. ASSUME NEW r \in Rounds, ~gate'[r].resolved PROVE mem'["prover"].state = "empty"
  <2>1. CASE StartRound(e)
    BY <1>5, <2>1 DEF StartRound, Handle, Holders
  <2>2. CASE ~StartRound(e)
    <3>1. ~gate[r].resolved
      BY <1>1, <1>7, <2>2, GateMoves DEF Handles
    <3>2. mem["prover"].state = "empty"
      BY <3>1 DEF Tidy, Room
    <3>3. ASSUME Fills(e, "prover", mem["prover"], mem'["prover"]) PROVE FALSE
      <4>1. ~gate[e.round].resolved /\ gate'[e.round].resolved
        BY <3>3 DEF Fills
      <4>2. PICK x \in queue, y \in queue : /\ x.kind = "gate" /\ x.round = r
                                            /\ y.kind = "gate" /\ y.round = e.round
        BY <1>1, <3>1, <4>1 DEF Office, Schedule, GatesClose
      <4>3. r = e.round
        BY <4>2, SameRound DEF Office, DeviceKinds
      <4>4. QED
        BY <1>7, <4>1, <4>3
    <3>4. QED
      BY <1>4, <3>2, <3>3 DEF Holders
  <2>3. QED
    BY <2>1, <2>2
<1>8. QED
  BY <1>6, <1>7 DEF Room

LEMMA NextTidy ==
  ASSUME \A c \in Configs : RoundsFit(c), Office, MemInv', Tidy, NoAbort, [Next]_vars
  PROVE  Tidy' /\ NoAbort'
<1>1. RoundsFit(config) /\ AllGeometric /\ TypeOK /\ MemInv /\ Agenda /\ RuntimeTypes
  BY DEF Office, Groundwork, TypeOK, RoundsFit, AllGeometric
<1>2. ASSUME NEW e \in queue, Handles(e) PROVE Tidy' /\ NoAbort'
  <2>1. NoAbort'
    BY <1>1, <1>2, NoRaise DEF NoAbort
  <2>2. Undetected' /\ Unread'
    BY <1>2, StepUndetected, StepUnread DEF Tidy
  <2>3. Prompted' /\ Rested'
    BY <1>1, <1>2, StepPrompted, StepRested DEF Tidy
  <2>4. Undecided' /\ Stock'
    BY <1>1, <1>2, StepUndecided, StepStock
  <2>5. Attended'
    BY <1>1, <1>2, <2>1, StepAttended DEF Tidy, NoAbort
  <2>6. Room'
    BY <1>1, <1>2, StepRoom
  <2>7. QED
    BY <2>1, <2>2, <2>3, <2>4, <2>5, <2>6 DEF Tidy
<1>3. CASE Step
  BY <1>2, <1>3 DEF Step, Handles
<1>4. CASE Finish \/ UNCHANGED vars
  <2>1. UNCHANGED <<config, now, queue, source, gate, mem, meter, started, completed, round>>
    BY <1>4 DEF Finish, vars, schedulerVars, deviceVars, decisionVars
  <2>2. NoAbort'
    BY <1>4 DEF Finish, vars, schedulerVars, NoAbort, Errors
  <2>3. Undetected' /\ Unread' /\ Undecided' /\ Stock'
    BY <2>1 DEF Tidy, Undetected, Unread, Undecided, AtWork, Stock
  <2>4. Prompted'
    BY <2>1 DEF Tidy, Prompted, Silent, Pending
  <2>5. Attended' /\ Rested' /\ Room'
    BY <2>1 DEF Tidy, Attended, EndsSoon, Rested, Room
  <2>6. QED
    BY <2>2, <2>3, <2>4, <2>5 DEF Tidy
<1>5. QED
  BY <1>3, <1>4 DEF Next, Over

LEMMA InitTidy == ASSUME Init PROVE Tidy /\ NoAbort
<1>1. \A x \in queue : x.kind = "start"
  BY InitialEvents
<1>2. /\ mem = [m \in Holders |-> EmptySlot] /\ round = [r \in Rounds |-> FreshRound]
      /\ completed = [r \in Rounds |-> FALSE] /\ status = "running"
      /\ source = [busy |-> FALSE, freeAt |-> 0]
      /\ meter = [m \in Holders |-> [busy |-> FALSE, freeAt |-> 0]]
  BY DEF Init
<1>3. Undetected /\ Unread
  BY <1>1 DEF Undetected, Unread
<1>4. Prompted
  BY <1>1, <1>2 DEF Prompted, Silent, Pending, ReportOfV, FreshRound, NoObservation, Verifiers
<1>5. Undecided /\ Stock
  BY <1>2 DEF Undecided, Stock, EmptySlot
<1>6. Attended /\ Rested /\ Room
  BY <1>2 DEF Attended, Rested, Room, EmptySlot, Holders
<1>7. NoAbort
  BY <1>2 DEF NoAbort, Errors
<1>8. QED
  BY <1>3, <1>4, <1>5, <1>6, <1>7 DEF Tidy

LEMMA SessionOccupied == Spec => []Occupied
<1>1. Init => Occupied
  BY InitCustody DEF Custody
<1>2. Groundwork /\ Occupied /\ [Next]_vars => Occupied'
  <2> SUFFICES ASSUME Groundwork, Occupied, [Next]_vars PROVE Occupied'
    OBVIOUS
  <2>1. CASE Step
    BY <2>1, StepOccupied DEF Step, Handles
  <2>2. CASE Finish \/ UNCHANGED vars
    <3>1. UNCHANGED <<mem, started>>
      BY <2>2 DEF Finish, vars, deviceVars
    <3>2. QED
      BY <3>1 DEF Occupied
  <2>3. QED
    BY <2>1, <2>2 DEF Next, Over
<1>3. QED
  BY <1>1, <1>2, SessionGroundwork, PTL DEF Spec

LEMMA SessionTidy ==
  ASSUME \A c \in Configs : RoundsFit(c)
  PROVE  Spec => [](Office /\ Tidy /\ NoAbort)
<1>1. Init => Tidy /\ NoAbort
  BY InitTidy
<1>2. Groundwork /\ Books /\ Schedule /\ Occupied => Office
  BY DEF Office
<1>3. Groundwork => MemInv
  BY DEF Groundwork
<1>4. Office /\ MemInv' /\ Tidy /\ NoAbort /\ [Next]_vars => Tidy' /\ NoAbort'
  BY NextTidy
<1>5. QED
  BY <1>1, <1>2, <1>3, <1>4, SessionGroundwork, SessionBooks, SessionSchedule,
     SessionOccupied, PTL DEF Spec

\* No handler raises, whatever is lost, jammed or tampered with, when the devices
\* of a round are done before the next one starts and its inputs are not sent
\* before it does (EprSource.emit, TimedQuantumMemory.load,
\* TimedMeasurementDevice.measure, DeterministicScheduler.schedule_at).
THEOREM NothingRaises ==
  ASSUME \A c \in Configs : RoundsFit(c)
  PROVE  Spec => []NoAbort
BY SessionTidy, PTL

\* A round starts when every earlier one is decided and finds both memories empty
\* (_on_round_start, _finalize_round, estimate_round_period_ps).
THEOREM RoundsAreStartedClean ==
  ASSUME \A c \in Configs : RoundsFit(c)
  PROVE  Spec => RoundsStartClean
<1>1. ASSUME Office, Tidy, TypeOK', [Next]_vars, NEW r \in Rounds, started'[r] # started[r]
      PROVE  /\ \A s \in Rounds : s < r => completed[s]
             /\ \A m \in Holders : mem[m].state = "empty"
  <2>1. TypeOK /\ Agenda /\ RoundsFit(config) /\ AllGeometric
    BY <1>1 DEF Office, Groundwork, TypeOK, RoundsFit, AllGeometric
  <2>2. ~(Finish \/ UNCHANGED vars)
    BY <1>1 DEF Finish, vars
  <2>3. PICK e \in queue : Handles(e)
    BY <1>1, <2>2 DEF Next, Over, Step, Handles
  <2>4. e.kind = "start" /\ r = e.round
    <3>1. (started[r] => started'[r])
          /\ (started'[r] => started[r] \/ (e.kind = "start" /\ r = e.round))
      BY <2>1, <2>3, StartedMoves
    <3>2. started[r] \in BOOLEAN /\ started'[r] \in BOOLEAN
      BY <1>1, <2>1 DEF TypeOK
    <3>3. QED
      BY <1>1, <3>1, <3>2
  <2>5. IsFirst(e, queue) /\ status = "running"
    BY <2>3, StepIsFirst DEF Handles
  <2>6. \A s \in Rounds : s < e.round => completed[s]
    BY <2>1, <2>4, <2>5, EarlierAreDecided DEF Errors
  <2>7. \A m \in Holders : mem[m].state = "empty"
    BY <1>1, <2>1, <2>4, <2>5, CleanStart
  <2>8. QED
    BY <2>4, <2>6, <2>7
<1>2. Office /\ Tidy /\ TypeOK' /\ [Next]_vars =>
        [\A r \in Rounds :
           started'[r] # started[r] =>
             /\ \A s \in Rounds : s < r => completed[s]
             /\ \A m \in Holders : mem[m].state = "empty"]_vars
  BY <1>1
<1>3. QED
  BY <1>2, SessionTidy, SessionTypes, PTL DEF Spec, RoundsStartClean

-----------------------------------------------------------------------------
(* Detection and commitment: a round resolves once and commits once. *)

SameCommitment(n, rd) == n.outcome = rd.outcome /\ n.commitAt = rd.commitAt

\* What the handler of e does to the outcome and the commitment of its round.
CommitMoves(e) ==
  LET r == e.round  rd == round[r]  n == round'[r]  open == ~gate[r].resolved IN
  \/ /\ SameCommitment(n, rd) /\ ~IsLoad(e) /\ e.kind # "start"
     /\ gate'[r].resolved = gate[r].resolved /\ (e.kind = "qnd" => ~open)
  \/ /\ SameCommitment(n, rd) /\ e.kind = "start"
     /\ ~gate'[r].resolved \/ queue' = queue \ {e}
  \/ /\ open /\ gate'[r].resolved /\ e.kind = "qnd"
     /\ n.outcome = "valid_detection" /\ n.commitAt = rd.commitAt
  \/ /\ open /\ gate'[r].resolved /\ ~IsLoad(e) /\ e.kind # "start"
     /\ n.outcome \in Outcomes \ {"none", "valid_detection"} /\ n.commitAt # None
  \/ /\ IsLoad(e) /\ n.outcome = rd.outcome /\ n.commitAt # None
     /\ gate'[r].resolved = gate[r].resolved

LEMMA CommitsNow ==
  ASSUME TypeOK, RuntimeTypes, NEW e \in queue, NEW outcome, Commit(e, outcome)
  PROVE  round'[e.round].outcome = outcome /\ round'[e.round].commitAt # None
<1>1. /\ e.round \in Rounds /\ round[e.round] \in RoundType /\ e.when # None
      /\ round \in [Rounds -> RoundType]
  BY TypesOfEvent, SessionAssumption DEF RuntimeTypes
<1> DEFINE n == Committing(round[e.round], outcome, e.when)
<1>2. n.outcome = outcome /\ n.commitAt = e.when
  BY <1>1 DEF Committing, RoundType
<1>3. round'[e.round] = n
  BY <1>1, CommitRuns DEF Runs
<1>4. QED
  BY <1>1, <1>2, <1>3

LEMMA DetectorMoves ==
  ASSUME TypeOK, RuntimeTypes, NEW e \in queue, status' \notin Errors,
         PhotonArrives(e) \/ DetectionDone(e) \/ GateCloses(e)
  PROVE  CommitMoves(e)
<1> DEFINE r == e.round
<1>1. /\ r \in Rounds /\ round \in [Rounds -> RoundType] /\ config \in Configs
      /\ gate \in [Rounds -> [opens : Int, closes : Int, resolved : BOOLEAN]]
  BY TypesOfEvent DEF RuntimeTypes, TypeOK, DeviceType
<1>2. e.kind \in {"photon", "qnd", "gate"} /\ (e.kind = "qnd" => DetectionDone(e)) /\ ~IsLoad(e)
  BY DEF PhotonArrives, DetectionDone, GateCloses, Handle, IsLoad
<1>3. /\ config.can.close \subseteq {"missed_photon", "dark_count"}
      /\ config.can.qnd \subseteq {"valid_detection", "missed_photon", "state_destroyed"}
  BY <1>1, SessionAssumption DEF SessionConfig
<1>4. CASE UNCHANGED <<round, gate>> /\ (e.kind = "qnd" => gate[r].resolved)
  BY <1>2, <1>4 DEF CommitMoves, SameCommitment
<1>5. ASSUME NEW outcome \in Outcomes \ {"none", "valid_detection"}, Commit(e, outcome),
             ~gate[r].resolved
      PROVE  CommitMoves(e)
  <2>1. gate'[r].resolved
    BY <1>1, <1>5 DEF Commit
  <2>2. QED
    BY <1>2, <1>5, <2>1, CommitsNow DEF CommitMoves
<1>6. ASSUME round' = [round EXCEPT ![r].outcome = "valid_detection"], e.kind = "qnd",
             ~gate[r].resolved, gate' = [gate EXCEPT ![r].resolved = TRUE]
      PROVE  CommitMoves(e)
  <2>1. /\ round'[r].outcome = "valid_detection"
        /\ round'[r].commitAt = round[r].commitAt /\ gate'[r].resolved
    BY <1>1, <1>6 DEF RoundType
  <2>2. QED
    BY <1>6, <2>1 DEF CommitMoves
<1>7. CASE PhotonArrives(e)
  <2>1. \/ UNCHANGED <<round, gate>>
        \/ ~gate[r].resolved /\ Commit(e, "outside_gate")
        \/ ~gate[r].resolved /\ Commit(e, "detector_busy")
    BY <1>7 DEF PhotonArrives, Resolved, Passes, deviceVars
  <2>2. e.kind = "photon"
    BY <1>7 DEF PhotonArrives, Handle
  <2>3. QED
    BY <1>4, <1>5, <2>1, <2>2 DEF Outcomes
<1>8. CASE GateCloses(e)
  <2>1. \/ UNCHANGED <<round, gate>>
        \/ ~gate[r].resolved /\ \E outcome \in config.can.close : Commit(e, outcome)
    BY <1>8 DEF GateCloses, Resolved, Passes, deviceVars
  <2>2. e.kind = "gate"
    BY <1>8 DEF GateCloses, Handle
  <2>3. QED
    BY <1>3, <1>4, <1>5, <2>1, <2>2 DEF Outcomes
<1>9. CASE DetectionDone(e)
  <2>1. \/ UNCHANGED <<round, gate>> /\ gate[r].resolved
        \/ /\ ~gate[r].resolved
           /\ \E outcome \in config.can.qnd \ {"valid_detection"} : Commit(e, outcome)
        \/ /\ ~gate[r].resolved /\ round' = [round EXCEPT ![r].outcome = "valid_detection"]
           /\ gate' = [gate EXCEPT ![r].resolved = TRUE]
        \/ Raise(e, "InvalidDeviceState")
    BY <1>9 DEF DetectionDone, Resolved, Passes, deviceVars
  <2>2. ~Raise(e, "InvalidDeviceState") /\ e.kind = "qnd"
    BY <1>9 DEF Raise, Errors, DetectionDone, Handle
  <2>3. QED
    BY <1>3, <1>4, <1>5, <1>6, <2>1, <2>2 DEF Outcomes
<1>10. QED
  BY <1>7, <1>8, <1>9

\* Every other handler leaves the gate alone, but for the start of a round.
LEMMA GateStays ==
  ASSUME NEW e \in queue, Handles(e), e.kind \notin {"photon", "qnd", "gate", "start"}
  PROVE  gate' = gate
BY DEF Handles, DeviceStep, ProtocolStep, DecisionStep, PairReady, PairReadyRaises, PairFails,
   PhotonArrives, DetectionDone, GateCloses, LoadDone, LoadFails, Expire, RetrieveDone,
   ProverMeasured, V0Measured, StartRound, StartRoundRaises, SendChallenge, InterceptDone,
   SendReplacement, SendBasis, BasisArrives, VerifierReceives, RoundTimesOut, RejectPlan,
   ReportArrives, FinalTimesOut, Handle, Raise, Passes, deviceVars

LEMMA DetectorOfStep ==
  ASSUME NEW e \in queue, Handles(e), e.kind \in {"photon", "qnd", "gate"}
  PROVE  PhotonArrives(e) \/ DetectionDone(e) \/ GateCloses(e)
BY DEF Handles, DeviceStep, ProtocolStep, DecisionStep, PairReady, PairReadyRaises, PairFails,
   PhotonArrives, DetectionDone, GateCloses, LoadDone, LoadFails, Expire, RetrieveDone,
   ProverMeasured, V0Measured, StartRound, StartRoundRaises, SendChallenge, InterceptDone,
   SendReplacement, SendBasis, BasisArrives, VerifierReceives, RoundTimesOut, RejectPlan,
   ReportArrives, FinalTimesOut, Handle

\* Outside the detector and the prover's memory nothing is committed.
LEMMA OpCommits ==
  ASSUME NEW e, NEW rd, NEW n, NEW N, NEW u, NEW u1, Op(e, rd, n, N, u, u1),
         e.kind \notin {"photon", "qnd", "gate"}
  PROVE  n.outcome = rd.outcome /\ (SameCommitment(n, rd) \/ IsLoad(e))
<1>1. CASE IdleOp(e, rd, n, N)
  BY <1>1 DEF IdleOp, SameCommitment
<1>2. CASE CommitOp(e, rd, n, N) \/ DetectOp(e, rd, n, N)
  BY <1>2 DEF CommitOp, DetectOp
<1>3. CASE TryOp(e, rd, n, N)
  <2>1. PICK rd1, mm : /\ \/ rd1 = rd \/ ArrivalEffect(rd1, rd)
                          \/ IsLoad(e) /\ LoadEffect(rd1, rd, TRUE)
                       /\ TryEffect(n, rd1, mm)
    BY <1>3 DEF TryOp
  <2>2. QED
    BY <2>1 DEF TryEffect, ArrivalEffect, LoadEffect, SameCommitment
<1>4. CASE LoadFailsOp(e, rd, n, N) \/ RetrievedOp(e, rd, n, N)
  BY <1>4 DEF LoadFailsOp, RetrievedOp, LoadEffect, DwellEffect, SameCommitment
<1>5. CASE AnswersOp(e, rd, n, N) \/ V0Op(e, rd, n, N)
  BY <1>5 DEF AnswersOp, V0Op, BitEffect, ReportEffect, SameCommitment
<1>6. CASE SeesOp(e, rd, n, N)
  BY <1>6 DEF SeesOp, SeeingEffect, ReportEffect, SameCommitment
<1>7. CASE ReceivedOp(e, rd, n, N) \/ ForcedOp(e, rd, n, N)
  BY <1>7 DEF ReceivedOp, ForcedOp, ReceivedEffect, ReportEffect, SameCommitment
<1>8. QED
  BY <1>1, <1>2, <1>3, <1>4, <1>5, <1>6, <1>7 DEF Op

LEMMA LoadCommits ==
  ASSUME TypeOK, RuntimeTypes, NEW e \in queue, Handles(e), IsLoad(e)
  PROVE  round'[e.round].commitAt # None
<1> DEFINE rd == round[e.round]
<1>1. /\ e.round \in Rounds /\ rd \in RoundType /\ e.when # None
      /\ round \in [Rounds -> RoundType] /\ e.who = "prover"
  BY TypesOfEvent, SessionAssumption DEF RuntimeTypes, IsLoad
<1>2. CASE LoadDone(e)
  <2>1. round'[e.round] = AfterTry(LoadedRound(e), LoadedMem(e))
    BY <1>1, <1>2, DeviceRuns DEF Runs
  <2>2. LoadedRound(e) = [rd EXCEPT !.committed = TRUE, !.valid = TRUE, !.commitAt = e.when]
    BY <1>1 DEF LoadedRound
  <2>3. LoadedRound(e) \in RoundType /\ LoadedRound(e).commitAt = e.when
    <3>1. LoadedRound(e) \in RoundType
      BY <1>1, <1>2, LoadEffects
    <3>2. LoadedRound(e).commitAt = e.when
      BY <1>1, <2>2 DEF RoundType
    <3>3. QED
      BY <3>1, <3>2
  <2>4. AfterTry(LoadedRound(e), LoadedMem(e)).commitAt = e.when
    BY <2>3, SimpleEffects DEF TryEffect
  <2>5. QED
    BY <1>1, <2>1, <2>4
<1>3. CASE LoadFails(e)
  <2>1. round'[e.round] = [rd EXCEPT !.committed = FALSE, !.valid = FALSE, !.commitAt = e.when]
    BY <1>1, <1>3, DeviceRuns DEF Runs
  <2>2. round'[e.round].commitAt = e.when
    BY <1>1, <2>1 DEF RoundType
  <2>3. QED
    BY <1>1, <2>2
<1>4. QED
  BY <1>2, <1>3, HandlerOf DEF IsLoad

LEMMA StartOpensGate ==
  ASSUME TypeOK, NEW e \in queue, Handles(e), e.kind = "start", status' \notin Errors
  PROVE  ~gate'[e.round].resolved \/ queue' = queue \ {e}
<1>1. /\ e.round \in Rounds
      /\ gate \in [Rounds -> [opens : Int, closes : Int, resolved : BOOLEAN]]
  BY TypesOfEvent DEF TypeOK, DeviceType
<1>2. CASE StartRound(e)
  BY <1>1, <1>2 DEF StartRound
<1>3. CASE RejectPlan(e)
  BY <1>3, NothingLeft DEF RejectPlan, Leaves
<1>4. ~StartRoundRaises(e)
  BY DEF StartRoundRaises, Raise, Errors
<1>5. QED
  BY <1>2, <1>3, <1>4, GateOfStep DEF Handles

LEMMA StepCommits ==
  ASSUME Groundwork, NEW e \in queue, Handles(e), status' \notin Errors
  PROVE  CommitMoves(e)
<1> DEFINE r == e.round
           rd == round[r]
           n == round'[r]
<1>1. TypeOK /\ Agenda /\ MemInv /\ RuntimeTypes
  BY DEF Groundwork
<1>2. CASE e.kind \in {"photon", "qnd", "gate"}
  BY <1>1, <1>2, DetectorOfStep, DetectorMoves
<1>3. CASE e.kind \notin {"photon", "qnd", "gate"}
  <2>1. PICK m, N : Moves(e, m, N)
    BY <1>1, StepMoves DEF Handles
  <2>2. Op(e, rd, n, N, Unresolved(r), Unresolved(r)')
    BY <2>1 DEF Moves
  <2>3. n.outcome = rd.outcome /\ (SameCommitment(n, rd) \/ IsLoad(e))
    BY <1>3, <2>2, OpCommits
  <2>4. CASE e.kind = "start"
    BY <1>1, <2>3, <2>4, StartOpensGate DEF CommitMoves, IsLoad
  <2>5. CASE e.kind # "start"
    <3>1. gate'[r].resolved = gate[r].resolved
      BY <1>3, <2>5, GateStays
    <3>2. CASE IsLoad(e)
      BY <1>1, <2>3, <3>1, <3>2, LoadCommits DEF CommitMoves
    <3>3. CASE ~IsLoad(e)
      BY <1>3, <2>3, <2>5, <3>1, <3>3 DEF CommitMoves
    <3>4. QED
      BY <3>2, <3>3
  <2>6. QED
    BY <2>4, <2>5
<1>4. QED
  BY <1>2, <1>3

\* An unresolved round has no outcome and no commitment, a load of the prover's
\* memory is not yet committed to, and a challenge on its way finds the gate
\* unresolved or a round that has its outcome.
Committals ==
  \A r \in Rounds :
    LET rd == round[r] IN
    /\ Unresolved(r) => rd.outcome = "none" /\ rd.commitAt = None
    /\ rd.outcome \in {"none", "valid_detection"} \/ rd.commitAt # None
    /\ \A x \in Pending(r) :
         /\ IsLoad(x) => rd.commitAt = None
         /\ x.kind \in PhotonKinds \union {"epr"} =>
              ~gate[r].resolved \/ rd.outcome # "none"

LEMMA StepCommittals ==
  ASSUME Groundwork, Truths', Committals, NEW e \in queue, Handles(e), status' \notin Errors
  PROVE  Committals'
<1> SUFFICES ASSUME NEW q \in Rounds
             PROVE  /\ Unresolved(q)' => round'[q].outcome = "none" /\ round'[q].commitAt = None
                    /\ \/ round'[q].outcome \in {"none", "valid_detection"}
                       \/ round'[q].commitAt # None
                    /\ \A x \in Pending(q)' :
                         /\ IsLoad(x) => round'[q].commitAt = None
                         /\ x.kind \in PhotonKinds \union {"epr"} =>
                              ~gate'[q].resolved \/ round'[q].outcome # "none"
  BY DEF Committals
<1>1. TypeOK /\ Agenda /\ MemInv /\ RuntimeTypes /\ Truths
  BY DEF Groundwork
<1>2. PICK m, M : Moves(e, m, M)
  BY <1>1, StepMoves DEF Handles
<1>3. /\ started[q] => started'[q]
      /\ Unresolved(q)' => Unresolved(q)
      /\ q # e.round => UNCHANGED <<started[q], gate[q]>>
  BY <1>1, StepResolves DEF Handles
<1>4. CASE q # e.round
  BY <1>2, <1>3, <1>4 DEF Moves, Committals
<1>5. CASE q = e.round
  <2> DEFINE rd == round[q]
             n == round'[q]
             E == Pending(q)
             Photon(x) == x.kind \in PhotonKinds \union {"epr"}
  <2>1. PICK N : queue' = (queue \ {e}) \union N /\ \A x \in N : Child(e, x)
    BY <1>1, StepBegets DEF Handles, Begets, Leaves
  <2>2. /\ Unresolved(q) => rd.outcome = "none" /\ rd.commitAt = None
        /\ rd.outcome \in {"none", "valid_detection"} \/ rd.commitAt # None
        /\ \A x \in E : /\ IsLoad(x) => rd.commitAt = None
                        /\ Photon(x) => ~gate[q].resolved \/ rd.outcome # "none"
    BY DEF Committals
  <2>3. /\ \A x \in E : IsLoad(x) => ~Unresolved(q)
        /\ \A x, y \in E : IsLoad(x) /\ IsLoad(y) => x = y
        /\ \A x \in Pending(q)' : IsLoad(x) => n.outcome = "valid_detection"
    BY <1>1 DEF Truths, Truth, Detected
  <2>4. CommitMoves(e)
    BY StepCommits
  <2>5. e \in E /\ (e.kind # "start" => started[q])
    BY <1>1, <1>5 DEF Pending, Agenda, StartsAreAhead
  <2>6. \A x \in E : x.kind # "start" => e.kind # "start"
    BY <1>1, <1>5 DEF Pending, Agenda, StartsAreAhead
  <2>7. ASSUME NEW x \in Pending(q)' PROVE (x \in E /\ x # e) \/ Child(e, x)
    BY <2>1, <2>7 DEF Pending
  <2>8. ~gate[q].resolved => Unresolved(q)
    BY DEF Unresolved
  <2> DEFINE open == ~gate[q].resolved
             open1 == ~gate'[q].resolved
  <2>9. \/ /\ SameCommitment(n, rd) /\ ~IsLoad(e) /\ e.kind # "start" /\ open1 = open
           /\ (e.kind = "qnd" => ~open)
        \/ SameCommitment(n, rd) /\ e.kind = "start" /\ (open1 \/ queue' = queue \ {e})
        \/ /\ open /\ ~open1 /\ e.kind = "qnd"
           /\ n.outcome = "valid_detection" /\ n.commitAt = rd.commitAt
        \/ /\ open /\ ~open1 /\ ~IsLoad(e) /\ e.kind # "start"
           /\ n.outcome \in Outcomes \ {"none", "valid_detection"} /\ n.commitAt # None
        \/ IsLoad(e) /\ n.outcome = rd.outcome /\ n.commitAt # None /\ open1 = open
    BY <1>5, <2>4 DEF CommitMoves
  <2>10. Unresolved(q)' => n.outcome = "none" /\ n.commitAt = None
    <3>1. Unresolved(q)' => open1 \/ ~started[q]
      BY <1>3 DEF Unresolved
    <3>2. IsLoad(e) => ~Unresolved(q)
      BY <2>3, <2>5
    <3> HIDE DEF rd, n, E, open, open1
    <3>3. QED
      BY <1>3, <2>2, <2>5, <2>9, <3>1, <3>2 DEF SameCommitment
  <2>11. n.outcome \in {"none", "valid_detection"} \/ n.commitAt # None
    <3> HIDE DEF rd, n, E, open, open1
    <3>1. QED
      BY <2>2, <2>9 DEF SameCommitment
  <2>12. ASSUME NEW x \in Pending(q)', IsLoad(x) PROVE n.commitAt = None
    <3>1. CASE x \in E /\ x # e
      <4>1. rd.commitAt = None /\ ~Unresolved(q) /\ ~IsLoad(e)
        BY <2>2, <2>3, <2>5, <2>12, <3>1
      <4> HIDE DEF rd, n, E, open, open1
      <4>2. ~open
        BY <2>8, <4>1 DEF open
      <4>3. QED
        BY <2>9, <4>1, <4>2 DEF SameCommitment
    <3>2. CASE Child(e, x)
      <4>1. e.kind = "qnd" /\ open
        BY <1>5, <2>12, <3>2 DEF Child, IsLoad, PhotonKinds, DeskKinds
      <4>2. n.outcome = "valid_detection" /\ rd.commitAt = None /\ ~IsLoad(e)
        BY <2>2, <2>3, <2>8, <2>12, <4>1 DEF IsLoad
      <4> HIDE DEF rd, n, E, open, open1
      <4>3. QED
        BY <2>9, <4>1, <4>2
    <3>3. QED
      BY <2>7, <2>12, <3>1, <3>2
  <2>13. ASSUME NEW x \in Pending(q)', Photon(x) PROVE open1 \/ n.outcome # "none"
    <3>1. x.kind # "start"
      BY <2>13 DEF PhotonKinds
    <3>2. CASE x \in E /\ x # e
      <4>1. e.kind # "start" /\ (open \/ rd.outcome # "none")
        BY <2>2, <2>6, <2>13, <3>1, <3>2
      <4> HIDE DEF rd, n, E, open, open1
      <4>2. QED
        BY <2>9, <4>1 DEF SameCommitment
    <3>3. CASE Child(e, x) /\ x \notin E
      <4>1. e.kind = "start" \/ Photon(e)
        BY <2>13, <3>3 DEF Child, PhotonKinds, DeskKinds
      <4>2. queue' # queue \ {e}
        BY <2>13, <3>3 DEF Pending
      <4>3. Photon(e) => open \/ rd.outcome # "none"
        BY <2>2, <2>5
      <4>4. Photon(e) => e.kind # "start" /\ ~IsLoad(e)
        BY DEF PhotonKinds, IsLoad
      <4>5. e.kind = "start" => open1 \/ IsLoad(e)
        BY <2>9, <4>2
      <4>6. e.kind = "start" => ~IsLoad(e)
        BY DEF IsLoad
      <4> HIDE DEF rd, n, E, open, open1, Photon
      <4>7. QED
        BY <2>9, <4>1, <4>3, <4>4, <4>5, <4>6 DEF SameCommitment
    <3>4. CASE x = e
      <4>1. Photon(e) /\ e.kind # "start" /\ ~IsLoad(e) /\ (open \/ rd.outcome # "none")
        BY <2>2, <2>5, <2>13, <3>1, <3>4 DEF PhotonKinds, IsLoad
      <4> HIDE DEF rd, n, E, open, open1, Photon
      <4>2. QED
        BY <2>9, <4>1 DEF SameCommitment
    <3>5. QED
      BY <2>7, <2>13, <3>2, <3>3, <3>4
  <2>14. QED
    BY <2>10, <2>11, <2>12, <2>13
<1>6. QED
  BY <1>4, <1>5

\* A plan is refused when its round starts or never.
LEMMA NotRefused ==
  ASSUME Office, NEW e \in queue, Handles(e), NEW q \in Rounds, started[q], ~Refused(q)
  PROVE  ~Refused(q)'
<1>1. TypeOK /\ Agenda /\ MemInv /\ RuntimeTypes /\ Books
  BY DEF Office, Groundwork
<1>2. CASE UNCHANGED results
  BY <1>2 DEF Refused
<1>3. ASSUME NEW x, Adds(e, x) PROVE ~Refused(q)'
  <2>1. x.round = q => x.outcome # "not_executed"
    <3>1. CASE x = RejectedResult(e.round, PreflightReasons(e.round)) /\ e.kind = "start"
      <4>1. ~started[e.round] /\ x.round = e.round
        BY <1>1, <3>1 DEF Agenda, StartsAreAhead, RejectedResult
      <4>2. QED
        BY <4>1
    <3>2. CASE x = RoundResult(e.round, round'[e.round])
      <4>1. PICK m, M : Moves(e, m, M)
        BY <1>1, StepMoves DEF Handles
      <4>2. round'[e.round].outcome \in Outcomes
        BY <4>1 DEF Moves, RoundType
      <4>3. x.outcome = round'[e.round].outcome
        BY <3>2 DEF RoundResult
      <4>4. QED
        BY <4>2, <4>3 DEF Outcomes
    <3>3. QED
      BY <1>3, <3>1, <3>2 DEF Adds
  <2>2. \A i \in DOMAIN results' : results'[i] = x \/ (i \in DOMAIN results /\ results'[i] = results[i])
    BY <1>1, <1>3 DEF Books, Adds
  <2>3. QED
    BY <2>1, <2>2 DEF Refused
<1>4. QED
  BY <1>1, <1>2, <1>3, StepAdds DEF Handles

LEMMA InitCommittals == ASSUME Init PROVE Committals
<1>1. /\ \A r \in Rounds : /\ ~started[r]
                           /\ round[r].outcome = "none" /\ round[r].commitAt = None
      /\ \A x \in queue : x.kind = "start"
  <2>1. ASSUME NEW x \in queue PROVE x.kind = "start"
    BY InitialEvents
  <2>2. ASSUME NEW r \in Rounds
        PROVE  ~started[r] /\ round[r].outcome = "none" /\ round[r].commitAt = None
    BY DEF Init, FreshRound
  <2>3. QED
    BY <2>1, <2>2
<1>2. QED
  BY <1>1 DEF Committals, Pending, IsLoad, PhotonKinds

-----------------------------------------------------------------------------
(* States read off signs, and the moves that enter them. *)

LEMMA FurthestIs ==
  ASSUME NEW course, DOMAIN course \subseteq Int, NEW signs, NEW i \in DOMAIN course,
         signs[course[i]], \A j \in DOMAIN course : j > i => ~signs[course[j]]
  PROVE  Furthest(course, signs) = course[i]
<1> DEFINE P(k) == signs[course[k]] /\ \A j \in DOMAIN course : j > k => ~signs[course[j]]
<1>1. \A k \in DOMAIN course : P(k) <=> k = i
  OBVIOUS
<1>2. (CHOOSE k \in DOMAIN course : P(k)) = i
  BY <1>1
<1>3. QED
  BY <1>2 DEF Furthest

LEMMA ListedMove ==
  ASSUME NEW table, NEW s \in DOMAIN table, NEW t \in table[s]
  PROVE  <<s, t>> \in Listed(table)
BY DEF Listed

LEMMA EntersOne ==
  ASSUME NEW moves, NEW course, NEW s, NEW entered, NEW t, entered \subseteq {t},
         t \in entered => <<s, t>> \in moves
  PROVE  Follows(moves, course, s, entered)
<1>1. entered = {} \/ entered = {t}
  OBVIOUS
<1>2. QED
  BY <1>1 DEF Follows

LEMMA EntersTwo ==
  ASSUME NEW moves, NEW course, NEW s, NEW entered, NEW i \in DOMAIN course,
         NEW j \in DOMAIN course, i < j, NEW t, NEW u, t = course[i], u = course[j],
         entered \subseteq {t, u}, t \in entered, <<s, t>> \in moves, <<t, u>> \in moves
  PROVE  Follows(moves, course, s, entered)
<1>1. entered = {t} \/ entered = {t, u}
  OBVIOUS
<1>2. QED
  BY <1>1 DEF Follows

LEMMA EntersNothing ==
  ASSUME NEW moves, NEW course, NEW s, NEW before, NEW after,
         \A t \in DOMAIN before : after[t] => before[t]
  PROVE  Follows(moves, course, s, Entered(before, after))
BY DEF Follows, Entered

-----------------------------------------------------------------------------
(* The prover. *)

\* The signs, given the runtime and whether a detection or a measurement is
\* pending.
ProverSignsOf(rd, detecting, reading) ==
  [waiting_for_challenge   |-> TRUE,
   qnd_in_progress         |-> detecting,
   memory_loading          |-> rd.outcome = "valid_detection",
   no_commitment           |-> rd.commitAt # None /\ ~rd.committed,
   committed_without_state |-> rd.committed /\ ~rd.valid,
   committed_with_state    |-> rd.committed /\ rd.valid,
   memory_retrieving       |-> rd.measuring,
   measuring               |-> reading,
   answer_sent             |-> rd.bit["prover"] # None]

\* The furthest of them.
ProverStateOf(rd, detecting, reading) ==
  IF rd.bit["prover"] # None                    THEN "answer_sent"
  ELSE IF reading                               THEN "measuring"
  ELSE IF rd.measuring                          THEN "memory_retrieving"
  ELSE IF rd.committed /\ rd.valid              THEN "committed_with_state"
  ELSE IF rd.committed                          THEN "committed_without_state"
  ELSE IF rd.commitAt # None                    THEN "no_commitment"
  ELSE IF rd.outcome = "valid_detection"        THEN "memory_loading"
  ELSE IF detecting                             THEN "qnd_in_progress"
  ELSE "waiting_for_challenge"

LEMMA ProverSigned ==
  ASSUME NEW rd \in RoundType, NEW detecting \in BOOLEAN, NEW reading \in BOOLEAN
  PROVE  LET S == ProverSignsOf(rd, detecting, reading) IN
         /\ DOMAIN S = {"waiting_for_challenge", "qnd_in_progress", "memory_loading",
                        "no_commitment", "committed_without_state", "committed_with_state",
                        "memory_retrieving", "measuring", "answer_sent"}
         /\ S["waiting_for_challenge"] /\ (S["qnd_in_progress"] <=> detecting)
         /\ S["memory_loading"] <=> rd.outcome = "valid_detection"
         /\ S["no_commitment"] <=> rd.commitAt # None /\ ~rd.committed
         /\ S["committed_without_state"] <=> rd.committed /\ ~rd.valid
         /\ S["committed_with_state"] <=> rd.committed /\ rd.valid
         /\ (S["memory_retrieving"] <=> rd.measuring) /\ (S["measuring"] <=> reading)
         /\ S["answer_sent"] <=> rd.bit["prover"] # None
<1>1. rd.measuring \in BOOLEAN /\ rd.committed \in BOOLEAN /\ rd.valid \in BOOLEAN
  BY DEF RoundType
<1>2. QED
  BY <1>1 DEF ProverSignsOf

LEMMA ProverFurthest ==
  ASSUME NEW rd \in RoundType, NEW detecting \in BOOLEAN, NEW reading \in BOOLEAN
  PROVE  Furthest(ProverCourse, ProverSignsOf(rd, detecting, reading))
           = ProverStateOf(rd, detecting, reading)
<1> DEFINE C == ProverCourse
           S == ProverSignsOf(rd, detecting, reading)
           On(i) == S[C[i]]
           Last(i) == i \in 1 .. 9 /\ On(i) /\ \A j \in 1 .. 9 : j > i => ~On(j)
<1>1. /\ DOMAIN C = 1 .. 9
      /\ C[1] = "waiting_for_challenge" /\ C[2] = "qnd_in_progress" /\ C[3] = "memory_loading"
      /\ C[4] = "no_commitment" /\ C[5] = "committed_without_state"
      /\ C[6] = "committed_with_state" /\ C[7] = "memory_retrieving" /\ C[8] = "measuring"
      /\ C[9] = "answer_sent"
  BY DEF ProverCourse
<1> HIDE DEF C
<1>2. /\ On(1) /\ (On(2) <=> detecting) /\ (On(3) <=> rd.outcome = "valid_detection")
      /\ On(4) <=> rd.commitAt # None /\ ~rd.committed
      /\ On(5) <=> rd.committed /\ ~rd.valid
      /\ On(6) <=> rd.committed /\ rd.valid
      /\ (On(7) <=> rd.measuring) /\ (On(8) <=> reading) /\ (On(9) <=> rd.bit["prover"] # None)
  <2>1. /\ S["waiting_for_challenge"] /\ (S["qnd_in_progress"] <=> detecting)
        /\ S["memory_loading"] <=> rd.outcome = "valid_detection"
        /\ S["no_commitment"] <=> rd.commitAt # None /\ ~rd.committed
        /\ S["committed_without_state"] <=> rd.committed /\ ~rd.valid
        /\ S["committed_with_state"] <=> rd.committed /\ rd.valid
        /\ (S["memory_retrieving"] <=> rd.measuring) /\ (S["measuring"] <=> reading)
        /\ S["answer_sent"] <=> rd.bit["prover"] # None
    BY ProverSigned
  <2> HIDE DEF S
  <2>2. QED
    BY <1>1, <2>1
<1>3. \A i \in 1 .. 9 : Last(i) => Furthest(C, S) = C[i]
  BY <1>1, FurthestIs
<1> HIDE DEF S
<1>4. \E i \in 1 .. 9 : Last(i) /\ C[i] = ProverStateOf(rd, detecting, reading)
  <2> DEFINE P == ProverStateOf(rd, detecting, reading)
  <2> HIDE DEF On
  <2>1. On(9) => Last(9) /\ C[9] = P
    BY <1>1, <1>2 DEF ProverStateOf
  <2>2. ~On(9) /\ On(8) => Last(8) /\ C[8] = P
    BY <1>1, <1>2 DEF ProverStateOf
  <2>3. ~On(9) /\ ~On(8) /\ On(7) => Last(7) /\ C[7] = P
    BY <1>1, <1>2 DEF ProverStateOf
  <2>4. ~On(9) /\ ~On(8) /\ ~On(7) /\ On(6) => Last(6) /\ C[6] = P
    BY <1>1, <1>2 DEF ProverStateOf
  <2>5. ~On(9) /\ ~On(8) /\ ~On(7) /\ ~On(6) /\ On(5) => Last(5) /\ C[5] = P
    BY <1>1, <1>2 DEF ProverStateOf
  <2>6. ~On(9) /\ ~On(8) /\ ~On(7) /\ ~On(6) /\ ~On(5) /\ On(4) => Last(4) /\ C[4] = P
    BY <1>1, <1>2 DEF ProverStateOf
  <2>7. ~On(9) /\ ~On(8) /\ ~On(7) /\ ~On(6) /\ ~On(5) /\ ~On(4) /\ On(3)
          => Last(3) /\ C[3] = P
    BY <1>1, <1>2 DEF ProverStateOf
  <2>8. ~On(9) /\ ~On(8) /\ ~On(7) /\ ~On(6) /\ ~On(5) /\ ~On(4) /\ ~On(3) /\ On(2)
          => Last(2) /\ C[2] = P
    BY <1>1, <1>2 DEF ProverStateOf
  <2>9. ~On(9) /\ ~On(8) /\ ~On(7) /\ ~On(6) /\ ~On(5) /\ ~On(4) /\ ~On(3) /\ ~On(2)
          => Last(1) /\ C[1] = P
    BY <1>1, <1>2 DEF ProverStateOf
  <2> HIDE DEF Last, P
  <2>10. QED
    BY <2>1, <2>2, <2>3, <2>4, <2>5, <2>6, <2>7, <2>8, <2>9 DEF P
<1>5. QED
  BY <1>3, <1>4 DEF C, S

\* What the session keeps true of a round's runtime.
Standing(rd, reading) ==
  /\ rd.valid => rd.committed /\ rd.outcome = "valid_detection"
  /\ rd.committed => rd.commitAt # None /\ (rd.valid \/ rd.outcome = "dark_count")
  /\ rd.measuring => rd.valid
  /\ rd.bit["prover"] # None => rd.measuring
  /\ reading => rd.measuring /\ rd.bit["prover"] = None

\* All but the measurement and the prover's bit is as it was.
SameDetection(n, rd) ==
  SameCommitment(n, rd) /\ n.committed = rd.committed /\ n.valid = rd.valid

\* What a handler does to the prover's round, d and g saying before the step, and
\* d1 and g1 after it, whether a detection and a measurement are pending.
Unchallenged(rd) == rd.outcome = "none" /\ rd.commitAt = None

Rests(rd, n, d, d1, g, g1) ==
  /\ SameDetection(n, rd) /\ n.measuring = rd.measuring
  /\ n.bit["prover"] = rd.bit["prover"] /\ (d1 => d) /\ (g1 => g)

Detects(rd, n, g, g1) ==
  /\ SameDetection(n, rd) /\ n.measuring = rd.measuring
  /\ n.bit["prover"] = rd.bit["prover"] /\ (g1 => g) /\ Unchallenged(rd)

Commits(rd, n, d, d1, g, g1) ==
  /\ Unchallenged(rd) /\ n.outcome \notin {"none", "valid_detection"} /\ n.commitAt # None
  /\ n.committed = (n.outcome = "dark_count") /\ ~n.valid /\ n.measuring = rd.measuring
  /\ n.bit["prover"] = rd.bit["prover"] /\ (d1 => d) /\ (g1 => g)

Loads(rd, n, d, d1, g, g1) ==
  /\ d /\ Unchallenged(rd) /\ n.outcome = "valid_detection" /\ n.commitAt = rd.commitAt
  /\ n.committed = rd.committed /\ n.valid = rd.valid /\ n.measuring = rd.measuring
  /\ n.bit["prover"] = rd.bit["prover"] /\ (d1 => d) /\ (g1 => g)

IsLoaded(rd, n, d, d1, g, g1) ==
  /\ rd.outcome = "valid_detection" /\ rd.commitAt = None
  /\ n.outcome = rd.outcome /\ n.commitAt # None /\ n.committed = n.valid
  /\ n.measuring => rd.measuring \/ n.valid
  /\ n.bit["prover"] = rd.bit["prover"] /\ (d1 => d) /\ (g1 => g)

Retrieves(rd, n, d, d1, g, g1) ==
  /\ SameDetection(n, rd) /\ rd.valid /\ ~rd.measuring
  /\ n.bit["prover"] = rd.bit["prover"] /\ (d1 => d) /\ (g1 => g)

Reads(rd, n, d, d1, g) ==
  /\ SameDetection(n, rd) /\ n.measuring = rd.measuring /\ rd.measuring
  /\ n.bit["prover"] = rd.bit["prover"] /\ rd.bit["prover"] = None /\ ~g /\ (d1 => d)

Answered(rd, n, d, d1, g, g1) ==
  SameDetection(n, rd) /\ n.measuring = rd.measuring /\ g /\ (d1 => d) /\ (g1 => g)

LEMMA ProverTakes ==
  ASSUME NEW rd \in RoundType, NEW n \in RoundType, NEW d \in BOOLEAN, NEW d1 \in BOOLEAN,
         NEW g \in BOOLEAN, NEW g1 \in BOOLEAN, Standing(rd, g),
         NEW moves, Listed(ProverTable) \subseteq moves,
         \/ Rests(rd, n, d, d1, g, g1) \/ Detects(rd, n, g, g1)
         \/ /\ Commits(rd, n, d, d1, g, g1)
            /\ n.outcome = "dark_count" /\ ~d =>
                 <<"waiting_for_challenge", "committed_without_state">> \in moves
         \/ Loads(rd, n, d, d1, g, g1) \/ IsLoaded(rd, n, d, d1, g, g1)
         \/ Retrieves(rd, n, d, d1, g, g1) \/ Reads(rd, n, d, d1, g)
         \/ Answered(rd, n, d, d1, g, g1)
  PROVE  Follows(moves, ProverCourse, Furthest(ProverCourse, ProverSignsOf(rd, d, g)),
                 Entered(ProverSignsOf(rd, d, g), ProverSignsOf(n, d1, g1)))
<1> DEFINE S == ProverSignsOf(rd, d, g)
           T == ProverSignsOf(n, d1, g1)
           s == ProverStateOf(rd, d, g)
           E == Entered(S, T)
<1>1. /\ DOMAIN S = {"waiting_for_challenge", "qnd_in_progress", "memory_loading",
                     "no_commitment", "committed_without_state", "committed_with_state",
                     "memory_retrieving", "measuring", "answer_sent"}
      /\ S["waiting_for_challenge"] /\ (S["qnd_in_progress"] <=> d)
      /\ S["memory_loading"] <=> rd.outcome = "valid_detection"
      /\ S["no_commitment"] <=> rd.commitAt # None /\ ~rd.committed
      /\ S["committed_without_state"] <=> rd.committed /\ ~rd.valid
      /\ S["committed_with_state"] <=> rd.committed /\ rd.valid
      /\ (S["memory_retrieving"] <=> rd.measuring) /\ (S["measuring"] <=> g)
      /\ S["answer_sent"] <=> rd.bit["prover"] # None
  BY ProverSigned
<1>2. /\ (T["qnd_in_progress"] <=> d1)
      /\ T["memory_loading"] <=> n.outcome = "valid_detection"
      /\ T["no_commitment"] <=> n.commitAt # None /\ ~n.committed
      /\ T["committed_without_state"] <=> n.committed /\ ~n.valid
      /\ T["committed_with_state"] <=> n.committed /\ n.valid
      /\ (T["memory_retrieving"] <=> n.measuring) /\ (T["measuring"] <=> g1)
      /\ T["answer_sent"] <=> n.bit["prover"] # None
  BY ProverSigned
<1>3. SUFFICES Follows(moves, ProverCourse, s, E)
  BY ProverFurthest
<1> HIDE DEF S, T, s
<1>4. ASSUME NEW X, \A t \in DOMAIN S \ X : T[t] => S[t] PROVE E \subseteq X
  BY <1>4 DEF Entered
<1>5. (\A t \in DOMAIN S : T[t] => S[t]) => Follows(moves, ProverCourse, s, E)
  BY EntersNothing DEF E
<1> HIDE DEF E
<1>6. ASSUME NEW t, E \subseteq {t}, <<s, t>> \in moves PROVE Follows(moves, ProverCourse, s, E)
  BY <1>6, EntersOne
<1>7. ASSUME NEW a \in DOMAIN ProverTable, NEW b \in ProverTable[a] PROVE <<a, b>> \in moves
  BY <1>7, ListedMove
<1>8. CASE Rests(rd, n, d, d1, g, g1)
  <2>1. \A t \in DOMAIN S : T[t] => S[t]
    BY <1>1, <1>2, <1>8 DEF Rests, SameDetection, SameCommitment
  <2>2. QED
    BY <1>5, <2>1
<1>9. CASE Detects(rd, n, g, g1)
  <2>1. \A t \in DOMAIN S \ {"qnd_in_progress"} : T[t] => S[t]
    BY <1>1, <1>2, <1>9 DEF Detects, SameDetection, SameCommitment
  <2>2. s = IF d THEN "qnd_in_progress" ELSE "waiting_for_challenge"
    BY <1>9 DEF Detects, Unchallenged, Standing, s, ProverStateOf
  <2>3. <<"waiting_for_challenge", "qnd_in_progress">> \in moves
    BY <1>7 DEF ProverTable
  <2>4. CASE d
    <3>1. \A t \in DOMAIN S : T[t] => S[t]
      BY <1>1, <2>1, <2>4
    <3>2. QED
      BY <1>5, <3>1
  <2>5. CASE ~d
    <3>1. E \subseteq {"qnd_in_progress"}
      BY <1>4, <2>1
    <3>2. QED
      BY <1>6, <2>2, <2>3, <2>5, <3>1
  <2>6. QED
    BY <2>4, <2>5
<1>10. CASE /\ Commits(rd, n, d, d1, g, g1)
            /\ n.outcome = "dark_count" /\ ~d =>
                 <<"waiting_for_challenge", "committed_without_state">> \in moves
  <2>1. s = IF d THEN "qnd_in_progress" ELSE "waiting_for_challenge"
    BY <1>10 DEF Commits, Unchallenged, Standing, s, ProverStateOf
  <2>2. /\ <<"waiting_for_challenge", "no_commitment">> \in moves
        /\ <<"qnd_in_progress", "no_commitment">> \in moves
        /\ <<"qnd_in_progress", "committed_without_state">> \in moves
    BY <1>7 DEF ProverTable
  <2>3. CASE n.outcome = "dark_count"
    <3>1. \A t \in DOMAIN S \ {"committed_without_state"} : T[t] => S[t]
      BY <1>1, <1>2, <1>10, <2>3 DEF Commits, Standing
    <3>2. E \subseteq {"committed_without_state"}
      BY <1>4, <3>1
    <3>3. QED
      BY <1>6, <1>10, <2>1, <2>2, <2>3, <3>2
  <2>4. CASE n.outcome # "dark_count"
    <3>1. \A t \in DOMAIN S \ {"no_commitment"} : T[t] => S[t]
      BY <1>1, <1>2, <1>10, <2>4 DEF Commits, Standing
    <3>2. E \subseteq {"no_commitment"}
      BY <1>4, <3>1
    <3>3. QED
      BY <1>6, <2>1, <2>2, <3>2
  <2>5. QED
    BY <2>3, <2>4
<1>11. CASE Loads(rd, n, d, d1, g, g1)
  <2>1. \A t \in DOMAIN S \ {"memory_loading"} : T[t] => S[t]
    BY <1>1, <1>2, <1>11 DEF Loads
  <2>2. s = "qnd_in_progress"
    BY <1>11 DEF Loads, Unchallenged, Standing, s, ProverStateOf
  <2>3. E \subseteq {"memory_loading"} /\ <<"qnd_in_progress", "memory_loading">> \in moves
    BY <1>4, <1>7, <2>1 DEF ProverTable
  <2>4. QED
    BY <1>6, <2>2, <2>3
<1>12. CASE IsLoaded(rd, n, d, d1, g, g1)
  <2>1. s = "memory_loading" /\ ~rd.measuring
    BY <1>12 DEF IsLoaded, Standing, s, ProverStateOf
  <2>2. /\ <<"memory_loading", "no_commitment">> \in moves
        /\ <<"memory_loading", "committed_with_state">> \in moves
        /\ <<"committed_with_state", "memory_retrieving">> \in moves
    BY <1>7 DEF ProverTable
  <2>3. CASE ~n.valid
    <3>1. \A t \in DOMAIN S \ {"no_commitment"} : T[t] => S[t]
      BY <1>1, <1>2, <1>12, <2>3 DEF IsLoaded
    <3>2. E \subseteq {"no_commitment"}
      BY <1>4, <3>1
    <3>3. QED
      BY <1>6, <2>1, <2>2, <3>2
  <2>4. CASE n.valid
    <3>1. \A t \in DOMAIN S \ {"committed_with_state", "memory_retrieving"} : T[t] => S[t]
      BY <1>1, <1>2, <1>12, <2>4 DEF IsLoaded
    <3>2. E \subseteq {"committed_with_state", "memory_retrieving"}
      BY <1>4, <3>1
    <3>3. "committed_with_state" \in E
      <4>1. T["committed_with_state"] /\ ~S["committed_with_state"]
        BY <1>1, <1>2, <1>12, <2>4 DEF IsLoaded, Standing, RoundType
      <4>2. QED
        BY <1>1, <4>1 DEF E, Entered
    <3>4. /\ 6 \in DOMAIN ProverCourse /\ "committed_with_state" = ProverCourse[6]
          /\ 7 \in DOMAIN ProverCourse /\ "memory_retrieving" = ProverCourse[7] /\ 6 < 7
      BY DEF ProverCourse
    <3>5. QED
      BY <2>1, <2>2, <3>2, <3>3, <3>4, EntersTwo
  <2>5. QED
    BY <2>3, <2>4
<1>13. CASE Retrieves(rd, n, d, d1, g, g1)
  <2>1. \A t \in DOMAIN S \ {"memory_retrieving"} : T[t] => S[t]
    BY <1>1, <1>2, <1>13 DEF Retrieves, SameDetection, SameCommitment
  <2>2. s = "committed_with_state"
    BY <1>13 DEF Retrieves, Standing, s, ProverStateOf
  <2>3. /\ E \subseteq {"memory_retrieving"}
        /\ <<"committed_with_state", "memory_retrieving">> \in moves
    BY <1>4, <1>7, <2>1 DEF ProverTable
  <2>4. QED
    BY <1>6, <2>2, <2>3
<1>14. CASE Reads(rd, n, d, d1, g)
  <2>1. \A t \in DOMAIN S \ {"measuring"} : T[t] => S[t]
    BY <1>1, <1>2, <1>14 DEF Reads, SameDetection, SameCommitment
  <2>2. s = "memory_retrieving"
    BY <1>14 DEF Reads, Standing, s, ProverStateOf
  <2>3. E \subseteq {"measuring"} /\ <<"memory_retrieving", "measuring">> \in moves
    BY <1>4, <1>7, <2>1 DEF ProverTable
  <2>4. QED
    BY <1>6, <2>2, <2>3
<1>15. CASE Answered(rd, n, d, d1, g, g1)
  <2>1. \A t \in DOMAIN S \ {"answer_sent"} : T[t] => S[t]
    BY <1>1, <1>2, <1>15 DEF Answered, SameDetection, SameCommitment
  <2>2. s = "measuring"
    BY <1>15 DEF Answered, Standing, s, ProverStateOf
  <2>3. E \subseteq {"answer_sent"} /\ <<"measuring", "answer_sent">> \in moves
    BY <1>4, <1>7, <2>1 DEF ProverTable
  <2>4. QED
    BY <1>6, <2>2, <2>3
<1> QED
  BY <1>8, <1>9, <1>10, <1>11, <1>12, <1>13, <1>14, <1>15

-----------------------------------------------------------------------------
(* What the handlers do to the prover's round. *)

\* The detector.
LEMMA DetectorDoes ==
  ASSUME TypeOK, RuntimeTypes, NEW e \in queue, Handles(e), status' \notin Errors,
         e.kind \in {"photon", "qnd", "gate"}
  PROVE  LET r == e.round  rd == round[r]  n == round'[r] IN
         \/ n = rd /\ (e.kind = "qnd" => gate[r].resolved)
         \/ /\ ~gate[r].resolved /\ gate'[r].resolved /\ n.commitAt # None
            /\ \E outcome \in Outcomes \ {"none", "valid_detection"} :
                 CommittingEffect(n, rd, outcome) /\ (outcome = "dark_count" => e.kind = "gate")
         \/ ~gate[r].resolved /\ e.kind = "qnd" /\ DetectedEffect(n, rd)
<1> DEFINE r == e.round
           rd == round[r]
           n == round'[r]
           Closes == /\ ~gate[r].resolved /\ gate'[r].resolved /\ n.commitAt # None
                     /\ \E outcome \in Outcomes \ {"none", "valid_detection"} :
                          /\ CommittingEffect(n, rd, outcome)
                          /\ outcome = "dark_count" => e.kind = "gate"
<1>1. /\ r \in Rounds /\ round \in [Rounds -> RoundType] /\ config \in Configs
      /\ gate \in [Rounds -> [opens : Int, closes : Int, resolved : BOOLEAN]]
  BY TypesOfEvent DEF RuntimeTypes, TypeOK, DeviceType
<1>2. rd \in RoundType
  BY <1>1
<1>3. /\ config.can.close \subseteq {"missed_photon", "dark_count"}
      /\ config.can.qnd \subseteq {"valid_detection", "missed_photon", "state_destroyed"}
  BY <1>1, SessionAssumption DEF SessionConfig
<1>4. ASSUME NEW outcome \in Outcomes \ {"none", "valid_detection"}, Commit(e, outcome),
             ~gate[r].resolved, outcome = "dark_count" => e.kind = "gate"
      PROVE  Closes
  <2>1. gate'[r].resolved
    BY <1>1, <1>4 DEF Commit
  <2>2. round' = [round EXCEPT ![r] = Committing(rd, outcome, e.when)]
    BY <1>1, <1>4, CommitRuns DEF Runs
  <2>3. n = Committing(rd, outcome, e.when)
    BY <1>1, <2>2
  <2>4. CommittingEffect(n, rd, outcome)
    BY <1>2, <2>3, SimpleEffects
  <2>5. n.commitAt # None
    BY <1>4, CommitsNow
  <2>6. QED
    BY <1>4, <2>1, <2>4, <2>5
<1>5. CASE PhotonArrives(e)
  <2>1. \/ UNCHANGED round
        \/ ~gate[r].resolved /\ Commit(e, "outside_gate")
        \/ ~gate[r].resolved /\ Commit(e, "detector_busy")
    BY <1>5 DEF PhotonArrives, Resolved, Passes
  <2>2. /\ e.kind = "photon"
        /\ {"outside_gate", "detector_busy"} \subseteq Outcomes \ {"none", "valid_detection"}
    BY <1>5 DEF PhotonArrives, Handle, Outcomes
  <2> HIDE DEF Closes
  <2>3. n = rd \/ Closes
    BY <1>4, <2>1, <2>2
  <2>4. QED
    BY <2>2, <2>3 DEF Closes
<1>6. CASE GateCloses(e)
  <2>1. \/ UNCHANGED round
        \/ ~gate[r].resolved /\ \E outcome \in config.can.close : Commit(e, outcome)
    BY <1>6 DEF GateCloses, Resolved, Passes
  <2>2. /\ e.kind = "gate"
        /\ {"missed_photon", "dark_count"} \subseteq Outcomes \ {"none", "valid_detection"}
    BY <1>6 DEF GateCloses, Handle, Outcomes
  <2> HIDE DEF Closes
  <2>3. n = rd \/ Closes
    BY <1>3, <1>4, <2>1, <2>2
  <2>4. QED
    BY <2>2, <2>3 DEF Closes
<1>7. CASE DetectionDone(e)
  <2>1. \/ UNCHANGED round /\ gate[r].resolved
        \/ /\ ~gate[r].resolved
           /\ \E outcome \in config.can.qnd \ {"valid_detection"} : Commit(e, outcome)
        \/ ~gate[r].resolved /\ round' = [round EXCEPT ![r].outcome = "valid_detection"]
        \/ Raise(e, "InvalidDeviceState")
    BY <1>7 DEF DetectionDone, Resolved, Passes
  <2>2. ~Raise(e, "InvalidDeviceState") /\ e.kind = "qnd"
    BY <1>7 DEF Raise, Errors, DetectionDone, Handle
  <2>3. {"missed_photon", "state_destroyed"} \subseteq Outcomes \ {"none", "valid_detection"}
    BY DEF Outcomes
  <2>4. ASSUME round' = [round EXCEPT ![r].outcome = "valid_detection"]
        PROVE  DetectedEffect(n, rd)
    <3>1. n = [rd EXCEPT !.outcome = "valid_detection"]
      BY <1>1, <2>4
    <3>2. QED
      BY <1>2, <3>1, SimpleEffects
  <2> HIDE DEF Closes
  <2>5. \/ n = rd /\ gate[r].resolved
        \/ Closes
        \/ ~gate[r].resolved /\ DetectedEffect(n, rd)
    BY <1>3, <1>4, <2>1, <2>2, <2>3, <2>4
  <2>6. QED
    BY <2>2, <2>5 DEF Closes
<1>8. QED
  BY <1>5, <1>6, <1>7, DetectorOfStep

\* Everything else but the loading of the prover's memory.
LEMMA OpProver ==
  ASSUME NEW e, NEW rd, NEW n, NEW N, NEW u, NEW u1, Op(e, rd, n, N, u, u1),
         e.kind \notin {"photon", "qnd", "gate"}, ~IsLoad(e), rd.measuring \in BOOLEAN
  PROVE  /\ SameDetection(n, rd)
         /\ n.measuring # rd.measuring =>
              e.kind \in {"load", "basis"} /\ rd.valid /\ ~rd.measuring
         /\ n.bit["prover"] # rd.bit["prover"] => e.kind = "measured" /\ e.who = "prover"
         /\ n.bit["v0"] # rd.bit["v0"] => e.kind = "measured" /\ e.who = "v0"
<1>1. SameCommitment(n, rd)
  BY OpCommits
<1>2. CASE IdleOp(e, rd, n, N)
  BY <1>1, <1>2 DEF IdleOp, SameDetection
<1>3. CASE CommitOp(e, rd, n, N) \/ DetectOp(e, rd, n, N) \/ LoadFailsOp(e, rd, n, N)
  BY <1>3 DEF CommitOp, DetectOp, LoadFailsOp
<1>4. CASE TryOp(e, rd, n, N)
  <2>1. PICK rd1, mm : /\ rd1 = rd \/ ArrivalEffect(rd1, rd)
                       /\ TryEffect(n, rd1, mm) /\ e.kind \in {"load", "basis"}
    BY <1>4 DEF TryOp
  <2>2. rd1.measuring = rd.measuring /\ rd1.valid = rd.valid /\ rd1.committed = rd.committed
        /\ rd1.bit = rd.bit
    BY <2>1 DEF ArrivalEffect
  <2>3. n.measuring = (rd.measuring \/ CanMeasure(rd1, mm))
    BY <2>1, <2>2 DEF TryEffect
  <2>4. CanMeasure(rd1, mm) => ~rd.measuring /\ rd.valid
    BY <2>2 DEF CanMeasure
  <2>5. n.valid = rd.valid /\ n.committed = rd.committed /\ n.bit = rd.bit
    BY <2>1, <2>2 DEF TryEffect
  <2>6. QED
    BY <1>1, <2>1, <2>3, <2>4, <2>5 DEF SameDetection
<1>5. CASE RetrievedOp(e, rd, n, N)
  BY <1>1, <1>5 DEF RetrievedOp, DwellEffect, SameDetection
<1>6. CASE AnswersOp(e, rd, n, N)
  BY <1>1, <1>6 DEF AnswersOp, BitEffect, Holders, SameDetection
<1>7. CASE V0Op(e, rd, n, N)
  BY <1>1, <1>7 DEF V0Op, BitEffect, ReportEffect, Holders, SameDetection
<1>8. CASE SeesOp(e, rd, n, N)
  BY <1>1, <1>8 DEF SeesOp, SeeingEffect, ReportEffect, SameDetection
<1>9. CASE ReceivedOp(e, rd, n, N) \/ ForcedOp(e, rd, n, N)
  BY <1>1, <1>9 DEF ReceivedOp, ForcedOp, ReceivedEffect, ReportEffect, SameDetection
<1>10. QED
  BY <1>2, <1>3, <1>4, <1>5, <1>6, <1>7, <1>8, <1>9 DEF Op

\* The loading.
LEMMA OpLoads ==
  ASSUME NEW e, NEW rd, NEW n, NEW N, NEW u, NEW u1, Op(e, rd, n, N, u, u1), IsLoad(e),
         rd.commitAt = None, n.commitAt # None
  PROVE  /\ n.outcome = rd.outcome /\ n.committed = n.valid /\ n.bit = rd.bit
         /\ n.measuring => rd.measuring \/ n.valid
<1>1. CASE IdleOp(e, rd, n, N)
  BY <1>1 DEF IdleOp
<1>2. CASE LoadFailsOp(e, rd, n, N)
  BY <1>2 DEF LoadFailsOp, LoadEffect
<1>3. CASE TryOp(e, rd, n, N)
  <2>1. PICK rd1, mm : /\ \/ rd1.commitAt = rd.commitAt \/ LoadEffect(rd1, rd, TRUE)
                       /\ TryEffect(n, rd1, mm)
    BY <1>3 DEF TryOp, ArrivalEffect
  <2>2. LoadEffect(rd1, rd, TRUE)
    BY <2>1 DEF TryEffect
  <2>3. QED
    BY <2>1, <2>2 DEF TryEffect, LoadEffect
<1>4. CASE ~(IdleOp(e, rd, n, N) \/ LoadFailsOp(e, rd, n, N) \/ TryOp(e, rd, n, N))
  BY <1>4 DEF Op, IsLoad, CommitOp, DetectOp, RetrievedOp, AnswersOp, V0Op, SeesOp, ReceivedOp,
     ForcedOp
<1>5. QED
  BY <1>1, <1>2, <1>3, <1>4

-----------------------------------------------------------------------------
(* What the states of the participants rest on. *)

\* An input still to be sent is the only one of its verifier, none of whose has
\* reached the prover or is on its way.
InHand(x) ==
  /\ round[x.round].arrival[x.who] = None
  /\ \A y \in queue :
       y.round = x.round /\ y.who = x.who => y.kind # "basis" /\ (y.kind = "send" => y = x)

Accounts ==
  /\ \A r \in Rounds :
       LET rd == round[r] IN
       /\ rd.committed => rd.commitAt # None /\ (rd.valid \/ rd.outcome = "dark_count")
       /\ ~started[r] => rd = FreshRound
       /\ rd.measuring => \A v \in Verifiers : rd.arrival[v] # None
  /\ \A x \in queue :
       /\ x.kind = "qnd" => x.who = "prover"
       /\ x.kind # "start" => ~Refused(x.round)
       /\ x.kind = "send" => InHand(x)

\* New detections and measurements.
LEMMA NewSigns ==
  ASSUME Groundwork, NEW e \in queue, Handles(e), NEW q \in Rounds
  PROVE  /\ Awaits("qnd", q, "prover")' =>
              \/ Awaits("qnd", q, "prover")
              \/ q = e.round /\ e.kind = "photon" /\ ~gate[q].resolved /\ gate' = gate
         /\ Awaits("measured", q, "prover")' =>
              \/ Awaits("measured", q, "prover")
              \/ q = e.round /\ e.kind = "retrieve" /\ e.who = "prover"
<1>1. PICK N : queue' = (queue \ {e}) \union N /\ \A x \in N : Child(e, x)
  BY StepBegets DEF Groundwork, Handles, Begets, Leaves
<1>2. ASSUME NEW x \in queue', x.round = q, x.kind = "qnd", x.who = "prover"
      PROVE  \/ Awaits("qnd", q, "prover")
             \/ q = e.round /\ e.kind = "photon" /\ ~gate[q].resolved /\ gate' = gate
  <2>1. CASE x \in queue
    BY <1>2, <2>1 DEF Awaits
  <2>2. CASE Child(e, x)
    BY <1>2, <2>2 DEF Child, PhotonKinds, DeskKinds
  <2>3. QED
    BY <1>1, <2>1, <2>2
<1>3. ASSUME NEW x \in queue', x.round = q, x.kind = "measured", x.who = "prover"
      PROVE  \/ Awaits("measured", q, "prover")
             \/ q = e.round /\ e.kind = "retrieve" /\ e.who = "prover"
  <2>1. CASE x \in queue
    BY <1>3, <2>1 DEF Awaits
  <2>2. CASE Child(e, x)
    BY <1>3, <2>2 DEF Child, PhotonKinds, DeskKinds
  <2>3. QED
    BY <1>1, <2>1, <2>2
<1>4. QED
  BY <1>2, <1>3 DEF Awaits

\* One of the moves above, for the round of the event.
LEMMA ProverRound ==
  ASSUME Groundwork, Committals, Accounts, NEW e \in queue, Handles(e), status' \notin Errors,
         NEW q, q = e.round, NEW rd, rd = round[q], NEW n, n = round'[q],
         NEW d, d = Awaits("qnd", q, "prover"), NEW d1, d1 = Awaits("qnd", q, "prover")',
         NEW g, g = Awaits("measured", q, "prover"),
         NEW g1, g1 = Awaits("measured", q, "prover")'
  PROVE  /\ Standing(rd, g)
         /\ \/ Rests(rd, n, d, d1, g, g1) \/ Detects(rd, n, g, g1)
            \/ /\ Commits(rd, n, d, d1, g, g1)
               /\ n.outcome = "dark_count" => e.kind = "gate"
            \/ Loads(rd, n, d, d1, g, g1) \/ IsLoaded(rd, n, d, d1, g, g1)
            \/ Retrieves(rd, n, d, d1, g, g1) \/ Reads(rd, n, d, d1, g)
            \/ Answered(rd, n, d, d1, g, g1)
<1>1. /\ TypeOK /\ Agenda /\ MemInv /\ RuntimeTypes /\ Truths
      /\ q \in Rounds /\ e \in Pending(q) /\ rd \in RoundType
  BY TypesOfEvent DEF Groundwork, Pending, RuntimeTypes
<1>2. Detected(rd, Pending(q), Unresolved(q)) /\ Measured(rd, Pending(q))
  BY <1>1 DEF Truths, Truth
<1>3. g => rd.measuring /\ rd.bit["prover"] = None
  <2>1. ASSUME NEW x \in queue, x.kind = "measured", x.round = q, x.who = "prover"
        PROVE  rd.measuring /\ rd.bit["prover"] = None
    BY <1>2, <2>1 DEF Measured, Reading, Pending
  <2>2. QED
    BY <2>1 DEF Awaits
<1>4. Standing(rd, g)
  <2>1. rd.committed => rd.commitAt # None /\ (rd.valid \/ rd.outcome = "dark_count")
    BY <1>1 DEF Accounts
  <2>2. rd.bit["prover"] # None => rd.measuring
    BY <1>2 DEF Measured, Holders
  <2>3. QED
    BY <1>2, <1>3, <2>1, <2>2 DEF Detected, Standing
<1>5. /\ d1 => d \/ (e.kind = "photon" /\ ~gate[q].resolved /\ gate' = gate)
      /\ g1 => g \/ (e.kind = "retrieve" /\ e.who = "prover")
  BY <1>1, NewSigns
<1>6. ~gate[q].resolved => Unchallenged(rd)
  BY <1>1 DEF Committals, Unresolved, Unchallenged
<1>7. CASE e.kind \in {"photon", "qnd", "gate"}
  <2>1. g1 => g
    BY <1>5, <1>7
  <2>2. \/ n = rd /\ (e.kind = "qnd" => gate[q].resolved)
        \/ /\ ~gate[q].resolved /\ gate'[q].resolved /\ n.commitAt # None
           /\ \E outcome \in Outcomes \ {"none", "valid_detection"} :
                CommittingEffect(n, rd, outcome) /\ (outcome = "dark_count" => e.kind = "gate")
        \/ ~gate[q].resolved /\ e.kind = "qnd" /\ DetectedEffect(n, rd)
    BY <1>1, <1>7, DetectorDoes
  <2>3. CASE n = rd
    <3>1. d1 => d \/ Unchallenged(rd)
      BY <1>5, <1>6
    <3>2. QED
      BY <1>4, <2>1, <2>3, <3>1 DEF Rests, Detects, SameDetection, SameCommitment
  <2>4. CASE ~gate[q].resolved /\ e.kind = "qnd" /\ DetectedEffect(n, rd)
    <3>1. d
      BY <1>1, <2>4 DEF Awaits, Accounts
    <3>2. QED
      BY <1>4, <1>5, <1>6, <2>1, <2>4, <3>1 DEF Loads, DetectedEffect
  <2>5. ASSUME ~gate[q].resolved, gate'[q].resolved, n.commitAt # None,
               NEW outcome \in Outcomes \ {"none", "valid_detection"},
               CommittingEffect(n, rd, outcome), outcome = "dark_count" => e.kind = "gate"
        PROVE  Commits(rd, n, d, d1, g, g1) /\ (n.outcome = "dark_count" => e.kind = "gate")
    <3>1. d1 => d
      BY <1>5, <2>5
    <3>2. ~rd.valid
      BY <1>4, <1>6, <2>5 DEF Standing, Unchallenged
    <3>3. QED
      BY <1>6, <2>1, <2>5, <3>1, <3>2 DEF Commits, CommittingEffect
  <2>6. QED
    BY <1>4, <2>2, <2>3, <2>4, <2>5
<1>8. CASE e.kind \notin {"photon", "qnd", "gate"}
  <2>1. PICK m, M : Moves(e, m, M)
    BY <1>1, StepMoves DEF Handles
  <2>2. Op(e, rd, n, M, Unresolved(q), Unresolved(q)')
    BY <2>1 DEF Moves
  <2>3. d1 => d
    BY <1>5, <1>8
  <2>4. CASE IsLoad(e)
    <3>1. rd.outcome = "valid_detection"
      BY <1>1, <1>2, <2>4 DEF Detected
    <3>2. rd.commitAt = None
      BY <1>1, <2>4 DEF Committals
    <3>3. n.commitAt # None
      BY <1>1, <2>4, LoadCommits
    <3>4. /\ n.outcome = rd.outcome /\ n.committed = n.valid /\ n.bit = rd.bit
          /\ n.measuring => rd.measuring \/ n.valid
      BY <2>2, <2>4, <3>2, <3>3, OpLoads
    <3>5. g1 => g
      BY <1>5, <2>4 DEF IsLoad
    <3>6. QED
      BY <1>4, <2>3, <3>1, <3>2, <3>3, <3>4, <3>5 DEF IsLoaded
  <2>5. CASE ~IsLoad(e)
    <3>1. /\ SameDetection(n, rd)
          /\ n.measuring # rd.measuring =>
               e.kind \in {"load", "basis"} /\ rd.valid /\ ~rd.measuring
          /\ n.bit["prover"] # rd.bit["prover"] => e.kind = "measured" /\ e.who = "prover"
      <4>1. rd.measuring \in BOOLEAN
        BY <1>1 DEF RoundType
      <4>2. QED
        BY <1>8, <2>2, <2>5, <4>1, OpProver
    <3>2. CASE e.kind = "measured" /\ e.who = "prover"
      <4>1. g
        BY <1>1, <3>2 DEF Awaits
      <4>2. QED
        BY <1>4, <1>5, <2>3, <3>1, <3>2, <4>1 DEF Answered
    <3>3. CASE e.kind = "retrieve" /\ e.who = "prover"
      <4>1. rd.measuring /\ rd.bit["prover"] = None
        BY <1>1, <1>2, <3>3 DEF Measured, Reading
      <4>2. ASSUME NEW x \in queue, x.kind = "measured", x.round = q, x.who = "prover"
            PROVE  FALSE
        <5>1. x \in Pending(q) /\ Reading(x) /\ Reading(e)
          BY <3>3, <4>2 DEF Pending, Reading
        <5>2. x = e
          BY <1>1, <1>2, <3>3, <4>2, <5>1 DEF Measured
        <5>3. QED
          BY <3>3, <4>2, <5>2
      <4>3. ~g
        BY <4>2 DEF Awaits
      <4>4. QED
        BY <1>4, <2>3, <3>1, <3>3, <4>1, <4>3 DEF Reads
    <3>4. CASE /\ ~(e.kind = "measured" /\ e.who = "prover")
               /\ ~(e.kind = "retrieve" /\ e.who = "prover")
      <4>1. (g1 => g) /\ n.bit["prover"] = rd.bit["prover"]
        BY <1>5, <3>1, <3>4
      <4>2. n.measuring = rd.measuring \/ (rd.valid /\ ~rd.measuring)
        BY <3>1
      <4>3. QED
        BY <1>4, <2>3, <3>1, <4>1, <4>2 DEF Rests, Retrieves
    <3>5. QED
      BY <3>2, <3>3, <3>4
  <2>6. QED
    BY <2>4, <2>5
<1>9. QED
  BY <1>7, <1>8

\* The inputs arrive as basis messages, and the measurement waits for both.
LEMMA ArrivalMoves ==
  ASSUME Groundwork, NEW e \in queue, Handles(e)
  PROVE  LET rd == round[e.round]  n == round'[e.round] IN
         /\ \A v \in Verifiers :
              /\ rd.arrival[v] # None => n.arrival[v] # None
              /\ n.arrival[v] # rd.arrival[v] => e.kind = "basis" /\ v = e.who
         /\ n.measuring => rd.measuring \/ \A v \in Verifiers : n.arrival[v] # None
<1> DEFINE rd == round[e.round]
           n == round'[e.round]
<1>1. /\ TypeOK /\ Agenda /\ MemInv /\ RuntimeTypes
      /\ e.round \in Rounds /\ rd \in RoundType /\ e.when \in Int
      /\ round \in [Rounds -> RoundType]
  BY TypesOfEvent DEF Groundwork, RuntimeTypes
<1>2. ASSUME NEW rd1, NEW mm, TryEffect(n, rd1, mm)
      PROVE  /\ n.arrival = rd1.arrival
             /\ n.measuring => rd1.measuring \/ \A v \in Verifiers : n.arrival[v] # None
  BY <1>2 DEF TryEffect, CanMeasure
<1>3. CASE e.kind = "basis"
  <2> DEFINE rd1 == [rd EXCEPT !.arrival[e.who] = e.when]
  <2>1. rd1 \in RoundType /\ rd1.measuring = rd.measuring
    <3>1. e.who \in Verifiers
      BY <1>1, <1>3, ActorOfEvent DEF MessageKinds
    <3>2. rd1 \in RoundType
      BY <1>1, <3>1, ArrivalRuntime
    <3>3. rd1.measuring = rd.measuring
      BY <1>1 DEF RoundType
    <3>4. QED
      BY <3>2, <3>3
  <2>2. \A v \in Verifiers :
          /\ rd1.arrival[v] # rd.arrival[v] => v = e.who
          /\ rd.arrival[v] # None => rd1.arrival[v] # None
    <3>1. rd.arrival \in [Verifiers -> Opt(Int)] /\ e.when # None
      BY <1>1, SessionAssumption DEF RoundType
    <3>2. rd1.arrival = [rd.arrival EXCEPT ![e.who] = e.when]
      BY <1>1 DEF RoundType
    <3>3. QED
      BY <3>1, <3>2
  <2>3. Runs(e, AfterTry(rd1, mem))
    BY <1>1, <1>3, HandlerOf, DeviceRuns
  <2> HIDE DEF rd1
  <2>4. n = AfterTry(rd1, mem)
    BY <1>1, <2>3 DEF Runs
  <2>5. TryEffect(n, rd1, mem)
    BY <2>1, <2>4, SimpleEffects
  <2>6. QED
    BY <1>2, <1>3, <2>1, <2>2, <2>5
<1>4. CASE e.kind = "load"
  <2>1. ASSUME LoadDone(e)
        PROVE  n.arrival = rd.arrival
               /\ (n.measuring => rd.measuring \/ \A v \in Verifiers : n.arrival[v] # None)
    <3> DEFINE rd1 == LoadedRound(e)
               mm == LoadedMem(e)
    <3>1. PICK n1 \in RoundType : Runs(e, n1) /\ TryEffect(n1, rd1, mm)
      BY <1>1, <2>1, LoadEffects
    <3>2. rd1 = rd \/ LoadEffect(rd1, rd, TRUE)
      BY <1>1, <2>1, LoadEffects
    <3> HIDE DEF rd1, mm
    <3>3. n = n1
      BY <1>1, <3>1 DEF Runs
    <3>4. QED
      BY <1>2, <3>1, <3>2, <3>3 DEF LoadEffect
  <2>2. ASSUME LoadFails(e)
        PROVE  n.arrival = rd.arrival /\ n.measuring = rd.measuring
    <3>1. n = rd \/ \E n1 \in RoundType : Runs(e, n1) /\ LoadEffect(n1, rd, FALSE)
      BY <1>1, <2>2, LoadEffects
    <3>2. n = rd \/ LoadEffect(n, rd, FALSE)
      BY <1>1, <3>1 DEF Runs
    <3>3. QED
      BY <3>2 DEF LoadEffect
  <2>3. QED
    BY <1>4, <2>1, <2>2, HandlerOf
<1>5. CASE e.kind \notin {"basis", "load"}
  <2>1. PICK n1, N : Moves(e, n1, N)
    BY <1>1, StepMoves DEF Handles
  <2>2. Op(e, rd, n, N, Unresolved(e.round), Unresolved(e.round)')
    BY <2>1 DEF Moves
  <2>3. n.arrival = rd.arrival /\ n.measuring = rd.measuring
    <3>1. CASE IdleOp(e, rd, n, N) \/ CommitOp(e, rd, n, N) \/ DetectOp(e, rd, n, N)
      BY <3>1 DEF IdleOp, CommitOp, DetectOp, CommittingEffect, DetectedEffect
    <3>2. CASE RetrievedOp(e, rd, n, N) \/ AnswersOp(e, rd, n, N) \/ ReceivedOp(e, rd, n, N)
      BY <3>2 DEF RetrievedOp, AnswersOp, ReceivedOp, DwellEffect, BitEffect, ReceivedEffect
    <3>3. CASE V0Op(e, rd, n, N) \/ SeesOp(e, rd, n, N) \/ ForcedOp(e, rd, n, N)
      BY <3>3 DEF V0Op, SeesOp, ForcedOp, BitEffect, SeeingEffect, ReportEffect
    <3>4. QED
      BY <1>5, <2>2, <3>1, <3>2, <3>3 DEF Op, TryOp, LoadFailsOp, IsLoad
  <2>4. QED
    BY <2>3
<1>6. QED
  BY <1>3, <1>4, <1>5

\* A round that starts sends one input for each verifier.
LEMMA OneInput ==
  ASSUME Office, NEW e \in queue, StartRound(e), NEW x \in queue', NEW y \in queue',
         x.kind = "send", y.kind = "send", x.round = e.round, y.round = e.round, x.who = y.who
  PROVE  x = y
<1>1. TypeOK /\ Agenda /\ e.kind = "start"
  BY DEF Office, Groundwork, StartRound, Handle
<1>2. PICK evs \in Seq(Children(e)) :
        /\ Return(e, evs) /\ Len(evs) = 5 /\ evs[3].who = "v0" /\ evs[4].who = "v1"
        /\ \A i \in 1 .. 5 : evs[i].kind = "send" => i \in {3, 4}
  BY <1>1, StartBegets
<1>3. queue' = (queue \ {e}) \union Stamp(evs, nextSeq) /\ DOMAIN evs = 1 .. 5
  BY <1>2 DEF Return
<1>4. \A i \in 1 .. 5 : evs[i] \in EventType
  <2>1. \A i \in 1 .. Len(evs) : evs[i] \in Children(e)
    BY ElementOfSeq
  <2>2. QED
    BY <1>2, <2>1 DEF Children
<1>5. ASSUME NEW z \in queue', z.kind = "send", z.round = e.round
      PROVE  \/ z.who = "v0" /\ z = [evs[3] EXCEPT !.seq = nextSeq + 3 - 1]
             \/ z.who = "v1" /\ z = [evs[4] EXCEPT !.seq = nextSeq + 4 - 1]
  <2>1. z \in Stamp(evs, nextSeq)
    BY <1>1, <1>3, <1>5, StartsAlone
  <2>2. PICK i \in 1 .. 5 : z = [evs[i] EXCEPT !.seq = nextSeq + i - 1]
    BY <1>3, <2>1 DEF Stamp
  <2>3. evs[i].kind = "send" /\ evs[i].who = z.who
    BY <1>4, <1>5, <2>2 DEF EventType
  <2>4. QED
    BY <1>2, <2>2, <2>3
<1>6. QED
  BY <1>5

\* The round of a start that is carried out has nothing behind it.
LEMMA FreshStart ==
  ASSUME Office, Accounts, NEW e \in queue, StartRound(e)
  PROVE  /\ e.kind = "start" /\ ~started[e.round] /\ ~completed[e.round]
         /\ round[e.round] = FreshRound /\ round' = round
         /\ \A i \in DOMAIN results : results[i].round # e.round
         /\ UNCHANGED <<results, completed>> /\ started'[e.round] /\ ~Refused(e.round)'
<1>1. e.round \in Rounds /\ started \in [Rounds -> BOOLEAN] /\ e.kind = "start"
  BY TypesOfEvent DEF Office, Groundwork, TypeOK, StartRound, Handle
<1>2. ~started[e.round]
  BY <1>1 DEF Office, Groundwork, Agenda, StartsAreAhead
<1>3. ~completed[e.round] /\ \A i \in DOMAIN results : results[i].round # e.round
  BY <1>1, <1>2 DEF Office, Books
<1>4. UNCHANGED <<results, completed, round>> /\ started'[e.round]
  BY <1>1 DEF StartRound, decisionVars
<1>5. QED
  BY <1>1, <1>2, <1>3, <1>4 DEF Accounts, Refused

LEMMA StepRuntimes ==
  ASSUME Office, Committals, Accounts, NEW e \in queue, Handles(e), status' \notin Errors,
         NEW q \in Rounds
  PROVE  LET n == round'[q] IN
         /\ n.committed => n.commitAt # None /\ (n.valid \/ n.outcome = "dark_count")
         /\ ~started'[q] => n = FreshRound
         /\ n.measuring => \A v \in Verifiers : n.arrival[v] # None
<1> DEFINE rd == round[q]
           n == round'[q]
<1>1. Groundwork /\ TypeOK /\ Agenda /\ MemInv /\ RuntimeTypes
  BY DEF Office, Groundwork
<1>2. /\ rd.committed => rd.commitAt # None /\ (rd.valid \/ rd.outcome = "dark_count")
      /\ ~started[q] => rd = FreshRound
      /\ rd.measuring => \A v \in Verifiers : rd.arrival[v] # None
  BY DEF Accounts
<1>3. started[q] => started'[q]
  BY <1>1, StartedMoves
<1>4. CASE q # e.round
  <2>1. PICK m, M : Moves(e, m, M)
    BY <1>1, StepMoves DEF Handles
  <2>2. n = rd
    BY <1>4, <2>1 DEF Moves
  <2>3. QED
    BY <1>2, <1>3, <2>2
<1>5. CASE q = e.round
  <2>1. n.committed => n.commitAt # None /\ (n.valid \/ n.outcome = "dark_count")
    <3> DEFINE d == Awaits("qnd", q, "prover")
               d1 == Awaits("qnd", q, "prover")'
               g == Awaits("measured", q, "prover")
               g1 == Awaits("measured", q, "prover")'
    <3>1. \/ Rests(rd, n, d, d1, g, g1) \/ Detects(rd, n, g, g1)
          \/ Commits(rd, n, d, d1, g, g1)
          \/ Loads(rd, n, d, d1, g, g1) \/ IsLoaded(rd, n, d, d1, g, g1)
          \/ Retrieves(rd, n, d, d1, g, g1) \/ Reads(rd, n, d, d1, g)
          \/ Answered(rd, n, d, d1, g, g1)
      BY <1>1, <1>5, ProverRound
    <3> HIDE DEF d, d1, g, g1, rd, n
    <3>2. CASE SameDetection(n, rd)
      BY <1>2, <3>2 DEF SameDetection, SameCommitment
    <3>3. CASE Commits(rd, n, d, d1, g, g1)
      BY <3>3 DEF Commits
    <3>4. CASE Loads(rd, n, d, d1, g, g1)
      BY <1>2, <3>4 DEF Loads, Unchallenged
    <3>5. CASE IsLoaded(rd, n, d, d1, g, g1)
      BY <3>5 DEF IsLoaded
    <3>6. QED
      BY <3>1, <3>2, <3>3, <3>4, <3>5 DEF Rests, Detects, Retrieves, Reads, Answered, n
  <2>2. ASSUME ~started'[q] PROVE FALSE
    <3>1. e.kind = "start"
      BY <1>1, <1>3, <1>5, <2>2 DEF Agenda, StartsAreAhead
    <3>2. StartRound(e) \/ RejectPlan(e)
      BY <3>1, GateOfStep DEF Handles, StartRoundRaises, Raise, Errors
    <3>3. started'[q]
      BY <1>1, <1>5, <3>2 DEF TypeOK, StartRound, RejectPlan
    <3>4. QED
      BY <2>2, <3>3
  <2>3. n.measuring => \A v \in Verifiers : n.arrival[v] # None
    BY <1>1, <1>2, <1>5, ArrivalMoves
  <2>4. QED
    BY <2>1, <2>2, <2>3
<1>6. QED
  BY <1>4, <1>5

LEMMA StepInHand ==
  ASSUME Office, TypeOK', Accounts, NEW e \in queue, Handles(e), status' \notin Errors,
         NEW x \in queue', x.kind = "send"
  PROVE  InHand(x)'
<1>1. Groundwork /\ TypeOK /\ Agenda /\ MemInv /\ RuntimeTypes
  BY DEF Office, Groundwork
<1>2. PICK N : queue' = (queue \ {e}) \union N /\ \A y \in N : Child(e, y)
  BY <1>1, StepBegets DEF Handles, Begets, Leaves
<1>3. CASE x \in queue \ {e}
  <2>1. InHand(x) /\ x.who \in Verifiers /\ x.round \in Rounds
    BY <1>1, <1>3, ActorOfEvent, TypesOfEvent DEF Accounts
  <2>2. round'[x.round].arrival[x.who] = None
    <3>1. PICK m, M : Moves(e, m, M)
      BY <1>1, StepMoves DEF Handles
    <3>2. ~(e.kind = "basis" /\ e.round = x.round /\ e.who = x.who)
      BY <2>1 DEF InHand
    <3>3. QED
      BY <1>1, <2>1, <3>1, <3>2, ArrivalMoves DEF Moves, InHand
  <2>3. ASSUME NEW y \in queue', y.round = x.round, y.who = x.who
        PROVE  y.kind # "basis" /\ (y.kind = "send" => y = x)
    <3>1. CASE y \in queue
      BY <2>1, <2>3, <3>1 DEF InHand
    <3>2. CASE Child(e, y)
      <4>1. e.round = x.round
        BY <2>3, <3>2 DEF Child
      <4>2. y.kind = "basis" => e.kind = "send" /\ e.who = x.who
        BY <2>3, <3>2 DEF Child, DeskKinds, PhotonKinds
      <4>3. y.kind = "send" => e.kind = "start"
        BY <3>2 DEF Child, DeskKinds, PhotonKinds
      <4>4. y.kind # "basis"
        BY <1>3, <2>1, <4>1, <4>2 DEF InHand
      <4>5. y.kind # "send"
        BY <1>3, <4>1, <4>3, StartsAlone
      <4>6. QED
        BY <4>4, <4>5
    <3>3. QED
      BY <1>2, <3>1, <3>2
  <2>4. QED
    BY <2>2, <2>3 DEF InHand
<1>4. CASE Child(e, x)
  <2>1. e.kind = "start" /\ x.round = e.round
    BY <1>4 DEF Child, DeskKinds, PhotonKinds
  <2>2. ~RejectPlan(e)
    <3>1. ASSUME RejectPlan(e) PROVE FALSE
      <4>1. Leaves(e, {})
        BY <1>1, <3>1, NothingLeft DEF RejectPlan
      <4>2. x \in queue \ {e}
        BY <4>1 DEF Leaves
      <4>3. QED
        BY <2>1, <4>2, StartsAlone
    <3>2. QED
      BY <3>1
  <2>3. StartRound(e)
    BY <2>1, <2>2, GateOfStep DEF Handles, StartRoundRaises, Raise, Errors
  <2>4. round'[x.round].arrival[x.who] = None
    <3>1. x.who \in Verifiers
      BY DEF TypeOK, QueueType, EventType, ActorsOf
    <3>2. QED
      BY <2>1, <2>3, <3>1, FreshStart DEF FreshRound
  <2>5. ASSUME NEW y \in queue', y.round = x.round, y.who = x.who
        PROVE  y.kind # "basis" /\ (y.kind = "send" => y = x)
    <3>1. y.kind = "send" => y = x
      BY <2>1, <2>3, <2>5, OneInput
    <3>2. y \notin queue \ {e}
      BY <2>1, <2>5, StartsAlone
    <3>3. Child(e, y)
      BY <1>2, <3>2
    <3>4. y.kind # "basis"
      BY <2>1, <3>3 DEF Child, DeskKinds, PhotonKinds
    <3>5. QED
      BY <3>1, <3>4
  <2>6. QED
    BY <2>4, <2>5 DEF InHand
<1>5. QED
  BY <1>2, <1>3, <1>4

LEMMA StepAccounts ==
  ASSUME Office, TypeOK', Committals, Accounts, NEW e \in queue, Handles(e), status' \notin Errors
  PROVE  Accounts'
<1>1. Groundwork /\ TypeOK /\ Agenda /\ MemInv /\ RuntimeTypes /\ Books
  BY DEF Office, Groundwork
<1>2. PICK N : queue' = (queue \ {e}) \union N /\ \A y \in N : Child(e, y)
  BY <1>1, StepBegets DEF Handles, Begets, Leaves
<1>3. ASSUME NEW x \in queue', x.kind = "qnd" PROVE x.who = "prover"
  <2>1. CASE x \in queue
    BY <1>3, <2>1 DEF Accounts
  <2>2. CASE Child(e, x)
    BY <1>3, <2>2 DEF Child, PhotonKinds, DeskKinds
  <2>3. QED
    BY <1>2, <2>1, <2>2
<1>4. ASSUME NEW x \in queue', x.kind # "start" PROVE ~Refused(x.round)'
  <2>1. ASSUME NEW y \in queue, y.kind # "start" PROVE ~Refused(y.round)'
    <3>1. started[y.round] /\ ~Refused(y.round) /\ y.round \in Rounds
      BY <1>1, <2>1, TypesOfEvent DEF Accounts, Agenda, StartsAreAhead
    <3>2. QED
      BY <3>1, NotRefused
  <2>2. CASE x \in queue \ {e}
    BY <1>4, <2>1, <2>2
  <2>3. CASE x \in N
    <3>1. x.round = e.round
      BY <1>2, <2>3 DEF Child
    <3>2. CASE e.kind # "start"
      BY <2>1, <3>1, <3>2
    <3>3. CASE e.kind = "start"
      <4>1. ~RejectPlan(e)
        <5>1. ASSUME RejectPlan(e) PROVE FALSE
          <6>1. Leaves(e, {})
            BY <1>1, <5>1, NothingLeft DEF RejectPlan
          <6>2. x \in queue \ {e}
            BY <6>1 DEF Leaves
          <6>3. QED
            BY <3>1, <3>3, <6>2, StartsAlone
        <5>2. QED
          BY <5>1
      <4>2. StartRound(e)
        BY <3>3, <4>1, GateOfStep DEF Handles, StartRoundRaises, Raise, Errors
      <4>3. QED
        BY <3>1, <4>2, FreshStart
    <3>4. QED
      BY <3>2, <3>3
  <2>4. QED
    BY <1>2, <2>2, <2>3
<1>5. ASSUME NEW x \in queue', x.kind = "send" PROVE InHand(x)'
  BY <1>5, StepInHand
<1>6. QED
  BY <1>3, <1>4, <1>5, StepRuntimes DEF Accounts

\* An exception in a handler may lose the event it took.
Orderly == status \notin Errors => Committals /\ Accounts

LEMMA InitOrderly == ASSUME Init PROVE Orderly
<1>1. \A r \in Rounds : ~started[r] /\ round[r] = FreshRound
  BY DEF Init
<1>2. \A x \in queue : x.kind = "start"
  BY InitialEvents
<1>3. /\ ~FreshRound.committed /\ ~FreshRound.measuring /\ DOMAIN results = {}
  BY DEF Init, FreshRound
<1>4. Accounts
  BY <1>1, <1>2, <1>3 DEF Accounts
<1>5. QED
  BY <1>4, InitCommittals DEF Orderly

LEMMA SessionOrderly == Spec => []Orderly
<1>1. Init => Orderly
  BY InitOrderly
<1>2. Office /\ TypeOK' /\ Truths' /\ Orderly /\ [Next]_vars => Orderly'
  <2> SUFFICES ASSUME Office, TypeOK', Truths', Orderly, [Next]_vars, status' \notin Errors
               PROVE  Committals' /\ Accounts'
    BY DEF Orderly
  <2>1. CASE Step
    <3>1. PICK e \in queue : Handles(e)
      BY <2>1 DEF Step, Handles
    <3>2. Committals /\ Accounts /\ Groundwork
      BY <3>1, StepIsFirst DEF Handles, Orderly, Errors, Office
    <3>3. QED
      BY <3>1, <3>2, StepCommittals, StepAccounts
  <2>2. CASE Finish \/ UNCHANGED vars
    <3>1. UNCHANGED <<round, queue, started, gate, results>> /\ Committals /\ Accounts
      BY <2>2 DEF Finish, vars, deviceVars, schedulerVars, decisionVars, Orderly, Errors
    <3>2. Committals'
      BY <3>1 DEF Committals, Pending, Unresolved
    <3>3. Accounts'
      BY <3>1 DEF Accounts, Refused, InHand
    <3>4. QED
      BY <3>2, <3>3
  <2>3. QED
    BY <2>1, <2>2 DEF Next, Over
<1>3. QED
  BY <1>1, <1>2, SessionTypes, SessionGroundwork, SessionBooks, SessionSchedule, SessionOccupied,
     SessionTruths, PTL DEF Spec, Office

LEMMA AwaitsElsewhere ==
  ASSUME Groundwork, NEW e \in queue, Handles(e), NEW q \in Rounds, q # e.round
  PROVE  /\ round'[q] = round[q]
         /\ \A kind, who : Awaits(kind, q, who)' = Awaits(kind, q, who)
<1>1. PICK m, M : Moves(e, m, M)
  BY StepMoves DEF Groundwork, Handles
<1>2. round'[q] = round[q] /\ Pending(q)' = Pending(q)
  BY <1>1 DEF Moves
<1>3. \A kind, who : Awaits(kind, q, who) <=> \E x \in Pending(q) : x.kind = kind /\ x.who = who
  BY DEF Awaits, Pending
<1>4. \A kind, who :
        Awaits(kind, q, who)' <=> \E x \in Pending(q)' : x.kind = kind /\ x.who = who
  BY DEF Awaits, Pending
<1>5. ASSUME NEW kind, NEW who PROVE Awaits(kind, q, who)' = Awaits(kind, q, who)
  <2>1. Awaits(kind, q, who)' \in BOOLEAN /\ Awaits(kind, q, who) \in BOOLEAN
    BY DEF Awaits
  <2>2. QED
    BY <1>2, <1>3, <1>4, <2>1
<1>6. QED
  BY <1>2, <1>5

\* The prover goes its way, but for the dark count.
LEMMA ProverStep ==
  ASSUME Groundwork, Committals, Accounts, NEW e \in queue, Handles(e), status' \notin Errors,
         NEW q \in Rounds
  PROVE  ProverFollows(q, Listed(ProverTable) \union DarkCommitment(q))
<1> DEFINE rd == round[q]
           n == round'[q]
           d == Awaits("qnd", q, "prover")
           d1 == Awaits("qnd", q, "prover")'
           g == Awaits("measured", q, "prover")
           g1 == Awaits("measured", q, "prover")'
           moves == Listed(ProverTable) \union DarkCommitment(q)
<1>1. ProverSigns(q) = ProverSignsOf(rd, d, g)
  BY DEF ProverSigns, ProverSignsOf
<1>2. ProverSigns(q)' = ProverSignsOf(n, d1, g1)
  BY DEF ProverSigns, ProverSignsOf
<1>3. CASE q # e.round
  <2>1. n = rd /\ d1 = d /\ g1 = g
    BY <1>3, AwaitsElsewhere
  <2>2. ProverSigns(q)' = ProverSigns(q)
    BY <1>1, <1>2, <2>1
  <2>3. QED
    BY <2>2, EntersNothing DEF ProverFollows
<1>4. CASE q = e.round
  <2>1. rd \in RoundType /\ n \in RoundType
    <3>1. PICK m, M : Moves(e, m, M)
      BY StepMoves DEF Groundwork, Handles
    <3>2. QED
      BY <1>4, <3>1 DEF Moves, Groundwork, RuntimeTypes
  <2>2. /\ d \in BOOLEAN /\ d1 \in BOOLEAN /\ g \in BOOLEAN /\ g1 \in BOOLEAN
    BY DEF Awaits
  <2>3. /\ Standing(rd, g)
        /\ \/ Rests(rd, n, d, d1, g, g1) \/ Detects(rd, n, g, g1)
           \/ Commits(rd, n, d, d1, g, g1) /\ (n.outcome = "dark_count" => e.kind = "gate")
           \/ Loads(rd, n, d, d1, g, g1) \/ IsLoaded(rd, n, d, d1, g, g1)
           \/ Retrieves(rd, n, d, d1, g, g1) \/ Reads(rd, n, d, d1, g)
           \/ Answered(rd, n, d, d1, g, g1)
    BY <1>4, ProverRound
  <2>4. e.kind = "gate" => <<"waiting_for_challenge", "committed_without_state">> \in moves
    BY <1>4, StepIsFirst DEF Handles, Handling, DarkCommitment
  <2>5. Listed(ProverTable) \subseteq moves
    OBVIOUS
  <2> HIDE DEF rd, n, d, d1, g, g1, moves
  <2>6. Follows(moves, ProverCourse, Furthest(ProverCourse, ProverSignsOf(rd, d, g)),
                Entered(ProverSignsOf(rd, d, g), ProverSignsOf(n, d1, g1)))
    BY <2>1, <2>2, <2>3, <2>4, <2>5, ProverTakes
  <2>7. QED
    BY <1>1, <1>2, <2>6 DEF ProverFollows, ProverState, moves
<1>5. QED
  BY <1>3, <1>4

-----------------------------------------------------------------------------
(* The controller. *)

LEMMA ControllerSigned ==
  ASSUME NEW r
  PROVE  LET S == ControllerSigns(r) IN
         /\ DOMAIN S = {"planning", "plan_distributed", "collecting_reports", "deciding",
                        "accepted", "rejected"}
         /\ S["planning"] /\ (S["plan_distributed"] <=> Distributed(r))
         /\ S["collecting_reports"] <=> Distributed(r)
         /\ S["deciding"] <=> Distributed(r) /\ completed[r]
         /\ S["accepted"] <=> Verdict(r, TRUE)
         /\ S["rejected"] <=> Verdict(r, FALSE)
BY DEF ControllerSigns, Distributed, Refused, Verdict

LEMMA ControllerFurthest ==
  ASSUME NEW r, ~Verdict(r, TRUE), ~Verdict(r, FALSE), ~(Distributed(r) /\ completed[r])
  PROVE  ControllerState(r) = IF Distributed(r) THEN "collecting_reports" ELSE "planning"
<1> DEFINE C == ControllerCourse
           S == ControllerSigns(r)
<1>1. /\ DOMAIN C = 1 .. 6 /\ C[1] = "planning" /\ C[2] = "plan_distributed"
      /\ C[3] = "collecting_reports" /\ C[4] = "deciding" /\ C[5] = "accepted"
      /\ C[6] = "rejected"
  BY DEF ControllerCourse
<1>2. /\ S["planning"] /\ (S["plan_distributed"] <=> Distributed(r))
      /\ (S["collecting_reports"] <=> Distributed(r))
      /\ ~S["deciding"] /\ ~S["accepted"] /\ ~S["rejected"]
  BY ControllerSigned
<1> HIDE DEF C, S
<1>3. \A j \in 1 .. 6 : j = 1 \/ j = 2 \/ j = 3 \/ j = 4 \/ j = 5 \/ j = 6
  OBVIOUS
<1>4. DOMAIN C \subseteq Int /\ 1 \in DOMAIN C /\ 3 \in DOMAIN C
  BY <1>1
<1>5. ASSUME Distributed(r) PROVE Furthest(C, S) = "collecting_reports"
  <2>1. S[C[3]] /\ \A j \in DOMAIN C : j > 3 => ~S[C[j]]
    BY <1>1, <1>2, <1>3, <1>5
  <2>2. QED
    BY <1>1, <1>4, <2>1, FurthestIs
<1>6. ASSUME ~Distributed(r) PROVE Furthest(C, S) = "planning"
  <2>1. S[C[1]] /\ \A j \in DOMAIN C : j > 1 => ~S[C[j]]
    BY <1>1, <1>2, <1>3, <1>6
  <2>2. QED
    BY <1>1, <1>4, <2>1, FurthestIs
<1>7. QED
  BY <1>5, <1>6 DEF ControllerState, C, S

\* The moves of the controller that the session makes.
LEMMA ControllerMoves ==
  {<<"planning", "plan_distributed">>, <<"plan_distributed", "collecting_reports">>,
   <<"planning", "rejected">>, <<"collecting_reports", "deciding">>,
   <<"deciding", "accepted">>, <<"deciding", "rejected">>} \subseteq Listed(ControllerTable)
<1>1. /\ ControllerTable["planning"] = {"plan_distributed", "rejected"}
      /\ ControllerTable["plan_distributed"] = {"collecting_reports"}
      /\ ControllerTable["collecting_reports"] = {"deciding", "aborted"}
      /\ ControllerTable["deciding"] = {"accepted", "rejected"}
      /\ {"planning", "plan_distributed", "collecting_reports", "deciding"}
           \subseteq DOMAIN ControllerTable
  BY DEF ControllerTable
<1>2. QED
  BY <1>1, ListedMove

\* A step adds a result to the others or none.
LEMMA ResultsGrow ==
  ASSUME Books, NEW e, NEW x, Adds(e, x)
  PROVE  /\ \A i \in DOMAIN results' :
              results'[i] = x \/ (i \in DOMAIN results /\ results'[i] = results[i])
         /\ \A i \in DOMAIN results : i \in DOMAIN results' /\ results'[i] = results[i]
         /\ \E i \in DOMAIN results' : results'[i] = x
<1>1. PICK S : results \in Seq(S)
  BY DEF Books
<1>2. results' = Append(results, x)
  BY DEF Adds
<1>3. /\ DOMAIN results' = 1 .. Len(results) + 1 /\ DOMAIN results = 1 .. Len(results)
      /\ Len(results) \in Nat /\ results'[Len(results) + 1] = x
      /\ \A i \in 1 .. Len(results) : results'[i] = results[i]
  BY <1>1, <1>2
<1>4. QED
  BY <1>3

\* What a step does to the signs of the controller: the round starts, its plan
\* is refused, it is decided, or nothing.
LEMMA ControllerOf ==
  ASSUME Office, Books', Accounts, NEW e \in queue, Handles(e), status' \notin Errors,
         NEW q \in Rounds
  PROVE  \/ /\ ~Distributed(q) /\ ~completed[q] /\ ~Verdict(q, TRUE) /\ ~Verdict(q, FALSE)
            /\ ~completed'[q] /\ ~Verdict(q, TRUE)' /\ ~Verdict(q, FALSE)'
         \/ /\ ~Distributed(q) /\ ~completed[q] /\ ~Verdict(q, TRUE) /\ ~Verdict(q, FALSE)
            /\ ~Distributed(q)' /\ ~Verdict(q, TRUE)'
         \/ /\ Distributed(q) /\ ~completed[q] /\ ~Verdict(q, TRUE) /\ ~Verdict(q, FALSE)
            /\ ~Verdict(q, TRUE)' \/ ~Verdict(q, FALSE)'
            /\ Distributed(q)' /\ completed'[q]
         \/ /\ Distributed(q)' => Distributed(q)
            /\ completed'[q] => completed[q]
            /\ \A b \in BOOLEAN : Verdict(q, b)' => Verdict(q, b)
<1>1. /\ Groundwork /\ TypeOK /\ Agenda /\ RuntimeTypes /\ Books
      /\ e.round \in Rounds /\ started \in [Rounds -> BOOLEAN]
  BY TypesOfEvent DEF Office, Groundwork, TypeOK
<1>2. started'[q] => started[q] \/ (e.kind = "start" /\ q = e.round)
  BY <1>1, StartedMoves
<1>3. ~completed[q] => \A i \in DOMAIN results : results[i].round # q
  BY <1>1 DEF Books
<1>4. ~completed[q] => ~Verdict(q, TRUE) /\ ~Verdict(q, FALSE) /\ ~Refused(q)
  BY <1>3 DEF Verdict, Refused
<1>5. CASE StartRound(e) /\ q = e.round
  <2>1. ~started[q] /\ ~completed[q] /\ UNCHANGED <<results, completed>>
    BY <1>5, FreshStart
  <2>2. ~Verdict(q, TRUE)' /\ ~Verdict(q, FALSE)'
    BY <1>3, <2>1 DEF Verdict
  <2>3. QED
    BY <1>4, <2>1, <2>2 DEF Distributed
<1>6. CASE ~(StartRound(e) /\ q = e.round) /\ UNCHANGED results
  <2>1. ~(RejectPlan(e) /\ q = e.round)
    <3>1. ASSUME RejectPlan(e), q = e.round PROVE FALSE
      <4>1. ~started[q]
        BY <1>1, <3>1 DEF RejectPlan, Handle, Agenda, StartsAreAhead
      <4>2. ~completed[q] /\ completed'[q]
        BY <1>1, <3>1, <4>1 DEF RejectPlan, Books, TypeOK
      <4>3. \E i \in DOMAIN results' : results'[i].round = q
        BY <4>2 DEF Books
      <4>4. QED
        BY <1>3, <1>6, <4>2, <4>3
    <3>2. QED
      BY <3>1
  <2>2. ~(e.kind = "start" /\ q = e.round)
    BY <1>6, <2>1, GateOfStep DEF Handles, StartRoundRaises, Raise, Errors
  <2>3. completed'[q] => completed[q]
    BY <1>1, <1>6 DEF Books
  <2>4. (Refused(q)' <=> Refused(q)) /\ \A b : Verdict(q, b)' <=> Verdict(q, b)
    BY <1>6 DEF Refused, Verdict
  <2>5. QED
    BY <1>2, <2>2, <2>3, <2>4 DEF Distributed
<1>7. ASSUME NEW x, Adds(e, x) PROVE x.round = e.round
  BY <1>7 DEF Adds, RejectedResult, RoundResult
<1>8. ASSUME NEW x, Adds(e, x), q # e.round
      PROVE  /\ Distributed(q)' => Distributed(q)
             /\ completed'[q] => completed[q]
             /\ \A b \in BOOLEAN : Verdict(q, b)' => Verdict(q, b)
  <2>1. x.round # q
    BY <1>7, <1>8
  <2>2. /\ \A i \in DOMAIN results' : results'[i].round = q =>
             i \in DOMAIN results /\ results'[i] = results[i]
        /\ \A i \in DOMAIN results : i \in DOMAIN results' /\ results'[i] = results[i]
    BY <1>1, <1>8, <2>1, ResultsGrow
  <2>3. completed'[q] => completed[q]
    BY <1>1, <2>2 DEF Books
  <2>4. (Refused(q)' <=> Refused(q)) /\ \A b : Verdict(q, b)' => Verdict(q, b)
    BY <2>2 DEF Refused, Verdict
  <2>5. QED
    BY <1>2, <1>8, <2>3, <2>4 DEF Distributed
<1>9. ASSUME NEW x, Adds(e, x), q = e.round, e.kind = "start",
             x = RejectedResult(e.round, PreflightReasons(e.round))
      PROVE  /\ ~Distributed(q) /\ ~completed[q] /\ ~Verdict(q, TRUE) /\ ~Verdict(q, FALSE)
             /\ ~Distributed(q)' /\ ~Verdict(q, TRUE)'
  <2>1. ~started[q] /\ ~completed[q]
    BY <1>1, <1>9 DEF Agenda, StartsAreAhead, Books
  <2>2. x.round = q /\ x.outcome = "not_executed" /\ x.accepted = FALSE
    BY <1>9 DEF RejectedResult
  <2>3. /\ \A i \in DOMAIN results' : results'[i].round = q => results'[i] = x
        /\ \E i \in DOMAIN results' : results'[i] = x
    BY <1>1, <1>3, <1>9, <2>1, ResultsGrow
  <2>4. Refused(q)' /\ ~Verdict(q, TRUE)'
    BY <2>2, <2>3 DEF Refused, Verdict
  <2>5. QED
    BY <1>4, <2>1, <2>4 DEF Distributed
<1>10. ASSUME NEW x, Adds(e, x), q = e.round, ~completed[q], e.kind \in {"report", "final"}
       PROVE  /\ Distributed(q) /\ ~completed[q] /\ ~Verdict(q, TRUE) /\ ~Verdict(q, FALSE)
              /\ ~Verdict(q, TRUE)' \/ ~Verdict(q, FALSE)'
              /\ Distributed(q)' /\ completed'[q]
  <2>1. started[q] /\ started'[q]
    BY <1>1, <1>10, StartedMoves DEF Agenda, StartsAreAhead
  <2>2. /\ \A i \in DOMAIN results' : results'[i].round = q => results'[i] = x
        /\ \E i \in DOMAIN results' : results'[i] = x
    BY <1>1, <1>3, <1>10, ResultsGrow
  <2>3. ~Verdict(q, TRUE)' \/ ~Verdict(q, FALSE)'
    BY <2>2 DEF Verdict
  <2>4. completed'[q]
    BY <1>7, <1>10, <2>2 DEF Books
  <2>5. ~Refused(q)'
    BY <1>4, <1>10, <2>1, NotRefused
  <2>6. QED
    BY <1>4, <1>10, <2>1, <2>3, <2>4, <2>5 DEF Distributed
<1>11. UNCHANGED results \/ \E x : Adds(e, x)
  BY <1>1, StepAdds DEF Handles
<1>12. ASSUME NEW x, Adds(e, x), q = e.round
       PROVE  \/ e.kind = "start" /\ x = RejectedResult(e.round, PreflightReasons(e.round))
              \/ ~completed[q] /\ e.kind \in {"report", "final"}
  BY <1>12 DEF Adds
<1>13. QED
  BY <1>5, <1>6, <1>8, <1>9, <1>10, <1>11, <1>12

LEMMA ControllerStep ==
  ASSUME Office, Books', Accounts, NEW e \in queue, Handles(e), status' \notin Errors,
         NEW q \in Rounds
  PROVE  ControllerFollows(q, Listed(ControllerTable))
<1> DEFINE C == ControllerCourse
           S == ControllerSigns(q)
           T == ControllerSigns(q)'
           s == ControllerState(q)
           E == Entered(S, T)
           L == Listed(ControllerTable)
<1>1. /\ DOMAIN C = 1 .. 6 /\ C[1] = "planning" /\ C[2] = "plan_distributed"
      /\ C[3] = "collecting_reports" /\ C[4] = "deciding" /\ C[5] = "accepted"
      /\ C[6] = "rejected"
  BY DEF ControllerCourse
<1>2. /\ DOMAIN S = {"planning", "plan_distributed", "collecting_reports", "deciding",
                     "accepted", "rejected"}
      /\ S["planning"] /\ (S["plan_distributed"] <=> Distributed(q))
      /\ S["collecting_reports"] <=> Distributed(q)
      /\ S["deciding"] <=> Distributed(q) /\ completed[q]
      /\ S["accepted"] <=> Verdict(q, TRUE)
      /\ S["rejected"] <=> Verdict(q, FALSE)
  BY ControllerSigned
<1>3. /\ T["plan_distributed"] <=> Distributed(q)'
      /\ T["collecting_reports"] <=> Distributed(q)'
      /\ T["deciding"] <=> Distributed(q)' /\ completed'[q]
      /\ T["accepted"] <=> Verdict(q, TRUE)'
      /\ T["rejected"] <=> Verdict(q, FALSE)'
  BY DEF ControllerSigns, Distributed, Refused, Verdict
<1>4. ASSUME ~Verdict(q, TRUE), ~Verdict(q, FALSE), ~(Distributed(q) /\ completed[q])
      PROVE  s = IF Distributed(q) THEN "collecting_reports" ELSE "planning"
  BY <1>4, ControllerFurthest
<1>5. /\ <<"planning", "plan_distributed">> \in L
      /\ <<"plan_distributed", "collecting_reports">> \in L
      /\ <<"planning", "rejected">> \in L /\ <<"collecting_reports", "deciding">> \in L
      /\ <<"deciding", "accepted">> \in L /\ <<"deciding", "rejected">> \in L
  BY ControllerMoves
<1>6. SUFFICES Follows(L, C, s, E)
  BY DEF ControllerFollows
<1> HIDE DEF C, S, T, s, L
<1>7. \A t \in E : t \in DOMAIN S /\ ~S[t] /\ T[t]
  BY DEF Entered
<1>8. \A t \in DOMAIN S : ~S[t] /\ T[t] => t \in E
  BY DEF Entered
<1> HIDE DEF E
<1>9. CASE /\ ~Distributed(q) /\ ~completed[q] /\ ~Verdict(q, TRUE) /\ ~Verdict(q, FALSE)
            /\ ~completed'[q] /\ ~Verdict(q, TRUE)' /\ ~Verdict(q, FALSE)'
  <2>1. s = "planning" /\ E \subseteq {"plan_distributed", "collecting_reports"}
    BY <1>2, <1>3, <1>4, <1>7, <1>9
  <2>2. CASE Distributed(q)'
    <3>1. "plan_distributed" \in E
      BY <1>2, <1>3, <1>8, <1>9, <2>2
    <3>2. /\ 2 \in DOMAIN C /\ "plan_distributed" = C[2]
          /\ 3 \in DOMAIN C /\ "collecting_reports" = C[3] /\ 2 < 3
      BY <1>1
    <3>3. QED
      BY <1>5, <2>1, <3>1, <3>2, EntersTwo
  <2>3. CASE ~Distributed(q)'
    <3>1. E = {}
      BY <1>3, <1>7, <2>1, <2>3
    <3>2. QED
      BY <3>1 DEF Follows
  <2>4. QED
    BY <2>2, <2>3
<1>10. CASE /\ ~Distributed(q) /\ ~completed[q] /\ ~Verdict(q, TRUE) /\ ~Verdict(q, FALSE)
            /\ ~Distributed(q)' /\ ~Verdict(q, TRUE)'
  <2>1. s = "planning" /\ E \subseteq {"rejected"}
    BY <1>2, <1>3, <1>4, <1>7, <1>10
  <2>2. QED
    BY <1>5, <2>1, EntersOne
<1>11. CASE /\ Distributed(q) /\ ~completed[q] /\ ~Verdict(q, TRUE) /\ ~Verdict(q, FALSE)
            /\ ~Verdict(q, TRUE)' \/ ~Verdict(q, FALSE)'
            /\ Distributed(q)' /\ completed'[q]
  <2>1. s = "collecting_reports" /\ E \subseteq {"deciding", "accepted", "rejected"}
    BY <1>2, <1>3, <1>4, <1>7, <1>11
  <2>2. "deciding" \in E /\ ("accepted" \notin E \/ "rejected" \notin E)
    BY <1>2, <1>3, <1>7, <1>8, <1>11
  <2>3. /\ 4 \in DOMAIN C /\ "deciding" = C[4] /\ 5 \in DOMAIN C /\ "accepted" = C[5]
        /\ 6 \in DOMAIN C /\ "rejected" = C[6] /\ 4 < 5 /\ 4 < 6
    BY <1>1
  <2>4. CASE "rejected" \notin E
    <3>1. E \subseteq {"deciding", "accepted"}
      BY <2>1, <2>4
    <3>2. QED
      BY <1>5, <2>1, <2>2, <2>3, <3>1, EntersTwo
  <2>5. CASE "accepted" \notin E
    <3>1. E \subseteq {"deciding", "rejected"}
      BY <2>1, <2>5
    <3>2. QED
      BY <1>5, <2>1, <2>2, <2>3, <3>1, EntersTwo
  <2>6. QED
    BY <2>2, <2>4, <2>5
<1>12. CASE /\ Distributed(q)' => Distributed(q)
            /\ completed'[q] => completed[q]
            /\ \A b \in BOOLEAN : Verdict(q, b)' => Verdict(q, b)
  <2>1. E = {}
    BY <1>2, <1>3, <1>7, <1>12
  <2>2. QED
    BY <2>1 DEF Follows
<1>13. QED
  BY <1>9, <1>10, <1>11, <1>12, ControllerOf

-----------------------------------------------------------------------------
(* The verifiers. *)

LEMMA VerifierFurthest ==
  ASSUME NEW S, S["planned"],
         \A t \in {"preparing", "basis_sent", "commitment_received",
                   "local_measurement_complete", "answer_received", "report_sent"} :
           S[t] \in BOOLEAN
  PROVE  Furthest(VerifierCourse, S)
           = IF S["report_sent"]                     THEN "report_sent"
             ELSE IF S["answer_received"]            THEN "answer_received"
             ELSE IF S["local_measurement_complete"] THEN "local_measurement_complete"
             ELSE IF S["commitment_received"]        THEN "commitment_received"
             ELSE IF S["basis_sent"]                 THEN "basis_sent"
             ELSE IF S["preparing"]                  THEN "preparing"
             ELSE "planned"
<1> DEFINE C == VerifierCourse
           On(i) == S[C[i]]
           Last(i) == i \in 1 .. 7 /\ On(i) /\ \A j \in 1 .. 7 : j > i => ~On(j)
           P == IF On(7) THEN C[7] ELSE IF On(6) THEN C[6] ELSE IF On(5) THEN C[5]
                ELSE IF On(4) THEN C[4] ELSE IF On(3) THEN C[3] ELSE IF On(2) THEN C[2]
                ELSE C[1]
<1>1. /\ DOMAIN C = 1 .. 7
      /\ C[1] = "planned" /\ C[2] = "preparing" /\ C[3] = "basis_sent"
      /\ C[4] = "commitment_received" /\ C[5] = "local_measurement_complete"
      /\ C[6] = "answer_received" /\ C[7] = "report_sent"
  BY DEF VerifierCourse
<1> HIDE DEF C
<1>2. On(1)
  BY <1>1
<1>3. \A i \in 1 .. 7 : Last(i) => Furthest(C, S) = C[i]
  BY <1>1, FurthestIs
<1>4. \E i \in 1 .. 7 : Last(i) /\ C[i] = P
  <2> HIDE DEF On
  <2>1. On(7) => Last(7) /\ C[7] = P
    OBVIOUS
  <2>2. ~On(7) /\ On(6) => Last(6) /\ C[6] = P
    OBVIOUS
  <2>3. ~On(7) /\ ~On(6) /\ On(5) => Last(5) /\ C[5] = P
    OBVIOUS
  <2>4. ~On(7) /\ ~On(6) /\ ~On(5) /\ On(4) => Last(4) /\ C[4] = P
    OBVIOUS
  <2>5. ~On(7) /\ ~On(6) /\ ~On(5) /\ ~On(4) /\ On(3) => Last(3) /\ C[3] = P
    OBVIOUS
  <2>6. ~On(7) /\ ~On(6) /\ ~On(5) /\ ~On(4) /\ ~On(3) /\ On(2) => Last(2) /\ C[2] = P
    OBVIOUS
  <2>7. ~On(7) /\ ~On(6) /\ ~On(5) /\ ~On(4) /\ ~On(3) /\ ~On(2) => Last(1) /\ C[1] = P
    BY <1>2
  <2> HIDE DEF Last, P
  <2>8. QED
    BY <2>1, <2>2, <2>3, <2>4, <2>5, <2>6, <2>7
<1>5. Furthest(C, S) = P
  <2> HIDE DEF Last, P
  <2>1. QED
    BY <1>3, <1>4
<1>6. QED
  BY <1>1, <1>5 DEF C

\* The moves of the verifiers that the session makes.
LEMMA VerifierMoves ==
  {<<"planned", "preparing">>, <<"preparing", "basis_sent">>,
   <<"basis_sent", "commitment_received">>, <<"basis_sent", "local_measurement_complete">>,
   <<"commitment_received", "local_measurement_complete">>,
   <<"commitment_received", "answer_received">>,
   <<"local_measurement_complete", "answer_received">>,
   <<"local_measurement_complete", "report_sent">>, <<"answer_received", "report_sent">>}
    \subseteq Listed(VerifierTable)
<1>1. /\ VerifierTable["planned"] = {"preparing", "aborted"}
      /\ VerifierTable["preparing"] = {"challenge_sent", "basis_sent", "aborted"}
      /\ VerifierTable["basis_sent"] = {"commitment_received", "local_measurement_complete",
                                        "aborted"}
      /\ VerifierTable["commitment_received"] = {"local_measurement_complete",
                                                 "answer_received", "aborted"}
      /\ VerifierTable["local_measurement_complete"] = {"answer_received", "report_sent",
                                                        "aborted"}
      /\ VerifierTable["answer_received"] = {"report_sent", "aborted"}
  BY DEF VerifierTable
<1>2. {"planned", "preparing", "basis_sent", "commitment_received",
       "local_measurement_complete", "answer_received"} \subseteq DOMAIN VerifierTable
  BY DEF VerifierTable
<1>3. QED
  BY <1>1, <1>2, ListedMove

\* What a verifier hears and reports.
LEMMA OpSees ==
  ASSUME NEW e, NEW rd, NEW n, NEW N, NEW u, NEW u1, Op(e, rd, n, N, u, u1), NEW v \in Verifiers
  PROVE  LET o == rd.seen[v]  p == n.seen[v] IN
         /\ p.commitment # None => o.commitment # None \/ (e.kind = "commitment" /\ e.who = v)
         /\ p.answer # None => o.answer # None \/ (e.kind = "answer" /\ e.who = v)
         /\ \/ p.report # None => o.report # None
            \/ e.kind = "timeout"
            \/ /\ p.commitment # None /\ p.answer # None
               /\ v = "v0" => n.bit["v0"] # None
               /\ \/ e.kind \in {"commitment", "answer"} /\ e.who = v
                  \/ e.kind = "measured" /\ e.who = "v0" /\ v = "v0"
<1>1. CASE IdleOp(e, rd, n, N) \/ CommitOp(e, rd, n, N) \/ DetectOp(e, rd, n, N)
  BY <1>1 DEF IdleOp, CommitOp, DetectOp, CommittingEffect, DetectedEffect
<1>2. CASE TryOp(e, rd, n, N) \/ LoadFailsOp(e, rd, n, N)
  BY <1>2 DEF TryOp, LoadFailsOp, TryEffect, ArrivalEffect, LoadEffect
<1>3. CASE RetrievedOp(e, rd, n, N) \/ AnswersOp(e, rd, n, N) \/ ReceivedOp(e, rd, n, N)
  BY <1>3 DEF RetrievedOp, AnswersOp, ReceivedOp, DwellEffect, BitEffect, ReceivedEffect
<1>4. CASE V0Op(e, rd, n, N)
  <2>1. PICK n1 : /\ n1.seen = rd.seen /\ ReportEffect(n, n1, e.round, "v0", FALSE)
                  /\ e.kind = "measured" /\ e.who = "v0"
    BY <1>4 DEF V0Op, BitEffect
  <2>2. CASE v = "v0"
    <3>1. CASE Reports("v0", n1, FALSE)
      BY <2>1, <2>2, <3>1 DEF ReportEffect, Reports, Ready
    <3>2. CASE ~Reports("v0", n1, FALSE)
      BY <2>1, <2>2, <3>2 DEF ReportEffect
    <3>3. QED
      BY <3>1, <3>2
  <2>3. CASE v # "v0"
    BY <2>1, <2>3 DEF ReportEffect
  <2>4. QED
    BY <2>2, <2>3
<1>5. CASE SeesOp(e, rd, n, N)
  <2>1. PICK n1 : /\ SeeingEffect(n1, rd, e) /\ ReportEffect(n, n1, e.round, e.who, FALSE)
                  /\ e.kind \in {"commitment", "answer"}
    BY <1>5 DEF SeesOp
  <2>2. CASE v = e.who
    <3>1. /\ n1.seen[v].report = rd.seen[v].report
          /\ n1.seen[v].commitment # None => rd.seen[v].commitment # None \/ e.kind = "commitment"
          /\ n1.seen[v].answer # None => rd.seen[v].answer # None \/ e.kind = "answer"
      BY <2>1, <2>2 DEF SeeingEffect
    <3>2. /\ n.seen[v].commitment = n1.seen[v].commitment /\ n.seen[v].answer = n1.seen[v].answer
          /\ n.bit = n1.bit
          /\ Reports(v, n1, FALSE) \/ n.seen[v].report = n1.seen[v].report
      BY <2>1, <2>2 DEF ReportEffect
    <3>3. Reports(v, n1, FALSE) =>
            /\ n1.seen[v].commitment # None /\ n1.seen[v].answer # None
            /\ v = "v0" => n1.bit["v0"] # None
      BY DEF Reports, Ready
    <3>4. QED
      BY <2>1, <2>2, <3>1, <3>2, <3>3
  <2>3. CASE v # e.who
    <3>1. n.seen[v] = rd.seen[v]
      BY <2>1, <2>3 DEF SeeingEffect, ReportEffect
    <3>2. QED
      BY <3>1
  <2>4. QED
    BY <2>2, <2>3
<1>6. CASE ForcedOp(e, rd, n, N)
  <2>1. PICK n1 : /\ ReportEffect(n1, rd, e.round, "v0", TRUE)
                  /\ ReportEffect(n, n1, e.round, "v1", TRUE) /\ e.kind = "timeout"
    BY <1>6 DEF ForcedOp
  <2>2. /\ n1.seen[v].commitment = rd.seen[v].commitment /\ n1.seen[v].answer = rd.seen[v].answer
        /\ n.seen[v].commitment = n1.seen[v].commitment /\ n.seen[v].answer = n1.seen[v].answer
    BY <2>1 DEF ReportEffect, Verifiers
  <2>3. QED
    BY <2>1, <2>2
<1>7. QED
  BY <1>1, <1>2, <1>3, <1>4, <1>5, <1>6 DEF Op

\* v0 measures when its own reading ends.
LEMMA OpReads ==
  ASSUME NEW e, NEW rd, NEW n, NEW N, NEW u, NEW u1, Op(e, rd, n, N, u, u1), n.bit["v0"] # None
  PROVE  rd.bit["v0"] # None \/ (e.kind = "measured" /\ e.who = "v0")
<1>1. CASE IdleOp(e, rd, n, N) \/ CommitOp(e, rd, n, N) \/ DetectOp(e, rd, n, N)
  BY <1>1 DEF IdleOp, CommitOp, DetectOp, CommittingEffect, DetectedEffect
<1>2. CASE TryOp(e, rd, n, N) \/ LoadFailsOp(e, rd, n, N)
  BY <1>2 DEF TryOp, LoadFailsOp, TryEffect, ArrivalEffect, LoadEffect
<1>3. CASE RetrievedOp(e, rd, n, N) \/ AnswersOp(e, rd, n, N) \/ ReceivedOp(e, rd, n, N)
  BY <1>3 DEF RetrievedOp, AnswersOp, ReceivedOp, DwellEffect, BitEffect, ReceivedEffect, Holders
<1>4. CASE V0Op(e, rd, n, N)
  BY <1>4 DEF V0Op
<1>5. CASE SeesOp(e, rd, n, N) \/ ForcedOp(e, rd, n, N)
  BY <1>5 DEF SeesOp, ForcedOp, SeeingEffect, ReportEffect
<1>6. QED
  BY <1>1, <1>2, <1>3, <1>4, <1>5 DEF Op

VerifierStates ==
  {"planned", "preparing", "basis_sent", "commitment_received", "local_measurement_complete",
   "answer_received", "report_sent"}

\* The signs T that follow S are new in these states only.
NewIn(S, T, states) == \A t \in VerifierStates \ states : T[t] => S[t]

\* A verifier that has its plan sends its input, hears the prover's commitment
\* or answer, measures, or reports because the round times out.
LEMMA VerifierTakes ==
  ASSUME NEW S \in [VerifierStates -> BOOLEAN], NEW T \in [VerifierStates -> BOOLEAN],
         S["planned"], S["preparing"],
         NEW moves, Listed(VerifierTable) \subseteq moves, OutOfTurn \subseteq moves,
         \/ NewIn(S, T, {})
         \/ /\ NewIn(S, T, {"basis_sent"})
            /\ ~S["basis_sent"] /\ ~S["local_measurement_complete"] /\ ~S["answer_received"]
         \/ /\ NewIn(S, T, {"commitment_received", "report_sent"})
            /\ T["report_sent"] => S["report_sent"] \/ (T["commitment_received"]
                                                        /\ T["answer_received"])
            /\ <<"commitment_received", "report_sent">> \in moves
         \/ /\ NewIn(S, T, {"answer_received", "report_sent"}) /\ S["basis_sent"]
            /\ T["report_sent"] => S["report_sent"] \/ T["answer_received"]
         \/ /\ NewIn(S, T, {"local_measurement_complete", "report_sent"}) /\ S["basis_sent"]
            /\ T["report_sent"] => S["report_sent"] \/ T["answer_received"]
         \/ /\ NewIn(S, T, {"report_sent"})
            /\ {"preparing", "basis_sent", "commitment_received"} \X {"report_sent"}
                 \subseteq moves
  PROVE  Follows(moves, VerifierCourse, Furthest(VerifierCourse, S), Entered(S, T))
<1> DEFINE C == VerifierCourse
           s == Furthest(C, S)
           E == Entered(S, T)
<1>1. /\ DOMAIN C = 1 .. 7
      /\ C[1] = "planned" /\ C[2] = "preparing" /\ C[3] = "basis_sent"
      /\ C[4] = "commitment_received" /\ C[5] = "local_measurement_complete"
      /\ C[6] = "answer_received" /\ C[7] = "report_sent"
  BY DEF VerifierCourse
<1>2. s = IF S["report_sent"]                     THEN "report_sent"
          ELSE IF S["answer_received"]            THEN "answer_received"
          ELSE IF S["local_measurement_complete"] THEN "local_measurement_complete"
          ELSE IF S["commitment_received"]        THEN "commitment_received"
          ELSE IF S["basis_sent"]                 THEN "basis_sent"
          ELSE "preparing"
  BY VerifierFurthest DEF VerifierStates
<1>3. \A t : t \in E <=> t \in VerifierStates /\ ~S[t] /\ T[t]
  BY DEF Entered
<1>4. /\ <<"preparing", "basis_sent">> \in moves
      /\ <<"basis_sent", "commitment_received">> \in moves
      /\ <<"basis_sent", "local_measurement_complete">> \in moves
      /\ <<"commitment_received", "local_measurement_complete">> \in moves
      /\ <<"commitment_received", "answer_received">> \in moves
      /\ <<"local_measurement_complete", "answer_received">> \in moves
      /\ <<"local_measurement_complete", "report_sent">> \in moves
      /\ <<"answer_received", "report_sent">> \in moves
  BY VerifierMoves
<1>5. /\ <<"preparing", "commitment_received">> \in moves
      /\ <<"local_measurement_complete", "commitment_received">> \in moves
      /\ <<"answer_received", "commitment_received">> \in moves
      /\ <<"basis_sent", "answer_received">> \in moves
      /\ <<"answer_received", "local_measurement_complete">> \in moves
      /\ <<"commitment_received", "basis_sent">> \in moves
      /\ <<"report_sent", "basis_sent">> \in moves
      /\ <<"report_sent", "commitment_received">> \in moves
      /\ <<"report_sent", "local_measurement_complete">> \in moves
      /\ <<"report_sent", "answer_received">> \in moves
  BY DEF OutOfTurn
<1> SUFFICES Follows(moves, C, s, E)
  OBVIOUS
<1> HIDE DEF C, s, E
<1>6. ASSUME E \subseteq {"report_sent"}, S["answer_received"], ~S["report_sent"]
      PROVE  Follows(moves, C, s, E)
  BY <1>2, <1>4, <1>6, EntersOne
<1>7. CASE NewIn(S, T, {})
  <2>1. E = {}
    BY <1>3, <1>7 DEF NewIn
  <2>2. QED
    BY <2>1 DEF Follows
<1>8. CASE /\ NewIn(S, T, {"basis_sent"})
           /\ ~S["basis_sent"] /\ ~S["local_measurement_complete"] /\ ~S["answer_received"]
  <2>1. E \subseteq {"basis_sent"}
    BY <1>3, <1>8 DEF NewIn
  <2>2. <<s, "basis_sent">> \in moves
    BY <1>2, <1>4, <1>5, <1>8
  <2>3. QED
    BY <2>1, <2>2, EntersOne
<1>9. CASE /\ NewIn(S, T, {"commitment_received", "report_sent"})
           /\ T["report_sent"] => S["report_sent"] \/ (T["commitment_received"]
                                                       /\ T["answer_received"])
           /\ <<"commitment_received", "report_sent">> \in moves
  <2>1. E \subseteq {"commitment_received", "report_sent"}
    BY <1>3, <1>9 DEF NewIn
  <2>2. CASE "commitment_received" \in E
    <3>1. <<s, "commitment_received">> \in moves
      BY <1>2, <1>3, <1>4, <1>5, <2>2
    <3>2. /\ 4 \in DOMAIN C /\ "commitment_received" = C[4]
          /\ 7 \in DOMAIN C /\ "report_sent" = C[7] /\ 4 < 7
      BY <1>1
    <3>3. QED
      BY <1>9, <2>1, <2>2, <3>1, <3>2, EntersTwo
  <2>3. CASE "commitment_received" \notin E /\ "report_sent" \in E
    <3>1. S["answer_received"] /\ ~S["report_sent"]
      BY <1>3, <1>9, <2>3 DEF NewIn, VerifierStates
    <3>2. QED
      BY <1>6, <2>1, <2>3, <3>1
  <2>4. CASE E = {}
    BY <2>4 DEF Follows
  <2>5. QED
    BY <2>1, <2>2, <2>3, <2>4
<1>10. CASE /\ NewIn(S, T, {"answer_received", "report_sent"}) /\ S["basis_sent"]
            /\ T["report_sent"] => S["report_sent"] \/ T["answer_received"]
  <2>1. E \subseteq {"answer_received", "report_sent"}
    BY <1>3, <1>10 DEF NewIn
  <2>2. CASE "answer_received" \in E
    <3>1. <<s, "answer_received">> \in moves
      BY <1>2, <1>3, <1>4, <1>5, <1>10, <2>2
    <3>2. /\ 6 \in DOMAIN C /\ "answer_received" = C[6]
          /\ 7 \in DOMAIN C /\ "report_sent" = C[7] /\ 6 < 7
      BY <1>1
    <3>3. /\ E \subseteq {C[6], C[7]} /\ C[6] \in E
          /\ <<s, C[6]>> \in moves /\ <<C[6], C[7]>> \in moves
      BY <1>4, <2>1, <2>2, <3>1, <3>2
    <3>4. QED
      BY <3>2, <3>3, EntersTwo
  <2>3. CASE "answer_received" \notin E /\ "report_sent" \in E
    <3>1. S["answer_received"] /\ ~S["report_sent"]
      BY <1>3, <1>10, <2>3 DEF VerifierStates
    <3>2. QED
      BY <1>6, <2>1, <2>3, <3>1
  <2>4. CASE E = {}
    BY <2>4 DEF Follows
  <2>5. QED
    BY <2>1, <2>2, <2>3, <2>4
<1>11. CASE /\ NewIn(S, T, {"local_measurement_complete", "report_sent"}) /\ S["basis_sent"]
            /\ T["report_sent"] => S["report_sent"] \/ T["answer_received"]
  <2>1. E \subseteq {"local_measurement_complete", "report_sent"}
    BY <1>3, <1>11 DEF NewIn
  <2>2. CASE "local_measurement_complete" \in E
    <3>1. <<s, "local_measurement_complete">> \in moves
      BY <1>2, <1>3, <1>4, <1>5, <1>11, <2>2
    <3>2. /\ 5 \in DOMAIN C /\ "local_measurement_complete" = C[5]
          /\ 7 \in DOMAIN C /\ "report_sent" = C[7] /\ 5 < 7
      BY <1>1
    <3>3. /\ E \subseteq {C[5], C[7]} /\ C[5] \in E
          /\ <<s, C[5]>> \in moves /\ <<C[5], C[7]>> \in moves
      BY <1>4, <2>1, <2>2, <3>1, <3>2
    <3>4. QED
      BY <3>2, <3>3, EntersTwo
  <2>3. CASE "local_measurement_complete" \notin E /\ "report_sent" \in E
    <3>1. S["answer_received"] /\ ~S["report_sent"]
      BY <1>3, <1>11, <2>3 DEF NewIn, VerifierStates
    <3>2. QED
      BY <1>6, <2>1, <2>3, <3>1
  <2>4. CASE E = {}
    BY <2>4 DEF Follows
  <2>5. QED
    BY <2>1, <2>2, <2>3, <2>4
<1>12. CASE /\ NewIn(S, T, {"report_sent"})
            /\ {"preparing", "basis_sent", "commitment_received"} \X {"report_sent"}
                 \subseteq moves
  <2>1. E \subseteq {"report_sent"}
    BY <1>3, <1>12 DEF NewIn
  <2>2. "report_sent" \in E => <<s, "report_sent">> \in moves
    BY <1>2, <1>3, <1>4, <1>12
  <2>3. QED
    BY <2>1, <2>2, EntersOne
<1>13. QED
  BY <1>7, <1>8, <1>9, <1>10, <1>11, <1>12

\* The signs, given the runtime, whether the plan is distributed and whether
\* the verifier's input is still to be sent.
VerifierSignsOf(v, rd, distributed, sends) ==
  [planned                    |-> TRUE,
   preparing                  |-> distributed,
   basis_sent                 |-> distributed /\ ~sends,
   commitment_received        |-> rd.seen[v].commitment # None,
   local_measurement_complete |-> v = "v0" /\ rd.bit["v0"] # None,
   answer_received            |-> rd.seen[v].answer # None,
   report_sent                |-> rd.seen[v].report # None]

LEMMA VerifierSigned ==
  ASSUME NEW v, NEW rd, NEW distributed \in BOOLEAN, NEW sends \in BOOLEAN
  PROVE  LET S == VerifierSignsOf(v, rd, distributed, sends) IN
         /\ DOMAIN S = VerifierStates /\ S \in [VerifierStates -> BOOLEAN]
         /\ S["planned"] /\ (S["preparing"] <=> distributed)
         /\ S["basis_sent"] <=> distributed /\ ~sends
         /\ S["commitment_received"] <=> rd.seen[v].commitment # None
         /\ S["local_measurement_complete"] <=> v = "v0" /\ rd.bit["v0"] # None
         /\ S["answer_received"] <=> rd.seen[v].answer # None
         /\ S["report_sent"] <=> rd.seen[v].report # None
<1> DEFINE S == VerifierSignsOf(v, rd, distributed, sends)
<1>1. /\ DOMAIN S = VerifierStates
      /\ S["planned"] /\ (S["preparing"] <=> distributed)
      /\ S["basis_sent"] <=> distributed /\ ~sends
      /\ S["commitment_received"] <=> rd.seen[v].commitment # None
      /\ S["local_measurement_complete"] <=> v = "v0" /\ rd.bit["v0"] # None
      /\ S["answer_received"] <=> rd.seen[v].answer # None
      /\ S["report_sent"] <=> rd.seen[v].report # None
  BY DEF VerifierSignsOf, VerifierStates
<1>2. /\ S["planned"] \in BOOLEAN /\ S["preparing"] \in BOOLEAN /\ S["basis_sent"] \in BOOLEAN
      /\ S["commitment_received"] \in BOOLEAN /\ S["local_measurement_complete"] \in BOOLEAN
      /\ S["answer_received"] \in BOOLEAN /\ S["report_sent"] \in BOOLEAN
  BY DEF VerifierSignsOf
<1>3. S = [t \in VerifierStates |-> S[t]]
  BY DEF VerifierSignsOf, VerifierStates
<1> HIDE DEF S
<1>4. \A t \in VerifierStates : S[t] \in BOOLEAN
  BY <1>2 DEF VerifierStates
<1>5. S \in [VerifierStates -> BOOLEAN]
  BY <1>3, <1>4
<1>6. QED
  BY <1>1, <1>5 DEF S

\* A runtime that stays shows nothing new.
LEMMA SignsRest ==
  ASSUME NEW v, NEW rd, NEW D \in BOOLEAN, NEW D1 \in BOOLEAN, NEW a \in BOOLEAN,
         NEW b \in BOOLEAN, D1 => D, D1 => b = a
  PROVE  \A t \in DOMAIN VerifierSignsOf(v, rd, D, a) :
           VerifierSignsOf(v, rd, D1, b)[t] => VerifierSignsOf(v, rd, D, a)[t]
<1> DEFINE S == VerifierSignsOf(v, rd, D, a)
           T == VerifierSignsOf(v, rd, D1, b)
<1>1. DOMAIN S = VerifierStates
  BY DEF VerifierSignsOf, VerifierStates
<1>2. S["planned"]
  BY DEF VerifierSignsOf
<1>3. (T["preparing"] => S["preparing"]) /\ (T["basis_sent"] => S["basis_sent"])
  BY DEF VerifierSignsOf
<1>4. /\ T["commitment_received"] = S["commitment_received"]
      /\ T["local_measurement_complete"] = S["local_measurement_complete"]
      /\ T["answer_received"] = S["answer_received"]
      /\ T["report_sent"] = S["report_sent"]
  BY DEF VerifierSignsOf
<1> HIDE DEF S, T
<1>5. \A t \in DOMAIN S : T[t] => S[t]
  BY <1>1, <1>2, <1>3, <1>4 DEF VerifierStates
<1>6. QED
  BY <1>5 DEF S, T

\* A plan is distributed when its round starts, and what happens in the round
\* happens after that.
LEMMA DistributedWhen ==
  ASSUME Office, Accounts, NEW e \in queue, Handles(e), status' \notin Errors, NEW q \in Rounds
  PROVE  /\ Distributed(q)' => Distributed(q) \/ (StartRound(e) /\ q = e.round)
         /\ e.kind # "start" /\ q = e.round => Distributed(q)
<1>1. /\ Groundwork /\ TypeOK /\ Agenda /\ RuntimeTypes /\ Books /\ e.round \in Rounds
  BY TypesOfEvent DEF Office, Groundwork
<1>2. started'[q] => started[q] \/ (e.kind = "start" /\ q = e.round)
  BY <1>1, StartedMoves
<1>3. Refused(q) => Refused(q)'
  <2>1. CASE UNCHANGED results
    BY <2>1 DEF Refused
  <2>2. ASSUME NEW x, Adds(e, x) PROVE Refused(q) => Refused(q)'
    BY <1>1, <2>2, ResultsGrow DEF Refused
  <2>3. QED
    BY <1>1, <2>1, <2>2, StepAdds DEF Handles
<1>4. e.kind = "start" /\ q = e.round => StartRound(e) \/ Refused(q)'
  <2>1. ASSUME RejectPlan(e), q = e.round PROVE Refused(q)'
    <3>1. results' = Append(results, RejectedResult(q, PreflightReasons(q)))
      BY <2>1 DEF RejectPlan
    <3>2. PICK X : results \in Seq(X)
      BY <1>1 DEF Books
    <3>3. /\ Len(results) + 1 \in DOMAIN results'
          /\ results'[Len(results) + 1] = RejectedResult(q, PreflightReasons(q))
      BY <3>1, <3>2
    <3>4. QED
      BY <3>3 DEF Refused, RejectedResult
  <2>2. QED
    BY <2>1, GateOfStep DEF Handles, StartRoundRaises, Raise, Errors
<1>5. e.kind # "start" => started[e.round] /\ ~Refused(e.round)
  BY <1>1 DEF Accounts, Agenda, StartsAreAhead
<1>6. QED
  BY <1>2, <1>3, <1>4, <1>5 DEF Distributed

\* A verifier hears an answer and measures only once it has sent its input.
LEMMA SentBefore ==
  ASSUME Groundwork, Accounts, NEW q \in Rounds, NEW v \in Verifiers, Awaits("send", q, v)
  PROVE  /\ round[q].seen[v].answer = None /\ round[q].bit["v0"] = None
         /\ \A x \in queue : x.round = q => x.kind \notin {"answer", "measured"}
<1> DEFINE rd == round[q]
<1>1. PICK x \in queue : x.kind = "send" /\ x.round = q /\ x.who = v
  BY DEF Awaits
<1>2. rd.arrival[v] = None
  BY <1>1 DEF Accounts, InHand
<1>3. ~rd.measuring
  BY <1>2 DEF Accounts
<1>4. Measured(rd, Pending(q)) /\ Saw(q, v, rd, Pending(q))
  BY DEF Groundwork, Truths, Truth
<1>5. \A m \in Holders : rd.bit[m] = None
  BY <1>3, <1>4 DEF Measured
<1>6. "v0" \in Holders /\ "prover" \in Holders
  BY DEF Holders
<1>7. rd.seen[v].answer = None
  BY <1>4, <1>5, <1>6 DEF Saw
<1>8. ASSUME NEW y \in queue, y.round = q PROVE y.kind \notin {"answer", "measured"}
  <2>1. y \in Pending(q)
    BY <1>8 DEF Pending
  <2>2. QED
    BY <1>3, <1>4, <1>5, <1>6, <2>1 DEF Measured, Reading
<1>9. QED
  BY <1>5, <1>6, <1>7, <1>8

\* What a step does to the runtime of its round as a verifier knows it.
LEMMA VerifierRound ==
  ASSUME Groundwork, Accounts, NEW e \in queue, Handles(e), e.kind # "start",
         NEW q \in Rounds, q = e.round, NEW v \in Verifiers, NEW rd, rd = round[q],
         NEW n, n = round'[q], NEW a, a = Awaits("send", q, v), NEW b, b = Awaits("send", q, v)'
  PROVE  /\ a /\ ~b => e.kind = "send"
         /\ a => /\ rd.seen[v].answer = None /\ rd.bit["v0"] = None
                 /\ e.kind \notin {"answer", "measured"}
         /\ n.seen[v].commitment # None => rd.seen[v].commitment # None \/ e.kind = "commitment"
         /\ n.seen[v].answer # None => rd.seen[v].answer # None \/ e.kind = "answer"
         /\ n.bit["v0"] # None => rd.bit["v0"] # None \/ e.kind = "measured"
         /\ n.seen[v].report # None =>
              \/ rd.seen[v].report # None \/ e.kind = "timeout"
              \/ /\ n.seen[v].commitment # None /\ n.seen[v].answer # None
                 /\ e.kind \in {"commitment", "answer", "measured"}
<1>1. PICK m, M : Moves(e, m, M)
  BY StepMoves DEF Groundwork, Handles
<1>2. Op(e, rd, n, M, Unresolved(q), Unresolved(q)')
  BY <1>1 DEF Moves
<1>3. Pending(q)' = (Pending(q) \ {e}) \union M
  BY <1>1 DEF Moves
<1>4. a /\ ~b => e.kind = "send"
  BY <1>3 DEF Awaits, Pending
<1>5. a => /\ rd.seen[v].answer = None /\ rd.bit["v0"] = None
           /\ e.kind \notin {"answer", "measured"}
  BY SentBefore
<1> HIDE DEF Handles
<1>6. n.bit["v0"] # None => rd.bit["v0"] # None \/ e.kind = "measured"
  BY <1>2, OpReads
<1>7. QED
  BY <1>2, <1>4, <1>5, <1>6, OpSees

\* A verifier whose plan is distributed goes its way, but for what comes early
\* or out of turn.
LEMMA VerifierGoes ==
  ASSUME Office, Accounts, NEW e \in queue, Handles(e), status' \notin Errors,
         e.kind # "start", NEW q \in Rounds, q = e.round, NEW v \in Verifiers
  PROVE  VerifierFollows(q, v, Listed(VerifierTable) \union EarlyReport(q) \union OutOfTurn)
<1> DEFINE rd == round[q]
           n == round'[q]
           a == Awaits("send", q, v)
           b == Awaits("send", q, v)'
           D == Distributed(q)
           D1 == Distributed(q)'
           S == VerifierSignsOf(v, rd, D, a)
           T == VerifierSignsOf(v, n, D1, b)
           moves == Listed(VerifierTable) \union EarlyReport(q) \union OutOfTurn
<1>1. VerifierSigns(q, v) = S /\ VerifierSigns(q, v)' = T
  BY DEF VerifierSigns, VerifierSignsOf
<1>2. a \in BOOLEAN /\ b \in BOOLEAN /\ D1 \in BOOLEAN
  BY DEF Awaits, Distributed
<1>3. D
  BY DistributedWhen
<1>4. /\ a /\ ~b => e.kind = "send"
      /\ a => /\ rd.seen[v].answer = None /\ rd.bit["v0"] = None
              /\ e.kind \notin {"answer", "measured"}
      /\ n.seen[v].commitment # None => rd.seen[v].commitment # None \/ e.kind = "commitment"
      /\ n.seen[v].answer # None => rd.seen[v].answer # None \/ e.kind = "answer"
      /\ n.bit["v0"] # None => rd.bit["v0"] # None \/ e.kind = "measured"
      /\ n.seen[v].report # None =>
           \/ rd.seen[v].report # None \/ e.kind = "timeout"
           \/ /\ n.seen[v].commitment # None /\ n.seen[v].answer # None
              /\ e.kind \in {"commitment", "answer", "measured"}
  BY VerifierRound DEF Office
<1>5. IsFirst(e, queue)
  BY StepIsFirst DEF Handles
<1>6. /\ e.kind = "commitment" => <<"commitment_received", "report_sent">> \in moves
      /\ e.kind = "timeout" =>
           {"preparing", "basis_sent", "commitment_received"} \X {"report_sent"} \subseteq moves
  BY <1>5 DEF Handling, EarlyReport
<1>7. Listed(VerifierTable) \subseteq moves /\ OutOfTurn \subseteq moves
  OBVIOUS
<1> HIDE DEF D, D1, a, b, rd, n, moves
<1>8. /\ S \in [VerifierStates -> BOOLEAN] /\ S["planned"] /\ S["preparing"]
      /\ S["basis_sent"] <=> ~a
      /\ S["commitment_received"] <=> rd.seen[v].commitment # None
      /\ S["local_measurement_complete"] <=> v = "v0" /\ rd.bit["v0"] # None
      /\ S["answer_received"] <=> rd.seen[v].answer # None
      /\ S["report_sent"] <=> rd.seen[v].report # None
  BY <1>2, <1>3, VerifierSigned
<1>9. /\ T \in [VerifierStates -> BOOLEAN]
      /\ T["basis_sent"] => ~b
      /\ T["commitment_received"] <=> n.seen[v].commitment # None
      /\ T["local_measurement_complete"] <=> v = "v0" /\ n.bit["v0"] # None
      /\ T["answer_received"] <=> n.seen[v].answer # None
      /\ T["report_sent"] <=> n.seen[v].report # None
  BY <1>2, VerifierSigned
<1> HIDE DEF S, T
<1>10. /\ T["basis_sent"] => S["basis_sent"] \/ e.kind = "send"
       /\ T["commitment_received"] => S["commitment_received"] \/ e.kind = "commitment"
       /\ T["local_measurement_complete"] =>
            S["local_measurement_complete"] \/ e.kind = "measured"
       /\ T["answer_received"] => S["answer_received"] \/ e.kind = "answer"
       /\ T["report_sent"] =>
            \/ S["report_sent"] \/ e.kind = "timeout"
            \/ /\ T["commitment_received"] /\ T["answer_received"]
               /\ e.kind \in {"commitment", "answer", "measured"}
       /\ e.kind \in {"answer", "measured"} => S["basis_sent"]
       /\ ~S["basis_sent"] => ~S["local_measurement_complete"] /\ ~S["answer_received"]
  BY <1>2, <1>4, <1>8, <1>9
<1>11. Follows(moves, VerifierCourse, Furthest(VerifierCourse, S), Entered(S, T))
  <2>1. CASE e.kind = "send"
    <3>1. NewIn(S, T, {"basis_sent"})
      BY <1>8, <1>10, <2>1 DEF NewIn, VerifierStates
    <3>2. CASE S["basis_sent"]
      <4>1. NewIn(S, T, {})
        BY <3>1, <3>2 DEF NewIn
      <4>2. QED
        BY <1>7, <1>8, <1>9, <4>1, VerifierTakes
    <3>3. CASE ~S["basis_sent"]
      BY <1>7, <1>8, <1>9, <1>10, <3>1, <3>3, VerifierTakes
    <3>4. QED
      BY <3>2, <3>3
  <2>2. CASE e.kind = "commitment"
    <3>1. NewIn(S, T, {"commitment_received", "report_sent"})
      BY <1>8, <1>10, <2>2 DEF NewIn, VerifierStates
    <3>2. T["report_sent"] => S["report_sent"] \/ (T["commitment_received"]
                                                   /\ T["answer_received"])
      BY <1>10, <2>2
    <3>3. QED
      BY <1>6, <1>7, <1>8, <1>9, <2>2, <3>1, <3>2, VerifierTakes
  <2>3. CASE e.kind = "answer"
    <3>1. NewIn(S, T, {"answer_received", "report_sent"})
      BY <1>8, <1>10, <2>3 DEF NewIn, VerifierStates
    <3>2. S["basis_sent"] /\ (T["report_sent"] => S["report_sent"] \/ T["answer_received"])
      BY <1>10, <2>3
    <3>3. QED
      BY <1>7, <1>8, <1>9, <3>1, <3>2, VerifierTakes
  <2>4. CASE e.kind = "measured"
    <3>1. NewIn(S, T, {"local_measurement_complete", "report_sent"})
      BY <1>8, <1>10, <2>4 DEF NewIn, VerifierStates
    <3>2. S["basis_sent"] /\ (T["report_sent"] => S["report_sent"] \/ T["answer_received"])
      BY <1>10, <2>4
    <3>3. QED
      BY <1>7, <1>8, <1>9, <3>1, <3>2, VerifierTakes
  <2>5. CASE e.kind = "timeout"
    <3>1. NewIn(S, T, {"report_sent"})
      BY <1>8, <1>10, <2>5 DEF NewIn, VerifierStates
    <3>2. QED
      BY <1>6, <1>7, <1>8, <1>9, <2>5, <3>1, VerifierTakes
  <2>6. CASE e.kind \notin {"send", "commitment", "answer", "measured", "timeout"}
    <3>1. NewIn(S, T, {})
      BY <1>8, <1>10, <2>6 DEF NewIn, VerifierStates
    <3>2. QED
      BY <1>7, <1>8, <1>9, <3>1, VerifierTakes
  <2>7. QED
    BY <2>1, <2>2, <2>3, <2>4, <2>5, <2>6
<1>12. QED
  BY <1>1, <1>11 DEF VerifierFollows, VerifierState, moves

\* A verifier gets its plan when the round starts.
LEMMA VerifierStarts ==
  ASSUME Office, Accounts, NEW e \in queue, StartRound(e), NEW q \in Rounds, q = e.round,
         NEW v \in Verifiers, NEW moves, Listed(VerifierTable) \subseteq moves
  PROVE  VerifierFollows(q, v, moves)
<1> DEFINE b == Awaits("send", q, v)'
           S == VerifierSignsOf(v, FreshRound, FALSE, FALSE)
           T == VerifierSignsOf(v, FreshRound, TRUE, b)
           C == VerifierCourse
           E == Entered(S, T)
<1>1. /\ ~started[q] /\ started'[q] /\ ~Refused(q)'
      /\ round[q] = FreshRound /\ round'[q] = FreshRound
  BY FreshStart
<1>2. Distributed(q) = FALSE /\ Distributed(q)' = TRUE
  BY <1>1 DEF Distributed
<1>3. VerifierSigns(q, v) = S /\ VerifierSigns(q, v)' = T
  BY <1>1, <1>2 DEF VerifierSigns, VerifierSignsOf
<1>4. /\ FreshRound.seen[v].commitment = None /\ FreshRound.seen[v].answer = None
      /\ FreshRound.seen[v].report = None /\ FreshRound.bit["v0"] = None
  BY DEF FreshRound, NoObservation, Holders
<1>5. b \in BOOLEAN
  BY DEF Awaits
<1>6. /\ C[1] = "planned" /\ C[2] = "preparing" /\ C[3] = "basis_sent" /\ DOMAIN C = 1 .. 7
  BY DEF VerifierCourse
<1> HIDE DEF b
<1>7. /\ DOMAIN S = VerifierStates /\ S \in [VerifierStates -> BOOLEAN]
      /\ S["planned"] /\ ~S["preparing"] /\ ~S["basis_sent"]
      /\ ~S["commitment_received"] /\ ~S["local_measurement_complete"]
      /\ ~S["answer_received"] /\ ~S["report_sent"]
  BY <1>4, VerifierSigned
<1>8. /\ T["preparing"]
      /\ ~T["commitment_received"] /\ ~T["local_measurement_complete"]
      /\ ~T["answer_received"] /\ ~T["report_sent"]
  BY <1>4, <1>5, VerifierSigned
<1> HIDE DEF S, T
<1>9. E \subseteq {"preparing", "basis_sent"} /\ "preparing" \in E
  BY <1>7, <1>8 DEF Entered, VerifierStates
<1>10. Furthest(C, S) = "planned"
  BY <1>7, VerifierFurthest DEF VerifierStates
<1>11. <<"planned", "preparing">> \in moves /\ <<"preparing", "basis_sent">> \in moves
  BY VerifierMoves
<1> HIDE DEF C, E
<1>12. /\ 2 \in DOMAIN C /\ "preparing" = C[2] /\ 3 \in DOMAIN C /\ "basis_sent" = C[3]
       /\ 2 < 3
  BY <1>6
<1>13. Follows(moves, C, "planned", E)
  BY <1>9, <1>11, <1>12, EntersTwo
<1>14. QED
  BY <1>3, <1>10, <1>13 DEF VerifierFollows, VerifierState, C, E

LEMMA VerifierStep ==
  ASSUME Office, Accounts, NEW e \in queue, Handles(e), status' \notin Errors,
         NEW q \in Rounds, NEW v \in Verifiers
  PROVE  VerifierFollows(q, v, Listed(VerifierTable) \union EarlyReport(q) \union OutOfTurn)
<1> DEFINE moves == Listed(VerifierTable) \union EarlyReport(q) \union OutOfTurn
<1>1. CASE q = e.round /\ e.kind # "start"
  BY <1>1, VerifierGoes
<1>2. CASE q = e.round /\ StartRound(e)
  BY <1>2, VerifierStarts
<1>3. CASE ~(q = e.round /\ e.kind # "start") /\ ~(q = e.round /\ StartRound(e))
  <2> DEFINE a == Awaits("send", q, v)
             b == Awaits("send", q, v)'
             D == Distributed(q)
             D1 == Distributed(q)'
             S == VerifierSignsOf(v, round[q], D, a)
             T == VerifierSignsOf(v, round[q], D1, b)
  <2>1. D1 => D
    BY <1>3, DistributedWhen
  <2>2. round'[q] = round[q] /\ (D1 => b = a)
    <3>1. CASE q # e.round
      BY <3>1, AwaitsElsewhere DEF Office
    <3>2. CASE q = e.round
      <4>1. RejectPlan(e)
        BY <1>3, <3>2, GateOfStep DEF Handles, StartRoundRaises, Raise, Errors
      <4>2. round' = round /\ ~started[q]
        BY <3>2, <4>1 DEF RejectPlan, Handle, Office, Groundwork, Agenda, StartsAreAhead
      <4>3. QED
        BY <2>1, <4>2 DEF Distributed
    <3>3. QED
      BY <3>1, <3>2
  <2>3. VerifierSigns(q, v) = S /\ VerifierSigns(q, v)' = T
    BY <2>2 DEF VerifierSigns, VerifierSignsOf
  <2>4. a \in BOOLEAN /\ b \in BOOLEAN /\ D \in BOOLEAN /\ D1 \in BOOLEAN
    BY DEF Awaits, Distributed
  <2> HIDE DEF a, b, D, D1
  <2>5. \A t \in DOMAIN S : T[t] => S[t]
    BY <2>1, <2>2, <2>4, SignsRest
  <2>6. QED
    BY <2>3, <2>5, EntersNothing DEF VerifierFollows
<1>4. QED
  BY <1>1, <1>2, <1>3

-----------------------------------------------------------------------------
(* The session and the tables of its participants. *)

LEMMA NobodyMoves ==
  ASSUME UNCHANGED <<round, queue, started, completed, results>>, NEW r \in Rounds, NEW moves
  PROVE  /\ ProverFollows(r, moves) /\ ControllerFollows(r, moves)
         /\ \A v \in Verifiers : VerifierFollows(r, v, moves)
<1>1. \A kind, who : Awaits(kind, r, who)' = Awaits(kind, r, who)
  BY DEF Awaits
<1>2. Distributed(r)' = Distributed(r)
  BY DEF Distributed, Refused
<1>3. \A b : Verdict(r, b)' = Verdict(r, b)
  BY DEF Verdict
<1>4. /\ ProverSigns(r)' = ProverSigns(r) /\ ControllerSigns(r)' = ControllerSigns(r)
      /\ \A v \in Verifiers : VerifierSigns(r, v)' = VerifierSigns(r, v)
  BY <1>1, <1>2, <1>3 DEF ProverSigns, ControllerSigns, VerifierSigns
<1>5. QED
  BY <1>4, EntersNothing DEF ProverFollows, ControllerFollows, VerifierFollows

\* "Every stateful device and protocol must use an enum-backed state machine
\* with validated transitions" (TECHNICAL_SPEC.md 6.3): whatever the latencies,
\* the detections and the messages, and as long as no handler raises, a step of
\* the session takes the prover, the verifiers and the controller of every round
\* by single moves of their tables (_ALLOWED of qpv/prover.py, qpv/verifier.py
\* and qpv/controller.py), except the prover when the gate closes on a dark count
\* and a verifier that reports early or is reached out of turn.
THEOREM DeparturesAreTheKnownOnes == Spec => DeparturesAreKnown
<1> DEFINE Known(r) ==
             /\ ProverFollows(r, Listed(ProverTable) \union DarkCommitment(r))
             /\ ControllerFollows(r, Listed(ControllerTable))
             /\ \A v \in Verifiers :
                  VerifierFollows(r, v, Listed(VerifierTable) \union EarlyReport(r)
                                        \union OutOfTurn)
<1>1. ASSUME Office, Orderly, Books', [Next]_vars, status' \notin Errors, NEW r \in Rounds
      PROVE  Known(r)
  <2>1. ASSUME NEW e \in queue, Handles(e) PROVE Known(r)
    <3>1. Committals /\ Accounts /\ Groundwork
      BY <1>1, <2>1, StepIsFirst DEF Handles, Orderly, Errors, Office
    <3>2. ProverFollows(r, Listed(ProverTable) \union DarkCommitment(r))
      BY <1>1, <2>1, <3>1, ProverStep
    <3>3. ControllerFollows(r, Listed(ControllerTable))
      BY <1>1, <2>1, <3>1, ControllerStep
    <3>4. \A v \in Verifiers :
            VerifierFollows(r, v, Listed(VerifierTable) \union EarlyReport(r) \union OutOfTurn)
      BY <1>1, <2>1, <3>1, VerifierStep
    <3>5. QED
      BY <3>2, <3>3, <3>4
  <2>2. CASE Finish \/ UNCHANGED vars
    <3>1. UNCHANGED <<round, queue, started, completed, results>>
      BY <2>2 DEF Finish, vars, decisionVars, schedulerVars
    <3>2. QED
      BY <3>1, NobodyMoves
  <2>3. QED
    BY <1>1, <2>1, <2>2 DEF Next, Over, Step, Handles
<1>2. /\ Office /\ Orderly /\ Books' /\ [Next]_vars =>
           [status' \notin Errors =>
              \A r \in Rounds :
                /\ ProverFollows(r, Listed(ProverTable) \union DarkCommitment(r))
                /\ ControllerFollows(r, Listed(ControllerTable))
                /\ \A v \in Verifiers :
                     VerifierFollows(r, v, Listed(VerifierTable) \union EarlyReport(r)
                                           \union OutOfTurn)]_vars
  BY <1>1
<1>3. QED
  BY <1>2, SessionGroundwork, SessionBooks, SessionSchedule, SessionOccupied, SessionOrderly,
     PTL DEF Spec, Office, DeparturesAreKnown

=============================================================================
