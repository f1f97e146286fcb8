--------------------------- MODULE QpvRoundProofs ---------------------------
(***************************************************************************)
(* Rounds and results, for every configuration and number of rounds: the   *)
(* heap always holds what is still to happen (Agenda), the results name    *)
(* each completed round once (Books).  When no link is longer than the     *)
(* straight line and no sender delays its messages, a session implements   *)
(* RoundLedger and ends with every round decided: the link from a round to *)
(* the next is the timing arithmetic, RoundsDoNotOverlap.                  *)
(***************************************************************************)
EXTENDS QpvSessionProofs, FiniteSetTheorems

-----------------------------------------------------------------------------
(* The agenda. *)

TimerKinds == {"timeout", "final"}

\* An event that the handler of an event of round r may leave behind.
LaterEvent(x, r) ==
  /\ x.round = r /\ x.kind # "start"
  /\ x.kind = "timeout" => x.when = RoundTimeoutAt(config, r)
  /\ x.kind = "final" => x.when = FinalTimeoutAt(config, r)

LEMMA FollowUpIsLater ==
  ASSUME NEW r, NEW x \in FollowUps(r)
  PROVE  LaterEvent(x, r) /\ x.kind \notin TimerKinds
BY DEF FollowUps, FollowUpKinds, LaterEvent, TimerKinds

\* A handler that replaces e by later events of its round, starts the round
\* when e is its start, and leaves a timer behind when the round stays open.
LEMMA AgendaKept ==
  ASSUME TypeOK, Agenda, NEW e \in queue, NEW N,
         queue' = (queue \ {e}) \union N, config' = config,
         started' = [started EXCEPT ![e.round] = TRUE],
         \/ completed' = completed
         \/ completed' = [completed EXCEPT ![e.round] = TRUE],
         \A x \in N : LaterEvent(x, e.round),
         status' \notin Errors =>
           /\ status \notin Errors
           /\ \/ completed'[e.round]
              \/ e.kind \notin {"start"} \union TimerKinds
              \/ \E x \in N : x.kind \in TimerKinds
  PROVE  Agenda'
<1>1. /\ e.round \in Rounds /\ started \in [Rounds -> BOOLEAN]
      /\ completed \in [Rounds -> BOOLEAN] /\ \A f \in queue : f.round \in Rounds
  BY TypesOfEvent DEF TypeOK
<1>2. OneStart'
  <2> SUFFICES ASSUME NEW f \in queue', NEW g \in queue',
                      f.kind = "start", g.kind = "start", f.round = g.round
               PROVE  f = g
    BY DEF OneStart
  <2>1. f \in queue /\ g \in queue
    BY DEF LaterEvent
  <2>2. QED
    BY <2>1 DEF Agenda, OneStart
<1>3. StartsAreAhead'
  <2> SUFFICES ASSUME NEW f \in queue'
               PROVE  IF f.kind = "start"
                      THEN ~started'[f.round] /\ f.when = RoundStartAt(config', f.round)
                      ELSE started'[f.round]
    BY DEF StartsAreAhead
  <2>1. CASE f \in N
    BY <1>1, <2>1 DEF LaterEvent
  <2>2. CASE f \in queue \ {e}
    <3>1. IF f.kind = "start"
          THEN ~started[f.round] /\ f.when = RoundStartAt(config, f.round)
          ELSE started[f.round]
      BY <2>2 DEF Agenda, StartsAreAhead
    <3>2. CASE f.kind = "start"
      <4>1. f.round # e.round
        <5>1. CASE e.kind = "start"
          BY <2>2, <3>2, <5>1 DEF Agenda, OneStart
        <5>2. CASE e.kind # "start"
          BY <3>1, <3>2, <5>2 DEF Agenda, StartsAreAhead
        <5>3. QED
          BY <5>1, <5>2
      <4>2. QED
        BY <1>1, <2>2, <3>1, <3>2, <4>1
    <3>3. CASE f.kind # "start"
      BY <1>1, <2>2, <3>1, <3>3
    <3>4. QED
      BY <3>2, <3>3
  <2>3. QED
    BY <2>1, <2>2
<1>4. TimersAreSet'
  BY DEF Agenda, TimersAreSet, LaterEvent
<1>5. NothingIsForgotten'
  <2> SUFFICES ASSUME status' \notin Errors, NEW r \in Rounds
               PROVE  /\ ~started'[r] => \E f \in queue' : f.kind = "start" /\ f.round = r
                      /\ started'[r] /\ ~completed'[r] =>
                           \E f \in queue' : f.kind \in {"timeout", "final"} /\ f.round = r
    BY DEF NothingIsForgotten
  <2>1. /\ ~started[r] => \E f \in queue : f.kind = "start" /\ f.round = r
        /\ started[r] /\ ~completed[r] =>
             \E f \in queue : f.kind \in {"timeout", "final"} /\ f.round = r
    BY DEF Agenda, NothingIsForgotten
  <2>2. CASE r # e.round
    BY <1>1, <2>1, <2>2
  <2>3. CASE r = e.round
    <3>1. started'[r]
      BY <1>1, <2>3
    <3>2. ASSUME ~completed'[r]
          PROVE  \E f \in queue' : f.kind \in {"timeout", "final"} /\ f.round = r
      <4>1. CASE \E x \in N : x.kind \in TimerKinds
        BY <2>3, <4>1 DEF LaterEvent, TimerKinds
      <4>2. CASE e.kind \notin {"start"} \union TimerKinds
        <5>1. started[r] /\ ~completed[r]
          BY <1>1, <2>3, <3>2, <4>2 DEF Agenda, StartsAreAhead
        <5>2. PICK f \in queue : f.kind \in {"timeout", "final"} /\ f.round = r
          BY <2>1, <5>1
        <5>3. f # e
          BY <4>2, <5>2 DEF TimerKinds
        <5>4. QED
          BY <5>2, <5>3
      <4>3. QED
        BY <2>3, <3>2, <4>1, <4>2
    <3>3. QED
      BY <3>1, <3>2
  <2>4. QED
    BY <2>2, <2>3
<1>6. QED
  BY <1>2, <1>3, <1>4, <1>5 DEF Agenda

LEMMA AgendaAfterRaise ==
  ASSUME Agenda, queue' \subseteq queue, UNCHANGED <<config, started, completed>>,
         status' \in Errors
  PROVE  Agenda'
<1>1. OneStart' /\ StartsAreAhead' /\ TimersAreSet'
  BY DEF Agenda, OneStart, StartsAreAhead, TimersAreSet
<1>2. NothingIsForgotten'
  BY DEF NothingIsForgotten
<1>3. QED
  BY <1>1, <1>2 DEF Agenda

\* Numbering events changes nothing else about them.
LEMMA Stamped ==
  ASSUME NEW evs \in Seq(EventType), NEW n \in Nat
  PROVE  /\ \A x \in Stamp(evs, n) : \E i \in 1 .. Len(evs) :
              x.kind = evs[i].kind /\ x.round = evs[i].round /\ x.when = evs[i].when
         /\ \A i \in 1 .. Len(evs) : \E x \in Stamp(evs, n) :
              x.kind = evs[i].kind /\ x.round = evs[i].round /\ x.when = evs[i].when
<1> DEFINE x(i) == [evs[i] EXCEPT !.seq = n + i - 1]
<1>1. DOMAIN evs = 1 .. Len(evs) /\ \A i \in 1 .. Len(evs) : evs[i] \in EventType
  BY LenProperties, ElementOfSeq
<1>2. ASSUME NEW i \in 1 .. Len(evs)
      PROVE  x(i).kind = evs[i].kind /\ x(i).round = evs[i].round /\ x(i).when = evs[i].when
  <2>1. evs[i] \in EventType
    BY <1>1
  <2>2. QED
    BY <2>1 DEF EventType
<1>3. Stamp(evs, n) = {x(i) : i \in 1 .. Len(evs)}
  BY <1>1 DEF Stamp
<1> HIDE DEF x
<1>4. QED
  BY <1>2, <1>3

LEMMA OrdinaryAgenda ==
  ASSUME TypeOK, Agenda, NEW e \in queue, OrdinaryStep(e)
  PROVE  Agenda'
<1>1. PICK evs \in Seq(FollowUps(e.round)) : Return(e, evs)
  BY DEF OrdinaryStep
<1> DEFINE N == Stamp(evs, nextSeq)
<1>2. queue' = (queue \ {e}) \union N /\ status' = status
  BY <1>1 DEF Return
<1>3. \A x \in N : LaterEvent(x, e.round)
  <2>1. nextSeq \in Nat
    BY DEF TypeOK, QueueType
  <2>2. N \subseteq FollowUps(e.round)
    BY <2>1, StampFollowUps
  <2>3. QED
    BY <2>2, FollowUpIsLater
<1>4. started' = [started EXCEPT ![e.round] = TRUE]
  <2>1. started[e.round] = TRUE
    BY TypesOfEvent DEF OrdinaryStep, Agenda, StartsAreAhead, TypeOK
  <2>2. QED
    BY <2>1 DEF OrdinaryStep, TypeOK
<1>5. /\ config' = config /\ completed' = completed /\ status \notin Errors
      /\ e.kind \notin {"start"} \union TimerKinds
  BY DEF OrdinaryStep, TimerKinds, Errors
<1> HIDE DEF N
<1>6. QED
  BY <1>2, <1>3, <1>4, <1>5, AgendaKept

LEMMA StartAgenda ==
  ASSUME TypeOK, Agenda, NEW e \in queue, StartRound(e)
  PROVE  Agenda'
<1> DEFINE r == e.round
           t == e.when
           opens == Larger(t, ChallengeAt(config, r) + config.qGeo - config.gateWidth \div 2)
           closes == opens + config.gateWidth
           evs == RoundEvents(t, r, closes)
           N == Stamp(evs, nextSeq)
<1>1. /\ t \in Int /\ r \in Rounds /\ config \in Configs /\ nextSeq \in Nat
      /\ status \notin Errors
  BY TypesOfEvent DEF TypeOK, QueueType, StartRound, Handle, Errors
<1>2. closes \in Int
  <2>1. ChallengeAt(config, r) \in Int /\ config.qGeo \in Nat /\ config.gateWidth \in Nat
    BY <1>1, RoundPlanTypes, ConfigTypes, TimingTypes
  <2>2. config.gateWidth \div 2 \in Int
    BY <2>1, SMT
  <2> HIDE DEF t, r
  <2>3. ChallengeAt(config, r) + config.qGeo - config.gateWidth \div 2 \in Int
    BY <2>1, <2>2
  <2>4. opens \in Int
    BY <1>1, <2>3 DEF Larger
  <2> HIDE DEF opens
  <2>5. QED
    BY <2>1, <2>4
<1>3. /\ started' = [started EXCEPT ![r] = TRUE] /\ config' = config /\ completed' = completed
      /\ queue' = (queue \ {e}) \union N /\ status' = status
  BY DEF StartRound, Handle, Return, decisionVars
<1> HIDE DEF closes
<1>4. /\ evs \in Seq(EventType) /\ Len(evs) = 5
      /\ \A i \in 1 .. 4 : evs[i] \in FollowUps(r)
      /\ evs[5] = Event(RoundTimeoutAt(config, r), Timeout, "timeout", r, "controller", 0)
  BY <1>1, <1>2, RoundEventTypes
<1> HIDE DEF evs
<1>5. evs[5].kind = "timeout" /\ evs[5].round = r /\ evs[5].when = RoundTimeoutAt(config, r)
  BY <1>4 DEF Event
<1>6. \A i \in 1 .. Len(evs) : LaterEvent(evs[i], r)
  <2> SUFFICES ASSUME NEW i \in 1 .. 5 PROVE LaterEvent(evs[i], r)
    BY <1>4
  <2>1. CASE i \in 1 .. 4
    BY <1>4, <2>1, FollowUpIsLater
  <2>2. CASE i = 5
    BY <1>5, <2>2 DEF LaterEvent
  <2>3. QED
    BY <2>1, <2>2
<1>7. \A x \in N : LaterEvent(x, r)
  <2> SUFFICES ASSUME NEW x \in N PROVE LaterEvent(x, r)
    OBVIOUS
  <2>1. PICK i \in 1 .. Len(evs) :
          x.kind = evs[i].kind /\ x.round = evs[i].round /\ x.when = evs[i].when
    BY <1>1, <1>4, Stamped
  <2>2. QED
    BY <1>6, <2>1 DEF LaterEvent
<1>8. \E x \in N : x.kind \in TimerKinds
  <2>1. 5 \in 1 .. Len(evs)
    BY <1>4
  <2>2. \E x \in N : x.kind = evs[5].kind
    BY <1>1, <1>4, <2>1, Stamped, ZenonT(60)
  <2>3. QED
    BY <1>5, <2>2 DEF TimerKinds
<1> HIDE DEF N
<1>9. QED
  BY <1>1, <1>3, <1>7, <1>8, AgendaKept

\* A handler that schedules nothing and completes the round of its event.
LEMMA ClosingAgenda ==
  ASSUME TypeOK, Agenda, NEW e \in queue, Return(e, <<>>), config' = config,
         status \notin Errors,
         started' = [started EXCEPT ![e.round] = TRUE],
         \/ completed' = completed
         \/ completed' = [completed EXCEPT ![e.round] = TRUE],
         completed'[e.round] \/ e.kind \notin {"start"} \union TimerKinds
  PROVE  Agenda'
<1> DEFINE N == Stamp(<<>>, nextSeq)
<1>1. N = {}
  BY DEF Stamp
<1>2. queue' = (queue \ {e}) \union N
  BY DEF Return
<1> HIDE DEF N
<1>3. \A x \in N : LaterEvent(x, e.round)
  BY <1>1
<1>4. QED
  BY <1>2, <1>3, AgendaKept

LEMMA RejectAgenda ==
  ASSUME TypeOK, Agenda, NEW e \in queue, RejectPlan(e)
  PROVE  Agenda'
<1>1. completed'[e.round]
  BY TypesOfEvent DEF RejectPlan, TypeOK
<1>2. QED
  BY <1>1, ClosingAgenda DEF RejectPlan, Handle, Errors

LEMMA DecisionAgenda ==
  ASSUME TypeOK, Agenda, NEW e \in queue, ReportArrives(e) \/ FinalTimesOut(e)
  PROVE  Agenda'
<1>1. /\ Return(e, <<>>) /\ config' = config /\ status \notin Errors /\ started' = started
      /\ e.kind \in {"report", "final"}
      /\ \/ UNCHANGED completed
         \/ completed' = [completed EXCEPT ![e.round] = TRUE]
  BY DEF ReportArrives, FinalTimesOut, Finalize, Handle, Errors
<1>2. started' = [started EXCEPT ![e.round] = TRUE]
  <2>1. started[e.round] = TRUE
    BY <1>1, TypesOfEvent DEF Agenda, StartsAreAhead, TypeOK
  <2>2. QED
    BY <1>1, <2>1 DEF TypeOK
<1>3. completed'[e.round] \/ e.kind \notin {"start"} \union TimerKinds
  BY TypesOfEvent DEF ReportArrives, FinalTimesOut, Finalize, Handle, TimerKinds, TypeOK
<1>4. QED
  BY <1>1, <1>2, <1>3, ClosingAgenda

LEMMA TimeoutAgenda ==
  ASSUME TypeOK, Agenda, NEW e \in queue, RoundTimesOut(e)
  PROVE  Agenda'
<1>1. /\ config' = config /\ status \notin Errors /\ started' = started
      /\ completed' = completed /\ e.kind = "timeout"
  BY TimeoutShape DEF Errors
<1>2. started' = [started EXCEPT ![e.round] = TRUE]
  <2>1. started[e.round] = TRUE
    BY <1>1, TypesOfEvent DEF Agenda, StartsAreAhead, TypeOK
  <2>2. QED
    BY <1>1, <2>1 DEF TypeOK
<1>3. CASE completed[e.round] /\ Return(e, <<>>)
  BY <1>1, <1>2, <1>3, ClosingAgenda
<1>4. CASE ~completed[e.round]
  <2> DEFINE final == Event(e.when + FinalDelay(config), Timeout, "final", e.round,
                            "controller", 0)
  <2>1. PICK evs \in Seq(FollowUps(e.round)) : Return(e, evs \o <<final>>)
    BY <1>4, TimeoutShape
  <2>2. final.kind = "final" /\ final.round = e.round
        /\ final.when = FinalTimeoutAt(config, e.round)
    <3>1. e.when = RoundTimeoutAt(config, e.round)
      BY <1>1 DEF Agenda, TimersAreSet
    <3>2. QED
      BY <3>1 DEF Event, FinalTimeoutAt
  <2>3. final \in EventType /\ nextSeq \in Nat /\ e.round \in Rounds
    BY TypesOfEvent, FinalEventType DEF TypeOK, QueueType
  <2> HIDE DEF final
  <2> DEFINE all == evs \o <<final>>
             N == Stamp(all, nextSeq)
  <2>4. evs \in Seq(EventType) /\ <<final>> \in Seq(EventType)
    BY <2>3, FollowUpIsEvent, WiderSeq
  <2>5. /\ all \in Seq(EventType) /\ Len(all) = Len(evs) + 1 /\ Len(evs) \in Nat
        /\ \A i \in 1 .. Len(evs) : all[i] = evs[i] /\ evs[i] \in FollowUps(e.round)
        /\ all[Len(evs) + 1] = final
    <3>1. Len(<<final>>) = 1 /\ <<final>>[1] = final
      OBVIOUS
    <3>2. Len(evs) \in Nat /\ \A i \in 1 .. Len(evs) : evs[i] \in FollowUps(e.round)
      BY LenProperties, ElementOfSeq
    <3>3. QED
      BY <2>4, <3>1, <3>2, ConcatProperties
  <2> HIDE DEF all
  <2>6. \A i \in 1 .. Len(all) : LaterEvent(all[i], e.round)
    <3> SUFFICES ASSUME NEW i \in 1 .. Len(evs) + 1 PROVE LaterEvent(all[i], e.round)
      BY <2>5
    <3>1. CASE i \in 1 .. Len(evs)
      BY <2>5, <3>1, FollowUpIsLater
    <3>2. CASE i = Len(evs) + 1
      BY <2>2, <2>5, <3>2 DEF LaterEvent
    <3>3. QED
      BY <2>5, <3>1, <3>2
  <2>7. \A x \in N : LaterEvent(x, e.round)
    <3> SUFFICES ASSUME NEW x \in N PROVE LaterEvent(x, e.round)
      OBVIOUS
    <3>1. PICK i \in 1 .. Len(all) :
            x.kind = all[i].kind /\ x.round = all[i].round /\ x.when = all[i].when
      BY <2>3, <2>5, Stamped
    <3>2. QED
      BY <2>6, <3>1 DEF LaterEvent
  <2>8. \E x \in N : x.kind \in TimerKinds
    <3>1. Len(evs) + 1 \in 1 .. Len(all)
      BY <2>5
    <3>2. \E x \in N : x.kind = all[Len(evs) + 1].kind
      BY <2>3, <2>5, <3>1, Stamped
    <3>3. QED
      BY <2>2, <2>5, <3>2 DEF TimerKinds
  <2>9. queue' = (queue \ {e}) \union N
    BY <2>1 DEF Return, all
  <2> HIDE DEF N
  <2>10. QED
    BY <1>1, <1>2, <2>7, <2>8, <2>9, AgendaKept
<1>5. QED
  BY <1>3, <1>4, TimeoutShape

LEMMA NextAgenda ==
  ASSUME TypeOK, Agenda, [Next]_vars
  PROVE  Agenda'
<1>1. CASE Step
  <2>1. PICK e \in queue : DeviceStep(e) \/ ProtocolStep(e) \/ DecisionStep(e)
    BY <1>1 DEF Step
  <2>2. ASSUME RaisingStep(e) PROVE Agenda'
    BY <2>2, AgendaAfterRaise DEF RaisingStep, Raise, decisionVars
  <2>3. CASE \/ DeviceStep(e)
             \/ SendChallenge(e) \/ InterceptDone(e) \/ SendReplacement(e)
             \/ SendBasis(e) \/ BasisArrives(e) \/ VerifierReceives(e)
    BY <2>2, <2>3, OrdinarySteps, OrdinaryAgenda
  <2>4. CASE StartRoundRaises(e)
    BY <2>2, <2>4, StartRaises
  <2>5. QED
    BY <2>1, <2>3, <2>4, StartAgenda, RejectAgenda, TimeoutAgenda, DecisionAgenda
       DEF ProtocolStep, DecisionStep
<1>2. CASE Finish
  BY <1>2 DEF Finish, Agenda, OneStart, StartsAreAhead, TimersAreSet, NothingIsForgotten,
     Errors, decisionVars
<1>3. CASE UNCHANGED vars
  BY <1>3 DEF Agenda, OneStart, StartsAreAhead, TimersAreSet, NothingIsForgotten,
     vars, schedulerVars, decisionVars
<1>4. QED
  BY <1>1, <1>2, <1>3 DEF Next, Over
LEMMA InitAgenda == ASSUME Init PROVE Agenda
<1> DEFINE start(i) == Event(RoundStartAt(config, i - 1), Control, "start", i - 1,
                             "controller", 0)
           x(i) == [start(i) EXCEPT !.seq = 0 + i - 1]
<1>1. queue = {x(i) : i \in 1 .. NumRounds}
  BY DEF Init, StartEvents, Stamp
<1>2. \A i : /\ x(i).kind = "start" /\ x(i).round = i - 1
             /\ x(i).when = RoundStartAt(config, i - 1)
  BY DEF Event
<1>3. NumRounds \in Nat /\ \A r \in Rounds : ~started[r] /\ r + 1 \in 1 .. NumRounds /\ r \in Nat
  <2>1. NumRounds \in Nat
    BY SessionAssumption
  <2>2. QED
    BY <2>1, SMT DEF Init, Rounds
<1> HIDE DEF x, start
<1>4. OneStart
  <2> SUFFICES ASSUME NEW i \in 1 .. NumRounds, NEW j \in 1 .. NumRounds, i - 1 = j - 1
               PROVE  x(i) = x(j)
    BY <1>1, <1>2 DEF OneStart
  <2>1. i = j
    BY <1>3, SMT
  <2>2. QED
    BY <2>1
<1>5. StartsAreAhead
  <2> SUFFICES ASSUME NEW i \in 1 .. NumRounds PROVE ~started[i - 1]
    BY <1>1, <1>2 DEF StartsAreAhead
  <2>1. i - 1 \in Rounds
    BY <1>3, SMT DEF Rounds
  <2>2. QED
    BY <1>3, <2>1
<1>6. TimersAreSet
  BY <1>1, <1>2 DEF TimersAreSet
<1>7. NothingIsForgotten
  <2> SUFFICES ASSUME NEW r \in Rounds PROVE \E e \in queue : e.kind = "start" /\ e.round = r
    BY <1>3 DEF NothingIsForgotten
  <2>1. r + 1 \in 1 .. NumRounds /\ (r + 1) - 1 = r
    BY <1>3, SMT
  <2>2. x(r + 1) \in queue /\ x(r + 1).kind = "start" /\ x(r + 1).round = r
    BY <1>1, <1>2, <2>1
  <2>3. QED
    BY <2>2
<1>8. QED
  BY <1>4, <1>5, <1>6, <1>7 DEF Agenda

\* The heap always holds what is still to happen.
THEOREM SessionAgenda == Spec => []Agenda
<1>1. Init => Agenda
  BY InitAgenda
<1>2. TypeOK /\ Agenda /\ [Next]_vars => Agenda'
  BY NextAgenda
<1>3. QED
  BY <1>1, <1>2, SessionTypes, PTL DEF Spec

-----------------------------------------------------------------------------
(* The books. *)

LEMMA AppendedBook ==
  ASSUME NEW R, NEW s \in Seq(R), NEW x
  PROVE  /\ Len(s) \in Nat /\ DOMAIN s = 1 .. Len(s)
         /\ DOMAIN Append(s, x) = 1 .. Len(s) + 1
         /\ \A i \in 1 .. Len(s) : Append(s, x)[i] = s[i]
         /\ Append(s, x)[Len(s) + 1] = x
         /\ Append(s, x) \in Seq(R \union {x})
<1>1. s \in Seq(R \union {x})
  BY WiderSeq
<1>2. Append(s, x) \in Seq(R \union {x}) /\ Len(Append(s, x)) = Len(s) + 1
  BY <1>1, AppendProperties
<1>3. \A i \in 1 .. Len(s) : Append(s, x)[i] = s[i]
  BY <1>1, AppendProperties
<1>4. Append(s, x)[Len(s) + 1] = x
  BY <1>1, AppendProperties
<1>5. QED
  BY <1>1, <1>2, <1>3, <1>4, LenProperties

\* One more result, of a round that had none.
LEMMA ResultAppended ==
  ASSUME TypeOK, Books, NEW r \in Rounds, NEW x, x.round = r, ~completed[r],
         results' = Append(results, x), completed' = [completed EXCEPT ![r] = TRUE],
         \A s \in Rounds : started[s] => started'[s], started'[r]
  PROVE  Books'
<1> DEFINE n == Len(results)
           R == {results[i] : i \in DOMAIN results}
<1>1. /\ n \in Nat /\ DOMAIN results = 1 .. n /\ DOMAIN results' = 1 .. n + 1
      /\ \A i \in 1 .. n : results'[i] = results[i]
      /\ results'[n + 1] = x /\ results' \in Seq(R \union {x})
  <2>1. results \in Seq(R)
    BY DEF Books
  <2>2. QED
    BY <2>1, AppendedBook
<1>2. completed \in [Rounds -> BOOLEAN]
  BY DEF TypeOK
<1> HIDE DEF n
<1>3. results' \in Seq({results'[i] : i \in DOMAIN results'})
  <2>1. R \union {x} \subseteq {results'[i] : i \in DOMAIN results'}
    <3>1. n + 1 \in 1 .. n + 1 /\ \A i \in 1 .. n : i \in 1 .. n + 1
      BY <1>1
    <3>2. QED
      BY <1>1, <3>1
  <2> HIDE DEF R
  <2>2. QED
    BY <1>1, <2>1, WiderSeq
<1>4. \A i \in 1 .. n + 1 : i \in 1 .. n \/ i = n + 1
  BY <1>1
<1>5. n + 1 \in 1 .. n + 1 /\ \A i \in 1 .. n : i \in 1 .. n + 1
  BY <1>1
<1>6. \A s \in Rounds : completed'[s] <=> \E i \in DOMAIN results' : results'[i].round = s
  <2> SUFFICES ASSUME NEW s \in Rounds
               PROVE  completed'[s] <=> \E i \in DOMAIN results' : results'[i].round = s
    OBVIOUS
  <2>1. CASE s = r
    BY <1>1, <1>2, <1>5, <2>1
  <2>2. CASE s # r
    <3>1. completed'[s] <=> completed[s]
      BY <1>2, <2>2
    <3>2. completed[s] <=> \E i \in 1 .. n : results[i].round = s
      BY <1>1 DEF Books
    <3>3. (\E i \in 1 .. n : results[i].round = s)
            <=> \E i \in 1 .. n + 1 : results'[i].round = s
      BY <1>1, <1>4, <1>5, <2>2
    <3>4. QED
      BY <1>1, <3>1, <3>2, <3>3
  <2>3. QED
    BY <2>1, <2>2
<1>7. \A i, j \in DOMAIN results' : results'[i].round = results'[j].round => i = j
  <2>1. \A i \in 1 .. n : results[i].round # r
    BY <1>1 DEF Books
  <2>2. \A i, j \in 1 .. n : results[i].round = results[j].round => i = j
    BY <1>1 DEF Books
  <2>3. QED
    BY <1>1, <1>4, <2>1, <2>2
<1>8. \A s \in Rounds : completed'[s] => started'[s]
  BY <1>2 DEF Books
<1>9. QED
  BY <1>3, <1>6, <1>7, <1>8 DEF Books

LEMMA BooksUnchanged ==
  ASSUME Books, UNCHANGED <<completed, results>>,
         \A s \in Rounds : started[s] => started'[s]
  PROVE  Books'
BY DEF Books

LEMMA NextBooks ==
  ASSUME TypeOK, Agenda, Books, [Next]_vars
  PROVE  Books'
<1>1. CASE Step
  <2>1. PICK e \in queue : DeviceStep(e) \/ ProtocolStep(e) \/ DecisionStep(e)
    BY <1>1 DEF Step
  <2>2. e.round \in Rounds /\ started \in [Rounds -> BOOLEAN]
    BY TypesOfEvent DEF TypeOK
  <2>3. ASSUME RaisingStep(e) PROVE Books'
    BY <2>3, BooksUnchanged DEF RaisingStep, Raise, decisionVars
  <2>4. CASE \/ DeviceStep(e)
             \/ SendChallenge(e) \/ InterceptDone(e) \/ SendReplacement(e)
             \/ SendBasis(e) \/ BasisArrives(e) \/ VerifierReceives(e)
    <3>1. CASE OrdinaryStep(e)
      BY <3>1, BooksUnchanged DEF OrdinaryStep
    <3>2. QED
      BY <2>3, <2>4, <3>1, OrdinarySteps
  <2>5. CASE StartRoundRaises(e)
    BY <2>3, <2>5, StartRaises
  <2>6. CASE StartRound(e)
    BY <2>2, <2>6, BooksUnchanged DEF StartRound, decisionVars
  <2>7. CASE RejectPlan(e)
    <3> DEFINE x == RejectedResult(e.round, PreflightReasons(e.round))
    <3>1. x.round = e.round
      BY DEF RejectedResult
    <3>2. results' = Append(results, x)
      BY <2>7 DEF RejectPlan
    <3> HIDE DEF x
    <3>3. ~completed[e.round]
      BY <2>2, <2>7 DEF RejectPlan, Handle, Agenda, StartsAreAhead, Books
    <3>4. QED
      BY <2>2, <2>7, <3>1, <3>2, <3>3, ResultAppended DEF RejectPlan
  <2>8. CASE RoundTimesOut(e)
    BY <2>8, TimeoutShape, BooksUnchanged
  <2>9. CASE ReportArrives(e) \/ FinalTimesOut(e)
    <3>1. UNCHANGED started /\ started[e.round]
      BY <2>9 DEF ReportArrives, FinalTimesOut, Handle, Agenda, StartsAreAhead
    <3>2. CASE UNCHANGED <<completed, results>>
      BY <3>1, <3>2, BooksUnchanged
    <3>3. CASE \E rd : Finalize(e.round, rd) /\ ~completed[e.round]
      <4>1. PICK rd : Finalize(e.round, rd) /\ ~completed[e.round]
        BY <3>3
      <4> DEFINE x == RoundResult(e.round, rd)
      <4>2. x.round = e.round
        BY DEF RoundResult
      <4>3. results' = Append(results, x) /\ completed' = [completed EXCEPT ![e.round] = TRUE]
        BY <4>1 DEF Finalize
      <4> HIDE DEF x
      <4>4. QED
        BY <2>2, <3>1, <4>1, <4>2, <4>3, ResultAppended
    <3>4. QED
      BY <2>9, <3>2, <3>3 DEF ReportArrives, FinalTimesOut, Finalize
  <2>10. QED
    BY <2>1, <2>4, <2>5, <2>6, <2>7, <2>8, <2>9 DEF ProtocolStep, DecisionStep
<1>2. CASE Finish
  BY <1>2, BooksUnchanged DEF Finish, decisionVars
<1>3. CASE UNCHANGED vars
  BY <1>3, BooksUnchanged DEF vars, decisionVars
<1>4. QED
  BY <1>1, <1>2, <1>3 DEF Next, Over

LEMMA InitBooks == ASSUME Init PROVE Books
<1>1. results = <<>> /\ \A r \in Rounds : ~completed[r]
  BY DEF Init
<1>2. DOMAIN results = {}
  BY <1>1
<1>3. results \in Seq({results[i] : i \in DOMAIN results})
  BY <1>1, EmptySeq
<1>4. QED
  BY <1>1, <1>2, <1>3 DEF Books

\* The results name each completed round once.
THEOREM SessionBooks == Spec => []Books
<1>1. Init => Books
  BY InitBooks
<1>2. TypeOK /\ Agenda /\ Books /\ [Next]_vars => Books'
  BY NextBooks
<1>3. QED
  BY <1>1, <1>2, SessionTypes, SessionAgenda, PTL DEF Spec

LEMMA BooksCountOnce == ASSUME TypeOK, Books PROVE OneResultPerRound
<1> SUFFICES ASSUME NEW r \in Rounds
             PROVE  Cardinality({i \in DOMAIN results : results[i].round = r})
                      = IF completed[r] THEN 1 ELSE 0
  BY DEF OneResultPerRound
<1> DEFINE named == {i \in DOMAIN results : results[i].round = r}
<1>1. CASE completed[r]
  <2>1. PICK i \in DOMAIN results : results[i].round = r
    BY <1>1 DEF Books
  <2>2. named = {i}
    BY <2>1 DEF Books
  <2>3. QED
    BY <1>1, <2>2, FS_Singleton
<1>2. CASE ~completed[r]
  <2>1. named = {}
    BY <1>2 DEF Books
  <2>2. QED
    BY <1>2, <2>1, FS_EmptySet
<1>3. QED
  BY <1>1, <1>2

\* Every round that is over has exactly one result, and no other round has
\* one, whatever messages are lost, delayed, doubled or reordered.
THEOREM OneResult == Spec => []OneResultPerRound
<1>1. TypeOK /\ Books => OneResultPerRound
  BY BooksCountOnce
<1>2. QED
  BY <1>1, SessionTypes, SessionBooks, PTL

-----------------------------------------------------------------------------
(* Sessions all of whose rounds are geometric. *)

AllGeometric == \A c \in Configs : Geometric(c)

-----------------------------------------------------------------------------
(* One round after the other. *)

\* When the start of a round is the first event of the heap, nothing of an
\* earlier round can still be pending.
LEMMA EarlierAreDecided ==
  ASSUME TypeOK, Agenda, AllGeometric, NEW e \in queue, IsFirst(e, queue),
         e.kind = "start", status \notin Errors,
         NEW s \in Rounds, s < e.round
  PROVE  completed[s]
<1>1. /\ TimingConfig(config) /\ Geometric(config) /\ s \in Nat /\ e.round \in Nat
      /\ started[s] \in BOOLEAN /\ completed[s] \in BOOLEAN
  BY ConfigTypes, TypesOfEvent, RoundIsNat DEF AllGeometric, TypeOK
<1>2. e.when = RoundStartAt(config, e.round)
  BY DEF Agenda, StartsAreAhead
<1>3. /\ RoundStartAt(config, s) < RoundStartAt(config, e.round)
      /\ RoundStartAt(config, s + 1) <= RoundStartAt(config, e.round)
      /\ RoundTimeoutAt(config, s) < RoundStartAt(config, s + 1)
      /\ FinalTimeoutAt(config, s) < RoundStartAt(config, s + 1)
  BY <1>1, StartsInOrder, TimersBeforeNextStart
<1>4. /\ RoundStartAt(config, s) \in Int /\ RoundStartAt(config, s + 1) \in Int
      /\ RoundStartAt(config, e.round) \in Int /\ RoundTimeoutAt(config, s) \in Int
      /\ FinalTimeoutAt(config, s) \in Int
  BY <1>1, NextRoundStart, PlanTypes DEF FinalTimeoutAt
<1>5. ASSUME NEW f \in queue, f.when < e.when PROVE FALSE
  <2>1. f # e /\ f.when \in Int /\ e.when \in Int
    BY <1>5, TypesOfEvent
  <2>2. Before(e, f)
    BY <2>1 DEF IsFirst
  <2>3. QED
    BY <1>5, <2>1, <2>2 DEF Before
<1>6. CASE ~started[s]
  <2>1. PICK f \in queue : f.kind = "start" /\ f.round = s
    BY <1>6 DEF Agenda, NothingIsForgotten
  <2>2. f.when = RoundStartAt(config, s)
    BY <2>1 DEF Agenda, StartsAreAhead
  <2>3. QED
    BY <1>2, <1>3, <1>5, <2>2
<1>7. CASE started[s] /\ ~completed[s]
  <2>1. PICK f \in queue : f.kind \in {"timeout", "final"} /\ f.round = s
    BY <1>7 DEF Agenda, NothingIsForgotten
  <2>2. f.when = RoundTimeoutAt(config, s) \/ f.when = FinalTimeoutAt(config, s)
    BY <2>1 DEF Agenda, TimersAreSet
  <2>3. f.when < e.when
    BY <1>2, <1>3, <1>4, <2>2
  <2>4. QED
    BY <1>5, <2>3
<1>8. QED
  BY <1>1, <1>6, <1>7

-----------------------------------------------------------------------------
(* Every step of the session is a step of the ledger. *)

\* What the ledger sees of a round.
LEMMA StageOfRound ==
  ASSUME TypeOK, NEW r \in Rounds
  PROVE  /\ completed[r] => Stage[r] = "decided"
         /\ ~completed[r] /\ started[r] => Stage[r] = "open"
         /\ ~completed[r] /\ ~started[r] => Stage[r] = "waiting"
BY DEF Stage, TypeOK

LEMMA LedgerIsNext ==
  ASSUME TypeOK, Agenda, Books, AllGeometric, NEW e \in queue, Handle(e, "start")
  PROVE  Ledger!IsNext(e.round) /\ ~completed[e.round] /\ ~started[e.round]
<1>1. /\ e.kind = "start" /\ IsFirst(e, queue) /\ status \notin Errors /\ ~Failed
      /\ e.round \in Rounds
  BY TypesOfEvent DEF Handle, Errors, Failed
<1>2. ~started[e.round] /\ ~completed[e.round]
  BY <1>1 DEF Agenda, StartsAreAhead, Books
<1>3. \A s \in Rounds : s < e.round => Stage[s] = "decided"
  BY <1>1, EarlierAreDecided, StageOfRound
<1>4. QED
  BY <1>1, <1>2, <1>3, StageOfRound DEF Ledger!IsNext

\* A result is a verdict.
LEMMA VerdictAppended ==
  ASSUME Books, NEW r, NEW accepted, NEW x, x.round = r, x.accepted = accepted,
         results' = Append(results, x)
  PROVE  Verdicts' = Append(Verdicts, <<r, accepted>>)
<1> DEFINE n == Len(results)
           R == {results[i] : i \in DOMAIN results}
           v(y) == <<y.round, y.accepted>>
           V == {v(y) : y \in R} \union {<<r, accepted>>}
<1>1. /\ n \in Nat /\ DOMAIN results = 1 .. n /\ DOMAIN results' = 1 .. n + 1
      /\ \A i \in 1 .. n : results'[i] = results[i]
      /\ results'[n + 1] = x
  <2>1. results \in Seq(R)
    BY DEF Books
  <2>2. QED
    BY <2>1, AppendedBook
<1>2. Verdicts = [i \in 1 .. n |-> v(results[i])]
  BY <1>1 DEF Verdicts
<1>3. Verdicts' = [i \in 1 .. n + 1 |-> v(results'[i])]
  BY <1>1 DEF Verdicts
<1> HIDE DEF n
<1>4. Verdicts \in Seq(V) /\ Len(Verdicts) = n
  <2>1. \A i \in 1 .. n : v(results[i]) \in V
    BY <1>1
  <2> HIDE DEF V, v
  <2>2. Verdicts \in [1 .. n -> V]
    BY <1>2, <2>1
  <2>3. Verdicts \in Seq(V)
    BY <1>1, <2>2, SeqDef
  <2>4. QED
    BY <1>1, <2>2, <2>3, LenProperties
<1>5. <<r, accepted>> \in V
  OBVIOUS
<1>6. v(x) = <<r, accepted>>
  OBVIOUS
<1> DEFINE T == Append(Verdicts, <<r, accepted>>)
<1> HIDE DEF V
<1>7. /\ T \in Seq(V) /\ Len(T) = n + 1
      /\ \A i \in 1 .. n : T[i] = Verdicts[i]
      /\ T[n + 1] = <<r, accepted>>
  BY <1>4, <1>5, AppendProperties
<1>8. DOMAIN T = 1 .. n + 1 /\ T \in [1 .. n + 1 -> V]
  BY <1>7, LenProperties
<1> HIDE DEF T, v
<1>9. \A i \in 1 .. n + 1 : T[i] = v(results'[i])
  <2> SUFFICES ASSUME NEW i \in 1 .. n + 1 PROVE T[i] = v(results'[i])
    OBVIOUS
  <2>1. CASE i \in 1 .. n
    BY <1>1, <1>2, <1>7, <2>1
  <2>2. CASE i = n + 1
    BY <1>1, <1>6, <1>7, <2>2
  <2>3. QED
    BY <1>1, <2>1, <2>2
<1>10. T = [i \in 1 .. n + 1 |-> v(results'[i])]
  BY <1>8, <1>9
<1>11. QED
  BY <1>3, <1>10 DEF T

\* The stages when one round is decided.
LEMMA StageDecided ==
  ASSUME TypeOK, NEW r \in Rounds, completed' = [completed EXCEPT ![r] = TRUE],
         \A s \in Rounds \ {r} : started'[s] = started[s]
  PROVE  Stage' = [Stage EXCEPT ![r] = "decided"]
BY DEF TypeOK, Stage

LEMMA LedgerUnchanged ==
  ASSUME UNCHANGED <<started, completed, results>>, Failed' = Failed
  PROVE  UNCHANGED Ledger!ledgerVars
BY DEF Ledger!ledgerVars, Stage, Verdicts

LEMMA LedgerFails ==
  ASSUME status = "running", status' \in Errors, UNCHANGED <<started, completed, results>>
  PROVE  Ledger!Fail
BY DEF Ledger!Fail, Failed, Errors, Stage, Verdicts

LEMMA StartOpens ==
  ASSUME TypeOK, Agenda, Books, AllGeometric, NEW e \in queue, StartRound(e)
  PROVE  Ledger!Open(e.round)
<1>1. Ledger!IsNext(e.round) /\ ~completed[e.round] /\ ~started[e.round]
  BY LedgerIsNext DEF StartRound
<1>2. /\ started' = [started EXCEPT ![e.round] = TRUE] /\ UNCHANGED <<completed, results>>
      /\ status' = status /\ e.round \in Rounds
  BY TypesOfEvent DEF StartRound, Return, decisionVars
<1>3. Stage' = [Stage EXCEPT ![e.round] = "open"]
  BY <1>1, <1>2 DEF Stage, TypeOK
<1>4. UNCHANGED <<Verdicts, Failed>>
  BY <1>2 DEF Verdicts, Failed
<1>5. QED
  BY <1>1, <1>3, <1>4 DEF Ledger!Open

LEMMA RejectTurnsDown ==
  ASSUME TypeOK, Agenda, Books, AllGeometric, NEW e \in queue, RejectPlan(e)
  PROVE  Ledger!TurnDown(e.round)
<1>1. Ledger!IsNext(e.round)
  BY LedgerIsNext DEF RejectPlan
<1> DEFINE x == RejectedResult(e.round, PreflightReasons(e.round))
<1>2. x.round = e.round /\ x.accepted = FALSE
  BY DEF RejectedResult
<1>3. results' = Append(results, x)
  BY DEF RejectPlan
<1> HIDE DEF x
<1>4. Verdicts' = Append(Verdicts, <<e.round, FALSE>>)
  BY <1>2, <1>3, VerdictAppended
<1>5. Stage' = [Stage EXCEPT ![e.round] = "decided"]
  BY TypesOfEvent, StageDecided DEF RejectPlan, TypeOK
<1>6. Failed' = Failed
  BY DEF RejectPlan, Return, Failed
<1>7. QED
  BY <1>1, <1>4, <1>5, <1>6 DEF Ledger!TurnDown, Ledger!Verdict

LEMMA FinalizeDecides ==
  ASSUME TypeOK, Agenda, Books, NEW e \in queue, ReportArrives(e) \/ FinalTimesOut(e)
  PROVE  Ledger!Decide(e.round) \/ UNCHANGED Ledger!ledgerVars
<1>1. /\ UNCHANGED started /\ Failed' = Failed /\ ~Failed /\ started[e.round]
      /\ e.round \in Rounds
  BY TypesOfEvent DEF ReportArrives, FinalTimesOut, Handle, Return, Failed, Errors, Agenda,
     StartsAreAhead
<1>2. CASE UNCHANGED <<completed, results>>
  BY <1>1, <1>2, LedgerUnchanged
<1>3. CASE \E rd : Finalize(e.round, rd) /\ ~completed[e.round]
  <2>1. PICK rd : Finalize(e.round, rd) /\ ~completed[e.round]
    BY <1>3
  <2> DEFINE x == RoundResult(e.round, rd)
  <2>2. x.round = e.round /\ x.accepted \in BOOLEAN
    BY DEF RoundResult
  <2>3. results' = Append(results, x) /\ completed' = [completed EXCEPT ![e.round] = TRUE]
    BY <2>1 DEF Finalize
  <2> HIDE DEF x
  <2>4. Verdicts' = Append(Verdicts, <<e.round, x.accepted>>)
    BY <2>2, <2>3, VerdictAppended
  <2>5. Stage' = [Stage EXCEPT ![e.round] = "decided"]
    BY <1>1, <2>3, StageDecided
  <2>6. Stage[e.round] = "open"
    BY <1>1, <2>1, StageOfRound
  <2>7. QED
    BY <1>1, <2>2, <2>4, <2>5, <2>6 DEF Ledger!Decide, Ledger!Verdict
<1>4. QED
  BY <1>2, <1>3 DEF ReportArrives, FinalTimesOut, Finalize

LEMMA NextIsLedgerNext ==
  ASSUME TypeOK, Agenda, Books, AllGeometric, [Next]_vars
  PROVE  [Ledger!LedgerNext]_(Ledger!ledgerVars)
<1>1. CASE Step
  <2>1. PICK e \in queue : DeviceStep(e) \/ ProtocolStep(e) \/ DecisionStep(e)
    BY <1>1 DEF Step
  <2>2. e.round \in Rounds
    BY TypesOfEvent
  <2>3. ASSUME RaisingStep(e), status = "running" PROVE Ledger!LedgerNext
    BY <2>3, LedgerFails DEF RaisingStep, Raise, decisionVars, Ledger!LedgerNext
  <2>4. CASE \/ DeviceStep(e)
             \/ SendChallenge(e) \/ InterceptDone(e) \/ SendReplacement(e)
             \/ SendBasis(e) \/ BasisArrives(e) \/ VerifierReceives(e)
    <3>1. CASE OrdinaryStep(e)
      BY <3>1, LedgerUnchanged DEF OrdinaryStep, Return, Failed
    <3>2. status = "running"
      BY <2>4 DEF DeviceStep, PairReady, PairReadyRaises, PairFails, PhotonArrives,
         DetectionDone, GateCloses, LoadDone, LoadFails, Expire, RetrieveDone, ProverMeasured,
         V0Measured, SendChallenge, InterceptDone, SendReplacement, SendBasis, BasisArrives,
         VerifierReceives, Handle
    <3>3. QED
      BY <2>3, <2>4, <3>1, <3>2, OrdinarySteps
  <2>5. CASE StartRoundRaises(e)
    BY <2>3, <2>5, StartRaises DEF StartRoundRaises, Handle
  <2>6. CASE StartRound(e)
    BY <2>2, <2>6, StartOpens DEF Ledger!LedgerNext
  <2>7. CASE RejectPlan(e)
    BY <2>2, <2>7, RejectTurnsDown DEF Ledger!LedgerNext
  <2>8. CASE RoundTimesOut(e)
    BY <2>8, TimeoutShape, LedgerUnchanged DEF Return, Failed
  <2>9. CASE ReportArrives(e) \/ FinalTimesOut(e)
    BY <2>2, <2>9, FinalizeDecides DEF Ledger!LedgerNext
  <2>10. QED
    BY <2>1, <2>4, <2>5, <2>6, <2>7, <2>8, <2>9 DEF ProtocolStep, DecisionStep
<1>2. CASE Finish
  BY <1>2, LedgerUnchanged DEF Finish, decisionVars, Failed, Errors
<1>3. CASE UNCHANGED vars
  BY <1>3, LedgerUnchanged DEF vars, schedulerVars, decisionVars, Failed
<1>4. QED
  BY <1>1, <1>2, <1>3 DEF Next, Over

LEMMA InitIsLedgerInit == ASSUME Init PROVE Ledger!LedgerInit
<1>1. Stage = [r \in Rounds |-> "waiting"]
  BY DEF Init, Stage
<1>2. Verdicts = <<>>
  BY DEF Init, Verdicts
<1>3. Failed = FALSE
  BY DEF Init, Failed, Errors
<1>4. QED
  BY <1>1, <1>2, <1>3 DEF Ledger!LedgerInit

\* The session opens its rounds in order, one at a time, and reaches one
\* verdict on each, which nothing revises.
THEOREM SessionImplementsLedger ==
  ASSUME AllGeometric
  PROVE  Spec => ImplementsLedger
<1>1. Init => Ledger!LedgerInit
  BY InitIsLedgerInit
<1>2. TypeOK /\ Agenda /\ Books /\ [Next]_vars => [Ledger!LedgerNext]_(Ledger!ledgerVars)
  BY NextIsLedgerNext
<1>3. QED
  BY <1>1, <1>2, SessionTypes, SessionAgenda, SessionBooks, PTL
     DEF Spec, ImplementsLedger, Ledger!LedgerSpec

-----------------------------------------------------------------------------
(* The horizon leaves room for every round. *)

LEMMA TimersBeforeStop ==
  ASSUME TypeOK, Agenda, AllGeometric, status \notin Errors, NEW r \in Rounds, ~completed[r]
  PROVE  \E e \in queue : e.when < config.stop
<1>1. /\ config \in Configs /\ TimingConfig(config) /\ Geometric(config) /\ r \in Nat
      /\ r < NumRounds /\ NumRounds \in Nat
  <2>1. NumRounds \in Nat
    BY SessionAssumption
  <2>2. r \in Nat /\ r < NumRounds
    BY <2>1, SMT DEF Rounds
  <2>3. QED
    BY <2>1, <2>2, ConfigTypes DEF AllGeometric, TypeOK
<1>2. /\ RoundStartAt(config, r) < RoundStartAt(config, NumRounds)
      /\ RoundStartAt(config, r + 1) <= RoundStartAt(config, NumRounds)
      /\ RoundTimeoutAt(config, r) < RoundStartAt(config, r + 1)
      /\ FinalTimeoutAt(config, r) < RoundStartAt(config, r + 1)
  BY <1>1, StartsInOrder, TimersBeforeNextStart
<1>3. /\ RoundStartAt(config, r) \in Int /\ RoundStartAt(config, r + 1) \in Int
      /\ RoundStartAt(config, NumRounds) \in Int /\ RoundTimeoutAt(config, r) \in Int
      /\ FinalTimeoutAt(config, r) \in Int /\ config.stop \in Int
  <2>1. r + 1 \in Nat
    BY <1>1
  <2>2. RoundTimeoutAt(config, r) \in Int /\ FinalTimeoutAt(config, r) \in Int
    BY <1>1, PlanTypes DEF FinalTimeoutAt
  <2>3. \A i \in Nat : RoundStartAt(config, i) \in Nat
    BY <1>1, NextRoundStart
  <2>4. config.stop \in Nat
    BY <1>1, ConfigTypes
  <2>5. QED
    BY <1>1, <2>1, <2>2, <2>3, <2>4
<1>4. RoundStartAt(config, NumRounds) < config.stop
  <2>1. HorizonOK(config, NumRounds, config.stop)
    BY <1>1, SessionAssumption
  <2>2. config.cleanup \in Nat
    BY <1>1, TimingTypes
  <2> DEFINE S == RoundStartAt(config, NumRounds)
  <2>3. config.stop > S + config.cleanup
    BY <2>1 DEF HorizonOK, RoundStartAt
  <2>4. S \in Int
    BY <1>3
  <2> HIDE DEF S
  <2>5. S < config.stop
    BY <1>3, <2>2, <2>3, <2>4
  <2>6. QED
    BY <2>5 DEF S
<1>5. PICK e \in queue : \/ e.when = RoundStartAt(config, r)
                         \/ e.when = RoundTimeoutAt(config, r)
                         \/ e.when = FinalTimeoutAt(config, r)
  <2>1. CASE ~started[r]
    <3>1. PICK e \in queue : e.kind = "start" /\ e.round = r
      BY <2>1 DEF Agenda, NothingIsForgotten
    <3>2. QED
      BY <3>1 DEF Agenda, StartsAreAhead
  <2>2. CASE started[r]
    <3>1. PICK e \in queue : e.kind \in {"timeout", "final"} /\ e.round = r
      BY <2>2 DEF Agenda, NothingIsForgotten
    <3>2. QED
      BY <3>1 DEF Agenda, TimersAreSet
  <2>3. QED
    BY <2>1, <2>2 DEF TypeOK
<1>6. e.when < config.stop
  BY <1>2, <1>3, <1>4, <1>5
<1>7. QED
  BY <1>6

\* When run() returns every round has been decided.
THEOREM FinishedSessions ==
  ASSUME AllGeometric
  PROVE  Spec => []FinishedMeansDecided
<1>1. Init => FinishedMeansDecided
  BY DEF Init, FinishedMeansDecided
<1>2. TypeOK /\ Agenda /\ FinishedMeansDecided /\ [Next]_vars => FinishedMeansDecided'
  <2> SUFFICES ASSUME TypeOK, Agenda, FinishedMeansDecided, [Next]_vars
               PROVE  FinishedMeansDecided'
    OBVIOUS
  <2>1. CASE Finish
    <3> SUFFICES ASSUME NEW r \in Rounds, ~completed[r] PROVE FALSE
      BY <2>1 DEF Finish, FinishedMeansDecided, decisionVars
    <3>1. status \notin Errors
      BY <2>1 DEF Finish, Errors
    <3>2. PICK e \in queue : e.when < config.stop
      BY <3>1, TimersBeforeStop
    <3>3. e.when >= config.stop /\ e.when \in Int /\ config.stop \in Int
      BY <2>1, TypesOfEvent, ConfigTypes, SMTT(30) DEF Finish, TypeOK
    <3>4. QED
      BY <3>2, <3>3
  <2>2. CASE UNCHANGED vars
    BY <2>2 DEF FinishedMeansDecided, vars, schedulerVars, decisionVars
  <2>3. CASE Step
    <3>1. PICK e \in queue : DeviceStep(e) \/ ProtocolStep(e) \/ DecisionStep(e)
      BY <2>3 DEF Step
    <3>2. ASSUME OrdinaryStep(e) \/ RaisingStep(e) PROVE status' # "finished"
      BY <3>2 DEF OrdinaryStep, RaisingStep, Return, Raise, Errors
    <3>3. ASSUME \E kind : Handle(e, kind), \E evs : Return(e, evs) PROVE status' # "finished"
      BY <3>3 DEF Handle, Return
    <3>4. status' # "finished"
      <4>1. CASE StartRound(e) \/ RejectPlan(e) \/ ReportArrives(e) \/ FinalTimesOut(e)
        BY <3>3, <4>1 DEF StartRound, RejectPlan, ReportArrives, FinalTimesOut
      <4>2. CASE RoundTimesOut(e)
        BY <4>2, TimeoutShape DEF Return
      <4>3. QED
        BY <3>1, <3>2, <4>1, <4>2, OrdinarySteps, StartRaises DEF ProtocolStep, DecisionStep
    <3>5. QED
      BY <3>4 DEF FinishedMeansDecided
  <2>4. QED
    BY <2>1, <2>2, <2>3 DEF Next, Over
<1>3. QED
  BY <1>1, <1>2, SessionTypes, SessionAgenda, PTL DEF Spec
=============================================================================
