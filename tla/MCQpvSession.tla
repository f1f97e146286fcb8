---------------------------- MODULE MCQpvSession ----------------------------
(***************************************************************************)
(* Small sessions.  Times are those of configs/qpv_ideal.yaml, in          *)
(* picoseconds: the verifiers are 1 km from the prover and from the        *)
(* controller, 5 us at 2.0e8 m/s.                                          *)
(***************************************************************************)
EXTENDS Participants, SessionVerdict

Km == 5000000  \* 5 us

Everyone(x) == [m \in Holders |-> x]

Links(toProver, toController) ==
  [s \in {"v0", "v1", "prover"} |->
     IF s = "prover" THEN [v \in Verifiers |-> toProver]
     ELSE [n \in {"prover", "controller"} |->
             IF n = "prover" THEN toProver ELSE toController]]

Intact == [kind \in MessageKinds |-> {<<0>>}]

\* What happens when every probability of a device is 0 or 1 ...
Certain ==
  [epr |-> {TRUE}, photon |-> {TRUE}, load |-> Everyone({TRUE}),
   retrieve |-> Everyone({TRUE}), qnd |-> {"valid_detection"}, close |-> {"missed_photon"},
   bit |-> Everyone({1})]

\* ... and when none is.
Random ==
  [epr |-> BOOLEAN, photon |-> BOOLEAN, load |-> Everyone(BOOLEAN),
   retrieve |-> Everyone(BOOLEAN), qnd |-> {"valid_detection", "missed_photon",
   "state_destroyed"}, close |-> {"missed_photon", "dark_count"}, bit |-> Everyone({0, 1})]

Ideal ==
  [initialStart |-> 1000000, c2b |-> 5000000, slack |-> 1000000, cleanup |-> 10000000,
   stop |-> 200000000,
   geo |-> [v \in Verifiers |-> [n \in {"prover", "controller"} |-> Km]],
   link |-> Links(Km, Km), sender |-> Links(0, 0), qGeo |-> Km, qLink |-> Km,
   epr |-> 100000, qnd |-> 100000, load |-> Everyone(100000),
   retrieve |-> Everyone(100000), switch |-> Everyone(20000), measure |-> Everyone(100000),
   dead |-> Everyone(10000), hold |-> Everyone(100000000), qndDead |-> 10000,
   gateWidth |-> 2000000, rest |-> 1000000,
   secure |-> FALSE, uncertainty |-> 50000, maxSkew |-> 100000, stale |-> FALSE,
   skew |-> [x |-> 0, y |-> 0, challenge |-> 0, seen |-> FALSE],
   bias |-> [v \in Verifiers |-> [commitment |-> 0, answer |-> 0]],
   intercept |-> [on |-> FALSE, process |-> 500000, prepare |-> 100000,
                  toHim |-> 2500000, toProver |-> 2500000],
   tamper |-> Intact, photonDelay |-> {0}, can |-> Certain]


-----------------------------------------------------------------------------
(* Devices that fail, at even distances and at uneven ones. *)

Noisy == [Ideal EXCEPT !.can = Random]

Uneven ==
  LET to(v, n) == CASE v = "v0" /\ n = "prover" -> Km  [] v = "v0" -> 1000000
                    [] v = "v1" /\ n = "prover" -> 7500000  [] OTHER -> 13000000
      geo == [v \in Verifiers |-> [n \in {"prover", "controller"} |-> to(v, n)]]
  IN  [Noisy EXCEPT !.geo = geo,
         !.link = [s \in {"v0", "v1", "prover"} |->
                     IF s = "prover" THEN [v \in Verifiers |-> to(v, "prover")] ELSE geo[s]]]

NoisyOnes == {Noisy, Uneven}

-----------------------------------------------------------------------------
(* Jamming and custom attacks on one kind of message at a time.  A copy is  *)
(* on time, late for its deadline but not for the round, or late for both;  *)
(* a message may be lost or doubled.  The photon may be late for the gate,  *)
(* or so near its end that the detector is not ready before it closes.      *)

Late    == 2000000
TooLate == 30000000

Jammed(kind, delays) ==
  [Ideal EXCEPT !.tamper[kind] =
     {<<>>, <<0>>, <<0, 0>>} \union {<<d>> : d \in delays} \union {<<0, d>> : d \in delays}]

\* So late that the qubits are being retrieved when the round is closed.
WhileClosing == FinalTimeoutAt(Ideal, 0) - BasisArrivalAt(Ideal, 0) - 50000

\* Commitments that come after the answers, or never, though the photon may be
\* missed too; an input that v1 sends after it has heard the commitment, or
\* after the round has timed out; a slow meter at v0.
AfterAnswers == 6000000

Unheard == [Ideal EXCEPT !.tamper["commitment"] = {<<>>},
                         !.can.qnd = {"valid_detection", "missed_photon"}]

Belated(c, y) == [c EXCEPT !.skew.y = y]

OutOfOrder ==
  {Jammed("commitment", {AfterAnswers, TooLate}), Belated(Ideal, 8000000),
   Belated(Unheard, 18000000), Unheard, [Ideal EXCEPT !.measure["v0"] = 6000000]}

MCJammed ==
  {Jammed(kind, {Late, TooLate}) : kind \in {"answer", "report"}}
    \union {Jammed("basis", {Late, WhileClosing})}
    \union {[Ideal EXCEPT !.photonDelay = {0, 950000, 1000000, 1000001, TooLate}]}
    \union OutOfOrder

-----------------------------------------------------------------------------
(* Memories with a maximum hold: never reached, just reached and just missed *)
(* when the basis arrives, reached before the round is over, or reached in   *)
(* the next round; and one without.                                          *)

Dwell == BasisArrivalAt(Ideal, 0) - ChallengeAt(Ideal, 0) - Km - 200000

Held(prover, v0) == [Noisy EXCEPT !.hold = [m \in Holders |-> IF m = "v0" THEN v0 ELSE prover]]

HeldOnes ==
  {Held(Dwell, 100000000), Held(Dwell - 1, 100000000), Held(100000000, 15000000),
   Held(41500000, 30000000), Held(None, None)}

-----------------------------------------------------------------------------
(* The security-aware policy against skew, poisoned telemetry, forgery and  *)
(* late answers, and the intercept attack; the baseline against forgery.    *)

Secure == [Ideal EXCEPT !.secure = TRUE]

SkewBy(c, x, y, challenge, seen) ==
  [c EXCEPT !.skew = [x |-> x, y |-> y, challenge |-> challenge, seen |-> seen]]

\* Answers on time, at the deadline, at the edge of the clock uncertainty,
\* beyond it.
LateAnswers(c) ==
  [c EXCEPT !.tamper["answer"] = {<<0>>, <<1000000>>, <<1050000>>, <<1050001>>, <<Late>>}]

ForgedBy(c, commitment, answer) ==
  LateAnswers([c EXCEPT !.bias["v1"] = [commitment |-> commitment, answer |-> answer]])

Intercepted(process) ==
  [Secure EXCEPT !.intercept.on = TRUE, !.intercept.process = process,
                 !.can.bit = Everyone({0, 1})]

DefendedOnes ==
  {ForgedBy(Secure, 0, -1500000), ForgedBy(Secure, 0, -50000), ForgedBy(Secure, 60000, 0),
   ForgedBy(Ideal, 0, -1500000), LateAnswers(Ideal),
   SkewBy(Secure, 200000, 0, 0, TRUE), SkewBy(Secure, -3000000, -3000000, 0, FALSE),
   SkewBy(Secure, 0, 0, 100000, TRUE), [Secure EXCEPT !.stale = TRUE],
   Intercepted(0), Intercepted(2000000)}

-----------------------------------------------------------------------------
(* Configurations that validate and cannot work: busy devices, plans in the *)
(* past, early photons, links longer than the geometry says.                *)

StrainedOnes ==
  {[Noisy EXCEPT !.rest = 60000000], [Noisy EXCEPT !.dead = Everyone(60000000)],
   [Noisy EXCEPT !.qndDead = 60000000], SkewBy(Noisy, -25000000, 0, 0, FALSE),
   SkewBy(Noisy, 0, 0, -2000000, FALSE), [Noisy EXCEPT !.qLink = 3000000],
   [Noisy EXCEPT !.link = Links(Km, 5 * Km)], [Noisy EXCEPT !.link = Links(3 * Km, Km)],
   [Noisy EXCEPT !.sender = Links(2000000, 3000000)],
   [Noisy EXCEPT !.hold = Everyone(4000000)]}

\* The strictest thresholds, the laxest that tolerate no error, and those in
\* between that a session of two rounds can tell apart.
MCThresholds ==
  [minimumCommitted : 0 .. NumRounds, maximumQber : {0, 10, 50, 100},
   maximumViolations : {0, 1, 6}]

-----------------------------------------------------------------------------
MCWorking == NoisyOnes \union DefendedOnes
MCDisturbed == MCJammed \union HeldOnes \union StrainedOnes

-----------------------------------------------------------------------------
(* Runs that show a disagreement. *)

Missing == [Ideal EXCEPT !.can.qnd = {"missed_photon"}]

\* v0's qubit expires before the round is over.
MCExpired == {[Missing EXCEPT !.hold = Everyone(30000000)]}

\* The links to the controller delay what they send.
MCSlowSender == {[Missing EXCEPT !.sender = Links(0, 2000000)]}

\* The links to the controller are 5 km long.
MCLongLinks == {[Missing EXCEPT !.link = Links(Km, 5 * Km)]}

\* v0's memory may fail to give its qubit back.
MCLossyV0 == {[Ideal EXCEPT !.can.retrieve = [Everyone({TRUE}) EXCEPT !["v0"] = BOOLEAN]]}

\* Basis messages may be delayed into the next round.
MCDelayedBasis == {[Ideal EXCEPT !.tamper["basis"] = {<<0>>, <<37000000>>}]}

\* The photon is lost, and the gate closes on a dark count; no answer can follow.
MCOffTable == {[Ideal EXCEPT !.can.photon = {FALSE}, !.can.close = {"dark_count"}]}
=============================================================================
