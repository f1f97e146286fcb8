---------------------------- MODULE SessionVerdict ----------------------------
(***************************************************************************)
(* The verdict on a session (aggregate_session, qpv/acceptance.py): three  *)
(* counts over the results of its rounds against three thresholds.  It     *)
(* looks at what the rounds measured and when, not at their verdicts.      *)
(*                                                                         *)
(* A threshold is [minimumCommitted, maximumQber, maximumViolations], the  *)
(* error rate in percent.                                                  *)
(***************************************************************************)
EXTENDS QpvProperties, FiniteSetsExt

CONSTANT Thresholds

\* QOrchSimConfig lets no other thresholds pass.
ASSUME ThresholdsAssumption ==
  \A th \in Thresholds :
    /\ th.minimumCommitted \in 0 .. NumRounds /\ th.maximumQber \in 0 .. 100
    /\ th.maximumViolations \in Nat

Committed  == Quantify(DOMAIN results, LAMBDA i : results[i].committed)
Compared   == Quantify(DOMAIN results, LAMBDA i : results[i].match # None)
Mismatches == Quantify(DOMAIN results, LAMBDA i : results[i].match = FALSE)

\* The margins that are known and negative.
Violations ==
  Cardinality({p \in (DOMAIN results) \X MarginNames :
                 LET margin == results[p[1]].margins[p[2]] IN margin # None /\ margin < 0})

\* Mutant: nothing compared counts as nothing wrong.
QberExceedsIfCompared(maximum) ==
  IF Compared = 0 THEN FALSE ELSE 100 * Mismatches > maximum * Compared

\* The error rate of no compared rounds is 1.
QberExceeds(maximum) ==
  IF Compared = 0 THEN 100 > maximum ELSE 100 * Mismatches > maximum * Compared

SessionReasons(th) ==
  {reason \in {"insufficient_committed_rounds", "qber_exceeded", "timing_violations_exceeded"} :
     \/ reason = "insufficient_committed_rounds" /\ Committed < th.minimumCommitted
     \/ reason = "qber_exceeded" /\ QberExceeds(th.maximumQber)
     \/ reason = "timing_violations_exceeded" /\ Violations > th.maximumViolations}

SessionAccepted(th) == SessionReasons(th) = {}

-----------------------------------------------------------------------------
\* The prover held the photon of this round and measured it as v0 did.
Proven(result) ==
  /\ result.outcome = "valid_detection" /\ result.valid
  /\ result.bit["prover"] # None /\ result.bit["prover"] = result.bit["v0"]

\* A session is accepted only on the strength of a round in which the prover
\* had the photon and read v0's bit, unless every error is tolerated: dark
\* counts, losses, refused plans and forced reports alone never add up to an
\* accepted session.  And a session all of whose rounds were accepted, compared
\* and committed before the basis was known is accepted whatever the
\* thresholds, if the verifiers' clocks are not lied about
\* (aggregate_session over the results of _finalize_round and _on_round_start).
SessionFollowsItsRounds ==
  status = "finished" =>
    \A th \in Thresholds :
      /\ SessionAccepted(th) /\ th.maximumQber < 100 =>
           \E i \in DOMAIN results : Proven(results[i])
      /\ (/\ Unforged /\ Tolerance = 0
          /\ \A i \in DOMAIN results :
               LET result == results[i] IN
               /\ result.accepted /\ result.match # None
               /\ result.margins["commitment"] >= 0)
           => SessionAccepted(th)
=============================================================================
