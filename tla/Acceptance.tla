----------------------------- MODULE Acceptance -----------------------------
(***************************************************************************)
(* The controller's decisions (qpv/acceptance.py).                         *)
(*                                                                         *)
(* A verifier's report holds what it observed and what it says it observed *)
(*   commitment, answer          the bits received, or None                *)
(*   commitAt, answerAt          when they arrived (physical)              *)
(*   commitReported, answerReported   when the report says they arrived    *)
(*   deadline                    the round's answer deadline               *)
(*   local                       v0's own measurement, or None             *)
(* A tuple of reports is a function from the verifiers that reported.      *)
(* Nonce, epoch and authenticity always match: a session fills them in     *)
(* from the plan it compares them with, so freshness never objects.        *)
(***************************************************************************)
EXTENDS Integers, FiniteSets

CONSTANT None

For(reason, verifiers) == {<<reason, v>> : v \in verifiers}

\* Mutant: a missing answer is not late.
BaselineReasonsWithoutAnswer(reports) ==
  LET V == DOMAIN reports IN
  IF Cardinality(V) < 2 THEN {<<"missing_verifier_report">>}
  ELSE For("no_commitment", {v \in V : reports[v].commitment # 1})
       \union For("reported_answer_deadline",
                  {v \in V : /\ reports[v].answerReported # None
                             /\ reports[v].answerReported > reports[v].deadline})

\* The reason codes of BaselineRoundAcceptance.decide.
BaselineReasons(reports) ==
  LET V == DOMAIN reports IN
  IF Cardinality(V) < 2 THEN {<<"missing_verifier_report">>}
  ELSE For("no_commitment", {v \in V : reports[v].commitment # 1})
       \union For("reported_answer_deadline",
                  {v \in V : \/ reports[v].answerReported = None
                             \/ reports[v].answerReported > reports[v].deadline})
       \union For("outcome_mismatch",
                  {v \in V : /\ reports[v].local # None /\ reports[v].answer # None
                             /\ reports[v].local # reports[v].answer})

\* Mutant: only reports that claim a later time are inconsistent.
InconsistentIfLater(physical, reported, uncertainty) ==
  physical # None /\ reported # None /\ reported - physical > uncertainty

Inconsistent(physical, reported, uncertainty) ==
  /\ physical # None /\ reported # None
  /\ physical - reported \notin -uncertainty .. uncertainty

\* SecurityAwareRoundAcceptance.decide adds the timestamps that are too far
\* from their physical values.
SecurityReasons(reports, uncertainty) ==
  BaselineReasons(reports)
    \union For("timestamp_inconsistency",
               {v \in DOMAIN reports :
                  Inconsistent(reports[v].answerAt, reports[v].answerReported, uncertainty)})
    \union For("commitment_timestamp_inconsistency",
               {v \in DOMAIN reports :
                  Inconsistent(reports[v].commitAt, reports[v].commitReported, uncertainty)})

-----------------------------------------------------------------------------
\* The timing margins of a round result.
MarginNames == {"commitment", "v0", "v1"}
=============================================================================
