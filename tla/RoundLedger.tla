----------------------------- MODULE RoundLedger -----------------------------
(***************************************************************************)
(* What a QPV session promises, whatever its devices, messages and timers  *)
(* do: rounds are executed one after the other and each gets one verdict.  *)
(***************************************************************************)
EXTENDS Integers, Sequences

CONSTANT Rounds  \* the round indices

VARIABLES
  stage,     \* of each round: "waiting", "open" or "decided"
  verdicts,  \* the verdicts in the order they were reached: <<round, accepted>>
  failed     \* the session was aborted by an exception

ledgerVars == <<stage, verdicts, failed>>

LedgerInit ==
  /\ stage = [r \in Rounds |-> "waiting"]
  /\ verdicts = <<>>
  /\ failed = FALSE

\* r is the next round: nothing of an earlier one is outstanding.
IsNext(r) ==
  /\ ~failed
  /\ stage[r] = "waiting"
  /\ \A s \in Rounds : s < r => stage[s] = "decided"

Verdict(r, accepted) ==
  /\ stage' = [stage EXCEPT ![r] = "decided"]
  /\ verdicts' = Append(verdicts, <<r, accepted>>)
  /\ UNCHANGED failed

Open(r) ==
  /\ IsNext(r)
  /\ stage' = [stage EXCEPT ![r] = "open"]
  /\ UNCHANGED <<verdicts, failed>>

\* A plan the policy refuses is decided without being executed.
TurnDown(r) == IsNext(r) /\ Verdict(r, FALSE)

Decide(r) ==
  /\ ~failed /\ stage[r] = "open"
  /\ \E accepted \in BOOLEAN : Verdict(r, accepted)

Fail == ~failed /\ failed' = TRUE /\ UNCHANGED <<stage, verdicts>>

LedgerNext == Fail \/ \E r \in Rounds : Open(r) \/ TurnDown(r) \/ Decide(r)

LedgerSpec == LedgerInit /\ [][LedgerNext]_ledgerVars
=============================================================================
