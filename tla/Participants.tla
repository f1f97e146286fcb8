----------------------------- MODULE Participants -----------------------------
(***************************************************************************)
(* The state machines of prover, verifiers and controller (qpv/prover.py,  *)
(* qpv/verifier.py, qpv/controller.py) and the session that never drives   *)
(* them: QpvSessionRuntime keeps no state of theirs, so each participant's *)
(* state is read off what the session has done.                            *)
(***************************************************************************)
EXTENDS QpvProperties

\* The tables _ALLOWED, each as a function from a state to its successors.
ProverTable ==
  [waiting_for_challenge   |-> {"qnd_in_progress", "no_commitment", "aborted"},
   qnd_in_progress         |-> {"memory_loading", "committed_without_state", "no_commitment",
                                "aborted"},
   memory_loading          |-> {"committed_with_state", "no_commitment", "aborted"},
   committed_with_state    |-> {"waiting_for_basis", "memory_retrieving", "aborted"},
   committed_without_state |-> {"waiting_for_basis", "complete", "aborted"},
   waiting_for_basis       |-> {"memory_retrieving", "complete", "aborted"},
   memory_retrieving       |-> {"measuring", "aborted"},
   measuring               |-> {"answer_sent", "aborted"},
   answer_sent             |-> {"complete"},
   no_commitment           |-> {"complete"},
   aborted                 |-> {"complete"},
   complete                |-> {}]

VerifierTable ==
  [planned                    |-> {"preparing", "aborted"},
   preparing                  |-> {"challenge_sent", "basis_sent", "aborted"},
   challenge_sent             |-> {"basis_sent", "aborted"},
   basis_sent                 |-> {"commitment_received", "local_measurement_complete",
                                   "aborted"},
   commitment_received        |-> {"local_measurement_complete", "answer_received", "aborted"},
   local_measurement_complete |-> {"answer_received", "report_sent", "aborted"},
   answer_received            |-> {"report_sent", "aborted"},
   report_sent                |-> {"complete"},
   aborted                    |-> {"complete"},
   complete                   |-> {}]

ControllerTable ==
  [calibrating        |-> {"planning", "aborted"},
   planning           |-> {"plan_distributed", "rejected"},
   plan_distributed   |-> {"collecting_reports"},
   collecting_reports |-> {"deciding", "aborted"},
   deciding           |-> {"accepted", "rejected"},
   accepted           |-> {}, rejected |-> {}, aborted |-> {}]

\* validate_transition: the moves a table lists, made one at a time.
Listed(table) == UNION {{<<s, t>> : t \in table[s]} : s \in DOMAIN table}

\* A handler that enters these states takes a machine from s by such moves:
\* into one state, or into one and at once into a later one of its course.
Follows(moves, course, s, entered) ==
  \/ entered = {}
  \/ \E t \in entered : entered = {t} /\ <<s, t>> \in moves
  \/ \E i, j \in DOMAIN course :
       /\ i < j /\ entered = {course[i], course[j]}
       /\ {<<s, course[i]>>, <<course[i], course[j]>>} \subseteq moves

-----------------------------------------------------------------------------
(* What the session has done for a participant in round r are the signs of   *)
(* the states it has entered, in the course it takes when nothing goes wrong *)
(* first; it is in the furthest of them.  States that leave no sign in the   *)
(* session (challenge_sent, waiting_for_basis, aborted, complete) are passed *)
(* over.                                                                     *)

Furthest(course, signs) ==
  course[CHOOSE i \in DOMAIN course :
           signs[course[i]] /\ \A j \in DOMAIN course : j > i => ~signs[course[j]]]

Entered(before, after) == {s \in DOMAIN before : ~before[s] /\ after[s]}

Awaits(kind, r, who) == \E e \in queue : e.kind = kind /\ e.round = r /\ e.who = who

ProverCourse ==
  <<"waiting_for_challenge", "qnd_in_progress", "memory_loading", "no_commitment",
    "committed_without_state", "committed_with_state", "memory_retrieving", "measuring",
    "answer_sent">>

ProverSigns(r) ==
  LET rd == round[r] IN
  [waiting_for_challenge   |-> TRUE,
   qnd_in_progress         |-> Awaits("qnd", r, "prover"),
   memory_loading          |-> rd.outcome = "valid_detection",
   no_commitment           |-> rd.commitAt # None /\ ~rd.committed,
   committed_without_state |-> rd.committed /\ ~rd.valid,
   committed_with_state    |-> rd.committed /\ rd.valid,
   memory_retrieving       |-> rd.measuring,
   measuring               |-> Awaits("measured", r, "prover"),
   answer_sent             |-> rd.bit["prover"] # None]

ProverState(r) == Furthest(ProverCourse, ProverSigns(r))

\* A refused plan is distributed to nobody.
Refused(r) ==
  \E i \in DOMAIN results : results[i].round = r /\ results[i].outcome = "not_executed"

Distributed(r) == started[r] /\ ~Refused(r)

VerifierCourse ==
  <<"planned", "preparing", "basis_sent", "commitment_received", "local_measurement_complete",
    "answer_received", "report_sent">>

VerifierSigns(r, v) ==
  LET o == round[r].seen[v] IN
  [planned                    |-> TRUE,
   preparing                  |-> Distributed(r),
   basis_sent                 |-> Distributed(r) /\ ~Awaits("send", r, v),
   commitment_received        |-> o.commitment # None,
   local_measurement_complete |-> v = "v0" /\ round[r].bit["v0"] # None,
   answer_received            |-> o.answer # None,
   report_sent                |-> o.report # None]

VerifierState(r, v) == Furthest(VerifierCourse, VerifierSigns(r, v))

ControllerCourse ==
  <<"planning", "plan_distributed", "collecting_reports", "deciding", "accepted", "rejected">>

Verdict(r, accepted) ==
  \E i \in DOMAIN results : results[i].round = r /\ results[i].accepted = accepted

ControllerSigns(r) ==
  [planning           |-> TRUE,
   plan_distributed   |-> Distributed(r),
   collecting_reports |-> Distributed(r),
   deciding           |-> Distributed(r) /\ completed[r],
   accepted           |-> Verdict(r, TRUE),
   rejected           |-> Verdict(r, FALSE)]

ControllerState(r) == Furthest(ControllerCourse, ControllerSigns(r))

\* The step takes a participant of round r by these moves.
ProverFollows(r, moves) ==
  Follows(moves, ProverCourse, ProverState(r), Entered(ProverSigns(r), ProverSigns(r)'))

VerifierFollows(r, v, moves) ==
  Follows(moves, VerifierCourse, VerifierState(r, v),
          Entered(VerifierSigns(r, v), VerifierSigns(r, v)'))

ControllerFollows(r, moves) ==
  Follows(moves, ControllerCourse, ControllerState(r),
          Entered(ControllerSigns(r), ControllerSigns(r)'))

-----------------------------------------------------------------------------
(* Moves that no table lists and the session makes. *)

Handling(kind, r) == \E e \in queue : e.kind = kind /\ e.round = r /\ IsFirst(e, queue)

\* The gate closes on a dark count with no detection in progress.
DarkCommitment(r) ==
  {m \in {<<"waiting_for_challenge", "committed_without_state">>} : Handling("gate", r)}

\* The round times out before the answer, and a commitment comes last of all.
EarlyReport(r) ==
  {m \in {"preparing", "basis_sent", "commitment_received"} \X {"report_sent"} :
     \/ Handling("timeout", r)
     \/ Handling("commitment", r) /\ m[1] = "commitment_received"}

\* What a verifier hears before it has sent its input, without what should
\* come first, or after it has reported; and what it sends or measures then.
OutOfTurn ==
  {<<"preparing", "commitment_received">>, <<"local_measurement_complete", "commitment_received">>,
   <<"answer_received", "commitment_received">>, <<"basis_sent", "answer_received">>,
   <<"answer_received", "local_measurement_complete">>, <<"commitment_received", "basis_sent">>}
    \union {"report_sent"} \X {"basis_sent", "commitment_received", "local_measurement_complete",
                               "answer_received"}

\* The session departs from the tables in these moves only: the prover when
\* the gate closes on a dark count, a verifier when it reports before the
\* answer or when something reaches it out of turn, the controller never.
\* Neither ever measures, hears or sends twice as a new state, and no verifier
\* hears an answer, or measures, before it has sent its input (_ALLOWED of the
\* three machines, against every handler of the session).
DeparturesAreKnown ==
  [][status' \notin Errors =>
       \A r \in Rounds :
         /\ ProverFollows(r, Listed(ProverTable) \union DarkCommitment(r))
         /\ ControllerFollows(r, Listed(ControllerTable))
         /\ \A v \in Verifiers :
              VerifierFollows(r, v, Listed(VerifierTable) \union EarlyReport(r) \union OutOfTurn)]_vars

\* "Every stateful device and protocol must use an enum-backed state machine
\* with validated transitions" (TECHNICAL_SPEC.md 6.3): every step of the
\* session takes the prover and the verifiers by moves of their tables only
\* (_ALLOWED of qpv/prover.py and qpv/verifier.py).
SessionFollowsTables ==
  [][status' \notin Errors =>
       \A r \in Rounds :
         /\ ProverFollows(r, Listed(ProverTable))
         /\ \A v \in Verifiers : VerifierFollows(r, v, Listed(VerifierTable))]_vars
=============================================================================
