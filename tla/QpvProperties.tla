--------------------------- MODULE QpvProperties ----------------------------
(* What a QPV session must and must not do. *)
EXTENDS QpvSession

-----------------------------------------------------------------------------
(* Types. *)

Opt(S) == S \union {None}
Bits   == {0, 1}
Kinds  == {"start", "epr", "challenge", "intercept", "replacement", "photon", "qnd",
           "gate", "load", "expire", "retrieve", "measured", "send", "timeout", "final"}
            \union MessageKinds
Nodes  == {"v0", "v1", "prover", "controller", "attacker"}

\* Whose device, or whose message, an event may be about.
ActorsOf(kind) ==
  IF kind \in {"load", "expire", "retrieve", "measured"} THEN Holders
  ELSE IF kind \in MessageKinds \union {"send"} THEN Verifiers
  ELSE Nodes

EventType ==
  {e \in [when : Int, phase : Phases, seq : Nat, kind : Kinds, round : Rounds,
          who : Nodes, val : Nat] : e.who \in ActorsOf(e.kind)}

QueueType ==
  /\ now \in Int /\ nextSeq \in Nat
  /\ status \in {"running", "finished"} \union Errors
  /\ queue \subseteq EventType

SlotType ==
  [state : {"empty", "loading", "stored", "retrieving", "expired"}, holds : Opt(Rounds),
   storedAt : Opt(Int), gen : Nat]

DeviceType ==
  /\ source \in [busy : BOOLEAN, freeAt : Int]
  /\ gate \in [Rounds -> [opens : Int, closes : Int, resolved : BOOLEAN]]
  /\ busyUntil \in Int
  /\ mem \in [Holders -> SlotType]
  /\ meter \in [Holders -> [busy : BOOLEAN, freeAt : Int]]

\* Everything has its type, and the queue, the memories and the meters name
\* only rounds and nodes of the session.
TypeOK ==
  /\ config \in Configs
  /\ QueueType
  /\ DeviceType
  /\ started \in [Rounds -> BOOLEAN] /\ completed \in [Rounds -> BOOLEAN]

-----------------------------------------------------------------------------
(* Rounds. *)

\* Every round that is over has exactly one result and no other round has one,
\* however reports, duplicates of reports and the two timeouts interleave
\* (_finalize_round, _on_round_start).
OneResultPerRound ==
  \A r \in Rounds :
    Cardinality({i \in DOMAIN results : results[i].round = r}) = IF completed[r] THEN 1 ELSE 0

\* The heap is the session's agenda: a round that has not started has its start
\* pending, one that is open has a timeout pending, both where the plan puts
\* them, and nothing else happens before the start (schedule, _on_round_start,
\* _on_round_timeout).
OneStart ==
  \A e, f \in queue : e.kind = "start" /\ f.kind = "start" /\ e.round = f.round => e = f

StartsAreAhead ==
  \A e \in queue :
    IF e.kind = "start" THEN ~started[e.round] /\ e.when = RoundStartAt(config, e.round)
    ELSE started[e.round]

TimersAreSet ==
  \A e \in queue : /\ e.kind = "timeout" => e.when = RoundTimeoutAt(config, e.round)
                   /\ e.kind = "final" => e.when = FinalTimeoutAt(config, e.round)

NothingIsForgotten ==
  status \notin Errors =>
    \A r \in Rounds :
      /\ ~started[r] => \E e \in queue : e.kind = "start" /\ e.round = r
      /\ started[r] /\ ~completed[r] =>
           \E e \in queue : e.kind \in {"timeout", "final"} /\ e.round = r

Agenda == OneStart /\ StartsAreAhead /\ TimersAreSet /\ NothingIsForgotten

\* The results are a sequence that names each completed round once.
Books ==
  /\ results \in Seq({results[i] : i \in DOMAIN results})
  /\ \A r \in Rounds : completed[r] <=> \E i \in DOMAIN results : results[i].round = r
  /\ \A i, j \in DOMAIN results : results[i].round = results[j].round => i = j
  /\ \A r \in Rounds : completed[r] => started[r]

\* A round starts only when every earlier round has been decided and both
\* one-slot memories are free (estimate_round_period_ps: "so one-slot memories
\* are released before the next round").
RoundsStartClean ==
  [][\A r \in Rounds :
       started'[r] # started[r] =>
         /\ \A s \in Rounds : s < r => completed[s]
         /\ \A m \in Holders : mem[m].state = "empty"]_vars

\* Failures of devices, losses and late messages end in result states: no
\* handler raises (specification section 6.6).
NoAbort == status \notin Errors

\* When the run is over every round has been decided: the horizon leaves room
\* for the last final timeout (validate_execution_horizon).
FinishedMeansDecided == status = "finished" => \A r \in Rounds : completed[r]

\* Every round is decided in the end, unless an exception aborts the session:
\* no loss, failure or delay leaves one open (_on_round_timeout).
EveryRoundIsDecided == <>(status \in Errors \/ \A r \in Rounds : completed[r])

\* The session seen as a ledger.
Stage == [r \in Rounds |-> IF completed[r] THEN "decided"
                          ELSE IF started[r] THEN "open" ELSE "waiting"]
Verdicts == [i \in DOMAIN results |-> <<results[i].round, results[i].accepted>>]
Failed == status \in Errors

Ledger == INSTANCE RoundLedger WITH stage <- Stage, verdicts <- Verdicts, failed <- Failed

\* The session implements the ledger: rounds open in order, one at a time, and
\* each gets one verdict, which nothing revises (_on_round_start,
\* _finalize_round, estimate_round_period_ps).
ImplementsLedger == Ledger!LedgerSpec

-----------------------------------------------------------------------------
(* Qubits. *)

\* A retrieval under way finds the qubit of its own round in the memory, until
\* it is done: no expiry, discard, load or other round's measurement takes it
\* away (TimedQuantumMemory, _try_measure, _finalize_round).
RetrievesItsOwnQubit ==
  \A e \in queue :
    e.kind = "retrieve" => mem[e.who].state = "retrieving" /\ mem[e.who].holds = e.round

\* No qubit is still in store after its maximum hold, nor taken out later than
\* one retrieval after it ("hard storage expiration").
HardExpiration ==
  /\ \A m \in Holders :
       mem[m].state = "stored" /\ config.hold[m] # None =>
         now <= mem[m].storedAt + config.hold[m]
  /\ \A r \in Rounds :
       round[r].dwell # None /\ config.hold["prover"] # None =>
         round[r].dwell <= config.hold["prover"] + config.retrieve["prover"]

\* Only the qubit that has been held for the maximum expires: an expiry left
\* over from an earlier qubit never takes a later one (_on_expire).
ExpiresOnlyWhenDue ==
  [][\A m \in Holders :
       mem[m].state # "expired" /\ mem'[m].state = "expired" =>
         now' = mem[m].storedAt + config.hold[m]]_vars

-----------------------------------------------------------------------------
(* Verdicts. *)

Unforged == \A v \in Verifiers : config.bias[v].answer = 0
Tolerance == IF config.secure THEN config.uncertainty ELSE 0

\* An accepted round really happened: the prover detected, stored and measured
\* the photon, v0 did not measure something else, and both answers arrived in
\* time, give or take the clock uncertainty when the policy compares clocks.
\* Dark counts, losses, forced reports and forged timestamps never get there.
AcceptedRoundsAreGenuine ==
  \A i \in DOMAIN results :
    results[i].accepted =>
      /\ results[i].outcome = "valid_detection" /\ results[i].valid /\ results[i].committed
      /\ results[i].bit["prover"] # None /\ results[i].match # FALSE
      /\ config.secure \/ Unforged =>
           \A v \in Verifiers : results[i].margins[v] >= -Tolerance

\* The two measurements of an accepted round were compared and agree
\* (BaselineRoundAcceptance: "require matching measurements").
AcceptedRoundsMatch ==
  \A i \in DOMAIN results : results[i].accepted => results[i].match = TRUE

\* No round is decided while a report is missing: a report sent late by a
\* verifier, or forced out by the round timeout, is heard before the final one.
ReportsAreHeard ==
  \A i \in DOMAIN results : <<"missing_verifier_report">> \notin results[i].reasons
=============================================================================
