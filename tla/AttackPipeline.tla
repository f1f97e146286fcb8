--------------------------- MODULE AttackPipeline ---------------------------
(***************************************************************************)
(* The attacks (attacks/) and the pipeline that applies them in the order  *)
(* of the configuration (attacks/pipeline.py), with the resources they see *)
(* (experiments/runner.py, cloudsim/) and the policies that may notice     *)
(* them (policies/).                                                       *)
(*                                                                         *)
(* An attack is a record: kind and id, and by kind                         *)
(*   "jam"        links, types, from, until, drop, delay, quantum; drop is *)
(*                the set of draws its probability allows, of BOOLEAN      *)
(*   "skew"       x, y, challenge, seen (modify_controller_view)           *)
(*   "poison"     device, fields: what it makes the device report          *)
(*   "forge"      node, bias, fields                                       *)
(*   "intercept"  bases, toHim, process, prepare, toProver                 *)
(* Every other hook of a kind is IdentityAttack's and changes nothing.     *)
(***************************************************************************)
EXTENDS Integers, Sequences, FiniteSets, SequencesExt

CONSTANT None

\* The places of the attacks of a kind.
OfKind(attacks, kind) == {i \in DOMAIN attacks : attacks[i].kind = kind}

\* f over g: the fields of both, f's values first.
Merged(f, g) == [x \in DOMAIN f \union DOMAIN g |-> IF x \in DOMAIN f THEN f[x] ELSE g[x]]

-----------------------------------------------------------------------------
(* Resources. *)

\* _resource_snapshot, reduced to the memories' T2; a device reports what is
\* true of it until somebody changes the report.
Snapshot(nodes, t2) ==
  [nodes |-> nodes,
   devices |-> [d \in DOMAIN t2 |->
                  [physical |-> [t2_ps |-> t2[d]], reported |-> [t2_ps |-> t2[d]],
                   ids |-> <<>>]]]

\* Mutant: the device itself is changed.
PoisonDevice(a, s) ==
  IF a.kind = "poison" /\ a.device \in DOMAIN s.devices
  THEN [s EXCEPT !.devices[a.device].reported = Merged(a.fields, @),
                 !.devices[a.device].physical = Merged(a.fields, @)]
  ELSE s

AlterInventory(a, s) ==
  IF a.kind = "poison" /\ a.device \in DOMAIN s.devices
  THEN [s EXCEPT !.devices[a.device].reported = Merged(a.fields, @),
                 !.devices[a.device].ids = Append(@, a.id)]
  ELSE s

AttackedInventory(attacks, s) == FoldLeft(LAMBDA t, a : AlterInventory(a, t), s, attacks)

\* StaticQpvScheduler.schedule; a deadline of 0 counts as none.
StaticSchedule(workload, s, now) ==
  IF workload.participants \subseteq s.nodes
  THEN [accepted |-> TRUE, nodes |-> workload.participants, devices |-> DOMAIN s.devices,
        start |-> IF workload.arrival > now THEN workload.arrival ELSE now,
        end |-> IF workload.deadline = 0 THEN None ELSE workload.deadline]
  ELSE [accepted |-> FALSE]

\* SecurityTelemetryPolicy.validate: reports that are not integers, the age
\* of the calibration and the holding time are not looked at.
TelemetryReasons(s, maximumT2) ==
  LET integer == {d \in DOMAIN s.devices : s.devices[d].reported.t2_ps \in Int} IN
  {<<"reported_t2_out_of_bounds", d>> :
     d \in {e \in integer : maximumT2 # None /\ s.devices[e].reported.t2_ps > maximumT2}}
  \union
  {<<"reported_t2_profile_mismatch", d>> :
     d \in {e \in integer : /\ s.devices[e].physical.t2_ps \in Int
                            /\ s.devices[e].reported.t2_ps > 2 * s.devices[e].physical.t2_ps}}

-----------------------------------------------------------------------------
(* Plans. *)

\* ScheduleSkewAttack: each skew sets anew whether the controller goes by the
\* original plan.
AlterPlan(a, plan) ==
  IF a.kind = "skew"
  THEN [plan EXCEPT !.challenge = @ + a.challenge, !.x = @ + a.x, !.y = @ + a.y,
                    !.ids = Append(@, a.id), !.expectedOriginal = ~a.seen]
  ELSE plan

AttackedPlan(attacks, plan) == FoldLeft(LAMBDA p, a : AlterPlan(a, p), plan, attacks)

\* Mutant: the controller is always given its own plan.
ControllerViewOriginal(original, physical) == original

\* The plan _on_round_start has the policy look at.
ControllerView(original, physical) ==
  IF physical.expectedOriginal THEN original ELSE physical

\* SchedulePolicy.validate; bounds is [delta, skew], the least delta is 0.
ScheduleReasons(plan, bounds) ==
  {reason \in {"x_delta_out_of_bounds", "y_delta_out_of_bounds", "basis_skew_out_of_bounds"} :
     \/ reason = "x_delta_out_of_bounds" /\ plan.x - plan.challenge \notin 0 .. bounds.delta
     \/ reason = "y_delta_out_of_bounds" /\ plan.y - plan.challenge \notin 0 .. bounds.delta
     \/ /\ reason = "basis_skew_out_of_bounds"
        /\ plan.x - plan.y \notin -bounds.skew .. bounds.skew}

-----------------------------------------------------------------------------
(* Transmissions: [link, type, sentAt, travel, added, dropped, ids]. *)

ArrivesAt(tx) == tx.sentAt + tx.travel + tx.added

\* SelectiveJammingAttack._active; an empty filter lets everything pass.
Active(a, link, type, t) ==
  /\ a.links = {} \/ link \in a.links
  /\ a.types = {} \/ type \in a.types
  /\ t >= a.from /\ (a.until = None \/ t <= a.until)

Jams(a, tx) == a.kind = "jam" /\ Active(a, tx.link, tx.type, tx.sentAt)

\* Message types are never given for a photon: a jammer with a filter for
\* them leaves photons alone.
JamsPhoton(a, tx) == a.kind = "jam" /\ a.quantum /\ Active(a, tx.link, None, tx.sentAt)

\* The draws the random numbers may give to each attack of the list.
Draws(attacks) ==
  {draw \in [DOMAIN attacks -> BOOLEAN] :
     \A i \in DOMAIN attacks :
       draw[i] \in IF attacks[i].kind = "jam" THEN attacks[i].drop ELSE {FALSE}}

\* Mutant: a loss is kept, but the delay is the last one's.
JammedByTheLast(a, tx, draw) ==
  [tx EXCEPT !.dropped = draw, !.added = a.delay, !.ids = Append(@, a.id)]

Jammed(a, tx, draw) ==
  [tx EXCEPT !.dropped = draw, !.added = @ + a.delay, !.ids = Append(@, a.id)]

\* alter_classical: every active jammer decides the loss anew.
AttackedMessage(attacks, tx, draw) ==
  FoldLeftDomain(LAMBDA t, i : IF Jams(attacks[i], t) THEN Jammed(attacks[i], t, draw[i]) ELSE t,
                 tx, attacks)

\* Mutant: the loop goes on after a loss.
QuantumSendOn(attacks, tx, draw) ==
  FoldLeftDomain(LAMBDA t, i : IF JamsPhoton(attacks[i], t)
                               THEN Jammed(attacks[i], t, draw[i]) ELSE t,
                 tx, attacks)

\* decide_quantum_send: the first loss ends the loop.
QuantumSend(attacks, tx, draw) ==
  FoldLeftDomain(LAMBDA t, i : IF ~t.dropped /\ JamsPhoton(attacks[i], t)
                               THEN Jammed(attacks[i], t, draw[i]) ELSE t,
                 tx, attacks)

-----------------------------------------------------------------------------
(* Reports: [verifier, physical, local, reported, ids], each of the three    *)
(* times a record of the fields of an attack, None where nothing arrived.    *)

\* Mutant: the verifier's own record is changed with the report.
ForgeEverywhere(a, r) ==
  IF a.kind = "forge" /\ a.node = r.verifier
  THEN [r EXCEPT !.ids = Append(@, a.id),
                 !.local = [f \in DOMAIN @ |->
                   IF f \in a.fields /\ @[f] # None THEN @[f] + a.bias ELSE @[f]]]
  ELSE r

Forge(a, r) ==
  IF a.kind = "forge" /\ a.node = r.verifier
  THEN [r EXCEPT !.ids = Append(@, a.id),
                 !.reported = [f \in DOMAIN @ |->
                   IF f \in a.fields /\ @[f] # None THEN @[f] + a.bias ELSE @[f]]]
  ELSE r

AttackedReport(attacks, r) == FoldLeft(LAMBDA q, a : Forge(a, q), r, attacks)
=============================================================================
