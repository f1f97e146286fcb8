--------------------------- MODULE MCAttackedRound ---------------------------
(***************************************************************************)
(* Every list of at most two attacks from a pool with two jammers of       *)
(* messages, whose windows and filters overlap in part, two of photons, a  *)
(* hidden and an open skew, three poisonings of one memory (too much, text *)
(* instead of a number, harmless), two forgeries and two interceptors; and *)
(* four further lists.                                                     *)
(***************************************************************************)
EXTENDS AttackedRound

CONSTANT Text  \* what telemetry may report instead of a number

Jam(id, links, types, until, drop, delay, quantum) ==
  [kind |-> "jam", id |-> id, links |-> links, types |-> types, from |-> 1,
   until |-> until, drop |-> drop, delay |-> delay, quantum |-> quantum]
Skew(id, x, y, seen) ==
  [kind |-> "skew", id |-> id, x |-> x, y |-> y, challenge |-> 0, seen |-> seen]
Poison(id, t2) ==
  [kind |-> "poison", id |-> id, device |-> "prover.memory", fields |-> [t2_ps |-> t2]]
Forgery(id, node) ==
  [kind |-> "forge", id |-> id, node |-> node, bias |-> -2, fields |-> {"answer_arrival"}]
Interception(id, bases) ==
  [kind |-> "intercept", id |-> id, bases |-> bases, toHim |-> 1, process |-> 1,
   prepare |-> 1, toProver |-> 1]

JamX     == Jam("jam-x", {"v0-prover"}, {}, None, {TRUE}, 1, FALSE)
JamEarly == Jam("jam-early", {}, {"basis_x", "answer"}, 5, BOOLEAN, 2, TRUE)
JamAll   == Jam("jam-all", {}, {}, None, {FALSE}, 3, TRUE)
JamLight == Jam("jam-light", {"quantum"}, {}, None, BOOLEAN, 1, TRUE)
CutLight == Jam("cut-light", {"quantum"}, {}, None, {TRUE}, 0, TRUE)
Pool ==
  {JamX, JamEarly, JamAll, JamLight,
   Skew("hidden", 0, 3, FALSE), Skew("open", -1, 1, TRUE),
   Poison("too-long", 9), Poison("text", Text), Poison("fair", 4),
   Forgery("forge-v0", "v0"), Forgery("forge-v1", "v1"),
   Interception("both", Basis), Interception("z-only", {0})}

MCAttackLists ==
  {<<>>} \union {<<a>> : a \in Pool} \union {<<a, b>> : a, b \in Pool}
    \union {<<Skew("open", -1, 1, TRUE), Skew("open", 0, 2, TRUE), Skew("hidden", 0, 3, FALSE)>>,
            <<JamX, JamLight, JamAll>>, <<CutLight, JamAll>>,
            <<JamLight, Interception("both", Basis), Forgery("forge-v0", "v0")>>}

MCPlan == [challenge |-> 3, x |-> 5, y |-> 5, expectedOriginal |-> TRUE, ids |-> <<>>]
MCNodes == {"controller", "v0", "v1", "prover"}
MCWorkload == [participants |-> MCNodes, arrival |-> 0, deadline |-> 20]
MCT2 == "v0.memory" :> 3 @@ "prover.memory" :> 3
MCBounds == [delta |-> 4, skew |-> 2]
MCTravel == [basis_x |-> 2, basis_y |-> 2, photon |-> 2, answer |-> 2]
MCErrors == {"I", "Z"}
MCLinkErrors == {"I", "X"}
=============================================================================
