---------------------------- MODULE QuantumPairs ----------------------------
(***************************************************************************)
(* The quantum operations of a session in both backends: density matrices  *)
(* in a store of states (quantum/operations.py, quantum/states.py), and in *)
(* SeQUeNCe's quantum manager (adapters/sequence/quantum_ops.py).          *)
(*                                                                         *)
(* A handle names a state, a qubit and the qubit's place in the state.     *)
(* The store goes by state and place; the adapter goes by qubit: it keeps  *)
(* a key for each, and the manager (external) keeps, for each key, the     *)
(* keys of the state it belongs to, in order, and that state.              *)
(*                                                                         *)
(* A density matrix is abstracted to its stabilizers, the products of      *)
(* Pauli letters with a sign that leave it unchanged: every state made     *)
(* here by pairing, preparing, measuring and depolarizing (as a random     *)
(* Pauli error) is one.  Amplitude damping is not modelled.                *)
(***************************************************************************)
EXTENDS Integers, Sequences, FiniteSets, Functions

VARIABLES
  store,    \* QuantumStateStore._states: state id -> stabilizers
  keyOf,    \* _keys_by_qubit_id
  manager   \* manager: key -> [keys, state]

backendVars == <<store, keyOf, manager>>

Letters == {"I", "X", "Y", "Z"}
Basis == {0, 1}   \* 0 is Z, 1 is X
Bits  == {0, 1}

Handle(state, qubit, index) == [state |-> state, qubit |-> qubit, index |-> index]

\* d[key] = v.
Put(d, key, v) == [k \in DOMAIN d \union {key} |-> IF k = key THEN v ELSE d[k]]

BackendsInit == store = <<>> /\ keyOf = <<>> /\ manager = <<>>

-----------------------------------------------------------------------------
(* States.  A stabilizer is [sign, letters], the letters by place from 0.    *)

Stab(sign, letters) == [sign |-> sign, letters |-> letters]
Two(a, b) == [k \in {0, 1} |-> IF k = 0 THEN a ELSE b]
One(a) == [k \in {0} |-> a]

\* PHI_PLUS.
BellPair == {Stab(1, Two("I", "I")), Stab(1, Two("X", "X")), Stab(-1, Two("Y", "Y")),
             Stab(1, Two("Z", "Z"))}

SignOf(bit) == IF bit = 0 THEN 1 ELSE -1

\* clone_single_from_bit and prepare_bb84.
Prepared(basis, bit) ==
  {Stab(1, One("I")), Stab(SignOf(bit), One(IF basis = 0 THEN "Z" ELSE "X"))}

\* Conjugation with H at place k: X and Z change places, Y changes its sign.
Hadamard(g, k) ==
  {[s EXCEPT !.letters[k] = CASE @ = "X" -> "Z" [] @ = "Z" -> "X" [] OTHER -> @,
             !.sign = IF s.letters[k] = "Y" THEN -@ ELSE @] : s \in g}

\* A Pauli error at place k turns the sign of what anticommutes with it.
Flipped(g, k, error) ==
  {[s EXCEPT !.sign = IF s.letters[k] \in {"I", error} \/ error = "I" THEN @ ELSE -@] :
     s \in g}

IsZAt(s, k) == s.letters[k] = "Z" /\ \A j \in DOMAIN s.letters \ {k} : s.letters[j] = "I"

\* The outcomes of non-zero probability of a measurement of Z at place k.
Outcomes(g, k) == {bit \in Bits : \A s \in g : IsZAt(s, k) => s.sign = SignOf(bit)}

\* The state after the projection: what commutes with Z at k, and its
\* products with the outcome.
Projected(g, k, bit) ==
  LET commuting == {s \in g : s.letters[k] \in {"I", "Z"}} IN
  commuting \union
    {[s EXCEPT !.letters[k] = IF @ = "I" THEN "Z" ELSE "I", !.sign = @ * SignOf(bit)] :
       s \in commuting}

\* measure_bb84 rotates for the X basis and does not rotate back.
Rotated(g, k, basis) == IF basis = 1 THEN Hadamard(g, k) ELSE g

-----------------------------------------------------------------------------
(* The portable backend. *)

StoreState(h) == store[h.state]

StoreOutcomes(h, basis) == Outcomes(Rotated(StoreState(h), h.index, basis), h.index)

StorePut(id, g) == store' = Put(store, id, g)

StoreMeasured(h, basis, bit) ==
  [store EXCEPT ![h.state] = Projected(Rotated(@, h.index, basis), h.index, bit)]

StoreError(h, error) == store' = [store EXCEPT ![h.state] = Flipped(@, h.index, error)]

-----------------------------------------------------------------------------
(* The SeQUeNCe backend. *)

\* Mutant: every key is taken for the first of its state.
PlaceFirst(h) == 0

\* keys.index(key), counted from 0.
Place(h) ==
  LET key == keyOf[h.qubit] IN
  (CHOOSE i \in DOMAIN manager[key].keys : manager[key].keys[i] = key) - 1

AdapterState(h) == manager[keyOf[h.qubit]].state

AdapterOutcomes(h, basis) == Outcomes(Rotated(AdapterState(h), Place(h), basis), Place(h))

\* manager.new gives the next key; manager.set puts the state under each key.
NewKey == Cardinality(DOMAIN manager)

ManagerSet(keys, g) ==
  [k \in DOMAIN manager \union Range(keys) |->
     IF k \in Range(keys) THEN [keys |-> keys, state |-> g] ELSE manager[k]]

AdapterMeasured(h, basis, bit) ==
  ManagerSet(manager[keyOf[h.qubit]].keys,
             Projected(Rotated(AdapterState(h), Place(h), basis), Place(h), bit))

AdapterError(h, error) ==
  /\ manager' = ManagerSet(manager[keyOf[h.qubit]].keys,
                           Flipped(AdapterState(h), Place(h), error))
  /\ UNCHANGED keyOf

-----------------------------------------------------------------------------
(* The port: both backends get the same calls. *)

\* Mutant: both halves get the same key.
CreatePairUnderOneKey(id, first, second, error) ==
  LET g == Flipped(BellPair, 1, error) IN
  /\ StorePut(id, g)
  /\ manager' = ManagerSet(<<NewKey, NewKey + 1>>, g)
  /\ keyOf' = Put(Put(keyOf, first, NewKey), second, NewKey)

\* create_epr_pair; a source of less than full fidelity adds an error to one
\* half (the Werner state is that mixture).
CreatePair(id, first, second, error) ==
  LET g == Flipped(BellPair, 1, error) IN
  /\ StorePut(id, g)
  /\ manager' = ManagerSet(<<NewKey, NewKey + 1>>, g)
  /\ keyOf' = Put(Put(keyOf, first, NewKey), second, NewKey + 1)

\* The generator draws the same number for both.
Measure(h, basis, bit) ==
  /\ bit \in StoreOutcomes(h, basis)
  /\ store' = StoreMeasured(h, basis, bit)
  /\ manager' = AdapterMeasured(h, basis, bit)
  /\ UNCHANGED keyOf

\* A measurement, then prepare_bb84 of qubit new with bit in basis prepared,
\* from a source that adds an error of its own.
MeasureAndPrepare(h, basis, bit, new, prepared, error) ==
  LET g == Flipped(Prepared(prepared, bit), 0, error) IN
  /\ bit \in StoreOutcomes(h, basis)
  /\ store' = Put(StoreMeasured(h, basis, bit), new.state, g)
  /\ manager' = Put(AdapterMeasured(h, basis, bit), NewKey, [keys |-> <<NewKey>>, state |-> g])
  /\ keyOf' = Put(keyOf, new.qubit, NewKey)

\* apply_kraus with the depolarizing operators.
Disturb(h, error) == StoreError(h, error) /\ AdapterError(h, error)
=============================================================================
