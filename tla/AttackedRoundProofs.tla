------------------------- MODULE AttackedRoundProofs -------------------------
(***************************************************************************)
(* One round under attack: what the two backends and the two measurements  *)
(* have to do with each other, and what any list of attacks, of any        *)
(* length, makes of messages, photons, plans, telemetry and reports.       *)
(***************************************************************************)
EXTENDS AttackedRound, TLAPS, FiniteSetTheorems, SequenceTheorems, WellFoundedInduction

-----------------------------------------------------------------------------
(* Induction.  The theorem on well-founded relations that has a set for a  *)
(* parameter, and no operator, gives the least number of a set of numbers. *)

LessOnNat == {ss \in Nat \X Nat : ss[1] < ss[2]}

LEMMA LeastNumber ==
  ASSUME NEW T, T \subseteq Nat, T # {}
  PROVE  \E m \in T : \A k \in T : m <= k
<1>1. IsWellFoundedOn(LessOnNat, Nat)
  BY NatLessThanWellFounded DEF LessOnNat, OpToRel
<1>2. \E m \in T : \A k \in T : ~ (<<k, m>> \in LessOnNat)
  BY ONLY <1>1, WFMin, T \subseteq Nat, T # {}
<1>3. PICK m \in T : \A k \in T : ~ (<<k, m>> \in LessOnNat)
  BY <1>2
<1>4. ASSUME NEW k \in T PROVE m <= k
  <2>1. <<k, m>> \in LessOnNat \/ ~ (k < m)
    BY DEF LessOnNat
  <2>2. QED
    BY <1>3, <2>1
<1>5. QED
  BY <1>4

\* Induction up to n, over the set P of the numbers of which something holds.
LEMMA InductionTo ==
  ASSUME NEW n \in Nat, NEW P, 0 \in P,
         \A i \in 0 .. n : i \in P /\ i < n => i + 1 \in P
  PROVE  \A i \in 0 .. n : i \in P
<1>1. SUFFICES ASSUME (0 .. n) \ P # {} PROVE FALSE
  OBVIOUS
<1>2. (0 .. n) \ P \subseteq Nat
  OBVIOUS
<1>3. PICK m \in (0 .. n) \ P : \A k \in (0 .. n) \ P : m <= k
  BY <1>1, <1>2, LeastNumber
<1>4. m # 0 /\ m - 1 \in 0 .. n /\ m - 1 < m /\ m - 1 < n
  OBVIOUS
<1>5. m - 1 \in P
  BY <1>3, <1>4
<1>6. (m - 1) + 1 \in P
  BY <1>4, <1>5
<1>7. QED
  BY <1>6

-----------------------------------------------------------------------------
(* Folds.  FoldLeft goes through the subsets of the domain, the greatest   *)
(* element last; that such a function exists is not free.                  *)

LEMMA MaxOfInterval ==
  ASSUME NEW n \in Nat, n > 0
  PROVE  Max(1 .. n) = n
BY DEF Max

LEMMA MaxWithNew ==
  ASSUME NEW n \in Nat, NEW s, s \subseteq 1 .. n + 1, n + 1 \in s
  PROVE  Max(s) = n + 1
<1>1. \A y \in s : n + 1 >= y
  OBVIOUS
<1>2. \A x \in s : (\A y \in s : x >= y) => x = n + 1
  BY <1>1
<1>3. QED
  BY <1>1, <1>2 DEF Max

\* What iter in MapThenFoldSet is to be, for steps of a function on a set S.
Iterates(iter, n, S, base, step) ==
  /\ iter \in [SUBSET (1 .. n) -> S]
  /\ \A s \in SUBSET (1 .. n) :
       iter[s] = IF s = {} THEN base ELSE step[<<Max(s), iter[s \ {Max(s)}]>>]

LEMMA MaxIsThere ==
  ASSUME NEW n \in Nat, NEW s, s \subseteq 1 .. n, s # {}
  PROVE  Max(s) \in s /\ \A y \in s : Max(s) >= y
<1> DEFINE over == {n - y : y \in s}
<1>1. over \subseteq Nat /\ over # {}
  <2>1. \A y \in s : n - y \in Nat
    OBVIOUS
  <2>2. PICK y \in s : TRUE
    OBVIOUS
  <2>3. n - y \in over
    OBVIOUS
  <2>4. QED
    BY <2>1, <2>3
<1>2. PICK m \in over : \A k \in over : m <= k
  BY <1>1, LeastNumber
<1>3. PICK x \in s : m = n - x
  BY <1>2
<1>4. \A y \in s : x >= y
  <2>1. TAKE y \in s
  <2>2. n - x <= n - y
    BY <1>2, <1>3
  <2>3. QED
    BY <2>2
<1>5. QED
  BY <1>4 DEF Max

LEMMA IteratesOneMore ==
  ASSUME NEW n \in Nat, NEW S, NEW base \in S, NEW step, NEW short,
         \A i \in 1 .. n + 1, v \in S : step[<<i, v>>] \in S, Iterates(short, n, S, base, step)
  PROVE  \E iter : Iterates(iter, n + 1, S, base, step)
<1> DEFINE iter == [s \in SUBSET (1 .. n + 1) |->
                      IF n + 1 \in s THEN step[<<n + 1, short[s \ {n + 1}]>>] ELSE short[s]]
<1>1. \A s \in SUBSET (1 .. n + 1) : s \ {n + 1} \in SUBSET (1 .. n)
  OBVIOUS
<1>2. \A s \in SUBSET (1 .. n + 1) : n + 1 \notin s => s \in SUBSET (1 .. n)
  OBVIOUS
<1>3. \A s \in SUBSET (1 .. n) : s \in SUBSET (1 .. n + 1) /\ n + 1 \notin s
  OBVIOUS
<1>4. short \in [SUBSET (1 .. n) -> S]
  BY DEF Iterates
<1>5. iter \in [SUBSET (1 .. n + 1) -> S]
  <2>1. ASSUME NEW s \in SUBSET (1 .. n + 1) PROVE iter[s] \in S
    <3>1. CASE n + 1 \in s
      <4>1. short[s \ {n + 1}] \in S
        BY <1>1, <1>4
      <4>2. step[<<n + 1, short[s \ {n + 1}]>>] \in S
        BY <4>1
      <4>3. QED
        BY <3>1, <4>2
    <3>2. CASE n + 1 \notin s
      BY <1>2, <1>4, <3>2
    <3>3. QED
      BY <3>1, <3>2
  <2>2. QED
    BY <2>1
<1>6. \A s \in SUBSET (1 .. n) : iter[s] = short[s]
  BY <1>3
<1>7. ASSUME NEW s \in SUBSET (1 .. n + 1)
      PROVE  iter[s] = IF s = {} THEN base ELSE step[<<Max(s), iter[s \ {Max(s)}]>>]
  <2>1. CASE n + 1 \in s
    <3>1. Max(s) = n + 1
      BY <2>1, MaxWithNew
    <3>2. iter[s \ {n + 1}] = short[s \ {n + 1}]
      BY <1>1, <1>6
    <3>3. iter[s] = step[<<n + 1, short[s \ {n + 1}]>>]
      BY <2>1
    <3> HIDE DEF iter
    <3>4. QED
      BY <2>1, <3>1, <3>2, <3>3
  <2>2. CASE n + 1 \notin s /\ s # {}
    <3>1. s \in SUBSET (1 .. n)
      BY <1>2, <2>2
    <3>2. iter[s] = short[s] /\ iter[s \ {Max(s)}] = short[s \ {Max(s)}]
      BY <1>6, <3>1
    <3> HIDE DEF iter
    <3>3. QED
      BY <2>2, <3>1, <3>2 DEF Iterates
  <2>3. CASE s = {}
    <3>1. {} \in SUBSET (1 .. n) /\ short[{}] = base
      BY DEF Iterates
    <3>2. iter[{}] = base
      BY <1>6, <3>1
    <3> HIDE DEF iter
    <3>3. QED
      BY <2>3, <3>2
  <2>4. QED
    BY <2>1, <2>2, <2>3
<1>8. Iterates(iter, n + 1, S, base, step)
  <2> HIDE DEF iter
  <2>1. QED
    BY <1>5, <1>7 DEF Iterates
<1>9. QED
  BY <1>8

LEMMA IteratesExists ==
  ASSUME NEW n \in Nat, NEW S, NEW base \in S, NEW step,
         \A i \in 1 .. n, v \in S : step[<<i, v>>] \in S
  PROVE  \E iter : Iterates(iter, n, S, base, step)
<1> DEFINE P == {i \in 0 .. n : \E iter : Iterates(iter, i, S, base, step)}
<1>1. 0 \in P
  <2>1. SUBSET (1 .. 0) = {{}}
    OBVIOUS
  <2>2. [s \in {{}} |-> base] \in [{{}} -> S]
    OBVIOUS
  <2>3. Iterates([s \in {{}} |-> base], 0, S, base, step)
    BY <2>1, <2>2 DEF Iterates
  <2>4. QED
    BY <2>3
<1>2. ASSUME NEW i \in 0 .. n, i \in P, i < n PROVE i + 1 \in P
  <2>1. PICK short : Iterates(short, i, S, base, step)
    BY <1>2
  <2>2. i \in Nat /\ \A j \in 1 .. i + 1, v \in S : step[<<j, v>>] \in S
    BY <1>2
  <2>3. PICK iter : Iterates(iter, i + 1, S, base, step)
    BY <2>1, <2>2, IteratesOneMore
  <2>4. QED
    BY <1>2, <2>3
<1> HIDE DEF P
<1>3. n \in P
  BY <1>1, <1>2, InductionTo
<1>4. QED
  BY <1>3 DEF P

\* The same, as the folds of the attacks need it.
IsFold(iter, n, S, base, step) ==
  /\ iter \in [SUBSET (1 .. n) -> S] /\ iter[{}] = base
  /\ \A s \in SUBSET (1 .. n) : s # {} =>
       /\ Max(s) \in 1 .. n /\ iter[s \ {Max(s)}] \in S
       /\ iter[s] = step[<<Max(s), iter[s \ {Max(s)}]>>]

LEMMA FoldExists ==
  ASSUME NEW n \in Nat, NEW S, NEW base \in S, NEW step,
         \A i \in 1 .. n, v \in S : step[<<i, v>>] \in S
  PROVE  \E iter : IsFold(iter, n, S, base, step)
<1>1. PICK iter : Iterates(iter, n, S, base, step)
  BY IteratesExists
<1>2. iter \in [SUBSET (1 .. n) -> S] /\ iter[{}] = base
  BY <1>1 DEF Iterates
<1>3. ASSUME NEW s \in SUBSET (1 .. n), s # {}
      PROVE  /\ Max(s) \in 1 .. n /\ iter[s \ {Max(s)}] \in S
             /\ iter[s] = step[<<Max(s), iter[s \ {Max(s)}]>>]
  <2>1. Max(s) \in s
    BY <1>3, MaxIsThere
  <2>2. s \ {Max(s)} \in SUBSET (1 .. n)
    OBVIOUS
  <2>3. QED
    BY <1>1, <1>2, <1>3, <2>1, <2>2 DEF Iterates
<1>4. QED
  BY <1>2, <1>3 DEF IsFold

LEMMA Initial ==
  ASSUME NEW n \in Nat, NEW i \in 1 .. n
  PROVE  /\ 1 .. i \in (SUBSET (1 .. n)) \ {{}} /\ Max(1 .. i) = i
         /\ (1 .. i) \ {i} = 1 .. i - 1 /\ i - 1 \in 0 .. n
<1>1. 1 \in 1 .. i
  OBVIOUS
<1>2. (1 .. i) \ {i} = 1 .. i - 1
  OBVIOUS
<1>3. Max(1 .. i) = i
  BY MaxOfInterval
<1>4. QED
  BY <1>1, <1>2, <1>3

\* A function that goes through the subsets as a fold does, as long as it
\* stays in S.
GoesOn(it, n, S, base, step) ==
  /\ it[{}] = base
  /\ \A s \in SUBSET (1 .. n) : s # {} /\ it[s \ {Max(s)}] \in S =>
       it[s] = step[<<Max(s), it[s \ {Max(s)}]>>]

\* The values between one step and the next, from the base to the end.
Steps(h, n, S, base, step, end) ==
  /\ h[0] = base /\ h[n] = end /\ \A i \in 0 .. n : h[i] \in S
  /\ \A i \in 1 .. n : h[i] = step[<<i, h[i - 1]>>]

LEMMA StepsExist ==
  ASSUME NEW n \in Nat, NEW S, NEW base \in S, NEW step, NEW it,
         \A i \in 1 .. n, v \in S : step[<<i, v>>] \in S,
         GoesOn(it, n, S, base, step)
  PROVE  \E h : Steps(h, n, S, base, step, it[1 .. n])
<1> DEFINE h == [i \in 0 .. n |-> it[1 .. i]]
           P == {i \in 0 .. n : h[i] \in S}
<1>1. h[0] = base
  <2>1. 1 .. 0 = {} /\ 0 \in 0 .. n
    OBVIOUS
  <2>2. h[0] = it[1 .. 0]
    BY <2>1
  <2>3. QED
    BY <2>1, <2>2 DEF GoesOn
<1>2. ASSUME NEW i \in 1 .. n, h[i - 1] \in S PROVE h[i] = step[<<i, h[i - 1]>>]
  <2>1. /\ 1 .. i \in SUBSET (1 .. n) /\ 1 .. i # {} /\ Max(1 .. i) = i
        /\ (1 .. i) \ {i} = 1 .. i - 1 /\ i - 1 \in 0 .. n
    BY Initial
  <2>2. h[i - 1] = it[1 .. i - 1] /\ h[i] = it[1 .. i]
    <3>1. i \in 0 .. n
      OBVIOUS
    <3>2. QED
      BY <2>1, <3>1
  <2>3. it[1 .. i - 1] \in S
    BY <1>2, <2>2
  <2> HIDE DEF h
  <2>4. it[1 .. i] = step[<<i, it[1 .. i - 1]>>]
    BY <2>1, <2>3 DEF GoesOn
  <2>5. QED
    BY <2>2, <2>4
<1>3. h[n] = it[1 .. n]
  <2>1. n \in 0 .. n
    OBVIOUS
  <2>2. QED
    BY <2>1
<1> HIDE DEF h
<1>4. 0 \in P
  BY <1>1
<1>5. ASSUME NEW i \in 0 .. n, i \in P, i < n PROVE i + 1 \in P
  <2>1. i + 1 \in 1 .. n /\ i + 1 \in 0 .. n /\ (i + 1) - 1 = i
    BY <1>5
  <2>2. h[i] \in S
    BY <1>5
  <2>3. h[i + 1] = step[<<i + 1, h[i]>>]
    BY <1>2, <2>1, <2>2
  <2>4. QED
    BY <2>1, <2>2, <2>3
<1>6. \A i \in 0 .. n : h[i] \in S
  <2> HIDE DEF P
  <2>1. \A i \in 0 .. n : i \in P
    BY <1>4, <1>5, InductionTo
  <2>2. QED
    BY <2>1 DEF P
<1>7. ASSUME NEW i \in 1 .. n PROVE h[i] = step[<<i, h[i - 1]>>]
  <2>1. i - 1 \in 0 .. n
    OBVIOUS
  <2>2. QED
    BY <1>2, <1>6, <2>1
<1>8. QED
  BY <1>1, <1>3, <1>6, <1>7 DEF Steps

\* The partial sums of the numbers c.
Sums(h, n, c) == h[0] = 0 /\ \A i \in 1 .. n : h[i] = h[i - 1] + c[i]

LEMMA TotalSteps ==
  ASSUME NEW n \in Nat, NEW c \in [1 .. n -> Int]
  PROVE  \E h : Sums(h, n, c) /\ h[n] = Total(c)
<1> DEFINE step == [p \in (1 .. n) \X Int |-> p[2] + c[p[1]]]
           Is(it) == it = [s \in SUBSET (1 .. n) |->
                             IF s = {} THEN 0 ELSE it[s \ {Max(s)}] + c[Max(s)]]
<1>1. \A i \in 1 .. n, v \in Int : step[<<i, v>>] = v + c[i] /\ step[<<i, v>>] \in Int
  OBVIOUS
<1> HIDE DEF step
<1>2. PICK some : IsFold(some, n, Int, 0, step)
  <2>1. 0 \in Int /\ \A i \in 1 .. n, v \in Int : step[<<i, v>>] \in Int
    BY <1>1
  <2>2. QED
    BY <2>1, FoldExists, Zenon
<1>3. Is(some)
  BY <1>1, <1>2 DEF IsFold
<1>4. DOMAIN c = 1 .. n
  OBVIOUS
<1>5. Total(c) = (CHOOSE it : Is(it))[1 .. n]
  BY <1>4 DEF Total, FoldLeft, MapThenFoldSet
<1>6. PICK it : Is(it) /\ Total(c) = it[1 .. n]
  BY <1>3, <1>5
<1> DEFINE h == [i \in 0 .. n |-> it[1 .. i]]
<1>7. 1 .. 0 = {}
  OBVIOUS
<1>8. h[0] = 0
  BY <1>6, <1>7
<1>9. ASSUME NEW i \in 1 .. n PROVE h[i] = h[i - 1] + c[i]
  <2>1. /\ 1 .. i \in SUBSET (1 .. n) /\ 1 .. i # {} /\ Max(1 .. i) = i
        /\ (1 .. i) \ {i} = 1 .. i - 1
    BY Initial
  <2>2. it[1 .. i] = it[1 .. i - 1] + c[i]
    BY <1>6, <2>1
  <2>3. i \in 0 .. n /\ i - 1 \in 0 .. n
    OBVIOUS
  <2>4. QED
    BY <2>2, <2>3
<1>10. h[n] = Total(c)
  <2>1. n \in 0 .. n
    OBVIOUS
  <2>2. QED
    BY <1>6, <2>1
<1> HIDE DEF h
<1>11. QED
  BY <1>8, <1>9, <1>10 DEF Sums

-----------------------------------------------------------------------------
(* What each attack in turn makes of a message and of a photon. *)

\* A list of n attacks.
IsList(as, n) == n \in Nat /\ DOMAIN as = 1 .. n /\ \A i \in 1 .. n : IsAttack(as[i])

LEMMA AttackListsAreLists ==
  ASSUME NEW as \in AttackLists
  PROVE  IsList(as, Len(as))
<1>1. as \in Seq(Range(as)) /\ \A i \in DOMAIN as : IsAttack(as[i])
  BY RoundAssumption
<1>2. Len(as) \in Nat /\ DOMAIN as = 1 .. Len(as)
  BY <1>1, LenProperties
<1>3. QED
  BY <1>1, <1>2 DEF IsList

\* What the jammers can make of a transmission: all but its delay, its loss
\* and its list of ids stay.
JammedFrom(as, tx) ==
  [link : {tx.link}, type : {tx.type}, sentAt : {tx.sentAt}, travel : {tx.travel},
   added : Nat, dropped : BOOLEAN, ids : Seq({as[i].id : i \in DOMAIN as})]

\* One more jammer, or none.
JamStep(as, draw, i, t) == IF Jams(as[i], t) THEN Jammed(as[i], t, draw[i]) ELSE t
JamPhotonStep(as, draw, i, t) ==
  IF ~t.dropped /\ JamsPhoton(as[i], t) THEN Jammed(as[i], t, draw[i]) ELSE t

LEMMA DrawsAreBooleans ==
  ASSUME NEW as, NEW draw \in Draws(as), NEW i \in DOMAIN as
  PROVE  draw[i] \in BOOLEAN /\ (as[i].kind = "jam" => draw[i] \in as[i].drop)
BY DEF Draws

LEMMA JammedTypes ==
  ASSUME NEW as, NEW n \in Nat, IsList(as, n), NEW draw \in Draws(as), NEW i \in DOMAIN as, NEW tx,
         NEW t \in JammedFrom(as, tx), as[i].kind = "jam"
  PROVE  /\ Jammed(as[i], t, draw[i]) \in JammedFrom(as, tx)
         /\ Jammed(as[i], t, draw[i]).dropped = draw[i]
         /\ Jammed(as[i], t, draw[i]).added = t.added + as[i].delay
         /\ Jammed(as[i], t, draw[i]).ids = Append(t.ids, as[i].id)
<1>1. as[i].delay \in Nat
  BY DEF IsList, IsAttack
<1>2. t.ids \in Seq({as[j].id : j \in DOMAIN as}) /\ t.added \in Nat
  BY DEF JammedFrom
<1>3. Append(t.ids, as[i].id) \in Seq({as[j].id : j \in DOMAIN as})
  <2>1. as[i].id \in {as[j].id : j \in DOMAIN as}
    OBVIOUS
  <2>2. QED
    BY <1>2, <2>1, AppendProperties
<1>4. t.added + as[i].delay \in Nat
  <2>1. \A a \in Nat, b \in Nat : a + b \in Nat
    OBVIOUS
  <2>2. QED
    BY <1>1, <1>2, <2>1, Zenon
<1>5. draw[i] \in BOOLEAN
  BY DrawsAreBooleans
<1>6. QED
  BY <1>3, <1>4, <1>5 DEF JammedFrom, Jammed

LEMMA JamStepTypes ==
  ASSUME NEW as, NEW n \in Nat, IsList(as, n), NEW draw \in Draws(as), NEW i \in DOMAIN as, NEW tx,
         NEW t \in JammedFrom(as, tx)
  PROVE  /\ JamStep(as, draw, i, t) \in JammedFrom(as, tx)
         /\ JamPhotonStep(as, draw, i, t) \in JammedFrom(as, tx)
BY JammedTypes DEF JamStep, JamPhotonStep, Jams, JamsPhoton

\* The transmissions h between one attack and the next.
MessageAt(h, as, n, tx, draw) ==
  /\ h[0] = tx /\ h[n] = AttackedMessage(as, tx, draw)
  /\ \A i \in 0 .. n : h[i] \in JammedFrom(as, tx)
  /\ \A i \in 1 .. n : h[i] = JamStep(as, draw, i, h[i - 1])

LEMMA MessageSteps ==
  ASSUME NEW as, NEW n \in Nat, IsList(as, n), NEW draw \in Draws(as), NEW tx, tx \in JammedFrom(as, tx)
  PROVE  \E h : MessageAt(h, as, n, tx, draw)
<1> DEFINE S == JammedFrom(as, tx)
           places == [i \in DOMAIN as |-> i]
           step == [p \in (1 .. n) \X S |-> JamStep(as, draw, p[1], p[2])]
           Is(it) == it = [s \in SUBSET (DOMAIN places) |->
                             IF s = {} THEN tx
                             ELSE JamStep(as, draw, places[Max(s)], it[s \ {Max(s)}])]
<1>1. n \in Nat /\ DOMAIN as = 1 .. n /\ DOMAIN places = 1 .. n
  BY DEF IsList
<1>2. \A i \in 1 .. n : places[i] = i
  BY <1>1
<1>3. \A i \in 1 .. n, v \in S : step[<<i, v>>] = JamStep(as, draw, i, v) /\ step[<<i, v>>] \in S
  BY <1>1, JamStepTypes
<1>4. AttackedMessage(as, tx, draw) = (CHOOSE it : Is(it))[DOMAIN places]
  BY Zenon DEF AttackedMessage, FoldLeftDomain, FoldLeft, MapThenFoldSet, JamStep
<1> HIDE DEF S, places, step
<1>5. PICK some : IsFold(some, n, S, tx, step)
  BY <1>1, <1>3, FoldExists DEF S
<1>6. Is(some)
  <2>1. ASSUME NEW s \in SUBSET (1 .. n), s # {}
        PROVE  some[s] = JamStep(as, draw, places[Max(s)], some[s \ {Max(s)}])
    <3>1. /\ Max(s) \in 1 .. n /\ some[s \ {Max(s)}] \in S
          /\ some[s] = step[<<Max(s), some[s \ {Max(s)}]>>]
      BY <1>5, <2>1 DEF IsFold
    <3>2. QED
      BY <1>2, <1>3, <3>1
  <2>2. some = [s \in SUBSET (1 .. n) |-> some[s]] /\ some[{}] = tx
    BY <1>5 DEF IsFold
  <2>3. QED
    BY <1>1, <2>1, <2>2
<1>7. PICK it : Is(it) /\ AttackedMessage(as, tx, draw) = it[1 .. n]
  BY <1>1, <1>4, <1>6
<1>8. GoesOn(it, n, S, tx, step)
  <2>1. \A s \in SUBSET (1 .. n) :
          it[s] = IF s = {} THEN tx ELSE JamStep(as, draw, places[Max(s)], it[s \ {Max(s)}])
    BY <1>1, <1>7
  <2>2. it[{}] = tx
    BY <2>1
  <2>3. ASSUME NEW s \in SUBSET (1 .. n), s # {}, it[s \ {Max(s)}] \in S
        PROVE  it[s] = step[<<Max(s), it[s \ {Max(s)}]>>]
    <3>1. Max(s) \in 1 .. n
      BY <2>3, MaxIsThere
    <3>2. it[s] = JamStep(as, draw, places[Max(s)], it[s \ {Max(s)}])
      BY <2>1, <2>3
    <3>3. QED
      BY <1>2, <1>3, <2>3, <3>1, <3>2
  <2>4. QED
    BY <2>2, <2>3 DEF GoesOn
<1>9. PICK h : Steps(h, n, S, tx, step, it[1 .. n])
  BY <1>1, <1>3, <1>8, StepsExist DEF S
<1>10. ASSUME NEW i \in 1 .. n PROVE h[i] = JamStep(as, draw, i, h[i - 1])
  <2>1. i - 1 \in 0 .. n
    BY <1>1
  <2>2. h[i - 1] \in S /\ h[i] = step[<<i, h[i - 1]>>]
    BY <1>9, <2>1 DEF Steps
  <2>3. QED
    BY <1>3, <2>2
<1>11. QED
  BY <1>7, <1>9, <1>10 DEF MessageAt, Steps, S

\* The same of a photon.
PhotonAt(h, as, n, tx, draw) ==
  /\ h[0] = tx /\ h[n] = QuantumSend(as, tx, draw)
  /\ \A i \in 0 .. n : h[i] \in JammedFrom(as, tx)
  /\ \A i \in 1 .. n : h[i] = JamPhotonStep(as, draw, i, h[i - 1])

LEMMA PhotonSteps ==
  ASSUME NEW as, NEW n \in Nat, IsList(as, n), NEW draw \in Draws(as), NEW tx, tx \in JammedFrom(as, tx)
  PROVE  \E h : PhotonAt(h, as, n, tx, draw)
<1> DEFINE S == JammedFrom(as, tx)
           places == [i \in DOMAIN as |-> i]
           step == [p \in (1 .. n) \X S |-> JamPhotonStep(as, draw, p[1], p[2])]
           Is(it) == it = [s \in SUBSET (DOMAIN places) |->
                             IF s = {} THEN tx
                             ELSE JamPhotonStep(as, draw, places[Max(s)], it[s \ {Max(s)}])]
<1>1. n \in Nat /\ DOMAIN as = 1 .. n /\ DOMAIN places = 1 .. n
  BY DEF IsList
<1>2. \A i \in 1 .. n : places[i] = i
  BY <1>1
<1>3. \A i \in 1 .. n, v \in S : step[<<i, v>>] = JamPhotonStep(as, draw, i, v) /\ step[<<i, v>>] \in S
  BY <1>1, JamStepTypes
<1>4. QuantumSend(as, tx, draw) = (CHOOSE it : Is(it))[DOMAIN places]
  BY Zenon DEF QuantumSend, FoldLeftDomain, FoldLeft, MapThenFoldSet, JamPhotonStep
<1> HIDE DEF S, places, step
<1>5. PICK some : IsFold(some, n, S, tx, step)
  BY <1>1, <1>3, FoldExists DEF S
<1>6. Is(some)
  <2>1. ASSUME NEW s \in SUBSET (1 .. n), s # {}
        PROVE  some[s] = JamPhotonStep(as, draw, places[Max(s)], some[s \ {Max(s)}])
    <3>1. /\ Max(s) \in 1 .. n /\ some[s \ {Max(s)}] \in S
          /\ some[s] = step[<<Max(s), some[s \ {Max(s)}]>>]
      BY <1>5, <2>1 DEF IsFold
    <3>2. QED
      BY <1>2, <1>3, <3>1
  <2>2. some = [s \in SUBSET (1 .. n) |-> some[s]] /\ some[{}] = tx
    BY <1>5 DEF IsFold
  <2>3. QED
    BY <1>1, <2>1, <2>2
<1>7. PICK it : Is(it) /\ QuantumSend(as, tx, draw) = it[1 .. n]
  BY <1>1, <1>4, <1>6
<1>8. GoesOn(it, n, S, tx, step)
  <2>1. \A s \in SUBSET (1 .. n) :
          it[s] = IF s = {} THEN tx ELSE JamPhotonStep(as, draw, places[Max(s)], it[s \ {Max(s)}])
    BY <1>1, <1>7
  <2>2. it[{}] = tx
    BY <2>1
  <2>3. ASSUME NEW s \in SUBSET (1 .. n), s # {}, it[s \ {Max(s)}] \in S
        PROVE  it[s] = step[<<Max(s), it[s \ {Max(s)}]>>]
    <3>1. Max(s) \in 1 .. n
      BY <2>3, MaxIsThere
    <3>2. it[s] = JamPhotonStep(as, draw, places[Max(s)], it[s \ {Max(s)}])
      BY <2>1, <2>3
    <3>3. QED
      BY <1>2, <1>3, <2>3, <3>1, <3>2
  <2>4. QED
    BY <2>2, <2>3 DEF GoesOn
<1>9. PICK h : Steps(h, n, S, tx, step, it[1 .. n])
  BY <1>1, <1>3, <1>8, StepsExist DEF S
<1>10. ASSUME NEW i \in 1 .. n PROVE h[i] = JamPhotonStep(as, draw, i, h[i - 1])
  <2>1. i - 1 \in 0 .. n
    BY <1>1
  <2>2. h[i - 1] \in S /\ h[i] = step[<<i, h[i - 1]>>]
    BY <1>9, <2>1 DEF Steps
  <2>3. QED
    BY <1>3, <2>2
<1>11. QED
  BY <1>7, <1>9, <1>10 DEF PhotonAt, Steps, S

-----------------------------------------------------------------------------
(* What all of them make of it. *)

LEMMA FiniteUpTo ==
  ASSUME NEW i \in Nat, NEW A, A \subseteq 1 .. i
  PROVE  IsFiniteSet(A) /\ Cardinality(A) \in Nat
<1>1. IsFiniteSet(1 .. i)
  BY FS_Interval
<1>2. IsFiniteSet(A)
  BY <1>1, FS_Subset
<1>3. QED
  BY <1>2, FS_CardinalityType

LEMMA ListsOneMore ==
  ASSUME NEW as, NEW i \in Nat, NEW A, A \subseteq 1 .. i, NEW S, NEW ids \in Seq(S),
         NEW j, j = i + 1, NEW id \in S, id = as[j].id, Lists(ids, as, A)
  PROVE  Lists(Append(ids, id), as, A \union {j})
<1> DEFINE B == A \union {i + 1}
<1>1. IsFiniteSet(A) /\ Cardinality(A) \in Nat /\ j \notin A
  <2>1. j \notin 1 .. i
    OBVIOUS
  <2>2. QED
    BY <2>1, FiniteUpTo
<1>2. Cardinality(B) = Cardinality(A) + 1
  BY <1>1, FS_AddElement
<1>3. Len(ids) = Cardinality(A) /\ Len(Append(ids, id)) = Cardinality(A) + 1
  BY AppendProperties DEF Lists
<1>4. ASSUME NEW l \in A
      PROVE  Append(ids, id)[Cardinality({k \in B : k <= l})] = as[l].id
  <2>1. {k \in B : k <= l} = {k \in A : k <= l}
    OBVIOUS
  <2> DEFINE C == {k \in A : k <= l}
  <2>2. C \subseteq A /\ l \in C
    OBVIOUS
  <2>3. IsFiniteSet(C) /\ Cardinality(C) <= Cardinality(A)
    BY <1>1, <2>2, FS_Subset
  <2>4. Cardinality(C) \in Nat /\ Cardinality(C) # 0
    BY <2>2, <2>3, FS_CardinalityType, FS_EmptySet
  <2> HIDE DEF C
  <2>5. Cardinality(C) \in 1 .. Len(ids)
    BY <1>1, <1>3, <2>3, <2>4
  <2>6. Append(ids, id)[Cardinality(C)] = ids[Cardinality(C)]
    BY <2>5, AppendProperties
  <2>7. ids[Cardinality(C)] = as[l].id
    BY DEF Lists, C
  <2>8. QED
    BY <2>1, <2>6, <2>7 DEF C
<1>5. Append(ids, id)[Cardinality({k \in B : k <= j})] = as[j].id
  <2>1. {k \in B : k <= j} = B
    <3>1. \A k \in 1 .. i : k <= j
      OBVIOUS
    <3>2. j <= j
      OBVIOUS
    <3>3. QED
      BY <3>1, <3>2
  <2>2. Append(ids, id)[Len(ids) + 1] = id
    BY ONLY AppendProperties, ids \in Seq(S), id \in S
  <2> HIDE DEF B
  <2>3. QED
    BY <1>2, <1>3, <2>1, <2>2
<1>6. \A l \in B : Append(ids, id)[Cardinality({k \in B : k <= l})] = as[l].id
  BY <1>4, <1>5
<1> HIDE DEF B
<1>7. Lists(Append(ids, id), as, B)
  BY <1>2, <1>3, <1>6 DEF Lists
<1>8. QED
  BY <1>7 DEF B

LEMMA ListsNothing ==
  ASSUME NEW as
  PROVE  Lists(<<>>, as, {})
BY FS_EmptySet DEF Lists

\* The total of the first m numbers is the partial sum.
IsTotalOf(v, c, n, m) ==
  v \in Int /\ v = Total([j \in 1 .. n |-> IF j <= m THEN c[j] ELSE 0])

LEMMA TotalOfFirst ==
  ASSUME NEW n \in Nat, NEW c \in [1 .. n -> Int], NEW h, Sums(h, n, c), NEW m \in 0 .. n
  PROVE  IsTotalOf(h[m], c, n, m)
<1> DEFINE d == [j \in 1 .. n |-> IF j <= m THEN c[j] ELSE 0]
<1>1. d \in [1 .. n -> Int]
  OBVIOUS
<1> HIDE DEF d
<1>2. PICK g : Sums(g, n, d) /\ g[n] = Total(d)
  BY <1>1, TotalSteps
<1> DEFINE P == {i \in 0 .. n : h[i] \in Int /\ g[i] \in Int /\ g[i] = IF i <= m THEN h[i] ELSE h[m]}
<1>3. 0 \in P
  BY <1>2 DEF Sums
<1>4. ASSUME NEW i \in 0 .. n, i \in P, i < n PROVE i + 1 \in P
  <2>1. i + 1 \in 1 .. n /\ i + 1 \in 0 .. n /\ (i + 1) - 1 = i
    BY <1>4
  <2>2. h[i + 1] = h[i] + c[i + 1] /\ g[i + 1] = g[i] + d[i + 1]
    BY <1>2, <2>1 DEF Sums
  <2>3. c[i + 1] \in Int /\ d[i + 1] = IF i + 1 <= m THEN c[i + 1] ELSE 0
    BY <2>1 DEF d
  <2>4. h[i] \in Int /\ g[i] \in Int /\ g[i] = IF i <= m THEN h[i] ELSE h[m]
    BY <1>4
  <2>5. h[i + 1] \in Int /\ g[i + 1] \in Int
    BY <2>2, <2>3, <2>4
  <2>6. CASE i + 1 <= m
    <3>1. i <= m
      BY <2>6
    <3>2. QED
      BY <2>1, <2>2, <2>3, <2>4, <2>5, <2>6, <3>1
  <2>7. CASE i = m
    <3>1. i <= m /\ ~ (i + 1 <= m)
      BY <2>7
    <3>2. g[i + 1] = h[m]
      BY <2>2, <2>3, <2>4, <2>7, <3>1
    <3>3. QED
      BY <2>1, <2>5, <3>1, <3>2
  <2>8. CASE m < i
    <3>1. ~ (i <= m) /\ ~ (i + 1 <= m)
      BY <2>8
    <3>2. g[i + 1] = g[i] + 0 /\ g[i] = h[m]
      BY <2>2, <2>3, <2>4, <3>1
    <3>3. g[i + 1] = h[m]
      BY <2>4, <3>2
    <3>4. QED
      BY <2>1, <2>5, <3>1, <3>3
  <2>9. QED
    BY <2>6, <2>7, <2>8
<1>5. \A i \in 0 .. n : i \in P
  <2> HIDE DEF P
  <2>1. QED
    BY <1>3, <1>4, InductionTo
<1>6. n \in P /\ m \in P
  BY <1>5
<1>7. g[n] = h[m] /\ h[m] \in Int
  BY <1>6
<1>8. QED
  BY <1>2, <1>7 DEF d, IsTotalOf

\* The delays of the attacks at the places S of a list.
DelaysOf(as, S) == [i \in DOMAIN as |-> IF i \in S THEN as[i].delay ELSE 0]

Jammers(as, tx) == {i \in DOMAIN as : Jams(as[i], tx)}
PhotonJammers(as, tx) == {i \in DOMAIN as : JamsPhoton(as[i], tx)}

\* Those of the places A that are among the first i.
First(A, i) == {k \in A : k <= i}

\* A transmission that no attack has touched yet.
Fresh(tx) == tx.added = 0 /\ tx.dropped = FALSE /\ tx.ids = <<>>

LEMMA DelaysAreNumbers ==
  ASSUME NEW as, NEW n \in Nat, IsList(as, n), NEW S, S \subseteq 1 .. n,
         \A i \in S : as[i].kind = "jam"
  PROVE  /\ DelaysOf(as, S) \in [1 .. n -> Int]
         /\ \A i \in 1 .. n : DelaysOf(as, S)[i] = IF i \in S THEN as[i].delay ELSE 0
<1>1. DOMAIN as = 1 .. n
  BY DEF IsList
<1>2. \A i \in S : as[i].delay \in Int
  <2>1. TAKE i \in S
  <2>2. IsAttack(as[i]) /\ as[i].kind = "jam"
    BY DEF IsList
  <2>3. as[i].delay \in Nat
    BY <2>2 DEF IsAttack
  <2>4. \A d \in Nat : d \in Int
    OBVIOUS
  <2>5. QED
    BY <2>3, <2>4
<1>3. 0 \in Int
  OBVIOUS
<1>4. \A i \in 1 .. n : (IF i \in S THEN as[i].delay ELSE 0) \in Int
  BY <1>2, <1>3, Zenon
<1>5. QED
  BY <1>1, <1>4, Zenon DEF DelaysOf

LEMMA SameJammers ==
  ASSUME NEW as, NEW tx, NEW t \in JammedFrom(as, tx), NEW i
  PROVE  (Jams(as[i], t) <=> Jams(as[i], tx)) /\ (JamsPhoton(as[i], t) <=> JamsPhoton(as[i], tx))
BY DEF JammedFrom, Jams, JamsPhoton

OneMore(A, i, j) ==
  /\ First(A, i) \subseteq 1 .. i
  /\ j \notin A => First(A, j) = First(A, i)
  /\ j \in A => First(A, j) = First(A, i) \union {j} /\ Max(First(A, j)) = j

LEMMA FirstNext ==
  ASSUME NEW n \in Nat, NEW A, A \subseteq 1 .. n, NEW i \in Nat, NEW j, j = i + 1
  PROVE  OneMore(A, i, j)
<1>1. ASSUME NEW m \in Nat, NEW k \in First(A, m) PROVE k \in 1 .. m
  <2>1. k \in 1 .. n /\ k <= m
    BY DEF First
  <2>2. QED
    BY <2>1
<1>2. \A k \in A : (k <= i + 1) <=> (k <= i \/ k = i + 1)
  OBVIOUS
<1>3. First(A, i) \subseteq 1 .. i /\ First(A, i + 1) \subseteq 1 .. i + 1
  BY <1>1
<1>4. i + 1 \in A => i + 1 \in First(A, i + 1)
  BY DEF First
<1>5. i + 1 \in A => Max(First(A, i + 1)) = i + 1
  BY <1>3, <1>4, MaxWithNew
<1>6. i + 1 \notin A => First(A, i + 1) = First(A, i)
  BY <1>2 DEF First
<1>7. i + 1 \in A => First(A, i + 1) = First(A, i) \union {i + 1}
  BY <1>2 DEF First
<1>8. QED
  BY <1>3, <1>5, <1>6, <1>7 DEF OneMore

LEMMA FirstAndLast ==
  ASSUME NEW n \in Nat, NEW A, A \subseteq 1 .. n
  PROVE  First(A, 0) = {} /\ First(A, n) = A
<1>1. First(A, 0) \subseteq 1 .. 0
  <2>1. 0 \in Nat /\ 1 = 0 + 1
    OBVIOUS
  <2>2. QED
    BY <2>1, FirstNext DEF OneMore
<1>2. \A k \in A : k <= n
  OBVIOUS
<1>3. 1 .. 0 = {}
  OBVIOUS
<1>4. QED
  BY <1>1, <1>2, <1>3 DEF First

\* One more jammer writes its id and its delay.
Marked(as, j, S, t, u, loss) ==
  /\ Lists(u.ids, as, S \union {j})
  /\ u.added = t.added + as[j].delay
  /\ u.dropped = loss /\ loss \in as[j].drop

LEMMA JammedOnce ==
  ASSUME NEW as, NEW n \in Nat, IsList(as, n), NEW draw \in Draws(as), NEW tx,
         NEW i \in 0 .. n, i < n, NEW j, j = i + 1, NEW t \in JammedFrom(as, tx), NEW u,
         as[j].kind = "jam", u = Jammed(as[j], t, draw[j]),
         NEW S, S \subseteq 1 .. i, Lists(t.ids, as, S)
  PROVE  Marked(as, j, S, t, u, draw[j])
<1>1. j \in DOMAIN as /\ i \in Nat
  BY DEF IsList
<1>2. /\ u.dropped = draw[j] /\ u.added = t.added + as[j].delay
      /\ u.ids = Append(t.ids, as[j].id)
  BY DEF Jammed, JammedFrom
<1>3. draw[j] \in as[j].drop
  BY <1>1, DrawsAreBooleans
<1> DEFINE Ids == {as[k].id : k \in DOMAIN as}
<1>4. t.ids \in Seq(Ids) /\ as[j].id \in Ids
  BY <1>1 DEF JammedFrom
<1> HIDE DEF Ids
<1>5. Lists(Append(t.ids, as[j].id), as, S \union {j})
  BY <1>1, <1>4, ListsOneMore
<1>6. QED
  BY <1>2, <1>3, <1>5 DEF Marked

\* What holds of a message after the first i attacks.
MessageSoFar(as, tx, sums, i, t) ==
  /\ t \in JammedFrom(as, tx) /\ t.added = sums[i]
  /\ Lists(t.ids, as, First(Jammers(as, tx), i))
  /\ t.dropped \in IF First(Jammers(as, tx), i) = {} THEN {FALSE}
                   ELSE as[Max(First(Jammers(as, tx), i))].drop

LEMMA MessageNext ==
  ASSUME NEW as, NEW n \in Nat, IsList(as, n), NEW draw \in Draws(as), NEW tx, NEW sums,
         Sums(sums, n, DelaysOf(as, Jammers(as, tx))),
         NEW i \in 0 .. n, i < n, NEW j, j = i + 1, NEW t, MessageSoFar(as, tx, sums, i, t)
  PROVE  MessageSoFar(as, tx, sums, j, JamStep(as, draw, j, t))
<1>1. PICK A : A = Jammers(as, tx)
  OBVIOUS
<1>2. PICK u : u = JamStep(as, draw, j, t)
  OBVIOUS
<1>3. i \in Nat /\ j \in 1 .. n /\ j \in DOMAIN as /\ j - 1 = i
  BY DEF IsList
<1>4. A \subseteq 1 .. n /\ \A k \in A : as[k].kind = "jam"
  BY <1>1 DEF Jammers, IsList, Jams
<1>5. /\ t \in JammedFrom(as, tx) /\ t.added = sums[i]
      /\ Lists(t.ids, as, First(A, i))
      /\ t.dropped \in IF First(A, i) = {} THEN {FALSE} ELSE as[Max(First(A, i))].drop
  BY <1>1 DEF MessageSoFar
<1>6. u \in JammedFrom(as, tx)
  BY <1>2, <1>3, <1>5, JamStepTypes
<1>7. Jams(as[j], t) <=> j \in A
  BY <1>1, <1>3, <1>5, SameJammers DEF Jammers
<1>8. sums[j] = sums[i] + DelaysOf(as, A)[j]
  BY <1>1, <1>3, Zenon DEF Sums
<1>9. DelaysOf(as, A)[j] = IF j \in A THEN as[j].delay ELSE 0
  BY <1>3 DEF DelaysOf
<1>10. /\ u.added = sums[j] /\ Lists(u.ids, as, First(A, j))
       /\ u.dropped \in IF First(A, j) = {} THEN {FALSE}
                        ELSE as[Max(First(A, j))].drop
  <2>0. OneMore(A, i, j)
    BY <1>3, <1>4, FirstNext
  <2>1. CASE j \in A
    <3>1. u = Jammed(as[j], t, draw[j]) /\ as[j].kind = "jam"
      BY <1>2, <1>4, <1>7, <2>1 DEF JamStep
    <3>2. First(A, i) \subseteq 1 .. i
      BY <2>0 DEF OneMore
    <3>3. Marked(as, j, First(A, i), t, u, draw[j])
      BY <1>3, <1>5, <3>1, <3>2, JammedOnce
    <3>4. First(A, j) = First(A, i) \union {j} /\ Max(First(A, j)) = j
      BY <2>0, <2>1 DEF OneMore
    <3>5. First(A, j) # {}
      BY <3>4
    <3>6. u.added = sums[j]
      BY <1>5, <1>8, <1>9, <2>1, <3>3, Zenon DEF Marked
    <3>7. QED
      BY <3>3, <3>4, <3>5, <3>6, Zenon DEF Marked
  <2>2. CASE j \notin A
    <3>1. u = t
      BY <1>2, <1>7, <2>2 DEF JamStep
    <3>2. First(A, j) = First(A, i)
      BY <2>0, <2>2 DEF OneMore
    <3>3. sums[j] = sums[i]
      <4>1. t.added \in Nat
        BY <1>5 DEF JammedFrom
      <4>2. sums[j] = sums[i] + 0
        BY <1>8, <1>9, <2>2, Zenon
      <4>3. QED
        BY <1>5, <4>1, <4>2
    <3>4. QED
      BY <1>5, <3>1, <3>2, <3>3, Zenon
  <2>3. QED
    BY <2>1, <2>2
<1>11. QED
  BY <1>1, <1>2, <1>6, <1>10 DEF MessageSoFar

\* What alter_classical makes of a message (MessagesAsJammed).
MessageFate(as, t, active) ==
  /\ JammedBy(as, t, active)
  /\ t.dropped \in IF active = {} THEN {FALSE} ELSE as[Max(active)].drop

LEMMA MessageIsAsJammed ==
  ASSUME NEW as, NEW n \in Nat, IsList(as, n), NEW draw \in Draws(as),
         NEW tx, tx \in JammedFrom(as, tx), Fresh(tx), NEW t, t = AttackedMessage(as, tx, draw)
  PROVE  t \in JammedFrom(as, tx) /\ MessageFate(as, t, Jammers(as, t))
<1>1. PICK A : A = Jammers(as, tx)
  OBVIOUS
<1>3. PICK h : MessageAt(h, as, n, tx, draw)
  BY MessageSteps
<1>4. A \subseteq 1 .. n /\ \A k \in A : as[k].kind = "jam"
  BY <1>1 DEF Jammers, IsList, Jams
<1>5. DelaysOf(as, A) \in [1 .. n -> Int]
  BY <1>4, DelaysAreNumbers
<1>6. PICK sums : sums[n] = Total(DelaysOf(as, A)) /\ Sums(sums, n, DelaysOf(as, A))
  BY <1>5, TotalSteps
<1> DEFINE P == {i \in 0 .. n : MessageSoFar(as, tx, sums, i, h[i])}
<1>7. 0 \in P
  <2>1. First(A, 0) = {} /\ Lists(<<>>, as, {}) /\ sums[0] = 0
    BY <1>4, <1>6, FirstAndLast, ListsNothing DEF Sums
  <2>2. MessageSoFar(as, tx, sums, 0, tx)
    BY <1>1, <2>1 DEF MessageSoFar, Fresh
  <2>3. 0 \in 0 .. n
    OBVIOUS
  <2>4. QED
    BY <1>3, <2>2, <2>3 DEF MessageAt
<1>8. ASSUME NEW i \in 0 .. n, i \in P, i < n PROVE i + 1 \in P
  <2>1. i + 1 \in 1 .. n /\ i + 1 \in 0 .. n /\ (i + 1) - 1 = i
    BY <1>8
  <2>2. h[i + 1] = JamStep(as, draw, i + 1, h[i])
    BY <1>3, <2>1, Zenon DEF MessageAt
  <2>3. MessageSoFar(as, tx, sums, i, h[i])
    BY <1>8
  <2>4. MessageSoFar(as, tx, sums, i + 1, JamStep(as, draw, i + 1, h[i]))
    BY <1>1, <1>6, <1>8, <2>3, MessageNext
  <2>5. QED
    BY <2>1, <2>2, <2>4
<1>9. MessageSoFar(as, tx, sums, n, t)
  <2> HIDE DEF P
  <2>1. \A i \in 0 .. n : i \in P
    BY <1>7, <1>8, InductionTo
  <2>2. n \in P
    BY <2>1
  <2>3. QED
    BY <1>3, <2>2 DEF P, MessageAt
<1>10. t \in JammedFrom(as, tx)
  BY <1>9 DEF MessageSoFar
<1>11. First(A, n) = A
  BY <1>4, FirstAndLast
<1>12. Jammers(as, t) = A
  BY <1>1, <1>10, SameJammers DEF Jammers
<1>13. /\ Lists(t.ids, as, A) /\ t.added = sums[n]
       /\ t.dropped \in IF A = {} THEN {FALSE} ELSE as[Max(A)].drop
  BY <1>1, <1>9, <1>11 DEF MessageSoFar
<1>14. JammedBy(as, t, A)
  BY <1>6, <1>13 DEF JammedBy, DelaysOf
<1>15. QED
  BY <1>10, <1>12, <1>13, <1>14 DEF MessageFate

\* What holds of a photon that got through the first i attacks, and of one
\* that one of them lost; A are the jammers of photons.
Through(as, A, sums, i, t) ==
  /\ ~t.dropped /\ t.added = sums[i] /\ Lists(t.ids, as, First(A, i))
  /\ \A k \in First(A, i) : FALSE \in as[k].drop

LostAt(as, A, sums, last, t) ==
  /\ t.dropped /\ t.added = sums[last] /\ Lists(t.ids, as, First(A, last))
  /\ TRUE \in as[last].drop /\ \A k \in A : k < last => FALSE \in as[k].drop

LEMMA PhotonNext ==
  ASSUME NEW as, NEW n \in Nat, IsList(as, n), NEW draw \in Draws(as), NEW tx, NEW sums,
         Sums(sums, n, DelaysOf(as, PhotonJammers(as, tx))),
         NEW i \in 0 .. n, i < n, NEW j, j = i + 1, NEW t \in JammedFrom(as, tx),
         Through(as, PhotonJammers(as, tx), sums, i, t)
  PROVE  \/ Through(as, PhotonJammers(as, tx), sums, j, JamPhotonStep(as, draw, j, t))
         \/ /\ j \in PhotonJammers(as, tx)
            /\ LostAt(as, PhotonJammers(as, tx), sums, j, JamPhotonStep(as, draw, j, t))
<1>1. PICK A : A = PhotonJammers(as, tx)
  OBVIOUS
<1>2. PICK u : u = JamPhotonStep(as, draw, j, t)
  OBVIOUS
<1>3. i \in Nat /\ j \in 1 .. n /\ j \in DOMAIN as /\ j - 1 = i
  BY DEF IsList
<1>4. A \subseteq 1 .. n /\ \A k \in A : as[k].kind = "jam"
  BY <1>1 DEF PhotonJammers, IsList, JamsPhoton
<1>5. /\ ~t.dropped /\ t.added = sums[i] /\ Lists(t.ids, as, First(A, i))
      /\ \A k \in First(A, i) : FALSE \in as[k].drop
  BY <1>1 DEF Through
<1>6. JamsPhoton(as[j], t) <=> j \in A
  BY <1>1, <1>3, SameJammers DEF PhotonJammers
<1>7. sums[j] = sums[i] + DelaysOf(as, A)[j]
  BY <1>1, <1>3, Zenon DEF Sums
<1>8. DelaysOf(as, A)[j] = IF j \in A THEN as[j].delay ELSE 0
  BY <1>3 DEF DelaysOf
<1>9. OneMore(A, i, j)
  BY <1>3, <1>4, FirstNext
<1>10. CASE j \in A
  <2>1. u = Jammed(as[j], t, draw[j]) /\ as[j].kind = "jam"
    BY <1>2, <1>4, <1>5, <1>6, <1>10 DEF JamPhotonStep
  <2>2. First(A, i) \subseteq 1 .. i
    BY <1>9 DEF OneMore
  <2>3. Marked(as, j, First(A, i), t, u, draw[j])
    BY <1>3, <1>5, <2>1, <2>2, JammedOnce
  <2>4. First(A, j) = First(A, i) \union {j}
    BY <1>9, <1>10 DEF OneMore
  <2>5. u.added = sums[j]
    BY <1>5, <1>7, <1>8, <1>10, <2>3, Zenon DEF Marked
  <2>6. /\ Lists(u.ids, as, First(A, j)) /\ u.dropped = draw[j]
        /\ draw[j] \in as[j].drop /\ draw[j] \in BOOLEAN
    BY <1>3, <2>3, <2>4, DrawsAreBooleans, Zenon DEF Marked
  <2>7. CASE draw[j] = FALSE
    <3>1. \A k \in First(A, j) : FALSE \in as[k].drop
      BY <1>5, <2>4, <2>6, <2>7, Zenon
    <3>2. Through(as, A, sums, j, u)
      BY <2>5, <2>6, <2>7, <3>1, Zenon DEF Through
    <3>3. QED
      BY <1>1, <1>2, <3>2
  <2>8. CASE draw[j] = TRUE
    <3>1. \A k \in A : k < j => k \in First(A, i)
      <4>1. \A k \in 1 .. n : k < j => k <= i
        OBVIOUS
      <4>2. QED
        BY <1>4, <4>1, Zenon DEF First
    <3>2. \A k \in A : k < j => FALSE \in as[k].drop
      BY <1>5, <3>1
    <3>3. LostAt(as, A, sums, j, u)
      BY <2>5, <2>6, <2>8, <3>2, Zenon DEF LostAt
    <3>4. QED
      BY <1>1, <1>2, <1>10, <3>3
  <2>9. QED
    BY <2>6, <2>7, <2>8
<1>11. CASE j \notin A
  <2>1. u = t
    BY <1>2, <1>6, <1>11 DEF JamPhotonStep
  <2>2. First(A, j) = First(A, i)
    BY <1>9, <1>11 DEF OneMore
  <2>3. sums[j] = sums[i]
    <3>1. t.added \in Nat
      BY DEF JammedFrom
    <3>2. sums[j] = sums[i] + 0
      BY <1>7, <1>8, <1>11, Zenon
    <3>3. QED
      BY <1>5, <3>1, <3>2
  <2>4. Through(as, A, sums, j, u)
    BY <1>5, <2>1, <2>2, <2>3, Zenon DEF Through
  <2>5. QED
    BY <1>1, <1>2, <2>4
<1>12. QED
  BY <1>10, <1>11

\* The delays of the first jammers of a list are a partial sum.
LEMMA DelayUpTo ==
  ASSUME NEW as, NEW n \in Nat, IsList(as, n), NEW A, A \subseteq 1 .. n,
         \A k \in A : as[k].kind = "jam", NEW sums, Sums(sums, n, DelaysOf(as, A)),
         NEW m \in 0 .. n
  PROVE  sums[m] = Total(DelaysOf(as, First(A, m)))
<1>1. DOMAIN as = 1 .. n
  BY DEF IsList
<1>2. PICK c : c = DelaysOf(as, A)
  OBVIOUS
<1>3. c \in [1 .. n -> Int]
  BY <1>2, DelaysAreNumbers
<1>4. Total([j \in 1 .. n |-> IF j <= m THEN c[j] ELSE 0]) = sums[m]
  <2>1. IsTotalOf(sums[m], c, n, m)
    BY <1>2, <1>3, TotalOfFirst
  <2>2. QED
    BY <2>1, Zenon DEF IsTotalOf
<1>5. \A j \in 1 .. n : c[j] = IF j \in A THEN as[j].delay ELSE 0
  BY <1>1, <1>2 DEF DelaysOf
<1>6. \A j \in 1 .. n : (IF j <= m THEN c[j] ELSE 0) = (IF j \in First(A, m) THEN as[j].delay ELSE 0)
  BY <1>5, Zenon DEF First
<1>7. [j \in 1 .. n |-> IF j <= m THEN c[j] ELSE 0] = DelaysOf(as, First(A, m))
  BY <1>1, <1>6, Zenon DEF DelaysOf
<1>8. QED
  BY <1>4, <1>7

\* What decide_quantum_send makes of a photon (PhotonAsJammed).
PhotonFate(as, t, active) ==
  \/ /\ ~t.dropped /\ JammedBy(as, t, active)
     /\ \A i \in active : FALSE \in as[i].drop
  \/ /\ t.dropped
     /\ \E last \in active :
          /\ JammedBy(as, t, {i \in active : i <= last}) /\ TRUE \in as[last].drop
          /\ \A i \in active : i < last => FALSE \in as[i].drop

LEMMA PhotonIsAsJammed ==
  ASSUME NEW as, NEW n \in Nat, IsList(as, n), NEW draw \in Draws(as),
         NEW tx, tx \in JammedFrom(as, tx), Fresh(tx), NEW t, t = QuantumSend(as, tx, draw)
  PROVE  t \in JammedFrom(as, tx) /\ PhotonFate(as, t, PhotonJammers(as, t))
<1>1. PICK A : A = PhotonJammers(as, tx)
  OBVIOUS
<1>2. PICK h : PhotonAt(h, as, n, tx, draw)
  BY PhotonSteps
<1>3. \A i \in 0 .. n : h[i] \in JammedFrom(as, tx)
  BY <1>2 DEF PhotonAt
<1>4. A \subseteq 1 .. n /\ \A k \in A : as[k].kind = "jam"
  BY <1>1 DEF PhotonJammers, IsList, JamsPhoton
<1>5. DelaysOf(as, A) \in [1 .. n -> Int]
  BY <1>4, DelaysAreNumbers
<1>6. PICK sums : sums[n] = Total(DelaysOf(as, A)) /\ Sums(sums, n, DelaysOf(as, A))
  BY <1>5, TotalSteps
<1> DEFINE Lost(i) == \E last \in A : last <= i /\ LostAt(as, A, sums, last, h[i])
           P == {i \in 0 .. n : Through(as, A, sums, i, h[i]) \/ Lost(i)}
<1>7. 0 \in P
  <2>1. First(A, 0) = {} /\ Lists(<<>>, as, {}) /\ sums[0] = 0
    BY <1>4, <1>6, FirstAndLast, ListsNothing DEF Sums
  <2>2. Through(as, A, sums, 0, tx)
    BY <2>1 DEF Through, Fresh
  <2>3. 0 \in 0 .. n /\ h[0] = tx
    BY <1>2 DEF PhotonAt
  <2>4. QED
    BY <2>2, <2>3
<1>8. ASSUME NEW i \in 0 .. n, i \in P, i < n PROVE i + 1 \in P
  <2>1. PICK j : j = i + 1
    OBVIOUS
  <2>2. j \in 1 .. n /\ j \in 0 .. n /\ j - 1 = i
    BY <1>8, <2>1
  <2>3. h[j] = JamPhotonStep(as, draw, j, h[i])
    BY <1>2, <2>2, Zenon DEF PhotonAt
  <2>4. CASE Through(as, A, sums, i, h[i])
    <3>1. PICK t0 : t0 = h[i]
      OBVIOUS
    <3>2. t0 \in JammedFrom(as, tx) /\ Through(as, PhotonJammers(as, tx), sums, i, t0)
      BY <1>1, <1>3, <2>4, <3>1
    <3>3. \/ Through(as, A, sums, j, JamPhotonStep(as, draw, j, t0))
          \/ j \in A /\ LostAt(as, A, sums, j, JamPhotonStep(as, draw, j, t0))
      BY <1>1, <1>6, <1>8, <2>1, <3>2, PhotonNext
    <3>4. j <= j
      BY <2>2
    <3>5. QED
      BY <2>1, <2>2, <2>3, <3>1, <3>3, <3>4, Zenon
  <2>5. CASE Lost(i)
    <3>1. PICK last \in A : last <= i /\ LostAt(as, A, sums, last, h[i])
      BY <2>5
    <3>2. h[i].dropped
      BY <3>1 DEF LostAt
    <3>3. h[j] = h[i]
      BY <2>3, <3>2 DEF JamPhotonStep
    <3>4. last <= j
      BY <1>4, <2>1, <3>1
    <3>5. QED
      BY <2>1, <2>2, <3>1, <3>3, <3>4, Zenon
  <2>6. QED
    BY <1>8, <2>4, <2>5
<1>9. n \in P
  <2> HIDE DEF P
  <2>1. \A i \in 0 .. n : i \in P
    BY <1>7, <1>8, InductionTo
  <2>2. QED
    BY <2>1
<1>10. h[n] = t /\ t \in JammedFrom(as, tx)
  <2>1. n \in 0 .. n
    OBVIOUS
  <2>2. QED
    BY <1>2, <1>3, <2>1 DEF PhotonAt
<1>11. PhotonJammers(as, t) = A
  BY <1>1, <1>10, SameJammers DEF PhotonJammers
<1>12. ASSUME Through(as, A, sums, n, t) PROVE PhotonFate(as, t, A)
  <2>1. First(A, n) = A
    BY <1>4, FirstAndLast
  <2>2. JammedBy(as, t, A)
    BY <1>6, <1>12, <2>1 DEF Through, JammedBy, DelaysOf
  <2>3. QED
    BY <1>12, <2>1, <2>2 DEF Through, PhotonFate
<1>13. ASSUME NEW last \in A, LostAt(as, A, sums, last, t) PROVE PhotonFate(as, t, A)
  <2>1. last \in 0 .. n
    BY <1>4
  <2>2. t.added = Total(DelaysOf(as, First(A, last)))
    BY <1>4, <1>6, <1>13, <2>1, DelayUpTo DEF LostAt
  <2>3. JammedBy(as, t, {i \in A : i <= last})
    BY <1>13, <2>2 DEF LostAt, JammedBy, DelaysOf, First
  <2>4. QED
    BY <1>13, <2>3 DEF LostAt, PhotonFate
<1>14. QED
  BY <1>9, <1>10, <1>11, <1>12, <1>13

-----------------------------------------------------------------------------
(* The events of the round. *)

Whats == {"basis_x", "basis_y", "photon", "tap", "resend", "basis_x arrives",
          "basis_y arrives", "photon arrives", "answer arrives"}
DuesFrom(t) == {e \in [at : Nat, what : Whats] : e.at >= t}

Untouched ==
  /\ now = 0 /\ pending = {} /\ sent = {} /\ photon = Flying /\ there = {}
  /\ bit = [prover |-> None, v0 |-> None] /\ answerAt = None /\ report = None
  /\ tapped = None /\ errors = {} /\ BackendsInit

\* Nothing is due in the past; nothing happens before the round runs.
Timely ==
  /\ attacks \in AttackLists
  /\ phase \in {"new", "rejected", "ready", "refused", "running"}
  /\ now \in Nat /\ pending \subseteq DuesFrom(now)
  /\ phase # "running" => Untouched
  /\ (\E d \in pending : d.what \in {"tap", "resend"}) => Interceptors # {}

LEMMA Added ==
  ASSUME NEW a \in Nat, NEW b \in Nat
  PROVE  a + b \in Nat /\ a + b >= a
OBVIOUS

LEMMA DueIsDue ==
  ASSUME NEW t \in Nat, NEW at \in Nat, at >= t, NEW what \in Whats
  PROVE  Due(at, what) \in DuesFrom(t)
BY DEF Due, DuesFrom

LEMMA FreshTransmission ==
  ASSUME NEW as, NEW kind \in {"basis_x", "basis_y", "photon", "answer"}, NEW t \in Nat,
         NEW tx, tx = Transmission(kind, t)
  PROVE  /\ tx \in JammedFrom(as, tx) /\ Fresh(tx)
         /\ tx.type = TypeOf(kind) /\ tx.sentAt = t /\ tx.travel \in Nat
<1>1. Travel[kind] \in Nat
  BY RoundAssumption
<1>2. <<>> \in Seq({as[i].id : i \in DOMAIN as})
  OBVIOUS
<1>3. QED
  BY <1>1, <1>2 DEF Transmission, JammedFrom, Fresh

\* What is jammed arrives after it was sent.
LEMMA ArrivalIsLater ==
  ASSUME NEW as, NEW kind \in {"basis_x", "basis_y", "photon", "answer"}, NEW t \in Nat,
         NEW tx \in JammedFrom(as, Transmission(kind, t))
  PROVE  ArrivesAt(tx) \in Nat /\ ArrivesAt(tx) >= t
<1>1. PICK raw : raw = Transmission(kind, t)
  OBVIOUS
<1>2. raw.sentAt = t /\ raw.travel \in Nat
  BY <1>1, FreshTransmission
<1>3. PICK a, b : a = tx.travel /\ b = tx.added
  OBVIOUS
<1>4. tx.sentAt = t /\ a \in Nat /\ b \in Nat
  BY <1>1, <1>2, <1>3 DEF JammedFrom
<1>5. ArrivesAt(tx) = t + a + b
  BY <1>3, <1>4, Zenon DEF ArrivesAt
<1>6. t + a + b \in Nat /\ t + a + b >= t
  BY <1>4
<1>7. QED
  BY <1>5, <1>6

LEMMA InterceptorIsOne ==
  ASSUME attacks \in AttackLists, Interceptors # {}
  PROVE  /\ Interceptor.bases \subseteq Basis
         /\ {Interceptor.toHim, Interceptor.process, Interceptor.prepare, Interceptor.toProver} \subseteq Nat
<1>1. PICK n : IsList(attacks, n)
  BY AttackListsAreLists
<1>2. n \in Nat /\ Interceptors \subseteq 1 .. n
  BY <1>1 DEF IsList, Interceptors, OfKind
<1>3. PICK m \in Interceptors : \A k \in Interceptors : m <= k
  <2>1. PICK T : T = Interceptors
    OBVIOUS
  <2>2. T \subseteq Nat /\ T # {}
    BY <1>2, <2>1
  <2>3. \E m \in T : \A k \in T : m <= k
    BY <2>2, LeastNumber, Zenon
  <2>4. QED
    BY <2>1, <2>3
<1>4. Min(Interceptors) = m
  <2>1. \A x \in Interceptors : (\A y \in Interceptors : x <= y) => x = m
    <3>1. TAKE x \in Interceptors
    <3>2. HAVE \A y \in Interceptors : x <= y
    <3>3. x <= m /\ m <= x /\ x \in Nat /\ m \in Nat
      BY <1>2, <1>3, <3>2
    <3>4. QED
      BY <3>3
  <2>2. QED
    BY <1>3, <2>1, Zenon DEF Min
<1>5. IsAttack(attacks[m]) /\ attacks[m].kind = "intercept"
  BY <1>1, <1>2, <1>3 DEF IsList, Interceptors, OfKind
<1>6. QED
  BY <1>4, <1>5 DEF IsAttack, Interceptor

LEMMA HappensInTime ==
  ASSUME Timely, NEW d \in pending, NEW evs, evs \subseteq DuesFrom(d.at), Happens(d, evs)
  PROVE  now' \in Nat /\ pending' \subseteq DuesFrom(now')
<1>1. d \in [at : Nat, what : Whats]
  BY DEF Timely, DuesFrom
<1>2. d.at \in Nat /\ now' = d.at
  BY <1>1 DEF Happens
<1>3. ASSUME NEW e \in pending PROVE e \in DuesFrom(d.at)
  <2>1. d.at <= e.at /\ e \in [at : Nat, what : Whats]
    BY DEF Happens, Timely, DuesFrom
  <2>2. e.at \in Nat
    BY <2>1
  <2>3. e.at >= d.at
    BY <1>2, <2>1, <2>2
  <2>4. QED
    BY <2>1, <2>3 DEF DuesFrom
<1>4. QED
  BY <1>2, <1>3 DEF Happens

LEMMA TimelyInit == Init => Timely
BY DEF Init, Timely, Untouched, Pending

\* What leaves as the attacks have it arrives no earlier than it left.
LEMMA SentInTime ==
  ASSUME NEW as \in AttackLists, NEW kind \in {"basis_x", "basis_y", "photon", "answer"},
         NEW t \in Nat, NEW draw \in Draws(as), NEW raw, raw = Transmission(kind, t),
         NEW what \in Whats
  PROVE  /\ Due(ArrivesAt(AttackedMessage(as, raw, draw)), what) \in DuesFrom(t)
         /\ Due(ArrivesAt(QuantumSend(as, raw, draw)), what) \in DuesFrom(t)
<1>1. PICK n : n \in Nat /\ IsList(as, n)
  BY AttackListsAreLists DEF IsList
<1>2. raw \in JammedFrom(as, raw) /\ Fresh(raw)
  BY FreshTransmission
<1>3. PICK m : m = AttackedMessage(as, raw, draw)
  OBVIOUS
<1>4. PICK q : q = QuantumSend(as, raw, draw)
  OBVIOUS
<1>5. m \in JammedFrom(as, raw)
  BY <1>1, <1>2, <1>3, MessageIsAsJammed
<1>6. q \in JammedFrom(as, raw)
  BY <1>1, <1>2, <1>4, PhotonIsAsJammed
<1>7. ArrivesAt(m) \in Nat /\ ArrivesAt(m) >= t /\ ArrivesAt(q) \in Nat /\ ArrivesAt(q) >= t
  BY <1>5, <1>6, ArrivalIsLater
<1>8. QED
  BY <1>3, <1>4, <1>7, DueIsDue

\* An event of a kind happens, and at most one follows it, of another kind.
Happened(what, next) ==
  \E d \in Pending(what) : \E evs :
    Happens(d, evs) /\ (\A e \in evs : e.what = next) /\ \A e, f \in evs : e = f

LEMMA OneFollows ==
  ASSUME NEW what, NEW next, NEW d \in Pending(what), NEW at, NEW evs,
         evs = {} \/ evs = {Due(at, next)}, Happens(d, evs)
  PROVE  Happened(what, next)
BY DEF Happened, Due

LEMMA WhatHappens ==
  /\ SendBasis("basis_x") => Happened("basis_x", "basis_x arrives")
  /\ SendBasis("basis_y") => Happened("basis_y", "basis_y arrives")
  /\ SendPhoton => Happened("photon", "photon arrives") \/ Happened("photon", "tap")
  /\ Tap => Happened("tap", "resend")
  /\ Resend => Happened("resend", "photon arrives")
  /\ PhotonArrives => Happened("photon arrives", "nothing")
  /\ BasisArrives("basis_x") => Happened("basis_x arrives", "nothing")
  /\ BasisArrives("basis_y") => Happened("basis_y arrives", "nothing")
  /\ AnswerArrives => Happened("answer arrives", "nothing")
<1>1. ASSUME SendBasis("basis_x") PROVE Happened("basis_x", "basis_x arrives")
  <2>1. PICK d \in Pending("basis_x"), draw \in Draws(attacks) :
          LET tx == AttackedMessage(attacks, Transmission("basis_x", d.at), draw) IN
          Happens(d, IF tx.dropped THEN {} ELSE {Due(ArrivesAt(tx), "basis_x arrives")})
    BY <1>1 DEF SendBasis, Arrival
  <2>2. PICK tx : tx = AttackedMessage(attacks, Transmission("basis_x", d.at), draw)
    OBVIOUS
  <2>3. PICK evs : evs = IF tx.dropped THEN {} ELSE {Due(ArrivesAt(tx), "basis_x arrives")}
    OBVIOUS
  <2>4. Happens(d, evs) /\ (evs = {} \/ evs = {Due(ArrivesAt(tx), "basis_x arrives")})
    BY <2>1, <2>2, <2>3
  <2>5. QED
    BY <2>4, OneFollows
<1>2. ASSUME SendBasis("basis_y") PROVE Happened("basis_y", "basis_y arrives")
  <2>1. PICK d \in Pending("basis_y"), draw \in Draws(attacks) :
          LET tx == AttackedMessage(attacks, Transmission("basis_y", d.at), draw) IN
          Happens(d, IF tx.dropped THEN {} ELSE {Due(ArrivesAt(tx), "basis_y arrives")})
    BY <1>2 DEF SendBasis, Arrival
  <2>2. PICK tx : tx = AttackedMessage(attacks, Transmission("basis_y", d.at), draw)
    OBVIOUS
  <2>3. PICK evs : evs = IF tx.dropped THEN {} ELSE {Due(ArrivesAt(tx), "basis_y arrives")}
    OBVIOUS
  <2>4. Happens(d, evs) /\ (evs = {} \/ evs = {Due(ArrivesAt(tx), "basis_y arrives")})
    BY <2>1, <2>2, <2>3
  <2>5. QED
    BY <2>4, OneFollows
<1>3. ASSUME SendPhoton PROVE Happened("photon", "photon arrives") \/ Happened("photon", "tap")
  <2>1. PICK d \in Pending("photon"), draw \in Draws(attacks), lost \in LinkLosses :
          LET tx == QuantumSend(attacks, Transmission("photon", d.at), draw) IN
          Happens(d,
            IF tx.dropped \/ lost THEN {}
            ELSE IF Interceptors = {} THEN {Due(ArrivesAt(tx), "photon arrives")}
            ELSE {Due(d.at + Interceptor.toHim + Interceptor.process, "tap")})
    BY <1>3 DEF SendPhoton, Arrival
  <2>2. PICK tx : tx = QuantumSend(attacks, Transmission("photon", d.at), draw)
    OBVIOUS
  <2>3. PICK at : at = d.at + Interceptor.toHim + Interceptor.process
    OBVIOUS
  <2>4. PICK evs : evs = IF tx.dropped \/ lost THEN {}
                         ELSE IF Interceptors = {} THEN {Due(ArrivesAt(tx), "photon arrives")}
                         ELSE {Due(at, "tap")}
    OBVIOUS
  <2>5. /\ Happens(d, evs)
        /\ evs = {} \/ evs = {Due(ArrivesAt(tx), "photon arrives")} \/ evs = {Due(at, "tap")}
    BY <2>1, <2>2, <2>3, <2>4
  <2>6. QED
    BY <2>5, OneFollows
<1>4. ASSUME Tap PROVE Happened("tap", "resend")
  <2>1. PICK d \in Pending("tap") : Happens(d, {Due(d.at + Interceptor.prepare, "resend")})
    BY <1>4 DEF Tap
  <2>2. PICK at, evs : at = d.at + Interceptor.prepare /\ evs = {Due(at, "resend")}
    OBVIOUS
  <2>3. QED
    BY <2>1, <2>2, OneFollows
<1>5. ASSUME Resend PROVE Happened("resend", "photon arrives")
  <2>1. PICK d \in Pending("resend") :
          Happens(d, {Due(d.at + Interceptor.toProver, "photon arrives")})
    BY <1>5 DEF Resend, Arrival
  <2>2. PICK at, evs : at = d.at + Interceptor.toProver /\ evs = {Due(at, "photon arrives")}
    OBVIOUS
  <2>3. QED
    BY <2>1, <2>2, OneFollows
<1>6. /\ PhotonArrives => Happened("photon arrives", "nothing")
      /\ BasisArrives("basis_x") => Happened("basis_x arrives", "nothing")
      /\ BasisArrives("basis_y") => Happened("basis_y arrives", "nothing")
      /\ AnswerArrives => Happened("answer arrives", "nothing")
  <2>1. ASSUME NEW what, NEW d \in Pending(what), Happens(d, {}) PROVE Happened(what, "nothing")
    <3>1. PICK evs : evs = {}
      OBVIOUS
    <3>2. Happens(d, evs)
      BY <2>1, <3>1
    <3>3. QED
      BY <3>1, <3>2 DEF Happened
  <2>2. /\ Arrival["photon"] = "photon arrives" /\ Arrival["basis_x"] = "basis_x arrives"
        /\ Arrival["basis_y"] = "basis_y arrives" /\ Arrival["answer"] = "answer arrives"
    BY DEF Arrival
  <2>3. PhotonArrives => \E d \in Pending("photon arrives") : Happens(d, {})
    BY <2>2 DEF PhotonArrives
  <2>4. BasisArrives("basis_x") => \E d \in Pending("basis_x arrives") : Happens(d, {})
    BY <2>2 DEF BasisArrives
  <2>5. BasisArrives("basis_y") => \E d \in Pending("basis_y arrives") : Happens(d, {})
    BY <2>2 DEF BasisArrives
  <2>6. AnswerArrives => \E d \in Pending("answer arrives") : Happens(d, {})
    BY <2>2 DEF AnswerArrives
  <2>7. QED
    BY <2>1, <2>3, <2>4, <2>5, <2>6
<1>7. QED
  BY <1>1, <1>2, <1>3, <1>4, <1>5, <1>6

LEMMA TimelyStep == Timely /\ [Next]_allVars => Timely'
<1> SUFFICES ASSUME Timely, [Next]_allVars PROVE Timely'
  OBVIOUS
<1>1. ASSUME NEW d \in pending, NEW evs, evs \subseteq DuesFrom(d.at), Happens(d, evs),
             \A e \in evs : e.what \in {"tap", "resend"} => Interceptors # {}
      PROVE  Timely'
  <2>1. now' \in Nat /\ pending' \subseteq DuesFrom(now')
    BY <1>1, HappensInTime
  <2>2. pending # {} /\ phase = "running"
    BY <1>1 DEF Timely, Untouched
  <2>3. attacks' = attacks /\ phase' = phase /\ pending' \subseteq pending \union evs
    BY <1>1 DEF Happens
  <2>4. (\E e \in pending' : e.what \in {"tap", "resend"}) => Interceptors # {}
    BY <1>1, <2>3 DEF Timely
  <2>5. Interceptors' = Interceptors
    BY <2>3 DEF Interceptors
  <2>6. QED
    BY <2>1, <2>2, <2>3, <2>4, <2>5 DEF Timely
<1>2. \A d \in pending : d.at \in Nat
  BY DEF Timely, DuesFrom
<1>3. \A t \in Nat : t <= t
  OBVIOUS
<1>4. CASE Allocate
  BY <1>4 DEF Allocate, Timely, Untouched, Interceptors, BackendsInit, backendVars
<1>5. CASE RoundStart
  <2>1. PICK plan : plan = AttackedPlan(attacks, Plan)
    OBVIOUS
  <2>2. {plan.challenge, plan.x, plan.y} \subseteq Nat
    BY <2>1, RoundAssumption DEF Timely
  <2>3. phase = "ready" /\ now' = now /\ attacks' = attacks /\ Untouched
    BY <1>5 DEF RoundStart, Timely
  <2>4. \A t \in Nat : t >= 0
    OBVIOUS
  <2>5. \A t \in Nat, what \in Whats : Due(t, what) \in DuesFrom(0)
    BY <2>4 DEF Due, DuesFrom
  <2>6. CASE phase' = "refused"
    BY <1>5, <2>3, <2>6 DEF RoundStart, Timely, Untouched, BackendsInit, backendVars, Interceptors
  <2>7. CASE phase' = "running"
    <3>1. pending' = {Due(plan.x, "basis_x"), Due(plan.y, "basis_y"), Due(plan.challenge, "photon")}
      BY <1>5, <2>1, <2>7 DEF RoundStart
    <3>2. {"basis_x", "basis_y", "photon"} \subseteq Whats
      BY DEF Whats
    <3>3. pending' \subseteq DuesFrom(0)
      BY <2>2, <2>5, <3>1, <3>2
    <3>4. \A d \in pending' : d.what \notin {"tap", "resend"}
      BY <3>1 DEF Due
    <3>5. QED
      BY <2>3, <2>7, <3>3, <3>4 DEF Timely, Untouched
  <2>8. QED
    BY <1>5, <2>6, <2>7 DEF RoundStart
<1>6. ASSUME NEW kind \in {"basis_x", "basis_y"}, SendBasis(kind) PROVE Timely'
  <2>1. PICK d \in Pending(kind), draw \in Draws(attacks) :
          LET tx == AttackedMessage(attacks, Transmission(kind, d.at), draw) IN
          Happens(d, IF tx.dropped THEN {} ELSE {Due(ArrivesAt(tx), Arrival[kind])})
    BY <1>6 DEF SendBasis
  <2>2. PICK tx : tx = AttackedMessage(attacks, Transmission(kind, d.at), draw)
    OBVIOUS
  <2>3. PICK evs : evs = IF tx.dropped THEN {} ELSE {Due(ArrivesAt(tx), Arrival[kind])}
    OBVIOUS
  <2>4. d \in pending /\ attacks \in AttackLists /\ Happens(d, evs) /\ d.at \in Nat
    BY <1>2, <2>1, <2>2, <2>3 DEF Pending, Timely
  <2>5. Arrival[kind] \in Whats /\ Arrival[kind] \notin {"tap", "resend"}
    <3>1. CASE kind = "basis_x"
      BY <3>1 DEF Arrival, Whats
    <3>2. CASE kind = "basis_y"
      BY <3>2 DEF Arrival, Whats
    <3>3. QED
      BY <3>1, <3>2
  <2>6. Due(ArrivesAt(tx), Arrival[kind]) \in DuesFrom(d.at)
    <3>1. kind \in {"basis_x", "basis_y", "photon", "answer"}
      OBVIOUS
    <3>2. QED
      BY <2>2, <2>4, <2>5, <3>1, SentInTime
  <2>7. evs \subseteq DuesFrom(d.at) /\ \A e \in evs : e.what \notin {"tap", "resend"}
    BY <2>3, <2>5, <2>6 DEF Due
  <2>8. QED
    BY <1>1, <2>4, <2>7
<1>7. CASE SendPhoton
  <2>1. PICK d \in Pending("photon"), draw \in Draws(attacks), lost \in LinkLosses :
          LET tx == QuantumSend(attacks, Transmission("photon", d.at), draw) IN
          Happens(d,
            IF tx.dropped \/ lost THEN {}
            ELSE IF Interceptors = {} THEN {Due(ArrivesAt(tx), Arrival["photon"])}
            ELSE {Due(d.at + Interceptor.toHim + Interceptor.process, "tap")})
    BY <1>7 DEF SendPhoton
  <2>2. PICK tx : tx = QuantumSend(attacks, Transmission("photon", d.at), draw)
    OBVIOUS
  <2>3. PICK evs : evs = IF tx.dropped \/ lost THEN {}
                         ELSE IF Interceptors = {} THEN {Due(ArrivesAt(tx), Arrival["photon"])}
                         ELSE {Due(d.at + Interceptor.toHim + Interceptor.process, "tap")}
    OBVIOUS
  <2>4. d \in pending /\ attacks \in AttackLists /\ Happens(d, evs) /\ d.at \in Nat
    BY <1>2, <2>1, <2>2, <2>3 DEF Pending, Timely
  <2>5. Arrival["photon"] \in Whats /\ Arrival["photon"] \notin {"tap", "resend"} /\ "tap" \in Whats
    BY DEF Arrival, Whats
  <2>6. Due(ArrivesAt(tx), Arrival["photon"]) \in DuesFrom(d.at)
    BY <2>2, <2>4, <2>5, SentInTime
  <2>7. ASSUME Interceptors # {}
        PROVE  Due(d.at + Interceptor.toHim + Interceptor.process, "tap") \in DuesFrom(d.at)
    <3>1. PICK t, a, b : t = d.at /\ a = Interceptor.toHim /\ b = Interceptor.process
      OBVIOUS
    <3>2. t \in Nat /\ a \in Nat /\ b \in Nat
      BY <2>4, <2>7, <3>1, InterceptorIsOne
    <3>3. t + a + b \in Nat /\ t + a + b >= t
      BY <3>2
    <3>4. QED
      BY <2>5, <3>1, <3>2, <3>3, DueIsDue, Zenon
  <2>8. evs \subseteq DuesFrom(d.at)
    BY <2>3, <2>6, <2>7
  <2>9. \A e \in evs : e.what \in {"tap", "resend"} => Interceptors # {}
    BY <2>3, <2>5 DEF Due
  <2>10. QED
    BY <1>1, <2>4, <2>8, <2>9
<1>8. CASE Tap \/ Resend
  <2>1. PICK d \in pending, what \in {"tap", "resend"}, after \in Whats,
              plus \in {Interceptor.prepare, Interceptor.toProver} :
          d.what = what /\ Happens(d, {Due(d.at + plus, after)})
    BY <1>8 DEF Tap, Resend, Pending, Whats, Arrival
  <2>2. Interceptors # {} /\ attacks \in AttackLists
    BY <2>1 DEF Timely
  <2>3. PICK t : t = d.at
    OBVIOUS
  <2>4. t \in Nat /\ plus \in Nat
    BY <1>2, <2>1, <2>2, <2>3, InterceptorIsOne
  <2>5. t + plus \in Nat /\ t + plus >= t
    BY <2>4
  <2>6. Due(d.at + plus, after) \in DuesFrom(d.at)
    BY <2>3, <2>4, <2>5, DueIsDue, Zenon
  <2>7. PICK evs : evs = {Due(d.at + plus, after)}
    OBVIOUS
  <2>8. evs \subseteq DuesFrom(d.at) /\ Happens(d, evs)
    BY <2>1, <2>6, <2>7
  <2>9. QED
    BY <1>1, <2>2, <2>8
<1>9. CASE PhotonArrives \/ BasisArrives("basis_x") \/ BasisArrives("basis_y") \/ AnswerArrives
  <2>1. PICK d \in pending : Happens(d, {})
    BY <1>9 DEF PhotonArrives, BasisArrives, AnswerArrives, Pending
  <2>2. QED
    BY <1>1, <2>1
<1>10. CASE V0Measures
  <2>1. phase = "running"
    BY <1>10 DEF V0Measures, CanMeasure, Timely, Untouched
  <2>2. QED
    BY <1>10, <2>1 DEF V0Measures, Timely, Interceptors
<1>11. CASE ProverMeasures
  <2>1. phase = "running"
    BY <1>11 DEF ProverMeasures, CanMeasure, Timely, Untouched
  <2>2. PICK draw \in Draws(attacks) :
          LET tx == AttackedMessage(attacks, Transmission("answer", now), draw) IN
          pending' = pending \union IF tx.dropped THEN {}
                                    ELSE {Due(ArrivesAt(tx), Arrival["answer"])}
    BY <1>11 DEF ProverMeasures
  <2>3. PICK tx : tx = AttackedMessage(attacks, Transmission("answer", now), draw)
    OBVIOUS
  <2>4. Arrival["answer"] \in Whats /\ Arrival["answer"] \notin {"tap", "resend"}
    BY DEF Arrival, Whats
  <2>5. Due(ArrivesAt(tx), Arrival["answer"]) \in DuesFrom(now)
    BY <2>3, <2>4, SentInTime DEF Timely
  <2>6. pending' = pending \/ pending' = pending \union {Due(ArrivesAt(tx), Arrival["answer"])}
    BY <2>2, <2>3
  <2>7. pending' \subseteq DuesFrom(now)
    BY <2>5, <2>6 DEF Timely
  <2>8. (\E e \in pending' : e.what \in {"tap", "resend"}) => Interceptors # {}
    BY <2>4, <2>6 DEF Timely, Due
  <2>9. QED
    BY <1>11, <2>1, <2>7, <2>8 DEF ProverMeasures, Timely, Interceptors
<1>12. CASE SendReport
  BY <1>12 DEF SendReport, Timely, Interceptors
<1>13. CASE UNCHANGED allVars
  BY <1>13 DEF allVars, roundVars, backendVars, Timely, Untouched, BackendsInit, Interceptors
<1>14. CASE Done
  BY <1>13, <1>14 DEF Done
<1>15. QED
  BY <1>4, <1>5, <1>6, <1>7, <1>8, <1>9, <1>10, <1>11, <1>12, <1>13, <1>14 DEF Next

\* Every transmission that left is as its kind of attack makes it.
SentAs(as, tx) ==
  /\ tx.type # None => MessageFate(as, tx, Jammers(as, tx))
  /\ tx.type = None => PhotonFate(as, tx, PhotonJammers(as, tx))

AllSentAs == \A tx \in sent : SentAs(attacks, tx)

LEMMA AllSentAsJammed == AllSentAs <=> MessagesAsJammed /\ PhotonAsJammed
BY Zenon DEF AllSentAs, SentAs, MessagesAsJammed, PhotonAsJammed, MessageFate, PhotonFate,
             Jammers, PhotonJammers

LEMMA NewIsAsJammed ==
  ASSUME NEW as \in AttackLists, NEW t \in Nat, NEW draw \in Draws(as),
         NEW kind \in {"basis_x", "basis_y", "answer"}
  PROVE  /\ SentAs(as, AttackedMessage(as, Transmission(kind, t), draw))
         /\ SentAs(as, QuantumSend(as, Transmission("photon", t), draw))
<1>1. PICK n : n \in Nat /\ IsList(as, n)
  BY AttackListsAreLists DEF IsList
<1>2. PICK raw, m : raw = Transmission(kind, t) /\ m = AttackedMessage(as, raw, draw)
  OBVIOUS
<1>3. PICK flash, q : flash = Transmission("photon", t) /\ q = QuantumSend(as, flash, draw)
  OBVIOUS
<1>4. kind \in {"basis_x", "basis_y", "photon", "answer"}
  OBVIOUS
<1>5. raw \in JammedFrom(as, raw) /\ Fresh(raw) /\ raw.type = kind /\ kind # None
  <2>1. raw \in JammedFrom(as, raw) /\ Fresh(raw) /\ raw.type = TypeOf(kind)
    <3>1. raw \in JammedFrom(as, raw)
      BY <1>2, <1>4, FreshTransmission
    <3>2. Fresh(raw)
      BY <1>2, <1>4, FreshTransmission
    <3>3. QED
      BY <1>2, <3>1, <3>2 DEF Transmission
  <2>2. TypeOf(kind) = kind /\ kind # None
    BY RoundAssumption DEF TypeOf
  <2>3. QED
    BY <2>1, <2>2
<1>6. m \in JammedFrom(as, raw) /\ MessageFate(as, m, Jammers(as, m))
  BY <1>1, <1>2, <1>5, MessageIsAsJammed
<1>7. flash \in JammedFrom(as, flash) /\ Fresh(flash) /\ flash.type = None
  <2>1. flash \in JammedFrom(as, flash) /\ Fresh(flash) /\ flash.type = TypeOf("photon")
    BY <1>3, FreshTransmission
  <2>2. QED
    BY <2>1 DEF TypeOf
<1>8. q \in JammedFrom(as, flash) /\ PhotonFate(as, q, PhotonJammers(as, q))
  BY <1>1, <1>3, <1>7, PhotonIsAsJammed
<1>9. m.type # None /\ q.type = None
  BY <1>5, <1>6, <1>7, <1>8 DEF JammedFrom
<1>10. QED
  BY <1>2, <1>3, <1>6, <1>8, <1>9 DEF SentAs

LEMMA SentStep == Timely /\ AllSentAs /\ [Next]_allVars => AllSentAs'
<1> SUFFICES ASSUME Timely, AllSentAs, [Next]_allVars PROVE AllSentAs'
  OBVIOUS
<1>1. ASSUME NEW tx, SentAs(attacks, tx), attacks' = attacks, sent' = sent \union {tx}
      PROVE  AllSentAs'
  BY <1>1 DEF AllSentAs
<1>2. attacks \in AttackLists /\ now \in Nat /\ \A d \in pending : d.at \in Nat
  BY DEF Timely, DuesFrom
<1>3. ASSUME NEW kind \in {"basis_x", "basis_y"}, SendBasis(kind) PROVE AllSentAs'
  <2>1. PICK d \in pending, draw \in Draws(attacks) :
          /\ attacks' = attacks
          /\ sent' = sent \union {AttackedMessage(attacks, Transmission(kind, d.at), draw)}
    BY <1>3 DEF SendBasis, Pending, Happens
  <2>2. kind \in {"basis_x", "basis_y", "answer"} /\ d.at \in Nat
    BY <1>2
  <2>3. SentAs(attacks, AttackedMessage(attacks, Transmission(kind, d.at), draw))
    BY <1>2, <2>2, NewIsAsJammed
  <2>4. QED
    BY <1>1, <2>1, <2>3
<1>4. CASE SendPhoton
  <2>1. PICK d \in pending, draw \in Draws(attacks) :
          /\ attacks' = attacks
          /\ sent' = sent \union {QuantumSend(attacks, Transmission("photon", d.at), draw)}
    BY <1>4 DEF SendPhoton, Pending, Happens
  <2>2. "answer" \in {"basis_x", "basis_y", "answer"} /\ d.at \in Nat
    BY <1>2
  <2>3. SentAs(attacks, QuantumSend(attacks, Transmission("photon", d.at), draw))
    BY <1>2, <2>2, NewIsAsJammed
  <2>4. QED
    BY <1>1, <2>1, <2>3
<1>5. CASE ProverMeasures
  <2>1. PICK draw \in Draws(attacks) :
          /\ attacks' = attacks
          /\ sent' = sent \union {AttackedMessage(attacks, Transmission("answer", now), draw)}
    BY <1>5 DEF ProverMeasures
  <2>2. SentAs(attacks, AttackedMessage(attacks, Transmission("answer", now), draw))
    BY <1>2, NewIsAsJammed
  <2>3. QED
    BY <1>1, <2>1, <2>2
<1>6. ASSUME sent' = sent, attacks' = attacks PROVE AllSentAs'
  BY <1>6 DEF AllSentAs
<1>7. CASE Allocate \/ RoundStart \/ Tap \/ Resend \/ PhotonArrives \/ BasisArrives("basis_x")
           \/ BasisArrives("basis_y") \/ V0Measures \/ AnswerArrives \/ SendReport \/ Done
           \/ UNCHANGED allVars
  <2>1. sent' = sent /\ attacks' = attacks
    BY <1>7 DEF Allocate, RoundStart, Tap, Resend, PhotonArrives, BasisArrives, V0Measures,
                AnswerArrives, SendReport, Done, Happens, allVars, roundVars
  <2>2. QED
    BY <1>6, <2>1
<1>8. QED
  BY <1>3, <1>4, <1>5, <1>7 DEF Next

LEMMA AllSentAlways == Spec => []AllSentAs
<1>1. Init => Timely /\ AllSentAs
  BY TimelyInit DEF Init, AllSentAs
<1>2. (Timely /\ AllSentAs) /\ [Next]_allVars => (Timely /\ AllSentAs)'
  BY TimelyStep, SentStep
<1>3. QED
  BY <1>1, <1>2, PTL DEF Spec

\* A message has the losses, the delay and the ids of the jammers active when it
\* left, however many there are and in whichever order (alter_classical,
\* SelectiveJammingAttack).
THEOREM MessagesAreAsJammed == Spec => []MessagesAsJammed
<1>1. AllSentAs => MessagesAsJammed
  BY AllSentAsJammed
<1>2. QED
  BY <1>1, AllSentAlways, PTL

\* A photon once lost stays lost; one that got through was let through by every
\* active jammer (decide_quantum_send).
THEOREM PhotonsAreAsJammed == Spec => []PhotonAsJammed
<1>1. AllSentAs => PhotonAsJammed
  BY AllSentAsJammed
<1>2. QED
  BY <1>1, AllSentAlways, PTL

-----------------------------------------------------------------------------
(* What the attacks make of the plan. *)

Ids(as) == Seq({as[i].id : i \in DOMAIN as})

Plans(as) == [challenge : Int, x : Int, y : Int, expectedOriginal : BOOLEAN, ids : Ids(as)]

LEMMA IdsGrow ==
  ASSUME NEW as, NEW ids \in Ids(as), NEW i \in DOMAIN as
  PROVE  Append(ids, as[i].id) \in Ids(as)
<1>1. as[i].id \in {as[j].id : j \in DOMAIN as}
  OBVIOUS
<1>2. QED
  BY <1>1, AppendProperties DEF Ids

LEMMA PlanBase ==
  ASSUME NEW as
  PROVE  Plan \in Plans(as)
<1>1. Plan \in [challenge : Nat, x : Nat, y : Nat, expectedOriginal : {TRUE}, ids : {<<>>}]
  BY RoundAssumption
<1>2. <<>> \in Ids(as)
  BY DEF Ids
<1>3. \A k \in Nat : k \in Int
  OBVIOUS
<1>4. /\ Plan = [challenge |-> Plan.challenge, x |-> Plan.x, y |-> Plan.y,
                 expectedOriginal |-> Plan.expectedOriginal, ids |-> Plan.ids]
      /\ Plan.challenge \in Int /\ Plan.x \in Int /\ Plan.y \in Int
      /\ Plan.expectedOriginal \in BOOLEAN /\ Plan.ids \in Ids(as)
  BY <1>1, <1>2, <1>3
<1>5. QED
  BY <1>4 DEF Plans

LEMMA PlanTypes ==
  ASSUME NEW as, NEW n \in Nat, IsList(as, n), NEW i \in DOMAIN as, NEW p \in Plans(as)
  PROVE  AlterPlan(as[i], p) \in Plans(as)
<1>1. CASE as[i].kind = "skew"
  <2>1. IsAttack(as[i])
    BY DEF IsList
  <2>2. PICK a, b, c : a = as[i].challenge /\ b = as[i].x /\ c = as[i].y
    OBVIOUS
  <2>3. a \in Int /\ b \in Int /\ c \in Int /\ as[i].seen \in BOOLEAN
    BY <1>1, <2>1, <2>2 DEF IsAttack
  <2>4. /\ p.challenge + a \in Int /\ p.x + b \in Int /\ p.y + c \in Int
        /\ Append(p.ids, as[i].id) \in Ids(as)
    <3>1. p.challenge \in Int /\ p.x \in Int /\ p.y \in Int /\ p.ids \in Ids(as)
      BY DEF Plans
    <3>2. Append(p.ids, as[i].id) \in Ids(as)
      BY <3>1, IdsGrow
    <3>3. \A k \in Int, l \in Int : k + l \in Int
      OBVIOUS
    <3>4. QED
      BY <2>3, <3>1, <3>2, <3>3, Zenon
  <2>5. QED
    BY <1>1, <2>2, <2>3, <2>4 DEF Plans, AlterPlan
<1>2. CASE as[i].kind # "skew"
  BY <1>2 DEF AlterPlan
<1>3. QED
  BY <1>1, <1>2

\* The plans between one attack and the next.
PlanAt(h, as, n) ==
  /\ h[0] = Plan /\ h[n] = AttackedPlan(as, Plan)
  /\ \A i \in 0 .. n : h[i] \in Plans(as)
  /\ \A i \in 1 .. n : h[i] = AlterPlan(as[i], h[i - 1])

LEMMA PlanSteps ==
  ASSUME NEW as, NEW n \in Nat, IsList(as, n)
  PROVE  \E h : PlanAt(h, as, n)
<1> DEFINE S == Plans(as)
           step == [p \in (1 .. n) \X S |-> AlterPlan(as[p[1]], p[2])]
           Is(it) == it = [s \in SUBSET (DOMAIN as) |->
                             IF s = {} THEN Plan
                             ELSE AlterPlan(as[Max(s)], it[s \ {Max(s)}])]
<1>1. n \in Nat /\ DOMAIN as = 1 .. n /\ Plan \in S
  BY PlanBase DEF IsList
<1>2. ASSUME NEW i \in 1 .. n, NEW v \in S
      PROVE  step[<<i, v>>] = AlterPlan(as[i], v) /\ step[<<i, v>>] \in S
  <2>1. AlterPlan(as[i], v) \in S
    BY <1>1, PlanTypes
  <2>2. QED
    BY <2>1
<1>3. AttackedPlan(as, Plan) = (CHOOSE it : Is(it))[DOMAIN as]
  BY Zenon DEF AttackedPlan, FoldLeft, MapThenFoldSet
<1> HIDE DEF S, step
<1>4. PICK some : IsFold(some, n, S, Plan, step)
  BY <1>1, <1>2, FoldExists
<1>5. Is(some)
  <2>1. ASSUME NEW s \in SUBSET (1 .. n), s # {}
        PROVE  some[s] = AlterPlan(as[Max(s)], some[s \ {Max(s)}])
    <3>1. /\ Max(s) \in 1 .. n /\ some[s \ {Max(s)}] \in S
          /\ some[s] = step[<<Max(s), some[s \ {Max(s)}]>>]
      BY <1>4, <2>1 DEF IsFold
    <3>2. QED
      BY <1>2, <3>1
  <2>2. some = [s \in SUBSET (1 .. n) |-> some[s]] /\ some[{}] = Plan
    BY <1>4 DEF IsFold
  <2>3. QED
    BY <1>1, <2>1, <2>2
<1>6. PICK it : Is(it) /\ AttackedPlan(as, Plan) = it[1 .. n]
  BY <1>1, <1>3, <1>5
<1>7. GoesOn(it, n, S, Plan, step)
  <2>1. \A s \in SUBSET (1 .. n) :
          it[s] = IF s = {} THEN Plan ELSE AlterPlan(as[Max(s)], it[s \ {Max(s)}])
    BY <1>1, <1>6
  <2>2. it[{}] = Plan
    BY <2>1
  <2>3. ASSUME NEW s \in SUBSET (1 .. n), s # {}, it[s \ {Max(s)}] \in S
        PROVE  it[s] = step[<<Max(s), it[s \ {Max(s)}]>>]
    <3>1. Max(s) \in 1 .. n
      BY <2>3, MaxIsThere
    <3>2. it[s] = AlterPlan(as[Max(s)], it[s \ {Max(s)}])
      BY <2>1, <2>3
    <3>3. QED
      BY <1>2, <2>3, <3>1, <3>2
  <2>4. QED
    BY <2>2, <2>3 DEF GoesOn
<1>8. PICK h : Steps(h, n, S, Plan, step, it[1 .. n])
  BY <1>1, <1>2, <1>7, StepsExist
<1>9. ASSUME NEW i \in 1 .. n PROVE h[i] = AlterPlan(as[i], h[i - 1])
  <2>1. i - 1 \in 0 .. n
    BY <1>1
  <2>2. h[i - 1] \in S /\ h[i] = step[<<i, h[i - 1]>>]
    BY <1>8, <2>1 DEF Steps
  <2>3. QED
    BY <1>2, <2>2
<1>10. QED
  BY <1>6, <1>8, <1>9 DEF PlanAt, Steps, S

-----------------------------------------------------------------------------
(* What the attacks make of the inventory. *)

Told(as) == {T2[d] : d \in DOMAIN T2} \union {as[i].fields.t2_ps : i \in OfKind(as, "poison")}

Device(as) == [physical : {[t2_ps |-> T2[d]] : d \in DOMAIN T2},
               reported : {[t2_ps |-> v] : v \in Told(as)}, ids : Ids(as)]

Inventories(as) == [nodes : {Nodes}, devices : [DOMAIN T2 -> Device(as)]]

LEMMA InventoryBase ==
  ASSUME NEW as
  PROVE  Snapshot(Nodes, T2) \in Inventories(as)
<1>1. <<>> \in Ids(as)
  BY DEF Ids
<1>2. \A d \in DOMAIN T2 : [physical |-> [t2_ps |-> T2[d]], reported |-> [t2_ps |-> T2[d]],
                            ids |-> <<>>] \in Device(as)
  BY <1>1 DEF Device, Told
<1>3. QED
  BY <1>2 DEF Snapshot, Inventories

Poisoned(a, dev) == [dev EXCEPT !.reported = Merged(a.fields, @), !.ids = Append(@, a.id)]

WithPoison(a, s, d) == [s EXCEPT !.devices[d] = Poisoned(a, s.devices[d])]

Alters(a, s, d) == AlterInventory(a, s) = WithPoison(a, s, d)

LEMMA OneDevice ==
  ASSUME NEW as, NEW s \in Inventories(as), NEW a, NEW d \in DOMAIN T2,
         a.kind = "poison", a.device = d
  PROVE  Alters(a, s, d)
<1>1. DOMAIN s.devices = DOMAIN T2 /\ s.devices[d] \in Device(as)
  BY DEF Inventories
<1>2. PICK dev : dev = Poisoned(a, s.devices[d])
  OBVIOUS
<1>3. QED
  BY <1>1, <1>2 DEF AlterInventory, Inventories, Device, Poisoned, Alters, WithPoison

LEMMA InventoryTypes ==
  ASSUME NEW as, NEW n \in Nat, IsList(as, n), NEW i \in DOMAIN as, NEW s \in Inventories(as)
  PROVE  AlterInventory(as[i], s) \in Inventories(as)
<1>1. CASE as[i].kind = "poison" /\ as[i].device \in DOMAIN s.devices
  <2>1. PICK d \in DOMAIN T2 : d = as[i].device
    BY <1>1 DEF Inventories
  <2>2. DOMAIN as[i].fields = {"t2_ps"}
    BY <1>1 DEF IsList, IsAttack
  <2>3. s.devices[d] \in Device(as)
    BY DEF Inventories
  <2>4. PICK dev : dev = Poisoned(as[i], s.devices[d])
    OBVIOUS
  <2>5. PICK v \in Told(as) : s.devices[d].reported = [t2_ps |-> v]
    BY <2>3 DEF Device
  <2>6. Merged(as[i].fields, s.devices[d].reported) = [t2_ps |-> as[i].fields.t2_ps]
    <3>1. DOMAIN [t2_ps |-> v] = {"t2_ps"}
      OBVIOUS
    <3>2. PICK f, g : f = as[i].fields /\ g = s.devices[d].reported
      OBVIOUS
    <3>3. DOMAIN f = {"t2_ps"} /\ DOMAIN g = {"t2_ps"}
      BY <2>2, <2>5, <3>1, <3>2
    <3>4. Merged(f, g) = [x \in {"t2_ps"} |-> f[x]]
      BY <3>3 DEF Merged
    <3>5. [x \in {"t2_ps"} |-> f[x]] = [t2_ps |-> f.t2_ps]
      OBVIOUS
    <3>6. QED
      BY <3>2, <3>4, <3>5
  <2>7. as[i].fields.t2_ps \in Told(as)
    BY <1>1 DEF Told, OfKind
  <2>8. Append(s.devices[d].ids, as[i].id) \in Ids(as)
    BY <2>3, IdsGrow DEF Device
  <2>9. dev \in Device(as)
    BY <2>3, <2>4, <2>6, <2>7, <2>8 DEF Device, Poisoned
  <2>10. AlterInventory(as[i], s) = [s EXCEPT !.devices[d] = dev]
    <3>1. as[i].kind = "poison" /\ as[i].device = d
      BY <1>1, <2>1
    <3>2. Alters(as[i], s, d)
      BY <3>1, OneDevice
    <3>3. QED
      BY <2>4, <3>2 DEF Alters, WithPoison
  <2>11. QED
    BY <2>9, <2>10 DEF Inventories
<1>2. CASE ~ (as[i].kind = "poison" /\ as[i].device \in DOMAIN s.devices)
  BY <1>2 DEF AlterInventory
<1>3. QED
  BY <1>1, <1>2

\* The inventories between one attack and the next.
InventoryAt(h, as, n) ==
  /\ h[0] = Snapshot(Nodes, T2) /\ h[n] = AttackedInventory(as, Snapshot(Nodes, T2))
  /\ \A i \in 0 .. n : h[i] \in Inventories(as)
  /\ \A i \in 1 .. n : h[i] = AlterInventory(as[i], h[i - 1])

LEMMA InventorySteps ==
  ASSUME NEW as, NEW n \in Nat, IsList(as, n)
  PROVE  \E h : InventoryAt(h, as, n)
<1> DEFINE S == Inventories(as)
           step == [p \in (1 .. n) \X S |-> AlterInventory(as[p[1]], p[2])]
           Is(it) == it = [s \in SUBSET (DOMAIN as) |->
                             IF s = {} THEN Snapshot(Nodes, T2)
                             ELSE AlterInventory(as[Max(s)], it[s \ {Max(s)}])]
<1>1. n \in Nat /\ DOMAIN as = 1 .. n /\ Snapshot(Nodes, T2) \in S
  BY InventoryBase DEF IsList
<1>2. ASSUME NEW i \in 1 .. n, NEW v \in S
      PROVE  step[<<i, v>>] = AlterInventory(as[i], v) /\ step[<<i, v>>] \in S
  <2>1. AlterInventory(as[i], v) \in S
    BY <1>1, InventoryTypes
  <2>2. QED
    BY <2>1
<1>3. AttackedInventory(as, Snapshot(Nodes, T2)) = (CHOOSE it : Is(it))[DOMAIN as]
  BY Zenon DEF AttackedInventory, FoldLeft, MapThenFoldSet
<1> HIDE DEF S, step
<1>4. PICK some : IsFold(some, n, S, Snapshot(Nodes, T2), step)
  BY <1>1, <1>2, FoldExists
<1>5. Is(some)
  <2>1. ASSUME NEW s \in SUBSET (1 .. n), s # {}
        PROVE  some[s] = AlterInventory(as[Max(s)], some[s \ {Max(s)}])
    <3>1. /\ Max(s) \in 1 .. n /\ some[s \ {Max(s)}] \in S
          /\ some[s] = step[<<Max(s), some[s \ {Max(s)}]>>]
      BY <1>4, <2>1 DEF IsFold
    <3>2. QED
      BY <1>2, <3>1
  <2>2. some = [s \in SUBSET (1 .. n) |-> some[s]] /\ some[{}] = Snapshot(Nodes, T2)
    BY <1>4 DEF IsFold
  <2>3. QED
    BY <1>1, <2>1, <2>2
<1>6. PICK it : Is(it) /\ AttackedInventory(as, Snapshot(Nodes, T2)) = it[1 .. n]
  BY <1>1, <1>3, <1>5
<1>7. GoesOn(it, n, S, Snapshot(Nodes, T2), step)
  <2>1. \A s \in SUBSET (1 .. n) :
          it[s] = IF s = {} THEN Snapshot(Nodes, T2) ELSE AlterInventory(as[Max(s)], it[s \ {Max(s)}])
    BY <1>1, <1>6
  <2>2. it[{}] = Snapshot(Nodes, T2)
    BY <2>1
  <2>3. ASSUME NEW s \in SUBSET (1 .. n), s # {}, it[s \ {Max(s)}] \in S
        PROVE  it[s] = step[<<Max(s), it[s \ {Max(s)}]>>]
    <3>1. Max(s) \in 1 .. n
      BY <2>3, MaxIsThere
    <3>2. it[s] = AlterInventory(as[Max(s)], it[s \ {Max(s)}])
      BY <2>1, <2>3
    <3>3. QED
      BY <1>2, <2>3, <3>1, <3>2
  <2>4. QED
    BY <2>2, <2>3 DEF GoesOn
<1>8. PICK h : Steps(h, n, S, Snapshot(Nodes, T2), step, it[1 .. n])
  BY <1>1, <1>2, <1>7, StepsExist
<1>9. ASSUME NEW i \in 1 .. n PROVE h[i] = AlterInventory(as[i], h[i - 1])
  <2>1. i - 1 \in 0 .. n
    BY <1>1
  <2>2. h[i - 1] \in S /\ h[i] = step[<<i, h[i - 1]>>]
    BY <1>8, <2>1 DEF Steps
  <2>3. QED
    BY <1>2, <2>2
<1>10. QED
  BY <1>6, <1>8, <1>9 DEF InventoryAt, Steps, S

\* What the skews of the list add to a time of the plan.
ShiftsOf(as, f) == [i \in DOMAIN as |-> IF i \in OfKind(as, "skew") THEN as[i][f] ELSE 0]

Shifted(p, as, f) == p[f] \in Int /\ p[f] = Plan[f] + Total(ShiftsOf(as, f))

LEMMA SumsUp ==
  ASSUME NEW n \in Nat, NEW c \in [1 .. n -> Int], NEW g, g[0] \in Int,
         \A i \in 1 .. n : g[i] = g[i - 1] + c[i]
  PROVE  g[n] \in Int /\ g[n] = g[0] + Total(c)
<1>1. PICK sums : Sums(sums, n, c) /\ sums[n] = Total(c)
  BY TotalSteps
<1> DEFINE P == {i \in 0 .. n : g[i] \in Int /\ sums[i] \in Int /\ g[i] = g[0] + sums[i]}
<1>2. 0 \in P
  BY <1>1 DEF Sums
<1>3. ASSUME NEW i \in 0 .. n, i \in P, i < n PROVE i + 1 \in P
  <2>1. i + 1 \in 1 .. n /\ i + 1 \in 0 .. n /\ (i + 1) - 1 = i
    BY <1>3
  <2>2. g[i + 1] = g[i] + c[i + 1] /\ sums[i + 1] = sums[i] + c[i + 1] /\ c[i + 1] \in Int
    BY <1>1, <2>1 DEF Sums
  <2>3. QED
    BY <1>3, <2>1, <2>2
<1>4. n \in P
  <2> HIDE DEF P
  <2>1. \A i \in 0 .. n : i \in P
    BY <1>2, <1>3, InductionTo
  <2>2. QED
    BY <2>1
<1>5. QED
  BY <1>1, <1>4

LEMMA ShiftsAreNumbers ==
  ASSUME NEW as, NEW n \in Nat, IsList(as, n)
  PROVE  /\ ShiftsOf(as, "x") \in [1 .. n -> Int] /\ ShiftsOf(as, "y") \in [1 .. n -> Int]
         /\ ShiftsOf(as, "challenge") \in [1 .. n -> Int]
<1>1. DOMAIN as = 1 .. n /\ 0 \in Int
  BY DEF IsList
<1>2. ASSUME NEW i \in OfKind(as, "skew")
      PROVE  as[i]["x"] \in Int /\ as[i]["y"] \in Int /\ as[i]["challenge"] \in Int
  <2>1. IsAttack(as[i]) /\ as[i].kind = "skew"
    BY <1>1 DEF OfKind, IsList
  <2>2. QED
    BY <2>1 DEF IsAttack
<1>3. QED
  BY <1>1, <1>2, Zenon DEF ShiftsOf

\* The times of the plan, and what the controller is to go by.
LEMMA PlanIsShifted ==
  ASSUME NEW as, NEW n \in Nat, IsList(as, n), NEW p, p = AttackedPlan(as, Plan)
  PROVE  /\ p \in Plans(as)
         /\ Shifted(p, as, "x") /\ Shifted(p, as, "y") /\ Shifted(p, as, "challenge")
         /\ LET skews == OfKind(as, "skew") IN
            skews # {} => p.expectedOriginal = ~as[Max(skews)].seen
<1>1. PICK h : PlanAt(h, as, n)
  BY PlanSteps
<1>2. /\ h[0] = Plan /\ h[n] = p /\ \A i \in 0 .. n : h[i] \in Plans(as)
      /\ \A i \in 1 .. n : h[i] = AlterPlan(as[i], h[i - 1])
      /\ \A i \in 1 .. n : i - 1 \in 0 .. n /\ i \in 0 .. n
  <2>1. \A i \in 1 .. n : i - 1 \in 0 .. n /\ i \in 0 .. n
    OBVIOUS
  <2>2. QED
    BY <1>1, <2>1, Zenon DEF PlanAt
<1>3. DOMAIN as = 1 .. n /\ n \in 0 .. n /\ 0 \in 0 .. n
  BY DEF IsList
<1>4. ASSUME NEW i \in 1 .. n
      PROVE  /\ h[i].x = h[i - 1].x + ShiftsOf(as, "x")[i]
             /\ h[i].y = h[i - 1].y + ShiftsOf(as, "y")[i]
             /\ h[i].challenge = h[i - 1].challenge + ShiftsOf(as, "challenge")[i]
  <2>1. PICK before : before = h[i - 1]
    OBVIOUS
  <2>2. before \in Plans(as) /\ h[i] = AlterPlan(as[i], before)
    BY <1>2, <2>1
  <2>3. before.x \in Int /\ before.y \in Int /\ before.challenge \in Int
    BY <2>2 DEF Plans
  <2>4. CASE i \in OfKind(as, "skew")
    <3>1. as[i].kind = "skew"
      BY <2>4 DEF OfKind
    <3>2. /\ h[i].x = before.x + as[i].x /\ h[i].y = before.y + as[i].y
          /\ h[i].challenge = before.challenge + as[i].challenge
      BY <2>2, <3>1 DEF AlterPlan, Plans
    <3>3. /\ ShiftsOf(as, "x")[i] = as[i].x /\ ShiftsOf(as, "y")[i] = as[i].y
          /\ ShiftsOf(as, "challenge")[i] = as[i].challenge
      BY <1>3, <2>4 DEF ShiftsOf
    <3>4. QED
      BY <2>1, <3>2, <3>3, Zenon
  <2>5. CASE i \notin OfKind(as, "skew")
    <3>1. h[i] = before
      BY <1>3, <2>2, <2>5 DEF AlterPlan, OfKind
    <3>2. /\ ShiftsOf(as, "x")[i] = 0 /\ ShiftsOf(as, "y")[i] = 0
          /\ ShiftsOf(as, "challenge")[i] = 0
      BY <1>3, <2>5 DEF ShiftsOf
    <3>3. \A k \in Int : k + 0 = k
      OBVIOUS
    <3>4. QED
      BY <2>1, <2>3, <3>1, <3>2, <3>3, Zenon
  <2>6. QED
    BY <2>4, <2>5
<1>5. Plan.x \in Int /\ Plan.y \in Int /\ Plan.challenge \in Int
  BY PlanBase DEF Plans
<1>6. Shifted(p, as, "x")
  <2> DEFINE g == [i \in 0 .. n |-> h[i].x]
  <2>1. g[0] = Plan.x /\ g[n] = p.x /\ g[0] \in Int
    BY <1>2, <1>3, <1>5
  <2>2. \A i \in 1 .. n : g[i] = g[i - 1] + ShiftsOf(as, "x")[i]
    BY <1>2, <1>4
  <2> HIDE DEF g
  <2>3. PICK c : c = ShiftsOf(as, "x") /\ c \in [1 .. n -> Int]
    BY ShiftsAreNumbers
  <2>4. g[n] \in Int /\ g[n] = g[0] + Total(c)
    BY <2>1, <2>2, <2>3, SumsUp
  <2>5. QED
    BY <2>1, <2>3, <2>4 DEF Shifted
<1>7. Shifted(p, as, "y")
  <2> DEFINE g == [i \in 0 .. n |-> h[i].y]
  <2>1. g[0] = Plan.y /\ g[n] = p.y /\ g[0] \in Int
    BY <1>2, <1>3, <1>5
  <2>2. \A i \in 1 .. n : g[i] = g[i - 1] + ShiftsOf(as, "y")[i]
    BY <1>2, <1>4
  <2> HIDE DEF g
  <2>3. PICK c : c = ShiftsOf(as, "y") /\ c \in [1 .. n -> Int]
    BY ShiftsAreNumbers
  <2>4. g[n] \in Int /\ g[n] = g[0] + Total(c)
    BY <2>1, <2>2, <2>3, SumsUp
  <2>5. QED
    BY <2>1, <2>3, <2>4 DEF Shifted
<1>8. Shifted(p, as, "challenge")
  <2> DEFINE g == [i \in 0 .. n |-> h[i].challenge]
  <2>1. g[0] = Plan.challenge /\ g[n] = p.challenge /\ g[0] \in Int
    BY <1>2, <1>3, <1>5
  <2>2. \A i \in 1 .. n : g[i] = g[i - 1] + ShiftsOf(as, "challenge")[i]
    BY <1>2, <1>4
  <2> HIDE DEF g
  <2>3. PICK c : c = ShiftsOf(as, "challenge") /\ c \in [1 .. n -> Int]
    BY ShiftsAreNumbers
  <2>4. g[n] \in Int /\ g[n] = g[0] + Total(c)
    BY <2>1, <2>2, <2>3, SumsUp
  <2>5. QED
    BY <2>1, <2>3, <2>4 DEF Shifted
<1> DEFINE skews == OfKind(as, "skew")
           Goes(i) == First(skews, i) # {} =>
                        h[i].expectedOriginal = ~as[Max(First(skews, i))].seen
           P == {i \in 0 .. n : Goes(i)}
<1>9. skews \subseteq 1 .. n
  BY <1>3 DEF OfKind
<1>10. 0 \in P
  BY <1>3, <1>9, FirstAndLast
<1>11. ASSUME NEW i \in 0 .. n, i \in P, i < n PROVE i + 1 \in P
  <2>1. PICK j : j = i + 1
    OBVIOUS
  <2>2. j \in 1 .. n /\ j \in 0 .. n /\ j - 1 = i /\ i \in Nat
    BY <1>11, <2>1
  <2>3. h[j] = AlterPlan(as[j], h[i])
    BY <1>2, <2>2, Zenon
  <2>4. OneMore(skews, i, j)
    BY <1>9, <2>1, <2>2, FirstNext
  <2>5. CASE j \in skews
    <3>1. h[i] \in Plans(as) /\ as[j].kind = "skew"
      BY <1>2, <2>5 DEF OfKind
    <3>2. h[j].expectedOriginal = ~as[j].seen
      BY <2>3, <3>1 DEF AlterPlan, Plans
    <3>3. Max(First(skews, j)) = j
      BY <2>4, <2>5 DEF OneMore
    <3>4. QED
      BY <2>1, <2>2, <3>2, <3>3
  <2>6. CASE j \notin skews
    <3>1. h[j] = h[i]
      BY <1>3, <2>2, <2>3, <2>6 DEF AlterPlan, OfKind
    <3>2. First(skews, j) = First(skews, i)
      BY <2>4, <2>6 DEF OneMore
    <3>3. QED
      BY <1>11, <2>1, <2>2, <3>1, <3>2
  <2>7. QED
    BY <2>5, <2>6
<1>12. n \in P
  <2> HIDE DEF P
  <2>1. \A i \in 0 .. n : i \in P
    BY <1>10, <1>11, InductionTo
  <2>2. QED
    BY <1>3, <2>1
<1>13. First(skews, n) = skews
  BY <1>9, FirstAndLast
<1>14. skews # {} => p.expectedOriginal = ~as[Max(skews)].seen
  BY <1>2, <1>12, <1>13
<1>15. p \in Plans(as)
  BY <1>2, <1>3
<1>16. QED
  BY <1>6, <1>7, <1>8, <1>14, <1>15

\* The attacks that make a device report something.
LiesOf(as, d) == {i \in OfKind(as, "poison") : as[i].device = d}

\* A device is what it was, and reports what it was last made to.
Telling(as, s, d) ==
  /\ s.devices[d].physical = [t2_ps |-> T2[d]]
  /\ LiesOf(as, d) # {} =>
       s.devices[d].reported = [t2_ps |-> as[Max(LiesOf(as, d))].fields.t2_ps]

LEMMA ReportsAreTheLast ==
  ASSUME NEW as, NEW n \in Nat, IsList(as, n), NEW s, s = AttackedInventory(as, Snapshot(Nodes, T2)),
         NEW d \in DOMAIN T2
  PROVE  s \in Inventories(as) /\ Telling(as, s, d)
<1>1. PICK h : InventoryAt(h, as, n)
  BY InventorySteps
<1>2. /\ h[0] = Snapshot(Nodes, T2) /\ h[n] = s /\ \A i \in 0 .. n : h[i] \in Inventories(as)
      /\ \A i \in 1 .. n : h[i] = AlterInventory(as[i], h[i - 1])
  BY <1>1 DEF InventoryAt
<1>3. DOMAIN as = 1 .. n /\ n \in 0 .. n /\ 0 \in 0 .. n
  BY DEF IsList
<1> DEFINE lies == LiesOf(as, d)
           Told1(i) == First(lies, i) # {} =>
             h[i].devices[d].reported = [t2_ps |-> as[Max(First(lies, i))].fields.t2_ps]
           P == {i \in 0 .. n : h[i].devices[d].physical = [t2_ps |-> T2[d]] /\ Told1(i)}
<1>4. lies \subseteq 1 .. n
  BY <1>3 DEF LiesOf, OfKind
<1>5. 0 \in P
  <2>1. First(lies, 0) = {}
    BY <1>4, FirstAndLast
  <2>2. h[0].devices[d].physical = [t2_ps |-> T2[d]]
    BY <1>2 DEF Snapshot
  <2>3. QED
    BY <1>3, <2>1, <2>2
<1>6. ASSUME NEW i \in 0 .. n, i \in P, i < n PROVE i + 1 \in P
  <2>1. PICK j : j = i + 1
    OBVIOUS
  <2>2. j \in 1 .. n /\ j \in 0 .. n /\ j - 1 = i /\ i \in Nat
    BY <1>6, <2>1
  <2>3. h[j] = AlterInventory(as[j], h[i])
    BY <1>2, <2>2, Zenon
  <2>4. OneMore(lies, i, j)
    BY <1>4, <2>1, <2>2, FirstNext
  <2>5. PICK t : t = h[i]
    OBVIOUS
  <2>6. t \in Inventories(as) /\ DOMAIN t.devices = DOMAIN T2 /\ t.devices[d] \in Device(as)
    BY <1>2, <2>5 DEF Inventories
  <2>7. CASE j \in lies
    <3>1. as[j].kind = "poison" /\ as[j].device = d /\ DOMAIN as[j].fields = {"t2_ps"}
      BY <2>2, <2>7 DEF LiesOf, OfKind, IsList, IsAttack
    <3>2. PICK v : t.devices[d].reported = [t2_ps |-> v]
      BY <2>6 DEF Device
    <3>3. DOMAIN [t2_ps |-> v] = {"t2_ps"}
      OBVIOUS
    <3>4. PICK f, g : f = as[j].fields /\ g = t.devices[d].reported
      OBVIOUS
    <3>5. Merged(f, g) = [x \in {"t2_ps"} |-> f[x]]
      BY <3>1, <3>2, <3>3, <3>4 DEF Merged
    <3>6. [x \in {"t2_ps"} |-> f[x]] = [t2_ps |-> f.t2_ps]
      OBVIOUS
    <3>7. /\ h[j].devices[d].reported = Merged(f, g)
          /\ h[j].devices[d].physical = t.devices[d].physical
      <4>1. h[j] = [t EXCEPT !.devices[d] = Poisoned(as[j], t.devices[d])]
        <5>1. Alters(as[j], t, d)
          BY <2>6, <3>1, OneDevice
        <5>2. QED
          BY <2>3, <2>5, <5>1 DEF Alters, WithPoison
      <4>2. h[j].devices[d] = Poisoned(as[j], t.devices[d])
        BY <2>6, <4>1 DEF Inventories
      <4>3. QED
        BY <2>6, <3>4, <4>2 DEF Device, Poisoned
    <3>8. Max(First(lies, j)) = j
      BY <2>4, <2>7 DEF OneMore
    <3>9. h[j].devices[d].reported = [t2_ps |-> as[j].fields.t2_ps]
      BY <3>4, <3>5, <3>6, <3>7
    <3>10. QED
      BY <1>6, <2>1, <2>2, <2>5, <3>7, <3>8, <3>9
  <2>8. CASE j \notin lies
    <3>1. First(lies, j) = First(lies, i)
      BY <2>4, <2>8 DEF OneMore
    <3>2. as[j].kind = "poison" => as[j].device # d
      BY <1>3, <2>2, <2>8 DEF LiesOf, OfKind
    <3>3. h[j].devices[d] = t.devices[d]
      <4>1. CASE as[j].kind = "poison" /\ as[j].device \in DOMAIN T2
        <5>1. PICK e \in DOMAIN T2 : e = as[j].device /\ e # d
          BY <3>2, <4>1
        <5>2. h[j] = [t EXCEPT !.devices[e] = Poisoned(as[j], t.devices[e])]
          <6>1. Alters(as[j], t, e)
            BY <2>6, <4>1, <5>1, OneDevice
          <6>2. QED
            BY <2>3, <2>5, <6>1 DEF Alters, WithPoison
        <5>3. QED
          BY <2>6, <5>1, <5>2 DEF Inventories
      <4>2. CASE ~ (as[j].kind = "poison" /\ as[j].device \in DOMAIN T2)
        BY <2>3, <2>5, <2>6, <4>2 DEF AlterInventory
      <4>3. QED
        BY <4>1, <4>2
    <3>4. QED
      BY <1>6, <2>1, <2>2, <2>5, <3>1, <3>3
  <2>9. QED
    BY <2>7, <2>8
<1>7. n \in P
  <2> HIDE DEF P
  <2>1. \A i \in 0 .. n : i \in P
    BY <1>5, <1>6, InductionTo
  <2>2. QED
    BY <1>3, <2>1
<1>8. First(lies, n) = lies
  BY <1>4, FirstAndLast
<1>9. s \in Inventories(as)
  BY <1>2, <1>3
<1>10. QED
  BY <1>2, <1>7, <1>8, <1>9 DEF Telling

-----------------------------------------------------------------------------
(* What the controller sees and what v0 reports. *)

Seen ==
  /\ phase = "new" => snapshot = Snapshot(Nodes, T2)
  /\ phase # "new" => snapshot = AttackedInventory(attacks, Snapshot(Nodes, T2))
  /\ phase = "running" /\ secure => RefusalReasons(AttackedPlan(attacks, Plan)) = {}

LEMMA SeenStep == Timely /\ Seen /\ [Next]_allVars => Seen'
<1> SUFFICES ASSUME Timely, Seen, [Next]_allVars PROVE Seen'
  OBVIOUS
<1>1. CASE Allocate
  BY <1>1 DEF Allocate, Seen
<1>2. CASE RoundStart
  <2>1. UNCHANGED <<attacks, secure, snapshot>> /\ phase = "ready"
    BY <1>2 DEF RoundStart
  <2>2. \/ phase' = "refused"
        \/ phase' = "running" /\ RefusalReasons(AttackedPlan(attacks, Plan)) = {}
    BY <1>2 DEF RoundStart
  <2>3. RefusalReasons(AttackedPlan(attacks, Plan))' = RefusalReasons(AttackedPlan(attacks, Plan))
    BY <2>1 DEF RefusalReasons
  <2>4. QED
    BY <2>1, <2>2, <2>3 DEF Seen
<1>3. ASSUME UNCHANGED <<attacks, secure, snapshot, phase>> PROVE Seen'
  <2>1. RefusalReasons(AttackedPlan(attacks, Plan))' = RefusalReasons(AttackedPlan(attacks, Plan))
    BY <1>3 DEF RefusalReasons
  <2>2. QED
    BY <1>3, <2>1 DEF Seen
<1>4. CASE SendBasis("basis_x") \/ SendBasis("basis_y") \/ SendPhoton \/ Tap \/ Resend
           \/ PhotonArrives \/ BasisArrives("basis_x") \/ BasisArrives("basis_y")
           \/ AnswerArrives \/ V0Measures \/ ProverMeasures \/ SendReport \/ Done
           \/ UNCHANGED allVars
  <2>1. UNCHANGED <<attacks, secure, snapshot, phase>>
    BY <1>4 DEF SendBasis, SendPhoton, Tap, Resend, PhotonArrives, BasisArrives, AnswerArrives,
                V0Measures, ProverMeasures, SendReport, Done, Happens, allVars, roundVars
  <2>2. QED
    BY <1>3, <2>1
<1>5. QED
  BY <1>1, <1>2, <1>4 DEF Next

LEMMA ScheduleIsSound ==
  ASSUME NEW p, ScheduleReasons(p, Bounds) = {}
  PROVE  /\ p.x - p.challenge \in 0 .. Bounds.delta /\ p.y - p.challenge \in 0 .. Bounds.delta
         /\ p.x - p.y \in -Bounds.skew .. Bounds.skew
BY DEF ScheduleReasons

LEMMA TelemetryIsSound ==
  ASSUME NEW s, TelemetryReasons(s, MaximumT2) = {}, NEW d \in DOMAIN s.devices, NEW told \in Int,
         NEW t \in Nat, s.devices[d].reported = [t2_ps |-> told],
         s.devices[d].physical = [t2_ps |-> t]
  PROVE  told <= 2 * t /\ (MaximumT2 # None => told <= MaximumT2)
<1>1. s.devices[d].reported.t2_ps = told /\ s.devices[d].physical.t2_ps = t /\ t \in Int
  OBVIOUS
<1>2. ~ (told > 2 * t)
  BY <1>1 DEF TelemetryReasons
<1>3. MaximumT2 # None => ~ (told > MaximumT2)
  BY <1>1 DEF TelemetryReasons
<1>4. MaximumT2 # None => MaximumT2 \in Nat
  BY RoundAssumption
<1>5. QED
  BY <1>2, <1>3, <1>4

LEMMA SeenIsSound ==
  ASSUME Timely, Seen
  PROVE  SecureRunsOnlyWhatItSees
<1>1. SUFFICES ASSUME phase = "running", secure PROVE SecureRunsOnlyWhatItSees
  BY Zenon DEF SecureRunsOnlyWhatItSees
<1>2. PICK n : n \in Nat /\ IsList(attacks, n)
  BY AttackListsAreLists DEF IsList, Timely
<1>3. PICK p : p = AttackedPlan(attacks, Plan)
  OBVIOUS
<1>4. snapshot = AttackedInventory(attacks, Snapshot(Nodes, T2))
  BY <1>1 DEF Seen
<1>5. ScheduleReasons(ControllerView(Plan, p), Bounds) = {} /\ TelemetryReasons(snapshot, MaximumT2) = {}
  BY <1>1, <1>3 DEF Seen, RefusalReasons
<1>6. ASSUME NEW d \in DOMAIN T2, LiesOf(attacks, d) # {},
             attacks[Max(LiesOf(attacks, d))].fields.t2_ps \in Int
      PROVE  /\ attacks[Max(LiesOf(attacks, d))].fields.t2_ps <= 2 * T2[d]
             /\ MaximumT2 # None => attacks[Max(LiesOf(attacks, d))].fields.t2_ps <= MaximumT2
  <2>1. PICK told : told = attacks[Max(LiesOf(attacks, d))].fields.t2_ps
    OBVIOUS
  <2>2. snapshot \in Inventories(attacks) /\ Telling(attacks, snapshot, d)
    BY <1>2, <1>4, ReportsAreTheLast
  <2>3. /\ snapshot.devices[d].physical = [t2_ps |-> T2[d]]
        /\ snapshot.devices[d].reported = [t2_ps |-> told]
    BY <1>6, <2>1, <2>2 DEF Telling
  <2>4. d \in DOMAIN snapshot.devices /\ told \in Int /\ T2[d] \in Nat
    BY <1>6, <2>1, <2>2, RoundAssumption DEF Inventories
  <2>5. told <= 2 * T2[d] /\ (MaximumT2 # None => told <= MaximumT2)
    <3>1. PICK t : t = T2[d]
      OBVIOUS
    <3>2. QED
      BY <1>5, <2>3, <2>4, <3>1, TelemetryIsSound
  <2>6. QED
    BY <2>1, <2>5
<1> DEFINE skews == OfKind(attacks, "skew")
           shift(f) == Total([i \in DOMAIN attacks |-> IF i \in skews THEN attacks[i][f] ELSE 0])
           delta(f) == Plan[f] + shift(f) - Plan.challenge - shift("challenge")
<1>7. ASSUME skews # {}, attacks[Max(skews)].seen
      PROVE  /\ delta("x") \in 0 .. Bounds.delta /\ delta("y") \in 0 .. Bounds.delta
             /\ delta("x") - delta("y") \in -Bounds.skew .. Bounds.skew
  <2>1. /\ p \in Plans(attacks) /\ p.expectedOriginal = ~attacks[Max(skews)].seen
        /\ Shifted(p, attacks, "x") /\ Shifted(p, attacks, "y") /\ Shifted(p, attacks, "challenge")
    BY <1>2, <1>3, <1>7, PlanIsShifted
  <2>2. ControllerView(Plan, p) = p
    BY <1>7, <2>1 DEF ControllerView
  <2>3. ScheduleReasons(p, Bounds) = {}
    BY <1>5, <2>2
  <2>4. /\ p.x - p.challenge \in 0 .. Bounds.delta /\ p.y - p.challenge \in 0 .. Bounds.delta
        /\ p.x - p.y \in -Bounds.skew .. Bounds.skew
    BY <2>3, ScheduleIsSound
  <2>5. PICK sx, sy, sc : sx = shift("x") /\ sy = shift("y") /\ sc = shift("challenge")
    OBVIOUS
  <2>6. PICK a, b, c : a = Plan.x /\ b = Plan.y /\ c = Plan.challenge
    OBVIOUS
  <2>7. /\ p.x \in Int /\ p.y \in Int /\ p.challenge \in Int
        /\ p.x = a + sx /\ p.y = b + sy /\ p.challenge = c + sc
    BY <2>1, <2>5, <2>6, Zenon DEF Shifted, ShiftsOf
  <2>8. a \in Int /\ b \in Int /\ c \in Int /\ sx \in Int /\ sy \in Int /\ sc \in Int
    <3>1. a \in Int /\ b \in Int /\ c \in Int
      BY <2>6, PlanBase DEF Plans
    <3>2. /\ ShiftsOf(attacks, "x") \in [1 .. n -> Int] /\ ShiftsOf(attacks, "y") \in [1 .. n -> Int]
          /\ ShiftsOf(attacks, "challenge") \in [1 .. n -> Int]
      BY <1>2, ShiftsAreNumbers
    <3>3. \A k \in [1 .. n -> Int] : Total(k) \in Int
      <4>1. TAKE k \in [1 .. n -> Int]
      <4>2. PICK g : Sums(g, n, k) /\ g[n] = Total(k)
        BY <1>2, TotalSteps
      <4>3. n \in 0 .. n /\ n \in Nat
        BY <1>2
      <4>4. IsTotalOf(g[n], k, n, n)
        BY <4>2, <4>3, TotalOfFirst
      <4>5. QED
        BY <4>2, <4>4 DEF IsTotalOf
    <3>4. QED
      BY <2>5, <3>1, <3>2, <3>3, Zenon DEF ShiftsOf
  <2>9. /\ a + sx - c - sc = p.x - p.challenge /\ b + sy - c - sc = p.y - p.challenge
        /\ (a + sx - c - sc) - (b + sy - c - sc) = p.x - p.y
    BY <2>7, <2>8
  <2>10. /\ delta("x") = a + sx - c - sc /\ delta("y") = b + sy - c - sc
    BY <2>5, <2>6, Zenon
  <2> HIDE DEF delta
  <2>11. QED
    BY <2>4, <2>9, <2>10
<1>8. QED
  BY <1>6, <1>7, Zenon DEF SecureRunsOnlyWhatItSees, LiesOf

\* What v0 may report of what it observed, o.
Reports(as, o) ==
  [verifier : {"v0"}, physical : {o}, local : {o},
   reported : [{"answer_arrival"} -> Int \union {None}], ids : Ids(as)]

LEMMA ReportTypes ==
  ASSUME NEW as, NEW n \in Nat, IsList(as, n), NEW i \in DOMAIN as, NEW o, NEW r \in Reports(as, o)
  PROVE  Forge(as[i], r) \in Reports(as, o)
<1>1. CASE as[i].kind = "forge" /\ as[i].node = r.verifier
  <2>1. PICK bias, said : bias = as[i].bias /\ said = r.reported
    OBVIOUS
  <2>2. bias \in Int
    BY <1>1, <2>1 DEF IsList, IsAttack
  <2>3. said \in [{"answer_arrival"} -> Int \union {None}]
    BY <2>1 DEF Reports
  <2>4. PICK told : told = [f \in DOMAIN said |->
          IF f \in as[i].fields /\ said[f] # None THEN said[f] + bias ELSE said[f]]
    OBVIOUS
  <2>5. told \in [{"answer_arrival"} -> Int \union {None}]
    <3>1. \A k \in Int : k + bias \in Int
      BY <2>2
    <3>2. \A f \in {"answer_arrival"} : said[f] # None => said[f] + bias \in Int
      BY <2>3, <3>1, Zenon
    <3>3. \A f \in {"answer_arrival"} :
            (IF f \in as[i].fields /\ said[f] # None THEN said[f] + bias ELSE said[f])
              \in Int \union {None}
      BY <2>3, <3>2, Zenon
    <3>4. DOMAIN said = {"answer_arrival"}
      BY <2>3
    <3>5. QED
      BY <2>4, <3>3, <3>4, Zenon
  <2>6. Append(r.ids, as[i].id) \in Ids(as)
    BY IdsGrow DEF Reports
  <2>7. Forge(as[i], r) = [r EXCEPT !.ids = Append(@, as[i].id), !.reported = told]
    BY <1>1, <2>1, <2>4, Zenon DEF Forge
  <2>8. QED
    BY <2>5, <2>6, <2>7 DEF Reports
<1>2. CASE ~ (as[i].kind = "forge" /\ as[i].node = r.verifier)
  BY <1>2 DEF Forge
<1>3. QED
  BY <1>1, <1>2

\* The reports between one attack and the next.
ReportAt(h, as, n, r, o) ==
  /\ h[0] = r /\ h[n] = AttackedReport(as, r)
  /\ \A i \in 0 .. n : h[i] \in Reports(as, o)
  /\ \A i \in 1 .. n : h[i] = Forge(as[i], h[i - 1])

LEMMA ReportSteps ==
  ASSUME NEW as, NEW n \in Nat, IsList(as, n), NEW o, NEW r, r \in Reports(as, o)
  PROVE  \E h : ReportAt(h, as, n, r, o)
<1> DEFINE S == Reports(as, o)
           step == [p \in (1 .. n) \X S |-> Forge(as[p[1]], p[2])]
           Is(it) == it = [s \in SUBSET (DOMAIN as) |->
                             IF s = {} THEN r
                             ELSE Forge(as[Max(s)], it[s \ {Max(s)}])]
<1>1. n \in Nat /\ DOMAIN as = 1 .. n /\ r \in S
  BY DEF IsList
<1>2. ASSUME NEW i \in 1 .. n, NEW v \in S
      PROVE  step[<<i, v>>] = Forge(as[i], v) /\ step[<<i, v>>] \in S
  <2>1. Forge(as[i], v) \in S
    BY <1>1, ReportTypes
  <2>2. QED
    BY <2>1
<1>3. AttackedReport(as, r) = (CHOOSE it : Is(it))[DOMAIN as]
  BY Zenon DEF AttackedReport, FoldLeft, MapThenFoldSet
<1> HIDE DEF S, step
<1>4. PICK some : IsFold(some, n, S, r, step)
  BY <1>1, <1>2, FoldExists
<1>5. Is(some)
  <2>1. ASSUME NEW s \in SUBSET (1 .. n), s # {}
        PROVE  some[s] = Forge(as[Max(s)], some[s \ {Max(s)}])
    <3>1. /\ Max(s) \in 1 .. n /\ some[s \ {Max(s)}] \in S
          /\ some[s] = step[<<Max(s), some[s \ {Max(s)}]>>]
      BY <1>4, <2>1 DEF IsFold
    <3>2. QED
      BY <1>2, <3>1
  <2>2. some = [s \in SUBSET (1 .. n) |-> some[s]] /\ some[{}] = r
    BY <1>4 DEF IsFold
  <2>3. QED
    BY <1>1, <2>1, <2>2
<1>6. PICK it : Is(it) /\ AttackedReport(as, r) = it[1 .. n]
  BY <1>1, <1>3, <1>5
<1>7. GoesOn(it, n, S, r, step)
  <2>1. \A s \in SUBSET (1 .. n) :
          it[s] = IF s = {} THEN r ELSE Forge(as[Max(s)], it[s \ {Max(s)}])
    BY <1>1, <1>6
  <2>2. it[{}] = r
    BY <2>1
  <2>3. ASSUME NEW s \in SUBSET (1 .. n), s # {}, it[s \ {Max(s)}] \in S
        PROVE  it[s] = step[<<Max(s), it[s \ {Max(s)}]>>]
    <3>1. Max(s) \in 1 .. n
      BY <2>3, MaxIsThere
    <3>2. it[s] = Forge(as[Max(s)], it[s \ {Max(s)}])
      BY <2>1, <2>3
    <3>3. QED
      BY <1>2, <2>3, <3>1, <3>2
  <2>4. QED
    BY <2>2, <2>3 DEF GoesOn
<1>8. PICK h : Steps(h, n, S, r, step, it[1 .. n])
  BY <1>1, <1>2, <1>7, StepsExist
<1>9. ASSUME NEW i \in 1 .. n PROVE h[i] = Forge(as[i], h[i - 1])
  <2>1. i - 1 \in 0 .. n
    BY <1>1
  <2>2. h[i - 1] \in S /\ h[i] = step[<<i, h[i - 1]>>]
    BY <1>8, <2>1 DEF Steps
  <2>3. QED
    BY <1>2, <2>2
<1>10. QED
  BY <1>6, <1>8, <1>9 DEF ReportAt, Steps, S

LEMMA ReportIsKept ==
  ASSUME NEW as, NEW n \in Nat, IsList(as, n), NEW o, NEW r \in Reports(as, o)
  PROVE  AttackedReport(as, r) \in Reports(as, o)
<1>1. PICK h : ReportAt(h, as, n, r, o)
  BY ReportSteps
<1>2. n \in 0 .. n
  OBVIOUS
<1>3. QED
  BY <1>1, <1>2, Zenon DEF ReportAt

\* There is one answer, and v0 keeps the time it came, if it reports it.
Answered ==
  /\ bit \in [{"prover", "v0"} -> Bits \union {None}]
  /\ answerAt \in Nat \union {None}
  /\ \A d \in Pending("answer arrives") : answerAt = None /\ bit.prover # None
  /\ \A d, e \in Pending("answer arrives") : d = e
  /\ answerAt # None => bit.prover # None
  /\ report # None => /\ report.local = report.physical
                      /\ report.physical.answer_arrival \in {None, answerAt}

LEMMA AnsweredInit == Init => Answered
BY DEF Init, Answered, Pending

LEMMA AnsweredStep == Timely /\ Answered /\ [Next]_allVars => Answered'
<1> SUFFICES ASSUME Timely, Answered, [Next]_allVars PROVE Answered'
  OBVIOUS
<1>1. ASSUME NEW what, NEW next, next # "answer arrives", Happened(what, next),
             UNCHANGED <<bit, answerAt, report>>
      PROVE  Answered'
  <2>1. \A e \in Pending("answer arrives")' : e \in Pending("answer arrives")
    BY <1>1 DEF Happened, Happens, Pending
  <2>2. QED
    BY <1>1, <2>1 DEF Answered
<1>2. ASSUME UNCHANGED <<bit, answerAt, report, pending>> PROVE Answered'
  BY <1>2 DEF Answered, Pending
<1>3. CASE RoundStart
  <2>1. phase = "ready" /\ UNCHANGED <<bit, answerAt, report>>
    BY <1>3 DEF RoundStart
  <2>2. CASE pending' = pending
    BY <1>2, <2>1, <2>2
  <2>3. CASE phase' = "running"
    <3>1. PICK plan : plan = AttackedPlan(attacks, Plan)
      OBVIOUS
    <3>2. pending' = {Due(plan.x, "basis_x"), Due(plan.y, "basis_y"), Due(plan.challenge, "photon")}
      BY <1>3, <2>3, <3>1 DEF RoundStart
    <3>3. Pending("answer arrives")' = {}
      <4>1. \A e \in pending' : e.what # "answer arrives"
        <5>1. \A at, what : Due(at, what).what = what
          BY DEF Due
        <5>2. \A e \in pending' : e.what \in {"basis_x", "basis_y", "photon"}
          BY <3>2, <5>1
        <5>3. "answer arrives" \notin {"basis_x", "basis_y", "photon"}
          OBVIOUS
        <5>4. QED
          BY <5>2, <5>3, Zenon
      <4>2. QED
        BY <4>1 DEF Pending
    <3>4. QED
      BY <2>1, <3>3 DEF Answered
  <2>4. QED
    BY <1>3, <2>2, <2>3 DEF RoundStart
<1>4. CASE SendBasis("basis_x") \/ SendBasis("basis_y") \/ SendPhoton \/ Tap \/ Resend
           \/ PhotonArrives \/ BasisArrives("basis_x") \/ BasisArrives("basis_y")
  <2>1. UNCHANGED <<bit, answerAt, report>>
    BY <1>4 DEF SendBasis, SendPhoton, Tap, Resend, PhotonArrives, BasisArrives
  <2>2. PICK what, next : next # "answer arrives" /\ Happened(what, next)
    BY <1>4, WhatHappens
  <2>3. QED
    BY <1>1, <2>1, <2>2
<1>5. CASE V0Measures
  <2>1. PICK b \in Bits : bit' = [bit EXCEPT !.v0 = b]
    BY <1>5 DEF V0Measures
  <2>2. bit' \in [{"prover", "v0"} -> Bits \union {None}] /\ bit'.prover = bit.prover
    BY <2>1 DEF Answered
  <2>3. UNCHANGED <<answerAt, report, pending>>
    BY <1>5 DEF V0Measures
  <2>4. QED
    BY <2>2, <2>3 DEF Answered, Pending
<1>6. CASE ProverMeasures
  <2>1. PICK b \in Bits : bit' = [bit EXCEPT !.prover = b] /\ bit.prover = None
    BY <1>6 DEF ProverMeasures, CanMeasure
  <2>2. bit' \in [{"prover", "v0"} -> Bits \union {None}] /\ bit'.prover = b
    BY <2>1 DEF Answered
  <2>3. b # None
    BY RoundAssumption
  <2>4. UNCHANGED <<answerAt, report>>
    BY <1>6 DEF ProverMeasures
  <2>5. Pending("answer arrives") = {} /\ answerAt = None
    BY <2>1 DEF Answered
  <2>6. PICK evs, e : (evs = {} \/ evs = {e}) /\ pending' = pending \union evs
    BY <1>6 DEF ProverMeasures
  <2>7. \A d \in Pending("answer arrives")' : d = e
    BY <2>5, <2>6 DEF Pending
  <2>8. QED
    BY <2>2, <2>3, <2>4, <2>5, <2>7 DEF Answered
<1>7. CASE AnswerArrives
  <2>1. PICK d \in Pending("answer arrives") : Happens(d, {}) /\ answerAt' = d.at
    BY <1>7 DEF AnswerArrives, Arrival
  <2>2. UNCHANGED <<bit, report>>
    BY <1>7 DEF AnswerArrives
  <2>3. d.at \in Nat
    BY DEF Pending, Timely, DuesFrom
  <2>4. Pending("answer arrives")' = {}
    BY <2>1 DEF Happens, Answered, Pending
  <2>5. answerAt = None /\ bit.prover # None
    BY DEF Answered
  <2>6. QED
    BY <2>1, <2>2, <2>3, <2>4, <2>5 DEF Answered
<1>8. CASE SendReport
  <2>1. PICK n : n \in Nat /\ IsList(attacks, n)
    BY AttackListsAreLists DEF IsList, Timely
  <2>2. PICK r : r = [verifier |-> "v0", physical |-> Observed, local |-> Observed,
                      reported |-> Observed, ids |-> <<>>]
    OBVIOUS
  <2>3. PICK o : o = Observed
    OBVIOUS
  <2>4. r \in Reports(attacks, o)
    <3>1. <<>> \in Ids(attacks)
      BY DEF Ids
    <3>2. \A k \in Nat : k \in Int
      OBVIOUS
    <3>3. answerAt \in Int \union {None}
      BY <3>2 DEF Answered
    <3>4. o \in [{"answer_arrival"} -> Int \union {None}]
      BY <2>3, <3>3 DEF Observed
    <3>5. QED
      BY <2>2, <2>3, <3>1, <3>4 DEF Reports
  <2>5. report' = AttackedReport(attacks, r)
    BY <1>8, <2>2 DEF SendReport
  <2>6. report' \in Reports(attacks, o)
    BY <2>1, <2>4, <2>5, ReportIsKept
  <2>7. report'.local = report'.physical /\ report'.physical.answer_arrival = answerAt
    BY <2>3, <2>6 DEF Reports, Observed
  <2>8. UNCHANGED <<bit, answerAt, pending>>
    BY <1>8 DEF SendReport
  <2>9. QED
    BY <2>7, <2>8 DEF Answered, Pending
<1>9. CASE Allocate \/ Done \/ UNCHANGED allVars
  BY <1>2, <1>9 DEF Allocate, Done, allVars, roundVars
<1>10. QED
  BY <1>3, <1>4, <1>5, <1>6, <1>7, <1>8, <1>9 DEF Next

LEMMA TruthFollows ==
  ASSUME Timely, Seen, Answered
  PROVE  TruthIsKept
<1>1. PICK n : n \in Nat /\ IsList(attacks, n)
  BY AttackListsAreLists DEF IsList, Timely
<1>2. ASSUME NEW d \in DOMAIN T2 PROVE snapshot.devices[d].physical.t2_ps = T2[d]
  <2>1. CASE phase = "new"
    BY <2>1 DEF Seen, Snapshot
  <2>2. CASE phase # "new"
    <3>1. Telling(attacks, snapshot, d)
      BY <1>1, <2>2, ReportsAreTheLast DEF Seen
    <3>2. QED
      BY <3>1 DEF Telling
  <2>3. QED
    BY <2>1, <2>2
<1>3. QED
  BY <1>2 DEF TruthIsKept, Answered

\* A security-aware controller runs only what it sees to be within bounds
\* (_on_round_start, SchedulePolicy, SecurityTelemetryPolicy).
THEOREM SecureRunsAreSeen == Spec => []SecureRunsOnlyWhatItSees
<1>1. Init => Timely /\ Seen
  BY TimelyInit DEF Init, Seen
<1>2. (Timely /\ Seen) /\ [Next]_allVars => (Timely /\ Seen)'
  BY TimelyStep, SeenStep
<1>3. Timely /\ Seen => SecureRunsOnlyWhatItSees
  BY SeenIsSound
<1>4. QED
  BY <1>1, <1>2, <1>3, PTL DEF Spec

\* What attacks make devices and verifiers report never changes what is
\* (TelemetryPoisoningAttack, TimestampForgeryAttack).
THEOREM TruthStays == Spec => []TruthIsKept
<1>1. Init => Timely /\ Seen /\ Answered
  BY TimelyInit, AnsweredInit DEF Init, Seen
<1>2. (Timely /\ Seen /\ Answered) /\ [Next]_allVars => (Timely /\ Seen /\ Answered)'
  BY TimelyStep, SeenStep, AnsweredStep
<1>3. Timely /\ Seen /\ Answered => TruthIsKept
  BY TruthFollows
<1>4. QED
  BY <1>1, <1>2, <1>3, PTL DEF Spec

-----------------------------------------------------------------------------
(* The way of the photon. *)

Route == {"photon", "tap", "resend", "photon arrives"}
OnRoute == {d \in pending : d.what \in Route}

\* One event at a time moves the photon; what is at the prover, or about to
\* be, is the photon itself or what the interceptor prepared.
Chained ==
  /\ tapped \in [basis : Basis, bit : Bits] \union {None}
  /\ \A d, e \in OnRoute : d = e
  /\ "photon" \in there => OnRoute = {}
  /\ \A d \in OnRoute : /\ d.what \in {"photon", "tap"} => tapped = None /\ photon = Flying
                        /\ d.what = "resend" => tapped # None /\ photon = Flying
                        /\ d.what = "photon arrives" =>
                             photon = IF tapped = None THEN Flying ELSE Resent
  /\ "photon" \in there => photon = IF tapped = None THEN Flying ELSE Resent
  /\ bit.prover # None \/ bit.v0 # None => "photon" \in there

LEMMA RouteMoves ==
  ASSUME Chained, NEW what \in Route, NEW next, Happened(what, next)
  PROVE  /\ \A e \in OnRoute' : e.what = next
         /\ \A e, f \in OnRoute' : e = f
         /\ next \notin Route => OnRoute' = {}
         /\ "photon" \notin there
         /\ \E d \in OnRoute : d.what = what
<1>1. PICK d \in Pending(what) : \E evs :
        Happens(d, evs) /\ (\A e \in evs : e.what = next) /\ \A e, f \in evs : e = f
  BY DEF Happened
<1>2. PICK evs : Happens(d, evs) /\ (\A e \in evs : e.what = next) /\ \A e, f \in evs : e = f
  BY <1>1
<1>3. d \in OnRoute /\ d.what = what
  BY DEF Pending, OnRoute
<1>4. \A e \in OnRoute' : e \in evs /\ e.what \in Route
  <2>1. pending' = (pending \ {d}) \union evs
    BY <1>2 DEF Happens
  <2>2. \A e \in OnRoute' : e \in pending' /\ e.what \in Route
    BY DEF OnRoute
  <2>3. \A e \in pending : e.what \in Route => e = d
    BY <1>3 DEF Chained, OnRoute
  <2>4. QED
    BY <2>1, <2>2, <2>3
<1>5. QED
  BY <1>2, <1>3, <1>4 DEF Chained

LEMMA RouteStays ==
  ASSUME NEW what, NEW next, what \notin Route, next \notin Route, Happened(what, next)
  PROVE  OnRoute' = OnRoute
<1>1. PICK d \in Pending(what) : \E evs :
        Happens(d, evs) /\ (\A e \in evs : e.what = next) /\ \A e, f \in evs : e = f
  BY DEF Happened
<1>2. PICK evs : Happens(d, evs) /\ (\A e \in evs : e.what = next) /\ \A e, f \in evs : e = f
  BY <1>1
<1>3. pending' = (pending \ {d}) \union evs /\ d.what = what
  BY <1>2 DEF Happens, Pending
<1>4. QED
  BY <1>2, <1>3 DEF OnRoute

LEMMA ChainedInit == Init => Chained
BY DEF Init, Chained, OnRoute

LEMMA Unmeasured ==
  ASSUME Answered, Chained, "photon" \notin there
  PROVE  bit.prover = None /\ bit.v0 = None
BY DEF Chained

LEMMA ChainedStep == Timely /\ Answered /\ Chained /\ [Next]_allVars => Chained'
<1> SUFFICES ASSUME Timely, Answered, Chained, [Next]_allVars PROVE Chained'
  OBVIOUS
<1> USE DEF Route
<1>1. ASSUME OnRoute' = OnRoute, UNCHANGED <<tapped, photon, bit>>,
             "photon" \in there' <=> "photon" \in there
      PROVE  Chained'
  BY <1>1 DEF Chained
<1>2. CASE RoundStart
  <2>1. phase = "ready" /\ UNCHANGED <<tapped, photon, bit, there>>
    BY <1>2 DEF RoundStart
  <2>2. CASE pending' = pending
    BY <1>1, <2>1, <2>2 DEF OnRoute
  <2>3. CASE phase' = "running"
    <3>1. PICK plan : plan = AttackedPlan(attacks, Plan)
      OBVIOUS
    <3>2. pending' = {Due(plan.x, "basis_x"), Due(plan.y, "basis_y"), Due(plan.challenge, "photon")}
      BY <1>2, <2>3, <3>1 DEF RoundStart
    <3>3. \A at, what : Due(at, what).what = what
      BY DEF Due
    <3>4. "basis_x" \notin Route /\ "basis_y" \notin Route /\ "photon" \in Route
      OBVIOUS
    <3>5. OnRoute' = {Due(plan.challenge, "photon")}
      <4>1. PICK X : X = Due(plan.challenge, "photon")
        OBVIOUS
      <4>2. X \in pending' /\ X.what = "photon"
        BY <3>2, <3>3, <4>1
      <4>3. \A e \in pending' : e = X \/ e.what = "basis_x" \/ e.what = "basis_y"
        BY <3>2, <3>3, <4>1
      <4> HIDE DEF Route
      <4>4. QED
        BY <3>4, <4>1, <4>2, <4>3, Zenon DEF OnRoute
    <3>6. tapped = None /\ photon = Flying /\ there = {} /\ bit.prover = None /\ bit.v0 = None
      BY <2>1 DEF Timely, Untouched
    <3>7. QED
      BY <2>1, <3>3, <3>5, <3>6 DEF Chained
  <2>4. QED
    BY <1>2, <2>2, <2>3 DEF RoundStart
<1>3. CASE SendBasis("basis_x") \/ SendBasis("basis_y") \/ BasisArrives("basis_x")
           \/ BasisArrives("basis_y")
  <2>1. PICK what, next : what \notin Route /\ next \notin Route /\ Happened(what, next)
    BY <1>3, WhatHappens
  <2>2. OnRoute' = OnRoute
    BY <2>1, RouteStays
  <2>3. UNCHANGED <<tapped, photon, bit>> /\ ("photon" \in there' <=> "photon" \in there)
    BY <1>3 DEF SendBasis, BasisArrives
  <2>4. QED
    BY <1>1, <2>2, <2>3
<1>4. CASE SendPhoton
  <2>1. PICK next : next \in {"photon arrives", "tap"} /\ Happened("photon", next)
    BY <1>4, WhatHappens
  <2>2. /\ \A e \in OnRoute' : e.what = next
        /\ \A e, f \in OnRoute' : e = f
        /\ "photon" \notin there /\ \E d \in OnRoute : d.what = "photon"
    BY <2>1, RouteMoves
  <2>3. UNCHANGED <<tapped, photon, bit, there>>
    BY <1>4 DEF SendPhoton
  <2>4. tapped = None /\ photon = Flying
    BY <2>2 DEF Chained
  <2>5. QED
    BY <2>1, <2>2, <2>3, <2>4 DEF Chained
<1>5. CASE Tap
  <2>1. Happened("tap", "resend")
    BY <1>5, WhatHappens
  <2>2. /\ \A e \in OnRoute' : e.what = "resend"
        /\ \A e, f \in OnRoute' : e = f
        /\ "photon" \notin there /\ \E d \in OnRoute : d.what = "tap"
    BY <2>1, RouteMoves
  <2>3. UNCHANGED <<photon, bit, there>>
    BY <1>5 DEF Tap
  <2>4. PICK d \in Pending("tap"), basis \in Interceptor.bases, b \in Bits :
          tapped' = [basis |-> basis, bit |-> b]
    BY <1>5 DEF Tap
  <2>5. Interceptors # {}
    BY <2>4 DEF Timely, Pending
  <2>6. basis \in Basis
    BY <2>5, InterceptorIsOne DEF Timely
  <2>7. tapped' \in [basis : Basis, bit : Bits] /\ tapped' # None
    BY <2>4, <2>6, RoundAssumption
  <2>8. photon = Flying
    BY <2>2 DEF Chained
  <2>9. QED
    BY <2>2, <2>3, <2>7, <2>8 DEF Chained
<1>6. CASE Resend
  <2>1. Happened("resend", "photon arrives")
    BY <1>6, WhatHappens
  <2>2. /\ \A e \in OnRoute' : e.what = "photon arrives"
        /\ \A e, f \in OnRoute' : e = f
        /\ "photon" \notin there /\ \E d \in OnRoute : d.what = "resend"
    BY <2>1, RouteMoves
  <2>3. photon' = Resent /\ UNCHANGED <<tapped, bit, there>>
    BY <1>6 DEF Resend
  <2>4. tapped # None
    BY <2>2 DEF Chained
  <2>5. QED
    BY <2>2, <2>3, <2>4 DEF Chained
<1>7. CASE PhotonArrives
  <2>1. Happened("photon arrives", "nothing") /\ "nothing" \notin Route
    BY <1>7, WhatHappens
  <2>2. OnRoute' = {} /\ \E d \in OnRoute : d.what = "photon arrives"
    BY <2>1, RouteMoves
  <2>3. there' = there \union {"photon"} /\ UNCHANGED <<tapped, bit, photon>>
    BY <1>7 DEF PhotonArrives
  <2>4. photon = IF tapped = None THEN Flying ELSE Resent
    BY <2>2 DEF Chained
  <2>5. QED
    BY <2>2, <2>3, <2>4 DEF Chained
<1>8. CASE AnswerArrives
  <2>1. Happened("answer arrives", "nothing") /\ "nothing" \notin Route /\ "answer arrives" \notin Route
    BY <1>8, WhatHappens
  <2>2. OnRoute' = OnRoute
    BY <2>1, RouteStays
  <2>3. UNCHANGED <<tapped, photon, bit, there>>
    BY <1>8 DEF AnswerArrives
  <2>4. QED
    BY <1>1, <2>2, <2>3
<1>9. CASE V0Measures
  <2>1. "photon" \in there /\ UNCHANGED <<pending, tapped, photon, there>>
    BY <1>9 DEF V0Measures, CanMeasure
  <2>2. OnRoute' = OnRoute
    BY <2>1 DEF OnRoute
  <2>3. QED
    BY <2>1, <2>2 DEF Chained
<1>10. CASE ProverMeasures
  <2>1. "photon" \in there /\ UNCHANGED <<tapped, photon, there>>
    BY <1>10 DEF ProverMeasures, CanMeasure
  <2>2. PICK draw \in Draws(attacks) :
          LET tx == AttackedMessage(attacks, Transmission("answer", now), draw) IN
          pending' = pending \union IF tx.dropped THEN {}
                                    ELSE {Due(ArrivesAt(tx), Arrival["answer"])}
    BY <1>10 DEF ProverMeasures
  <2>3. PICK tx : tx = AttackedMessage(attacks, Transmission("answer", now), draw)
    OBVIOUS
  <2>4. pending' = pending \/ pending' = pending \union {Due(ArrivesAt(tx), "answer arrives")}
    BY <2>2, <2>3 DEF Arrival
  <2>5. Due(ArrivesAt(tx), "answer arrives").what \notin Route
    BY DEF Due
  <2>6. OnRoute' = OnRoute
    BY <2>4, <2>5 DEF OnRoute
  <2>7. QED
    BY <2>1, <2>6 DEF Chained
<1>11. CASE Allocate \/ SendReport \/ Done \/ UNCHANGED allVars
  <2>1. UNCHANGED <<pending, tapped, photon, bit, there>>
    BY <1>11 DEF Allocate, SendReport, Done, allVars, roundVars
  <2>2. QED
    BY <1>1, <2>1 DEF OnRoute
<1>12. QED
  BY <1>2, <1>3, <1>4, <1>5, <1>6, <1>7, <1>8, <1>9, <1>10, <1>11 DEF Next

-----------------------------------------------------------------------------
(* Stabilizers. *)

StabsOn(D) == [sign : {-1, 1}, letters : [D -> Letters]]

LEMMA SignsKeep ==
  /\ \A s \in {-1, 1} : -s \in {-1, 1}
  /\ \A s \in {-1, 1}, b \in Bits : s * SignOf(b) \in {-1, 1}
  /\ \A b \in Bits : 1 * SignOf(b) = SignOf(b) /\ SignOf(b) \in {-1, 1}
  /\ \A a, b \in Bits : SignOf(a) = SignOf(b) => a = b
<1>1. ASSUME NEW b \in Bits
      PROVE  SignOf(b) = 1 \/ SignOf(b) = -1
  BY DEF SignOf
<1>2. -(-1) = 1 /\ (-1) * 1 = -1 /\ (-1) * (-1) = 1 /\ 1 * 1 = 1 /\ 1 * (-1) = -1
  <2>1. \A k \in Int : 1 * k = k /\ (-1) * k = -k
    OBVIOUS
  <2>2. \A k \in Int : -(-k) = k
    OBVIOUS
  <2>3. -1 \in Int
    OBVIOUS
  <2>4. 1 \in Int
    OBVIOUS
  <2>5. QED
    BY <2>1, <2>2, <2>3, <2>4, Zenon
<1>3. \A s \in {-1, 1} : -s \in {-1, 1}
  BY <1>2
<1>4. ASSUME NEW s \in {-1, 1}, NEW b \in Bits
      PROVE  s * SignOf(b) \in {-1, 1}
  <2>1. CASE SignOf(b) = 1
    <3>1. s * 1 \in {-1, 1}
      BY <1>2
    <3>2. QED
      BY <2>1, <3>1
  <2>2. CASE SignOf(b) = -1
    <3>1. s * (-1) \in {-1, 1}
      BY <1>2
    <3>2. QED
      BY <2>2, <3>1
  <2>3. QED
    BY <1>1, <2>1, <2>2
<1>5. ASSUME NEW b \in Bits
      PROVE  1 * SignOf(b) = SignOf(b) /\ SignOf(b) \in {-1, 1}
  <2>1. CASE SignOf(b) = 1
    BY <2>1
  <2>2. CASE SignOf(b) = -1
    <3>1. 1 * (-1) = -1
      OBVIOUS
    <3>2. QED
      BY <2>2, <3>1
  <2>3. QED
    BY <1>1, <2>1, <2>2
<1>6. \A a, b \in Bits : SignOf(a) = SignOf(b) => a = b
  <2>1. 1 # -1
    OBVIOUS
  <2>2. QED
    BY <2>1 DEF SignOf, Bits
<1>7. QED
  BY <1>3, <1>4, <1>5, <1>6

LEMMA FlippedKeeps ==
  ASSUME NEW D, NEW g, g \subseteq StabsOn(D), NEW k, NEW error
  PROVE  Flipped(g, k, error) \subseteq StabsOn(D)
<1>1. ASSUME NEW s \in g
      PROVE  [s EXCEPT !.sign = IF s.letters[k] \in {"I", error} \/ error = "I" THEN @ ELSE -@]
               \in StabsOn(D)
  <2>1. s.sign \in {-1, 1} /\ -s.sign \in {-1, 1}
    BY SignsKeep DEF StabsOn
  <2>2. QED
    BY <2>1 DEF StabsOn
<1>2. QED
  BY <1>1 DEF Flipped

LEMMA RotatedKeeps ==
  ASSUME NEW D, NEW g, g \subseteq StabsOn(D), NEW k, NEW basis
  PROVE  Rotated(g, k, basis) \subseteq StabsOn(D)
<1>1. ASSUME NEW s \in g
      PROVE  [s EXCEPT !.letters[k] = CASE @ = "X" -> "Z" [] @ = "Z" -> "X" [] OTHER -> @,
                       !.sign = IF s.letters[k] = "Y" THEN -@ ELSE @] \in StabsOn(D)
  <2>1. s.sign \in {-1, 1} /\ -s.sign \in {-1, 1} /\ s.letters \in [D -> Letters]
    BY SignsKeep DEF StabsOn
  <2>2. PICK l : l = CASE s.letters[k] = "X" -> "Z" [] s.letters[k] = "Z" -> "X"
                       [] OTHER -> s.letters[k]
    OBVIOUS
  <2>3. k \in D => l \in Letters
    BY <2>1, <2>2 DEF Letters
  <2>4. [s.letters EXCEPT ![k] = l] \in [D -> Letters]
    BY <2>1, <2>3
  <2>5. QED
    BY <2>1, <2>2, <2>4 DEF StabsOn
<1>2. QED
  BY <1>1 DEF Rotated, Hadamard

LEMMA ProjectedKeeps ==
  ASSUME NEW D, NEW g, g \subseteq StabsOn(D), NEW k, NEW b \in Bits
  PROVE  Projected(g, k, b) \subseteq StabsOn(D)
<1>1. ASSUME NEW s \in g
      PROVE  [s EXCEPT !.letters[k] = IF @ = "I" THEN "Z" ELSE "I", !.sign = @ * SignOf(b)]
               \in StabsOn(D)
  <2>1. s.sign * SignOf(b) \in {-1, 1} /\ s.letters \in [D -> Letters]
    BY SignsKeep DEF StabsOn
  <2>2. PICK l : l = IF s.letters[k] = "I" THEN "Z" ELSE "I"
    OBVIOUS
  <2>3. l \in Letters
    BY <2>2 DEF Letters
  <2>4. [s.letters EXCEPT ![k] = l] \in [D -> Letters]
    BY <2>1, <2>3
  <2>5. QED
    BY <2>1, <2>2, <2>4 DEF StabsOn
<1>2. QED
  BY <1>1 DEF Projected

\* The letter that basis measures, of two qubits and of one.
LEMMA PairStarts ==
  ASSUME NEW basis \in Basis, NEW error
  PROVE  /\ Flipped(BellPair, 1, error) \subseteq StabsOn({0, 1})
         /\ error \in {"I", LetterOf(basis)} =>
              Stab(1, Two(LetterOf(basis), LetterOf(basis))) \in Flipped(BellPair, 1, error)
<1>1. BellPair \subseteq StabsOn({0, 1})
  BY DEF BellPair, Stab, Two, StabsOn, Letters
<1>2. ASSUME error \in {"I", LetterOf(basis)}
      PROVE  Stab(1, Two(LetterOf(basis), LetterOf(basis))) \in Flipped(BellPair, 1, error)
  <2>1. PICK L : L = LetterOf(basis)
    OBVIOUS
  <2>2. PICK s : s = Stab(1, Two(L, L))
    OBVIOUS
  <2>3. s \in BellPair /\ s.letters[1] = L
    BY <2>1, <2>2 DEF BellPair, Stab, Two, LetterOf
  <2>4. [s EXCEPT !.sign = @] = s
    BY <2>2 DEF Stab
  <2>5. [s EXCEPT !.sign = IF s.letters[1] \in {"I", error} \/ error = "I" THEN @ ELSE -@] = s
    BY <1>2, <2>1, <2>3, <2>4
  <2>6. QED
    BY <2>1, <2>2, <2>3, <2>5 DEF Flipped
<1>3. QED
  BY <1>1, <1>2, FlippedKeeps

LEMMA ReplacementStarts ==
  ASSUME NEW basis \in Basis, NEW b \in Bits, NEW error
  PROVE  /\ Flipped(Prepared(basis, b), 0, error) \subseteq StabsOn({0})
         /\ error \in {"I", LetterOf(basis)} =>
              Stab(SignOf(b), One(LetterOf(basis))) \in Flipped(Prepared(basis, b), 0, error)
<1>1. Prepared(basis, b) \subseteq StabsOn({0})
  BY SignsKeep DEF Prepared, Stab, One, StabsOn, Letters
<1>2. ASSUME error \in {"I", LetterOf(basis)}
      PROVE  Stab(SignOf(b), One(LetterOf(basis))) \in Flipped(Prepared(basis, b), 0, error)
  <2>1. PICK L : L = LetterOf(basis)
    OBVIOUS
  <2>2. PICK s : s = Stab(SignOf(b), One(L))
    OBVIOUS
  <2>3. s \in Prepared(basis, b) /\ s.letters[0] = L
    BY <2>1, <2>2 DEF Prepared, Stab, One, LetterOf
  <2>4. [s EXCEPT !.sign = @] = s
    BY <2>2 DEF Stab
  <2>5. [s EXCEPT !.sign = IF s.letters[0] \in {"I", error} \/ error = "I" THEN @ ELSE -@] = s
    BY <1>2, <2>1, <2>3, <2>4
  <2>6. QED
    BY <2>1, <2>2, <2>3, <2>5 DEF Flipped
<1>3. QED
  BY <1>1, <1>2, FlippedKeeps

\* An error along the letter of a place leaves a stabilizer with that letter.
LEMMA FlippedLeaves ==
  ASSUME NEW g, NEW sign, NEW letters, Stab(sign, letters) \in g, NEW k, NEW L, letters[k] = L,
         NEW error \in {"I", L}
  PROVE  Stab(sign, letters) \in Flipped(g, k, error)
<1>1. PICK s : s = Stab(sign, letters)
  OBVIOUS
<1>2. [s EXCEPT !.sign = @] = s /\ s.letters[k] = L
  BY <1>1 DEF Stab
<1>3. [s EXCEPT !.sign = IF s.letters[k] \in {"I", error} \/ error = "I" THEN @ ELSE -@] = s
  BY <1>2
<1>4. QED
  BY <1>1, <1>3 DEF Flipped

-----------------------------------------------------------------------------
(* The two backends. *)

Both(keys, g) == [keys |-> keys, state |-> g]

\* s, k and m hold the pair and, if two, the replacement, and say the same.
Matched(s, k, m, two) ==
  /\ DOMAIN s = {"pair"} \union IF two THEN {"replacement-state"} ELSE {}
  /\ DOMAIN k = {"pair:0", "pair:1"} \union IF two THEN {"replacement-qubit"} ELSE {}
  /\ DOMAIN m = {0, 1} \union IF two THEN {2} ELSE {}
  /\ k["pair:0"] = 0 /\ k["pair:1"] = 1
  /\ m[0] = Both(<<0, 1>>, s["pair"]) /\ m[1] = Both(<<0, 1>>, s["pair"])
  /\ s["pair"] \subseteq StabsOn({0, 1})
  /\ two => /\ k["replacement-qubit"] = 2
            /\ m[2] = Both(<<2>>, s["replacement-state"])
            /\ s["replacement-state"] \subseteq StabsOn({0})

\* The handles of the pair, and of the replacement if there is one.
Held(two) == {Home, Flying} \union IF two THEN {Resent} ELSE {}

PlacesOf(h) == IF h = Resent THEN {0} ELSE {0, 1}

Matches == phase = "running" => Matched(store, keyOf, manager, tapped # None)

LEMMA TheHandles ==
  /\ Home.state = "pair" /\ Home.qubit = "pair:0" /\ Home.index = 0
  /\ Flying.state = "pair" /\ Flying.qubit = "pair:1" /\ Flying.index = 1
  /\ Resent.state = "replacement-state" /\ Resent.qubit = "replacement-qubit" /\ Resent.index = 0
  /\ Home # Resent /\ Flying # Resent /\ Home # Flying
<1>1. "pair" # "replacement-state" /\ 0 # 1
  OBVIOUS
<1>2. QED
  BY <1>1 DEF Home, Flying, Resent, Handle

LEMMA KeysOfAPair ==
  /\ Range(<<0, 1>>) = {0, 1} /\ Range(<<2>>) = {2}
  /\ (CHOOSE i \in DOMAIN <<0, 1>> : <<0, 1>>[i] = 0) = 1
  /\ (CHOOSE i \in DOMAIN <<0, 1>> : <<0, 1>>[i] = 1) = 2
  /\ (CHOOSE i \in DOMAIN <<2>> : <<2>>[i] = 2) = 1
<1>1. DOMAIN <<0, 1>> = {1, 2} /\ <<0, 1>>[1] = 0 /\ <<0, 1>>[2] = 1
  OBVIOUS
<1>2. DOMAIN <<2>> = {1} /\ <<2>>[1] = 2
  OBVIOUS
<1>3. Range(<<0, 1>>) = {0, 1}
  BY <1>1 DEF Range
<1>4. Range(<<2>>) = {2}
  BY <1>2 DEF Range
<1>5. PICK t : t = <<0, 1>>
  OBVIOUS
<1>6. DOMAIN t = {1, 2} /\ t[1] = 0 /\ t[2] = 1
  BY <1>1, <1>5
<1>7. (CHOOSE i \in DOMAIN t : t[i] = 0) = 1
  BY ONLY <1>6
<1>8. (CHOOSE i \in DOMAIN t : t[i] = 1) = 2
  BY ONLY <1>6
<1>9. PICK u : u = <<2>>
  OBVIOUS
<1>10. DOMAIN u = {1} /\ u[1] = 2
  BY <1>2, <1>9
<1>11. (CHOOSE i \in DOMAIN u : u[i] = 2) = 1
  BY ONLY <1>10
<1>12. QED
  BY <1>3, <1>4, <1>5, <1>7, <1>8, <1>9, <1>11

Placed(h) ==
  /\ Place(h) = h.index /\ AdapterState(h) = StoreState(h)
  /\ StoreState(h) \subseteq StabsOn(PlacesOf(h))
  /\ h.index \in PlacesOf(h)

LEMMA HeldIsPlaced ==
  ASSUME NEW two \in BOOLEAN, Matched(store, keyOf, manager, two), NEW h \in Held(two)
  PROVE  Placed(h)
<1>1. ASSUME NEW key, NEW keys, NEW i, NEW g,
             keyOf[h.qubit] = key, manager[key] = Both(keys, g),
             (CHOOSE j \in DOMAIN keys : keys[j] = key) = i, i - 1 = h.index,
             g = store[h.state]
      PROVE  Place(h) = h.index /\ AdapterState(h) = StoreState(h)
  <2>1. manager[key].keys = keys /\ manager[key].state = g
    BY <1>1 DEF Both
  <2>2. Place(h) = (CHOOSE j \in DOMAIN keys : keys[j] = key) - 1
    BY <1>1, <2>1, Zenon DEF Place
  <2>3. Place(h) = h.index
    BY <1>1, <2>2
  <2>4. QED
    BY <1>1, <2>1, <2>3 DEF AdapterState, StoreState
<1>2. 1 - 1 = 0 /\ 2 - 1 = 1
  OBVIOUS
<1>3. CASE h = Home
  <2>1. Place(h) = h.index /\ AdapterState(h) = StoreState(h)
    BY <1>1, <1>2, <1>3, TheHandles, KeysOfAPair DEF Matched
  <2>2. QED
    BY <1>3, <2>1, TheHandles DEF Placed, PlacesOf, StoreState, Matched
<1>4. CASE h = Flying
  <2>1. Place(h) = h.index /\ AdapterState(h) = StoreState(h)
    BY <1>1, <1>2, <1>4, TheHandles, KeysOfAPair DEF Matched
  <2>2. QED
    BY <1>4, <2>1, TheHandles DEF Placed, PlacesOf, StoreState, Matched
<1>5. CASE h = Resent /\ two
  <2>1. Place(h) = h.index /\ AdapterState(h) = StoreState(h)
    BY <1>1, <1>2, <1>5, TheHandles, KeysOfAPair DEF Matched
  <2>2. QED
    BY <1>5, <2>1, TheHandles DEF Placed, PlacesOf, StoreState, Matched
<1>6. QED
  BY <1>3, <1>4, <1>5 DEF Held

\* What is written under every key of a handle's state matches the store.
LEMMA WrittenMatches ==
  ASSUME NEW two \in BOOLEAN, Matched(store, keyOf, manager, two), NEW h \in Held(two),
         NEW g, g \subseteq StabsOn(PlacesOf(h)), NEW s, s = [store EXCEPT ![h.state] = g],
         NEW m, m = ManagerSet(manager[keyOf[h.qubit]].keys, g)
  PROVE  Matched(s, keyOf, m, two)
<1>1. CASE h \in {Home, Flying}
  <2>1. h.state = "pair" /\ PlacesOf(h) = {0, 1}
    BY <1>1, TheHandles DEF PlacesOf
  <2>2. manager[keyOf[h.qubit]].keys = <<0, 1>>
    BY <1>1, TheHandles DEF Matched, Both
  <2>3. m = [key \in DOMAIN manager \union {0, 1} |->
               IF key \in {0, 1} THEN Both(<<0, 1>>, g) ELSE manager[key]]
    BY <2>2, KeysOfAPair DEF ManagerSet, Both
  <2>4. /\ DOMAIN m = DOMAIN manager
        /\ m[0] = Both(<<0, 1>>, g) /\ m[1] = Both(<<0, 1>>, g)
        /\ two => m[2] = manager[2]
    BY <2>3 DEF Matched
  <2>5. /\ DOMAIN s = DOMAIN store /\ s["pair"] = g
        /\ two => s["replacement-state"] = store["replacement-state"]
    BY <2>1 DEF Matched
  <2>6. QED
    BY <2>1, <2>4, <2>5 DEF Matched
<1>2. CASE h = Resent /\ two
  <2>1. h.state = "replacement-state" /\ PlacesOf(h) = {0}
    BY <1>2, TheHandles DEF PlacesOf
  <2>2. manager[keyOf[h.qubit]].keys = <<2>>
    BY <1>2, TheHandles DEF Matched, Both
  <2>3. m = [key \in DOMAIN manager \union {2} |->
               IF key \in {2} THEN Both(<<2>>, g) ELSE manager[key]]
    BY <2>2, KeysOfAPair DEF ManagerSet, Both
  <2>4. /\ DOMAIN m = DOMAIN manager
        /\ m[0] = manager[0] /\ m[1] = manager[1]
        /\ m[2] = Both(<<2>>, g)
    BY <1>2, <2>3 DEF Matched
  <2>5. /\ DOMAIN s = DOMAIN store /\ s["replacement-state"] = g /\ s["pair"] = store["pair"]
    BY <1>2, <2>1 DEF Matched
  <2>6. QED
    BY <1>2, <2>1, <2>4, <2>5 DEF Matched
<1>3. QED
  BY <1>1, <1>2 DEF Held

LEMMA PreparedMatches ==
  ASSUME NEW s, NEW k, NEW m, Matched(s, k, m, FALSE), NEW g, g \subseteq StabsOn({0}),
         NEW s2, s2 = Put(s, "replacement-state", g),
         NEW k2, k2 = Put(k, "replacement-qubit", 2), NEW m2, m2 = Put(m, 2, Both(<< 2 >>, g))
  PROVE  Matched(s2, k2, m2, TRUE)
<1>1. /\ DOMAIN s2 = {"pair", "replacement-state"}
      /\ s2["pair"] = s["pair"] /\ s2["replacement-state"] = g
  BY DEF Matched, Put
<1>2. /\ DOMAIN k2 = {"pair:0", "pair:1", "replacement-qubit"}
      /\ k2["pair:0"] = 0 /\ k2["pair:1"] = 1 /\ k2["replacement-qubit"] = 2
  BY DEF Matched, Put
<1>3. /\ DOMAIN m2 = {0, 1, 2}
      /\ m2[0] = m[0] /\ m2[1] = m[1] /\ m2[2] = Both(<<2>>, g)
  BY DEF Matched, Put
<1>4. QED
  BY <1>1, <1>2, <1>3 DEF Matched

LEMMA PairMatches ==
  ASSUME BackendsInit, NEW error, CreatePair("pair", Home.qubit, Flying.qubit, error)
  PROVE  /\ Matched(store', keyOf', manager', FALSE)
         /\ store'["pair"] = Flipped(BellPair, 1, error)
<1>1. DOMAIN store = {} /\ DOMAIN keyOf = {} /\ DOMAIN manager = {}
  BY DEF BackendsInit
<1>2. NewKey = 0
  BY <1>1, FS_EmptySet DEF NewKey
<1>3. PICK g : g = Flipped(BellPair, 1, error)
  OBVIOUS
<1>4. g \subseteq StabsOn({0, 1})
  <2>1. 0 \in Basis
    BY DEF Basis
  <2>2. QED
    BY <1>3, <2>1, PairStarts
<1>5. store' = Put(store, "pair", g)
  BY <1>3 DEF CreatePair, StorePut
<1>6. manager' = ManagerSet(<<0, 1>>, g)
  BY <1>2, <1>3 DEF CreatePair
<1>7. keyOf' = Put(Put(keyOf, "pair:0", 0), "pair:1", 1)
  BY <1>2, TheHandles DEF CreatePair
<1>8. DOMAIN store' = {"pair"} /\ store'["pair"] = g
  BY <1>1, <1>5 DEF Put
<1>9. DOMAIN keyOf' = {"pair:0", "pair:1"} /\ keyOf'["pair:0"] = 0 /\ keyOf'["pair:1"] = 1
  BY <1>1, <1>7 DEF Put
<1>10. manager' = [key \in {0, 1} |-> Both(<<0, 1>>, g)]
  BY <1>1, <1>6, KeysOfAPair DEF ManagerSet, Both
<1>11. QED
  BY <1>3, <1>4, <1>8, <1>9, <1>10 DEF Matched

LEMMA MeasuredMatches ==
  ASSUME NEW two \in BOOLEAN, Matched(store, keyOf, manager, two), NEW h \in Held(two),
         NEW basis, NEW b \in Bits
  PROVE  Matched(StoreMeasured(h, basis, b), keyOf, AdapterMeasured(h, basis, b), two)
<1>1. Placed(h)
  BY HeldIsPlaced
<1>2. PICK g : g = Projected(Rotated(StoreState(h), h.index, basis), h.index, b)
  OBVIOUS
<1>3. g \subseteq StabsOn(PlacesOf(h))
  BY <1>1, <1>2, RotatedKeeps, ProjectedKeeps DEF Placed
<1>4. StoreMeasured(h, basis, b) = [store EXCEPT ![h.state] = g]
  BY <1>2 DEF StoreMeasured, StoreState
<1>5. AdapterMeasured(h, basis, b) = ManagerSet(manager[keyOf[h.qubit]].keys, g)
  BY <1>1, <1>2 DEF AdapterMeasured, Placed
<1>6. QED
  BY <1>3, <1>4, <1>5, WrittenMatches

LEMMA DisturbedMatches ==
  ASSUME NEW two \in BOOLEAN, Matched(store, keyOf, manager, two), NEW h \in Held(two),
         NEW error, Disturb(h, error)
  PROVE  Matched(store', keyOf', manager', two)
<1>1. Placed(h)
  BY HeldIsPlaced
<1>2. PICK g : g = Flipped(StoreState(h), h.index, error)
  OBVIOUS
<1>3. g \subseteq StabsOn(PlacesOf(h))
  BY <1>1, <1>2, FlippedKeeps DEF Placed
<1>4. store' = [store EXCEPT ![h.state] = g]
  BY <1>2 DEF Disturb, StoreError, StoreState
<1>5. manager' = ManagerSet(manager[keyOf[h.qubit]].keys, g) /\ keyOf' = keyOf
  BY <1>1, <1>2 DEF Disturb, AdapterError, Placed
<1>6. QED
  BY <1>3, <1>4, <1>5, WrittenMatches

LEMMA TappedMatches ==
  ASSUME Matched(store, keyOf, manager, FALSE), NEW basis, NEW b \in Bits,
         NEW prepared \in Basis, NEW error, MeasureAndPrepare(Flying, basis, b, Resent, prepared, error)
  PROVE  /\ Matched(store', keyOf', manager', TRUE)
         /\ store'["pair"] = StoreMeasured(Flying, basis, b)["pair"]
         /\ store'["replacement-state"] = Flipped(Prepared(prepared, b), 0, error)
<1>1. PICK g : g = Flipped(Prepared(prepared, b), 0, error)
  OBVIOUS
<1>2. g \subseteq StabsOn({0})
  BY <1>1, ReplacementStarts
<1>3. PICK s, m : s = StoreMeasured(Flying, basis, b) /\ m = AdapterMeasured(Flying, basis, b)
  OBVIOUS
<1>4. Matched(s, keyOf, m, FALSE)
  <2>1. Flying \in Held(FALSE)
    BY DEF Held
  <2>2. QED
    BY <1>3, <2>1, MeasuredMatches
<1>5. NewKey = 2
  <2>1. DOMAIN manager = {0, 1}
    BY DEF Matched
  <2>2. Cardinality({0}) = 1 /\ IsFiniteSet({0})
    BY FS_Singleton
  <2>3. Cardinality({0} \union {1}) = 1 + 1
    BY <2>2, FS_AddElement
  <2>4. {0} \union {1} = {0, 1} /\ 1 + 1 = 2
    OBVIOUS
  <2>5. QED
    BY <2>1, <2>3, <2>4 DEF NewKey
<1>6. store' = Put(s, "replacement-state", g)
  BY <1>1, <1>3, TheHandles DEF MeasureAndPrepare
<1>7. manager' = Put(m, 2, Both(<<2>>, g))
  BY <1>1, <1>3, <1>5 DEF MeasureAndPrepare, Both
<1>8. keyOf' = Put(keyOf, "replacement-qubit", 2)
  BY <1>5, TheHandles DEF MeasureAndPrepare
<1>9. Matched(store', keyOf', manager', TRUE)
  BY <1>2, <1>4, <1>6, <1>7, <1>8, PreparedMatches
<1>10. store'["pair"] = s["pair"] /\ store'["replacement-state"] = g
  BY <1>4, <1>6 DEF Put, Matched
<1>11. QED
  BY <1>1, <1>3, <1>9, <1>10

LEMMA MatchesInit == Init => Matches
BY DEF Init, Matches

\* Who is measured, and whom an error strikes, is held.
LEMMA PhotonIsHeld ==
  ASSUME Chained, "photon" \in there \/ Pending("photon arrives") # {}
  PROVE  /\ photon \in Held(tapped # None)
         /\ photon = IF tapped = None THEN Flying ELSE Resent
<1>1. photon = IF tapped = None THEN Flying ELSE Resent
  BY DEF Chained, OnRoute, Pending, Route
<1>2. QED
  BY <1>1 DEF Held

LEMMA MatchesStep == Timely /\ Chained /\ Matches /\ [Next]_allVars => Matches'
<1>1. SUFFICES ASSUME Timely, Chained, Matches, [Next]_allVars
               PROVE  Matches'
  OBVIOUS
<1>2. CASE Allocate
  BY <1>2 DEF Allocate, Matches
<1>3. CASE RoundStart
  <2>1. CASE phase' = "running"
    <3>1. phase = "ready" /\ UNCHANGED tapped
      BY <1>3 DEF RoundStart
    <3>2. Untouched
      BY <1>1, <3>1 DEF Timely
    <3>3. PICK error \in SourceErrors : CreatePair("pair", Home.qubit, Flying.qubit, error)
      <4>1. "refused" # "running"
        OBVIOUS
      <4>2. QED
        BY <1>3, <2>1, <4>1, Zenon DEF RoundStart
    <3>4. Matched(store', keyOf', manager', FALSE)
      BY <3>2, <3>3, PairMatches DEF Untouched
    <3>5. tapped' = None
      BY <3>1, <3>2 DEF Untouched
    <3>6. QED
      BY <3>4, <3>5 DEF Matches
  <2>2. QED
    BY <2>1 DEF Matches
<1>4. CASE \/ SendBasis("basis_x") \/ SendBasis("basis_y") \/ SendPhoton \/ Resend
           \/ BasisArrives("basis_x") \/ BasisArrives("basis_y") \/ AnswerArrives
  <2>1. UNCHANGED <<phase, tapped, store, keyOf, manager>>
    BY <1>4 DEF SendBasis, SendPhoton, Resend, BasisArrives, AnswerArrives, Happens, backendVars
  <2>2. QED
    BY <1>1, <2>1 DEF Matches
<1>5. CASE Tap
  <2>1. PICK d \in Pending("tap"), basis \in Interceptor.bases, b \in Bits, error \in SourceErrors :
          /\ Happens(d, {Due(d.at + Interceptor.prepare, "resend")})
          /\ MeasureAndPrepare(photon, basis, b, Resent, basis, error)
          /\ tapped' = [basis |-> basis, bit |-> b]
    BY <1>5 DEF Tap
  <2>2. d \in OnRoute /\ d.what = "tap" /\ d \in pending
    BY <2>1 DEF Pending, OnRoute, Route
  <2>3. tapped = None /\ photon = Flying
    BY <1>1, <2>2 DEF Chained
  <2>4. phase = "running" /\ phase' = phase
    BY <1>1, <2>1, <2>2 DEF Timely, Untouched, Happens
  <2>5. basis \in Basis
    BY <1>1, <2>1, <2>2, InterceptorIsOne DEF Timely
  <2>6. Matched(store, keyOf, manager, FALSE)
    BY <1>1, <2>3, <2>4 DEF Matches
  <2>7. Matched(store', keyOf', manager', TRUE)
    BY <2>1, <2>3, <2>5, <2>6, TappedMatches
  <2>8. tapped' # None
    BY <2>1, <2>5, RoundAssumption
  <2>9. QED
    BY <2>7, <2>8 DEF Matches
<1>6. CASE PhotonArrives
  <2>1. PICK d \in Pending("photon arrives"), error \in LinkErrors :
          Happens(d, {}) /\ Disturb(photon, error) /\ UNCHANGED tapped
    BY <1>6 DEF PhotonArrives, Arrival
  <2>2. photon \in Held(tapped # None)
    BY <1>1, <2>1, PhotonIsHeld
  <2>3. phase = "running" /\ phase' = phase
    BY <1>1, <2>1 DEF Timely, Untouched, Happens, Pending
  <2>4. Matched(store, keyOf, manager, tapped # None)
    BY <1>1, <2>3 DEF Matches
  <2>5. Matched(store', keyOf', manager', tapped # None)
    BY <2>1, <2>2, <2>4, DisturbedMatches
  <2>6. QED
    BY <2>1, <2>5 DEF Matches
<1>7. ASSUME NEW h \in Held(tapped # None), NEW b \in Bits, Measure(h, BasisOf(inputs), b),
             there = {"photon", "basis_x", "basis_y"}, UNCHANGED <<phase, tapped>>
      PROVE  Matches'
  <2>1. phase = "running"
    BY <1>1, <1>7 DEF Timely, Untouched
  <2>2. Matched(store, keyOf, manager, tapped # None)
    BY <1>1, <2>1 DEF Matches
  <2>3. /\ store' = StoreMeasured(h, BasisOf(inputs), b)
        /\ manager' = AdapterMeasured(h, BasisOf(inputs), b) /\ keyOf' = keyOf
    BY <1>7 DEF Measure
  <2>4. Matched(store', keyOf', manager', tapped # None)
    BY <2>2, <2>3, MeasuredMatches
  <2>5. QED
    BY <1>7, <2>4 DEF Matches
<1>8. CASE V0Measures
  <2>1. PICK b \in Bits : Measure(Home, BasisOf(inputs), b)
    BY <1>8 DEF V0Measures
  <2>2. there = {"photon", "basis_x", "basis_y"} /\ UNCHANGED <<phase, tapped>>
    BY <1>8 DEF V0Measures, CanMeasure
  <2>3. Home \in Held(tapped # None)
    BY DEF Held
  <2>4. QED
    BY <1>7, <2>1, <2>2, <2>3
<1>9. CASE ProverMeasures
  <2>1. PICK b \in Bits : Measure(photon, BasisOf(inputs), b)
    BY <1>9 DEF ProverMeasures
  <2>2. there = {"photon", "basis_x", "basis_y"} /\ UNCHANGED <<phase, tapped>>
    BY <1>9 DEF ProverMeasures, CanMeasure
  <2>3. photon \in Held(tapped # None)
    BY <1>1, <2>2, PhotonIsHeld
  <2>4. QED
    BY <1>7, <2>1, <2>2, <2>3
<1>10. CASE SendReport \/ Done \/ UNCHANGED allVars
  <2>1. UNCHANGED <<phase, tapped, store, keyOf, manager>>
    BY <1>10 DEF SendReport, Done, allVars, roundVars, backendVars
  <2>2. QED
    BY <1>1, <2>1 DEF Matches
<1>11. QED
  BY <1>1, <1>2, <1>3, <1>4, <1>5, <1>6, <1>8, <1>9, <1>10 DEF Next

LEMMA HandlesAreHeld ==
  ASSUME Matched(store, keyOf, manager, tapped # None)
  PROVE  Handles = Held(tapped # None)
<1>1. "replacement-state" \in DOMAIN store <=> tapped # None
  BY DEF Matched
<1>2. QED
  BY <1>1, TheHandles DEF Handles, Held

LEMMA MatchesAgree == Matches => BackendsAgree
<1>1. SUFFICES ASSUME Matches, phase = "running", NEW h \in Handles, NEW basis \in Basis
               PROVE  StoreOutcomes(h, basis) = AdapterOutcomes(h, basis)
  BY DEF BackendsAgree
<1>2. Matched(store, keyOf, manager, tapped # None)
  BY <1>1 DEF Matches
<1>3. h \in Held(tapped # None)
  BY <1>1, <1>2, HandlesAreHeld
<1>4. Placed(h)
  BY <1>2, <1>3, HeldIsPlaced
<1>5. QED
  BY <1>4 DEF StoreOutcomes, AdapterOutcomes, Placed

LEMMA TypesFollow == Timely /\ Answered /\ Matches => TypeOK
<1>1. SUFFICES ASSUME Timely, Answered, Matches
               PROVE  TypeOK
  OBVIOUS
<1>2. ASSUME NEW d \in pending
      PROVE  d.at >= now
  BY <1>1 DEF Timely, DuesFrom
<1>3. /\ DOMAIN keyOf \subseteq {h.qubit : h \in Handles} /\ Range(keyOf) = DOMAIN manager
      /\ \A id \in DOMAIN store : \A s \in store[id] : s.sign \in {-1, 1}
  <2>1. CASE phase = "running"
    <3>1. Matched(store, keyOf, manager, tapped # None)
      BY <1>1, <2>1 DEF Matches
    <3>2. Handles = Held(tapped # None)
      BY <3>1, HandlesAreHeld
    <3>3. DOMAIN keyOf \subseteq {h.qubit : h \in Handles}
      <4>1. Home \in Handles /\ Flying \in Handles /\ (tapped # None => Resent \in Handles)
        BY <3>2 DEF Held
      <4>2. QED
        BY <3>1, <4>1, TheHandles DEF Matched
    <3>4. Range(keyOf) = DOMAIN manager
      BY <3>1 DEF Matched, Range
    <3>5. ASSUME NEW id \in DOMAIN store, NEW s \in store[id]
          PROVE  s.sign \in {-1, 1}
      BY <3>1, <3>5 DEF Matched, StabsOn
    <3>6. QED
      BY <3>3, <3>4, <3>5
  <2>2. CASE phase # "running"
    <3>1. DOMAIN store = {} /\ DOMAIN keyOf = {} /\ DOMAIN manager = {}
      BY <1>1, <2>2 DEF Timely, Untouched, BackendsInit
    <3>2. QED
      BY <3>1 DEF Range
  <2>3. QED
    BY <2>1, <2>2
<1>4. QED
  BY <1>1, <1>2, <1>3 DEF TypeOK, Timely, Answered

\* The two backends leave the same outcomes open for every qubit of the round and
\* in both bases, whatever was measured, replaced or disturbed before
\* (DensityMatrixQuantumOperations, SequenceQuantumOperations).
THEOREM BackendsNeverPart == Spec => []BackendsAgree
<1>1. Init => Timely /\ Answered /\ Chained /\ Matches
  BY TimelyInit, AnsweredInit, ChainedInit, MatchesInit
<1>2. Timely /\ Answered /\ Chained /\ Matches /\ [Next]_allVars
        => (Timely /\ Answered /\ Chained /\ Matches)'
  BY TimelyStep, AnsweredStep, ChainedStep, MatchesStep
<1>3. QED
  BY <1>1, <1>2, MatchesAgree, PTL DEF Spec

\* The round stays well typed: no event is due in the past, every key of the
\* adapter's table is a state of the manager, and every sign is one.
THEOREM TypeCorrect == Spec => []TypeOK
<1>1. Init => Timely /\ Answered /\ Chained /\ Matches
  BY TimelyInit, AnsweredInit, ChainedInit, MatchesInit
<1>2. Timely /\ Answered /\ Chained /\ Matches /\ [Next]_allVars
        => (Timely /\ Answered /\ Chained /\ Matches)'
  BY TimelyStep, AnsweredStep, ChainedStep, MatchesStep
<1>3. QED
  BY <1>1, <1>2, TypesFollow, PTL DEF Spec

-----------------------------------------------------------------------------
(* What is read. *)

HasStab(g, sign, letters) == Stab(sign, letters) \in g

LEMMA TurnedToZ ==
  ASSUME NEW g, NEW sign, NEW D, NEW letters \in [D -> Letters], HasStab(g, sign, letters),
         NEW basis \in Basis, NEW k \in D, letters[k] = LetterOf(basis)
  PROVE  HasStab(Rotated(g, k, basis), sign, [letters EXCEPT ![k] = "Z"])
<1>1. PICK s : s = Stab(sign, letters)
  OBVIOUS
<1>2. s \in g /\ s.letters = letters /\ s.sign = sign
  BY <1>1 DEF HasStab, Stab
<1>3. CASE basis = 0
  <2>1. letters[k] = "Z"
    BY <1>3 DEF LetterOf
  <2>2. [letters EXCEPT ![k] = "Z"] = letters
    BY <2>1
  <2>3. Rotated(g, k, basis) = g
    BY <1>3 DEF Rotated
  <2>4. QED
    BY <2>2, <2>3
<1>4. CASE basis = 1
  <2>1. letters[k] = "X"
    BY <1>4 DEF LetterOf
  <2>2. PICK t : t = [s EXCEPT !.letters[k] = CASE @ = "X" -> "Z" [] @ = "Z" -> "X" [] OTHER -> @,
                               !.sign = IF s.letters[k] = "Y" THEN -@ ELSE @]
    OBVIOUS
  <2>3. t \in Rotated(g, k, basis)
    BY <1>2, <1>4, <2>2 DEF Rotated, Hadamard
  <2>4. (CASE letters[k] = "X" -> "Z" [] letters[k] = "Z" -> "X" [] OTHER -> letters[k]) = "Z"
    BY <2>1
  <2>5. t = Stab(sign, [letters EXCEPT ![k] = "Z"])
    BY <1>1, <2>1, <2>2, <2>4 DEF Stab
  <2>6. QED
    BY <2>3, <2>5 DEF HasStab
<1>5. QED
  BY <1>3, <1>4 DEF Basis

LEMMA TakenOut ==
  ASSUME NEW g, NEW sign, NEW D, NEW letters \in [D -> Letters], HasStab(g, sign, letters),
         NEW k \in D, letters[k] = "Z", NEW b,
         NEW rest, rest = [letters EXCEPT ![k] = "I"]
  PROVE  HasStab(Projected(g, k, b), sign * SignOf(b), rest)
<1>1. PICK s : s = Stab(sign, letters)
  OBVIOUS
<1>2. s \in g /\ s.letters = letters /\ s.sign = sign
  BY <1>1 DEF HasStab, Stab
<1>3. s \in {q \in g : q.letters[k] \in {"I", "Z"}}
  BY <1>2
<1>4. PICK t : t = [s EXCEPT !.letters[k] = IF @ = "I" THEN "Z" ELSE "I", !.sign = @ * SignOf(b)]
  OBVIOUS
<1>5. t \in Projected(g, k, b)
  BY <1>3, <1>4 DEF Projected
<1>6. (IF letters[k] = "I" THEN "Z" ELSE "I") = "I"
  OBVIOUS
<1>7. t = Stab(sign * SignOf(b), [letters EXCEPT ![k] = "I"])
  BY <1>1, <1>4, <1>6 DEF Stab
<1>8. QED
  BY <1>5, <1>7 DEF HasStab

\* What a measurement of L at place k reads and leaves.
LEMMA Measured ==
  ASSUME NEW g, NEW sign, NEW D, NEW letters \in [D -> Letters], HasStab(g, sign, letters),
         NEW basis \in Basis, NEW k \in D, letters[k] = LetterOf(basis), NEW b,
         NEW rest, rest = [letters EXCEPT ![k] = "I"]
  PROVE  HasStab(Projected(Rotated(g, k, basis), k, b), sign * SignOf(b), rest)
<1>1. PICK turned : turned = [letters EXCEPT ![k] = "Z"]
  OBVIOUS
<1>2. turned \in [D -> Letters] /\ turned[k] = "Z" /\ rest = [turned EXCEPT ![k] = "I"]
  BY <1>1 DEF Letters
<1>3. HasStab(Rotated(g, k, basis), sign, turned)
  BY <1>1, TurnedToZ
<1>4. PICK h : h = Rotated(g, k, basis)
  OBVIOUS
<1>5. HasStab(Projected(h, k, b), sign * SignOf(b), rest)
  BY <1>2, <1>3, <1>4, TakenOut
<1>6. QED
  BY <1>4, <1>5

LEMMA ReadOut ==
  ASSUME NEW g, NEW sign, NEW D, NEW letters \in [D -> Letters], HasStab(g, sign, letters),
         NEW basis \in Basis, NEW k \in D, letters[k] = LetterOf(basis),
         \A j \in D \ {k} : letters[j] = "I", NEW b \in Outcomes(Rotated(g, k, basis), k)
  PROVE  sign = SignOf(b)
<1>1. PICK turned : turned = [letters EXCEPT ![k] = "Z"]
  OBVIOUS
<1>2. turned \in [D -> Letters] /\ turned[k] = "Z" /\ \A j \in D \ {k} : turned[j] = "I"
  BY <1>1 DEF Letters
<1>3. HasStab(Rotated(g, k, basis), sign, turned)
  BY <1>1, TurnedToZ
<1>4. PICK s : s = Stab(sign, turned)
  OBVIOUS
<1>5. s \in Rotated(g, k, basis) /\ s.letters = turned /\ s.sign = sign
  BY <1>3, <1>4 DEF HasStab, Stab
<1>6. IsZAt(s, k)
  BY <1>2, <1>5 DEF IsZAt
<1>7. QED
  BY <1>5, <1>6 DEF Outcomes

\* The stabilizers of a pair and of a single qubit that the proof follows.
LEMMA TwoLetters ==
  ASSUME NEW L \in Letters
  PROVE  /\ Two(L, L) \in [{0, 1} -> Letters] /\ Two(L, L)[0] = L /\ Two(L, L)[1] = L
         /\ Two(L, "I") \in [{0, 1} -> Letters] /\ Two(L, "I")[0] = L /\ Two(L, "I")[1] = "I"
         /\ Two("I", L) \in [{0, 1} -> Letters] /\ Two("I", L)[0] = "I" /\ Two("I", L)[1] = L
         /\ Two(L, "I") = [Two(L, L) EXCEPT ![1] = "I"]
         /\ Two("I", L) = [Two(L, L) EXCEPT ![0] = "I"]
         /\ One(L) \in [{0} -> Letters] /\ One(L)[0] = L
<1>1. 0 # 1 /\ "I" \in Letters
  BY DEF Letters
<1>2. /\ Two(L, L) \in [{0, 1} -> Letters] /\ Two(L, L)[0] = L /\ Two(L, L)[1] = L
      /\ One(L) \in [{0} -> Letters] /\ One(L)[0] = L
  BY <1>1 DEF Two, One
<1>3. Two(L, "I") \in [{0, 1} -> Letters] /\ Two(L, "I")[0] = L /\ Two(L, "I")[1] = "I"
  BY <1>1 DEF Two
<1>4. Two("I", L) \in [{0, 1} -> Letters] /\ Two("I", L)[0] = "I" /\ Two("I", L)[1] = L
  BY <1>1 DEF Two
<1>5. Two(L, "I") = [Two(L, L) EXCEPT ![1] = "I"]
  BY <1>1 DEF Two
<1>6. Two("I", L) = [Two(L, L) EXCEPT ![0] = "I"]
  BY <1>1 DEF Two
<1>7. QED
  BY <1>2, <1>3, <1>4, <1>5, <1>6

LEMMA LettersOfBases ==
  ASSUME NEW basis PROVE LetterOf(basis) \in Letters
BY DEF LetterOf, Letters

LEMMA FirstOfBoth ==
  ASSUME NEW g, NEW basis \in Basis, HasStab(g, 1, Two(LetterOf(basis), LetterOf(basis))), NEW b \in Bits
  PROVE  HasStab(Projected(Rotated(g, 0, basis), 0, b), SignOf(b), Two("I", LetterOf(basis)))
<1>1. PICK L : L = LetterOf(basis) /\ L \in Letters
  BY LettersOfBases
<1>2. 1 * SignOf(b) = SignOf(b)
  BY SignsKeep
<1>3. PICK l, rest : l = Two(L, L) /\ rest = Two("I", L)
  OBVIOUS
<1>4. l \in [{0, 1} -> Letters] /\ l[0] = LetterOf(basis) /\ rest = [l EXCEPT ![0] = "I"]
  BY <1>1, <1>3, TwoLetters
<1>5. HasStab(g, 1, l)
  BY <1>1, <1>3
<1>6. HasStab(Projected(Rotated(g, 0, basis), 0, b), 1 * SignOf(b), rest)
  BY <1>4, <1>5, Measured
<1>7. QED
  BY <1>1, <1>2, <1>3, <1>6

LEMMA SecondOfBoth ==
  ASSUME NEW g, NEW basis \in Basis, HasStab(g, 1, Two(LetterOf(basis), LetterOf(basis))), NEW b \in Bits
  PROVE  HasStab(Projected(Rotated(g, 1, basis), 1, b), SignOf(b), Two(LetterOf(basis), "I"))
<1>1. PICK L : L = LetterOf(basis) /\ L \in Letters
  BY LettersOfBases
<1>2. 1 * SignOf(b) = SignOf(b)
  BY SignsKeep
<1>3. PICK l, rest : l = Two(L, L) /\ rest = Two(L, "I")
  OBVIOUS
<1>4. l \in [{0, 1} -> Letters] /\ l[1] = LetterOf(basis) /\ rest = [l EXCEPT ![1] = "I"]
  BY <1>1, <1>3, TwoLetters
<1>5. HasStab(g, 1, l)
  BY <1>1, <1>3
<1>6. HasStab(Projected(Rotated(g, 1, basis), 1, b), 1 * SignOf(b), rest)
  BY <1>4, <1>5, Measured
<1>7. QED
  BY <1>1, <1>2, <1>3, <1>6

\* A qubit whose letter has a known sign reads the bit of that sign.
LEMMA FirstKnown ==
  ASSUME NEW g, NEW basis \in Basis, NEW a \in Bits,
         HasStab(g, SignOf(a), Two(LetterOf(basis), "I")),
         NEW b \in Bits, b \in Outcomes(Rotated(g, 0, basis), 0)
  PROVE  a = b
<1>1. PICK L : L = LetterOf(basis) /\ L \in Letters
  BY LettersOfBases
<1>2. PICK l, sign : l = Two(L, "I") /\ sign = SignOf(a)
  OBVIOUS
<1>3. l \in [{0, 1} -> Letters] /\ l[0] = LetterOf(basis) /\ \A j \in {0, 1} \ {0} : l[j] = "I"
  BY <1>1, <1>2, TwoLetters
<1>4. HasStab(g, sign, l)
  BY <1>1, <1>2
<1>5. sign = SignOf(b)
  BY <1>3, <1>4, ReadOut
<1>6. QED
  BY <1>2, <1>5, SignsKeep

LEMMA SecondKnown ==
  ASSUME NEW g, NEW basis \in Basis, NEW a \in Bits,
         HasStab(g, SignOf(a), Two("I", LetterOf(basis))),
         NEW b \in Bits, b \in Outcomes(Rotated(g, 1, basis), 1)
  PROVE  a = b
<1>1. PICK L : L = LetterOf(basis) /\ L \in Letters
  BY LettersOfBases
<1>2. PICK l, sign : l = Two("I", L) /\ sign = SignOf(a)
  OBVIOUS
<1>3. l \in [{0, 1} -> Letters] /\ l[1] = LetterOf(basis) /\ \A j \in {0, 1} \ {1} : l[j] = "I"
  BY <1>1, <1>2, TwoLetters
<1>4. HasStab(g, sign, l)
  BY <1>1, <1>2
<1>5. sign = SignOf(b)
  BY <1>3, <1>4, ReadOut
<1>6. QED
  BY <1>2, <1>5, SignsKeep

LEMMA SingleKnown ==
  ASSUME NEW g, NEW basis \in Basis, NEW a \in Bits, HasStab(g, SignOf(a), One(LetterOf(basis))),
         NEW b \in Bits, b \in Outcomes(Rotated(g, 0, basis), 0)
  PROVE  a = b
<1>1. PICK L : L = LetterOf(basis) /\ L \in Letters
  BY LettersOfBases
<1>2. PICK l, sign : l = One(L) /\ sign = SignOf(a)
  OBVIOUS
<1>3. l \in [{0} -> Letters] /\ l[0] = LetterOf(basis) /\ \A j \in {0} \ {0} : l[j] = "I"
  BY <1>1, <1>2, TwoLetters
<1>4. HasStab(g, sign, l)
  BY <1>1, <1>2
<1>5. sign = SignOf(b)
  BY <1>3, <1>4, ReadOut
<1>6. QED
  BY <1>2, <1>5, SignsKeep

LEMMA ErrorSpares ==
  ASSUME NEW g, NEW sign, NEW letters, HasStab(g, sign, letters), NEW k, NEW L, letters[k] = L,
         NEW error \in {"I", L}
  PROVE  HasStab(Flipped(g, k, error), sign, letters)
BY FlippedLeaves DEF HasStab

-----------------------------------------------------------------------------
(* The bits. *)

\* The pair p and the replacement r still tell what letter L will read.
Correlated(p, r, L, tap, bits) ==
  IF tap = None
  THEN /\ bits.v0 = None /\ bits.prover = None => HasStab(p, 1, Two(L, L))
       /\ bits.v0 # None /\ bits.prover = None => HasStab(p, SignOf(bits.v0), Two("I", L))
       /\ bits.v0 = None /\ bits.prover # None => HasStab(p, SignOf(bits.prover), Two(L, "I"))
       /\ bits.v0 # None /\ bits.prover # None => bits.prover = bits.v0
  ELSE /\ bits.v0 = None => HasStab(p, SignOf(tap.bit), Two(L, "I"))
       /\ bits.prover = None => HasStab(r, SignOf(tap.bit), One(L))
       /\ bits.v0 # None => bits.v0 = tap.bit
       /\ bits.prover # None => bits.prover = tap.bit

\* The interceptor guessed the basis and no error did harm.
Clean ==
  /\ tapped = None \/ tapped.basis = BasisOf(inputs)
  /\ errors \subseteq {"I", LetterOf(BasisOf(inputs))}

Correlates ==
  phase = "running" /\ Clean =>
    Correlated(store["pair"], store["replacement-state"], LetterOf(BasisOf(inputs)), tapped, bit)

LEMMA CorrelatesInit == Init => Correlates
BY DEF Init, Correlates

LEMMA BasesAreBases == BasisOf(inputs) \in Basis
BY DEF BasisOf, Basis

LEMMA CorrelatedMeansAgree == Correlates /\ Timely /\ Answered => BitsAgree
<1>1. SUFFICES ASSUME Correlates, Timely, Clean, bit.prover # None, bit.v0 # None
               PROVE  bit.prover = bit.v0
  BY DEF BitsAgree, Clean
<1>2. phase = "running"
  BY <1>1 DEF Timely, Untouched
<1>3. QED
  BY <1>1, <1>2 DEF Correlates, Correlated

BitRecords == [{"prover", "v0"} -> Bits \union {None}]
Taps == [basis : Basis, bit : Bits]

LEMMA WithBit ==
  ASSUME NEW bits \in BitRecords, NEW b \in Bits
  PROVE  /\ b # None
         /\ [bits EXCEPT !.v0 = b].v0 = b /\ [bits EXCEPT !.v0 = b].prover = bits.prover
         /\ [bits EXCEPT !.prover = b].prover = b /\ [bits EXCEPT !.prover = b].v0 = bits.v0
         /\ bits.v0 # None => bits.v0 \in Bits
         /\ bits.prover # None => bits.prover \in Bits
BY RoundAssumption DEF BitRecords

LEMMA TapsAreSome ==
  ASSUME NEW tap \in Taps
  PROVE  tap # None /\ tap.bit \in Bits
BY RoundAssumption DEF Taps

LEMMA V0Reads ==
  ASSUME NEW basis \in Basis, NEW L, L = LetterOf(basis), NEW p, NEW r,
         NEW tap \in Taps \union {None}, NEW bits \in BitRecords, bits.v0 = None,
         Correlated(p, r, L, tap, bits), NEW b \in Bits, b \in Outcomes(Rotated(p, 0, basis), 0),
         NEW q, q = Projected(Rotated(p, 0, basis), 0, b), NEW bits2, bits2 = [bits EXCEPT !.v0 = b]
  PROVE  Correlated(q, r, L, tap, bits2)
<1>1. bits2.v0 = b /\ bits2.prover = bits.prover /\ b # None
  BY WithBit
<1>2. CASE tap = None /\ bits.prover = None
  <2>1. HasStab(p, 1, Two(LetterOf(basis), LetterOf(basis)))
    BY <1>2 DEF Correlated
  <2>2. HasStab(q, SignOf(b), Two("I", L))
    BY <2>1, FirstOfBoth
  <2>3. QED
    BY <1>1, <1>2, <2>2 DEF Correlated
<1>3. CASE tap = None /\ bits.prover # None
  <2>1. PICK a : a = bits.prover
    OBVIOUS
  <2>2. a \in Bits
    BY <1>3, <2>1, WithBit
  <2>3. HasStab(p, SignOf(a), Two(LetterOf(basis), "I"))
    BY <1>3, <2>1 DEF Correlated
  <2>4. a = b
    BY <2>2, <2>3, FirstKnown
  <2>5. QED
    BY <1>1, <1>3, <2>1, <2>4 DEF Correlated
<1>4. CASE tap # None
  <2>1. PICK a : a = tap.bit
    OBVIOUS
  <2>2. a \in Bits
    BY <1>4, <2>1, TapsAreSome
  <2>3. HasStab(p, SignOf(a), Two(LetterOf(basis), "I"))
    BY <1>4, <2>1 DEF Correlated
  <2>4. a = b
    BY <2>2, <2>3, FirstKnown
  <2>5. QED
    BY <1>1, <1>4, <2>1, <2>4 DEF Correlated
<1>5. QED
  BY <1>2, <1>3, <1>4

LEMMA ProverReads ==
  ASSUME NEW basis \in Basis, NEW L, L = LetterOf(basis), NEW p, NEW r,
         NEW bits \in BitRecords, bits.prover = None,
         Correlated(p, r, L, None, bits), NEW b \in Bits, b \in Outcomes(Rotated(p, 1, basis), 1),
         NEW q, q = Projected(Rotated(p, 1, basis), 1, b), NEW s,
         NEW bits2, bits2 = [bits EXCEPT !.prover = b]
  PROVE  Correlated(q, s, L, None, bits2)
<1>1. bits2.prover = b /\ bits2.v0 = bits.v0 /\ b # None
  BY WithBit
<1>2. CASE bits.v0 = None
  <2>1. HasStab(p, 1, Two(LetterOf(basis), LetterOf(basis)))
    BY <1>2 DEF Correlated
  <2>2. HasStab(q, SignOf(b), Two(L, "I"))
    BY <2>1, SecondOfBoth
  <2>3. QED
    BY <1>1, <1>2, <2>2 DEF Correlated
<1>3. CASE bits.v0 # None
  <2>1. PICK a : a = bits.v0
    OBVIOUS
  <2>2. a \in Bits
    BY <1>3, <2>1, WithBit
  <2>3. HasStab(p, SignOf(a), Two("I", LetterOf(basis)))
    BY <1>3, <2>1 DEF Correlated
  <2>4. a = b
    BY <2>2, <2>3, SecondKnown
  <2>5. QED
    BY <1>1, <1>3, <2>1, <2>4 DEF Correlated
<1>4. QED
  BY <1>2, <1>3

LEMMA ProverReadsReplacement ==
  ASSUME NEW basis \in Basis, NEW L, L = LetterOf(basis), NEW p, NEW r,
         NEW tap \in Taps, NEW bits \in BitRecords, bits.prover = None,
         Correlated(p, r, L, tap, bits), NEW b \in Bits, b \in Outcomes(Rotated(r, 0, basis), 0),
         NEW s, NEW bits2, bits2 = [bits EXCEPT !.prover = b]
  PROVE  Correlated(p, s, L, tap, bits2)
<1>1. bits2.prover = b /\ bits2.v0 = bits.v0 /\ b # None
  BY WithBit
<1>2. PICK a : a = tap.bit
  OBVIOUS
<1>3. a \in Bits /\ tap # None
  BY <1>2, TapsAreSome
<1>4. HasStab(r, SignOf(a), One(LetterOf(basis)))
  BY <1>2, <1>3 DEF Correlated
<1>5. a = b
  BY <1>3, <1>4, SingleKnown
<1>6. QED
  BY <1>1, <1>2, <1>3, <1>5 DEF Correlated

\* On its way the photon suffers errors along the letter at most.
LEMMA PairSuffers ==
  ASSUME NEW L \in Letters, NEW p, NEW r, NEW bits, bits.v0 = None, bits.prover = None,
         Correlated(p, r, L, None, bits), NEW error \in {"I", L},
         NEW q, q = Flipped(p, 1, error), NEW s
  PROVE  Correlated(q, s, L, None, bits)
<1>1. HasStab(p, 1, Two(L, L))
  BY DEF Correlated
<1>2. PICK l : l = Two(L, L)
  OBVIOUS
<1>3. l[1] = L
  BY <1>2, TwoLetters
<1>4. HasStab(q, 1, l)
  BY <1>1, <1>2, <1>3, ErrorSpares
<1>5. QED
  BY <1>2, <1>4 DEF Correlated

LEMMA ReplacementSuffers ==
  ASSUME NEW L \in Letters, NEW p, NEW r, NEW bits, NEW tap \in Taps,
         bits.v0 = None, bits.prover = None,
         Correlated(p, r, L, tap, bits), NEW error \in {"I", L},
         NEW s, s = Flipped(r, 0, error)
  PROVE  Correlated(p, s, L, tap, bits)
<1>1. PICK sign : sign = SignOf(tap.bit)
  OBVIOUS
<1>2. tap # None
  BY TapsAreSome
<1>3. HasStab(r, sign, One(L)) /\ HasStab(p, sign, Two(L, "I"))
  BY <1>1, <1>2 DEF Correlated
<1>4. PICK l : l = One(L)
  OBVIOUS
<1>5. l[0] = L
  BY <1>4, TwoLetters
<1>6. HasStab(s, sign, l)
  BY <1>3, <1>4, <1>5, ErrorSpares
<1>7. QED
  BY <1>1, <1>2, <1>3, <1>4, <1>6 DEF Correlated

\* The interceptor that guessed the basis knows what both will read.
LEMMA TapKeeps ==
  ASSUME NEW basis \in Basis, NEW L, L = LetterOf(basis), NEW p, NEW r, NEW bits,
         bits.v0 = None, bits.prover = None, Correlated(p, r, L, None, bits),
         NEW b \in Bits, NEW error \in {"I", L}, NEW tap \in Taps, tap.bit = b,
         NEW q, q = Projected(Rotated(p, 1, basis), 1, b),
         NEW s, s = Flipped(Prepared(basis, b), 0, error)
  PROVE  Correlated(q, s, L, tap, bits)
<1>1. HasStab(p, 1, Two(LetterOf(basis), LetterOf(basis)))
  BY DEF Correlated
<1>2. HasStab(q, SignOf(b), Two(L, "I"))
  BY <1>1, SecondOfBoth
<1>3. HasStab(s, SignOf(b), One(L))
  BY ReplacementStarts DEF HasStab
<1>4. tap # None
  BY TapsAreSome
<1>5. QED
  BY <1>2, <1>3, <1>4 DEF Correlated

LEMMA PairCorrelates ==
  ASSUME NEW basis \in Basis, NEW L, L = LetterOf(basis), NEW error \in {"I", L},
         NEW p, p = Flipped(BellPair, 1, error), NEW r, NEW bits, bits.v0 = None, bits.prover = None
  PROVE  Correlated(p, r, L, None, bits)
<1>1. HasStab(p, 1, Two(L, L))
  BY PairStarts DEF HasStab
<1>2. QED
  BY <1>1 DEF Correlated

\* What was not clean never becomes clean.
LEMMA CleanWas ==
  ASSUME Clean', errors \subseteq errors', UNCHANGED inputs, tapped = None \/ UNCHANGED tapped
  PROVE  Clean
BY DEF Clean, BasisOf

\* While the photon is on its way nobody has measured.
LEMMA NobodyHasMeasured ==
  ASSUME Chained, NEW d \in OnRoute
  PROVE  bit.prover = None /\ bit.v0 = None
BY DEF Chained

LEMMA CorrelatesStep ==
  Timely /\ Answered /\ Chained /\ Matches /\ Correlates /\ [Next]_allVars => Correlates'
<1>1. SUFFICES ASSUME Timely, Answered, Chained, Matches, Correlates, [Next]_allVars
               PROVE  Correlates'
  OBVIOUS
<1>2. PICK basis : basis = BasisOf(inputs)
  OBVIOUS
<1>3. basis \in Basis /\ bit \in BitRecords /\ tapped \in Taps \union {None}
  BY <1>1, <1>2, BasesAreBases DEF Answered, Chained, BitRecords, Taps
<1>4. PICK L : L = LetterOf(basis)
  OBVIOUS
<1>5. L \in Letters
  BY <1>4, LettersOfBases
<1>6. CASE Allocate
  <2>1. phase' # "running"
    <3>1. "ready" # "running" /\ "rejected" # "running"
      OBVIOUS
    <3>2. QED
      BY <1>6, <3>1 DEF Allocate
  <2>2. QED
    BY <2>1 DEF Correlates
<1>7. CASE RoundStart
  <2>1. SUFFICES ASSUME phase' = "running", Clean'
                 PROVE  Correlated(store["pair"], store["replacement-state"],
                                   LetterOf(BasisOf(inputs)), tapped, bit)'
    BY DEF Correlates
  <2>2. phase = "ready" /\ UNCHANGED <<tapped, bit, inputs>>
    BY <1>7 DEF RoundStart
  <2>3. Untouched
    BY <1>1, <2>2 DEF Timely
  <2>4. PICK error \in SourceErrors :
          CreatePair("pair", Home.qubit, Flying.qubit, error) /\ errors' = errors \union {error}
    <3>1. "refused" # "running"
      OBVIOUS
    <3>2. QED
      BY <1>7, <2>1, <3>1, Zenon DEF RoundStart
  <2>5. BasisOf(inputs)' = basis
    BY <1>2, <2>2 DEF BasisOf
  <2>6. error \in {"I", L}
    BY <1>4, <2>1, <2>4, <2>5 DEF Clean
  <2>7. store'["pair"] = Flipped(BellPair, 1, error)
    BY <2>3, <2>4, PairMatches DEF Untouched
  <2>8. tapped = None /\ bit.v0 = None /\ bit.prover = None
    BY <2>3 DEF Untouched
  <2>9. PICK p, r : p = store'["pair"] /\ r = store'["replacement-state"]
    OBVIOUS
  <2>10. Correlated(p, r, L, None, bit)
    BY <1>3, <1>4, <2>6, <2>7, <2>8, <2>9, PairCorrelates
  <2>11. QED
    BY <1>4, <2>2, <2>5, <2>8, <2>9, <2>10
<1>8. CASE \/ SendBasis("basis_x") \/ SendBasis("basis_y") \/ SendPhoton \/ Resend
           \/ BasisArrives("basis_x") \/ BasisArrives("basis_y") \/ AnswerArrives
  <2>1. UNCHANGED <<phase, inputs, tapped, errors, bit, store>>
    BY <1>8 DEF SendBasis, SendPhoton, Resend, BasisArrives, AnswerArrives, Happens, backendVars
  <2>2. QED
    BY <1>1, <2>1 DEF Correlates, Clean, BasisOf
<1>9. CASE SendReport \/ Done \/ UNCHANGED allVars
  <2>1. UNCHANGED <<phase, inputs, tapped, errors, bit, store>>
    BY <1>9 DEF SendReport, Done, allVars, roundVars, backendVars
  <2>2. QED
    BY <1>1, <2>1 DEF Correlates, Clean, BasisOf
\* What the other steps have in common: they find the round running.
<1>10. ASSUME phase = "running", UNCHANGED <<phase, inputs>>, errors \subseteq errors',
              tapped = None \/ UNCHANGED tapped,
              /\ Clean' /\ Matched(store, keyOf, manager, tapped # None)
              /\ Correlated(store["pair"], store["replacement-state"], L, tapped, bit)
              => Correlated(store'["pair"], store'["replacement-state"], L, tapped', bit')
       PROVE  Correlates'
  <2>1. SUFFICES ASSUME Clean'
                 PROVE  Correlated(store["pair"], store["replacement-state"],
                                   LetterOf(BasisOf(inputs)), tapped, bit)'
    BY DEF Correlates
  <2>2. Clean
    BY <1>10, <2>1, CleanWas
  <2>3. Correlated(store["pair"], store["replacement-state"], L, tapped, bit)
    BY <1>1, <1>2, <1>4, <1>10, <2>2 DEF Correlates
  <2>4. Matched(store, keyOf, manager, tapped # None)
    BY <1>1, <1>10 DEF Matches
  <2>5. Correlated(store'["pair"], store'["replacement-state"], L, tapped', bit')
    BY <1>10, <2>1, <2>3, <2>4
  <2>6. BasisOf(inputs)' = basis
    BY <1>2, <1>10 DEF BasisOf
  <2>7. QED
    BY <1>4, <2>5, <2>6
<1>11. CASE Tap
  <2>1. PICK d \in Pending("tap"), basis2 \in Interceptor.bases, b \in Bits, error \in SourceErrors :
          /\ Happens(d, {Due(d.at + Interceptor.prepare, "resend")})
          /\ MeasureAndPrepare(photon, basis2, b, Resent, basis2, error)
          /\ tapped' = [basis |-> basis2, bit |-> b]
          /\ errors' = errors \union {error} /\ UNCHANGED bit
    BY <1>11 DEF Tap
  <2>2. d \in OnRoute /\ d.what = "tap" /\ d \in pending
    BY <2>1 DEF Pending, OnRoute, Route
  <2>3. tapped = None /\ photon = Flying
    BY <1>1, <2>2 DEF Chained
  <2>4. phase = "running" /\ UNCHANGED <<phase, inputs>>
    BY <1>1, <2>1, <2>2 DEF Timely, Untouched, Happens
  <2>5. basis2 \in Basis
    BY <1>1, <2>1, <2>2, InterceptorIsOne DEF Timely
  <2>6. bit.prover = None /\ bit.v0 = None
    BY <1>1, <2>2, NobodyHasMeasured
  <2>7. ASSUME Clean', Matched(store, keyOf, manager, tapped # None),
               Correlated(store["pair"], store["replacement-state"], L, tapped, bit)
        PROVE  Correlated(store'["pair"], store'["replacement-state"], L, tapped', bit')
    <3>1. tapped' \in Taps /\ tapped' # None /\ tapped'.bit = b /\ tapped'.basis = basis2
      BY <2>1, <2>5, RoundAssumption DEF Taps
    <3>2. BasisOf(inputs)' = basis
      BY <1>2, <2>4 DEF BasisOf
    <3>3. basis2 = basis /\ error \in {"I", L}
      BY <1>4, <2>1, <2>7, <3>1, <3>2 DEF Clean
    <3>4. PICK p, r : p = store["pair"] /\ r = store["replacement-state"]
      OBVIOUS
    <3>5. Matched(store, keyOf, manager, FALSE)
      BY <2>3, <2>7
    <3>6. MeasureAndPrepare(Flying, basis, b, Resent, basis, error)
      BY <2>1, <2>3, <3>3
    <3>7. /\ store'["pair"] = StoreMeasured(Flying, basis, b)["pair"]
          /\ store'["replacement-state"] = Flipped(Prepared(basis, b), 0, error)
      BY <1>3, <3>5, <3>6, TappedMatches
    <3>8. StoreMeasured(Flying, basis, b)["pair"] = Projected(Rotated(p, 1, basis), 1, b)
      BY <3>4, <3>5, TheHandles DEF StoreMeasured, Matched
    <3>9. PICK q, s : q = store'["pair"] /\ s = store'["replacement-state"]
      OBVIOUS
    <3>10. Correlated(p, r, L, None, bit)
      BY <2>3, <2>7, <3>4
    <3>11. PICK tap : tap = tapped'
      OBVIOUS
    <3>12. Correlated(q, s, L, tap, bit)
      BY <1>3, <1>4, <2>6, <3>1, <3>3, <3>7, <3>8, <3>9, <3>10, <3>11, TapKeeps
    <3>13. QED
      BY <2>1, <3>9, <3>11, <3>12
  <2>8. errors \subseteq errors'
    BY <2>1
  <2>9. QED
    BY <1>10, <2>3, <2>4, <2>7, <2>8
<1>12. CASE PhotonArrives
  <2>1. PICK d \in Pending("photon arrives"), error \in LinkErrors :
          /\ Happens(d, {}) /\ Disturb(photon, error)
          /\ errors' = errors \union {error} /\ UNCHANGED <<tapped, bit>>
    BY <1>12 DEF PhotonArrives, Arrival
  <2>2. d \in OnRoute /\ d \in pending
    BY <2>1 DEF Pending, OnRoute, Route
  <2>3. photon = IF tapped = None THEN Flying ELSE Resent
    BY <1>1, <2>1, PhotonIsHeld
  <2>4. phase = "running" /\ UNCHANGED <<phase, inputs>>
    BY <1>1, <2>1, <2>2 DEF Timely, Untouched, Happens
  <2>5. bit.prover = None /\ bit.v0 = None
    BY <1>1, <2>2, NobodyHasMeasured
  <2>6. ASSUME Clean', Matched(store, keyOf, manager, tapped # None),
               Correlated(store["pair"], store["replacement-state"], L, tapped, bit)
        PROVE  Correlated(store'["pair"], store'["replacement-state"], L, tapped', bit')
    <3>1. BasisOf(inputs)' = basis
      BY <1>2, <2>4 DEF BasisOf
    <3>2. error \in {"I", L}
      BY <1>4, <2>1, <2>6, <3>1 DEF Clean
    <3>3. PICK p, r : p = store["pair"] /\ r = store["replacement-state"]
      OBVIOUS
    <3>4. PICK q, s : q = store'["pair"] /\ s = store'["replacement-state"]
      OBVIOUS
    <3>5. store' = [store EXCEPT ![photon.state] = Flipped(store[photon.state], photon.index, error)]
      BY <2>1 DEF Disturb, StoreError
    <3>6. CASE tapped = None
      <4>1. photon.state = "pair" /\ photon.index = 1
        BY <2>3, <3>6, TheHandles
      <4>2. q = Flipped(p, 1, error)
        BY <2>6, <3>3, <3>4, <3>5, <4>1 DEF Matched
      <4>3. Correlated(p, r, L, None, bit)
        BY <2>6, <3>3, <3>6
      <4>4. Correlated(q, s, L, None, bit)
        BY <1>5, <2>5, <3>2, <4>2, <4>3, PairSuffers
      <4>5. QED
        BY <2>1, <3>4, <3>6, <4>4
    <3>7. CASE tapped # None
      <4>1. photon.state = "replacement-state" /\ photon.index = 0
        BY <2>3, <3>7, TheHandles
      <4>2. s = Flipped(r, 0, error) /\ q = p
        BY <2>6, <3>3, <3>4, <3>5, <3>7, <4>1 DEF Matched
      <4>3. Correlated(p, r, L, tapped, bit) /\ tapped \in Taps
        BY <1>3, <2>6, <3>3, <3>7
      <4>4. Correlated(p, s, L, tapped, bit)
        BY <1>5, <2>5, <3>2, <4>2, <4>3, ReplacementSuffers
      <4>5. QED
        BY <2>1, <3>4, <4>2, <4>4
    <3>8. QED
      BY <3>6, <3>7
  <2>7. errors \subseteq errors'
    BY <2>1
  <2>8. QED
    BY <1>10, <2>1, <2>4, <2>6, <2>7
<1>13. CASE V0Measures
  <2>1. PICK b \in Bits :
          /\ Measure(Home, BasisOf(inputs), b) /\ bit' = [bit EXCEPT !.v0 = b] /\ CanMeasure("v0")
          /\ UNCHANGED <<phase, inputs, tapped, errors>>
    BY <1>13 DEF V0Measures
  <2>2. there = {"photon", "basis_x", "basis_y"} /\ bit.v0 = None
    BY <2>1 DEF CanMeasure
  <2>3. phase = "running"
    BY <1>1, <2>2 DEF Timely, Untouched
  <2>4. ASSUME Matched(store, keyOf, manager, tapped # None),
               Correlated(store["pair"], store["replacement-state"], L, tapped, bit)
        PROVE  Correlated(store'["pair"], store'["replacement-state"], L, tapped', bit')
    <3>1. PICK p, r : p = store["pair"] /\ r = store["replacement-state"]
      OBVIOUS
    <3>2. PICK q, s : q = store'["pair"] /\ s = store'["replacement-state"]
      OBVIOUS
    <3>3. /\ b \in Outcomes(Rotated(p, 0, basis), 0)
          /\ store' = [store EXCEPT !["pair"] = Projected(Rotated(p, 0, basis), 0, b)]
      BY <1>2, <2>1, <3>1, TheHandles DEF Measure, StoreOutcomes, StoreMeasured, StoreState
    <3>4. q = Projected(Rotated(p, 0, basis), 0, b)
      BY <2>4, <3>2, <3>3 DEF Matched
    <3>5. tapped # None => s = r
      BY <2>4, <3>1, <3>2, <3>3 DEF Matched
    <3>6. PICK bits2 : bits2 = bit'
      OBVIOUS
    <3>7. Correlated(p, r, L, tapped, bit)
      BY <2>4, <3>1
    <3>8. Correlated(q, r, L, tapped, bits2)
      BY <1>3, <1>4, <2>1, <2>2, <3>3, <3>4, <3>6, <3>7, V0Reads
    <3>9. Correlated(q, s, L, tapped, bits2)
      BY <3>5, <3>8 DEF Correlated
    <3>10. QED
      BY <2>1, <3>2, <3>6, <3>9
  <2>5. QED
    BY <1>10, <2>1, <2>3, <2>4
<1>14. CASE ProverMeasures
  <2>1. PICK b \in Bits :
          /\ Measure(photon, BasisOf(inputs), b) /\ bit' = [bit EXCEPT !.prover = b]
          /\ CanMeasure("prover") /\ UNCHANGED <<phase, inputs, tapped, errors>>
    BY <1>14 DEF ProverMeasures
  <2>2. there = {"photon", "basis_x", "basis_y"} /\ bit.prover = None
    BY <2>1 DEF CanMeasure
  <2>3. phase = "running"
    BY <1>1, <2>2 DEF Timely, Untouched
  <2>4. photon = IF tapped = None THEN Flying ELSE Resent
    BY <1>1, <2>2, PhotonIsHeld
  <2>5. ASSUME Matched(store, keyOf, manager, tapped # None),
               Correlated(store["pair"], store["replacement-state"], L, tapped, bit)
        PROVE  Correlated(store'["pair"], store'["replacement-state"], L, tapped', bit')
    <3>1. PICK p, r : p = store["pair"] /\ r = store["replacement-state"]
      OBVIOUS
    <3>2. PICK q, s, bits2 : q = store'["pair"] /\ s = store'["replacement-state"] /\ bits2 = bit'
      OBVIOUS
    <3>3. CASE tapped = None
      <4>1. photon = Flying
        BY <2>4, <3>3
      <4>2. /\ b \in Outcomes(Rotated(p, 1, basis), 1)
            /\ store' = [store EXCEPT !["pair"] = Projected(Rotated(p, 1, basis), 1, b)]
        BY <1>2, <2>1, <3>1, <4>1, TheHandles DEF Measure, StoreOutcomes, StoreMeasured, StoreState
      <4>3. q = Projected(Rotated(p, 1, basis), 1, b)
        BY <2>5, <3>2, <4>2 DEF Matched
      <4>4. Correlated(p, r, L, None, bit)
        BY <2>5, <3>1, <3>3
      <4>5. bits2 = [bit EXCEPT !.prover = b]
        BY <2>1, <3>2
      <4>6. Correlated(q, s, L, None, bits2)
        BY <1>3, <1>4, <2>2, <4>2, <4>3, <4>4, <4>5, ProverReads
      <4>7. QED
        BY <2>1, <3>2, <3>3, <4>6
    <3>4. CASE tapped # None
      <4>1. photon = Resent /\ tapped \in Taps
        BY <1>3, <2>4, <3>4
      <4>2. /\ b \in Outcomes(Rotated(r, 0, basis), 0)
            /\ store' = [store EXCEPT !["replacement-state"] = Projected(Rotated(r, 0, basis), 0, b)]
        BY <1>2, <2>1, <3>1, <4>1, TheHandles DEF Measure, StoreOutcomes, StoreMeasured, StoreState
      <4>3. q = p
        BY <2>5, <3>1, <3>2, <4>2 DEF Matched
      <4>4. Correlated(p, r, L, tapped, bit)
        BY <2>5, <3>1
      <4>5. bits2 = [bit EXCEPT !.prover = b]
        BY <2>1, <3>2
      <4>6. Correlated(p, s, L, tapped, bits2)
        BY <1>3, <1>4, <2>2, <4>1, <4>2, <4>4, <4>5, ProverReadsReplacement
      <4>7. QED
        BY <2>1, <3>2, <4>3, <4>6
    <3>5. QED
      BY <3>3, <3>4
  <2>6. QED
    BY <1>10, <2>1, <2>3, <2>5
<1>15. QED
  BY <1>1, <1>6, <1>7, <1>8, <1>9, <1>11, <1>12, <1>13, <1>14 DEF Next

\* Prover and v0 read the same bit in whichever order they measure, also through
\* an interceptor that guessed the basis and through errors along the letter
\* (measure_bb84, prepare_bb84, _on_intercept_complete).
THEOREM BitsAlwaysAgree == Spec => []BitsAgree
<1>1. Init => Timely /\ Answered /\ Chained /\ Matches /\ Correlates
  BY TimelyInit, AnsweredInit, ChainedInit, MatchesInit, CorrelatesInit
<1>2. Timely /\ Answered /\ Chained /\ Matches /\ Correlates /\ [Next]_allVars
        => (Timely /\ Answered /\ Chained /\ Matches /\ Correlates)'
  BY TimelyStep, AnsweredStep, ChainedStep, MatchesStep, CorrelatesStep
<1>3. QED
  BY <1>1, <1>2, CorrelatedMeansAgree, PTL DEF Spec

=============================================================================
