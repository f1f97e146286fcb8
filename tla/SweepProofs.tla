----------------------------- MODULE SweepProofs -----------------------------
(***************************************************************************)
(* The directories of run_experiment, for any number of processes, of      *)
(* attempts, of exceptions and of kills, alone and under run_sweep.        *)
(***************************************************************************)
EXTENDS Sweep, TLAPS, FiniteSetTheorems

-----------------------------------------------------------------------------
(* What a step of the whole system does to the runs. *)

Removals == {"clean", "clear", "drop"}

Labels == Ended \union Removals \union DOMAIN After \union
  {"idle", "mkdir", "open", "execute", "check", "checkFailed", "move", "keep"}

Paths == {Target(p) : p \in Procs} \union {Temporary(p) : p \in Procs}
           \union {Failed(p) : p \in Procs}

Listings == [dir : Nat, todo : SUBSET FileNames]

\* Some processes are killed.
Kills ==
  /\ \E ps \in SUBSET Procs : Killed(ps)
  /\ faults' \in 0 .. setup.faults
  /\ UNCHANGED <<setup, dir, files, att>>

\* Some processes that are not running are set back.
Rewinds ==
  /\ \E ps \in SUBSET Procs :
       /\ \A p \in ps : ~Running(p)
       /\ pc' = [p \in Procs |-> IF p \in ps THEN "idle" ELSE pc[p]]
  /\ UNCHANGED <<setup, dir, files, listing, att, faults>>

RunAction(p) == Begin(p) \/ Step(p) \/ Raise(p)

Shape ==
  /\ setup \in Setups
  /\ dir \in [DOMAIN dir -> Nat] /\ DOMAIN dir \subseteq Paths
  /\ pc \in [Procs -> Labels]
  /\ listing \in [Procs -> Listings \union {None}]
  /\ \A p \in Procs : listing[p] # None => pc[p] \in Removals

LEMMA FaultsBound ==
  ASSUME Shape, RunTypeOK
  PROVE  /\ setup.faults \in Nat /\ faults \in 0 .. setup.faults
         /\ faults < setup.faults => faults + 1 \in 0 .. setup.faults
BY ArtifactsAssumption DEF Shape, RunTypeOK

LEMMA RunShape ==
  ASSUME Shape, RunTypeOK, [Next]_allVars
  PROVE  \/ UNCHANGED runVars \/ Kills \/ Rewinds
         \/ \E p \in Procs : RunAction(p)
<1>1. /\ setup.faults \in Nat /\ faults \in 0 .. setup.faults
      /\ faults < setup.faults => faults + 1 \in 0 .. setup.faults
  BY FaultsBound
<1>2. ASSUME NEW p \in Procs, Kill(p) PROVE Kills
  BY <1>1, <1>2 DEF Kill, Kills
<1>3. CASE PoolBreaks
  BY <1>1, <1>3 DEF PoolBreaks, Kills
<1>4. CASE SweepKilled
  BY <1>1, <1>4 DEF SweepKilled, Kills
<1>5. CASE SweepAgain
  BY <1>5 DEF SweepAgain, Rewinds
<1>6. ASSUME NEW p \in Procs, ByHand(p) PROVE Kills \/ Rewinds \/ Begin(p)
  <2>1. CASE /\ pc[p] \in Ended /\ Goto(p, "idle")
             /\ UNCHANGED <<setup, dir, files, listing, att, faults>>
    <3>1. pc' = [q \in Procs |-> IF q \in {p} THEN "idle" ELSE pc[q]]
      BY <2>1 DEF Goto, Shape
    <3>2. \A q \in {p} : ~Running(q)
      BY <2>1 DEF Running
    <3>3. QED
      BY <2>1, <3>1, <3>2 DEF Rewinds
  <2>2. QED
    BY <1>2, <1>6, <2>1 DEF ByHand
<1>7. ASSUME NEW p \in Procs,
             StartJob(p) \/ RunStep(p) \/ Deliver(p) \/ Collect(p) \/ WorkerKilled(p)
               \/ (Raise(p) /\ UNCHANGED sweepVars)
      PROVE  UNCHANGED runVars \/ Kills \/ RunAction(p)
  BY <1>2, <1>7 DEF StartJob, RunStep, Deliver, Collect, WorkerKilled, RunAction
<1>8. CASE Submit \/ WriteSummary \/ Rest \/ UNCHANGED allVars
  BY <1>8 DEF Submit, WriteSummary, Rest, allVars
<1>9. QED
  BY <1>3, <1>4, <1>5, <1>6, <1>7, <1>8 DEF Next, RunAction

-----------------------------------------------------------------------------
(* A new directory has a number of its own: at most four are in use for     *)
(* each process.                                                            *)

LEMMA UpTo ==
  ASSUME NEW n \in Nat
  PROVE  IsFiniteSet(1 .. n) /\ Cardinality(1 .. n) = n
<1>1. 1 \in Int /\ n \in Int /\ n - 1 + 1 = n /\ (1 > n => n = 0)
  OBVIOUS
<1>2. IsFiniteSet(1 .. n) /\ Cardinality(1 .. n) = IF 1 > n THEN 0 ELSE n - 1 + 1
  BY <1>1, FS_Interval
<1>3. QED
  BY <1>1, <1>2

Used(n) == n \in Range(dir) \/ \E q \in Procs : listing[q] # None /\ listing[q].dir = n

Places == Procs \X {1, 2, 3, 4}

\* The place of a number: one of the paths of a process, or its listing.
At(k, n) ==
  \/ k[2] = 1 /\ Temporary(k[1]) \in DOMAIN dir /\ dir[Temporary(k[1])] = n
  \/ k[2] = 2 /\ Target(k[1]) \in DOMAIN dir /\ dir[Target(k[1])] = n
  \/ k[2] = 3 /\ Failed(k[1]) \in DOMAIN dir /\ dir[Failed(k[1])] = n
  \/ k[2] = 4 /\ listing[k[1]] # None /\ listing[k[1]].dir = n

LEMMA PlaceOf ==
  ASSUME Shape, NEW n, Used(n)
  PROVE  \E k \in Places : At(k, n)
<1>1. CASE \E q \in Procs : listing[q] # None /\ listing[q].dir = n
  <2>1. PICK q \in Procs : listing[q] # None /\ listing[q].dir = n
    BY <1>1
  <2>2. <<q, 4>> \in Places /\ At(<<q, 4>>, n)
    BY <2>1 DEF Places, At
  <2>3. QED
    BY <2>2
<1>2. CASE n \in Range(dir)
  <2>1. PICK x \in DOMAIN dir : dir[x] = n
    BY <1>2 DEF Range
  <2>2. x \in Paths
    BY DEF Shape
  <2>3. ASSUME NEW q \in Procs, x = Target(q) PROVE <<q, 2>> \in Places /\ At(<<q, 2>>, n)
    BY <2>1, <2>3 DEF Places, At
  <2>4. ASSUME NEW q \in Procs, x = Temporary(q) PROVE <<q, 1>> \in Places /\ At(<<q, 1>>, n)
    BY <2>1, <2>4 DEF Places, At
  <2>5. ASSUME NEW q \in Procs, x = Failed(q) PROVE <<q, 3>> \in Places /\ At(<<q, 3>>, n)
    BY <2>1, <2>5 DEF Places, At
  <2>6. QED
    BY <2>2, <2>3, <2>4, <2>5 DEF Paths
<1>3. QED
  BY <1>1, <1>2 DEF Used

LEMMA FreshNumber ==
  ASSUME Shape, NEW p \in Procs, ~Exists(Temporary(p))
  PROVE  FreshDir \in Nat /\ ~Used(FreshDir)
<1> DEFINE N == Cardinality(Procs)
           L == Places \ {<<p, 1>>}
<1>1. IsFiniteSet(Procs) /\ N \in Nat
  BY ArtifactsAssumption, FS_CardinalityType
<1>2. IsFiniteSet({1, 2, 3, 4}) /\ Cardinality({1, 2, 3, 4}) = 4
  <2>1. {1, 2, 3, 4} = 1 .. 4
    OBVIOUS
  <2>2. IsFiniteSet(1 .. 4) /\ Cardinality(1 .. 4) = 4
    <3>1. 4 \in Nat
      OBVIOUS
    <3>2. QED
      BY ONLY <3>1, UpTo
  <2>3. QED
    BY <2>1, <2>2
<1>3. IsFiniteSet(Places) /\ Cardinality(Places) = N * 4
  BY <1>1, <1>2, FS_Product DEF Places
<1>4. <<p, 1>> \in Places
  BY DEF Places
<1>5. IsFiniteSet(L) /\ Cardinality(L) = N * 4 - 1
  BY <1>3, <1>4, FS_RemoveElement
<1>6. \E n \in 1 .. 4 * N : ~Used(n)
  <2> SUFFICES ASSUME \A n \in 1 .. 4 * N : Used(n) PROVE FALSE
    OBVIOUS
  <2>1. ASSUME NEW n \in 1 .. 4 * N PROVE \E k \in L : At(k, n)
    <3>1. PICK k \in Places : At(k, n)
      BY PlaceOf
    <3>2. k # <<p, 1>>
      BY <3>1 DEF At, Exists
    <3>3. QED
      BY <3>1, <3>2
  <2> DEFINE g == [n \in 1 .. 4 * N |-> CHOOSE k \in L : At(k, n)]
  <2>2. \A n \in 1 .. 4 * N : g[n] \in L /\ At(g[n], n)
    BY <2>1
  <2>3. g \in [1 .. 4 * N -> L]
    BY <2>2
  <2>4. \A k, m, n : At(k, m) /\ At(k, n) => m = n
    BY DEF At
  <2>5. \A m, n \in 1 .. 4 * N : g[m] = g[n] => m = n
    BY <2>2, <2>4
  <2> HIDE DEF g, L
  <2>6. IsFiniteSet(1 .. 4 * N) /\ Cardinality(1 .. 4 * N) = 4 * N
    BY <1>1, UpTo
  <2>7. Cardinality(L) < Cardinality(1 .. 4 * N)
    <3> HIDE DEF N
    <3>1. QED
      BY <1>1, <1>5, <2>6
  <2>8. \E m, n \in 1 .. 4 * N : m # n /\ g[m] = g[n]
    BY <1>5, <2>3, <2>6, <2>7, FS_PigeonHole
  <2>9. QED
    BY <2>5, <2>8
<1>7. PICK n \in 1 .. 4 * N : ~Used(n)
  BY <1>6
<1>8. FreshDir \in 1 .. 4 * N /\ ~Used(FreshDir)
  <2>1. \A m : ~Used(m) <=> (m \notin Range(dir) /\ \A q \in Procs : listing[q] = None \/ listing[q].dir # m)
    BY DEF Used
  <2>2. QED
    BY <1>7, <2>1 DEF FreshDir
<1>9. QED
  BY <1>1, <1>8

-----------------------------------------------------------------------------
(* Directories D and files F, whatever made them. *)

StoreOf(D, F) ==
  /\ D \in [DOMAIN D -> Nat] /\ DOMAIN D \subseteq Paths
  /\ \A a, b \in DOMAIN D : D[a] = D[b] => a = b
  /\ F \subseteq Files
  /\ \A f \in F : \E a \in DOMAIN D : f.dir = D[a]
  /\ \A f, g \in F : f.dir = g.dir /\ f.name = g.name => f = g

Made(D, path, n) == [q \in DOMAIN D \union {path} |-> IF q = path THEN n ELSE D[q]]
Removed(D, path) == [q \in DOMAIN D \ {path} |-> D[q]]
Renamed(D, from, to) ==
  [q \in (DOMAIN D \ {from}) \union {to} |-> IF q = to THEN D[from] ELSE D[q]]
Put(F, f) == {g \in F : ~(g.dir = f.dir /\ g.name = f.name)} \union {f}
Marked(F, a) == {[f EXCEPT !.whole = @ \/ (f.name = "events" /\ f.by = a)] : f \in F}

LEMMA MadeStore ==
  ASSUME NEW D, NEW F, StoreOf(D, F), NEW path \in Paths, path \notin DOMAIN D,
         NEW n \in Nat, \A a \in DOMAIN D : D[a] # n
  PROVE  /\ StoreOf(Made(D, path, n), F) /\ Made(D, path, n)[path] = n
         /\ DOMAIN Made(D, path, n) = DOMAIN D \union {path}
         /\ \A a \in DOMAIN D : Made(D, path, n)[a] = D[a]
<1> DEFINE E == Made(D, path, n)
<1>1. /\ DOMAIN E = DOMAIN D \union {path} /\ E[path] = n
      /\ \A a \in DOMAIN D : E[a] = D[a]
      /\ E \in [DOMAIN E -> Nat]
  BY DEF Made, StoreOf
<1> HIDE DEF E
<1>2. StoreOf(E, F)
  BY <1>1 DEF StoreOf
<1>3. QED
  BY <1>1, <1>2 DEF E

LEMMA RemovedStore ==
  ASSUME NEW D, NEW F, StoreOf(D, F), NEW path \in DOMAIN D, \A f \in F : f.dir # D[path]
  PROVE  /\ StoreOf(Removed(D, path), F)
         /\ DOMAIN Removed(D, path) = DOMAIN D \ {path}
         /\ \A a \in DOMAIN D \ {path} : Removed(D, path)[a] = D[a]
<1> DEFINE E == Removed(D, path)
<1>1. /\ DOMAIN E = DOMAIN D \ {path} /\ \A a \in DOMAIN D \ {path} : E[a] = D[a]
      /\ E \in [DOMAIN E -> Nat]
  BY DEF Removed, StoreOf
<1> HIDE DEF E
<1>2. StoreOf(E, F)
  BY <1>1 DEF StoreOf
<1>3. QED
  BY <1>1, <1>2 DEF E

LEMMA RenamedStore ==
  ASSUME NEW D, NEW F, StoreOf(D, F), NEW from \in DOMAIN D, NEW to \in Paths, from # to,
         to \in DOMAIN D => \A f \in F : f.dir # D[to]
  PROVE  /\ StoreOf(Renamed(D, from, to), F)
         /\ DOMAIN Renamed(D, from, to) = (DOMAIN D \ {from}) \union {to}
         /\ Renamed(D, from, to)[to] = D[from]
         /\ \A a \in DOMAIN D \ {from, to} : Renamed(D, from, to)[a] = D[a]
<1> DEFINE E == Renamed(D, from, to)
<1>1. /\ DOMAIN E = (DOMAIN D \ {from}) \union {to} /\ E[to] = D[from]
      /\ \A a \in DOMAIN D \ {from, to} : E[a] = D[a]
      /\ E \in [DOMAIN E -> Nat]
  BY DEF Renamed, StoreOf
<1> HIDE DEF E
<1>2. /\ DOMAIN E \subseteq Paths /\ F \subseteq Files
      /\ \A f, g \in F : f.dir = g.dir /\ f.name = g.name => f = g
  BY <1>1 DEF StoreOf
<1>3. \A a, b \in DOMAIN E : E[a] = E[b] => a = b
  BY <1>1 DEF StoreOf
<1>4. \A f \in F : \E a \in DOMAIN E : f.dir = E[a]
  BY <1>1 DEF StoreOf
<1>5. StoreOf(E, F)
  BY <1>1, <1>2, <1>3, <1>4 DEF StoreOf
<1>6. QED
  BY <1>1, <1>5 DEF E

LEMMA PutStore ==
  ASSUME NEW D, NEW F, StoreOf(D, F), NEW a \in DOMAIN D, NEW f \in Files, f.dir = D[a]
  PROVE  StoreOf(D, Put(F, f))
BY DEF StoreOf, Put

LEMMA FewerStore ==
  ASSUME NEW D, NEW F, StoreOf(D, F), NEW G \in SUBSET F
  PROVE  StoreOf(D, G)
BY DEF StoreOf

LEMMA MarkedFile ==
  ASSUME NEW f \in Files, NEW a
  PROVE  LET g == [f EXCEPT !.whole = @ \/ (f.name = "events" /\ f.by = a)] IN
         /\ g \in Files /\ g.dir = f.dir /\ g.name = f.name /\ g.by = f.by
         /\ g.whole = (f.whole \/ (f.name = "events" /\ f.by = a))
BY DEF Files

LEMMA MarkedStore ==
  ASSUME NEW D, NEW F, StoreOf(D, F), NEW a
  PROVE  StoreOf(D, Marked(F, a))
<1> DEFINE m(f) == [f EXCEPT !.whole = @ \/ (f.name = "events" /\ f.by = a)]
<1>1. \A f \in F : m(f) \in Files /\ m(f).dir = f.dir /\ m(f).name = f.name
  BY MarkedFile DEF StoreOf
<1>2. Marked(F, a) = {m(f) : f \in F}
  BY DEF Marked
<1> HIDE DEF m
<1>3. QED
  BY <1>1, <1>2 DEF StoreOf

-----------------------------------------------------------------------------
(* Types. *)

RunTypes == Shape /\ RunTypeOK

\* Where the processes are.
Control ==
  /\ setup \in Setups
  /\ pc \in [Procs -> Labels]
  /\ listing \in [Procs -> Listings \union {None}]
  /\ \A p \in Procs : listing[p] # None => pc[p] \in Removals
  /\ att \in [Procs -> Nat] /\ faults \in 0 .. setup.faults

LEMMA TypesSplit == RunTypes <=> Control /\ StoreOf(dir, files)
<1>1. (\A f \in files : f.dir \in Range(dir)) <=> \A f \in files : \E a \in DOMAIN dir : f.dir = dir[a]
  BY DEF Range
<1>2. ASSUME dir \in [DOMAIN dir -> Nat] PROVE Range(dir) \subseteq Nat
  BY <1>2 DEF Range
<1>3. QED
  BY <1>1, <1>2 DEF RunTypes, Shape, RunTypeOK, Control, StoreOf, IsInjective

LEMMA NextSplit ==
  ASSUME Control', StoreOf(dir', files'), setup' = setup
  PROVE  RunTypes'
<1>1. (\A f \in files' : f.dir \in Range(dir'))
        <=> \A f \in files' : \E a \in DOMAIN dir' : f.dir = dir'[a]
  BY DEF Range
<1>2. ASSUME dir' \in [DOMAIN dir' -> Nat] PROVE Range(dir') \subseteq Nat
  BY <1>2 DEF Range
<1>3. Paths' = Paths
  BY DEF Paths, Target, Temporary, Failed
<1>4. Shape'
  BY <1>3 DEF Shape, Control, StoreOf
<1>5. RunTypeOK'
  BY <1>1, <1>2 DEF RunTypeOK, Control, StoreOf, IsInjective
<1>6. QED
  BY <1>4, <1>5 DEF RunTypes

\* A step of p that is no part of an rmtree.
Moves(p) ==
  /\ pc[p] \notin Removals
  /\ \E label \in Labels : Goto(p, label)
  /\ UNCHANGED <<setup, listing>>

LEMMA ControlMoves ==
  ASSUME Control, NEW p \in Procs, Moves(p), att' \in [Procs -> Nat],
         faults' \in 0 .. setup.faults
  PROVE  Control'
BY DEF Control, Moves, Goto

LEMMA RaiseToLabel == ASSUME NEW label PROVE RaiseTo(label) \in {"raised", "report"}
BY DEF RaiseTo

LEMMA LabelsAre ==
  /\ Removals \subseteq Labels /\ Ended \subseteq Labels
  /\ {"idle", "mkdir", "open", "execute", "rounds", "summary", "manifest", "check", "move",
      "report", "exception", "checkFailed", "keep", "raised", "returned", "killed"} \subseteq Labels
  /\ DOMAIN After = {"rounds", "summary", "manifest", "report", "exception"}
  /\ DOMAIN Removing = Removals
BY DEF Labels, Removals, Ended, After, Removing

\* The actions that go on from one label to another.
LEMMA MovingSteps ==
  ASSUME Control, NEW p \in Procs,
         \/ Begin(p) \/ MakeTemporary(p) \/ OpenTrace(p) \/ Execute(p) \/ Write(p) \/ Check(p)
         \/ Publish(p) \/ Keep(p) \/ Raise(p)
  PROVE  Moves(p) /\ att' \in [Procs -> Nat] /\ faults' \in 0 .. setup.faults
<1> USE LabelsAre, RaiseToLabel
<1>1. CASE Begin(p)
  <2>1. att' \in [Procs -> Nat]
    BY <1>1 DEF Begin, Control
  <2>2. QED
    BY <1>1, <2>1 DEF Begin, Moves, Control, Removals
<1>2. CASE MakeTemporary(p) \/ OpenTrace(p) \/ Execute(p)
  BY <1>2 DEF MakeTemporary, OpenTrace, Execute, Moves, Control, Removals, Unmoved
<1>3. CASE Write(p)
  <2>1. pc[p] \in DOMAIN After => After[pc[p]] \in Labels
    BY DEF After
  <2>2. QED
    BY <1>3, <2>1 DEF Write, Moves, Control, Removals, Unmoved
<1>4. CASE Check(p)
  BY <1>4 DEF Check, Moves, Control, Removals, Unmoved
<1>5. CASE Publish(p) \/ Keep(p)
  BY <1>5 DEF Publish, Keep, Replace, Moves, Control, Removals, Unmoved
<1>6. CASE Raise(p)
  <2>1. faults + 1 \in 0 .. setup.faults
    BY <1>6, ArtifactsAssumption DEF Raise, Control
  <2>2. QED
    BY <1>6, <2>1 DEF Raise, Moves, Control, Removals
<1>7. QED
  BY <1>1, <1>2, <1>3, <1>4, <1>5, <1>6

\* The parts of an rmtree.
LEMMA RemovingSteps ==
  ASSUME Control, StoreOf(dir, files), NEW p \in Procs, List(p) \/ Unlink(p) \/ Rmdir(p)
  PROVE  Control' /\ setup' = setup
<1> USE LabelsAre, RaiseToLabel
<1>1. CASE RmtreeRaises(p) /\ Unmoved
  BY <1>1 DEF RmtreeRaises, Unmoved, Goto, Control
<1>2. CASE List(p) /\ ~RmtreeRaises(p)
  <2> DEFINE path == RemovedAt(p, pc[p])
             l == [dir |-> dir[path], todo |-> NamesIn(dir[path])]
  <2>1. /\ Exists(path) /\ listing' = [listing EXCEPT ![p] = l]
        /\ UNCHANGED <<pc, setup, att, faults>> /\ pc[p] \in Removals
    BY <1>2 DEF List, Unmoved
  <2>2. l \in Listings
    <3>1. dir[path] \in Nat
      BY <2>1 DEF Exists, StoreOf
    <3>2. NamesIn(dir[path]) \subseteq FileNames
      BY DEF NamesIn, StoreOf, Files
    <3>3. QED
      BY <3>1, <3>2 DEF Listings
  <2> HIDE DEF l
  <2>3. QED
    BY <2>1, <2>2 DEF Control
<1>3. CASE Unlink(p) /\ ~RmtreeRaises(p)
  <2>1. PICK name : /\ listing' = [listing EXCEPT ![p].todo = @ \ {name}]
                    /\ UNCHANGED <<pc, setup, att, faults>> /\ pc[p] \in Removals
                    /\ listing[p] # None
    BY <1>3 DEF Unlink, Unmoved
  <2>2. listing[p] \in Listings
    BY <2>1 DEF Control
  <2>3. [listing[p] EXCEPT !.todo = @ \ {name}] \in Listings
    BY <2>2 DEF Listings
  <2>4. listing' = [listing EXCEPT ![p] = [listing[p] EXCEPT !.todo = @ \ {name}]]
    BY <2>1 DEF Control
  <2>5. QED
    BY <2>1, <2>3, <2>4 DEF Control
<1>4. CASE Rmdir(p) /\ ~RmtreeRaises(p)
  <2>1. /\ listing' = [listing EXCEPT ![p] = None] /\ Goto(p, Removing[pc[p]])
        /\ UNCHANGED <<setup, att, faults>> /\ pc[p] \in Removals
    BY <1>4 DEF Rmdir, Unmoved
  <2>2. Removing[pc[p]] \in Labels
    BY <2>1 DEF Removing, Removals
  <2>3. QED
    BY <2>1, <2>2 DEF Control, Goto
<1>5. QED
  BY <1>1, <1>2, <1>3, <1>4 DEF List, Unlink, Rmdir, Unmoved

-----------------------------------------------------------------------------
(* What a step of a run does to the directories and the files. *)

\* From the making of the temporary directory to the renaming of it.
Making == {"open", "execute", "rounds", "summary", "manifest", "check", "clear", "move",
           "report", "exception", "checkFailed", "drop", "keep"}

Stays == UNCHANGED <<dir, files>>

Makes(p) ==
  /\ ~Exists(Temporary(p)) /\ files' = files
  /\ \E n \in Nat : ~Used(n) /\ dir' = Made(dir, Temporary(p), n)

Puts(p) ==
  /\ pc[p] \in Making
  /\ Exists(Temporary(p)) /\ dir' = dir
  /\ \E f \in Files : /\ f.dir = dir[Temporary(p)] /\ f.by = Attempt(p)
                      /\ files' = Put(files, f)

MakesAndPuts(p) ==
  /\ pc[p] \in Making
  /\ ~Exists(Temporary(p))
  /\ \E n \in Nat, f \in Files :
       /\ ~Used(n) /\ dir' = Made(dir, Temporary(p), n)
       /\ f.dir = n /\ f.by = Attempt(p) /\ files' = Put(files, f)

Marks(p) == dir' = dir /\ files' = Marked(files, Attempt(p))

Unlinks(p) ==
  /\ pc[p] \in Removals /\ listing[p] # None /\ dir' = dir
  /\ \E name \in listing[p].todo : files' = Replacing(listing[p].dir, name)

Removes(p) ==
  /\ pc[p] \in Removals /\ files' = files
  /\ LET path == RemovedAt(p, pc[p]) IN
     Exists(path) /\ In(path) = {} /\ dir' = Removed(dir, path)

Renames(p) ==
  /\ Exists(Temporary(p)) /\ files' = files
  /\ \E to \in {Target(p), Failed(p)} :
       /\ pc[p] = IF to = Target(p) THEN "move" ELSE "keep"
       /\ In(to) = {} /\ dir' = Renamed(dir, Temporary(p), to)

Effect(p) ==
  Stays \/ Makes(p) \/ Puts(p) \/ MakesAndPuts(p) \/ Marks(p) \/ Unlinks(p) \/ Removes(p)
    \/ Renames(p)

LEMMA PathKinds ==
  /\ \A p \in Procs : {Target(p), Temporary(p), Failed(p)} \subseteq Paths
  /\ \A p, q \in Procs : /\ Temporary(p) # Target(q) /\ Temporary(p) # Failed(q)
                         /\ Target(p) # Failed(q)
BY DEF Paths, Target, Temporary, Failed

LEMMA Ensured ==
  ASSUME RunTypes, NEW p \in Procs, EnsureDir(Temporary(p))
  PROVE  \/ Exists(Temporary(p)) /\ dir' = dir
         \/ /\ ~Exists(Temporary(p)) /\ FreshDir \in Nat /\ ~Used(FreshDir)
            /\ dir' = Made(dir, Temporary(p), FreshDir)
BY FreshNumber DEF RunTypes, EnsureDir, Made

LEMMA AttemptType == ASSUME Control, NEW p \in Procs PROVE Attempt(p) \in Procs \X Nat
BY DEF Control, Attempt

LEMMA FilePut ==
  ASSUME NEW f, NEW n, NEW name, f.dir = n, f.name = name
  PROVE  Put(files, f) = Replacing(n, name) \union {f}
BY DEF Put, Replacing

LEMMA OpenTraceEffect ==
  ASSUME RunTypes, NEW p \in Procs, OpenTrace(p) PROVE Effect(p)
<1> DEFINE n == IF Exists(Temporary(p)) THEN dir[Temporary(p)] ELSE FreshDir
           f == [dir |-> n, name |-> "events", by |-> Attempt(p), whole |-> FALSE]
<1>1. EnsureDir(Temporary(p)) /\ files' = Replacing(n, "events") \union {f}
  BY DEF OpenTrace
<1>2. n \in Nat
  BY <1>1, Ensured DEF RunTypes, Shape, Exists
<1> HIDE DEF n
<1>3. Control /\ "events" \in FileNames
  BY TypesSplit DEF FileNames, Artifacts
<1>4. f \in Files /\ f.dir = n /\ f.by = Attempt(p) /\ files' = Put(files, f)
  <2>1. f \in Files
    BY <1>2, <1>3, AttemptType DEF Files
  <2>2. f.dir = n /\ f.by = Attempt(p) /\ f.name = "events"
    OBVIOUS
  <2>3. QED
    BY <1>1, <2>1, <2>2, FilePut
<1> HIDE DEF f
<1>5. pc[p] \in Making
  BY DEF OpenTrace, Making
<1>6. CASE Exists(Temporary(p))
  <2>1. dir' = dir /\ n = dir[Temporary(p)]
    BY <1>1, <1>6, Ensured DEF n
  <2>2. QED
    BY <1>4, <1>6, <1>5, <2>1 DEF Puts, Effect
<1>7. CASE ~Exists(Temporary(p))
  <2>1. n = FreshDir /\ ~Used(n) /\ dir' = Made(dir, Temporary(p), n)
    BY <1>1, <1>7, Ensured DEF n
  <2>2. QED
    BY <1>2, <1>4, <1>7, <1>5, <2>1 DEF MakesAndPuts, Effect
<1>8. QED
  BY <1>6, <1>7

LEMMA WriteEffect ==
  ASSUME RunTypes, NEW p \in Procs, Write(p) PROVE Effect(p)
<1>1. pc[p] \in Making
  BY LabelsAre DEF Write, Making
<1>2. CASE files' = files
  BY <1>2 DEF Write, Effect, Stays
<1>3. CASE Exists(Temporary(p)) /\ files' # files
  <2> DEFINE n == dir[Temporary(p)]
             name == IF pc[p] = "report" THEN "manifest" ELSE pc[p]
             f == [dir |-> n, name |-> name, by |-> Attempt(p), whole |-> TRUE]
  <2>1. files' = Replacing(n, name) \union {f} /\ dir' = dir
    BY <1>3 DEF Write
  <2>2. n \in Nat
    BY <1>3 DEF RunTypes, Shape, Exists
  <2>3. Control /\ name \in FileNames
    BY LabelsAre, TypesSplit DEF Write, FileNames, Artifacts
  <2> HIDE DEF n, name
  <2>4. f \in Files /\ f.dir = n /\ f.by = Attempt(p) /\ files' = Put(files, f)
    <3>1. f \in Files
      BY <2>2, <2>3, AttemptType DEF Files
    <3>2. f.dir = n /\ f.by = Attempt(p) /\ f.name = name
      OBVIOUS
    <3>3. QED
      BY <2>1, <3>1, <3>2, FilePut
  <2> HIDE DEF f
  <2>5. QED
    BY <1>3, <1>1, <2>1, <2>4 DEF Puts, Effect, n
<1>4. QED
  BY <1>2, <1>3 DEF Write

LEMMA RunEffect ==
  ASSUME RunTypes, NEW p \in Procs, RunAction(p) PROVE Effect(p)
<1>1. CASE Begin(p) \/ Raise(p) \/ Check(p) \/ List(p)
  BY <1>1 DEF Begin, Raise, Check, List, RmtreeRaises, Effect, Stays
<1>2. CASE MakeTemporary(p)
  BY <1>2, Ensured DEF MakeTemporary, Effect, Stays, Makes
<1>3. CASE Execute(p)
  BY <1>3 DEF Execute, Effect, Marks, Marked
<1>4. CASE Unlink(p)
  BY <1>4, LabelsAre DEF Unlink, RmtreeRaises, Effect, Stays, Unlinks
<1>5. CASE Rmdir(p)
  BY <1>5, LabelsAre DEF Rmdir, RmtreeRaises, Effect, Stays, Removes, Removed
<1>6. ASSUME NEW to \in {Target(p), Failed(p)}, NEW label, Replace(p, Temporary(p), to, label),
             pc[p] = IF to = Target(p) THEN "move" ELSE "keep"
      PROVE  Effect(p)
  BY <1>6 DEF Replace, Rename, Effect, Stays, Renames, Renamed
<1>7. CASE Publish(p) \/ Keep(p)
  BY <1>6, <1>7, PathKinds DEF Publish, Keep
<1>8. QED
  BY <1>1, <1>2, <1>3, <1>4, <1>5, <1>7, OpenTraceEffect, WriteEffect DEF RunAction, Step

LEMMA RemovedKind ==
  ASSUME NEW p \in Procs, NEW label \in Removals
  PROVE  RemovedAt(p, label) \in {Target(p), Temporary(p), Failed(p)}
BY DEF RemovedAt, Removals

LEMMA EffectStore ==
  ASSUME StoreOf(dir, files), NEW p \in Procs, Effect(p) PROVE StoreOf(dir', files')
<1>1. CASE Stays
  BY <1>1 DEF Stays
<1>2. ASSUME NEW n \in Nat, ~Used(n), ~Exists(Temporary(p))
      PROVE  StoreOf(Made(dir, Temporary(p), n), files)
  <2>1. \A a \in DOMAIN dir : dir[a] # n
    BY <1>2 DEF Used, Range
  <2>2. QED
    BY <1>2, <2>1, MadeStore, PathKinds DEF Exists
<1>3. CASE Makes(p)
  BY <1>2, <1>3 DEF Makes
<1>4. CASE Puts(p)
  BY <1>4, PutStore DEF Puts, Exists
<1>5. CASE MakesAndPuts(p)
  <2>1. PICK n \in Nat, f \in Files :
          /\ ~Used(n) /\ dir' = Made(dir, Temporary(p), n)
          /\ f.dir = n /\ f.by = Attempt(p) /\ files' = Put(files, f)
    BY <1>5 DEF MakesAndPuts
  <2>2. StoreOf(dir', files) /\ Temporary(p) \in DOMAIN dir' /\ dir'[Temporary(p)] = n
    BY <1>2, <1>5, <2>1 DEF MakesAndPuts, Made
  <2>3. QED
    BY <2>1, <2>2, PutStore
<1>6. CASE Marks(p)
  BY <1>6, MarkedStore DEF Marks
<1>7. CASE Unlinks(p)
  BY <1>7, FewerStore DEF Unlinks, Replacing
<1>8. CASE Removes(p)
  <2>1. PICK path : path \in DOMAIN dir /\ In(path) = {} /\ dir' = Removed(dir, path) /\ files' = files
    BY <1>8 DEF Removes, Exists
  <2>2. \A f \in files : f.dir # dir[path]
    BY <2>1 DEF In, Exists
  <2>3. QED
    BY <2>1, <2>2, RemovedStore
<1>9. CASE Renames(p)
  <2>1. PICK to \in {Target(p), Failed(p)} :
          In(to) = {} /\ dir' = Renamed(dir, Temporary(p), to) /\ files' = files
    BY <1>9 DEF Renames
  <2>2. Temporary(p) \in DOMAIN dir /\ to \in Paths /\ to # Temporary(p)
    BY <1>9, PathKinds DEF Renames, Exists
  <2>3. to \in DOMAIN dir => \A f \in files : f.dir # dir[to]
    BY <2>1 DEF In, Exists
  <2>4. QED
    BY <2>1, <2>2, <2>3, RenamedStore
<1>10. QED
  BY <1>1, <1>3, <1>4, <1>5, <1>6, <1>7, <1>8, <1>9 DEF Effect

LEMMA NextTypes ==
  ASSUME RunTypes, [Next]_allVars PROVE RunTypes'
<1>1. Control /\ StoreOf(dir, files)
  BY TypesSplit
<1>2. CASE UNCHANGED runVars
  BY <1>2 DEF runVars, RunTypes, Shape, RunTypeOK, Paths, Target, Temporary, Failed
<1>3. CASE Kills
  <2>1. PICK ps \in SUBSET Procs : Killed(ps)
    BY <1>3 DEF Kills
  <2>2. Control'
    BY <1>1, <1>3, <2>1 DEF Kills, Killed, Control, Running, Ended, Labels, Removals
  <2>3. QED
    BY <1>1, <1>3, <2>2, NextSplit DEF Kills
<1>4. CASE Rewinds
  <2>1. PICK ps \in SUBSET Procs :
          /\ \A p \in ps : ~Running(p)
          /\ pc' = [p \in Procs |-> IF p \in ps THEN "idle" ELSE pc[p]]
    BY <1>4 DEF Rewinds
  <2>2. Control'
    BY <1>1, <1>4, <2>1 DEF Rewinds, Control, Running, Ended, Labels, Removals
  <2>3. QED
    BY <1>1, <1>4, <2>2, NextSplit DEF Rewinds
<1>5. ASSUME NEW p \in Procs, RunAction(p) PROVE RunTypes'
  <2>1. Control' /\ setup' = setup
    BY <1>1, <1>5, MovingSteps, ControlMoves, RemovingSteps DEF RunAction, Step, Moves
  <2>2. StoreOf(dir', files')
    BY <1>1, <1>5, RunEffect, EffectStore
  <2>3. QED
    BY <2>1, <2>2, NextSplit
<1>6. QED
  BY <1>2, <1>3, <1>4, <1>5, RunShape DEF RunTypes

LEMMA InitTypes == ASSUME Init PROVE RunTypes
<1>1. dir \in [DOMAIN dir -> Nat] /\ DOMAIN dir = {} /\ Range(dir) = {} /\ IsInjective(dir)
  BY DEF Init, RunInit, Range, IsInjective
<1>2. setup.faults \in Nat
  BY ArtifactsAssumption DEF Init, RunInit
<1>3. QED
  BY <1>1, <1>2 DEF Init, RunInit, RunTypes, Shape, RunTypeOK, Labels

THEOREM RunTypesHold == Spec => []RunTypes
<1>1. Init => RunTypes
  BY InitTypes
<1>2. RunTypes /\ [Next]_allVars => RunTypes'
  BY NextTypes
<1>3. QED
  BY <1>1, <1>2, PTL DEF Spec

\* The types of run_sweep's own state.
SweepTypes ==
  /\ main \in {"submitting", "collecting", "written", "aborted", "killed"}
  /\ submitted \in 0 .. Cardinality(Procs)
  /\ future \in [Procs -> {"none", "pending", "done", "failed", "broken"}]

LEMMA NextSweepTypes ==
  ASSUME SweepTypes, [Next]_allVars PROVE SweepTypes'
<1>1. Cardinality(Procs) \in Nat
  BY ArtifactsAssumption, FS_CardinalityType
<1>2. CASE Submit
  BY <1>1, <1>2 DEF Submit, SweepTypes
<1>3. CASE SweepAgain
  BY <1>1, <1>3 DEF SweepAgain, SweepTypes
<1>4. CASE PoolBreaks \/ WriteSummary \/ SweepKilled \/ Rest \/ UNCHANGED allVars
  BY <1>4 DEF PoolBreaks, WriteSummary, SweepKilled, Rest, SweepTypes, allVars, sweepVars
<1>5. ASSUME NEW p \in Procs, Deliver(p) \/ Collect(p) PROVE SweepTypes'
  BY <1>5 DEF Deliver, Collect, SweepTypes
<1>6. ASSUME NEW p \in Procs,
             StartJob(p) \/ RunStep(p) \/ WorkerKilled(p) \/ ByHand(p)
               \/ (Raise(p) /\ UNCHANGED sweepVars)
      PROVE  SweepTypes'
  BY <1>6 DEF StartJob, RunStep, WorkerKilled, ByHand, sweepVars, SweepTypes
<1>7. QED
  BY <1>2, <1>3, <1>4, <1>5, <1>6 DEF Next

\* Whatever is killed and whatever raises, no two paths are one directory, no
\* file is outside the directories, and no directory has two files of one name.
THEOREM SweepTypeOK == Spec => []TypeOK
<1>1. Init => SweepTypes
  BY ArtifactsAssumption, FS_CardinalityType DEF Init, SweepInit, SweepTypes
<1>2. SweepTypes /\ [Next]_allVars => SweepTypes'
  BY NextSweepTypes
<1>3. RunTypes /\ SweepTypes => TypeOK
  BY DEF RunTypes, SweepTypes, TypeOK
<1>4. QED
  BY <1>1, <1>2, <1>3, RunTypesHold, PTL DEF Spec

-----------------------------------------------------------------------------
(* The inductive invariant, of processes that share no temporary directory. *)

\* No two runs of a behaviour have the same directory and the same run id.
Apart ==
  \A s \in Setups : \A p, q \in Procs :
    s.target[p] = s.target[q] /\ s.run[p] = s.run[q] => p = q

\* What a path holds when the directories are D and the files F.
FilesAt(D, F, path) == {f \in F : path \in DOMAIN D /\ f.dir = D[path]}
NamesAt(D, F, path) == {f.name : f \in FilesAt(D, F, path)}

\* The files of an attempt that has not raised; from "rounds" on all are whole.
Written == [open |-> {}, execute |-> {"events"}, rounds |-> {"events"},
            summary |-> {"events", "rounds"}, manifest |-> {"events", "rounds", "summary"},
            check |-> Artifacts, clear |-> Artifacts, move |-> Artifacts]
WhollyWritten == DOMAIN Written \ {"open", "execute"}

Evidence == {"manifest", "exception"}

\* The temporary directory T and the failed one X of a process at c, with the
\* rmtree l in progress, in attempt a.
Private(D, F, T, X, c, l, a) ==
  /\ c \in {"mkdir", "returned"} => T \notin DOMAIN D
  /\ c \in Making => T \in DOMAIN D /\ \A f \in FilesAt(D, F, T) : f.by = a
  /\ c \in DOMAIN Written => NamesAt(D, F, T) = Written[c]
  /\ c \in WhollyWritten => \A f \in FilesAt(D, F, T) : f.whole
  /\ c = "exception" => "manifest" \in NamesAt(D, F, T)
  /\ c \in {"checkFailed", "drop", "keep"} => Evidence \subseteq NamesAt(D, F, T)
  /\ c = "keep" => X \notin DOMAIN D
  /\ c = "clean" => T \in DOMAIN D /\ (l # None => l.dir = D[T] /\ l.todo = NamesAt(D, F, T))
  /\ c = "drop" => X \in DOMAIN D /\ (l # None => l.dir = D[X] /\ l.todo = NamesAt(D, F, X))

PrivateTo(p) ==
  Private(dir, files, Temporary(p), Failed(p), pc[p], listing[p], Attempt(p))

Leaves(D, F, X, a) ==
  Evidence \subseteq NamesAt(D, F, X) /\ \A f \in FilesAt(D, F, X) : f.by = a

\* What is left of a process that has raised, and of one that never gets far.
LeftBy(p) ==
  /\ p \in setup.short => pc[p] \in {"idle", "raised"} /\ ~Exists(Temporary(p))
  /\ pc[p] = "raised" /\ p \notin setup.short => Leaves(dir, files, Failed(p), Attempt(p))

\* An rmtree works on the directory it names, or on one that is gone.
Listed(q) ==
  listing[q] # None =>
    \A path \in DOMAIN dir : dir[path] = listing[q].dir => path = RemovedAt(q, pc[q])

OneAttempt(D, F, path) == \A f, g \in FilesAt(D, F, path) : f.by = g.by
Complete(D, F, path) == \A f \in FilesAt(D, F, path) : f.whole /\ f.name \in Artifacts

DirectoriesOK ==
  \A path \in DOMAIN dir :
    /\ OneAttempt(dir, files, path)
    /\ path[1] = "target" => Complete(dir, files, path)

RunInv == /\ RunTypes /\ DirectoriesOK
          /\ \A p \in Procs : PrivateTo(p) /\ LeftBy(p) /\ Listed(p)

-----------------------------------------------------------------------------
(* A path and what it holds stay as they were, but that more of the files   *)
(* may be whole.                                                            *)

Same(D, F, E, G, path) ==
  /\ path \in DOMAIN E <=> path \in DOMAIN D
  /\ path \in DOMAIN D => E[path] = D[path]
  /\ NamesAt(E, G, path) = NamesAt(D, F, path)
  /\ \A g \in FilesAt(E, G, path) : \E f \in FilesAt(D, F, path) :
       f.name = g.name /\ f.by = g.by /\ (f.whole => g.whole)

LEMMA UntouchedSame ==
  ASSUME NEW D, NEW F, NEW E, NEW G, NEW path, FilesAt(E, G, path) = FilesAt(D, F, path),
         path \in DOMAIN E <=> path \in DOMAIN D, path \in DOMAIN D => E[path] = D[path]
  PROVE  Same(D, F, E, G, path)
BY DEF Same, NamesAt

LEMMA MadeSame ==
  ASSUME NEW D, NEW F, NEW made, NEW n, NEW path, path # made
  PROVE  Same(D, F, Made(D, made, n), F, path)
<1>1. /\ path \in DOMAIN Made(D, made, n) <=> path \in DOMAIN D
      /\ path \in DOMAIN D => Made(D, made, n)[path] = D[path]
  BY DEF Made
<1>2. FilesAt(Made(D, made, n), F, path) = FilesAt(D, F, path)
  BY <1>1 DEF FilesAt
<1>3. QED
  BY <1>1, <1>2, UntouchedSame

LEMMA RemovedSame ==
  ASSUME NEW D, NEW F, NEW gone, NEW path, path # gone
  PROVE  Same(D, F, Removed(D, gone), F, path)
<1>1. /\ path \in DOMAIN Removed(D, gone) <=> path \in DOMAIN D
      /\ path \in DOMAIN D => Removed(D, gone)[path] = D[path]
  BY DEF Removed
<1>2. FilesAt(Removed(D, gone), F, path) = FilesAt(D, F, path)
  BY <1>1 DEF FilesAt
<1>3. QED
  BY <1>1, <1>2, UntouchedSame

LEMMA RenamedSame ==
  ASSUME NEW D, NEW F, NEW from, NEW to, NEW path, path \notin {from, to}
  PROVE  Same(D, F, Renamed(D, from, to), F, path)
<1>1. /\ path \in DOMAIN Renamed(D, from, to) <=> path \in DOMAIN D
      /\ path \in DOMAIN D => Renamed(D, from, to)[path] = D[path]
  BY DEF Renamed
<1>2. FilesAt(Renamed(D, from, to), F, path) = FilesAt(D, F, path)
  BY <1>1 DEF FilesAt
<1>3. QED
  BY <1>1, <1>2, UntouchedSame

\* What is renamed arrives with all its files.
LEMMA RenamedArrives ==
  ASSUME NEW D, NEW F, NEW from \in DOMAIN D, NEW to, from # to
  PROVE  LET E == Renamed(D, from, to) IN
         /\ to \in DOMAIN E /\ from \notin DOMAIN E /\ E[to] = D[from]
         /\ FilesAt(E, F, to) = FilesAt(D, F, from)
<1>1. LET E == Renamed(D, from, to) IN to \in DOMAIN E /\ from \notin DOMAIN E /\ E[to] = D[from]
  BY DEF Renamed
<1>2. QED
  BY <1>1 DEF FilesAt

LEMMA PutSame ==
  ASSUME NEW D, NEW F, NEW f, NEW path, path \in DOMAIN D => f.dir # D[path]
  PROVE  Same(D, F, D, Put(F, f), path)
<1>1. FilesAt(D, Put(F, f), path) = FilesAt(D, F, path)
  BY DEF Put, FilesAt
<1>2. QED
  BY <1>1, UntouchedSame

\* Where it is put there is the new file, and the old ones but for its name.
LEMMA PutThere ==
  ASSUME NEW D, NEW F, NEW f, NEW path \in DOMAIN D, f.dir = D[path]
  PROVE  /\ FilesAt(D, Put(F, f), path) = {g \in FilesAt(D, F, path) : g.name # f.name} \union {f}
         /\ NamesAt(D, Put(F, f), path) = NamesAt(D, F, path) \union {f.name}
<1>1. FilesAt(D, Put(F, f), path) = {g \in FilesAt(D, F, path) : g.name # f.name} \union {f}
  BY DEF Put, FilesAt
<1>2. QED
  BY <1>1 DEF NamesAt

LEMMA FewerSame ==
  ASSUME NEW D, NEW F, NEW G \in SUBSET F, NEW n, \A f \in F \ G : f.dir = n,
         NEW path, path \in DOMAIN D => D[path] # n
  PROVE  Same(D, F, D, G, path)
<1>1. FilesAt(D, G, path) = FilesAt(D, F, path)
  BY DEF FilesAt
<1>2. QED
  BY <1>1, UntouchedSame

LEMMA MarkedSame ==
  ASSUME NEW D, NEW F \in SUBSET Files, NEW a, NEW path
  PROVE  /\ Same(D, F, D, Marked(F, a), path)
         /\ \A g \in FilesAt(D, Marked(F, a), path) : g.name = "events" /\ g.by = a => g.whole
<1> DEFINE m(f) == [f EXCEPT !.whole = @ \/ (f.name = "events" /\ f.by = a)]
<1>1. \A f \in F : /\ m(f).dir = f.dir /\ m(f).name = f.name /\ m(f).by = f.by
                   /\ m(f).whole = (f.whole \/ (f.name = "events" /\ f.by = a))
  BY MarkedFile
<1>2. Marked(F, a) = {m(f) : f \in F}
  BY DEF Marked
<1> HIDE DEF m
<1>3. FilesAt(D, Marked(F, a), path) = {m(f) : f \in FilesAt(D, F, path)}
  BY <1>1, <1>2 DEF FilesAt
<1>4. \A f \in FilesAt(D, F, path) : f \in F
  BY DEF FilesAt
<1>5. NamesAt(D, Marked(F, a), path) = NamesAt(D, F, path)
  BY <1>1, <1>3, <1>4 DEF NamesAt
<1>6. \A g \in FilesAt(D, Marked(F, a), path) : \E f \in FilesAt(D, F, path) :
        /\ f.name = g.name /\ f.by = g.by
        /\ g.whole = (f.whole \/ (f.name = "events" /\ f.by = a))
  BY <1>1, <1>3, <1>4
<1>7. QED
  BY <1>5, <1>6 DEF Same

LEMMA SamePrivate ==
  ASSUME NEW D, NEW F, NEW E, NEW G, NEW T, NEW X, NEW c, NEW l, NEW a,
         Same(D, F, E, G, T), Same(D, F, E, G, X), Private(D, F, T, X, c, l, a)
  PROVE  Private(E, G, T, X, c, l, a)
<1>1. c \in Making => T \in DOMAIN E /\ \A f \in FilesAt(E, G, T) : f.by = a
  BY DEF Private, Same
<1>2. c \in WhollyWritten => \A f \in FilesAt(E, G, T) : f.whole
  BY DEF Private, Same
<1>3. QED
  BY <1>1, <1>2 DEF Private, Same

LEMMA SameLeft ==
  ASSUME NEW D, NEW F, NEW E, NEW G, NEW X, NEW a,
         Same(D, F, E, G, X), Leaves(D, F, X, a)
  PROVE  Leaves(E, G, X, a)
BY DEF Leaves, Same

LEMMA SameOne ==
  ASSUME NEW D, NEW F, NEW E, NEW G, NEW path, Same(D, F, E, G, path)
  PROVE  /\ OneAttempt(D, F, path) => OneAttempt(E, G, path)
         /\ Complete(D, F, path) => Complete(E, G, path)
<1>1. OneAttempt(D, F, path) => OneAttempt(E, G, path)
  BY DEF OneAttempt, Same
<1>2. Complete(D, F, path) => Complete(E, G, path)
  BY DEF Complete, Same
<1>3. QED
  BY <1>1, <1>2

LEMMA FewerOne ==
  ASSUME NEW D, NEW F, NEW G \in SUBSET F, NEW path
  PROVE  /\ OneAttempt(D, F, path) => OneAttempt(D, G, path)
         /\ Complete(D, F, path) => Complete(D, G, path)
BY DEF OneAttempt, Complete, FilesAt

-----------------------------------------------------------------------------
(* What a run does to the paths of the others: nothing. *)

Own(q) == {Target(q), Temporary(q), Failed(q)}

LEMMA Elsewhere ==
  ASSUME RunTypes, NEW q \in Procs, Listed(q), Effect(q), NEW path, path \notin Own(q)
  PROVE  Same(dir, files, dir', files', path)
<1>1. StoreOf(dir, files) /\ Control
  BY TypesSplit
<1>2. path # Temporary(q) /\ path # Target(q) /\ path # Failed(q)
  BY DEF Own
<1>3. CASE Stays
  BY <1>3, UntouchedSame DEF Stays
<1>4. CASE Makes(q)
  BY <1>2, <1>4, MadeSame DEF Makes
<1>5. ASSUME Temporary(q) \in DOMAIN dir, NEW f, f.dir = dir[Temporary(q)]
      PROVE  Same(dir, files, dir, Put(files, f), path)
  BY <1>1, <1>2, <1>5, PutSame DEF StoreOf
<1>6. CASE Puts(q)
  BY <1>5, <1>6 DEF Puts, Exists
<1>7. CASE MakesAndPuts(q)
  <2>1. PICK n \in Nat, f \in Files :
          /\ ~Used(n) /\ dir' = Made(dir, Temporary(q), n)
          /\ f.dir = n /\ files' = Put(files, f)
    BY <1>7 DEF MakesAndPuts
  <2>2. path \in DOMAIN dir => f.dir # dir[path]
    BY <2>1 DEF Used, Range
  <2>3. Same(dir, files, dir', files, path)
    BY <1>2, <2>1, MadeSame
  <2>4. path \in DOMAIN dir' => f.dir # dir'[path]
    BY <2>2, <2>3 DEF Same
  <2>5. Same(dir', files, dir', files', path)
    BY <2>1, <2>4, PutSame
  <2>6. QED
    BY <2>3, <2>5 DEF Same
<1>8. CASE Marks(q)
  BY <1>1, <1>8, MarkedSame DEF Marks, StoreOf
<1>9. CASE Unlinks(q)
  <2> DEFINE n == listing[q].dir
  <2>1. files' \in SUBSET files /\ \A f \in files \ files' : f.dir = n
    BY <1>9 DEF Unlinks, Replacing
  <2>2. path \in DOMAIN dir => dir[path] # n
    BY <1>2, <1>9, RemovedKind DEF Unlinks, Listed
  <2>3. QED
    BY <1>9, <2>1, <2>2, FewerSame DEF Unlinks
<1>10. CASE Removes(q)
  BY <1>2, <1>10, RemovedSame, RemovedKind DEF Removes
<1>11. CASE Renames(q)
  <2>1. PICK to \in {Target(q), Failed(q)} : dir' = Renamed(dir, Temporary(q), to) /\ files' = files
    BY <1>11 DEF Renames
  <2>2. QED
    BY <1>2, <2>1, RenamedSame
<1>12. QED
  BY <1>3, <1>4, <1>6, <1>7, <1>8, <1>9, <1>10, <1>11 DEF Effect

LEMMA OwnStep ==
  ASSUME Control, NEW q \in Procs, RunAction(q)
  PROVE  /\ setup' = setup
         /\ \A p \in Procs : p # q => /\ pc'[p] = pc[p] /\ listing'[p] = listing[p]
                                      /\ att'[p] = att[p]
<1>1. CASE Begin(q) \/ Raise(q)
  BY <1>1 DEF Begin, Raise, Control, Goto
<1>2. CASE MakeTemporary(q) \/ OpenTrace(q) \/ Execute(q) \/ Write(q) \/ Check(q)
  BY <1>2 DEF MakeTemporary, OpenTrace, Execute, Write, Check, Control, Goto, Unmoved
<1>3. CASE Publish(q) \/ Keep(q)
  BY <1>3 DEF Publish, Keep, Replace, Control, Goto, Unmoved
<1>4. CASE List(q)
  BY <1>4 DEF List, RmtreeRaises, Control, Goto, Unmoved
<1>5. CASE Unlink(q)
  BY <1>5 DEF Unlink, RmtreeRaises, Control, Goto, Unmoved
<1>6. CASE Rmdir(q)
  BY <1>6 DEF Rmdir, RmtreeRaises, Control, Goto, Unmoved
<1>7. QED
  BY <1>1, <1>2, <1>3, <1>4, <1>5, <1>6 DEF RunAction, Step

LEMMA PathsStay ==
  ASSUME setup' = setup, NEW p
  PROVE  Target(p)' = Target(p) /\ Temporary(p)' = Temporary(p) /\ Failed(p)' = Failed(p)
BY DEF Target, Temporary, Failed

LEMMA PrivateNext ==
  ASSUME setup' = setup, NEW p \in Procs,
         Private(dir', files', Temporary(p), Failed(p), pc'[p], listing'[p], <<p, att'[p]>>)
  PROVE  PrivateTo(p)'
<1>1. Temporary(p)' = Temporary(p) /\ Failed(p)' = Failed(p)
  BY PathsStay
<1>2. Attempt(p)' = <<p, att'[p]>>
  BY DEF Attempt
<1>3. QED
  BY <1>1, <1>2 DEF PrivateTo

LEMMA ApartPaths ==
  ASSUME Apart, Control, NEW p \in Procs, NEW q \in Procs, p # q
  PROVE  Temporary(p) \notin Own(q) /\ Failed(p) \notin Own(q)
<1>1. ~(setup.target[p] = setup.target[q] /\ setup.run[p] = setup.run[q])
  BY DEF Apart, Control
<1>2. QED
  BY <1>1 DEF Own, Target, Temporary, Failed

LEMMA OthersStay ==
  ASSUME Apart, RunTypes, NEW q \in Procs, RunAction(q), Listed(q),
         NEW p \in Procs, p # q, PrivateTo(p), LeftBy(p)
  PROVE  PrivateTo(p)' /\ LeftBy(p)'
<1>1. Control /\ Effect(q)
  BY TypesSplit, RunEffect
<1>2. setup' = setup /\ pc'[p] = pc[p] /\ listing'[p] = listing[p] /\ att'[p] = att[p]
  BY <1>1, OwnStep
<1>3. /\ Same(dir, files, dir', files', Temporary(p))
      /\ Same(dir, files, dir', files', Failed(p))
  BY <1>1, ApartPaths, Elsewhere
<1>4. PrivateTo(p)'
  <2>1. Private(dir, files, Temporary(p), Failed(p), pc[p], listing[p], <<p, att[p]>>)
    BY DEF PrivateTo, Attempt
  <2>2. Private(dir', files', Temporary(p), Failed(p), pc[p], listing[p], <<p, att[p]>>)
    BY <1>3, <2>1, SamePrivate
  <2>3. QED
    BY <1>2, <2>2, PrivateNext
<1>5. LeftBy(p)'
  <2>1. Temporary(p)' = Temporary(p) /\ Failed(p)' = Failed(p) /\ Attempt(p)' = Attempt(p)
    BY <1>2, PathsStay DEF Attempt
  <2>2. Exists(Temporary(p))' <=> Exists(Temporary(p))
    BY <1>3, <2>1 DEF Same, Exists
  <2>3. Leaves(dir, files, Failed(p), Attempt(p)) => Leaves(dir', files', Failed(p), Attempt(p))
    BY <1>3, SameLeft
  <2>4. QED
    BY <1>2, <2>1, <2>2, <2>3 DEF LeftBy
<1>6. QED
  BY <1>4, <1>5

-----------------------------------------------------------------------------
(* The invariant of a process under its own steps. *)

LEMMA Progress ==
  ASSUME NEW D, NEW F, NEW T, NEW X, NEW c \in DOMAIN Written, NEW l, NEW a,
         T \in DOMAIN D, \A f \in FilesAt(D, F, T) : f.by = a,
         NamesAt(D, F, T) = Written[c],
         c \in WhollyWritten => \A f \in FilesAt(D, F, T) : f.whole
  PROVE  Private(D, F, T, X, c, l, a)
BY DEF Private, Written

LEMMA Failing ==
  ASSUME NEW D, NEW F, NEW T, NEW X, NEW c \in {"report", "exception", "checkFailed"},
         NEW l, NEW a, T \in DOMAIN D, \A f \in FilesAt(D, F, T) : f.by = a,
         c = "exception" => "manifest" \in NamesAt(D, F, T),
         c = "checkFailed" => Evidence \subseteq NamesAt(D, F, T)
  PROVE  Private(D, F, T, X, c, l, a)
BY DEF Private, Written, WhollyWritten

LEMMA Nowhere ==
  ASSUME NEW D, NEW F, NEW T, NEW X, NEW c, NEW l, NEW a,
         \/ c \in {"idle", "raised", "killed"}
         \/ c \in {"mkdir", "returned"} /\ T \notin DOMAIN D
  PROVE  Private(D, F, T, X, c, l, a)
BY DEF Private, Written, WhollyWritten, Making

\* A process that has begun and has not ended is not one that is too short.
LEMMA NotShort ==
  ASSUME NEW p \in Procs, LeftBy(p), pc[p] \notin {"idle", "raised"}, setup' = setup,
         pc'[p] # "raised"
  PROVE  LeftBy(p)'
BY DEF LeftBy

LEMMA WentTo ==
  ASSUME Control, NEW p \in Procs, NEW label, Goto(p, label)
  PROVE  pc'[p] = label
BY DEF Control, Goto

\* What the invariant says where the temporary directory is being filled.
LEMMA InMaking ==
  ASSUME NEW p \in Procs, PrivateTo(p), pc[p] \in Making
  PROVE  /\ Exists(Temporary(p)) /\ Temporary(p) \in DOMAIN dir
         /\ \A f \in FilesAt(dir, files, Temporary(p)) : f.by = <<p, att[p]>>
         /\ pc[p] \in DOMAIN Written => NamesAt(dir, files, Temporary(p)) = Written[pc[p]]
         /\ pc[p] \in WhollyWritten => \A f \in FilesAt(dir, files, Temporary(p)) : f.whole
BY DEF PrivateTo, Private, Exists, Attempt

LEMMA OwnBegin ==
  ASSUME RunTypes, NEW q \in Procs, PrivateTo(q), LeftBy(q), Begin(q)
  PROVE  PrivateTo(q)' /\ LeftBy(q)'
<1>1. Control
  BY TypesSplit
<1>2. listing[q] = None /\ setup' = setup /\ dir' = dir /\ files' = files /\ listing' = listing
  BY <1>1 DEF Begin, Control, Removals
<1>3. pc'[q] = IF q \in setup.short THEN "raised"
               ELSE IF Exists(Temporary(q)) THEN "clean" ELSE "mkdir"
  BY <1>1 DEF Begin, Goto, Control
<1>4. PrivateTo(q)'
  <2>1. CASE pc'[q] = "clean" /\ Temporary(q) \in DOMAIN dir
    <3>1. Private(dir', files', Temporary(q), Failed(q), "clean", listing'[q], <<q, att'[q]>>)
      BY <1>2, <2>1 DEF Private, Making, Written, WhollyWritten
    <3>2. QED
      BY <1>2, <2>1, <3>1, PrivateNext
  <2>2. CASE pc'[q] = "raised" \/ (pc'[q] = "mkdir" /\ Temporary(q) \notin DOMAIN dir)
    BY <1>2, <2>2, Nowhere, PrivateNext
  <2>3. QED
    BY <1>3, <2>1, <2>2 DEF Exists
<1>5. LeftBy(q)'
  <2>1. Temporary(q)' = Temporary(q)
    BY <1>2, PathsStay
  <2>2. QED
    BY <1>2, <1>3, <2>1 DEF LeftBy, Exists
<1>6. QED
  BY <1>4, <1>5

LEMMA OwnMake ==
  ASSUME RunTypes, NEW q \in Procs, PrivateTo(q), LeftBy(q), MakeTemporary(q)
  PROVE  PrivateTo(q)' /\ LeftBy(q)'
<1>1. Control /\ StoreOf(dir, files)
  BY TypesSplit
<1>2. pc[q] = "mkdir" /\ pc'[q] = "open" /\ setup' = setup /\ files' = files
  BY <1>1, WentTo DEF MakeTemporary, Unmoved
<1>3. Temporary(q) \notin DOMAIN dir
  BY <1>2 DEF PrivateTo, Private
<1>4. PICK n : ~Used(n) /\ dir' = Made(dir, Temporary(q), n)
  BY <1>3, Ensured DEF MakeTemporary, Exists
<1>5. Temporary(q) \in DOMAIN dir' /\ dir'[Temporary(q)] = n
  BY <1>4 DEF Made
<1>6. FilesAt(dir', files', Temporary(q)) = {}
  BY <1>1, <1>2, <1>4, <1>5 DEF FilesAt, StoreOf, Used, Range
<1>7. NamesAt(dir', files', Temporary(q)) = {}
  BY <1>6 DEF NamesAt
<1>8. "open" \in DOMAIN Written /\ Written["open"] = {} /\ "open" \notin WhollyWritten
  BY DEF Written, WhollyWritten
<1>9. PrivateTo(q)'
  BY <1>2, <1>5, <1>6, <1>7, <1>8, Progress, PrivateNext
<1>10. QED
  BY <1>2, <1>9, NotShort

LEMMA OwnOpen ==
  ASSUME RunTypes, NEW q \in Procs, PrivateTo(q), LeftBy(q), OpenTrace(q)
  PROVE  PrivateTo(q)' /\ LeftBy(q)'
<1> DEFINE T == Temporary(q)
           f == [dir |-> dir[T], name |-> "events", by |-> <<q, att[q]>>, whole |-> FALSE]
<1>1. Control /\ StoreOf(dir, files)
  BY TypesSplit
<1>2. pc[q] = "open" /\ pc'[q] = "execute" /\ setup' = setup /\ att' = att
  BY <1>1, WentTo DEF OpenTrace, Unmoved
<1>3. Exists(T) /\ T \in DOMAIN dir /\ NamesAt(dir, files, T) = {}
  BY <1>2, InMaking DEF Making, Written
<1>4. dir' = dir /\ files' = Replacing(dir[T], "events") \union {f}
  BY <1>3 DEF OpenTrace, EnsureDir, Attempt
<1>5. f.dir = dir[T] /\ f.name = "events" /\ f.by = <<q, att[q]>>
  OBVIOUS
<1> HIDE DEF f
<1>6. files' = Put(files, f)
  BY <1>4, <1>5, FilePut
<1>7. FilesAt(dir', files', T) = {f} /\ NamesAt(dir', files', T) = {"events"}
  <2>1. FilesAt(dir, files, T) = {}
    BY <1>3 DEF NamesAt
  <2>2. QED
    BY <1>3, <1>4, <1>5, <1>6, <2>1, PutThere
<1>8. /\ "execute" \in DOMAIN Written /\ Written["execute"] = {"events"}
      /\ "execute" \notin WhollyWritten
  BY DEF Written, WhollyWritten
<1>9. T \in DOMAIN dir' /\ \A g \in FilesAt(dir', files', T) : g.by = <<q, att'[q]>>
  BY <1>2, <1>3, <1>4, <1>5, <1>7
<1>10. PrivateTo(q)'
  BY <1>2, <1>7, <1>8, <1>9, Progress, PrivateNext
<1>11. QED
  BY <1>2, <1>10, NotShort

LEMMA OwnExecute ==
  ASSUME RunTypes, NEW q \in Procs, PrivateTo(q), LeftBy(q), Execute(q)
  PROVE  PrivateTo(q)' /\ LeftBy(q)'
<1> DEFINE T == Temporary(q)
<1>1. Control /\ StoreOf(dir, files)
  BY TypesSplit
<1>2. /\ pc[q] = "execute" /\ pc'[q] = "rounds" /\ setup' = setup /\ att' = att /\ dir' = dir
      /\ files' = Marked(files, <<q, att[q]>>)
  BY <1>1, WentTo DEF Execute, Unmoved, Marked, Attempt
<1>3. /\ T \in DOMAIN dir /\ NamesAt(dir, files, T) = {"events"}
      /\ \A f \in FilesAt(dir, files, T) : f.by = <<q, att[q]>>
  BY <1>2, InMaking DEF Making, Written
<1>4. /\ Same(dir, files, dir, files', T)
      /\ \A g \in FilesAt(dir, files', T) : g.name = "events" /\ g.by = <<q, att[q]>> => g.whole
  BY <1>1, <1>2, MarkedSame DEF StoreOf
<1>5. \A g \in FilesAt(dir, files', T) : g.by = <<q, att[q]>> /\ g.name = "events" /\ g.whole
  <2>1. NamesAt(dir, files', T) = {"events"}
    BY <1>3, <1>4 DEF Same
  <2>2. QED
    BY <1>3, <1>4, <2>1 DEF Same, NamesAt
<1>6. "rounds" \in DOMAIN Written /\ Written["rounds"] = {"events"}
  BY DEF Written
<1>7. PrivateTo(q)'
  <2>1. NamesAt(dir, files', T) = {"events"}
    BY <1>3, <1>4 DEF Same
  <2>2. QED
    BY <1>2, <1>3, <1>5, <1>6, <2>1, Progress, PrivateNext
<1>8. QED
  BY <1>2, <1>7, NotShort

LEMMA OwnRaise ==
  ASSUME RunTypes, NEW q \in Procs, PrivateTo(q), LeftBy(q), pc[q] \in Making,
         pc'[q] = "report", setup' = setup, att' = att,
         Same(dir, files, dir', files', Temporary(q))
  PROVE  PrivateTo(q)' /\ LeftBy(q)'
<1> DEFINE T == Temporary(q)
<1>1. T \in DOMAIN dir' /\ \A f \in FilesAt(dir', files', T) : f.by = <<q, att'[q]>>
  BY InMaking DEF Same
<1>2. PrivateTo(q)'
  BY <1>1, Failing, PrivateNext
<1>3. QED
  BY <1>2, NotShort DEF Making

LEMMA OwnWrite ==
  ASSUME RunTypes, NEW q \in Procs, PrivateTo(q), LeftBy(q), Write(q)
  PROVE  PrivateTo(q)' /\ LeftBy(q)'
<1> DEFINE T == Temporary(q)
           name == IF pc[q] = "report" THEN "manifest" ELSE pc[q]
           f == [dir |-> dir[T], name |-> name, by |-> <<q, att[q]>>, whole |-> TRUE]
<1>1. Control
  BY TypesSplit
<1>2. pc[q] \in {"rounds", "summary", "manifest", "report", "exception"}
  BY LabelsAre DEF Write
<1>3. Exists(T) /\ T \in DOMAIN dir /\ \A g \in FilesAt(dir, files, T) : g.by = <<q, att[q]>>
  BY <1>2, InMaking DEF Making
<1>4. /\ setup' = setup /\ att' = att /\ dir' = dir
      /\ files' = Replacing(dir[T], name) \union {f} /\ pc'[q] = After[pc[q]]
  BY <1>1, <1>3, WentTo DEF Write, Unmoved, Attempt
<1>5. f.dir = dir[T] /\ f.name = name /\ f.by = <<q, att[q]>> /\ f.whole
  OBVIOUS
<1> HIDE DEF f, name
<1>6. files' = Put(files, f)
  BY <1>4, <1>5, FilePut
<1>7. /\ FilesAt(dir', files', T) = {g \in FilesAt(dir, files, T) : g.name # f.name} \union {f}
      /\ NamesAt(dir', files', T) = NamesAt(dir, files, T) \union {name}
  <2>1. T \in DOMAIN dir /\ f.dir = dir[T]
    BY <1>3, <1>5
  <2>2. /\ FilesAt(dir, Put(files, f), T) = {g \in FilesAt(dir, files, T) : g.name # f.name} \union {f}
        /\ NamesAt(dir, Put(files, f), T) = NamesAt(dir, files, T) \union {f.name}
    BY <2>1, PutThere
  <2>3. QED
    BY <1>4, <1>5, <1>6, <2>2
<1>8. T \in DOMAIN dir' /\ \A g \in FilesAt(dir', files', T) : g.by = <<q, att'[q]>>
  BY <1>3, <1>4, <1>5, <1>7
<1>9. CASE pc[q] \in {"rounds", "summary", "manifest"}
  <2>1. /\ pc[q] \in WhollyWritten /\ pc[q] \in DOMAIN Written
        /\ After[pc[q]] \in DOMAIN Written /\ Written[After[pc[q]]] = Written[pc[q]] \union {pc[q]}
    BY <1>9 DEF Written, WhollyWritten, After, Artifacts
  <2>2. /\ NamesAt(dir, files, T) = Written[pc[q]]
        /\ \A g \in FilesAt(dir, files, T) : g.whole
    BY <1>2, <2>1, InMaking DEF Making
  <2>3. \A g \in FilesAt(dir', files', T) : g.whole
    BY <1>5, <1>7, <2>2
  <2>4. NamesAt(dir', files', T) = Written[After[pc[q]]]
    BY <1>7, <1>9, <2>1, <2>2 DEF name
  <2>5. PrivateTo(q)'
    BY <1>4, <1>8, <2>1, <2>3, <2>4, Progress, PrivateNext
  <2>6. QED
    BY <1>4, <1>9, <2>1, <2>5, NotShort DEF Written
<1>10. CASE pc[q] \in {"report", "exception"}
  <2>1. pc'[q] = IF pc[q] = "report" THEN "exception" ELSE "checkFailed"
    BY <1>4, <1>10 DEF After
  <2>2. pc[q] = "exception" => "manifest" \in NamesAt(dir, files, T)
    BY DEF PrivateTo, Private
  <2>3. /\ pc'[q] = "exception" => "manifest" \in NamesAt(dir', files', T)
        /\ pc'[q] = "checkFailed" => Evidence \subseteq NamesAt(dir', files', T)
    BY <1>7, <1>10, <2>1, <2>2 DEF Evidence, name
  <2>4. PrivateTo(q)'
    <3>1. pc'[q] \in {"report", "exception", "checkFailed"}
      BY <2>1
    <3>2. Private(dir', files', T, Failed(q), pc'[q], listing'[q], <<q, att'[q]>>)
      BY <1>8, <2>3, <3>1, Failing
    <3>3. QED
      BY <1>4, <3>2, PrivateNext
  <2>5. QED
    BY <1>4, <1>10, <2>1, <2>4, NotShort
<1>11. QED
  BY <1>2, <1>9, <1>10

LEMMA OwnCheck ==
  ASSUME RunTypes, NEW q \in Procs, PrivateTo(q), LeftBy(q), Check(q)
  PROVE  PrivateTo(q)' /\ LeftBy(q)'
<1> DEFINE T == Temporary(q)
<1>1. Control
  BY TypesSplit
<1>2. /\ setup' = setup /\ att' = att /\ dir' = dir /\ files' = files /\ listing' = listing
      /\ pc[q] \in {"check", "checkFailed"}
  BY DEF Check, Unmoved
<1>3. T \in DOMAIN dir /\ \A f \in FilesAt(dir, files, T) : f.by = <<q, att[q]>>
  BY <1>2, InMaking DEF Making
<1>4. CASE pc[q] = "check"
  <2>1. pc'[q] \in {"clear", "move"}
    BY <1>1, <1>4 DEF Check, Goto, Control
  <2>2. NamesAt(dir, files, T) = Artifacts /\ \A f \in FilesAt(dir, files, T) : f.whole
    BY <1>4, InMaking DEF Making, Written, WhollyWritten
  <2>3. pc'[q] \in DOMAIN Written /\ Written[pc'[q]] = Artifacts
    BY <2>1 DEF Written
  <2>4. PrivateTo(q)'
    BY <1>2, <1>3, <2>2, <2>3, Progress, PrivateNext
  <2>5. QED
    BY <1>2, <1>4, <2>1, <2>4, NotShort
<1>5. CASE pc[q] = "checkFailed"
  <2>1. \/ pc'[q] = "drop" /\ Failed(q) \in DOMAIN dir
        \/ pc'[q] = "keep" /\ Failed(q) \notin DOMAIN dir
    BY <1>1, <1>5 DEF Check, Goto, Control, Exists
  <2>2. listing[q] = None
    BY <1>1, <1>5 DEF Control, Removals
  <2>3. Evidence \subseteq NamesAt(dir, files, T)
    BY <1>5 DEF PrivateTo, Private
  <2>4. Private(dir', files', T, Failed(q), pc'[q], listing'[q], <<q, att'[q]>>)
    BY <1>2, <1>3, <2>1, <2>2, <2>3 DEF Private, Written, WhollyWritten
  <2>5. QED
    BY <1>2, <1>5, <2>1, <2>4, PrivateNext, NotShort
<1>6. QED
  BY <1>2, <1>4, <1>5

\* The directories that rmtree is about to empty, or is emptying.
LEMMA NamesThere ==
  ASSUME NEW path \in DOMAIN dir
  PROVE  NamesIn(dir[path]) = NamesAt(dir, files, path) /\ In(path) = FilesAt(dir, files, path)
BY DEF NamesIn, NamesAt, FilesAt, In, Exists

LEMMA OwnList ==
  ASSUME RunTypes, NEW q \in Procs, PrivateTo(q), LeftBy(q), List(q)
  PROVE  PrivateTo(q)' /\ LeftBy(q)'
<1> DEFINE T == Temporary(q)
           X == Failed(q)
           path == RemovedAt(q, pc[q])
<1>1. Control
  BY TypesSplit
<1>2. setup' = setup /\ att' = att /\ dir' = dir /\ files' = files /\ pc[q] \in Removals
  BY LabelsAre DEF List, Unmoved, RmtreeRaises
<1>3. Private(dir, files, T, X, pc[q], listing[q], <<q, att[q]>>)
  BY DEF PrivateTo, Attempt
<1>4. CASE pc[q] = "clear"
  <2>1. CASE pc'[q] = pc[q]
    <3>1. Private(dir', files', T, X, pc'[q], listing'[q], <<q, att'[q]>>)
      BY <1>2, <1>3, <1>4, <2>1 DEF Private
    <3>2. QED
      BY <1>2, <1>4, <2>1, <3>1, PrivateNext, NotShort
  <2>2. CASE RmtreeRaises(q)
    <3>1. pc'[q] = "report"
      BY <1>1, <1>4, <2>2, WentTo DEF RmtreeRaises, RaiseTo, InHandler
    <3>2. Same(dir, files, dir', files', T)
      BY <1>2, UntouchedSame
    <3>3. QED
      BY <1>2, <1>4, <3>1, <3>2, OwnRaise DEF Making
  <2>3. QED
    BY <2>1, <2>2 DEF List
<1>5. CASE pc[q] \in {"clean", "drop"}
  <2>1. path \in DOMAIN dir /\ path = IF pc[q] = "clean" THEN T ELSE X
    BY <1>3, <1>5 DEF Private, RemovedAt
  <2>2. /\ pc' = pc
        /\ listing'[q] = [dir |-> dir[path], todo |-> NamesAt(dir, files, path)]
    BY <1>1, <2>1, NamesThere DEF List, Exists, Control
  <2>3. listing'[q].dir = dir[path] /\ listing'[q].todo = NamesAt(dir, files, path)
    BY <2>2
  <2>4. Private(dir', files', T, X, pc'[q], listing'[q], <<q, att'[q]>>)
    BY <1>2, <1>3, <1>5, <2>1, <2>2, <2>3 DEF Private, Written, WhollyWritten
  <2>5. QED
    BY <1>2, <1>5, <2>2, <2>4, PrivateNext, NotShort
<1>6. QED
  BY <1>2, <1>4, <1>5 DEF Removals

LEMMA OwnUnlink ==
  ASSUME RunTypes, NEW q \in Procs, PrivateTo(q), LeftBy(q), Listed(q), Unlink(q)
  PROVE  PrivateTo(q)' /\ LeftBy(q)'
<1> DEFINE T == Temporary(q)
           X == Failed(q)
           path == RemovedAt(q, pc[q])
           d == listing[q].dir
<1>1. Control /\ StoreOf(dir, files)
  BY TypesSplit
<1>2. setup' = setup /\ att' = att /\ dir' = dir /\ pc[q] \in Removals /\ listing[q] # None
  BY LabelsAre DEF Unlink, Unmoved, RmtreeRaises
<1>3. Private(dir, files, T, X, pc[q], listing[q], <<q, att[q]>>)
  BY DEF PrivateTo, Attempt
<1>4. PICK name \in listing[q].todo :
        \/ /\ files' = Replacing(d, name)
           /\ listing' = [listing EXCEPT ![q].todo = @ \ {name}] /\ pc' = pc
        \/ name \notin NamesIn(d) /\ RmtreeRaises(q)
  BY DEF Unlink
<1>5. T \in DOMAIN dir /\ path # T => dir[T] # d
  BY <1>2 DEF Listed
<1>6. \/ files' = files
      \/ files' \in SUBSET files /\ \A f \in files \ files' : f.dir = d
  BY <1>4 DEF Replacing, RmtreeRaises
<1>7. path # T => Same(dir, files, dir', files', T)
  BY <1>2, <1>5, <1>6, UntouchedSame, FewerSame
<1>8. CASE pc[q] = "clear"
  <2>1. path # T
    BY <1>8, PathKinds DEF RemovedAt
  <2>2. CASE pc' = pc
    <3>1. /\ T \in DOMAIN dir /\ NamesAt(dir, files, T) = Artifacts
          /\ \A f \in FilesAt(dir, files, T) : f.by = <<q, att[q]>> /\ f.whole
      BY <1>8, InMaking DEF Making, Written, WhollyWritten
    <3>2. /\ T \in DOMAIN dir' /\ NamesAt(dir', files', T) = Artifacts
          /\ \A f \in FilesAt(dir', files', T) : f.by = <<q, att'[q]>> /\ f.whole
      BY <1>2, <1>7, <2>1, <3>1 DEF Same
    <3>3. "clear" \in DOMAIN Written /\ Written["clear"] = Artifacts
      BY DEF Written
    <3>4. PrivateTo(q)'
      BY <1>2, <1>8, <2>2, <3>2, <3>3, Progress, PrivateNext
    <3>5. QED
      BY <1>2, <1>8, <2>2, <3>4, NotShort
  <2>3. CASE RmtreeRaises(q)
    <3>1. pc'[q] = "report"
      BY <1>1, <1>8, <2>3, WentTo DEF RmtreeRaises, RaiseTo, InHandler
    <3>2. QED
      BY <1>2, <1>7, <1>8, <2>1, <3>1, OwnRaise DEF Making
  <2>4. QED
    BY <1>4, <2>2, <2>3
<1>9. CASE pc[q] \in {"clean", "drop"}
  <2>1. /\ path \in DOMAIN dir /\ path = IF pc[q] = "clean" THEN T ELSE X
        /\ d = dir[path] /\ listing[q].todo = NamesAt(dir, files, path)
    BY <1>2, <1>3, <1>9 DEF Private, RemovedAt
  <2>2. files' = Replacing(d, name) /\ pc' = pc
        /\ listing' = [listing EXCEPT ![q].todo = @ \ {name}]
    BY <1>4, <2>1, NamesThere
  <2>3. listing[q] \in Listings
    BY <1>1, <1>2 DEF Control
  <2>4. listing'[q].dir = d /\ listing'[q].todo = listing[q].todo \ {name}
    BY <1>1, <2>2, <2>3 DEF Control, Listings
  <2>5. NamesAt(dir', files', path) = NamesAt(dir, files, path) \ {name}
    BY <1>2, <2>1, <2>2 DEF NamesAt, FilesAt, Replacing
  <2>6. CASE pc[q] = "clean"
    <3>1. Private(dir', files', T, X, pc'[q], listing'[q], <<q, att'[q]>>)
      BY <1>2, <2>1, <2>2, <2>4, <2>5, <2>6 DEF Private, Making, Written, WhollyWritten
    <3>2. QED
      BY <1>2, <2>2, <2>6, <3>1, PrivateNext, NotShort
  <2>7. CASE pc[q] = "drop"
    <3>1. Same(dir, files, dir', files', T)
      BY <1>7, <2>1, <2>7, PathKinds
    <3>2. /\ T \in DOMAIN dir' /\ Evidence \subseteq NamesAt(dir', files', T)
          /\ \A f \in FilesAt(dir', files', T) : f.by = <<q, att'[q]>>
      BY <1>2, <1>3, <2>7, <3>1 DEF Private, Making, Same
    <3>3. Private(dir', files', T, X, pc'[q], listing'[q], <<q, att'[q]>>)
      BY <1>2, <2>1, <2>2, <2>4, <2>5, <2>7, <3>2 DEF Private, Written, WhollyWritten
    <3>4. QED
      BY <1>2, <2>2, <2>7, <3>3, PrivateNext, NotShort
  <2>8. QED
    BY <1>9, <2>6, <2>7
<1>10. QED
  BY <1>2, <1>8, <1>9 DEF Removals

LEMMA OwnRmdir ==
  ASSUME RunTypes, NEW q \in Procs, PrivateTo(q), LeftBy(q), Rmdir(q)
  PROVE  PrivateTo(q)' /\ LeftBy(q)'
<1> DEFINE T == Temporary(q)
           X == Failed(q)
           path == RemovedAt(q, pc[q])
<1>1. Control
  BY TypesSplit
<1>2. /\ setup' = setup /\ att' = att /\ files' = files /\ pc[q] \in Removals
      /\ listing[q] # None /\ listing[q].todo = {}
  BY LabelsAre DEF Rmdir, Unmoved, RmtreeRaises
<1>3. Private(dir, files, T, X, pc[q], listing[q], <<q, att[q]>>)
  BY DEF PrivateTo, Attempt
<1>4. \/ dir' = Removed(dir, path) /\ Goto(q, Removing[pc[q]])
      \/ (~Exists(path) \/ In(path) # {}) /\ RmtreeRaises(q)
  BY DEF Rmdir, Removed
<1>5. path \notin DOMAIN Removed(dir, path)
  BY DEF Removed
<1>6. path # T => Same(dir, files, Removed(dir, path), files, T)
  BY RemovedSame
<1>7. CASE pc[q] = "clear"
  <2>1. path # T
    BY <1>7, PathKinds DEF RemovedAt
  <2>2. CASE dir' = Removed(dir, path) /\ Goto(q, Removing[pc[q]])
    <3>1. pc'[q] = "move"
      BY <1>1, <1>7, <2>2, WentTo DEF Removing
    <3>2. /\ T \in DOMAIN dir /\ NamesAt(dir, files, T) = Artifacts
          /\ \A f \in FilesAt(dir, files, T) : f.by = <<q, att[q]>> /\ f.whole
      BY <1>7, InMaking DEF Making, Written, WhollyWritten
    <3>3. /\ T \in DOMAIN dir' /\ NamesAt(dir', files', T) = Artifacts
          /\ \A f \in FilesAt(dir', files', T) : f.by = <<q, att'[q]>> /\ f.whole
      BY <1>2, <1>6, <2>1, <2>2, <3>2 DEF Same
    <3>4. "move" \in DOMAIN Written /\ Written["move"] = Artifacts
      BY DEF Written
    <3>5. PrivateTo(q)'
      BY <1>2, <3>1, <3>3, <3>4, Progress, PrivateNext
    <3>6. QED
      BY <1>2, <1>7, <3>1, <3>5, NotShort
  <2>3. CASE RmtreeRaises(q)
    <3>1. pc'[q] = "report"
      BY <1>1, <1>7, <2>3, WentTo DEF RmtreeRaises, RaiseTo, InHandler
    <3>2. Same(dir, files, dir', files', T)
      BY <2>3, UntouchedSame DEF RmtreeRaises
    <3>3. QED
      BY <1>2, <1>7, <3>1, <3>2, OwnRaise DEF Making
  <2>4. QED
    BY <1>4, <2>2, <2>3
<1>8. CASE pc[q] \in {"clean", "drop"}
  <2>1. /\ path \in DOMAIN dir /\ path = IF pc[q] = "clean" THEN T ELSE X
        /\ NamesAt(dir, files, path) = {}
    BY <1>2, <1>3, <1>8 DEF Private, RemovedAt
  <2>2. Exists(path) /\ In(path) = {}
    BY <2>1, NamesThere DEF Exists, NamesAt
  <2>3. dir' = Removed(dir, path) /\ pc'[q] = Removing[pc[q]]
    BY <1>1, <1>4, <2>2, WentTo
  <2>4. CASE pc[q] = "clean"
    <3>1. pc'[q] = "mkdir" /\ T \notin DOMAIN dir'
      BY <1>5, <2>1, <2>3, <2>4 DEF Removing
    <3>2. PrivateTo(q)'
      BY <1>2, <3>1, Nowhere, PrivateNext
    <3>3. QED
      BY <1>2, <2>4, <3>1, <3>2, NotShort
  <2>5. CASE pc[q] = "drop"
    <3>1. pc'[q] = "keep" /\ X \notin DOMAIN dir'
      BY <1>5, <2>1, <2>3, <2>5 DEF Removing
    <3>2. Same(dir, files, dir', files', T)
      BY <1>2, <1>6, <2>1, <2>3, <2>5, PathKinds
    <3>3. /\ T \in DOMAIN dir' /\ Evidence \subseteq NamesAt(dir', files', T)
          /\ \A f \in FilesAt(dir', files', T) : f.by = <<q, att'[q]>>
      BY <1>2, <1>3, <2>5, <3>2 DEF Private, Making, Same
    <3>4. Private(dir', files', T, X, pc'[q], listing'[q], <<q, att'[q]>>)
      BY <3>1, <3>3 DEF Private, Written, WhollyWritten
    <3>5. QED
      BY <1>2, <2>5, <3>1, <3>4, PrivateNext, NotShort
  <2>6. QED
    BY <1>8, <2>4, <2>5
<1>9. QED
  BY <1>2, <1>7, <1>8 DEF Removals

LEMMA OwnPublish ==
  ASSUME RunTypes, NEW q \in Procs, PrivateTo(q), LeftBy(q), Publish(q)
  PROVE  PrivateTo(q)' /\ LeftBy(q)'
<1> DEFINE T == Temporary(q)
<1>1. Control
  BY TypesSplit
<1>2. setup' = setup /\ att' = att /\ files' = files /\ pc[q] = "move"
  BY DEF Publish, Replace, Unmoved
<1>3. T \in DOMAIN dir /\ T # Target(q)
  BY <1>2, InMaking, PathKinds DEF Making
<1>4. CASE dir' = Renamed(dir, T, Target(q)) /\ Goto(q, "returned")
  <2>1. pc'[q] = "returned"
    BY <1>1, <1>4, WentTo
  <2>2. T \notin DOMAIN dir'
    BY <1>3, <1>4, RenamedArrives
  <2>3. PrivateTo(q)'
    BY <1>2, <2>1, <2>2, Nowhere, PrivateNext
  <2>4. QED
    BY <1>2, <2>1, <2>3, NotShort
<1>5. CASE dir' = dir /\ Goto(q, RaiseTo(pc[q]))
  <2>1. pc'[q] = "report"
    BY <1>1, <1>2, <1>5, WentTo DEF RaiseTo, InHandler
  <2>2. Same(dir, files, dir', files', T)
    BY <1>2, <1>5, UntouchedSame
  <2>3. QED
    BY <1>2, <2>1, <2>2, OwnRaise DEF Making
<1>6. QED
  BY <1>4, <1>5 DEF Publish, Replace, Rename, Renamed

LEMMA OwnKeep ==
  ASSUME RunTypes, NEW q \in Procs, PrivateTo(q), LeftBy(q), Keep(q)
  PROVE  PrivateTo(q)' /\ LeftBy(q)'
<1> DEFINE T == Temporary(q)
           X == Failed(q)
<1>1. Control
  BY TypesSplit
<1>2. setup' = setup /\ att' = att /\ files' = files /\ pc[q] = "keep"
  BY DEF Keep, Replace, Unmoved
<1>3. /\ T \in DOMAIN dir /\ T # X /\ X \notin DOMAIN dir
      /\ Evidence \subseteq NamesAt(dir, files, T)
      /\ \A f \in FilesAt(dir, files, T) : f.by = <<q, att[q]>>
  BY <1>2, InMaking, PathKinds DEF Making, PrivateTo, Private
<1>4. dir' = Renamed(dir, T, X) /\ Goto(q, "raised")
  BY <1>3 DEF Keep, Replace, Rename, Renamed, Exists, In
<1>5. FilesAt(dir', files', X) = FilesAt(dir, files, T)
  BY <1>2, <1>3, <1>4, RenamedArrives
<1>6. Leaves(dir', files', X, <<q, att[q]>>)
  BY <1>3, <1>5 DEF Leaves, NamesAt
<1>7. pc'[q] = "raised"
  BY <1>1, <1>4, WentTo
<1>8. PrivateTo(q)'
  BY <1>2, <1>7, Nowhere, PrivateNext
<1>9. LeftBy(q)'
  <2>1. q \notin setup.short
    BY <1>2 DEF LeftBy
  <2>2. Failed(q)' = X /\ Attempt(q)' = <<q, att[q]>>
    BY <1>2, PathsStay DEF Attempt
  <2>3. QED
    BY <1>2, <1>6, <2>1, <2>2 DEF LeftBy
<1>10. QED
  BY <1>8, <1>9

LEMMA OwnInvariant ==
  ASSUME RunTypes, NEW q \in Procs, PrivateTo(q), LeftBy(q), Listed(q), RunAction(q)
  PROVE  PrivateTo(q)' /\ LeftBy(q)'
<1>1. CASE Raise(q)
  <2>1. Control
    BY TypesSplit
  <2>2. /\ setup' = setup /\ att' = att /\ dir' = dir /\ files' = files
        /\ pc[q] \in {"execute", "rounds", "summary", "manifest"} /\ Goto(q, RaiseTo(pc[q]))
    BY <1>1 DEF Raise
  <2>3. pc'[q] = "report"
    BY <2>1, <2>2, WentTo DEF RaiseTo, InHandler
  <2>4. Same(dir, files, dir', files', Temporary(q))
    BY <2>2, UntouchedSame
  <2>5. QED
    BY <2>2, <2>3, <2>4, OwnRaise DEF Making
<1>2. QED
  BY <1>1, OwnBegin, OwnMake, OwnOpen, OwnExecute, OwnWrite, OwnCheck, OwnList, OwnUnlink,
     OwnRmdir, OwnPublish, OwnKeep DEF RunAction, Step

-----------------------------------------------------------------------------
(* What the processes share. *)

\* An rmtree in progress is one that was, or one that has just begun.
LEMMA ListingStep ==
  ASSUME Control, NEW q \in Procs, RunAction(q), NEW p \in Procs, listing'[p] # None
  PROVE  /\ pc'[p] = pc[p] /\ pc[p] \in Removals
         /\ \/ listing[p] # None /\ listing'[p].dir = listing[p].dir
            \/ LET path == RemovedAt(p, pc[p]) IN
               /\ dir' = dir /\ Exists(path) /\ listing'[p].dir = dir[path]
<1>1. CASE p # q
  BY <1>1, OwnStep DEF Control
<1>2. CASE p = q
  <2>1. CASE List(q)
    BY <1>2, <2>1, LabelsAre DEF List, RmtreeRaises, Control
  <2>2. CASE Unlink(q)
    <3>1. listing[q] \in Listings /\ pc[q] \in Removals /\ listing[q] # None
      BY <2>2, LabelsAre DEF Unlink, Control
    <3>2. CASE RmtreeRaises(q)
      BY <1>2, <3>2 DEF RmtreeRaises, Control
    <3>3. CASE \E name : listing' = [listing EXCEPT ![q].todo = @ \ {name}] /\ pc' = pc
      BY <1>2, <3>1, <3>3 DEF Control, Listings
    <3>4. QED
      BY <2>2, <3>2, <3>3 DEF Unlink
  <2>3. CASE Rmdir(q)
    BY <1>2, <2>3 DEF Rmdir, RmtreeRaises, Control
  <2>4. CASE Begin(q) \/ Raise(q) \/ MakeTemporary(q) \/ OpenTrace(q) \/ Execute(q) \/ Write(q)
             \/ Check(q) \/ Publish(q) \/ Keep(q)
    <3>1. Moves(q)
      BY <2>4, MovingSteps
    <3>2. QED
      BY <1>2, <3>1 DEF Moves, Control
  <2>5. QED
    BY <2>1, <2>2, <2>3, <2>4 DEF RunAction, Step
<1>3. QED
  BY <1>1, <1>2

LEMMA RemovedAtStays ==
  ASSUME setup' = setup, NEW p, pc'[p] = pc[p]
  PROVE  RemovedAt(p, pc[p])' = RemovedAt(p, pc[p])
BY PathsStay DEF RemovedAt

LEMMA ListedStays ==
  ASSUME Apart, RunTypes, NEW q \in Procs, RunAction(q), NEW p \in Procs, Listed(p)
  PROVE  Listed(p)'
<1>1. Control /\ StoreOf(dir, files) /\ Effect(q) /\ setup' = setup
  BY TypesSplit, RunEffect, OwnStep
<1>2. SUFFICES ASSUME listing'[p] # None, NEW path \in DOMAIN dir', dir'[path] = listing'[p].dir
               PROVE  path = RemovedAt(p, pc[p])
  <2>1. listing'[p] # None => RemovedAt(p, pc[p])' = RemovedAt(p, pc[p])
    BY <1>1, ListingStep, RemovedAtStays
  <2>2. QED
    BY <2>1 DEF Listed
<1>3. pc[p] \in Removals
  BY <1>1, <1>2, ListingStep
<1>4. CASE dir' = dir /\ Exists(RemovedAt(p, pc[p])) /\ listing'[p].dir = dir[RemovedAt(p, pc[p])]
  BY <1>1, <1>2, <1>4 DEF Exists, StoreOf
<1>5. CASE listing[p] # None /\ listing'[p].dir = listing[p].dir
  <2>1. CASE path \in DOMAIN dir /\ dir'[path] = dir[path]
    BY <1>2, <1>5, <2>1 DEF Listed
  <2>2. ASSUME NEW n, ~Used(n), dir' = Made(dir, Temporary(q), n)
        PROVE  path = RemovedAt(p, pc[p])
    <3>1. dir'[path] # n
      BY <1>2, <1>5, <2>2 DEF Used
    <3>2. path \in DOMAIN dir /\ dir'[path] = dir[path]
      BY <1>2, <2>2, <3>1 DEF Made
    <3>3. QED
      BY <2>1, <3>2
  <2>3. CASE Removes(q)
    <3>1. path \in DOMAIN dir /\ dir'[path] = dir[path]
      BY <1>2, <2>3 DEF Removes, Removed
    <3>2. QED
      BY <2>1, <3>1
  <2>4. CASE Renames(q)
    <3>1. PICK to \in {Target(q), Failed(q)} : dir' = Renamed(dir, Temporary(q), to)
      BY <2>4 DEF Renames
    <3>2. pc[q] \in {"move", "keep"} /\ Temporary(q) \in DOMAIN dir
      BY <2>4 DEF Renames, Exists
    <3>3. CASE path # to
      <4>1. path \in DOMAIN dir /\ dir'[path] = dir[path]
        BY <1>2, <3>1, <3>3 DEF Renamed
      <4>2. QED
        BY <2>1, <4>1
    <3>4. CASE path = to
      <4>1. dir[Temporary(q)] = listing[p].dir
        BY <1>2, <1>5, <3>1, <3>4 DEF Renamed
      <4>2. Temporary(q) = RemovedAt(p, pc[p])
        BY <1>5, <3>2, <4>1 DEF Listed
      <4>3. Temporary(q) = Temporary(p)
        BY <1>3, <4>2, PathKinds DEF RemovedAt, Removals
      <4>4. p = q
        BY <1>1, <4>3, ApartPaths DEF Own
      <4>5. QED
        BY <1>3, <3>2, <4>4 DEF Removals
    <3>5. QED
      BY <3>3, <3>4
  <2>5. CASE dir' = dir
    BY <1>2, <2>1, <2>5
  <2>6. QED
    BY <1>1, <2>2, <2>3, <2>4, <2>5 DEF Effect, Stays, Makes, Puts, MakesAndPuts, Marks, Unlinks
<1>6. QED
  BY <1>1, <1>2, <1>4, <1>5, ListingStep

LEMMA FirstNames ==
  ASSUME NEW p
  PROVE  Temporary(p)[1] # "target" /\ Failed(p)[1] # "target" /\ Target(p)[1] = "target"
BY DEF Temporary, Failed, Target

LEMMA DirectoriesStay ==
  ASSUME RunTypes, NEW q \in Procs, RunAction(q), PrivateTo(q), Listed(q), DirectoriesOK
  PROVE  DirectoriesOK'
<1> DEFINE Good(D, F, path) == /\ OneAttempt(D, F, path)
                               /\ path[1] = "target" => Complete(D, F, path)
           T == Temporary(q)
<1>1. StoreOf(dir, files) /\ Effect(q)
  BY TypesSplit, RunEffect
<1>2. \A path \in DOMAIN dir : Good(dir, files, path)
  BY DEF DirectoriesOK
<1> SUFFICES ASSUME NEW path \in DOMAIN dir' PROVE Good(dir', files', path)
  BY DEF DirectoriesOK
<1>3. ASSUME Same(dir, files, dir', files', path) PROVE Good(dir', files', path)
  <2>1. Good(dir, files, path)
    BY <1>2, <1>3 DEF Same
  <2>2. QED
    BY <1>3, <2>1, SameOne
<1>4. CASE path \notin Own(q)
  BY <1>1, <1>3, <1>4, Elsewhere
<1>5. CASE Stays
  BY <1>3, <1>5, UntouchedSame DEF Stays
<1>6. CASE Makes(q)
  <2>1. PICK n : ~Used(n) /\ dir' = Made(dir, T, n) /\ files' = files
    BY <1>6 DEF Makes
  <2>2. CASE path # T
    BY <1>3, <2>1, <2>2, MadeSame
  <2>3. CASE path = T
    <3>1. dir'[T] = n
      BY <2>1 DEF Made
    <3>2. FilesAt(dir', files', T) = {}
      BY <1>1, <2>1, <3>1 DEF FilesAt, StoreOf, Used, Range
    <3>3. QED
      BY <2>3, <3>2 DEF OneAttempt, Complete
  <2>4. QED
    BY <2>2, <2>3
<1>7. CASE Puts(q)
  <2>1. PICK f \in Files : f.dir = dir[T] /\ f.by = Attempt(q) /\ files' = Put(files, f)
    BY <1>7 DEF Puts
  <2>2. T \in DOMAIN dir /\ dir' = dir
    BY <1>7 DEF Puts, Exists
  <2>3. CASE path # T
    <3>1. f.dir # dir[path]
      BY <1>1, <2>1, <2>2, <2>3 DEF StoreOf
    <3>2. QED
      BY <1>3, <2>1, <2>2, <3>1, PutSame
  <2>4. CASE path = T
    <3>1. \A g \in FilesAt(dir, files, T) : g.by = Attempt(q)
      BY <1>7, InMaking DEF Puts, Attempt
    <3>2. \A g \in FilesAt(dir', files', T) : g.by = Attempt(q)
      BY <2>1, <2>2, <3>1, PutThere
    <3>3. QED
      BY <2>4, <3>2, FirstNames DEF OneAttempt
  <2>5. QED
    BY <2>3, <2>4
<1>8. CASE MakesAndPuts(q)
  BY <1>8, InMaking DEF MakesAndPuts
<1>9. CASE Marks(q)
  BY <1>1, <1>3, <1>9, MarkedSame DEF Marks, StoreOf
<1>10. CASE Unlinks(q)
  <2>1. files' \in SUBSET files /\ dir' = dir
    BY <1>10 DEF Unlinks, Replacing
  <2>2. QED
    BY <1>2, <2>1, FewerOne
<1>11. CASE Removes(q)
  <2>1. PICK gone : dir' = Removed(dir, gone) /\ files' = files
    BY <1>11 DEF Removes
  <2>2. path # gone
    BY <2>1 DEF Removed
  <2>3. QED
    BY <1>3, <2>1, <2>2, RemovedSame
<1>12. CASE Renames(q)
  <2>1. PICK to \in {Target(q), Failed(q)} :
          /\ pc[q] = IF to = Target(q) THEN "move" ELSE "keep"
          /\ dir' = Renamed(dir, T, to) /\ files' = files
    BY <1>12 DEF Renames
  <2>2. T \in DOMAIN dir /\ T # to
    BY <1>12, PathKinds DEF Renames, Exists
  <2>3. CASE path # to
    <3>1. path # T
      BY <2>1, <2>2, RenamedArrives
    <3>2. QED
      BY <1>3, <2>1, <2>3, <3>1, RenamedSame
  <2>4. CASE path = to
    <3>1. FilesAt(dir', files', path) = FilesAt(dir, files, T)
      BY <2>1, <2>2, <2>4, RenamedArrives
    <3>2. OneAttempt(dir', files', path)
      BY <1>2, <2>2, <3>1 DEF OneAttempt
    <3>3. ASSUME to = Target(q) PROVE Complete(dir', files', path)
      <4>1. /\ NamesAt(dir, files, T) = Artifacts
            /\ \A f \in FilesAt(dir, files, T) : f.whole
        BY <2>1, <3>3, InMaking DEF Making, Written, WhollyWritten
      <4>2. QED
        BY <3>1, <4>1 DEF Complete, NamesAt
    <3>4. QED
      BY <2>1, <2>4, <3>2, <3>3, FirstNames
  <2>5. QED
    BY <2>3, <2>4
<1>13. QED
  BY <1>1, <1>5, <1>6, <1>7, <1>8, <1>9, <1>10, <1>11, <1>12 DEF Effect

-----------------------------------------------------------------------------
(* The invariant holds, and what follows from it. *)

\* A step that leaves the files alone, and a process that is where it was or
\* has nothing more to do.
LEMMA QuietStep ==
  ASSUME RunInv, setup' = setup, dir' = dir, files' = files, att' = att, NEW p \in Procs,
         \/ pc'[p] = pc[p] /\ listing'[p] = listing[p]
         \/ pc'[p] = "idle" /\ listing'[p] = None
         \/ pc'[p] = "killed" /\ listing'[p] = None /\ Running(p)
  PROVE  PrivateTo(p)' /\ LeftBy(p)' /\ Listed(p)'
<1>1. Temporary(p)' = Temporary(p) /\ Failed(p)' = Failed(p) /\ Attempt(p)' = Attempt(p)
  BY PathsStay DEF Attempt
<1>2. PrivateTo(p) /\ LeftBy(p) /\ Listed(p)
  BY DEF RunInv
<1>3. CASE pc'[p] = pc[p] /\ listing'[p] = listing[p]
  <2>1. Listed(p)'
    BY <1>2, <1>3, RemovedAtStays DEF Listed
  <2>2. PrivateTo(p)'
    BY <1>1, <1>2, <1>3 DEF PrivateTo
  <2>3. LeftBy(p)'
    BY <1>1, <1>2, <1>3 DEF LeftBy, Exists
  <2>4. QED
    BY <2>1, <2>2, <2>3
<1>4. CASE pc'[p] \in {"idle", "killed"} /\ listing'[p] = None
           /\ (pc'[p] = "killed" => Running(p))
  <2>1. PrivateTo(p)'
    BY <1>4, Nowhere, PrivateNext
  <2>2. LeftBy(p)'
    BY <1>1, <1>2, <1>4 DEF LeftBy, Exists, Running, Ended
  <2>3. QED
    BY <1>4, <2>1, <2>2 DEF Listed
<1>5. QED
  BY <1>3, <1>4

LEMMA NextInvariant ==
  ASSUME Apart, RunInv, [Next]_allVars
  PROVE  RunInv'
<1>1. RunTypes /\ Control
  BY TypesSplit DEF RunInv
<1>2. RunTypes'
  BY <1>1, NextTypes
<1>3. ASSUME setup' = setup, dir' = dir, files' = files PROVE DirectoriesOK'
  BY <1>3 DEF RunInv, DirectoriesOK
<1>4. CASE UNCHANGED runVars
  <2>1. \A p \in Procs : PrivateTo(p)' /\ LeftBy(p)' /\ Listed(p)'
    BY <1>4, QuietStep DEF runVars
  <2>2. QED
    BY <1>2, <1>3, <1>4, <2>1 DEF RunInv, runVars
<1>5. CASE Kills
  <2>1. PICK ps \in SUBSET Procs : Killed(ps)
    BY <1>5 DEF Kills
  <2>2. ASSUME NEW p \in Procs
        PROVE  \/ pc'[p] = pc[p] /\ listing'[p] = listing[p]
               \/ pc'[p] = "killed" /\ listing'[p] = None /\ Running(p)
    BY <1>1, <2>1 DEF Killed, Control, Running, Ended, Removals
  <2>3. \A p \in Procs : PrivateTo(p)' /\ LeftBy(p)' /\ Listed(p)'
    BY <1>5, <2>2, QuietStep DEF Kills
  <2>4. QED
    BY <1>2, <1>3, <1>5, <2>3 DEF RunInv, Kills
<1>6. CASE Rewinds
  <2>1. PICK ps \in SUBSET Procs :
          /\ \A p \in ps : ~Running(p)
          /\ pc' = [p \in Procs |-> IF p \in ps THEN "idle" ELSE pc[p]]
    BY <1>6 DEF Rewinds
  <2>2. ASSUME NEW p \in Procs
        PROVE  \/ pc'[p] = pc[p] /\ listing'[p] = listing[p]
               \/ pc'[p] = "idle" /\ listing'[p] = None
    BY <1>1, <1>6, <2>1 DEF Rewinds, Control, Running, Ended, Removals
  <2>3. \A p \in Procs : PrivateTo(p)' /\ LeftBy(p)' /\ Listed(p)'
    BY <1>6, <2>2, QuietStep DEF Rewinds
  <2>4. QED
    BY <1>2, <1>3, <1>6, <2>3 DEF RunInv, Rewinds
<1>7. ASSUME NEW q \in Procs, RunAction(q) PROVE RunInv'
  <2>1. \A p \in Procs : PrivateTo(p) /\ LeftBy(p) /\ Listed(p)
    BY DEF RunInv
  <2>2. DirectoriesOK'
    BY <1>1, <1>7, <2>1, DirectoriesStay DEF RunInv
  <2>3. \A p \in Procs : Listed(p)'
    BY <1>1, <1>7, <2>1, ListedStays
  <2>4. PrivateTo(q)' /\ LeftBy(q)'
    BY <1>1, <1>7, <2>1, OwnInvariant
  <2>5. \A p \in Procs : p # q => PrivateTo(p)' /\ LeftBy(p)'
    BY <1>1, <1>7, <2>1, OthersStay
  <2>6. QED
    BY <1>2, <2>2, <2>3, <2>4, <2>5 DEF RunInv
<1>8. QED
  BY <1>1, <1>4, <1>5, <1>6, <1>7, RunShape DEF RunTypes

LEMMA InitInvariant == ASSUME Init PROVE RunInv
<1>1. RunTypes
  BY InitTypes
<1>2. /\ DOMAIN dir = {}
      /\ \A p \in Procs : pc[p] = "idle" /\ listing[p] = None
  BY DEF Init, RunInit
<1>3. DirectoriesOK
  BY <1>2 DEF DirectoriesOK
<1>4. ASSUME NEW p \in Procs PROVE PrivateTo(p) /\ LeftBy(p) /\ Listed(p)
  BY <1>2, Nowhere DEF PrivateTo, LeftBy, Listed, Exists
<1>5. QED
  BY <1>1, <1>3, <1>4 DEF RunInv

THEOREM SweepInvariant == ASSUME Apart PROVE Spec => []RunInv
<1>1. Init => RunInv
  BY InitInvariant
<1>2. RunInv /\ [Next]_allVars => RunInv'
  BY NextInvariant
<1>3. QED
  BY <1>1, <1>2, PTL DEF Spec

LEMMA InIsFilesAt ==
  ASSUME NEW path PROVE In(path) = FilesAt(dir, files, path)
BY DEF In, FilesAt, Exists

\* Kills, exceptions and shared targets mix no two attempts in one directory,
\* and bring nothing unfinished into a target.
THEOREM RunsNeverMix == ASSUME Apart PROVE Spec => []DirectoriesNeverMix
<1>1. RunInv => DirectoriesNeverMix
  BY InIsFilesAt DEF RunInv, DirectoriesOK, DirectoriesNeverMix, OneAttempt, Complete
<1>2. QED
  BY <1>1, SweepInvariant, PTL

\* However often a run is killed and started again, when it raises the .failed
\* directory is this attempt's.
THEOREM FailuresLeaveEvidence == ASSUME Apart PROVE Spec => []FailedRunsLeaveEvidence
<1>1. RunInv => FailedRunsLeaveEvidence
  <2> SUFFICES ASSUME RunInv, NEW p \in Procs, pc[p] = "raised", p \notin setup.short
               PROVE  /\ {"manifest", "exception"} \subseteq {f.name : f \in In(Failed(p))}
                      /\ \A f \in In(Failed(p)) : f.by = Attempt(p)
    BY DEF FailedRunsLeaveEvidence
  <2>1. Leaves(dir, files, Failed(p), Attempt(p))
    BY DEF RunInv, LeftBy
  <2>2. QED
    BY <2>1, InIsFilesAt DEF Leaves, Evidence, NamesAt
<1>2. QED
  BY <1>1, SweepInvariant, PTL

-----------------------------------------------------------------------------
(* What a step may do to a target. *)

LEMMA WholeStays ==
  ASSUME NEW D, NEW F \in SUBSET Files, NEW a, NEW path, \A f \in FilesAt(D, F, path) : f.whole
  PROVE  FilesAt(D, Marked(F, a), path) = FilesAt(D, F, path)
<1> DEFINE m(f) == [f EXCEPT !.whole = @ \/ (f.name = "events" /\ f.by = a)]
<1>1. \A f \in F : m(f).dir = f.dir
  BY MarkedFile
<1>2. \A f \in FilesAt(D, F, path) : m(f) = f
  <2> SUFFICES ASSUME NEW f \in FilesAt(D, F, path) PROVE m(f) = f
    OBVIOUS
  <2>1. f \in Files /\ f.whole
    BY DEF FilesAt
  <2>2. f.whole = TRUE
    BY <2>1 DEF Files
  <2>3. QED
    BY <2>1, <2>2 DEF Files
<1>3. Marked(F, a) = {m(f) : f \in F}
  BY DEF Marked
<1> HIDE DEF m
<1>4. FilesAt(D, Marked(F, a), path) = {m(f) : f \in FilesAt(D, F, path)}
  BY <1>1, <1>3 DEF FilesAt
<1>5. QED
  BY <1>2, <1>4

\* A step that changes what a target holds is the unlinking by a process whose
\* own result is complete.
LEMMA TargetChange ==
  ASSUME RunInv, NEW q \in Procs, RunAction(q), NEW path \in DOMAIN dir, path[1] = "target",
         FilesAt(dir, files, path) # {},
         path \notin DOMAIN dir' \/ FilesAt(dir', files', path) # FilesAt(dir, files, path)
  PROVE  pc[q] = "clear" /\ path = Target(q)
<1>1. StoreOf(dir, files) /\ Effect(q) /\ PrivateTo(q) /\ Listed(q)
  BY TypesSplit, RunEffect DEF RunInv
<1>2. path # Temporary(q)
  BY FirstNames
<1>3. ~Stays
  BY DEF Stays
<1>4. ~Makes(q)
  <2>1. ASSUME NEW n, dir' = Made(dir, Temporary(q), n), files' = files PROVE FALSE
    <3>1. path \in DOMAIN dir' /\ dir'[path] = dir[path]
      BY <1>2, <2>1 DEF Made
    <3>2. QED
      BY <2>1, <3>1 DEF FilesAt
  <2>2. QED
    BY <2>1 DEF Makes
<1>5. ~Puts(q)
  <2>1. ASSUME NEW f, f.dir = dir[Temporary(q)], Temporary(q) \in DOMAIN dir, dir' = dir,
               files' = Put(files, f)
        PROVE  FALSE
    <3>1. f.dir # dir[path]
      BY <1>1, <1>2, <2>1 DEF StoreOf
    <3>2. QED
      BY <2>1, <3>1 DEF FilesAt, Put
  <2>2. QED
    BY <2>1 DEF Puts, Exists
<1>6. ~MakesAndPuts(q)
  BY <1>1, InMaking DEF MakesAndPuts
<1>7. ~Marks(q)
  <2>1. files \in SUBSET Files /\ \A f \in FilesAt(dir, files, path) : f.whole
    BY <1>1 DEF StoreOf, RunInv, DirectoriesOK, Complete
  <2>2. FilesAt(dir, Marked(files, Attempt(q)), path) = FilesAt(dir, files, path)
    BY <2>1, WholeStays
  <2>3. QED
    BY <2>2 DEF Marks
<1>8. ~Removes(q)
  <2>1. ASSUME NEW gone, In(gone) = {}, dir' = Removed(dir, gone), files' = files PROVE FALSE
    <3>1. path # gone
      BY <2>1, InIsFilesAt
    <3>2. path \in DOMAIN dir' /\ dir'[path] = dir[path]
      BY <2>1, <3>1 DEF Removed
    <3>3. QED
      BY <2>1, <3>2 DEF FilesAt
  <2>2. QED
    BY <2>1 DEF Removes
<1>9. ~Renames(q)
  <2>1. ASSUME NEW to, In(to) = {}, dir' = Renamed(dir, Temporary(q), to), files' = files
        PROVE  FALSE
    <3>1. path # to
      BY <2>1, InIsFilesAt
    <3>2. path \in DOMAIN dir' /\ dir'[path] = dir[path]
      BY <1>2, <2>1, <3>1 DEF Renamed
    <3>3. QED
      BY <2>1, <3>2 DEF FilesAt
  <2>2. QED
    BY <2>1 DEF Renames
<1>10. CASE Unlinks(q)
  <2>1. PICK name : files' = Replacing(listing[q].dir, name)
    BY <1>10 DEF Unlinks
  <2>2. dir' = dir /\ pc[q] \in Removals /\ listing[q] # None
    BY <1>10 DEF Unlinks
  <2>3. dir[path] = listing[q].dir
    BY <2>1, <2>2 DEF FilesAt, Replacing
  <2>4. path = RemovedAt(q, pc[q])
    BY <1>1, <2>2, <2>3 DEF Listed
  <2>5. QED
    BY <2>2, <2>4, FirstNames DEF RemovedAt, Removals
<1>11. QED
  BY <1>1, <1>3, <1>4, <1>5, <1>6, <1>7, <1>8, <1>9, <1>10 DEF Effect

LEMMA NextTarget ==
  ASSUME RunInv, [Next]_allVars, NEW path \in DOMAIN dir, path[1] = "target",
         FilesAt(dir, files, path) # {},
         path \notin DOMAIN dir' \/ FilesAt(dir', files', path) # FilesAt(dir, files, path)
  PROVE  \E p \in Procs : Target(p) = path /\ HoldsResult(Temporary(p), Attempt(p))
<1>1. \E q \in Procs : RunAction(q)
  <2>1. ~(dir' = dir /\ files' = files)
    OBVIOUS
  <2>2. RunTypes
    BY DEF RunInv
  <2>3. ~UNCHANGED runVars /\ ~Kills /\ ~Rewinds
    BY <2>1 DEF runVars, Kills, Rewinds
  <2>4. QED
    BY <2>2, <2>3, RunShape DEF RunTypes
<1>2. PICK q \in Procs : RunAction(q)
  BY <1>1
<1>3. pc[q] = "clear" /\ path = Target(q)
  BY <1>2, TargetChange
<1>4. /\ NamesAt(dir, files, Temporary(q)) = Artifacts
      /\ \A f \in FilesAt(dir, files, Temporary(q)) : f.by = <<q, att[q]>> /\ f.whole
  BY <1>3, InMaking DEF RunInv, Making, Written, WhollyWritten
<1>5. HoldsResult(Temporary(q), Attempt(q))
  BY <1>4, InIsFilesAt DEF HoldsResult, Attempt, NamesAt
<1>6. QED
  BY <1>3, <1>5

\* An old result goes only where a new one is complete beside it, also when
\* several runs have one target.
THEOREM ReplacedByWhole == ASSUME Apart PROVE Spec => ReplacedOnlyByWhole
<1>1. RunInv /\ [Next]_allVars =>
        [\A path \in DOMAIN dir :
           path[1] = "target" /\ In(path) # {} /\ (path \notin DOMAIN dir' \/ In(path)' # In(path))
             => \E p \in Procs : Target(p) = path /\ HoldsResult(Temporary(p), Attempt(p))]_runVars
  <2> SUFFICES ASSUME RunInv, [Next]_allVars, NEW path \in DOMAIN dir, path[1] = "target",
                      In(path) # {}, path \notin DOMAIN dir' \/ In(path)' # In(path)
               PROVE  \E p \in Procs : Target(p) = path /\ HoldsResult(Temporary(p), Attempt(p))
    OBVIOUS
  <2>1. In(path)' = FilesAt(dir', files', path)
    BY DEF In, FilesAt, Exists
  <2>2. In(path) = FilesAt(dir, files, path)
    BY InIsFilesAt
  <2>3. QED
    BY <2>1, <2>2, NextTarget
<1>2. QED
  BY <1>1, SweepInvariant, PTL DEF Spec, ReplacedOnlyByWhole

-----------------------------------------------------------------------------
(* What is in the target when a run returns. *)

LEMMA WhoReturns ==
  ASSUME RunInv, [Next]_allVars, NEW p \in Procs, pc[p] # "returned", pc'[p] = "returned"
  PROVE  Publish(p) /\ dir' = Renamed(dir, Temporary(p), Target(p))
<1>1. RunTypes /\ Control
  BY TypesSplit DEF RunInv
<1>2. ~UNCHANGED runVars /\ ~Kills /\ ~Rewinds
  BY <1>1 DEF runVars, Kills, Killed, Rewinds, Control
<1>3. PICK q \in Procs : RunAction(q)
  BY <1>1, <1>2, RunShape DEF RunTypes
<1>4. p = q
  BY <1>1, <1>3, OwnStep
<1>5. ~(Begin(p) \/ MakeTemporary(p) \/ OpenTrace(p) \/ Execute(p) \/ Check(p) \/ Keep(p) \/ Raise(p))
  BY <1>1, WentTo, RaiseToLabel DEF Begin, MakeTemporary, OpenTrace, Execute, Check, Keep,
     Replace, Raise
<1>6. ~Write(p)
  <2>1. \A label \in DOMAIN After : After[label] # "returned"
    BY DEF After
  <2>2. QED
    BY <1>1, <2>1, WentTo, RaiseToLabel DEF Write
<1>7. ~(List(p) \/ Unlink(p) \/ Rmdir(p))
  <2>1. \A label \in Removals : Removing[label] # "returned"
    BY DEF Removing, Removals
  <2>2. QED
    BY <1>1, <2>1, LabelsAre, WentTo, RaiseToLabel DEF List, Unlink, Rmdir, RmtreeRaises
<1>8. Publish(p)
  BY <1>3, <1>4, <1>5, <1>6, <1>7 DEF RunAction, Step
<1>9. dir' = Renamed(dir, Temporary(p), Target(p))
  BY <1>1, <1>8, WentTo, RaiseToLabel DEF Publish, Replace, Rename, Renamed
<1>10. QED
  BY <1>8, <1>9

LEMMA ReturnsWithResult ==
  ASSUME RunInv, [Next]_allVars, NEW p \in Procs, pc[p] # "returned", pc'[p] = "returned"
  PROVE  HoldsResult(Target(p), Attempt(p))'
<1> DEFINE T == Temporary(p)
<1>1. Publish(p) /\ dir' = Renamed(dir, T, Target(p))
  BY WhoReturns
<1>2. pc[p] = "move" /\ files' = files /\ setup' = setup /\ att' = att
  BY <1>1 DEF Publish, Replace, Unmoved
<1>3. /\ T \in DOMAIN dir /\ NamesAt(dir, files, T) = Artifacts
      /\ \A f \in FilesAt(dir, files, T) : f.by = <<p, att[p]>> /\ f.whole
  BY <1>2, InMaking DEF RunInv, Making, Written, WhollyWritten
<1>4. FilesAt(dir', files', Target(p)) = FilesAt(dir, files, T)
  BY <1>1, <1>2, <1>3, PathKinds, RenamedArrives
<1>5. Target(p)' = Target(p) /\ Attempt(p)' = <<p, att[p]>>
  BY <1>2, PathsStay DEF Attempt
<1>6. In(Target(p))' = FilesAt(dir', files', Target(p))
  BY <1>5 DEF In, FilesAt, Exists
<1>7. QED
  BY <1>3, <1>4, <1>5, <1>6 DEF HoldsResult, NamesAt

\* A run that returns has put its whole result into its directory, unless
\* another of the same configuration and seed runs at the same time.
THEOREM SuccessPersists == ASSUME Apart PROVE Spec => SuccessPersistsResult
<1>1. RunInv /\ [Next]_allVars =>
        [\A p \in Procs : pc[p] = "move" /\ pc'[p] = "returned"
           => HoldsResult(Target(p), Attempt(p))']_runVars
  BY ReturnsWithResult
<1>2. QED
  BY <1>1, SweepInvariant, PTL DEF Spec, SuccessPersistsResult

-----------------------------------------------------------------------------
(* Sweeps: every point has a directory of its own (expand_sweep numbers     *)
(* them), so what a point has put there stays.                              *)

OwnTargets ==
  \A s \in Setups :
    s.processes > 0 => \A p, q \in Procs : s.target[p] = s.target[q] => p = q

ResultsStay ==
  Sweeping => \A p \in Procs : pc[p] = "returned" => HoldsResult(Target(p), Attempt(p))

Begun == main # "submitting" => Sweeping

LEMMA SameResult ==
  ASSUME NEW path, NEW a, setup' = setup, Same(dir, files, dir', files', path),
         HoldsResult(path, a)
  PROVE  HoldsResult(path, a)'
<1>1. In(path) = FilesAt(dir, files, path) /\ In(path)' = FilesAt(dir', files', path)
  BY DEF In, FilesAt, Exists
<1>2. NamesAt(dir', files', path) = Artifacts
  BY <1>1 DEF HoldsResult, Same, NamesAt
<1>3. \A g \in FilesAt(dir', files', path) : g.by = a /\ g.whole
  BY <1>1 DEF HoldsResult, Same
<1>4. QED
  BY <1>1, <1>2, <1>3 DEF HoldsResult, NamesAt

LEMMA NextResults ==
  ASSUME OwnTargets, RunInv, [Next]_allVars, ResultsStay
  PROVE  ResultsStay'
<1>1. RunTypes /\ Control
  BY TypesSplit DEF RunInv
<1>2. setup' = setup
  BY <1>1, RunShape, OwnStep DEF RunTypes, Kills, Rewinds, runVars
<1>3. SUFFICES ASSUME Sweeping, NEW p \in Procs, pc'[p] = "returned"
               PROVE  HoldsResult(Target(p), Attempt(p))'
  BY <1>2 DEF ResultsStay, Sweeping
<1>4. CASE pc[p] # "returned"
  BY <1>3, <1>4, ReturnsWithResult
<1>5. CASE pc[p] = "returned"
  <2>1. HoldsResult(Target(p), Attempt(p))
    BY <1>3, <1>5 DEF ResultsStay
  <2>2. att'[p] = att[p] /\ Same(dir, files, dir', files', Target(p))
    <3>1. CASE dir' = dir /\ files' = files /\ att' = att
      BY <3>1, UntouchedSame
    <3>2. ASSUME NEW q \in Procs, RunAction(q)
          PROVE  att'[p] = att[p] /\ Same(dir, files, dir', files', Target(p))
      <4>1. p # q
        <5>1. SUFFICES ASSUME p = q PROVE FALSE
          OBVIOUS
        <5>2. pc[q] = "returned"
          BY <1>5, <5>1
        <5>3. QED
          BY <3>2, <5>2, LabelsAre DEF RunAction, Step, Begin, Raise, MakeTemporary, OpenTrace,
             Execute, Write, Check, List, Unlink, Rmdir, Publish, Keep, Removals
      <4>2. att'[p] = att[p]
        BY <1>1, <3>2, <4>1, OwnStep
      <4>3. setup.target[p] # setup.target[q]
        BY <1>1, <1>3, <4>1 DEF OwnTargets, Control, Sweeping
      <4>4. Target(p) \notin Own(q)
        BY <4>3, PathKinds DEF Own, Target
      <4>5. QED
        BY <1>1, <3>2, <4>2, <4>4, RunEffect, Elsewhere DEF RunInv
    <3>3. QED
      BY <1>1, <3>1, <3>2, RunShape DEF RunTypes, Kills, Rewinds, runVars
  <2>3. Target(p)' = Target(p) /\ Attempt(p)' = Attempt(p)
    BY <1>2, <2>2, PathsStay DEF Attempt
  <2>4. PICK path, a : path = Target(p) /\ a = Attempt(p)
    OBVIOUS
  <2>5. HoldsResult(path, a)'
    BY <1>2, <2>1, <2>2, <2>4, SameResult
  <2>6. QED
    BY <2>3, <2>4, <2>5 DEF HoldsResult
<1>6. QED
  BY <1>4, <1>5

LEMMA NextBegun ==
  ASSUME [Next]_allVars, RunTypes, Begun PROVE Begun'
<1>1. setup' = setup
  <2>1. Control
    BY TypesSplit
  <2>2. QED
    BY <2>1, RunShape, OwnStep DEF RunTypes, Kills, Rewinds, runVars
<1>2. Sweeping' <=> Sweeping
  BY <1>1 DEF Sweeping
<1>3. main' # "submitting" => main # "submitting" \/ Sweeping
  <2>1. CASE Submit \/ SweepKilled \/ SweepAgain
    BY <2>1 DEF Submit, SweepKilled, SweepAgain
  <2>2. CASE WriteSummary
    <3>1. main = "collecting"
      BY <2>2 DEF WriteSummary
    <3>2. QED
      BY <3>1
  <2>3. CASE PoolBreaks \/ Rest \/ UNCHANGED allVars
    BY <2>3 DEF PoolBreaks, Rest, allVars, sweepVars
  <2>4. ASSUME NEW p \in Procs,
               \/ StartJob(p) \/ RunStep(p) \/ Deliver(p) \/ Collect(p) \/ WorkerKilled(p)
               \/ ByHand(p) \/ (Raise(p) /\ UNCHANGED sweepVars)
        PROVE  main' = main
    BY <2>4 DEF StartJob, RunStep, Deliver, Collect, WorkerKilled, ByHand, sweepVars
  <2>5. QED
    BY <2>1, <2>2, <2>3, <2>4 DEF Next
<1>4. QED
  BY <1>2, <1>3 DEF Begun

LEMMA Repaired ==
  ASSUME RunInv, ResultsStay, Begun PROVE UndisturbedSweepRepairs
<1>1. SUFFICES ASSUME main = "written", \A p \in Procs : pc[p] = "returned" \/ p \in setup.short
               PROVE  /\ \A path \in DOMAIN dir : path[1] # "temporary"
                      /\ \A p \in Procs \ setup.short : HoldsResult(Target(p), Attempt(p))
  BY DEF UndisturbedSweepRepairs
<1>2. \A p \in Procs : Temporary(p) \notin DOMAIN dir
  BY <1>1 DEF RunInv, PrivateTo, Private, LeftBy, Exists
<1>3. \A path \in DOMAIN dir : path[1] # "temporary"
  <2>1. SUFFICES ASSUME NEW path \in DOMAIN dir PROVE path[1] # "temporary"
    OBVIOUS
  <2>2. path \in Paths
    BY DEF RunInv, RunTypes, Shape
  <2>3. PICK p \in Procs : path = Target(p) \/ path = Failed(p)
    BY <1>2, <2>2 DEF Paths
  <2>4. QED
    BY <2>3 DEF Target, Failed
<1>4. Sweeping
  BY <1>1 DEF Begun
<1>5. QED
  BY <1>1, <1>3, <1>4 DEF ResultsStay

\* A sweep in which every point that can run has returned leaves no temporary
\* directory and every point's own, whole result, whatever earlier sweeps that
\* were killed or raised had left.
THEOREM SweepRepairs == ASSUME Apart, OwnTargets PROVE Spec => []UndisturbedSweepRepairs
<1>1. Init => ResultsStay /\ Begun
  BY DEF Init, RunInit, SweepInit, ResultsStay, Begun
<1>2. RunInv /\ ResultsStay /\ Begun /\ [Next]_allVars => ResultsStay' /\ Begun'
  BY NextResults, NextBegun DEF RunInv
<1>3. RunInv /\ ResultsStay /\ Begun => UndisturbedSweepRepairs
  BY Repaired
<1>4. QED
  BY <1>1, <1>2, <1>3, SweepInvariant, PTL DEF Spec

-----------------------------------------------------------------------------
(* Sorting. *)

\* An order of the places that puts the numbers in increasing order.
Orders(p, keys) ==
  /\ p \in [DOMAIN keys -> DOMAIN keys] /\ IsInjective(p)
  /\ \A place \in DOMAIN keys : \E i \in DOMAIN keys : p[i] = place
  /\ \A i, j \in DOMAIN keys : i < j => keys[p[i]] < keys[p[j]]

\* The place of a number among n different ones is how many are not above it.
LEMMA DifferentNumbersAreOrdered ==
  ASSUME NEW n \in Nat, NEW keys \in [1 .. n -> Int], IsInjective(keys)
  PROVE  \E p : Orders(p, keys)
<1>1. PICK D : D = 1 .. n /\ D = DOMAIN keys /\ IsFiniteSet(D) /\ Cardinality(D) = n
  BY FS_Interval
<1>2. PICK upTo : upTo = [i \in D |-> {j \in D : keys[j] <= keys[i]}]
  OBVIOUS
<1>3. \A i \in D : /\ IsFiniteSet(upTo[i]) /\ Cardinality(upTo[i]) \in Nat
                   /\ Cardinality(upTo[i]) \in 1 .. n
  <2>1. SUFFICES ASSUME NEW i \in D
                 PROVE  /\ IsFiniteSet(upTo[i]) /\ Cardinality(upTo[i]) \in Nat
                        /\ Cardinality(upTo[i]) \in 1 .. n
    OBVIOUS
  <2>2. upTo[i] \in SUBSET D /\ i \in upTo[i]
    BY <1>1, <1>2
  <2>3. IsFiniteSet(upTo[i]) /\ Cardinality(upTo[i]) <= n
    BY <1>1, <2>2, FS_Subset
  <2>4. Cardinality(upTo[i]) \in Nat /\ Cardinality(upTo[i]) # 0
    BY <2>2, <2>3, FS_CardinalityType, FS_EmptySet
  <2>5. QED
    BY <2>3, <2>4
<1>4. ASSUME NEW i \in D, NEW j \in D, keys[i] < keys[j]
      PROVE  Cardinality(upTo[i]) < Cardinality(upTo[j])
  <2>1. upTo[i] \in SUBSET upTo[j] /\ j \in upTo[j] /\ j \notin upTo[i]
    BY <1>1, <1>2, <1>4
  <2>2. /\ Cardinality(upTo[i]) <= Cardinality(upTo[j])
        /\ Cardinality(upTo[j]) # Cardinality(upTo[i])
    BY <1>3, <2>1, FS_Subset
  <2>3. QED
    BY <1>3, <2>2
<1>5. PICK rank : rank = [i \in D |-> Cardinality(upTo[i])]
  OBVIOUS
<1>6. rank \in [D -> D]
  BY <1>1, <1>3, <1>5
<1>7. \A i, j \in D : keys[i] < keys[j] => rank[i] < rank[j]
  BY <1>4, <1>5
<1>8. \A i, j \in D : rank[i] = rank[j] => i = j
  <2>1. SUFFICES ASSUME NEW i \in D, NEW j \in D, rank[i] = rank[j]
                 PROVE  i = j
    OBVIOUS
  <2>2. ~(keys[i] < keys[j]) /\ ~(keys[j] < keys[i])
    BY <1>1, <1>6, <1>7, <2>1
  <2>3. keys[i] = keys[j]
    BY <1>1, <2>2
  <2>4. QED
    BY <1>1, <2>3 DEF IsInjective
<1>9. rank \in Injection(D, D)
  BY <1>6, <1>8 DEF Injection, IsInjective
<1>10. rank \in Surjection(D, D)
  BY <1>1, <1>9, FS_Injection
<1>11. \A r \in D : \E i \in D : rank[i] = r
  BY <1>10 DEF Surjection
<1>12. PICK p : p = [r \in D |-> CHOOSE i \in D : rank[i] = r]
  OBVIOUS
<1>13. \A r \in D : p[r] \in D /\ rank[p[r]] = r
  BY <1>11, <1>12
<1>14. p \in [D -> D] /\ IsInjective(p)
  BY <1>12, <1>13 DEF IsInjective
<1>15. \A place \in D : \E i \in D : p[i] = place
  <2>1. SUFFICES ASSUME NEW place \in D
                 PROVE  p[rank[place]] = place
    BY <1>6
  <2>2. QED
    BY <1>6, <1>8, <1>13
<1>16. ASSUME NEW i \in D, NEW j \in D, i < j
       PROVE  keys[p[i]] < keys[p[j]]
  <2>1. p[i] \in D /\ p[j] \in D /\ rank[p[i]] = i /\ rank[p[j]] = j
    BY <1>13
  <2>2. i \in Int /\ j \in Int
    BY <1>1
  <2>3. ~(keys[p[j]] < keys[p[i]])
    <3>1. keys[p[j]] < keys[p[i]] => rank[p[j]] < rank[p[i]]
      BY <1>7, <2>1
    <3>2. ~(j < i)
      BY <1>16, <2>2
    <3>3. QED
      BY <2>1, <3>1, <3>2
  <2>4. keys[p[i]] # keys[p[j]]
    <3>1. p[i] # p[j]
      BY <1>16, <2>1, <2>2
    <3>2. QED
      BY <1>1, <2>1, <3>1 DEF IsInjective
  <2>5. keys[p[i]] \in Int /\ keys[p[j]] \in Int
    BY <1>1, <2>1
  <2>6. QED
    BY <2>3, <2>4, <2>5
<1>17. QED
  BY <1>1, <1>14, <1>15, <1>16 DEF Orders

LEMMA SortingOrders ==
  ASSUME NEW n \in Nat, NEW keys \in [1 .. n -> Int], IsInjective(keys)
  PROVE  Orders(Sorting(keys), keys)
<1>1. PICK D : D = 1 .. n /\ D = DOMAIN keys /\ IsFiniteSet(D) /\ Cardinality(D) = n
  BY FS_Interval
<1>2. PICK p : Orders(p, keys)
  BY DifferentNumbersAreOrdered
<1>3. p \in [D -> D] /\ IsInjective(p) /\ \A i, j \in D : i < j => keys[p[i]] < keys[p[j]]
  BY <1>1, <1>2 DEF Orders
<1>4. PICK q : q = Sorting(keys)
  OBVIOUS
<1>5. /\ q \in [D -> D] /\ IsInjective(q)
      /\ \A i, j \in D :
           i < j => keys[q[i]] < keys[q[j]] \/ (keys[q[i]] = keys[q[j]] /\ q[i] < q[j])
  <2>1. \E f \in [D -> D] :
          /\ IsInjective(f)
          /\ \A i, j \in D :
               i < j => keys[f[i]] < keys[f[j]] \/ (keys[f[i]] = keys[f[j]] /\ f[i] < f[j])
    BY <1>3
  <2>2. q = CHOOSE f \in [D -> D] :
          /\ IsInjective(f)
          /\ \A i, j \in D :
               i < j => keys[f[i]] < keys[f[j]] \/ (keys[f[i]] = keys[f[j]] /\ f[i] < f[j])
    BY <1>1, <1>4 DEF Sorting
  <2>3. QED
    BY <2>1, <2>2
<1>6. q \in Injection(D, D)
  BY <1>5 DEF Injection
<1>7. \A place \in D : \E i \in D : q[i] = place
  BY <1>1, <1>6, FS_Injection DEF Surjection
<1>8. ASSUME NEW i \in D, NEW j \in D, i < j
      PROVE  keys[q[i]] < keys[q[j]]
  <2>1. q[i] \in D /\ q[j] \in D /\ q[i] # q[j]
    <3>1. i # j
      BY <1>1, <1>8
    <3>2. QED
      BY <1>5, <3>1 DEF IsInjective
  <2>2. keys[q[i]] # keys[q[j]]
    BY <1>1, <2>1 DEF IsInjective
  <2>3. QED
    BY <1>5, <1>8, <2>2
<1>9. QED
  BY <1>1, <1>4, <1>5, <1>7, <1>8 DEF Orders

-----------------------------------------------------------------------------
(* What run_sweep hears of its points. *)

Entry == [index : Procs, by : Procs \X Nat]
Points(rs) == [i \in DOMAIN rs |-> rs[i].index]
OnceEach(ps) == ps \in Seq(Procs) /\ IsInjective(ps) /\ Cardinality(Range(ps)) = Len(ps)

LEMMA Appended ==
  ASSUME NEW S, NEW s \in Seq(S), NEW e \in S, NEW t, t = Append(s, e)
  PROVE  /\ t \in Seq(S) /\ Len(t) = Len(s) + 1 /\ Len(s) \in Nat
         /\ DOMAIN s = 1 .. Len(s) /\ DOMAIN t = 1 .. Len(s) + 1
         /\ \A i \in DOMAIN s : t[i] = s[i]
         /\ t[Len(s) + 1] = e
OBVIOUS

LEMMA OneMorePoint ==
  ASSUME NEW ps, OnceEach(ps), NEW p \in Procs, p \notin Range(ps), NEW qs, qs = Append(ps, p)
  PROVE  OnceEach(qs) /\ Range(qs) = Range(ps) \union {p}
<1>1. ps \in Seq(Procs)
  BY DEF OnceEach
<1>2. PICK n \in Nat : n = Len(ps)
  BY <1>1
<1>3. /\ qs \in Seq(Procs) /\ Len(qs) = n + 1
      /\ DOMAIN ps = 1 .. n /\ DOMAIN qs = 1 .. n + 1
      /\ \A i \in DOMAIN ps : qs[i] = ps[i]
      /\ qs[n + 1] = p
  BY <1>1, <1>2, Appended
<1>4. \A i \in 1 .. n + 1 : i \in 1 .. n \/ i = n + 1
  OBVIOUS
<1>5. Range(qs) = Range(ps) \union {p}
  <2>1. n + 1 \in DOMAIN qs /\ \A i \in DOMAIN ps : i \in DOMAIN qs
    BY <1>3
  <2>2. QED
    BY <1>3, <1>4, <2>1 DEF Range
<1>6. \A i \in DOMAIN ps : ps[i] # p
  BY DEF Range
<1>7. IsInjective(qs)
  BY <1>3, <1>4, <1>6 DEF OnceEach, IsInjective
<1>8. IsFiniteSet(Range(ps))
  <2>1. Range(ps) \in SUBSET Procs
    BY <1>1, <1>3 DEF Range
  <2>2. QED
    BY <2>1, ArtifactsAssumption, FS_Subset
<1>9. Cardinality(Range(qs)) = n + 1
  BY <1>2, <1>5, <1>8, FS_AddElement, ZenonT(60) DEF OnceEach
<1>10. QED
  BY <1>3, <1>5, <1>7, <1>9 DEF OnceEach

LEMMA EntryFields == \A r \in Entry : r.index \in Procs
BY DEF Entry

LongerBy(rs, ts, r) ==
  /\ ts \in Seq(Entry) /\ Points(ts) = Append(Points(rs), r.index)
  /\ \A i \in DOMAIN ts : ts[i] = r \/ \E j \in DOMAIN rs : ts[i] = rs[j]

LEMMA OneMoreEntry ==
  ASSUME NEW rs \in Seq(Entry), NEW r \in Entry, NEW ts, ts = Append(rs, r)
  PROVE  LongerBy(rs, ts, r)
<1>1. PICK n \in Nat : n = Len(rs)
  OBVIOUS
<1>2. /\ ts \in Seq(Entry)
      /\ DOMAIN rs = 1 .. n /\ DOMAIN ts = 1 .. n + 1
      /\ \A i \in DOMAIN rs : ts[i] = rs[i]
      /\ ts[n + 1] = r
  BY <1>1, Appended
<1>3. \A i \in 1 .. n + 1 : i \in 1 .. n \/ i = n + 1
  OBVIOUS
<1>4. PICK ps : ps = Points(rs)
  OBVIOUS
<1>5. ps \in Seq(Procs) /\ Len(ps) = n /\ r.index \in Procs
  <2>1. ps = [i \in 1 .. n |-> rs[i].index]
    BY <1>2, <1>4 DEF Points
  <2>2. \A i \in 1 .. n : rs[i].index \in Procs
    <3>1. \A i \in 1 .. n : rs[i] \in Entry
      BY <1>2
    <3>2. QED
      BY <3>1, EntryFields
  <2>3. r.index \in Procs
    BY EntryFields
  <2>4. QED
    BY <2>1, <2>2, <2>3
<1>6. PICK qs : qs = Append(ps, r.index)
  OBVIOUS
<1>7. /\ qs \in Seq(Procs)
      /\ DOMAIN ps = 1 .. n /\ DOMAIN qs = 1 .. n + 1
      /\ \A i \in DOMAIN ps : qs[i] = ps[i]
      /\ qs[n + 1] = r.index
  BY <1>5, <1>6, Appended
<1>8. \A i \in 1 .. n + 1 : Points(ts)[i] = qs[i]
  BY <1>2, <1>3, <1>4, <1>7 DEF Points
<1>9. Points(ts) = qs
  <2>1. DOMAIN Points(ts) = 1 .. n + 1 /\ Points(ts) = [i \in 1 .. n + 1 |-> ts[i].index]
    BY <1>2 DEF Points
  <2>2. qs = [i \in 1 .. n + 1 |-> qs[i]]
    BY <1>7
  <2>3. QED
    BY <1>8, <2>1, <2>2
<1>10. \A i \in DOMAIN ts : ts[i] = r \/ \E j \in DOMAIN rs : ts[i] = rs[j]
  BY <1>2, <1>3
<1>11. QED
  BY <1>2, <1>4, <1>6, <1>9, <1>10 DEF LongerBy

LEMMA NothingHeard ==
  OnceEach(Points(<<>>)) /\ OnceEach(<<>>) /\ Range(Points(<<>>)) = {} /\ Range(<<>>) = {}
<1>1. DOMAIN <<>> = {} /\ <<>> \in Seq(Procs) /\ Len(<<>>) = 0
  OBVIOUS
<1>2. Points(<<>>) = <<>>
  BY <1>1 DEF Points
<1>3. Range(<<>>) = {} /\ IsInjective(<<>>)
  BY <1>1 DEF Range, IsInjective
<1>4. QED
  BY <1>1, <1>2, <1>3, FS_EmptySet DEF OnceEach

\* Sorting by the points changes the order and nothing else.
Rearranged(ts, rs, ps) ==
  /\ DOMAIN ts = DOMAIN rs
  /\ \A i \in DOMAIN ts : \E j \in DOMAIN rs : ts[i] = rs[j]
  /\ \A j \in DOMAIN rs : \E i \in DOMAIN ts : ts[i] = rs[j]
  /\ \A i, j \in DOMAIN ts :
       i < j => \E k, l \in DOMAIN rs : ts[i] = rs[k] /\ ts[j] = rs[l] /\ ps[k] < ps[l]

LEMMA PointsAreNumbers == Procs \subseteq Int
<1>1. Cardinality(Procs) \in Nat
  BY ArtifactsAssumption, FS_CardinalityType
<1>2. PICK n : n = Cardinality(Procs)
  OBVIOUS
<1>3. Procs = 0 .. n - 1 /\ n \in Nat
  BY <1>1, <1>2, SweepAssumption
<1>4. QED
  BY <1>3

LEMMA SortedIsRearranged ==
  ASSUME NEW ps, OnceEach(ps), NEW rs, DOMAIN rs = DOMAIN ps
  PROVE  Rearranged(Sorted(rs, ps), rs, ps)
<1>1. ps \in Seq(Procs) /\ IsInjective(ps)
  BY DEF OnceEach
<1>2. PICK n \in Nat : n = Len(ps)
  BY <1>1
<1>3. ps \in [1 .. n -> Int]
  <2>1. ps = [i \in 1 .. n |-> ps[i]]
    BY <1>1, <1>2
  <2>2. \A i \in 1 .. n : ps[i] \in Procs
    BY <1>1, <1>2
  <2>3. QED
    BY <2>1, <2>2, PointsAreNumbers
<1>4. PICK p : p = Sorting(ps)
  OBVIOUS
<1>5. Orders(p, ps)
  BY <1>1, <1>3, <1>4, SortingOrders
<1>6. PICK ts : ts = Sorted(rs, ps)
  OBVIOUS
<1>7. ts = [i \in DOMAIN rs |-> rs[p[i]]]
  BY <1>4, <1>6 DEF Sorted
<1>8. Rearranged(ts, rs, ps)
  BY <1>5, <1>7 DEF Orders, Rearranged
<1>9. QED
  BY <1>6, <1>8

-----------------------------------------------------------------------------
(* What run_sweep has heard of its points. *)

Ending == {"returned", "raised"}

\* The run of a point that ended is not begun again.
EndsStay ==
  /\ setup' = setup
  /\ \A p \in Procs : pc[p] \in Ending => pc'[p] = pc[p] /\ att'[p] = att[p]

LEMMA NoStepAfterEnd ==
  ASSUME NEW p \in Procs, pc[p] \in Ending PROVE ~RunAction(p)
BY LabelsAre DEF Ending, RunAction, Step, Begin, Raise, MakeTemporary, OpenTrace, Execute, Write,
   Check, List, Unlink, Rmdir, Publish, Keep, Removals, After

LEMMA NextEndsStay ==
  ASSUME RunTypes, [Next]_allVars, Sweeping, ~SweepAgain PROVE EndsStay
<1>1. Control /\ setup' = setup
  BY TypesSplit, RunShape, OwnStep DEF RunTypes, Kills, Rewinds, runVars
<1>2. SUFFICES ASSUME NEW p \in Procs, pc[p] \in Ending PROVE pc'[p] = pc[p] /\ att'[p] = att[p]
  BY <1>1 DEF EndsStay
<1>3. ASSUME NEW ps \in SUBSET Procs, Killed(ps) PROVE pc'[p] = pc[p]
  BY <1>2, <1>3 DEF Killed, Running, Ended, Ending
<1>4. ASSUME NEW q \in Procs, RunAction(q) PROVE pc'[p] = pc[p] /\ att'[p] = att[p]
  <2>1. p # q
    BY <1>2, <1>4, NoStepAfterEnd
  <2>2. QED
    BY <1>1, <1>4, <2>1, OwnStep
<1>5. CASE PoolBreaks
  BY <1>3, <1>5 DEF PoolBreaks
<1>6. CASE SweepKilled
  BY <1>3, <1>6 DEF SweepKilled
<1>7. ASSUME NEW q \in Procs, WorkerKilled(q) PROVE pc'[p] = pc[p] /\ att'[p] = att[p]
  BY <1>3, <1>7 DEF WorkerKilled, Kill
<1>8. ASSUME NEW q \in Procs,
             \/ StartJob(q) \/ RunStep(q) \/ Deliver(q) \/ Collect(q)
             \/ (Raise(q) /\ UNCHANGED sweepVars)
      PROVE  pc'[p] = pc[p] /\ att'[p] = att[p]
  BY <1>4, <1>8 DEF StartJob, RunStep, Deliver, Collect, RunAction, runVars
<1>9. CASE Submit \/ WriteSummary \/ Rest \/ UNCHANGED allVars
  BY <1>9 DEF Submit, WriteSummary, Rest, allVars, runVars
<1>10. \A q \in Procs : ~ByHand(q)
  BY DEF ByHand
<1>11. QED
  BY <1>5, <1>6, <1>7, <1>8, <1>9, <1>10 DEF Next

\* What a future says of its point.
FuturesOK ==
  /\ future \in [Procs -> {"none", "pending", "done", "failed", "broken"}]
  /\ \A p \in Procs :
       /\ future[p] # "none" => Sweeping
       /\ future[p] = "done" => pc[p] = "returned"
       /\ future[p] = "failed" => pc[p] = "raised"
       /\ future[p] = "broken" => broken

\* What has been collected, of whom and how often.
OnceCollected ==
  /\ results \in Seq(Entry) /\ OnceEach(Points(results)) /\ OnceEach(failures)
  /\ Range(Points(results)) \intersect Range(failures) = {}
  /\ \A p \in Range(Points(results)) \union Range(failures) :
       future[p] = "none" /\ main # "submitting"

TrueEntry(r) == pc[r.index] = "returned" /\ r.by = Attempt(r.index)
TrueFailure(p) == pc[p] = "raised" \/ broken

TrulyCollected ==
  /\ \A i \in DOMAIN results : TrueEntry(results[i])
  /\ \A p \in Range(failures) : TrueFailure(p)

InOrder(rs, fs) ==
  /\ \A i, j \in DOMAIN rs : i < j => rs[i].index < rs[j].index
  /\ \A i, j \in DOMAIN fs : i < j => fs[i] < fs[j]

AllPoints(rs, fs) ==
  /\ {rs[i].index : i \in DOMAIN rs} \intersect {fs[i] : i \in DOMAIN fs} = {}
  /\ {rs[i].index : i \in DOMAIN rs} \union {fs[i] : i \in DOMAIN fs} = Procs

FullList(rs, fs) == InOrder(rs, fs) /\ AllPoints(rs, fs)

Told(rs, fs) ==
  /\ \A i \in DOMAIN rs : TrueEntry(rs[i])
  /\ \A i \in DOMAIN fs : TrueFailure(fs[i])

Summed ==
  main = "written" => /\ FullList(summary.results, summary.failures)
                      /\ Told(summary.results, summary.failures)

HeardInv == Begun /\ FuturesOK /\ OnceCollected /\ TrulyCollected /\ Summed

LEMMA SweepShape ==
  ASSUME [Next]_allVars
  PROVE  \/ SweepAgain \/ Submit \/ PoolBreaks \/ WriteSummary \/ SweepKilled
         \/ (\E p \in Procs : Deliver(p) \/ Collect(p)) \/ UNCHANGED sweepVars
BY DEF Next, StartJob, RunStep, WorkerKilled, ByHand, Rest, allVars

LEMMA SweptAgain ==
  ASSUME Begun, SweepAgain, setup' = setup
  PROVE  Begun' /\ FuturesOK' /\ OnceCollected' /\ TrulyCollected' /\ Summed'
<1>1. /\ main' = "submitting" /\ results' = <<>> /\ failures' = <<>>
      /\ future' = [p \in Procs |-> "none"]
  BY DEF SweepAgain
<1>2. Begun' /\ FuturesOK' /\ Summed'
  BY <1>1 DEF Begun, FuturesOK, Summed
<1>3. OnceEach(Points(results'))  /\ OnceEach(failures') /\ Range(Points(results')) = {}
      /\ Range(failures') = {} /\ results' \in Seq(Entry) /\ DOMAIN results' = {}
  BY <1>1, NothingHeard
<1>4. OnceCollected'
  BY <1>3 DEF OnceCollected, OnceEach, Points
<1>5. TrulyCollected'
  BY <1>3 DEF TrulyCollected
<1>6. QED
  BY <1>2, <1>4, <1>5

LEMMA NextFutures ==
  ASSUME RunTypes, FuturesOK, EndsStay, [Next]_allVars, ~SweepAgain
  PROVE  FuturesOK'
<1>1. Sweeping' = Sweeping
  BY DEF EndsStay, Sweeping
<1>2. \A p \in Procs : pc[p] \in {"returned", "raised"} => pc'[p] = pc[p]
  BY DEF EndsStay, Ending
<1>3. CASE Submit
  <2>1. /\ broken' = broken /\ Sweeping
        /\ future' = future \/ future' = [future EXCEPT ![submitted] = "pending"]
    BY <1>3 DEF Submit
  <2>2. \A p \in Procs : future'[p] = future[p] \/ future'[p] = "pending"
    BY <2>1 DEF FuturesOK
  <2>3. future' \in [Procs -> {"none", "pending", "done", "failed", "broken"}]
    BY <2>1 DEF FuturesOK
  <2>4. QED
    BY <1>1, <1>2, <2>1, <2>2, <2>3 DEF FuturesOK
<1>4. ASSUME NEW p \in Procs, Deliver(p) PROVE FuturesOK'
  <2>1. /\ Sweeping /\ broken' = broken
        /\ \/ pc[p] = "returned" /\ future' = [future EXCEPT ![p] = "done"]
           \/ pc[p] = "raised" /\ future' = [future EXCEPT ![p] = "failed"]
    BY <1>4 DEF Deliver
  <2>2. QED
    BY <1>1, <1>2, <2>1 DEF FuturesOK
<1>5. ASSUME NEW p \in Procs, Collect(p) PROVE FuturesOK'
  <2>1. broken' = broken /\ future' = [future EXCEPT ![p] = "none"]
    BY <1>5 DEF Collect
  <2>2. QED
    BY <1>1, <1>2, <2>1 DEF FuturesOK
<1>6. CASE PoolBreaks
  <2>1. /\ broken' = TRUE
        /\ future' = [p \in Procs |-> IF future[p] = "pending" THEN "broken" ELSE future[p]]
    BY <1>6 DEF PoolBreaks, Unfinished
  <2>2. QED
    BY <1>1, <1>2, <2>1 DEF FuturesOK
<1>7. CASE WriteSummary \/ SweepKilled \/ UNCHANGED sweepVars
  <2>1. broken' = broken /\ future' = future
    BY <1>7 DEF WriteSummary, SweepKilled, sweepVars
  <2>2. QED
    BY <1>1, <1>2, <2>1 DEF FuturesOK
<1>8. QED
  BY SweepShape, <1>3, <1>4, <1>5, <1>6, <1>7

LEMMA EntriesStayTrue ==
  ASSUME EndsStay, NEW r \in Entry, TrueEntry(r) PROVE TrueEntry(r)'
BY EntryFields DEF EndsStay, Ending, TrueEntry, Attempt

LEMMA FailuresStayTrue ==
  ASSUME EndsStay, broken => broken', NEW p \in Procs, TrueFailure(p) PROVE TrueFailure(p)'
BY DEF EndsStay, Ending, TrueFailure

\* The steps that collect nothing.
LEMMA NothingCollected ==
  ASSUME OnceCollected, TrulyCollected, EndsStay, broken => broken',
         results' = results, failures' = failures,
         main # "submitting" => main' # "submitting",
         \A p \in Procs : future[p] = "none" /\ main # "submitting" => future'[p] = "none"
  PROVE  OnceCollected' /\ TrulyCollected'
<1>1. /\ \A i \in DOMAIN results : results[i] \in Entry
      /\ \A p \in Range(failures) : p \in Procs
      /\ \A p \in Range(Points(results)) : p \in Procs
  <2>1. results \in Seq(Entry) /\ failures \in Seq(Procs) /\ Points(results) \in Seq(Procs)
    BY DEF OnceCollected, OnceEach
  <2>2. \A i \in DOMAIN results : results[i] \in Entry
    BY <2>1
  <2>3. \A s \in Seq(Procs) : \A i \in DOMAIN s : s[i] \in Procs
    OBVIOUS
  <2>4. QED
    BY <2>1, <2>2, <2>3 DEF Range
<1>2. OnceCollected'
  BY <1>1 DEF OnceCollected, Points
<1>3. \A i \in DOMAIN results : TrueEntry(results[i])'
  <2>1. SUFFICES ASSUME NEW i \in DOMAIN results PROVE TrueEntry(results[i])'
    OBVIOUS
  <2>2. results[i] \in Entry /\ TrueEntry(results[i])
    BY <1>1 DEF TrulyCollected
  <2>3. PICK r \in Entry : r = results[i]
    BY <2>2
  <2>4. TrueEntry(r)'
    BY <2>2, <2>3, EntriesStayTrue
  <2>5. QED
    BY <2>3, <2>4 DEF TrueEntry
<1>4. TrulyCollected'
  BY <1>1, <1>3, FailuresStayTrue DEF TrulyCollected
<1>5. QED
  BY <1>2, <1>4

LEMMA CollectsOnce ==
  ASSUME RunTypes, FuturesOK, OnceCollected, TrulyCollected, EndsStay,
         NEW p \in Procs, Collect(p)
  PROVE  OnceCollected' /\ TrulyCollected'
<1>1. /\ main = "collecting" /\ main' = "collecting" /\ broken' = broken
      /\ pc' = pc /\ att' = att /\ future[p] # "none"
      /\ future' = [future EXCEPT ![p] = "none"]
  BY DEF Collect, runVars
<1>2. /\ \A q \in Procs : future[q] = "none" => future'[q] = "none"
      /\ future'[p] = "none"
  BY <1>1 DEF FuturesOK
<1>3. PICK ps, fs : ps = Points(results) /\ fs = failures
  OBVIOUS
<1>4. /\ ps \in Seq(Procs) /\ fs \in Seq(Procs) /\ OnceEach(ps) /\ OnceEach(fs)
      /\ Range(ps) \intersect Range(fs) = {}
      /\ \A q \in Range(ps) \union Range(fs) : future[q] = "none"
  BY <1>3 DEF OnceCollected, OnceEach
<1>5. p \notin Range(ps) /\ p \notin Range(fs)
  BY <1>1, <1>4
<1>6. \A q \in Range(ps) \union Range(fs) : q \in Procs
  <2>1. \A s \in Seq(Procs) : \A i \in DOMAIN s : s[i] \in Procs
    OBVIOUS
  <2>2. QED
    BY <1>4, <2>1 DEF Range
<1>7. CASE future[p] = "done"
  <2>1. PICK e : e = [index |-> p, by |-> Attempt(p)]
    OBVIOUS
  <2>2. pc[p] = "returned" /\ Attempt(p) \in Procs \X Nat
    <3>1. att[p] \in Nat
      BY TypesSplit DEF Control
    <3>2. QED
      BY <1>7, <3>1 DEF FuturesOK, Attempt
  <2>3. e \in Entry /\ e.index = p /\ TrueEntry(e)
    BY <2>1, <2>2 DEF Entry, TrueEntry
  <2>4. results \in Seq(Entry) /\ results' = Append(results, e) /\ failures' = failures
    BY <1>7, <2>1 DEF Collect, OnceCollected
  <2>5. PICK rs, ts : rs = results /\ ts = results'
    OBVIOUS
  <2>6. /\ ts \in Seq(Entry) /\ Points(ts) = Append(ps, p)
        /\ \A i \in DOMAIN ts : ts[i] = e \/ \E j \in DOMAIN rs : ts[i] = rs[j]
    <3>1. rs \in Seq(Entry) /\ ts = Append(rs, e) /\ ps = Points(rs)
      BY <1>3, <2>4, <2>5
    <3>2. LongerBy(rs, ts, e)
      BY <2>3, <3>1, OneMoreEntry
    <3>3. QED
      BY <2>3, <3>1, <3>2 DEF LongerBy
  <2>7. OnceEach(Points(ts)) /\ Range(Points(ts)) = Range(ps) \union {p}
    BY <1>4, <1>5, <2>6, OneMorePoint
  <2>8. OnceCollected'
    <3>1. Points(results)' = Points(ts)
      BY <2>5 DEF Points
    <3>2. /\ results' \in Seq(Entry) /\ OnceEach(Points(results)') /\ OnceEach(failures')
          /\ Range(Points(results)') \intersect Range(failures') = {}
      BY <1>3, <1>4, <1>5, <2>4, <2>5, <2>6, <2>7, <3>1
    <3>3. \A q \in Range(Points(results)') \union Range(failures') :
            future'[q] = "none" /\ main' # "submitting"
      BY <1>1, <1>2, <1>3, <1>4, <1>6, <2>4, <2>7, <3>1
    <3>4. QED
      BY <3>2, <3>3 DEF OnceCollected, OnceEach
  <2>9. \A i \in DOMAIN ts : TrueEntry(ts[i])
    BY <2>3, <2>5, <2>6 DEF TrulyCollected
  <2>10. TrulyCollected'
    BY <1>1, <2>4, <2>5, <2>9 DEF TrulyCollected, TrueEntry, TrueFailure, Attempt
  <2>11. QED
    BY <2>8, <2>10
<1>8. CASE future[p] # "done"
  <2>1. results' = results /\ failures' = Append(fs, p)
    BY <1>3, <1>8 DEF Collect
  <2>2. TrueFailure(p)
    BY <1>1, <1>8 DEF FuturesOK, TrueFailure, Collect
  <2>3. PICK gs : gs = failures'
    OBVIOUS
  <2>4. OnceEach(gs) /\ Range(gs) = Range(fs) \union {p}
    BY <1>4, <1>5, <2>1, <2>3, OneMorePoint
  <2>5. OnceCollected'
    <3>1. Points(results)' = ps
      BY <1>3, <2>1 DEF Points
    <3>2. /\ results' \in Seq(Entry) /\ OnceEach(Points(results)') /\ OnceEach(failures')
          /\ Range(Points(results)') \intersect Range(failures') = {}
      BY <1>4, <1>5, <2>1, <2>3, <2>4, <3>1 DEF OnceCollected
    <3>3. \A q \in Range(Points(results)') \union Range(failures') :
            future'[q] = "none" /\ main' # "submitting"
      BY <1>1, <1>2, <1>4, <1>6, <2>3, <2>4, <3>1
    <3>4. QED
      BY <3>2, <3>3 DEF OnceCollected, OnceEach
  <2>6. \A q \in Range(gs) : TrueFailure(q)
    BY <1>3, <2>2, <2>4 DEF TrulyCollected
  <2>7. TrulyCollected'
    BY <1>1, <2>1, <2>3, <2>6 DEF TrulyCollected, TrueEntry, TrueFailure, Attempt
  <2>8. QED
    BY <2>5, <2>7
<1>9. QED
  BY <1>7, <1>8

LEMMA NextCollected ==
  ASSUME RunTypes, FuturesOK, OnceCollected, TrulyCollected, EndsStay,
         [Next]_allVars, ~SweepAgain
  PROVE  OnceCollected' /\ TrulyCollected'
<1>1. CASE Submit
  <2>1. /\ results' = results /\ failures' = failures /\ broken' = broken
        /\ main = "submitting"
    BY <1>1 DEF Submit
  <2>2. QED
    BY <2>1, NothingCollected
<1>2. ASSUME NEW p \in Procs, Deliver(p) PROVE OnceCollected' /\ TrulyCollected'
  <2>1. /\ results' = results /\ failures' = failures /\ broken' = broken /\ main' = main
        /\ future[p] = "pending"
        /\ future' = [future EXCEPT ![p] = "done"] \/ future' = [future EXCEPT ![p] = "failed"]
    BY <1>2 DEF Deliver, Unfinished
  <2>2. \A q \in Procs : future[q] = "none" => future'[q] = "none"
    BY <2>1 DEF FuturesOK
  <2>3. QED
    BY <2>1, <2>2, NothingCollected
<1>3. CASE PoolBreaks
  <2>1. /\ results' = results /\ failures' = failures /\ broken' = TRUE /\ main' = main
        /\ future' = [p \in Procs |-> IF future[p] = "pending" THEN "broken" ELSE future[p]]
    BY <1>3 DEF PoolBreaks, Unfinished
  <2>2. \A q \in Procs : future[q] = "none" => future'[q] = "none"
    BY <2>1
  <2>3. QED
    BY <2>1, <2>2, NothingCollected
<1>4. CASE WriteSummary
  <2>1. results' = <<>> /\ failures' = <<>>
    BY <1>4 DEF WriteSummary
  <2>2. /\ OnceEach(Points(results')) /\ OnceEach(failures') /\ Range(Points(results')) = {}
        /\ Range(failures') = {} /\ results' \in Seq(Entry) /\ DOMAIN results' = {}
    BY <2>1, NothingHeard
  <2>3. QED
    BY <2>2 DEF OnceCollected, TrulyCollected, OnceEach, Points
<1>5. CASE SweepKilled
  <2>1. /\ results' = results /\ failures' = failures /\ broken' = broken
        /\ main' = "killed" /\ future' = future
    BY <1>5 DEF SweepKilled
  <2>2. QED
    BY <2>1, NothingCollected
<1>6. CASE UNCHANGED sweepVars
  <2>1. /\ results' = results /\ failures' = failures /\ broken' = broken
        /\ main' = main /\ future' = future
    BY <1>6 DEF sweepVars
  <2>2. QED
    BY <2>1, NothingCollected
<1>7. QED
  BY SweepShape, CollectsOnce, <1>1, <1>2, <1>3, <1>4, <1>5, <1>6

\* Every point has been collected when as many have been as there are.
LEMMA AllCollected ==
  ASSUME NEW ps, OnceEach(ps), NEW fs, OnceEach(fs), Range(ps) \intersect Range(fs) = {},
         Len(ps) + Len(fs) = Cardinality(Procs)
  PROVE  Range(ps) \union Range(fs) = Procs
<1>1. \A s \in Seq(Procs) : Range(s) \subseteq Procs
  <2>1. \A s \in Seq(Procs) : \A i \in DOMAIN s : s[i] \in Procs
    OBVIOUS
  <2>2. QED
    BY <2>1 DEF Range
<1>2. PICK P, F : P = Range(ps) /\ F = Range(fs)
  OBVIOUS
<1>3. /\ P \subseteq Procs /\ F \subseteq Procs /\ P \intersect F = {}
      /\ Cardinality(P) + Cardinality(F) = Cardinality(Procs)
  BY <1>1, <1>2 DEF OnceEach
<1>4. IsFiniteSet(P) /\ IsFiniteSet(F)
  BY <1>3, ArtifactsAssumption, FS_Subset
<1>5. Cardinality(P \union F) = Cardinality(P) + Cardinality(F) - Cardinality(P \intersect F)
  BY <1>4, FS_Union
<1>6. Cardinality(P \intersect F) = 0
  BY <1>3, FS_EmptySet
<1>7. Cardinality(P) \in Nat /\ Cardinality(F) \in Nat
  BY <1>4, FS_CardinalityType
<1>8. Cardinality(P \union F) = Cardinality(Procs)
  BY <1>3, <1>5, <1>6, <1>7
<1>9. P \union F = Procs
  BY <1>3, <1>8, ArtifactsAssumption, FS_Subset
<1>10. QED
  BY <1>2, <1>9

LEMMA SummaryList ==
  ASSUME NEW rs \in Seq(Entry), NEW fs, OnceEach(Points(rs)), OnceEach(fs),
         Range(Points(rs)) \intersect Range(fs) = {},
         Len(rs) + Len(fs) = Cardinality(Procs),
         NEW R, R = Sorted(rs, Points(rs)), NEW F, F = Sorted(fs, fs)
  PROVE  /\ FullList(R, F)
         /\ \A i \in DOMAIN R : \E j \in DOMAIN rs : R[i] = rs[j]
         /\ \A i \in DOMAIN F : F[i] \in Range(fs)
<1>1. PICK ps : ps = Points(rs)
  OBVIOUS
<1>2. DOMAIN ps = DOMAIN rs /\ \A i \in DOMAIN rs : ps[i] = rs[i].index
  BY <1>1 DEF Points
<1>3. Rearranged(R, rs, ps) /\ Rearranged(F, fs, fs)
  BY <1>1, <1>2, SortedIsRearranged
<1>4. InOrder(R, F)
  <2>1. ASSUME NEW i \in DOMAIN R, NEW j \in DOMAIN R, i < j PROVE R[i].index < R[j].index
    <3>1. PICK k \in DOMAIN rs, l \in DOMAIN rs :
            R[i] = rs[k] /\ R[j] = rs[l] /\ ps[k] < ps[l]
      BY <1>3, <2>1 DEF Rearranged
    <3>2. ps[k] = R[i].index /\ ps[l] = R[j].index
      BY <1>2, <3>1
    <3>3. QED
      BY <3>1, <3>2
  <2>2. ASSUME NEW i \in DOMAIN F, NEW j \in DOMAIN F, i < j PROVE F[i] < F[j]
    <3>1. PICK k \in DOMAIN fs, l \in DOMAIN fs :
            F[i] = fs[k] /\ F[j] = fs[l] /\ fs[k] < fs[l]
      BY <1>3, <2>2 DEF Rearranged
    <3>2. QED
      BY <3>1
  <2>3. QED
    BY <2>1, <2>2 DEF InOrder
<1>5. {R[i].index : i \in DOMAIN R} = Range(ps)
  <2>1. ASSUME NEW i \in DOMAIN R PROVE \E k \in DOMAIN ps : R[i].index = ps[k]
    <3>1. PICK k \in DOMAIN rs : R[i] = rs[k]
      BY <1>3 DEF Rearranged
    <3>2. k \in DOMAIN ps /\ R[i].index = ps[k]
      BY <1>2, <3>1
    <3>3. QED
      BY <3>2
  <2>2. ASSUME NEW k \in DOMAIN ps PROVE \E i \in DOMAIN R : R[i].index = ps[k]
    <3>1. PICK i \in DOMAIN R : R[i] = rs[k]
      BY <1>2, <1>3 DEF Rearranged
    <3>2. R[i].index = ps[k]
      BY <1>2, <3>1
    <3>3. QED
      BY <3>2
  <2>3. QED
    BY <2>1, <2>2 DEF Range
<1>6. {F[i] : i \in DOMAIN F} = Range(fs)
  BY <1>3 DEF Rearranged, Range
<1>7. Len(ps) = Len(rs)
  <2>1. ps \in Seq(Procs)
    BY <1>1 DEF OnceEach
  <2>2. DOMAIN ps = 1 .. Len(ps) /\ DOMAIN rs = 1 .. Len(rs) /\ Len(ps) \in Nat /\ Len(rs) \in Nat
    BY <2>1
  <2>3. PICK m \in Nat, n \in Nat : m = Len(ps) /\ n = Len(rs)
    BY <2>2
  <2>4. 1 .. m = 1 .. n
    BY <1>2, <2>2, <2>3
  <2>5. m = n
    BY <2>4
  <2>6. QED
    BY <2>3, <2>5
<1>8. Range(ps) \union Range(fs) = Procs
  BY <1>1, <1>7, AllCollected
<1>9. AllPoints(R, F)
  BY <1>1, <1>5, <1>6, <1>8 DEF AllPoints
<1>10. QED
  BY <1>3, <1>4, <1>6, <1>9 DEF FullList, Rearranged

LEMMA WritesTruth ==
  ASSUME OnceCollected, TrulyCollected, WriteSummary
  PROVE  Summed'
<1>1. PICK rs, fs, R, F : /\ rs = results /\ fs = failures
                          /\ R = Sorted(rs, Points(rs)) /\ F = Sorted(fs, fs)
  OBVIOUS
<1>2. /\ rs \in Seq(Entry) /\ OnceEach(Points(rs)) /\ OnceEach(fs)
      /\ Range(Points(rs)) \intersect Range(fs) = {}
      /\ Len(rs) + Len(fs) = Cardinality(Procs)
  BY <1>1 DEF OnceCollected, WriteSummary, Collected, Points
<1>3. /\ FullList(R, F)
      /\ \A i \in DOMAIN R : \E j \in DOMAIN rs : R[i] = rs[j]
      /\ \A i \in DOMAIN F : F[i] \in Range(fs)
  BY <1>1, <1>2, SummaryList
<1>4. summary'.results = R /\ summary'.failures = F
  BY <1>1 DEF WriteSummary, Points
<1>5. pc' = pc /\ att' = att /\ broken' = broken
  BY DEF WriteSummary, runVars
<1>6. Told(R, F)
  BY <1>1, <1>3 DEF Told, TrulyCollected
<1>7. Told(R, F)'
  BY <1>5, <1>6 DEF Told, TrueEntry, TrueFailure, Attempt
<1>8. FullList(R, F)'
  BY <1>3
<1>9. QED
  BY <1>4, <1>7, <1>8 DEF Summed, FullList, InOrder, AllPoints, Told, TrueEntry, TrueFailure,
     Attempt

LEMMA ToldStays ==
  ASSUME EndsStay, broken => broken', NEW R, NEW F, FullList(R, F), Told(R, F)
  PROVE  Told(R, F)'
<1>1. /\ \A i \in DOMAIN R : R[i].index \in Procs
      /\ \A i \in DOMAIN F : F[i] \in Procs
  BY DEF FullList, AllPoints
<1>2. \A i \in DOMAIN F : TrueFailure(F[i])'
  BY <1>1, FailuresStayTrue DEF Told
<1>3. \A i \in DOMAIN R : TrueEntry(R[i])'
  BY <1>1 DEF Told, TrueEntry, EndsStay, Ending, Attempt
<1>4. QED
  BY <1>2, <1>3 DEF Told

LEMMA NextSummed ==
  ASSUME OnceCollected, TrulyCollected, Summed, EndsStay, [Next]_allVars, ~SweepAgain
  PROVE  Summed'
<1>1. CASE WriteSummary
  BY <1>1, WritesTruth
<1>2. ASSUME summary' = summary, main = "written", broken => broken' PROVE Summed'
  <2>1. PICK R, F : R = summary.results /\ F = summary.failures
    OBVIOUS
  <2>2. FullList(R, F) /\ Told(R, F)
    BY <1>2, <2>1 DEF Summed
  <2>3. Told(R, F)' /\ FullList(R, F)'
    BY <1>2, <2>2, ToldStays
  <2>4. summary'.results = R /\ summary'.failures = F
    BY <1>2, <2>1
  <2>5. QED
    BY <2>3, <2>4 DEF Summed, FullList, InOrder, AllPoints, Told, TrueEntry, TrueFailure, Attempt
<1>3. ASSUME main' # "written" PROVE Summed'
  BY <1>3 DEF Summed
<1>4. CASE Submit \/ SweepKilled
  <2>1. main' # "written"
    BY <1>4 DEF Submit, SweepKilled
  <2>2. QED
    BY <1>3, <2>1
<1>5. CASE PoolBreaks \/ (\E p \in Procs : Deliver(p) \/ Collect(p)) \/ UNCHANGED sweepVars
  <2>1. CASE PoolBreaks
    BY <2>1, <1>2, <1>3 DEF PoolBreaks
  <2>2. ASSUME NEW p \in Procs, Deliver(p) \/ Collect(p)
        PROVE  main' = main /\ summary' = summary /\ broken' = broken
    BY <2>2 DEF Deliver, Collect
  <2>3. CASE UNCHANGED sweepVars
    BY <2>3, <1>2, <1>3 DEF sweepVars
  <2>4. QED
    BY <1>2, <1>3, <1>5, <2>1, <2>2, <2>3
<1>6. QED
  BY SweepShape, <1>1, <1>4, <1>5

LEMMA InitHeard == Init => HeardInv
<1>1. SUFFICES ASSUME Init PROVE HeardInv
  OBVIOUS
<1>2. /\ main = "submitting" /\ results = <<>> /\ failures = <<>>
      /\ future = [p \in Procs |-> "none"]
  BY <1>1 DEF Init, SweepInit
<1>3. OnceCollected /\ TrulyCollected
  BY <1>2, NothingHeard DEF OnceCollected, TrulyCollected
<1>4. QED
  BY <1>2, <1>3 DEF HeardInv, Begun, FuturesOK, Summed

LEMMA NextHeard ==
  ASSUME RunTypes, HeardInv, [Next]_allVars PROVE HeardInv'
<1>1. Begun' /\ setup' = setup
  <2>1. Control
    BY TypesSplit
  <2>2. QED
    BY <2>1, NextBegun, RunShape, OwnStep DEF RunTypes, Kills, Rewinds, runVars, HeardInv
<1>2. CASE SweepAgain
  BY <1>1, <1>2, SweptAgain DEF HeardInv
<1>3. CASE ~SweepAgain /\ Sweeping
  <2>1. EndsStay
    BY <1>3, NextEndsStay
  <2>2. QED
    BY <1>1, <1>3, <2>1, NextFutures, NextCollected, NextSummed DEF HeardInv
<1>4. CASE ~Sweeping
  <2>1. main = "submitting" /\ \A p \in Procs : future[p] = "none"
    BY <1>4 DEF HeardInv, Begun, FuturesOK
  <2>2. UNCHANGED sweepVars
    <3>1. ~SweepAgain /\ ~Submit /\ ~SweepKilled
      BY <1>4 DEF SweepAgain, Submit, SweepKilled
    <3>2. ~PoolBreaks
      BY <2>1 DEF PoolBreaks, Busy, Unfinished
    <3>3. ~WriteSummary /\ \A p \in Procs : ~Deliver(p) /\ ~Collect(p)
      BY <1>4, <2>1 DEF WriteSummary, Deliver, Collect
    <3>4. QED
      BY <3>1, <3>2, <3>3, SweepShape
  <2>3. Range(Points(results)) = {} /\ Range(failures) = {} /\ OnceCollected
    BY <2>1 DEF HeardInv, OnceCollected
  <2>4. DOMAIN results = {}
    BY <2>3 DEF Range, Points
  <2>5. /\ main' = main /\ results' = results /\ failures' = failures
        /\ future' = future /\ broken' = broken
    BY <2>2 DEF sweepVars
  <2>6. OnceCollected'
    BY <2>1, <2>3, <2>5 DEF OnceCollected, Points
  <2>7. TrulyCollected' /\ Summed'
    BY <2>1, <2>3, <2>4, <2>5 DEF TrulyCollected, Summed
  <2>8. FuturesOK'
    BY <2>1, <2>5 DEF HeardInv, FuturesOK
  <2>9. QED
    BY <1>1, <2>6, <2>7, <2>8 DEF HeardInv
<1>5. QED
  BY <1>2, <1>3, <1>4

LEMMA HeardIsTrue ==
  ASSUME RunInv, ResultsStay, HeardInv PROVE SummaryIsTrue
<1>1. SUFFICES ASSUME main = "written" PROVE SummaryIsTrue
  BY DEF SummaryIsTrue
<1>2. PICK R, F : R = summary.results /\ F = summary.failures
  OBVIOUS
<1>3. FullList(R, F) /\ Told(R, F) /\ Sweeping
  BY <1>1, <1>2 DEF HeardInv, Summed, Begun
<1>4. \A i \in DOMAIN R : R[i].by[1] = R[i].index /\ HoldsResult(Target(R[i].index), R[i].by)
  <2>1. SUFFICES ASSUME NEW i \in DOMAIN R
                 PROVE  R[i].by[1] = R[i].index /\ HoldsResult(Target(R[i].index), R[i].by)
    OBVIOUS
  <2>2. PICK r : r = R[i]
    OBVIOUS
  <2>3. r.index \in Procs /\ pc[r.index] = "returned" /\ r.by = Attempt(r.index)
    BY <1>3, <2>2 DEF FullList, AllPoints, Told, TrueEntry
  <2>4. HoldsResult(Target(r.index), r.by) /\ r.by[1] = r.index
    BY <1>3, <2>3 DEF ResultsStay, Attempt
  <2>5. QED
    BY <2>2, <2>4
<1>5. \A i \in DOMAIN F : pc[F[i]] = "raised" \/ broken
  BY <1>3 DEF Told, TrueFailure
<1>6. QED
  BY <1>2, <1>3, <1>4, <1>5 DEF SummaryIsTrue, FullList, InOrder, AllPoints, ToSet

\* A summary names every point once, in order, however the runs finished; each
\* result in it is whole in the directory of its point and each failure is one.
THEOREM SummariesAreTrue == ASSUME Apart, OwnTargets PROVE Spec => []SummaryIsTrue
<1>1. Init => ResultsStay /\ Begun /\ HeardInv
  BY InitHeard DEF Init, RunInit, SweepInit, ResultsStay, Begun
<1>2. RunInv /\ ResultsStay /\ HeardInv /\ [Next]_allVars => ResultsStay' /\ HeardInv'
  BY NextResults, NextHeard DEF RunInv
<1>3. RunInv /\ ResultsStay /\ HeardInv => SummaryIsTrue
  BY HeardIsTrue
<1>4. QED
  BY <1>1, <1>2, <1>3, SweepInvariant, PTL DEF Spec

=============================================================================
