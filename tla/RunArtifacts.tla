---------------------------- MODULE RunArtifacts ----------------------------
(***************************************************************************)
(* run_experiment (experiments/runner.py) and the directories it leaves.   *)
(*                                                                         *)
(* An attempt writes into a temporary directory beside its target, one     *)
(* file after another, then removes what the target held and renames the   *)
(* temporary directory to it; when anything raises it adds the exception   *)
(* and renames the directory to a .failed one instead.  Several processes  *)
(* may do this at once (a pool's workers, runs started by hand), each step *)
(* is a call to the file system, and a process may be killed between two.  *)
(*                                                                         *)
(* What a file says is abstracted to the attempt that opened it and to     *)
(* whether that attempt finished writing it.                               *)
(* A file half written when its process is killed is one more file of the  *)
(* abandoned temporary directory, so only the trace, which stays open, has *)
(* a state between.                                                        *)
(***************************************************************************)
EXTENDS Integers, FiniteSets, Sequences, Functions

CONSTANTS
  Procs,  \* the processes that run experiments
  Setups, \* what the processes run: the configurations of a behaviour
  None

\* setup.target[p], setup.run[p]: the output directory and the run id (hash of
\* the configuration, seed) of process p; setup.short: the processes whose
\* configuration fails the horizon check; setup.processes: the size of the
\* pool, or 0 when the runs are started by hand.  Two bounds of the model:
\* setup.attempts[p], the attempts of process p, and setup.faults, the
\* exceptions and kills of the behaviour that nothing in it brings about.
VARIABLES
  setup,
  dir,     \* the directories: path -> the number of the directory found there
  files,   \* the files: [dir, name, by, whole]
  pc,      \* where run_experiment is in each process
  listing, \* the rmtree in progress in each process: [dir, todo], or None
  att,     \* how many attempts each process has begun
  faults

runVars == <<setup, dir, files, pc, listing, att, faults>>

Artifacts == {"events", "rounds", "summary", "manifest"}
FileNames == Artifacts \union {"exception"}

ASSUME ArtifactsAssumption ==
  /\ IsFiniteSet(Procs)
  /\ None \notin [dir : Nat, todo : SUBSET FileNames]
  /\ \A s \in Setups : s.faults \in Nat

\* Mutant: the temporary directory is named after the run alone.
TemporaryOfRun(p) == <<"temporary", "", setup.run[p]>>

Target(p)    == <<"target", setup.target[p]>>
Temporary(p) == <<"temporary", setup.target[p], setup.run[p]>>
Failed(p)    == <<"failed", setup.target[p], setup.run[p]>>

Exists(path) == path \in DOMAIN dir
In(path) == {f \in files : Exists(path) /\ f.dir = dir[path]}
NamesIn(d) == {f.name : f \in {g \in files : g.dir = d}}
Attempt(p) == <<p, att[p]>>

\* path holds the whole result of attempt a and nothing else.
HoldsResult(path, a) ==
  /\ {f.name : f \in In(path)} = Artifacts
  /\ \A f \in In(path) : f.by = a /\ f.whole

Ended == {"returned", "raised", "killed"}
Running(p) == pc[p] \notin Ended \union {"idle"}

RunInit ==
  /\ setup \in Setups
  /\ dir = <<>> /\ files = {}
  /\ pc = [p \in Procs |-> "idle"]
  /\ listing = [p \in Procs |-> None]
  /\ att = [p \in Procs |-> 0]
  /\ faults = 0

-----------------------------------------------------------------------------
Goto(p, label) == pc' = [pc EXCEPT ![p] = label]
Unmoved == UNCHANGED <<setup, att, faults>>

\* os.mkdir: a number no directory has and no rmtree has open.
FreshDir ==
  CHOOSE n \in 1 .. 4 * Cardinality(Procs) :
    n \notin Range(dir) /\ \A p \in Procs : listing[p] = None \/ listing[p].dir # n

EnsureDir(path) ==
  IF Exists(path) THEN UNCHANGED dir
  ELSE dir' = [q \in DOMAIN dir \union {path} |-> IF q = path THEN FreshDir ELSE dir[q]]

Replacing(n, name) == {f \in files : ~(f.dir = n /\ f.name = name)}

\* Mutant: what an interrupted attempt left is not removed.
BeginOverLeftovers(p) ==
  /\ pc[p] = "idle"
  /\ att' = [att EXCEPT ![p] = @ + 1]
  /\ Goto(p, IF p \in setup.short THEN "raised" ELSE "mkdir")
  /\ UNCHANGED <<setup, dir, files, listing, faults>>

Begin(p) ==
  /\ pc[p] = "idle"
  /\ att' = [att EXCEPT ![p] = @ + 1]
  /\ Goto(p, IF p \in setup.short THEN "raised"
             ELSE IF Exists(Temporary(p)) THEN "clean" ELSE "mkdir")
  /\ UNCHANGED <<setup, dir, files, listing, faults>>

MakeTemporary(p) ==
  /\ pc[p] = "mkdir"
  /\ EnsureDir(Temporary(p))
  /\ Goto(p, "open")
  /\ UNCHANGED <<files, listing>> /\ Unmoved

\* NdjsonTraceSink makes the directory again if it is gone, and truncates.
OpenTrace(p) ==
  LET n == IF Exists(Temporary(p)) THEN dir[Temporary(p)] ELSE FreshDir IN
  /\ pc[p] = "open"
  /\ EnsureDir(Temporary(p))
  /\ files' = Replacing(n, "events")
       \union {[dir |-> n, name |-> "events", by |-> Attempt(p), whole |-> FALSE]}
  /\ Goto(p, "execute")
  /\ UNCHANGED listing /\ Unmoved

\* The session runs to its end and the trace is closed, wherever its file is
\* now.
Execute(p) ==
  /\ pc[p] = "execute"
  /\ files' = {[f EXCEPT !.whole = @ \/ (f.name = "events" /\ f.by = Attempt(p))] :
                 f \in files}
  /\ Goto(p, "rounds")
  /\ UNCHANGED <<dir, listing>> /\ Unmoved

\* The files that are written in one go, and what follows each.
After == [rounds |-> "summary", summary |-> "manifest", manifest |-> "check",
          report |-> "exception", exception |-> "checkFailed"]
InHandler == {"report", "exception", "checkFailed", "drop", "keep"}

\* Mutant: a writer that raises is passed over.
RaiseToNothing(label) == IF label \in InHandler \union {"clean", "mkdir", "open"}
                         THEN "raised" ELSE "check"

\* An exception reaches the handler from inside the try statement only.
RaiseTo(label) == IF label \in InHandler \union {"clean", "mkdir", "open"}
                  THEN "raised" ELSE "report"

Write(p) ==
  /\ pc[p] \in DOMAIN After
  /\ \/ /\ Exists(Temporary(p))
        /\ LET n == dir[Temporary(p)]
               name == IF pc[p] = "report" THEN "manifest" ELSE pc[p] IN
           files' = Replacing(n, name)
             \union {[dir |-> n, name |-> name, by |-> Attempt(p), whole |-> TRUE]}
        /\ Goto(p, After[pc[p]])
     \/ /\ ~Exists(Temporary(p))
        /\ Goto(p, RaiseTo(pc[p]))
        /\ UNCHANGED files
  /\ UNCHANGED <<dir, listing>> /\ Unmoved

\* Mutant: an old .failed directory is kept.
CheckKeepingFailed(p) ==
  /\ \/ pc[p] = "check" /\ Goto(p, IF Exists(Target(p)) THEN "clear" ELSE "move")
     \/ pc[p] = "checkFailed" /\ Goto(p, IF Exists(Failed(p)) THEN "raised" ELSE "keep")
  /\ UNCHANGED <<dir, files, listing>> /\ Unmoved

\* Path.exists() before shutil.rmtree.
Check(p) ==
  /\ \/ pc[p] = "check" /\ Goto(p, IF Exists(Target(p)) THEN "clear" ELSE "move")
     \/ pc[p] = "checkFailed" /\ Goto(p, IF Exists(Failed(p)) THEN "drop" ELSE "keep")
  /\ UNCHANGED <<dir, files, listing>> /\ Unmoved

-----------------------------------------------------------------------------
\* shutil.rmtree: the directory is listed, the files are unlinked one by one
\* in an unspecified order, and the directory is removed by its name.
RemovedAt(p, label) ==
  CASE label = "clean" -> Temporary(p) [] label = "clear" -> Target(p)
    [] label = "drop" -> Failed(p)

Removing == [clean |-> "mkdir", clear |-> "move", drop |-> "keep"]

RmtreeRaises(p) ==
  /\ Goto(p, RaiseTo(pc[p]))
  /\ listing' = [listing EXCEPT ![p] = None]
  /\ UNCHANGED <<dir, files>>

List(p) ==
  LET path == RemovedAt(p, pc[p]) IN
  /\ pc[p] \in DOMAIN Removing /\ listing[p] = None
  /\ \/ /\ Exists(path)
        /\ listing' = [listing EXCEPT ![p] = [dir |-> dir[path], todo |-> NamesIn(dir[path])]]
        /\ UNCHANGED <<dir, files, pc>>
     \/ ~Exists(path) /\ RmtreeRaises(p)
  /\ Unmoved

\* A file somebody else has unlinked is an error, or passed over by the
\* Python versions whose rmtree ignores it.
Unlink(p) ==
  /\ pc[p] \in DOMAIN Removing /\ listing[p] # None
  /\ \E name \in listing[p].todo :
       \/ /\ files' = Replacing(listing[p].dir, name)
          /\ listing' = [listing EXCEPT ![p].todo = @ \ {name}]
          /\ UNCHANGED <<dir, pc>>
       \/ name \notin NamesIn(listing[p].dir) /\ RmtreeRaises(p)
  /\ Unmoved

Rmdir(p) ==
  LET path == RemovedAt(p, pc[p]) IN
  /\ pc[p] \in DOMAIN Removing /\ listing[p] # None
  /\ listing[p].todo = {}
  /\ \/ /\ Exists(path) /\ In(path) = {}
        /\ dir' = [q \in DOMAIN dir \ {path} |-> dir[q]]
        /\ listing' = [listing EXCEPT ![p] = None]
        /\ Goto(p, Removing[pc[p]])
        /\ UNCHANGED files
     \/ (~Exists(path) \/ In(path) # {}) /\ RmtreeRaises(p)
  /\ Unmoved

\* os.replace: the target may be absent or an empty directory.
Rename(p, from, to) ==
  dir' = [q \in (DOMAIN dir \ {from}) \union {to} |-> IF q = to THEN dir[from] ELSE dir[q]]

\* Mutant: the directory is left under its old name, too.
ReplaceByLink(p, from, to, label) ==
  /\ Exists(from)
  /\ dir' = [q \in DOMAIN dir \union {to} |-> IF q = to THEN dir[from] ELSE dir[q]]
  /\ Goto(p, label)
  /\ UNCHANGED <<files, listing>> /\ Unmoved

Replace(p, from, to, label) ==
  /\ \/ Exists(from) /\ In(to) = {} /\ Rename(p, from, to) /\ Goto(p, label)
     \/ /\ ~Exists(from) \/ In(to) # {}
        /\ Goto(p, RaiseTo(pc[p]))
        /\ UNCHANGED dir
  /\ UNCHANGED <<files, listing>> /\ Unmoved

Publish(p) == pc[p] = "move" /\ Replace(p, Temporary(p), Target(p), "returned")
Keep(p) == pc[p] = "keep" /\ Replace(p, Temporary(p), Failed(p), "raised")

-----------------------------------------------------------------------------
\* The backend, the scheduling, the session or a writer raises.
Raise(p) ==
  /\ pc[p] \in {"execute", "rounds", "summary", "manifest"}
  /\ faults < setup.faults
  /\ faults' = faults + 1
  /\ Goto(p, RaiseTo(pc[p]))
  /\ UNCHANGED <<setup, dir, files, listing, att>>

\* The processes of ps are killed where they are.
Killed(ps) ==
  /\ pc' = [p \in Procs |-> IF p \in ps /\ Running(p) THEN "killed" ELSE pc[p]]
  /\ listing' = [p \in Procs |-> IF p \in ps THEN None ELSE listing[p]]

Kill(p) ==
  /\ Running(p)
  /\ faults < setup.faults
  /\ faults' = faults + 1
  /\ Killed({p})
  /\ UNCHANGED <<setup, dir, files, att>>

Step(p) ==
  \/ MakeTemporary(p) \/ OpenTrace(p) \/ Execute(p) \/ Write(p) \/ Check(p)
  \/ List(p) \/ Unlink(p) \/ Rmdir(p) \/ Publish(p) \/ Keep(p)

-----------------------------------------------------------------------------
Files == [dir : Nat, name : FileNames, by : Procs \X Nat, whole : BOOLEAN]

RunTypeOK ==
  /\ Range(dir) \subseteq Nat /\ IsInjective(dir)
  /\ files \subseteq Files
  /\ \A f \in files : f.dir \in Range(dir)
  /\ \A f, g \in files : f.dir = g.dir /\ f.name = g.name => f = g
  /\ att \in [Procs -> Nat] /\ faults \in 0 .. setup.faults

\* Every directory, the temporary and the failed ones too, holds the files of
\* one attempt only; and what is in a target was finished before it got there,
\* also while an older result is being removed from it, when several runs
\* share the target, and after a kill at any point (run_experiment).
DirectoriesNeverMix ==
  \A path \in DOMAIN dir :
    /\ \A f, g \in In(path) : f.by = g.by
    /\ path[1] = "target" => \A f \in In(path) : f.whole /\ f.name \in Artifacts

\* A target's contents are touched only by a process that has its own whole
\* result beside it: whatever is raised and whoever is killed, an old result is
\* gone only where a new one is complete (run_experiment).
ReplacedOnlyByWhole ==
  [][\A path \in DOMAIN dir :
       path[1] = "target" /\ In(path) # {} /\ (path \notin DOMAIN dir' \/ In(path)' # In(path))
         => \E p \in Procs : Target(p) = path /\ HoldsResult(Temporary(p), Attempt(p))]_runVars

\* "A successful run writes atomically to the requested directory"
\* (docs/configuration.md): when run_experiment returns, its target holds its
\* whole result (run_experiment).
SuccessPersistsResult ==
  [][\A p \in Procs : pc[p] = "move" /\ pc'[p] = "returned"
       => HoldsResult(Target(p), Attempt(p))']_runVars

\* A run that raised once it had its directory left it under .failed, with the
\* manifest and the exception of this very attempt, whatever an earlier attempt
\* had left there (run_experiment's handler).
FailedRunsLeaveEvidence ==
  \A p \in Procs :
    pc[p] = "raised" /\ p \notin setup.short =>
      /\ {"manifest", "exception"} \subseteq {f.name : f \in In(Failed(p))}
      /\ \A f \in In(Failed(p)) : f.by = Attempt(p)
=============================================================================
