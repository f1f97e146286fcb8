-------------------------------- MODULE Sweep --------------------------------
(***************************************************************************)
(* run_sweep (experiments/sweep.py) over the runs of RunArtifacts.  The    *)
(* points of the sweep are the processes 0 .. N - 1 in the order of        *)
(* expand_sweep; each has a directory of its own.  With processes = 1 the  *)
(* points run one after the other in the sweep's own process, otherwise in *)
(* a ProcessPoolExecutor (external): jobs start in the order they were     *)
(* submitted, finish in any, and the death of one worker breaks the pool.  *)
(*                                                                         *)
(* A setup with processes = 0 has no sweep: runs are started by hand.      *)
(***************************************************************************)
EXTENDS RunArtifacts, SequencesExt

\* Points are numbered from 0.
ASSUME SweepAssumption == Procs = 0 .. Cardinality(Procs) - 1

VARIABLES
  main,      \* "submitting", "collecting", "written", "aborted", "killed"
  submitted, \* how many jobs have been submitted
  future,    \* per point: "none", "pending", "done", "failed" or "broken"
  broken,    \* the pool is broken
  results,   \* the outcomes in the order in which they were collected
  failures,
  summary    \* sweep-summary.json: [results, failures], or None

sweepVars == <<main, submitted, future, broken, results, failures, summary>>
allVars == <<runVars, sweepVars>>

Sweeping == setup.processes > 0
Pooled == setup.processes > 1

SweepInit ==
  /\ main = "submitting" /\ submitted = 0 /\ broken = FALSE
  /\ future = [p \in Procs |-> "none"]
  /\ results = <<>> /\ failures = <<>> /\ summary = None

-----------------------------------------------------------------------------
\* pool.submit for every job, before any result is looked at; a broken pool
\* takes no more jobs, and that exception leaves run_sweep.
Submit ==
  /\ Sweeping /\ main = "submitting"
  /\ \/ /\ ~broken /\ submitted < Cardinality(Procs)
        /\ submitted' = submitted + 1
        /\ future' = [future EXCEPT ![submitted] = "pending"]
        /\ UNCHANGED main
     \/ /\ submitted = Cardinality(Procs)
        /\ main' = "collecting"
        /\ UNCHANGED <<submitted, future>>
     \/ /\ broken /\ submitted < Cardinality(Procs)
        /\ main' = "aborted"
        /\ UNCHANGED <<submitted, future>>
  /\ UNCHANGED <<broken, results, failures, summary>> /\ UNCHANGED runVars

\* A job whose outcome has not reached the parent yet.
Unfinished(p) == future[p] = "pending"
Busy == {p \in Procs : Unfinished(p) /\ pc[p] # "idle"}

StartJob(p) ==
  /\ Sweeping /\ Unfinished(p) /\ ~broken
  /\ \A q \in Procs : q < p => pc[q] # "idle"
  /\ Cardinality(Busy) < setup.processes
  /\ Pooled \/ main = "collecting"
  /\ Begin(p)
  /\ UNCHANGED sweepVars

\* _run_point returned or raised, and the parent hears of it.
Deliver(p) ==
  /\ Sweeping /\ Unfinished(p) /\ ~broken
  /\ \/ pc[p] = "returned" /\ future' = [future EXCEPT ![p] = "done"]
     \/ pc[p] = "raised" /\ future' = [future EXCEPT ![p] = "failed"]
  /\ UNCHANGED <<main, submitted, broken, results, failures, summary>>
  /\ UNCHANGED runVars

\* A worker is dead: the outcomes not yet delivered are lost, the other
\* workers are terminated.
PoolBreaks ==
  /\ Pooled /\ ~broken
  /\ \E p \in Busy : pc[p] = "killed"
  /\ broken' = TRUE
  /\ future' = [p \in Procs |-> IF Unfinished(p) THEN "broken" ELSE future[p]]
  /\ Killed(Procs)
  /\ UNCHANGED <<setup, dir, files, att, faults>>
  /\ UNCHANGED <<main, submitted, results, failures, summary>>

\* Mutant: the outcome is booked under its place in the order of completion.
CollectInTurn(p) ==
  /\ main = "collecting" /\ future[p] \in {"done", "failed", "broken"}
  /\ future' = [future EXCEPT ![p] = "none"]
  /\ LET index == Len(results) + Len(failures) IN
     IF future[p] = "done"
     THEN results' = Append(results, [index |-> index, by |-> Attempt(p)]) /\ UNCHANGED failures
     ELSE failures' = Append(failures, index) /\ UNCHANGED results
  /\ UNCHANGED <<main, submitted, broken, summary>> /\ UNCHANGED runVars

\* Mutant: an outcome that is not a result is waited for again.
CollectResults(p) ==
  /\ main = "collecting" /\ future[p] \in {"done", "failed", "broken"}
  /\ IF future[p] = "done"
     THEN /\ future' = [future EXCEPT ![p] = "none"]
          /\ results' = Append(results, [index |-> p, by |-> Attempt(p)])
     ELSE UNCHANGED <<future, results>>
  /\ UNCHANGED <<main, submitted, broken, failures, summary>> /\ UNCHANGED runVars

\* as_completed yields the futures in any order; future_map gives the index.
Collect(p) ==
  /\ main = "collecting" /\ future[p] \in {"done", "failed", "broken"}
  /\ future' = [future EXCEPT ![p] = "none"]
  /\ \/ /\ future[p] = "done"
        /\ results' = Append(results, [index |-> p, by |-> Attempt(p)])
        /\ UNCHANGED failures
     \/ /\ future[p] # "done"
        /\ failures' = Append(failures, p)
        /\ UNCHANGED results
  /\ UNCHANGED <<main, submitted, broken, summary>> /\ UNCHANGED runVars

Collected == Len(results) + Len(failures) = Cardinality(Procs)

\* list.sort by a key, which is stable: the place in s of each element.
Sorting(keys) ==
  CHOOSE p \in [DOMAIN keys -> DOMAIN keys] :
    /\ IsInjective(p)
    /\ \A i, j \in DOMAIN keys :
         i < j => keys[p[i]] < keys[p[j]] \/ (keys[p[i]] = keys[p[j]] /\ p[i] < p[j])

Sorted(s, keys) == [i \in DOMAIN s |-> s[Sorting(keys)[i]]]

WriteSummary ==
  /\ main = "collecting" /\ Collected
  /\ summary' = [results  |-> Sorted(results, [i \in DOMAIN results |-> results[i].index]),
                 failures |-> Sorted(failures, failures)]
  /\ main' = "written"
  /\ results' = <<>> /\ failures' = <<>>
  /\ UNCHANGED <<submitted, future, broken>> /\ UNCHANGED runVars

-----------------------------------------------------------------------------
\* The sweep is killed with all its processes; in sequence they are one.
SweepKilled ==
  /\ Sweeping /\ main \in {"submitting", "collecting"}
  /\ faults < setup.faults /\ faults' = faults + 1
  /\ Killed(Procs)
  /\ main' = "killed"
  /\ UNCHANGED <<setup, dir, files, att>>
  /\ UNCHANGED <<submitted, future, broken, results, failures, summary>>

WorkerKilled(p) == Pooled /\ ~broken /\ Kill(p) /\ UNCHANGED sweepVars

\* The sweep, or the run, is started again.
SweepAgain ==
  /\ Sweeping /\ main \in {"written", "aborted", "killed"}
  /\ \A p \in Procs : ~Running(p) /\ att[p] < setup.attempts[p]
  /\ pc' = [p \in Procs |-> "idle"]
  /\ main' = "submitting" /\ submitted' = 0 /\ broken' = FALSE
  /\ future' = [p \in Procs |-> "none"]
  /\ results' = <<>> /\ failures' = <<>>
  /\ UNCHANGED summary /\ UNCHANGED <<setup, dir, files, listing, att, faults>>

ByHand(p) ==
  /\ ~Sweeping
  /\ \/ Begin(p)
     \/ Kill(p)
     \/ /\ pc[p] \in Ended /\ att[p] < setup.attempts[p]
        /\ Goto(p, "idle")
        /\ UNCHANGED <<setup, dir, files, listing, att, faults>>
  /\ UNCHANGED sweepVars

Rest ==
  /\ \A p \in Procs : ~Running(p)
  /\ IF Sweeping THEN main \in {"written", "aborted", "killed"}
                 ELSE \A p \in Procs : pc[p] \in Ended
  /\ UNCHANGED allVars

RunStep(p) == Step(p) /\ UNCHANGED sweepVars

Next ==
  \/ Submit \/ PoolBreaks \/ WriteSummary \/ SweepKilled \/ SweepAgain \/ Rest
  \/ \E p \in Procs :
       \/ StartJob(p) \/ RunStep(p) \/ Deliver(p) \/ Collect(p) \/ WorkerKilled(p)
       \/ ByHand(p)
       \/ Raise(p) /\ UNCHANGED sweepVars

\* The processes run and the pool hands out its jobs.
Fairness ==
  /\ WF_allVars(Submit) /\ WF_allVars(PoolBreaks) /\ WF_allVars(WriteSummary)
  /\ \A p \in Procs :
       WF_allVars(StartJob(p)) /\ WF_allVars(RunStep(p))
         /\ WF_allVars(Deliver(p)) /\ WF_allVars(Collect(p))

Init == RunInit /\ SweepInit
Spec == Init /\ [][Next]_allVars /\ Fairness

-----------------------------------------------------------------------------
TypeOK ==
  /\ RunTypeOK
  /\ main \in {"submitting", "collecting", "written", "aborted", "killed"}
  /\ submitted \in 0 .. Cardinality(Procs)
  /\ future \in [Procs -> {"none", "pending", "done", "failed", "broken"}]

\* A summary lists each point once, in the order of the points however the
\* runs finished, and every result it gives is the one found, whole, in the
\* directory of its point; a point is called failed when its run raised or the
\* pool broke (run_sweep).
SummaryIsTrue ==
  main = "written" =>
    LET done == {summary.results[i].index : i \in DOMAIN summary.results}
        failed == ToSet(summary.failures) IN
    /\ \A i, j \in DOMAIN summary.results :
         i < j => summary.results[i].index < summary.results[j].index
    /\ \A i, j \in DOMAIN summary.failures : i < j => summary.failures[i] < summary.failures[j]
    /\ done \intersect failed = {} /\ done \union failed = Procs
    /\ \A i \in DOMAIN summary.results :
         LET r == summary.results[i] IN
         r.by[1] = r.index /\ HoldsResult(Target(r.index), r.by)
    /\ \A p \in failed : pc[p] = "raised" \/ broken

\* A sweep nobody disturbs makes up for what earlier ones left behind: every
\* point that can run is done and no temporary directory is left
\* (run_experiment's removal of leftovers, run_sweep).
UndisturbedSweepRepairs ==
  (main = "written" /\ \A p \in Procs : pc[p] = "returned" \/ p \in setup.short) =>
    /\ \A path \in DOMAIN dir : path[1] # "temporary"
    /\ \A p \in Procs \ setup.short : HoldsResult(Target(p), Attempt(p))

\* A sweep ends, with its summary or by an exception, unless it is killed,
\* also when a worker dies or a run raises (run_sweep).
SweepEnds == (Sweeping /\ main \in {"submitting", "collecting"})
               ~> main \in {"written", "aborted", "killed"}
=============================================================================
