-------------------------- MODULE MCEventScheduler --------------------------
(***************************************************************************)
(* Both schedulers on a small instance: four events over two ids, so that  *)
(* ids are reused and collide; times below and at the stop time; the two   *)
(* phases whose order decides whether an arrival at a deadline counts; a   *)
(* stride that four events of one instant and phase outgrow.               *)
(***************************************************************************)
EXTENDS SequenceScheduler

MCTimes  == {1, 3}
MCDelays == {-1, 0, 1}
MCPhases == {PhysicalArrival, Timeout}
=============================================================================
