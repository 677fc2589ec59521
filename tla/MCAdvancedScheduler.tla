------------------------ MODULE MCAdvancedScheduler ------------------------
(* AdvancedScheduler on small instances: job 1 follows job 2.               *)
EXTENDS AdvancedScheduler

TwoCallers == {"scheduler", "user"}
OneTab == {"tab1"}
NoUnits == {}
TwoJobs == {1, 2}
Job1After2 == 1 :> 2 @@ 2 :> 0
OneFlow == {9}
TwoSteps == 9 :> 2
NoSteps == [u \in {} |-> 0]
=============================================================================
