----------------------- MODULE MCAnalysisCoordinator -----------------------
(* A batch of two and three single requests.  With two group slots, one    *)
(* worker and one place in the queue, members of two groups wait for the   *)
(* worker, one group is queued and another is rejected.                    *)
EXTENDS AnalysisCoordinator

MCGroupOf == <<"pair", "pair", "single", "second", "late">>

MCMembers == 1..5

MCGroups == {"pair", "single", "second", "late"}
=============================================================================
