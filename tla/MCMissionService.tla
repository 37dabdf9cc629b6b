-------------------------- MODULE MCMissionService --------------------------
(* TLC instances of MissionService.                                          *)
EXTENDS MissionService

TwoGates == {<<TRUE, TRUE>>}
GateLast == {<<FALSE, TRUE>>}
SerialPlans == {<<FALSE>>, <<TRUE>>, <<FALSE, TRUE>>, <<TRUE, FALSE, TRUE>>}

=============================================================================
