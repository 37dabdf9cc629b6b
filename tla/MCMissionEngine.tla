-------------------------- MODULE MCMissionEngine ---------------------------
(* TLC instances of MissionEngine: short plans, with gates in every place.   *)
EXTENDS MissionEngine

\* All plans of one and two steps, and a longer one whose gates are apart.
SmallPlans == {<<g>> : g \in BOOLEAN} \union {<<g, h>> : g, h \in BOOLEAN}
                \union {<<TRUE, FALSE, TRUE>>}

=============================================================================
