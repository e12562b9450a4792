------------------------ MODULE MCDirectDriverRuntime ------------------------
(* Small instances of the runtime for model checking. *)
EXTENDS RuntimeProperties, TLC

CONSTANTS m1, m2, a1, e1, e2, none

MCOneMode    == {m1}
MCTwoModes   == {m1, m2}
MCOneAuth    == {a1}
MCOneEstop   == {e1}
MCTwoEstops  == {e1, e2}
MCNobody     == {}
MCMove       == {"move"}
MCMoveStand  == {"move", "stand"}
MCAnyName    == {"move", "unknown"}
MCStatuses   == {"Move"}
MCTwoStatuses == {"Move", "Stand"}
MCNoError    == {0}
MCErrors     == {0, 1}
MCVelocity   == {1}
MCVelocities == {0, 1}

Callers == Permutations({m1, m2}) \cup Permutations({e1, e2})
=============================================================================
