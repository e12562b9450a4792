--------------------------- MODULE MCRobotController ---------------------------
(* Small instance of the safety gate for model checking. *)
EXTENDS RobotControllerSpec

\* One velocity inside the limit, zero, and one beyond the limit on each side.
MCVelocityInputs == {-2, 0, 1, 2}
=============================================================================
