-------------------------- MODULE MCDirectAstrallSdk --------------------------
(* Small instances of the SDK adapter for model checking. *)
EXTENDS DirectAstrallSdk, TLC

CONSTANTS a1, a2, d1, d2, nobody

MCOneApp     == {a1}
MCTwoApps    == {a1, a2}
MCOneDelivery == {d1}
MCTwoDeliveries == {d1, d2}
MCTopics     == {"sport", "imu"}

Threads == Permutations({a1, a2}) \cup Permutations({d1, d2})
=============================================================================
