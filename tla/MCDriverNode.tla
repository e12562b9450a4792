---------------------------- MODULE MCDriverNode ----------------------------
(* Small instances of the node for model checking. *)
EXTENDS DriverNode

CONSTANTS s1, s2, worker, executor

MCOneStatus   == {s1}
MCTwoStatuses == {s1, s2}

MCReports ==
  { [linked |-> TRUE, authority |-> FALSE], [linked |-> FALSE, authority |-> FALSE] }
=============================================================================
