--------------------------- MODULE MCNodeShutdown ---------------------------
(* Small instances of the node's shutdown for model checking. *)
EXTENDS NodeShutdown

CONSTANTS c1, c2, v1

MCCallers == {c1, c2}
MCVendors == {v1}
=============================================================================
