-------------------------- MODULE MCNetworkPreflight --------------------------
(* Small instances of the network preflight for model checking. *)
EXTENDS NetworkPreflight

Address(a, p) == [valid |-> TRUE, address |-> a, has_prefix |-> TRUE, prefix |-> p]

\* Success, a failure, the status that a timeout is reported with, and SIGSEGV.
MCOwnStatuses == {0, 1, 124, 128 + 11}

MCHost == Address("host", 24)
\* The expected address, the same with another prefix, and a line without one.
MCAddrLines == {[inet |-> TRUE, entry |-> MCHost],
                [inet |-> TRUE, entry |-> Address("host", 16)],
                [inet |-> FALSE, entry |-> MCHost]}
\* The expected route, a route elsewhere, and a line without a source.
MCRouteLines == {[dev |-> "eno1", src |-> "host"],
                 [dev |-> "wlan0", src |-> "host"],
                 [dev |-> "eno1", src |-> ""]}
=============================================================================
