---------------------------- MODULE NetworkPreflight ----------------------------
(***************************************************************************)
(* LinuxNetworkPreflight::check (src/network_preflight.cpp) on top of      *)
(* ReadonlyCommand: the address probe, the route probe, and the decision.  *)
(* A line of output is a record of the fields the parsers look for.        *)
(***************************************************************************)
EXTENDS ReadonlyCommand, SequencesExt

CONSTANTS
  AddrLines,    \* lines "ip addr show" may print
  RouteLines,   \* lines "ip route get" may print
  HostAddress,  \* expected.host_address, as an entry
  Interface     \* expected.interface

\* An address entry "a.b.c.d[/nn]"; one that is not valid does not parse.  The
\* prefix of an entry without one is 0.
Entry ==
  {e \in [valid : BOOLEAN, address : STRING, has_prefix : BOOLEAN, prefix : 0..32] :
     ~e.has_prefix => e.prefix = 0}

ASSUME LinesAssumption ==
  /\ HostAddress \in Entry
  /\ \A l \in AddrLines : l.inet \in BOOLEAN /\ l.entry \in Entry
  /\ \A l \in RouteLines : l.dev \in STRING /\ l.src \in STRING

VARIABLES
  probe,      \* the probe running, "addr" or "route", or "decided"
  facts,      \* NetworkFacts
  decision,   \* check()'s last answer
  measured    \* history: the probes whose child showed what is expected

preflight == <<probe, facts, decision, measured>>
allvars == <<vars, preflight>>

NoFacts == [addresses |-> {}, addresses_error |-> FALSE,
            route_interface |-> "", route_source |-> "", route_error |-> FALSE]
Probes == {"addr", "route"}

PreflightInit ==
  /\ Init
  /\ probe = "addr"
  /\ facts = NoFacts
  /\ decision = "none"
  /\ measured = {}

-----------------------------------------------------------------------------
(* Parsing and evaluation *)

\* parse_ip_addr_output: the entry after every "inet".
AddressesIn(lines) == {l.entry : l \in {m \in ToSet(lines) : m.inet}}

Complete(l) == l.dev # "" /\ l.src # ""

\* parse_ip_route_get_output: the first line with both a device and a source.
\* <<>> when there is none.
RouteIn(lines) ==
  LET complete == {i \in DOMAIN lines : Complete(lines[i])}
  IN  IF complete = {} THEN <<>> ELSE <<lines[Min(complete)]>>

\* Same address, and the prefix agrees in presence and value.
MatchesHost(e) ==
  /\ e.valid
  /\ e.address = HostAddress.address
  /\ e.has_prefix = HostAddress.has_prefix
  /\ HostAddress.has_prefix => e.prefix = HostAddress.prefix

\* evaluate_network: ready when neither the address nor the route is a problem.
evaluate_network(f) ==
  /\ HostAddress.valid
  /\ ~f.addresses_error
  /\ \E e \in f.addresses : MatchesHost(e)
  /\ ~f.route_error
  /\ f.route_interface # "" /\ f.route_interface = Interface
  /\ f.route_source = HostAddress.address

-----------------------------------------------------------------------------
(* check() *)

\* Fault: output is used whatever the command's exit status.
AnyStatus == TRUE

Succeeded == parent.result = 0

AddrFacts ==
  IF Succeeded /\ AddressesIn(text) # {}
  THEN [facts EXCEPT !.addresses = AddressesIn(text)]
  ELSE [facts EXCEPT !.addresses_error = TRUE]

RouteFacts ==
  LET route == RouteIn(text)
  IN  IF Succeeded /\ route # <<>>
      THEN [facts EXCEPT !.route_interface = route[1].dev,
                         !.route_source = route[1].src]
      ELSE [facts EXCEPT !.route_error = TRUE]

\* What the child printed, read or not.
Printed == text \o pipe[1]

ShowsHost == \E l \in ToSet(Printed) : l.inet /\ l.entry = HostAddress

\* The first complete route is the expected one.
ShowsRoute ==
  \E i \in DOMAIN Printed :
    /\ Printed[i].dev = Interface
    /\ Printed[i].src = HostAddress.address
    /\ \A j \in 1..(i - 1) : ~Complete(Printed[j])

\* The probe's child ended by itself with status 0 and showed what is expected.
Measure(shows) ==
  measured' = IF child.status = 0 /\ ~child.killed /\ shows
              THEN measured \cup {probe} ELSE measured

\* The address probe has returned: its facts, and the route probe starts.
AddrDone ==
  /\ At("returned") /\ probe = "addr"
  /\ facts' = AddrFacts
  /\ probe' = "route"
  /\ Measure(ShowsHost)
  /\ NewCall
  /\ UNCHANGED decision

\* The route probe has returned: its facts, and the decision.
RouteDone ==
  /\ At("returned") /\ probe = "route"
  /\ facts' = RouteFacts
  /\ decision' = IF evaluate_network(facts') THEN "ready" ELSE "not_ready"
  /\ probe' = "decided"
  /\ Measure(ShowsRoute)
  /\ NewCall

\* The runtime's next connection attempt calls check() again.
NextCheck ==
  /\ probe = "decided"
  /\ probe' = "addr"
  /\ facts' = NoFacts
  /\ decision' = "none"
  /\ measured' = {}
  /\ UNCHANGED vars

Lines == IF probe = "addr" THEN AddrLines ELSE RouteLines

Caller == probe \in Probes /\ CallerStep /\ UNCHANGED preflight
Child  == ChildStep(Lines) /\ UNCHANGED preflight
Clock  == DeadlinePasses /\ UNCHANGED preflight

Next == Caller \/ Child \/ Clock \/ AddrDone \/ RouteDone \/ NextCheck

Spec == PreflightInit /\ [][Next]_allvars

\* The caller's thread runs, without the help of a failing system call, a killed
\* process dies and time passes.  Nothing is asked of the child.
LiveSpec ==
  /\ Spec
  /\ WF_allvars(probe \in Probes /\ CallerProceeds /\ UNCHANGED preflight)
  /\ WF_allvars(ChildKilled /\ UNCHANGED preflight)
  /\ WF_allvars(Clock)
  /\ WF_allvars(AddrDone \/ RouteDone)

-----------------------------------------------------------------------------
(* Properties *)

\* execute_readonly_command leaves no process and no open read end behind, on
\* every path: the loop, a timeout, a failed poll, fcntl or waitpid (321-434).
NothingLeftBehind ==
  At("returned") =>
    /\ child.state \in {"none", "gone", "reaped"}
    /\ child.state # "none" => \A s \in Streams : closes[s] > 0

\* kill() is sent only to a child that still exists: after the loop has reaped
\* it, the number may belong to another process (403-417).  Where SIGCHLD is
\* ignored the kernel reaps the child and the code cannot know.
SignalsOwnChild ==
  At("kill") /\ ~sigchld_ignored => child.state \in {"setup", "running", "zombie"}

\* However the child's exit races the deadline, the drain and the kill: a command
\* is reported as successful only if its child ended by itself with status 0; the
\* status of a child that was not killed is passed on "as-is", 124 included; and
\* of a killed child the caller hears 124, if the deadline had passed, or -1, and
\* never the status the child may have left before the kill reached it (414-444).
HonestResult ==
  At("returned") =>
    /\ parent.result = 0 => child.status = 0 /\ ~child.killed
    /\ child.state # "none" /\ ~child.killed => parent.result = child.status
    /\ child.killed => parent.result = -1 \/ (parent.result = 124 /\ expired)

\* check() says ready only if both probes ended by themselves with status 0, an
\* address the first printed is the expected one with its prefix, and the first
\* complete route the second printed is the expected one; output lost in a race
\* can make the answer "not ready" but never "ready" (457-498).
ReadyIsSound == decision = "ready" => measured = Probes

\* A command that writes finitely much, whether it hangs, closes its streams or
\* ignores them, does not keep the caller for ever (335-412).
CommandReturns == At("nonblock") ~> At("returned")

\* "every exit path (including fork failure) closes the descriptors exactly
\* once" (189-190).
ClosedOnce == \A s \in Streams : closes[s] <= 1

\* "Both output streams are captured and drained" (242-243): when the child's
\* own status is returned, nothing it wrote is left in a pipe no read failed on.
OutputCaptured ==
  At("returned") /\ child.state = "reaped" /\ ~child.killed =>
    \A s \in parent.open_fds : pipe[s] = <<>>
=============================================================================
