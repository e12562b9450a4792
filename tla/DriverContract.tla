---------------------------- MODULE DriverContract ----------------------------
(***************************************************************************)
(* What the runtime promises its callers, without threads, locks, queue or *)
(* worker: a request is accepted only in a session and answered once, the  *)
(* end of a session leaves no accepted request behind, and a stop that was *)
(* reported done keeps the robot still until the latch is released (the    *)
(* public interface in direct_driver_runtime.hpp).  DirectDriverRuntime    *)
(* implements it under the mapping in RuntimeProperties.                   *)
(***************************************************************************)
CONSTANTS
  Requests,   \* the calls that return a future
  Stops       \* those among them that engage the emergency stop

VARIABLES
  answer,     \* each request's answer: none yet asked for, awaited, or given
  accepted,   \* the awaited ones whose call has returned to its caller
  online,     \* a session is being served
  latched,    \* the software stop is latched
  held,       \* a stop was reported done and is still latched
  moving      \* the robot was last told a nonzero velocity

vars == <<answer, accepted, online, latched, held, moving>>

Init ==
  /\ answer = [r \in Requests |-> "none"]
  /\ accepted = {}
  /\ online = FALSE
  /\ latched = FALSE
  /\ held = FALSE
  /\ moving = FALSE

\* The requests in S get the answer a.
Answered(S, a) == [r \in Requests |-> IF r \in S THEN a ELSE answer[r]]

\* A call that is running; all but a stop may begin and end in one step.
Called(r) ==
  \/ answer[r] = "waiting" /\ r \notin accepted
  \/ answer[r] = "none" /\ r \notin Stops

\* Accepted stops that a newer stop supersedes.
Superseded(r) == IF r \in Stops THEN accepted \cap Stops ELSE {}

-----------------------------------------------------------------------------
\* A call begins; a stop is latched from that instant on.
Ask(r) ==
  /\ answer[r] = "none"
  /\ answer' = Answered({r}, "waiting")
  /\ latched' = (latched \/ r \in Stops)
  /\ UNCHANGED <<accepted, online, held, moving>>

\* The call leaves its request with the session ...
Accept(r) ==
  /\ online
  /\ Called(r)
  /\ \E S \in SUBSET Superseded(r) :
       /\ answer' = [Answered(S, "failed") EXCEPT ![r] = "waiting"]
       /\ accepted' = (accepted \ S) \cup {r}
  /\ UNCHANGED <<online, latched, held, moving>>

\* ... or fails at once.
Refuse(r) ==
  /\ Called(r)
  /\ \E S \in SUBSET Superseded(r) :
       /\ answer' = Answered(S \cup {r}, "failed")
       /\ accepted' = accepted \ S
  /\ UNCHANGED <<online, latched, held, moving>>

\* A request that fails may have stopped the robot: the reply was lost.
Fail(S) ==
  /\ S # {}
  /\ answer' = Answered(S, "failed")
  /\ accepted' = accepted \ S
  /\ moving' \in {moving, FALSE}
  /\ UNCHANGED <<online, latched, held>>

\* Success is reported in a session only, and for a stop only when the robot was
\* told to stand still.
Succeed(r) ==
  /\ online
  /\ answer' = Answered({r}, "ok")
  /\ accepted' = accepted \ {r}
  /\ IF r \in Stops THEN ~moving /\ held' = (held \/ latched) ELSE UNCHANGED held
  /\ UNCHANGED <<online, latched, moving>>

\* The caller has read its future and may call again.
Collect(r) ==
  /\ answer[r] \in {"ok", "failed"}
  /\ answer' = Answered({r}, "none")
  /\ UNCHANGED <<accepted, online, latched, held, moving>>

Connect ==
  /\ ~online
  /\ online' = TRUE
  /\ moving' = FALSE
  /\ UNCHANGED <<answer, accepted, latched, held>>

\* Whoever was accepted and not answered is told, in the step that ends it.
Disconnect ==
  /\ online
  /\ online' = FALSE
  /\ answer' = Answered(accepted, "failed")
  /\ accepted' = {}
  /\ UNCHANGED <<latched, held, moving>>

Move ==
  /\ online /\ ~held
  /\ moving' = TRUE
  /\ UNCHANGED <<answer, accepted, online, latched, held>>

Halt ==
  /\ moving' = FALSE
  /\ UNCHANGED <<answer, accepted, online, latched, held>>

Release ==
  /\ latched' = FALSE
  /\ held' = FALSE
  /\ UNCHANGED <<answer, accepted, online, moving>>

Next ==
  \/ Halt \/ Move
  \/ Connect \/ Disconnect
  \/ Release
  \/ \E r \in Requests : Ask(r) \/ Accept(r) \/ Refuse(r) \/ Collect(r)
  \/ \E r \in accepted : Succeed(r)
  \/ \E S \in SUBSET accepted : Fail(S)

Spec == Init /\ [][Next]_vars

-----------------------------------------------------------------------------
(* Consequences *)

\* The variables keep their types.
TypeOK ==
  /\ answer \in [Requests -> {"none", "waiting", "ok", "failed"}]
  /\ accepted \subseteq {r \in Requests : answer[r] = "waiting"}
  /\ online \in BOOLEAN /\ latched \in BOOLEAN
  /\ held \in BOOLEAN /\ moving \in BOOLEAN

\* A stop that was reported done is latched and the robot stands still
\* (trigger_estop: "commands zero velocity and damping mode ... before the
\* returned future is resolved").
HeldIsStill == held => latched /\ ~moving

\* Nobody waits for a session that is over (request_authority, request_mode: "the
\* future is already failed when returned").
NobodyLeftWaiting == accepted # {} => online

\* An answer is final: it stays until its caller has read it (set_promise: "the
\* first answer wins").
AnswerIsFinal ==
  [][ \A r \in Requests :
        answer[r] \in {"ok", "failed"} => answer'[r] \in {answer[r], "none"} ]_vars
=============================================================================
