---------------------------- MODULE ReadonlyCommand ----------------------------
(***************************************************************************)
(* execute_readonly_command (src/network_preflight.cpp): a child process,  *)
(* two pipes drained with poll(), and a deadline.  The child, the kernel   *)
(* and the clock are external; they move between any two system calls of   *)
(* the caller.  Stream 1 is stdout, stream 2 stderr.                       *)
(***************************************************************************)
EXTENDS Integers, Sequences

CONSTANTS
  MaxOutput,      \* bound: lines a child writes at most
  PipeCapacity,   \* bound: lines a pipe holds
  Endless,        \* the child may write to stderr without end
  OwnStatuses     \* what a child may end with by itself, as the caller reports
                  \* it: an exit status, or 128 plus the number of a signal

ASSUME OutputAssumption ==
  MaxOutput \in Nat /\ PipeCapacity \in Nat \ {0} /\ Endless \in BOOLEAN

ASSUME StatusAssumption == OwnStatuses \subseteq 0..255

VARIABLES
  parent,   \* where the caller is, and its locals
  child,    \* the child process
  pipe,     \* per stream, the lines written and not yet read
  writing,  \* per stream, whether the child holds the write end
  text,     \* stdout_text, as lines
  left,     \* lines the child may yet write
  expired,  \* the deadline has passed
  closes,   \* per stream, close() calls on the caller's read end
  sigchld_ignored   \* the process inherited SIGCHLD ignored: no zombies

vars == <<parent, child, pipe, writing, text, left, expired, closes,
          sigchld_ignored>>

Streams  == {1, 2}
None     == -2              \* no result or status yet
Sigkill  == 128 + 9

FreshParent == [pc |-> "pipes", open_fds |-> Streams, revents |-> {},
                stream |-> 1, cause |-> "none", result |-> None]
FreshChild  == [state |-> "none", status |-> None, killed |-> FALSE]
Both(v)     == [s \in Streams |-> v]

Init ==
  /\ parent = FreshParent
  /\ child = FreshChild
  /\ pipe = Both(<<>>)
  /\ writing = Both(FALSE)
  /\ text = <<>>
  /\ left = MaxOutput
  /\ expired = FALSE
  /\ closes = Both(0)
  /\ sigchld_ignored \in BOOLEAN

At(pc) == parent.pc = pc
Goto(pc) == parent' = [parent EXCEPT !.pc = pc]

-----------------------------------------------------------------------------
(* The child and the clock *)

\* The process is gone: its ends of the pipes are closed and, unless SIGCHLD is
\* ignored, it waits to be reaped.
Die(status) ==
  /\ child' = [child EXCEPT !.status = status,
                            !.state = IF sigchld_ignored THEN "gone" ELSE "zombie"]
  /\ writing' = Both(FALSE)
  /\ UNCHANGED <<parent, pipe, text, left, expired, closes, sigchld_ignored>>

\* Between fork() and exec: dup2 may fail (126), and so may execvp (127).
ChildSetup ==
  /\ child.state = "setup"
  /\ \/ Die(126)
     \/ Die(127)
     \/ /\ child' = [child EXCEPT !.state = "running"]
        /\ UNCHANGED <<parent, pipe, writing, text, left, expired, closes,
                       sigchld_ignored>>

\* Into a stream the caller has closed nothing can be written; SIGPIPE is one of
\* the signals the child may end with.
ChildWrite(s, line) ==
  /\ child.state = "running"
  /\ writing[s]
  /\ s \in parent.open_fds
  /\ left > 0
  /\ Len(pipe[s]) < PipeCapacity
  /\ pipe' = [pipe EXCEPT ![s] = Append(@, line)]
  /\ left' = IF Endless /\ s = 2 THEN left ELSE left - 1
  /\ UNCHANGED <<parent, child, writing, text, expired, closes, sigchld_ignored>>

ChildClose(s) ==
  /\ child.state = "running"
  /\ writing[s]
  /\ writing' = [writing EXCEPT ![s] = FALSE]
  /\ UNCHANGED <<parent, child, pipe, text, left, expired, closes, sigchld_ignored>>

ChildExit ==
  /\ child.state = "running"
  /\ \E status \in OwnStatuses : Die(status)

\* SIGKILL takes effect.
ChildKilled ==
  /\ child.killed
  /\ child.state \in {"setup", "running"}
  /\ Die(Sigkill)

\* The deadline is set when the loop is entered.
DeadlinePasses ==
  /\ ~expired
  /\ parent.pc \in {"top", "poll", "drain", "reap"}
  /\ expired' = TRUE
  /\ UNCHANGED <<parent, child, pipe, writing, text, left, closes, sigchld_ignored>>

-----------------------------------------------------------------------------
(* The caller *)

\* The guards of the two read ends go out of scope.  The loop's close() does not
\* release() them.
GuardsClose == [s \in Streams |-> closes[s] + 1]

Return(result) ==
  /\ parent' = [parent EXCEPT !.pc = "returned", !.result = result]
  /\ closes' = GuardsClose

\* An empty argument vector (127) or no pipes (-1): nothing is left open.
Refuse ==
  /\ At("pipes")
  /\ \E r \in {127, -1} :
       parent' = [parent EXCEPT !.pc = "returned", !.result = r]
  /\ UNCHANGED <<child, pipe, writing, text, left, expired, closes, sigchld_ignored>>

\* fork() fails, or the child starts and the caller closes its write ends.
Fork ==
  /\ At("pipes")
  /\ \/ /\ Return(-1)
        /\ UNCHANGED <<child, writing>>
     \/ /\ Goto("nonblock")
        /\ child' = [child EXCEPT !.state = "setup"]
        /\ writing' = Both(TRUE)
        /\ UNCHANGED closes
  /\ UNCHANGED <<pipe, text, left, expired, sigchld_ignored>>

\* O_NONBLOCK on both read ends; without it the child is killed and reaped.
SetNonblock ==
  /\ At("nonblock")
  /\ \/ Goto("top")
     \/ parent' = [parent EXCEPT !.pc = "kill", !.cause = "nonblock"]
  /\ UNCHANGED <<child, pipe, writing, text, left, expired, closes, sigchld_ignored>>

\* The head of the loop: what is left of the deadline.
LoopTop ==
  /\ At("top")
  /\ IF expired
     THEN parent' = [parent EXCEPT !.pc = "kill", !.cause = "timed_out"]
     ELSE Goto("poll")
  /\ UNCHANGED <<child, pipe, writing, text, left, expired, closes, sigchld_ignored>>

Readable(s) == pipe[s] # <<>> \/ ~writing[s]

\* poll() reports data or a hang-up of an open stream, or runs into its timeout:
\* the deadline, or 30 ms when both streams are closed.
Poll ==
  /\ At("poll")
  /\ LET ready == {s \in parent.open_fds : Readable(s)} IN
       /\ ready # {} \/ expired \/ parent.open_fds = {}
       /\ parent' = [parent EXCEPT !.pc = "drain", !.revents = ready, !.stream = 1]
  /\ UNCHANGED <<child, pipe, writing, text, left, expired, closes, sigchld_ignored>>

\* poll() is interrupted (EINTR) or fails.
PollFails ==
  /\ At("poll")
  /\ \/ Goto("top")
     \/ parent' = [parent EXCEPT !.pc = "kill", !.cause = "fatal_error"]
  /\ UNCHANGED <<child, pipe, writing, text, left, expired, closes, sigchld_ignored>>

\* Where the drain goes after stream s.
AfterStream(s) ==
  IF s = 2 THEN [parent EXCEPT !.pc = "reap"] ELSE [parent EXCEPT !.stream = 2]

\* A stream poll() did not report is passed over.
SkipStream ==
  /\ At("drain")
  /\ parent.stream \notin parent.revents
  /\ parent' = AfterStream(parent.stream)
  /\ UNCHANGED <<child, pipe, writing, text, left, expired, closes, sigchld_ignored>>

\* One read() that returns data; stderr's is only ever part of a message.
ReadLine ==
  LET s == parent.stream IN
  /\ At("drain")
  /\ s \in parent.revents
  /\ pipe[s] # <<>>
  /\ pipe' = [pipe EXCEPT ![s] = Tail(@)]
  /\ text' = IF s = 1 THEN Append(text, Head(pipe[s])) ELSE text
  /\ UNCHANGED <<parent, child, writing, left, expired, closes, sigchld_ignored>>

\* Fault: without O_NONBLOCK read() waits for the child.
ReadBlocks == At("drain") /\ FALSE /\ UNCHANGED vars

\* read() finds the pipe empty with a writer left (EAGAIN).
ReadAgain ==
  LET s == parent.stream IN
  /\ At("drain")
  /\ s \in parent.revents
  /\ pipe[s] = <<>> /\ writing[s]
  /\ parent' = AfterStream(s)
  /\ UNCHANGED <<child, pipe, writing, text, left, expired, closes, sigchld_ignored>>

\* The read end is closed, whatever the pipe still holds.
CloseStream(s) ==
  /\ parent' = [AfterStream(s) EXCEPT !.open_fds = @ \ {s}]
  /\ closes' = [closes EXCEPT ![s] = @ + 1]
  /\ UNCHANGED <<child, pipe, writing, text, left, expired, sigchld_ignored>>

\* read() finds the end of the stream.
ReadEof ==
  LET s == parent.stream IN
  /\ At("drain")
  /\ s \in parent.revents
  /\ pipe[s] = <<>> /\ ~writing[s]
  /\ CloseStream(s)

\* read() fails with another error than EINTR or EAGAIN, with a writer or data
\* left or not: the stream is given up.
ReadFails ==
  /\ At("drain")
  /\ parent.stream \in parent.revents
  /\ CloseStream(parent.stream)

Reaped == child' = [child EXCEPT !.state = "reaped"]

\* Fault: the loop goes on after it has reaped the child.
ReapGoesOn ==
  /\ At("reap")
  /\ IF child.state = "zombie" THEN Reaped ELSE UNCHANGED child
  /\ IF child.state \in {"gone", "reaped"}
     THEN parent' = [parent EXCEPT !.pc = "kill", !.cause = "fatal_error"]
     ELSE Goto("top")
  /\ UNCHANGED <<pipe, writing, text, left, expired, closes, sigchld_ignored>>

\* waitpid(WNOHANG), and the return of the child's status when it has exited.  A
\* child the kernel reaped (ECHILD) is a fatal error.
Reap ==
  /\ At("reap")
  /\ \/ /\ child.state = "zombie"
        /\ Reaped
        /\ Return(child.status)
     \/ /\ child.state = "gone"
        /\ parent' = [parent EXCEPT !.pc = "kill", !.cause = "fatal_error"]
        /\ UNCHANGED <<child, closes>>
     \/ /\ child.state \in {"setup", "running"}
        /\ Goto("top")
        /\ UNCHANGED <<child, closes>>
  /\ UNCHANGED <<pipe, writing, text, left, expired, sigchld_ignored>>

\* Fault: the caller does not wait for the child it killed.
KillAndLeave ==
  /\ At("kill")
  /\ child' = [child EXCEPT !.killed = TRUE]
  /\ Return(-1)
  /\ UNCHANGED <<pipe, writing, text, left, expired, sigchld_ignored>>

Kill ==
  /\ At("kill")
  /\ child' = [child EXCEPT !.killed = TRUE]
  /\ Goto("wait")
  /\ UNCHANGED <<pipe, writing, text, left, expired, closes, sigchld_ignored>>

\* Fault: every killed command counts as timed out.
AlwaysTimedOut == 124

\* What a killed command is reported as.
KilledResult == IF parent.cause = "timed_out" THEN 124 ELSE -1

\* The blocking waitpid after the kill; it fails when the kernel reaped the child.
Wait ==
  /\ At("wait")
  /\ \/ /\ child.state = "zombie"
        /\ Reaped
        /\ Return(KilledResult)
     \/ /\ child.state = "gone"
        /\ Return(-1)
        /\ UNCHANGED child
  /\ UNCHANGED <<pipe, writing, text, left, expired, sigchld_ignored>>

\* The next call has locals, pipes and a child of its own.
NewCall ==
  /\ parent' = FreshParent
  /\ child' = FreshChild
  /\ pipe' = Both(<<>>)
  /\ writing' = Both(FALSE)
  /\ text' = <<>>
  /\ left' = MaxOutput
  /\ expired' = FALSE
  /\ closes' = Both(0)
  /\ UNCHANGED sigchld_ignored

\* The caller's steps that need no system call to fail, ...
CallerProceeds ==
  \/ Refuse \/ Fork \/ SetNonblock \/ LoopTop \/ Poll
  \/ SkipStream \/ ReadLine \/ ReadAgain \/ ReadEof
  \/ Reap \/ Kill \/ Wait

\* ... and all of them.
CallerStep == CallerProceeds \/ PollFails \/ ReadFails

\* The child's steps when its stdout lines come from lines.
ChildStep(lines) ==
  \/ ChildSetup \/ ChildExit \/ ChildKilled
  \/ \E line \in lines : ChildWrite(1, line)
  \/ ChildWrite(2, "message")
  \/ \E s \in Streams : ChildClose(s)
=============================================================================
