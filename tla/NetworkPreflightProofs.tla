------------------------- MODULE NetworkPreflightProofs -------------------------
(***************************************************************************)
(* Proofs about the network preflight: whatever the child process, the     *)
(* kernel and the clock do between the caller's system calls, a command    *)
(* leaves no process behind, kills only its own child and reports honestly *)
(* what happened, and check() says ready only on evidence.                 *)
(***************************************************************************)
EXTENDS NetworkPreflight, WellFoundedInduction, TLAPS

-----------------------------------------------------------------------------
(* The command *)

Pcs == {"pipes", "nonblock", "top", "poll", "drain", "reap", "kill", "wait",
        "returned"}
Forked == {"nonblock", "top", "poll", "drain", "reap", "kill", "wait"}
Causes == {"none", "nonblock", "timed_out", "fatal_error"}
Statuses == {None, 126, 127, Sigkill} \cup OwnStatuses

Parents == [pc : Pcs, open_fds : SUBSET Streams, revents : SUBSET Streams,
            stream : Streams, cause : Causes, result : Int]
Children == [state : {"none", "setup", "running", "zombie", "gone", "reaped"},
             status : Statuses, killed : BOOLEAN]

\* The types of what the command's control depends on.
CommandTypes ==
  /\ parent \in Parents
  /\ child \in Children
  /\ closes \in [Streams -> Nat]
  /\ expired \in BOOLEAN
  /\ sigchld_ignored \in BOOLEAN

\* How the child's state follows the caller's place: there is one from fork()
\* to the return, only a SIGCHLD that is ignored lets it vanish, only the kill
\* marks it killed, and a timeout is recorded only after the deadline.
ChildFollows ==
  /\ parent.pc = "pipes" => child = FreshChild
  /\ parent.pc \in Forked => child.state \in {"setup", "running", "zombie", "gone"}
  /\ child.state = "gone" => sigchld_ignored
  /\ child.killed => parent.pc \in {"wait", "returned"}
  /\ parent.pc = "wait" => child.killed
  /\ parent.cause = "timed_out" => expired
  /\ child.state = "none" => ~child.killed
  /\ parent.pc \in {"pipes"} \cup Forked => parent.result = None

\* The inductive invariant of the command.
CommandInv ==
  /\ CommandTypes
  /\ ChildFollows
  /\ NothingLeftBehind
  /\ SignalsOwnChild
  /\ HonestResult

\* A call's locals and its child before fork() are of their types.
LEMMA FreshTyped ==
  /\ FreshParent \in Parents
  /\ FreshChild \in Children
  /\ Both(0) \in [Streams -> Nat]
<1>1. FreshParent \in Parents
  BY DEF FreshParent, Parents, Pcs, Causes, Streams, None
<1>2. FreshChild \in Children
  BY DEF FreshChild, Children, Statuses, None
<1>3. Both(0) \in [Streams -> Nat]
  BY DEF Both
<1>4. QED
  BY <1>1, <1>2, <1>3

\* A command about to start has no child, no output and no result yet.
LEMMA CommandStarts == Init => CommandInv
<1> SUFFICES ASSUME Init PROVE CommandInv
  OBVIOUS
<1>1. CommandTypes
  BY Zenon, FreshTyped DEF Init, CommandTypes
<1>2. parent.pc = "pipes" /\ parent.cause = "none" /\ parent.result = None
  BY DEF Init, FreshParent
<1>3. child = FreshChild /\ child.state = "none" /\ ~child.killed
  BY DEF Init, FreshChild
<1>4. QED
  BY <1>1, <1>2, <1>3
     DEF CommandInv, ChildFollows, NothingLeftBehind, SignalsOwnChild,
         HonestResult, Forked, At

\* The next command starts like the first.
LEMMA CommandRestarts == CommandInv /\ NewCall => CommandInv'
<1> SUFFICES ASSUME CommandInv, NewCall PROVE CommandInv'
  OBVIOUS
<1>1. CommandTypes'
  BY Zenon, FreshTyped DEF NewCall, CommandInv, CommandTypes
<1>2. parent'.pc = "pipes" /\ parent'.cause = "none" /\ parent'.result = None
  BY DEF NewCall, FreshParent
<1>3. child' = FreshChild /\ child'.state = "none" /\ ~child'.killed
  BY DEF NewCall, FreshChild
<1>4. QED
  BY <1>1, <1>2, <1>3
     DEF CommandInv, ChildFollows, NothingLeftBehind, SignalsOwnChild,
         HonestResult, Forked, At

\* The child's end: it becomes a zombie, or is gone where SIGCHLD is ignored.
LEMMA DieStep ==
  ASSUME CommandInv, child.state \in {"setup", "running"},
         NEW status \in Statuses, Die(status)
  PROVE  CommandInv'
<1>1. /\ child' \in Children
      /\ child'.state \in {"zombie", "gone"}
      /\ child'.state = "gone" <=> sigchld_ignored
      /\ child'.killed = child.killed
  BY Zenon DEF Die, CommandInv, CommandTypes, Children
<1>2. UNCHANGED <<parent, closes, expired, sigchld_ignored>>
  BY DEF Die
<1>3. parent.pc \in Forked
  BY DEF CommandInv, CommandTypes, ChildFollows, NothingLeftBehind, At, Parents,
         Pcs, Forked, FreshChild
<1>4. QED
  BY <1>1, <1>2, <1>3
     DEF CommandInv, CommandTypes, ChildFollows, NothingLeftBehind,
         SignalsOwnChild, HonestResult, At, Forked, FreshChild

\* Whatever the child does keeps the invariant of the command.
LEMMA ChildKeeps ==
  ASSUME CommandInv, NEW lines, ChildStep(lines)
  PROVE  CommandInv'
<1>1. CASE ChildSetup
  <2>1. ASSUME child.state = "setup", Die(126) PROVE CommandInv'
    BY <2>1, DieStep DEF Statuses
  <2>2. ASSUME child.state = "setup", Die(127) PROVE CommandInv'
    BY <2>2, DieStep DEF Statuses
  <2>3. ASSUME child.state = "setup",
               child' = [child EXCEPT !.state = "running"],
               UNCHANGED <<parent, expired, closes, sigchld_ignored>>
        PROVE  CommandInv'
    BY <2>3
       DEF CommandInv, CommandTypes, ChildFollows, NothingLeftBehind,
           SignalsOwnChild, HonestResult, At, Forked, FreshChild, Children
  <2>4. QED
    BY <1>1, <2>1, <2>2, <2>3 DEF ChildSetup
<1>2. CASE ChildExit
  BY <1>2, DieStep DEF ChildExit, Statuses
<1>3. CASE ChildKilled
  BY <1>3, DieStep DEF ChildKilled, Statuses, Sigkill
<1>4. CASE \/ \E line \in lines : ChildWrite(1, line)
           \/ ChildWrite(2, "message")
           \/ \E s \in Streams : ChildClose(s)
  <2>1. UNCHANGED <<parent, child, closes, expired, sigchld_ignored>>
    BY <1>4 DEF ChildWrite, ChildClose
  <2>2. QED
    BY <2>1 DEF CommandInv, CommandTypes, ChildFollows, NothingLeftBehind,
                SignalsOwnChild, HonestResult, At, FreshChild
<1>5. QED
  BY <1>1, <1>2, <1>3, <1>4 DEF ChildStep

\* The parts of CommandInv that a step of the caller which leaves the child alone
\* and stays before the return has to keep.
LEMMA CallerMoves ==
  ASSUME CommandInv, parent.pc \in Forked,
         parent' \in Parents, parent'.pc \in Forked \ {"wait"}, ~child.killed,
         parent'.cause = "timed_out" => expired,
         parent'.result = parent.result,
         closes' \in [Streams -> Nat],
         UNCHANGED <<child, expired, sigchld_ignored>>
  PROVE  CommandInv'
BY DEF CommandInv, CommandTypes, ChildFollows, NothingLeftBehind, SignalsOwnChild,
       HonestResult, At, Forked, FreshChild

\* Before the kill the child is not marked killed.
LEMMA NotKilledYet ==
  ASSUME CommandInv, parent.pc \notin {"wait", "returned"}
  PROVE  ~child.killed
BY DEF CommandInv, ChildFollows

\* What a return does to the caller's locals.
LEMMA ReturnTyped ==
  ASSUME CommandInv, NEW result \in Int,
         parent' = [parent EXCEPT !.pc = "returned", !.result = result]
  PROVE  /\ parent' \in Parents /\ parent'.pc = "returned"
         /\ parent'.result = result /\ parent'.cause = parent.cause
BY Zenon DEF CommandInv, CommandTypes, Parents, Pcs

\* A return after fork(): the child has been reaped or is gone.
LEMMA ReturnStep ==
  ASSUME CommandInv, parent.pc \in Forked,
         child' \in Children, child'.state \in {"gone", "reaped"},
         child'.state = "gone" => sigchld_ignored,
         NEW result \in Int, Return(result),
         result = 0 => child'.status = 0 /\ ~child'.killed,
         ~child'.killed => result = child'.status,
         child'.killed => result = -1 \/ (result = 124 /\ expired),
         UNCHANGED <<expired, sigchld_ignored>>
  PROVE  CommandInv'
<1>1. parent' \in Parents /\ parent'.pc = "returned" /\ parent'.result = result
      /\ parent'.cause = parent.cause
  BY Zenon DEF Return, CommandInv, CommandTypes, Parents, Pcs
<1>2. closes' \in [Streams -> Nat] /\ \A s \in Streams : closes'[s] > 0
  BY DEF Return, GuardsClose, CommandInv, CommandTypes
<1>3. QED
  BY <1>1, <1>2
     DEF CommandInv, CommandTypes, ChildFollows, NothingLeftBehind,
         SignalsOwnChild, HonestResult, At, Forked, FreshChild

\* Every step of the caller keeps the invariant of the command.
LEMMA CallerKeeps ==
  ASSUME CommandInv, CallerStep
  PROVE  CommandInv'
<1>1. CASE Refuse
  <2>1. PICK r \in {127, -1} :
          parent' = [parent EXCEPT !.pc = "returned", !.result = r]
    BY Zenon, <1>1 DEF Refuse
  <2>2. /\ parent' \in Parents /\ parent'.pc = "returned"
        /\ parent'.result # 0 /\ parent'.cause = parent.cause
    <3>1. r \in Int /\ r # 0
      BY <2>1
    <3>2. QED
      BY Zenon, <2>1, <3>1, ReturnTyped
  <2>3. UNCHANGED <<child, closes, expired, sigchld_ignored>> /\ parent.pc = "pipes"
    BY <1>1 DEF Refuse, At
  <2>4. QED
    BY <2>2, <2>3
       DEF CommandInv, CommandTypes, ChildFollows, NothingLeftBehind,
           SignalsOwnChild, HonestResult, At, Forked, FreshChild
<1>2. CASE Fork
  <2>1. /\ parent.pc = "pipes" /\ child = FreshChild
        /\ UNCHANGED <<expired, sigchld_ignored>>
    BY <1>2 DEF Fork, At, CommandInv, ChildFollows
  <2>2. ASSUME Return(-1), UNCHANGED child PROVE CommandInv'
    <3>1. /\ parent' \in Parents /\ parent'.pc = "returned"
          /\ parent'.result = -1 /\ parent'.cause = parent.cause
      <4>1. -1 \in Int
        OBVIOUS
      <4>2. QED
        BY Zenon, <2>2, <4>1, ReturnTyped DEF Return
    <3>2. closes' \in [Streams -> Nat]
      BY <2>2 DEF Return, GuardsClose, CommandInv, CommandTypes
    <3>3. QED
      BY <2>1, <2>2, <3>1, <3>2
         DEF CommandInv, CommandTypes, ChildFollows, NothingLeftBehind,
             SignalsOwnChild, HonestResult, At, Forked, FreshChild
  <2>3. ASSUME Goto("nonblock"), child' = [child EXCEPT !.state = "setup"],
               UNCHANGED closes
        PROVE  CommandInv'
    <3>1. /\ parent' \in Parents /\ parent'.pc = "nonblock"
          /\ parent'.result = parent.result /\ parent'.cause = parent.cause
      BY <2>3 DEF Goto, CommandInv, CommandTypes, Parents, Pcs
    <3>2. child' \in Children /\ child'.state = "setup" /\ child'.killed = FALSE
      BY Zenon, <2>1, <2>3 DEF CommandInv, CommandTypes, Children, FreshChild
    <3>3. QED
      BY <2>1, <2>3, <3>1, <3>2
         DEF CommandInv, CommandTypes, ChildFollows, NothingLeftBehind,
             SignalsOwnChild, HonestResult, At, Forked
  <2>4. QED
    BY Zenon, <1>2, <2>2, <2>3 DEF Fork
<1>3. CASE SetNonblock \/ LoopTop \/ Poll \/ PollFails
  <2>1. /\ parent.pc \in Forked \ {"wait"}
        /\ UNCHANGED <<child, closes, expired, sigchld_ignored>>
    BY <1>3 DEF SetNonblock, LoopTop, Poll, PollFails, At, Forked
  <2>2. parent' \in Parents
    <3>1. CASE SetNonblock \/ LoopTop
      BY Zenon, <3>1 DEF SetNonblock, LoopTop, Goto, CommandInv, CommandTypes, Parents,
                  Pcs, Causes
    <3>2. CASE Poll
      BY Zenon, <3>2 DEF Poll, CommandInv, CommandTypes, Parents, Pcs, Streams
    <3>3. CASE PollFails
      BY Zenon, <3>3 DEF PollFails, Goto, CommandInv, CommandTypes, Parents, Pcs, Causes
    <3>4. QED
      BY <1>3, <3>1, <3>2, <3>3
  <2>3. /\ parent'.pc \in Forked \ {"wait"}
        /\ parent'.cause = "timed_out" => expired
        /\ parent'.result = parent.result
    BY Zenon, <1>3 DEF SetNonblock, LoopTop, Poll, PollFails, Goto, CommandInv,
                CommandTypes, ChildFollows, Parents, Forked
  <2>4. QED
    BY <2>1, <2>2, <2>3, CallerMoves, NotKilledYet
       DEF CommandInv, CommandTypes, Forked
<1>4. CASE SkipStream \/ ReadLine \/ ReadAgain \/ ReadEof \/ ReadFails
  <2>1. /\ parent.pc = "drain" /\ parent.stream \in Streams
        /\ UNCHANGED <<child, expired, sigchld_ignored>>
    BY <1>4 DEF SkipStream, ReadLine, ReadAgain, ReadEof, ReadFails, CloseStream, At,
                CommandInv, CommandTypes, Parents
  <2>2. AfterStream(parent.stream) \in Parents
    BY DEF AfterStream, CommandInv, CommandTypes, Parents, Pcs, Streams
  <2>3. /\ AfterStream(parent.stream).pc \in {"reap", parent.pc}
        /\ AfterStream(parent.stream).cause = parent.cause
        /\ AfterStream(parent.stream).result = parent.result
    BY DEF AfterStream, CommandInv, CommandTypes, Parents
  <2>4. /\ parent' \in Parents
        /\ parent'.pc \in {"reap", "drain"}
        /\ parent'.cause = parent.cause
        /\ parent'.result = parent.result
    <3>1. CASE SkipStream \/ ReadAgain
      BY <2>1, <2>2, <2>3, <3>1 DEF SkipStream, ReadAgain
    <3>2. CASE ReadLine
      BY <2>1, <3>2 DEF ReadLine, CommandInv, CommandTypes
    <3>3. CASE ReadEof \/ ReadFails
      BY <2>1, <2>2, <2>3, <3>3 DEF ReadEof, ReadFails, CloseStream, Parents
    <3>4. QED
      BY <1>4, <3>1, <3>2, <3>3
  <2>5. closes' \in [Streams -> Nat]
    BY <1>4 DEF SkipStream, ReadLine, ReadAgain, ReadEof, ReadFails, CloseStream,
                CommandInv, CommandTypes
  <2>6. QED
    BY <2>1, <2>4, <2>5, CallerMoves, NotKilledYet
       DEF CommandInv, ChildFollows, Forked
<1>5. CASE Reap
  <2>1. parent.pc = "reap" /\ UNCHANGED <<expired, sigchld_ignored>>
    BY <1>5 DEF Reap, At
  <2>2. ~child.killed
    BY <2>1, NotKilledYet
  <2>3. ASSUME child.state = "zombie", Reaped, Return(child.status)
        PROVE  CommandInv'
    <3>1. /\ child' \in Children /\ child'.state = "reaped"
          /\ child'.status = child.status /\ child'.killed = child.killed
      BY <2>3 DEF Reaped, CommandInv, CommandTypes, Children
    <3>2. child.status \in Int
      <4>1. child.status \in Statuses
        BY DEF CommandInv, CommandTypes, Children
      <4>2. Statuses \subseteq Int
        BY StatusAssumption DEF Statuses, None, Sigkill
      <4>3. QED
        BY <4>1, <4>2
    <3>3. QED
      BY <2>1, <2>2, <2>3, <3>1, <3>2, ReturnStep DEF Forked
  <2>4. ASSUME parent' = [parent EXCEPT !.pc = "kill", !.cause = "fatal_error"],
               UNCHANGED <<child, closes>>
        PROVE  CommandInv'
    <3>1. /\ parent' \in Parents /\ parent'.pc = "kill"
          /\ parent'.cause = "fatal_error" /\ parent'.result = parent.result
      BY Zenon, <2>4 DEF CommandInv, CommandTypes, Parents, Pcs, Causes
    <3>2. QED
      BY <2>1, <2>2, <2>4, <3>1, CallerMoves DEF CommandInv, CommandTypes, Forked
  <2>5. ASSUME Goto("top"), UNCHANGED <<child, closes>>
        PROVE  CommandInv'
    <3>1. /\ parent' \in Parents /\ parent'.pc = "top"
          /\ parent'.cause = parent.cause /\ parent'.result = parent.result
      BY <2>5 DEF Goto, CommandInv, CommandTypes, Parents, Pcs
    <3>2. QED
      BY <2>1, <2>2, <2>5, <3>1, CallerMoves
         DEF CommandInv, CommandTypes, ChildFollows, Forked
  <2>6. QED
    BY <1>5, <2>3, <2>4, <2>5 DEF Reap
<1>6. CASE Kill
  <2>1. /\ parent.pc = "kill" /\ UNCHANGED <<closes, expired, sigchld_ignored>>
    BY <1>6 DEF Kill, At
  <2>2. /\ child' \in Children /\ child'.state = child.state
        /\ child'.killed = TRUE
    BY Zenon, <1>6 DEF Kill, CommandInv, CommandTypes, Children
  <2>3. /\ parent' \in Parents /\ parent'.pc = "wait"
        /\ parent'.cause = parent.cause /\ parent'.result = parent.result
    BY <1>6 DEF Kill, Goto, CommandInv, CommandTypes, Parents, Pcs
  <2>4. child.state \in {"setup", "running", "zombie", "gone"}
    BY <2>1 DEF CommandInv, ChildFollows, Forked
  <2>5. QED
    BY <2>1, <2>2, <2>3, <2>4
       DEF CommandInv, CommandTypes, ChildFollows, NothingLeftBehind,
           SignalsOwnChild, HonestResult, At, Forked
<1>7. CASE Wait
  <2>1. parent.pc = "wait" /\ UNCHANGED <<expired, sigchld_ignored>>
    BY <1>7 DEF Wait, At
  <2>2. ASSUME child.state = "zombie", Reaped, Return(KilledResult)
        PROVE  CommandInv'
    <3>1. child' \in Children /\ child'.state = "reaped" /\ child'.killed
      BY <2>1, <2>2 DEF Reaped, CommandInv, CommandTypes, ChildFollows, Children
    <3>2. /\ KilledResult \in Int \ {0}
          /\ KilledResult = -1 \/ (KilledResult = 124 /\ expired)
      BY DEF KilledResult, CommandInv, ChildFollows
    <3>3. QED
      BY <2>1, <2>2, <3>1, <3>2, ReturnStep DEF Forked
  <2>3. ASSUME child.state = "gone", Return(-1), UNCHANGED child
        PROVE  CommandInv'
    BY <2>1, <2>3, ReturnStep DEF Forked, CommandInv, CommandTypes, ChildFollows
  <2>4. QED
    BY <1>7, <2>2, <2>3 DEF Wait
<1>8. QED
  BY <1>1, <1>2, <1>3, <1>4, <1>5, <1>6, <1>7 DEF CallerStep, CallerProceeds

\* The deadline's passing keeps it too.
LEMMA ClockKeeps ==
  ASSUME CommandInv, DeadlinePasses
  PROVE  CommandInv'
BY DEF DeadlinePasses, CommandInv, CommandTypes, ChildFollows, NothingLeftBehind,
       SignalsOwnChild, HonestResult, At, FreshChild

-----------------------------------------------------------------------------
(* The output *)

\* What was read, and what is still in the pipe of stdout, are lines of the set
\* the child prints from.
OutputFrom(lines) ==
  /\ text \in Seq(lines)
  /\ pipe \in [Streams -> Seq(lines \cup {"message"})]
  /\ pipe[1] \in Seq(lines)

\* A call starts without output.
LEMMA NoOutput ==
  ASSUME NEW lines
  PROVE  <<>> \in Seq(lines) /\ Both(<<>>) \in [Streams -> Seq(lines \cup {"message"})]
         /\ Both(<<>>)[1] = <<>>
BY SMTT(30) DEF Both, Streams

\* Reading and writing move lines, and add only lines of that set.
LEMMA OutputKeeps ==
  ASSUME NEW lines, OutputFrom(lines),
         CallerStep \/ ChildStep(lines) \/ DeadlinePasses
  PROVE  OutputFrom(lines)'
<1>1. CASE ReadLine
  <2>1. PICK s \in {parent.stream} : /\ s \in parent.revents /\ pipe[s] # <<>>
                         /\ pipe' = [pipe EXCEPT ![s] = Tail(@)]
                         /\ text' = IF s = 1 THEN Append(text, Head(pipe[s]))
                                             ELSE text
    BY <1>1 DEF ReadLine
  <2>2. CASE s \notin Streams
    <3>1. pipe' = pipe /\ text' = text
      BY <2>1, <2>2 DEF OutputFrom, Streams
    <3>2. QED
      BY <3>1 DEF OutputFrom
  <2>3. CASE s = 1
    <3>1. /\ Head(pipe[1]) \in lines
          /\ Tail(pipe[1]) \in Seq(lines)
      BY <2>1, <2>3 DEF OutputFrom
    <3>2. Tail(pipe[1]) \in Seq(lines \cup {"message"})
      BY <2>1, <2>3 DEF OutputFrom, Streams
    <3>3. /\ pipe' \in [Streams -> Seq(lines \cup {"message"})]
          /\ pipe'[1] = Tail(pipe[1])
      BY <2>1, <2>3, <3>2 DEF OutputFrom, Streams
    <3>4. text' \in Seq(lines)
      BY <2>1, <2>3, <3>1 DEF OutputFrom
    <3>5. QED
      BY <3>1, <3>3, <3>4 DEF OutputFrom
  <2>4. CASE s = 2
    <3>1. Tail(pipe[2]) \in Seq(lines \cup {"message"})
      BY <2>1, <2>4 DEF OutputFrom, Streams
    <3>2. /\ pipe' \in [Streams -> Seq(lines \cup {"message"})]
          /\ pipe'[1] = pipe[1]
      BY <2>1, <2>4, <3>1 DEF OutputFrom, Streams
    <3>3. QED
      BY <2>1, <2>4, <3>2 DEF OutputFrom
  <2>5. QED
    BY <2>2, <2>3, <2>4 DEF Streams
<1>2. CASE \E line \in lines : ChildWrite(1, line)
  <2>1. PICK line \in lines : ChildWrite(1, line)
    BY <1>2
  <2>2. /\ Append(pipe[1], line) \in Seq(lines)
        /\ Append(pipe[1], line) \in Seq(lines \cup {"message"})
    BY DEF OutputFrom, Streams
  <2>3. /\ pipe' \in [Streams -> Seq(lines \cup {"message"})]
        /\ pipe'[1] = Append(pipe[1], line)
        /\ text' = text
    BY <2>1, <2>2 DEF ChildWrite, OutputFrom, Streams
  <2>4. QED
    BY <2>2, <2>3 DEF OutputFrom
<1>3. CASE ChildWrite(2, "message")
  <2>1. Append(pipe[2], "message") \in Seq(lines \cup {"message"})
    BY DEF OutputFrom, Streams
  <2>2. /\ pipe' \in [Streams -> Seq(lines \cup {"message"})]
        /\ pipe'[1] = pipe[1]
        /\ text' = text
    BY <1>3, <2>1 DEF ChildWrite, OutputFrom, Streams
  <2>3. QED
    BY <2>2 DEF OutputFrom
<1>4. CASE UNCHANGED <<text, pipe>>
  BY <1>4 DEF OutputFrom
<1>5. QED
  BY Zenon, <1>1, <1>2, <1>3, <1>4
     DEF CallerStep, CallerProceeds, Refuse, Fork, SetNonblock, LoopTop, Poll, PollFails, SkipStream,
         ReadAgain, ReadEof, ReadFails, CloseStream, Reap, Kill, Wait, ChildStep, ChildSetup, ChildExit,
         ChildKilled, Die, ChildClose, DeadlinePasses

-----------------------------------------------------------------------------
(* The parsers *)

\* An entry that matches the expected address is the expected address.
LEMMA MatchIsHost ==
  ASSUME NEW e \in Entry, HostAddress.valid, MatchesHost(e)
  PROVE  e = HostAddress
BY LinesAssumption DEF Entry, MatchesHost

\* What was read was printed.
LEMMA ReadWasPrinted ==
  ASSUME NEW lines, OutputFrom(lines)
  PROVE  /\ DOMAIN text \subseteq DOMAIN Printed
         /\ \A i \in DOMAIN text : Printed[i] = text[i] /\ text[i] \in lines
         /\ DOMAIN text = 1..Len(text)
BY DEF OutputFrom, Printed

\* A matching address among those parse_ip_addr_output found was printed.
LEMMA AddressWasShown ==
  ASSUME OutputFrom(AddrLines), HostAddress.valid,
         NEW e \in AddressesIn(text), MatchesHost(e)
  PROVE  ShowsHost
<1>1. PICK l \in ToSet(text) : l.inet /\ e = l.entry
  BY DEF AddressesIn
<1>2. PICK i \in DOMAIN text : l = text[i]
  BY <1>1 DEF ToSet
<1>3. l \in AddrLines /\ l \in ToSet(Printed)
  BY <1>2, ReadWasPrinted DEF ToSet
<1>4. l.entry = HostAddress
  BY <1>1, <1>3, LinesAssumption, MatchIsHost
<1>5. QED
  BY <1>1, <1>3, <1>4 DEF ShowsHost

\* A set of natural numbers has a least element.
LEMMA LeastNatural ==
  ASSUME NEW S, S \subseteq Nat, S # {}
  PROVE  \E m \in S : \A k \in S : m <= k
<1> DEFINE R == OpToRel(<, Nat)
<1>1. IsWellFoundedOn(R, Nat)
  BY Zenon, NatLessThanWellFounded
<1>2. \A x, y \in Nat : y < x => <<y, x>> \in R
  BY DEF OpToRel
<1> HIDE DEF R
<1>3. PICK x \in S : \A y \in S : ~(<<y, x>> \in R)
  BY Zenon, <1>1, WFMin
<1>4. \A k \in S : ~(k < x)
  BY <1>2, <1>3, Zenon
<1>5. \A k \in S : x <= k
  BY <1>4
<1>6. QED
  BY <1>5

\* Min picks it.
LEMMA MinIsLeast ==
  ASSUME NEW S, S \subseteq Nat, S # {}
  PROVE  Min(S) \in S /\ \A k \in S : Min(S) <= k
<1>1. \E m \in S : \A k \in S : m <= k
  BY Zenon, LeastNatural
<1>2. QED
  BY Zenon, <1>1 DEF Min

\* The route parse_ip_route_get_output found is a line that was read.
LEMMA RouteTyped ==
  ASSUME OutputFrom(RouteLines), RouteIn(text) # <<>>
  PROVE  RouteIn(text)[1] \in RouteLines
<1> DEFINE complete == {i \in DOMAIN text : Complete(text[i])}
<1>1. complete # {} /\ RouteIn(text) = <<text[Min(complete)]>>
  BY DEF RouteIn
<1>2. complete \subseteq Nat
  BY ReadWasPrinted
<1>3. Min(complete) \in complete
  <2> HIDE DEF complete
  <2>1. QED
    BY Zenon, <1>1, <1>2, MinIsLeast
<1>4. text[Min(complete)] \in RouteLines
  BY <1>3, ReadWasPrinted
<1>5. QED
  BY <1>1, <1>4

\* The route parse_ip_route_get_output found is the first complete one printed:
\* what was not read comes after it.
LEMMA RouteWasShown ==
  ASSUME OutputFrom(RouteLines), RouteIn(text) # <<>>,
         RouteIn(text)[1].dev = Interface,
         RouteIn(text)[1].src = HostAddress.address
  PROVE  ShowsRoute
<1> DEFINE complete == {i \in DOMAIN text : Complete(text[i])}
<1>1. complete # {} /\ RouteIn(text) = <<text[Min(complete)]>>
  BY DEF RouteIn
<1>2. complete \subseteq Nat
  BY ReadWasPrinted
<1>3. Min(complete) \in complete /\ \A k \in complete : Min(complete) <= k
  <2> HIDE DEF complete
  <2>1. QED
    BY Zenon, <1>1, <1>2, MinIsLeast
<1>4. PICK i \in DOMAIN text : i = Min(complete)
  BY Zenon, <1>3
<1>5. \A j \in 1..(i - 1) : j \in DOMAIN text /\ ~Complete(text[j])
  <2>1. DOMAIN text = 1..Len(text) /\ Len(text) \in Nat
    BY ReadWasPrinted DEF OutputFrom
  <2>2. TAKE j \in 1..(i - 1)
  <2>3. j \in DOMAIN text /\ ~(i <= j)
    BY <2>1
  <2>4. j \notin complete
    BY <1>3, <1>4, <2>3
  <2>5. QED
    BY <2>3, <2>4
<1>6. \A j \in 1..(i - 1) : ~Complete(Printed[j])
  BY <1>5, ReadWasPrinted
<1>7. /\ i \in DOMAIN Printed
      /\ Printed[i].dev = Interface
      /\ Printed[i].src = HostAddress.address
  BY <1>1, <1>4, ReadWasPrinted
<1>8. QED
  BY <1>6, <1>7 DEF ShowsRoute

-----------------------------------------------------------------------------
(* check() *)

Facts == [addresses : SUBSET Entry, addresses_error : BOOLEAN,
          route_interface : {""} \cup {l.dev : l \in RouteLines},
          route_source : {""} \cup {l.src : l \in RouteLines},
          route_error : BOOLEAN]

\* Where check() is between its probes: a check that has decided runs no command,
\* and an answer exists only then.
CheckTypes ==
  /\ probe \in Probes \cup {"decided"}
  /\ facts \in Facts
  /\ measured \subseteq Probes
  /\ probe = "decided" => parent.pc = "pipes" /\ text = <<>> /\ pipe = Both(<<>>)
  /\ probe # "decided" => decision = "none"

\* The host's address is among the facts only if the address probe showed it.
AddressMeasured ==
  /\ probe = "addr" => facts = NoFacts
  /\ probe = "route" /\ HostAddress.valid /\ (\E e \in facts.addresses : MatchesHost(e))
       => "addr" \in measured

\* The inductive invariant of the preflight.
PreflightInv ==
  /\ CommandInv
  /\ OutputFrom(Lines)
  /\ CheckTypes
  /\ AddressMeasured
  /\ ReadyIsSound

\* A check that has found nothing yet has facts of their type.
LEMMA NoFactsTyped == NoFacts \in Facts
BY DEF NoFacts, Facts

\* The constructor's state satisfies the invariant.
LEMMA PreflightStarts == PreflightInit => PreflightInv
<1> SUFFICES ASSUME PreflightInit PROVE PreflightInv
  OBVIOUS
<1>1. CommandInv
  BY CommandStarts DEF PreflightInit
<1>2. OutputFrom(Lines)
  BY Zenon, NoOutput DEF PreflightInit, Init, OutputFrom
<1>3. CheckTypes
  BY NoFactsTyped DEF PreflightInit, CheckTypes, Probes
<1>4. AddressMeasured /\ ReadyIsSound
  BY DEF PreflightInit, AddressMeasured, ReadyIsSound, Probes
<1>5. QED
  BY <1>1, <1>2, <1>3, <1>4 DEF PreflightInv

\* While check() has decided there is no child and no deadline to pass.
LEMMA NothingRuns ==
  ASSUME PreflightInv, probe = "decided"
  PROVE  ~ChildStep(Lines) /\ ~DeadlinePasses
<1>1. child = FreshChild /\ parent.pc = "pipes"
  BY DEF PreflightInv, CommandInv, ChildFollows, CheckTypes
<1>2. child.state = "none"
  BY <1>1 DEF FreshChild
<1>3. QED
  BY <1>1, <1>2 DEF ChildStep, ChildSetup, ChildExit, ChildKilled, ChildWrite,
                    ChildClose, DeadlinePasses

\* The address probe's result.
LEMMA AddrDoneKeeps == PreflightInv /\ AddrDone => PreflightInv'
<1> SUFFICES ASSUME PreflightInv, AddrDone PROVE PreflightInv'
  OBVIOUS
<1>1. /\ parent.pc = "returned" /\ probe = "addr" /\ probe' = "route"
      /\ facts' = AddrFacts /\ decision' = decision /\ facts = NoFacts
      /\ decision = "none" /\ NewCall /\ Measure(ShowsHost)
  BY DEF AddrDone, At, PreflightInv, AddressMeasured, CheckTypes
<1>2. CommandInv'
  BY <1>1, CommandRestarts DEF PreflightInv
<1>3. OutputFrom(Lines)'
  BY Zenon, <1>1, NoOutput DEF NewCall, OutputFrom
<1>4. OutputFrom(AddrLines)
  BY <1>1 DEF PreflightInv, Lines
<1>5. AddressesIn(text) \subseteq Entry
  <2>1. \A i \in DOMAIN text : text[i].entry \in Entry
    BY <1>4, ReadWasPrinted, LinesAssumption
  <2>2. QED
    BY <2>1 DEF AddressesIn, ToSet
<1>6. facts' \in Facts
  BY Zenon, <1>1, <1>5, NoFactsTyped DEF AddrFacts, Facts
<1>7. measured' \subseteq Probes
  BY <1>1 DEF Measure, PreflightInv, CheckTypes, Probes
<1>8. CheckTypes'
  BY <1>1, <1>6, <1>7 DEF CheckTypes, Probes
<1>9. AddressMeasured'
  <2>1. SUFFICES ASSUME HostAddress.valid, NEW e \in facts'.addresses, MatchesHost(e)
                 PROVE  "addr" \in measured'
    BY <1>1 DEF AddressMeasured
  <2>2. Succeeded /\ e \in AddressesIn(text)
    BY Zenon, <1>1, <2>1 DEF AddrFacts, NoFacts
  <2>3. ShowsHost
    BY <1>4, <2>1, <2>2, AddressWasShown
  <2>4. child.status = 0 /\ ~child.killed
    BY <1>1, <2>2 DEF Succeeded, PreflightInv, CommandInv, HonestResult, At
  <2>5. QED
    BY <1>1, <2>3, <2>4 DEF Measure
<1>10. ReadyIsSound'
  BY <1>1 DEF ReadyIsSound
<1>11. QED
  BY <1>2, <1>3, <1>8, <1>9, <1>10 DEF PreflightInv

\* The route probe's result, and the answer.
LEMMA RouteDoneKeeps == PreflightInv /\ RouteDone => PreflightInv'
<1> SUFFICES ASSUME PreflightInv, RouteDone PROVE PreflightInv'
  OBVIOUS
<1>1. /\ parent.pc = "returned" /\ probe = "route" /\ probe' = "decided"
      /\ facts' = RouteFacts /\ NewCall /\ Measure(ShowsRoute)
      /\ decision' = IF evaluate_network(facts') THEN "ready" ELSE "not_ready"
  BY DEF RouteDone, At
<1>2. CommandInv'
  BY <1>1, CommandRestarts DEF PreflightInv
<1>3. OutputFrom(Lines)'
  BY Zenon, <1>1, NoOutput DEF NewCall, OutputFrom
<1>4. OutputFrom(RouteLines)
  BY <1>1 DEF PreflightInv, Lines
<1>5. RouteIn(text) # <<>> => RouteIn(text)[1] \in RouteLines
  BY <1>4, RouteTyped
<1>6. /\ facts' \in Facts
      /\ facts'.addresses = facts.addresses
  BY Zenon, <1>1, <1>5 DEF RouteFacts, PreflightInv, CheckTypes, Facts
<1>7. measured' \subseteq Probes
  BY <1>1 DEF Measure, PreflightInv, CheckTypes, Probes
<1>8. CheckTypes'
  BY <1>1, <1>6, <1>7 DEF CheckTypes, NewCall, FreshParent
<1>9. AddressMeasured'
  BY <1>1 DEF AddressMeasured
<1>10. ReadyIsSound'
  <2>1. SUFFICES ASSUME evaluate_network(facts') PROVE measured' = Probes
    BY <1>1 DEF ReadyIsSound
  <2>2. "addr" \in measured
    BY Zenon, <1>1, <1>6, <2>1 DEF evaluate_network, PreflightInv, AddressMeasured
  <2>3. /\ Succeeded /\ RouteIn(text) # <<>>
        /\ facts'.route_interface = RouteIn(text)[1].dev
        /\ facts'.route_source = RouteIn(text)[1].src
    BY Zenon, <1>1, <2>1 DEF RouteFacts, evaluate_network, PreflightInv, CheckTypes, Facts
  <2>4. ShowsRoute
    BY Zenon, <1>4, <2>1, <2>3, RouteWasShown DEF evaluate_network
  <2>5. child.status = 0 /\ ~child.killed
    BY <1>1, <2>3 DEF Succeeded, PreflightInv, CommandInv, HonestResult, At
  <2>6. measured' = measured \cup {"route"}
    BY <1>1, <2>4, <2>5 DEF Measure
  <2>7. QED
    BY Zenon, <2>2, <2>6, <1>7 DEF Probes
<1>11. QED
  BY <1>2, <1>3, <1>8, <1>9, <1>10 DEF PreflightInv

\* Every step keeps the invariant.
LEMMA PreflightKeeps == PreflightInv /\ [Next]_allvars => PreflightInv'
<1> SUFFICES ASSUME PreflightInv, [Next]_allvars PROVE PreflightInv'
  OBVIOUS
<1>1. CASE Caller \/ Child \/ Clock
  <2>1. /\ UNCHANGED preflight
        /\ CallerStep \/ ChildStep(Lines) \/ DeadlinePasses
        /\ probe \in Probes
    <3>1. probe # "decided"
      BY <1>1, NothingRuns DEF Caller, Child, Clock, Probes
    <3>2. QED
      BY <1>1, <3>1 DEF Caller, Child, Clock, PreflightInv, CheckTypes
  <2>2. CommandInv'
    BY <2>1, CallerKeeps, ChildKeeps, ClockKeeps DEF PreflightInv
  <2>3. OutputFrom(Lines)'
    <3>1. Lines' = Lines
      BY <2>1 DEF preflight, Lines
    <3>2. PICK lines \in {Lines} : TRUE
      OBVIOUS
    <3>3. OutputFrom(lines)'
      BY <2>1, <3>2, OutputKeeps DEF PreflightInv
    <3>4. QED
      BY <3>1, <3>2, <3>3 DEF OutputFrom
  <2>4. CheckTypes' /\ AddressMeasured' /\ ReadyIsSound'
    BY <2>1 DEF preflight, PreflightInv, CheckTypes, AddressMeasured, ReadyIsSound,
                Probes
  <2>5. QED
    BY <2>2, <2>3, <2>4 DEF PreflightInv
<1>2. CASE AddrDone
  BY <1>2, AddrDoneKeeps
<1>3. CASE RouteDone
  BY <1>3, RouteDoneKeeps
<1>4. CASE NextCheck
  <2>1. /\ probe = "decided" /\ probe' = "addr" /\ facts' = NoFacts
        /\ decision' = "none" /\ measured' = {} /\ UNCHANGED vars
    BY <1>4 DEF NextCheck
  <2>2. CommandInv'
    BY <2>1 DEF vars, PreflightInv, CommandInv, CommandTypes, ChildFollows,
                NothingLeftBehind, SignalsOwnChild, HonestResult, At
  <2>3. OutputFrom(Lines)'
    BY Zenon, <2>1, NoOutput DEF vars, PreflightInv, CheckTypes, OutputFrom
  <2>4. CheckTypes'
    BY <2>1, NoFactsTyped DEF CheckTypes, Probes
  <2>5. AddressMeasured' /\ ReadyIsSound'
    BY <2>1 DEF AddressMeasured, ReadyIsSound
  <2>6. QED
    BY <2>2, <2>3, <2>4, <2>5 DEF PreflightInv
<1>5. CASE UNCHANGED allvars
  <2>1. UNCHANGED vars /\ UNCHANGED preflight
    BY <1>5 DEF allvars
  <2>2. CommandInv'
    BY <2>1 DEF vars, PreflightInv, CommandInv, CommandTypes, ChildFollows,
                NothingLeftBehind, SignalsOwnChild, HonestResult, At
  <2>3. OutputFrom(Lines)'
    BY <2>1 DEF vars, preflight, PreflightInv, OutputFrom, Lines
  <2>4. CheckTypes' /\ AddressMeasured' /\ ReadyIsSound'
    BY <2>1 DEF vars, preflight, PreflightInv, CheckTypes, AddressMeasured,
                ReadyIsSound
  <2>5. QED
    BY <2>2, <2>3, <2>4 DEF PreflightInv
<1>6. QED
  BY <1>1, <1>2, <1>3, <1>4, <1>5 DEF Next

\* The invariant holds in every state of the preflight.
LEMMA PreflightInvariance == Spec => []PreflightInv
  BY PreflightStarts, PreflightKeeps, PTL DEF Spec

\* When execute_readonly_command has returned, on whichever path, no process is
\* left and every read end is closed, with any amount of output, any pipe capacity
\* and SIGCHLD ignored or not (321-444).
THEOREM CommandCleansUp == Spec => []NothingLeftBehind
<1>1. PreflightInv => NothingLeftBehind
  BY DEF PreflightInv, CommandInv
<1>2. QED
  BY <1>1, PreflightInvariance, PTL

\* Unless SIGCHLD is ignored, it kills only a child that still exists, however the
\* child's death, the deadline and the reaping fall together (403-417).
THEOREM KillsOwnChild == Spec => []SignalsOwnChild
<1>1. PreflightInv => SignalsOwnChild
  BY DEF PreflightInv, CommandInv
<1>2. QED
  BY <1>1, PreflightInvariance, PTL

\* It reports success only of a child that ended by itself with status 0, passes on
\* unchanged whatever status a child ends with by itself, and answers for a child it
\* killed with 124, only after the deadline, or with -1 (414-444).
THEOREM ResultIsHonest == Spec => []HonestResult
<1>1. PreflightInv => HonestResult
  BY DEF PreflightInv, CommandInv
<1>2. QED
  BY <1>1, PreflightInvariance, PTL

\* check() answers ready only when both probes ended by themselves with status 0
\* and printed the expected address and, first of the complete ones, the
\* expected route (457-498), whatever lines the commands may print.
THEOREM ReadyOnEvidence == Spec => []ReadyIsSound
<1>1. PreflightInv => ReadyIsSound
  BY DEF PreflightInv
<1>2. QED
  BY <1>1, PreflightInvariance, PTL
=============================================================================
