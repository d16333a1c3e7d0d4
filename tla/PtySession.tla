----------------------------- MODULE PtySession -----------------------------
(***************************************************************************)
(* A session with a command: src/src/pty/process.rs, pipe.rs, pty.rs and   *)
(* the legacy Windows backend of src/src/windows/unified_exec.             *)
(*                                                                         *)
(*   backend    reader of the output     exit found by     terminate       *)
(*   "pipe"     async task               async wait task   kills the group *)
(*   "pty"      blocking thread          blocking thread   kills the group *)
(*   "fds"      as "pty", with inherited file descriptors                  *)
(*   "legacy"   thread, broadcast and    waiter thread,    kills the       *)
(*              async stream task        async wait task   process         *)
(*   "elevated" frames of a runner: module RunnerSession                   *)
(*                                                                         *)
(* stdout and stderr are alike, but that the notice of a lost runner goes  *)
(* to stderr where there is one: the output it goes to is modelled, and th *)
(* other one ends without.  Chunks are numbered.  Output and input end at  *)
(* bounded channels, and every bound of the code is kept as a (smaller)    *)
(* bound.                                                                  *)
(***************************************************************************)
EXTENDS Integers, Sequences

CONSTANTS Scenarios,     \* the sessions to look at: backend, whether it has a timeout,
                         \* and bounds on the chunks of output and writes of the client
          PipeCap,       \* chunks in the pipe of the operating system
          BroadcastCap,  \* chunks the broadcast channel retains (256 in the code)
          QueueCap,      \* chunks in the mpsc channel to the client (128, 256)
          InputCap,      \* writes in the mpsc channel from the client (128)
          StdinCap       \* writes the stdin of the command holds

ASSUME CapsAssumption ==
    /\ Scenarios \subseteq [backend : {"pipe", "pty", "fds", "legacy", "elevated"},
                             timed : BOOLEAN, chunks : Nat, writes : Nat]
    /\ \A n \in {PipeCap, BroadcastCap, QueueCap, InputCap, StdinCap} : n \in Nat \ {0}

VARIABLES
    scenario,   \* which session this is
    command,    \* [is, code, made, child]: the command and a descendant that holds its output
    chan,       \* [pipe, bcast, queue, input]: what is under way
    stdin,      \* [level, open] of the command
    task,       \* [reader, stream, wait, writer]: where the tasks are
    exit,       \* [ch, seen, code, told]: the exit on its way to the client
    waiter,     \* the waiter thread of the legacy backend
    client      \* [got, eof, listening, asked, aborted, sending, writes]

sessionVars == <<scenario, command, chan, stdin, task, exit, waiter, client>>

NoCode == "none"

\* What stands among the chunks for the notice of a lost runner (send_runner_error)
Notice == -1

\* the codes: the command's own, that of TerminateProcess, that of a signal, that
\* of a runner whose command was out of time, and that of a lost connection
Codes == {"own", "terminated", "signal", "timeout", "lost"}

backend == scenario.backend
timed == scenario.timed

Running == command.is = "running"
Ended == command.is = "ended"

OnPty == backend \in {"pty", "fds"}
Direct == backend = "pipe" \/ OnPty

\* What abort() stops: async tasks.  Blocking threads go on, and the writer of a
\* pty blocks in its task, which cannot be stopped meanwhile.
PipeAborts == {"reader", "wait", "writer"}
PtyAborts == IF Running /\ chan.input > 0 /\ stdin.level = StdinCap THEN {} ELSE {"writer"}
DriverAborts == {"stream", "wait"}

ReaderAt == {"off", "running", "done", "aborted"}
CodeOrNone == Codes \cup {NoCode}

TypeOK ==
    /\ scenario \in Scenarios
    /\ command \in [is : {"none", "running", "ended"}, code : CodeOrNone,
                    made : 0..scenario.chunks, child : {"no", "kin", "free"}]
    /\ chan.pipe \in Seq(1..scenario.chunks)
    /\ \A c \in {chan.bcast, chan.queue, client.got} : c \in Seq({Notice} \cup 1..scenario.chunks)
    /\ Len(chan.pipe) <= PipeCap /\ Len(chan.bcast) <= BroadcastCap
    /\ Len(chan.queue) <= QueueCap /\ chan.input \in 0..InputCap
    /\ stdin \in [level : 0..StdinCap, open : BOOLEAN]
    /\ \A t \in {task.reader, task.stream, task.writer} : t \in ReaderAt
    /\ task.wait \in {"waiting", "storing", "done", "aborted"}
    /\ exit \in [ch : CodeOrNone, seen : BOOLEAN, code : CodeOrNone, told : CodeOrNone]
    /\ waiter \in {"off", "waiting", "expired", "finishing", "joining", "done"}
    /\ client.writes \in 0..scenario.writes

DirectTasks == [reader |-> "running", stream |-> "off", wait |-> "waiting", writer |-> "running"]
LegacyTasks == [DirectTasks EXCEPT !.stream = "running"]

SessionInit ==
    /\ scenario \in Scenarios
    /\ LET up == backend # "elevated" IN
       /\ command = [is |-> IF up THEN "running" ELSE "none", code |-> NoCode,
                     made |-> 0, child |-> "no"]
       /\ task = CASE Direct -> DirectTasks
                   [] backend = "legacy" -> LegacyTasks
                   [] OTHER -> [LegacyTasks EXCEPT !.reader = "off"]
    /\ chan = [pipe |-> <<>>, bcast |-> <<>>, queue |-> <<>>, input |-> 0]
    /\ stdin = [level |-> 0, open |-> TRUE]
    /\ exit = [ch |-> NoCode, seen |-> FALSE, code |-> NoCode, told |-> NoCode]
    /\ waiter = IF backend = "legacy" THEN "waiting" ELSE "off"
    /\ client = [got |-> <<>>, eof |-> FALSE, asked |-> FALSE, aborted |-> FALSE, writes |-> 0,
                 listening |-> backend # "elevated", sending |-> backend # "elevated"]

-----------------------------------------------------------------------------
(* The command.                                                            *)

\* the output pipe is at its end: nobody is left that could write to it
AtEof == chan.pipe = <<>> /\ Ended /\ command.child = "no"

Killed(cmd, code) ==
    IF cmd.is = "running" THEN [cmd EXCEPT !.is = "ended", !.code = code] ELSE cmd
KinKilled(cmd) == [cmd EXCEPT !.child = IF @ = "kin" THEN "no" ELSE @]

Produce ==
    /\ Running \/ command.child # "no"
    /\ command.made < scenario.chunks /\ Len(chan.pipe) < PipeCap
    /\ task.reader # "aborted"
    /\ command' = [command EXCEPT !.made = @ + 1]
    /\ chan' = [chan EXCEPT !.pipe = Append(@, command.made + 1)]
    /\ UNCHANGED <<scenario, stdin, task, exit, waiter, client>>

\* The command starts a descendant that keeps the output open: in the process
\* group (or job) of the command, or out of it.
Fork(kinds) ==
    /\ Running /\ command.child = "no"
    /\ \E k \in kinds : command' = [command EXCEPT !.child = k]
    /\ UNCHANGED <<scenario, chan, stdin, task, exit, waiter, client>>

ChildEnds ==
    /\ command.child # "no"
    /\ command' = [command EXCEPT !.child = "no"]
    /\ UNCHANGED <<scenario, chan, stdin, task, exit, waiter, client>>

CommandEnds ==
    /\ Running
    /\ command' = [command EXCEPT !.is = "ended", !.code = "own"]
    /\ UNCHANGED <<scenario, chan, stdin, task, exit, waiter, client>>

CommandReads ==
    /\ Running /\ stdin.level > 0
    /\ stdin' = [stdin EXCEPT !.level = @ - 1]
    /\ UNCHANGED <<scenario, command, chan, task, exit, waiter, client>>

-----------------------------------------------------------------------------
(* Output: read_output_stream and the pty reader send what they read to    *)
(* the client and ignore that nobody listens; the legacy reader sends to a *)
(* broadcast channel, which drops its oldest chunk when it is full, and    *)
(* never waits.                                                            *)

ReadDirect ==
    /\ Direct /\ task.reader = "running" /\ chan.pipe # <<>>
    /\ client.listening => Len(chan.queue) < QueueCap
    /\ chan' = [chan EXCEPT !.pipe = Tail(@),
                            !.queue = IF client.listening
                                      THEN Append(@, Head(chan.pipe)) ELSE @]
    /\ UNCHANGED <<scenario, command, stdin, task, exit, waiter, client>>

\* A bug: nothing is dropped.
Broadcast_Unbounded(queue, c) == Append(queue, c)

\* The channel retains the newest chunks.
Broadcast(queue, c) ==
    Append(IF Len(queue) = BroadcastCap THEN Tail(queue) ELSE queue, c)

ReadLegacy ==
    /\ backend = "legacy" /\ task.reader = "running" /\ chan.pipe # <<>>
    /\ chan' = [chan EXCEPT !.pipe = Tail(@),
                            !.bcast = Broadcast(@, Head(chan.pipe))]
    /\ UNCHANGED <<scenario, command, stdin, task, exit, waiter, client>>

ReadEof ==
    /\ backend # "elevated" /\ task.reader = "running" /\ AtEof
    /\ task' = [task EXCEPT !.reader = "done"]
    /\ UNCHANGED <<scenario, command, chan, stdin, exit, waiter, client>>

\* The stream task of spawn_from_driver; Lagged only makes it go on.
StreamForwards ==
    /\ task.stream = "running" /\ chan.bcast # <<>>
    /\ IF client.listening
       THEN /\ Len(chan.queue) < QueueCap
            /\ chan' = [chan EXCEPT !.bcast = Tail(@),
                                    !.queue = Append(@, Head(chan.bcast))]
            /\ UNCHANGED task
       ELSE /\ chan' = [chan EXCEPT !.bcast = Tail(@)]
            /\ task' = [task EXCEPT !.stream = "done"]
    /\ UNCHANGED <<scenario, command, stdin, exit, waiter, client>>

StreamEnds ==
    /\ task.stream = "running" /\ chan.bcast = <<>> /\ task.reader = "done"
    /\ task' = [task EXCEPT !.stream = "done"]
    /\ UNCHANGED <<scenario, command, chan, stdin, exit, waiter, client>>

-----------------------------------------------------------------------------
(* The exit.                                                               *)

\* what the wait task waits for: the child itself, or the channel of the driver
ExitKnown == IF Direct THEN Ended ELSE exit.ch # NoCode
KnownCode == IF Direct THEN command.code ELSE exit.ch

WaitSees ==
    /\ task.wait = "waiting" /\ ExitKnown
    /\ task' = [task EXCEPT !.wait = "storing"]
    /\ exit' = [exit EXCEPT !.seen = TRUE]
    /\ UNCHANGED <<scenario, command, chan, stdin, waiter, client>>

WaitTells ==
    /\ task.wait = "storing"
    /\ task' = [task EXCEPT !.wait = "done"]
    /\ exit' = [exit EXCEPT !.code = KnownCode, !.told = KnownCode]
    /\ UNCHANGED <<scenario, command, chan, stdin, waiter, client>>

\* The waiter thread of the legacy backend: it waits without the mutex, takes
\* it only to terminate, and tells the exit after the readers are joined.
WaiterTimesOut ==
    /\ waiter = "waiting" /\ timed /\ Running
    /\ waiter' = "expired"
    /\ UNCHANGED <<scenario, command, chan, stdin, task, exit, client>>

WaiterTerminates ==
    /\ waiter = "expired"
    /\ command' = Killed(command, "terminated")
    /\ waiter' = "finishing"
    /\ UNCHANGED <<scenario, chan, stdin, task, exit, client>>

WaiterReadsCode ==
    /\ waiter \in {"waiting", "finishing"} /\ Ended
    /\ waiter' = "joining"
    /\ UNCHANGED <<scenario, command, chan, stdin, task, exit, client>>

WaiterJoins ==
    /\ waiter = "joining" /\ task.reader = "done"
    /\ exit' = [exit EXCEPT !.ch = command.code]
    /\ waiter' = "done"
    /\ UNCHANGED <<scenario, command, chan, stdin, task, client>>

-----------------------------------------------------------------------------
(* Input.                                                                  *)

Write ==
    /\ client.sending /\ ~client.aborted
    /\ client.writes < scenario.writes /\ chan.input < InputCap
    /\ client' = [client EXCEPT !.writes = @ + 1]
    /\ chan' = [chan EXCEPT !.input = @ + 1]
    /\ UNCHANGED <<scenario, command, stdin, task, exit, waiter>>

CloseStdin ==
    /\ client.sending
    /\ client' = [client EXCEPT !.sending = FALSE]
    /\ UNCHANGED <<scenario, command, chan, stdin, task, exit, waiter>>

\* A write waits while the stdin of the command is full; when the command is
\* gone it fails: the legacy writer stops, the others go on.
WriterWrites ==
    /\ backend # "elevated" /\ task.writer = "running" /\ chan.input > 0
    /\ Running => stdin.level < StdinCap
    /\ chan' = [chan EXCEPT !.input = @ - 1]
    /\ stdin' = [level |-> IF Running THEN stdin.level + 1 ELSE stdin.level,
                 open |-> stdin.open /\ (Running \/ backend # "legacy")]
    /\ task' = [task EXCEPT !.writer = IF Running \/ backend # "legacy" THEN @ ELSE "done"]
    /\ UNCHANGED <<scenario, command, exit, waiter, client>>

WriterEnds ==
    /\ backend # "elevated" /\ task.writer = "running"
    /\ chan.input = 0 /\ ~client.sending
    /\ task' = [task EXCEPT !.writer = "done"]
    /\ stdin' = [stdin EXCEPT !.open = FALSE]
    /\ UNCHANGED <<scenario, command, chan, exit, waiter, client>>

-----------------------------------------------------------------------------
(* The client.                                                             *)

Receive ==
    /\ client.listening /\ chan.queue # <<>>
    /\ client' = [client EXCEPT !.got = Append(@, Head(chan.queue))]
    /\ chan' = [chan EXCEPT !.queue = Tail(@)]
    /\ UNCHANGED <<scenario, command, stdin, task, exit, waiter>>

\* the task that holds the sender of the client's channel
Feeder == IF Direct THEN task.reader ELSE task.stream

ReceiveEnd ==
    /\ client.listening /\ ~client.eof
    /\ chan.queue = <<>> /\ Feeder \in {"done", "aborted"}
    /\ client' = [client EXCEPT !.eof = TRUE]
    /\ UNCHANGED <<scenario, command, chan, stdin, task, exit, waiter>>

StopListening ==
    /\ client.listening
    /\ client' = [client EXCEPT !.listening = FALSE]
    /\ chan' = [chan EXCEPT !.queue = <<>>]
    /\ UNCHANGED <<scenario, command, stdin, task, exit, waiter>>

\* The effect of the ChildTerminator, which is taken once.
Kill ==
    command' = CASE backend \in {"pipe", "fds"} -> KinKilled(Killed(command, "signal"))
                 [] backend = "pty" -> KinKilled(Killed(command, "terminated"))
                 [] OTHER -> IF waiter = "done" THEN command
                             ELSE Killed(command, "terminated")

RequestTerminate ==
    /\ backend # "elevated" /\ ~client.asked
    /\ Kill
    /\ client' = [client EXCEPT !.asked = TRUE]
    /\ UNCHANGED <<scenario, chan, stdin, task, exit, waiter>>

\* The wait task awaits nothing between seeing and telling the exit.
AbortTasks ==
    /\ LET aborts == CASE backend = "pipe" -> PipeAborts
                       [] OnPty -> PtyAborts
                       [] OTHER -> DriverAborts
       IN task' = [t \in DOMAIN task |->
                     IF t \in aborts /\ task[t] \in {"running", "waiting"}
                     THEN "aborted" ELSE task[t]]
    /\ stdin' = [stdin EXCEPT !.open = @ /\ task'.writer # "aborted"]

\* terminate(), and the drop of the handle, which also drops the sender
Terminate ==
    /\ backend # "elevated" /\ ~client.aborted
    /\ IF client.asked THEN UNCHANGED command ELSE Kill
    /\ AbortTasks
    /\ client' = [client EXCEPT !.asked = TRUE, !.aborted = TRUE, !.sending = FALSE]
    /\ UNCHANGED <<scenario, chan, exit, waiter>>

-----------------------------------------------------------------------------
Reading == ReadDirect \/ ReadLegacy \/ ReadEof
Streaming == StreamForwards \/ StreamEnds
Waiting == WaitSees \/ WaitTells
LegacyWaiting == WaiterTerminates \/ WaiterReadsCode \/ WaiterJoins
Writing == WriterWrites \/ WriterEnds
CommandStep == Produce \/ ChildEnds \/ CommandEnds \/ CommandReads
ClientStep ==
    \/ Write \/ CloseStdin \/ Receive \/ ReceiveEnd \/ StopListening
    \/ RequestTerminate \/ Terminate

LocalFork ==
    /\ backend # "elevated"
    /\ Fork(IF Direct THEN {"kin", "free"} ELSE {"free"})

SessionNext ==
    \/ Reading \/ Streaming \/ Waiting \/ LegacyWaiting \/ WaiterTimesOut
    \/ Writing \/ CommandStep \/ LocalFork \/ ClientStep

\* Threads and tasks run; the command, the client and the clock choose.
SessionFairness ==
    /\ WF_sessionVars(Reading) /\ WF_sessionVars(Streaming) /\ WF_sessionVars(Waiting)
    /\ WF_sessionVars(LegacyWaiting) /\ WF_sessionVars(Writing)
=============================================================================
