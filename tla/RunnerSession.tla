--------------------------- MODULE RunnerSession ----------------------------
(***************************************************************************)
(* The elevated Windows backend: a session whose command is run by a       *)
(* command runner under the account of the sandbox                         *)
(* (src/src/windows/elevated).  Client and runner talk in frames over two  *)
(* named pipes; start-up is a handshake with timeouts, and a job object     *)
(* ends the command when the runner ends.                                  *)
(***************************************************************************)
EXTENDS PtySession

VARIABLES
    link,     \* the handshake of the client: "logon", "pipe-in", "pipe-out",
              \* "request", "await", "up" or "failed"
    runner,   \* [at, opened, job, code]
    inbox,    \* frames for the runner
    outbox    \* frames for the client

runnerVars == <<link, runner, inbox, outbox>>
allSessionVars == <<sessionVars, runnerVars>>

\* Frames: their kind, the number of the chunk, the code of the exit
Frame(kind, n, code) == [kind |-> kind, n |-> n, code |-> code]
Signal(kind) == Frame(kind, 0, NoCode)

RunnerAt == {"none", "starting", "request", "spawning", "spawned", "assigned",
             "running", "joining", "exited", "dead"}

RunnerTypeOK ==
    /\ TypeOK
    /\ link \in {"logon", "pipe-in", "pipe-out", "request", "await", "up", "failed"}
    /\ runner \in [at : RunnerAt, opened : 0..2, job : {"none", "open", "closed"},
                   code : CodeOrNone]
    /\ inbox \in Seq([kind : {"request", "data", "close", "terminate"}, n : {0}, code : {NoCode}])
    /\ outbox \in Seq([kind : {"ready", "error", "chunk", "exit"}, n : 0..scenario.chunks,
                       code : CodeOrNone])

RunnerInit ==
    /\ link = "logon" /\ inbox = <<>> /\ outbox = <<>>
    /\ runner = [at |-> "none", opened |-> 0, job |-> "none", code |-> NoCode]

Gone == runner.at \in {"none", "exited", "dead"}
Elevated == backend = "elevated"

-----------------------------------------------------------------------------
(* The runner.                                                             *)

\* A bug: the job does not kill what is in it when it is closed.
JobEnds_Survives(cmd) == cmd

\* create_job_kill_on_close: the last handle of the job ends every process in it.
JobEnds(cmd) == IF runner.job = "open" THEN KinKilled(Killed(cmd, "terminated")) ELSE cmd
JobClosed == IF runner.job = "open" THEN "closed" ELSE runner.job

RunnerDead ==
    /\ runner' = [runner EXCEPT !.at = "dead", !.job = JobClosed]
    /\ command' = JobEnds(command)

RunnerDies ==
    /\ ~Gone
    /\ RunnerDead
    /\ UNCHANGED <<scenario, chan, stdin, task, exit, waiter, client, link, inbox, outbox>>

RunnerOpens ==
    /\ runner.at = "starting"
    /\ runner' = [runner EXCEPT !.opened = @ + 1,
                                !.at = IF runner.opened = 1 THEN "request" ELSE @]
    /\ UNCHANGED <<sessionVars, link, inbox, outbox>>

RunnerReadsRequest ==
    /\ runner.at = "request" /\ inbox # <<>>
    /\ runner' = [runner EXCEPT !.at = "spawning"]
    /\ inbox' = Tail(inbox)
    /\ UNCHANGED <<sessionVars, link, outbox>>

\* The request is refused, or the command cannot be spawned.
RunnerRefuses ==
    /\ runner.at = "spawning"
    /\ outbox' = Append(outbox, Signal("error"))
    /\ runner' = [runner EXCEPT !.at = "exited"]
    /\ UNCHANGED <<sessionVars, link, inbox>>

RunnerSpawns ==
    /\ runner.at = "spawning"
    /\ command' = [command EXCEPT !.is = "running"]
    /\ runner' = [runner EXCEPT !.at = "spawned"]
    /\ UNCHANGED <<scenario, chan, stdin, task, exit, waiter, client, link, inbox, outbox>>

\* The command runs already; a job that cannot be had is done without.
RunnerAssigns ==
    /\ runner.at = "spawned"
    /\ \E j \in {"open", "none"} : runner' = [runner EXCEPT !.at = "assigned", !.job = j]
    /\ UNCHANGED <<sessionVars, link, inbox, outbox>>

RunnerReady ==
    /\ runner.at = "assigned"
    /\ outbox' = Append(outbox, Signal("ready"))
    /\ runner' = [runner EXCEPT !.at = "running"]
    /\ UNCHANGED <<sessionVars, link, inbox>>

\* The output thread, and the bounded pipe its frames go through
RunnerReads ==
    /\ runner.at \in {"running", "joining"}
    /\ chan.pipe # <<>> /\ Len(outbox) < QueueCap
    /\ outbox' = Append(outbox, Frame("chunk", Head(chan.pipe), NoCode))
    /\ chan' = [chan EXCEPT !.pipe = Tail(@)]
    /\ UNCHANGED <<scenario, command, stdin, task, exit, waiter, client, link, runner, inbox>>

\* A bug: the job is closed only when the output has been joined.
Finished_JobHeld(cmd, code) ==
    /\ command' = cmd
    /\ runner' = [runner EXCEPT !.at = "joining", !.code = code]
    /\ UNCHANGED <<scenario, chan, stdin, task, exit, waiter, client, link, inbox, outbox>>

\* The main thread is done with the command: it closes the handles of the
\* command and of the job, and then joins the output thread.
Finished(cmd, code) ==
    /\ command' = JobEnds(cmd)
    /\ runner' = [runner EXCEPT !.at = "joining", !.code = code, !.job = JobClosed]
    /\ UNCHANGED <<scenario, chan, stdin, task, exit, waiter, client, link, inbox, outbox>>

RunnerSeesEnd ==
    /\ runner.at = "running" /\ Ended
    /\ Finished(command, command.code)

RunnerTimesOut ==
    /\ runner.at = "running" /\ timed
    /\ Finished(Killed(command, "terminated"), "timeout")

\* A bug: the output thread is not joined.
OutputJoined_Unasked == TRUE

\* The output thread has sent everything and come to the end of the output.
OutputJoined == AtEof

RunnerExits ==
    /\ runner.at = "joining" /\ OutputJoined /\ Len(outbox) < QueueCap
    /\ outbox' = Append(outbox, Frame("exit", 0, runner.code))
    /\ runner' = [runner EXCEPT !.at = "exited"]
    /\ UNCHANGED <<sessionVars, link, inbox>>

\* A bug: the input thread ends at a CloseStdin frame.
Reads_UntilClosed == runner.at \in {"running", "joining"} /\ stdin.open

\* The input thread reads frames until the runner ends.
Reads == runner.at \in {"running", "joining"}

\* It takes them in order; a write waits while stdin is full.
RunnerTakes ==
    /\ Reads /\ inbox # <<>>
    /\ LET kind == Head(inbox).kind
           writes == kind = "data" /\ stdin.open
       IN
       /\ writes /\ Running => stdin.level < StdinCap
       /\ stdin' = [level |-> IF writes /\ Running THEN stdin.level + 1 ELSE stdin.level,
                    open |-> stdin.open /\ kind # "close" /\ (writes => Running)]
       /\ command' = IF kind = "terminate" /\ runner.at = "running"
                     THEN Killed(command, "terminated") ELSE command
    /\ inbox' = Tail(inbox)
    /\ UNCHANGED <<scenario, chan, task, exit, waiter, client, link, runner, outbox>>

\* The client has dropped its end.
RunnerInputEnds ==
    /\ runner.at \in {"running", "joining"} /\ inbox = <<>> /\ stdin.open
    /\ client.aborted /\ task.writer = "done"
    /\ stdin' = [stdin EXCEPT !.open = FALSE]
    /\ UNCHANGED <<scenario, command, chan, task, exit, waiter, client, runnerVars>>

\* A descendant started before the command is in a job stays out of it.
RunnerFork ==
    /\ Elevated
    /\ Fork(IF runner.job = "open" THEN {"kin"} ELSE {"free"})
    /\ UNCHANGED runnerVars

-----------------------------------------------------------------------------
(* The client: spawn_runner_transport and the tasks it starts.             *)

\* CreateProcessWithLogonW with the account and password of the sandbox
Logon(accepted) ==
    /\ Elevated /\ link = "logon"
    /\ link' = IF accepted THEN "pipe-in" ELSE "failed"
    /\ runner' = IF accepted THEN [runner EXCEPT !.at = "starting"] ELSE runner
    /\ UNCHANGED <<sessionVars, inbox, outbox>>

Connected == CASE link = "pipe-in" -> runner.opened >= 1
               [] link = "pipe-out" -> runner.opened = 2
               [] OTHER -> FALSE

ClientConnects ==
    /\ Connected
    /\ link' = IF link = "pipe-in" THEN "pipe-out" ELSE "request"
    /\ UNCHANGED <<sessionVars, runner, inbox, outbox>>

ClientRequests ==
    /\ link = "request" /\ ~Gone
    /\ link' = "await"
    /\ inbox' = Append(inbox, Signal("request"))
    /\ UNCHANGED <<sessionVars, runner, outbox>>

ClientIsUp ==
    /\ link = "await" /\ outbox # <<>> /\ Head(outbox).kind = "ready"
    /\ link' = "up" /\ outbox' = Tail(outbox)
    /\ task' = [task EXCEPT !.reader = "running"]
    /\ client' = [client EXCEPT !.listening = TRUE, !.sending = TRUE]
    /\ UNCHANGED <<scenario, command, chan, stdin, exit, waiter, runner, inbox>>

\* the client waits for the runner, up to a deadline
WaitsForRunner == link \in {"pipe-in", "pipe-out", "await"}

\* A timeout, a runner that is gone, or its Error frame: the client terminates
\* the runner and closes the pipes.
StartFails ==
    /\ \/ WaitsForRunner
       \/ link = "request" /\ Gone
    /\ link' = "failed"
    /\ IF Gone THEN UNCHANGED <<command, runner>> ELSE RunnerDead
    /\ UNCHANGED <<scenario, chan, stdin, task, exit, waiter, client, inbox, outbox>>

\* start_runner_stdout_reader.  When the pipe is at its end it tells so with a notice
\* in the output (send_runner_error) and with the exit; a runner sends no Error frame
\* after Ready, which would come to the same.
FrameReader ==
    /\ Elevated /\ task.reader = "running"
    /\ \/ /\ outbox # <<>> /\ outbox' = Tail(outbox)
          /\ IF Head(outbox).kind = "chunk"
             THEN /\ chan' = [chan EXCEPT !.bcast = Broadcast(@, Head(outbox).n)]
                  /\ UNCHANGED <<task, exit>>
             ELSE /\ exit' = [exit EXCEPT !.ch = Head(outbox).code]
                  /\ task' = [task EXCEPT !.reader = "done"]
                  /\ UNCHANGED chan
       \/ /\ outbox = <<>> /\ Gone
          /\ exit' = [exit EXCEPT !.ch = "lost"]
          /\ chan' = [chan EXCEPT !.bcast = Broadcast(@, Notice)]
          /\ task' = [task EXCEPT !.reader = "done"]
          /\ UNCHANGED outbox
    /\ UNCHANGED <<scenario, command, stdin, waiter, client, link, runner, inbox>>

\* start_runner_stdin_writer, whose frames queue without bound; it cannot be aborted
StdinWriter ==
    /\ Elevated /\ link = "up" /\ task.writer = "running"
    /\ \/ /\ chan.input > 0
          /\ chan' = [chan EXCEPT !.input = @ - 1]
          /\ inbox' = Append(inbox, Signal("data"))
          /\ UNCHANGED task
       \/ /\ chan.input = 0 /\ ~client.sending
          /\ task' = [task EXCEPT !.writer = "done"]
          /\ inbox' = Append(inbox, Signal("close"))
          /\ UNCHANGED chan
    /\ UNCHANGED <<scenario, command, stdin, exit, waiter, client, link, runner, outbox>>

AskRunner == inbox' = IF client.asked THEN inbox ELSE Append(inbox, Signal("terminate"))

RunnerRequestTerminate ==
    /\ Elevated /\ link = "up" /\ ~client.asked
    /\ AskRunner
    /\ client' = [client EXCEPT !.asked = TRUE]
    /\ UNCHANGED <<scenario, command, chan, stdin, task, exit, waiter, link, runner, outbox>>

RunnerTerminate ==
    /\ Elevated /\ link = "up" /\ ~client.aborted
    /\ AskRunner /\ AbortTasks
    /\ client' = [client EXCEPT !.asked = TRUE, !.aborted = TRUE, !.sending = FALSE]
    /\ UNCHANGED <<scenario, command, chan, exit, waiter, link, runner, outbox>>

-----------------------------------------------------------------------------
RunnerMain ==
    \/ RunnerOpens \/ RunnerReadsRequest \/ RunnerRefuses \/ RunnerSpawns
    \/ RunnerAssigns \/ RunnerReady \/ RunnerSeesEnd \/ RunnerExits
RunnerInput == RunnerTakes \/ RunnerInputEnds
Handshake == ClientConnects \/ ClientRequests \/ ClientIsUp \/ StartFails
RunnerClientStep == RunnerRequestTerminate \/ RunnerTerminate

RunnerNext ==
    \/ RunnerMain \/ RunnerReads \/ RunnerInput \/ RunnerTimesOut \/ RunnerDies
    \/ Handshake \/ FrameReader \/ StdinWriter \/ RunnerClientStep \/ RunnerFork

SessionsNext == (SessionNext /\ UNCHANGED runnerVars) \/ RunnerNext

SessionsFairness ==
    /\ SessionFairness
    /\ WF_allSessionVars(RunnerMain) /\ WF_allSessionVars(RunnerReads)
    /\ WF_allSessionVars(RunnerInput) /\ WF_allSessionVars(Handshake)
    /\ WF_allSessionVars(FrameReader) /\ WF_allSessionVars(StdinWriter)
=============================================================================
