--------------------------- MODULE WindowsSandbox ---------------------------
(***************************************************************************)
(* The sessions of every backend, and before an elevated one the setup that *)
(* gives it an account to log on with: prepare_elevated_spawn_context and   *)
(* spawn_windows_sandbox_session_elevated.                                 *)
(***************************************************************************)
EXTENDS RunnerSession, WindowsSetup

vars == <<allSessionVars, setupVars>>

Present == {c \in Clients : request[c] # Absent}

\* Bound: a session that was started is followed only when nobody else could
\* set up the machine, which then stands still.
Alone == Cardinality(Present) <= 1
Followed == Alone /\ ~reading

Init ==
    /\ SessionInit /\ RunnerInit /\ SetupInit
    /\ Elevated <=> Present # {}
    /\ scenario.chunks + scenario.writes > 0 /\ Elevated =>
         Alone /\ machine.marker.state = "ok"

Prepare ==
    /\ link = "logon" /\ SetupNext
    /\ UNCHANGED allSessionVars

\* Windows accepts only the password that the account has now.
LogonAs(c) ==
    /\ asker[c].at = "ready"
    /\ \E accepted \in BOOLEAN :
          /\ accepted => Followed /\ asker[c].creds = machine.accounts[request[c].identity]
          /\ Logon(accepted)
    /\ UNCHANGED setupVars

Next ==
    \/ Prepare
    \/ \E c \in Clients : LogonAs(c)
    \/ Followed /\ SessionsNext /\ UNCHANGED setupVars

Spec == Init /\ [][Next]_vars /\ SessionsFairness

SandboxTypeOK == RunnerTypeOK /\ SetupTypeOK

-----------------------------------------------------------------------------
(* Properties.                                                             *)

\* Every backend keeps the promise of a session: output in order and skipped
\* only by a client that lags behind a broadcast channel, and never its end;
\* one exit, after the end, with its code; the end of the output after its last
\* chunk.  When the runner is lost, the exit says so, and the output ends with a
\* notice that costs a client which lags at most one more chunk (spawn_from_driver,
\* the backends, start_runner_stdout_reader).
Promise == INSTANCE SessionPromise WITH
    Slack <- BroadcastCap, TimedOut <- {"timeout"}, Lost <- "lost", Notice <- Notice,
    lossy <- ~Direct, ended <- Ended, code <- command.code, made <- command.made,
    seen <- client.got, told <- exit.told, closed <- client.eof,
    aborted <- client.aborted, lost <- runner.at = "dead"

PromiseKept == Promise!Spec

\* A client learns of the end of its command, though nobody reads the output or
\* the input is stuck, unless a descendant outside of the job of the command keeps
\* the output of a backend that joins its readers; and a client that sees has_exited
\* finds the exit code (wait tasks, finalize_exit, start_runner_stdout_reader).
Reportable ==
    /\ Ended /\ ~client.aborted
    /\ Elevated => link = "up"
    /\ Direct \/ command.child # "free"

ExitReported ==
    /\ []<>(Reportable => exit.told # NoCode)
    /\ []<>(exit.seen => exit.code # NoCode)

\* Nothing takes the Terminate frame: the input thread waits for a command that
\* does not read, or the runner is gone and had no job to hold the command.
Unheard ==
    /\ Elevated
    /\ \/ stdin.level = StdinCap /\ inbox # <<>> /\ Head(inbox).kind = "data"
       \/ runner.at = "dead" /\ runner.job = "none"

\* A command that is to be terminated ends, whatever waits in the channels
\* (ProcessHandle::request_terminate and terminate, spawn_input_loop).
TerminateTakesEffect == []<>(client.asked => ~Running \/ Unheard)

\* A start that failed, and a runner that died, leave no command running,
\* except one that was never in the job of the runner (spawn_runner_transport,
\* create_job_kill_on_close).
NothingLeftRunning ==
    Elevated =>
      /\ link = "failed" => Gone
      /\ Running /\ Gone => runner.job = "none"
=============================================================================
