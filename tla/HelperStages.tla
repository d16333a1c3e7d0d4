------------------------------ MODULE HelperStages ------------------------------
(***************************************************************************)
(* The stages of the Linux helper (run_main): the manager turns a request   *)
(* into a command line of the helper; the helper confines itself and        *)
(* executes the command, or prepares proxy bridges, probes /proc and runs   *)
(* itself again inside bubblewrap, where the inner stage activates the      *)
(* proxy routes, installs the seccomp filter and executes the command.      *)
(*                                                                         *)
(* Composed with ProxyRoutes: several helpers on one host.  What bubblewrap *)
(* mounts is the matter of BwrapPlan, how it is supervised that of          *)
(* BwrapRun.                                                                *)
(***************************************************************************)
EXTENDS ProxyRoutes

CONSTANTS
  Scenarios,  (* for each helper the request it serves, or Absent           *)
  Absent,
  Ports,      (* ports of the loopback inside a sandbox                     *)
  NoPort

\* A request: what the profile grants (network, all writes, all reads), whether the
\* mounts that enforce it show the directory of the proxy sockets, whether it needs
\* direct enforcement, the flags, and what the host offers.
Requests ==
  [network : BOOLEAN, fullWrite : BOOLEAN, fullRead : BOOLEAN, sockets : BOOLEAN,
   direct : BOOLEAN, managed : BOOLEAN, legacy : BOOLEAN, wsl1 : BOOLEAN,
   bwrap : {"unusable", "old", "new"}, named : BOOLEAN, procMounts : BOOLEAN]

ASSUME StagesAssumption ==
  /\ Scenarios \subseteq [Helpers -> Requests \cup {Absent}]
  /\ NoPort \notin Ports

VARIABLES
  request,    (* the request of each helper                                 *)
  mountProc,  (* does it still mean to mount /proc?                         *)
  inner,      (* the process inside bubblewrap: "none", "activate",         *)
              (* "restrict", "exec", "command", "ended"                     *)
  loopback,   (* is the loopback interface inside up?                       *)
  local,      (* its bridges: at each socket index the port and the filter  *)
              (* under which the bridge was forked                          *)
  routes,     (* its proxy variables: ports, or NoPort while unchanged      *)
  confined    (* what restricts the command                                 *)

stageVars == <<request, mountProc, inner, loopback, local, routes, confined>>
vars == <<proxyVars, stageVars>>

NoBridgeAt == [port |-> NoPort, filter |-> "none"]
Unconfined == [nnp |-> FALSE, filter |-> "none", landlock |-> FALSE, mounts |-> FALSE,
               netns |-> FALSE]

-----------------------------------------------------------------------------
(* Decisions                                                                *)

\* should_require_platform_sandbox; otherwise the command runs as it is.
RequiresSandbox(r) == r.managed \/ ~r.fullWrite \/ ~r.network

\* ensure_linux_bubblewrap_is_supported
BubblewrapSupported(r) == r.wsl1 => r.legacy \/ (r.fullWrite /\ ~r.managed)

\* ensure_legacy_landlock_mode_supports_policy
LegacySupported(r) == r.legacy => ~r.direct

\* A bug: only the network policy counts.
SeccompMode_IgnoresProxy(r, routed) ==
  IF r.network THEN "none" ELSE IF routed THEN "ip" ELSE "unix"

\* network_seccomp_mode
SeccompMode(r, routed) ==
  IF r.network /\ ~r.managed THEN "none" ELSE IF routed THEN "ip" ELSE "unix"

\* The sockets that install_network_seccomp_filter_on_current_thread lets through
SocketsAllowed(mode) ==
  CASE mode = "unix" -> {"unix"}
    [] mode = "ip" -> {"ip"}
    [] OTHER -> {"unix", "ip"}

\* apply_permission_profile_to_current_thread: landlock cannot restrict reads.
CanRestrict(r, landlock) == landlock /\ ~r.fullWrite => r.fullRead

Restricted(r, before, landlock, routed) ==
  LET mode == SeccompMode(r, routed)
  IN [before EXCEPT !.nnp = mode # "none" \/ (landlock /\ ~r.fullWrite),
                    !.filter = mode,
                    !.landlock = landlock /\ ~r.fullWrite]

\* bwrap_network_mode and should_unshare_network: only full access is not isolated.
NetworkUnshared(r) == r.managed \/ ~r.network

\* system_bwrap_launcher_for_path needs --perms; without --argv0 the inner helper
\* is found by the name the outer one was called by.
BubblewrapRuns(r) == r.bwrap # "unusable"
InnerDispatched(r) == r.bwrap = "new" \/ r.named

-----------------------------------------------------------------------------
(* The outer stage                                                          *)

\* SandboxManager::transform and the start of the helper: `here` where it will
\* confine itself, `plan` with proxies, `probe` without.
EntryPoint(r) ==
  IF (r.fullWrite /\ ~r.managed) \/ r.legacy THEN "here"
  ELSE IF r.managed THEN "plan" ELSE "probe"

Launch(h, p) ==
  LET r == request[h]
  IN /\ r # Absent
     /\ RequiresSandbox(r) /\ BubblewrapSupported(r)
     /\ Start(h, p)
     /\ pc' = [pc EXCEPT ![h] = EntryPoint(r)]
     /\ UNCHANGED stageVars

\* The full-access path and the legacy path: confine this thread, then execvp.
ConfineAndExec(h) ==
  LET r == request[h]
      landlock == r.legacy /\ ~(r.fullWrite /\ ~r.managed)
  IN /\ Goes(h, "here", "command")
     /\ LegacySupported(r) /\ CanRestrict(r, landlock)
     /\ confined' = [confined EXCEPT ![h] = Restricted(r, Unconfined, landlock, FALSE)]
     /\ UNCHANGED <<proc, pid, scan, judged, dir, dirs, bridgeVars, worker, ghostVars>>
     /\ UNCHANGED <<request, mountProc, inner, loopback, local, routes>>

\* run_bwrap_in_child_capture_stderr: what the trial run leaves on stderr
TrialStderr(r) ==
  IF ~BubblewrapRuns(r) THEN "panic" ELSE IF r.procMounts THEN "" ELSE "no proc"

\* preflight_proc_mount_support: only an error of the mount of /proc counts, not
\* that bubblewrap does not run at all.  A trial that a signal ends is the end of
\* the helper, too (Kill).
Preflight(h) ==
  /\ pc[h] \in {"prepared", "probe"} /\ Goes(h, pc[h], "launch")
  /\ mountProc' = [mountProc EXCEPT ![h] = TrialStderr(request[h]) # "no proc"]
  /\ UNCHANGED <<proc, pid, scan, judged, dir, dirs, bridgeVars, worker, ghostVars>>
  /\ UNCHANGED <<request, inner, loopback, local, routes, confined>>

BubblewrapStarts(h) ==
  LET r == request[h]
  IN BubblewrapRuns(r) /\ InnerDispatched(r) /\ (mountProc[h] => r.procMounts)

\* create_bwrap_flags_full_filesystem and create_bwrap_flags, between which
\* create_bwrap_command_args chooses: its third case, the bare command, would
\* need full network access, with which nothing gets here.
FullFilesystemFlags(r) == [Unconfined EXCEPT !.netns = NetworkUnshared(r)]
FilesystemFlags(r) == [FullFilesystemFlags(r) EXCEPT !.mounts = TRUE]
Flags(r) == IF r.fullWrite THEN FullFilesystemFlags(r) ELSE FilesystemFlags(r)

\* create_filesystem_args: reads that are restricted start from an empty root, to which
\* only what the policy lets read is bound, /dev is a new one, and denied paths are
\* masked; nothing binds the socket directory for its own sake, which is in
\* $CODEX_HOME/tmp or the directory for temporary files (proxy_socket_parent_dir).
\* With the flags for the full file system all of it is there.
SocketsShown(r) == r.fullWrite \/ r.sockets

\* run_bwrap_with_proc_fallback and the start of the inner stage: what
\* bubblewrap shows and unshares is in force from here on.  A new network
\* namespace may or may not come with its loopback interface up.
RunBubblewrap(h) ==
  LET r == request[h]
  IN /\ Goes(h, "launch", "supervising")
     /\ BubblewrapStarts(h)
     /\ inner' = [inner EXCEPT ![h] = IF r.managed THEN "activate" ELSE "restrict"]
     /\ confined' = [confined EXCEPT ![h] = Flags(r)]
     /\ \E up \in BOOLEAN : loopback' = [loopback EXCEPT ![h] = r.managed /\ up]
     /\ UNCHANGED <<proc, pid, scan, judged, dir, dirs, bridgeVars, worker, ghostVars>>
     /\ UNCHANGED <<request, mountProc, local, routes>>

-----------------------------------------------------------------------------
(* The inner stage                                                          *)

InnerRuns(h) == inner[h] \notin {"none", "ended"}

PortsInUse(h) == {local[h][i].port : i \in Indexes}
Paths(h) == {SocketIndex(h, e) : e \in EndpointsOf(h)}

\* bind_local_loopback_listener could not bind: ensure_loopback_interface_up,
\* whose failure is a panic (InnerEnds).
RaiseLoopback(h) ==
  /\ inner[h] = "activate" /\ ~loopback[h]
  /\ loopback' = [loopback EXCEPT ![h] = TRUE]
  /\ UNCHANGED <<proxyVars, request, mountProc, inner, local, routes, confined>>

\* spawn_local_bridge, for each distinct socket; the kernel picks the port.
SpawnLocalBridge(h, i, port) ==
  /\ inner[h] = "activate" /\ loopback[h]
  /\ i \in Paths(h) /\ local[h][i] = NoBridgeAt /\ port \notin PortsInUse(h)
  /\ local' = [local EXCEPT ![h][i] = [port |-> port, filter |-> confined[h].filter]]
  /\ UNCHANGED <<proxyVars, request, mountProc, inner, loopback, routes, confined>>

\* A bug: every variable gets the port of the first socket.
RewriteEnv_FirstPort(h) ==
  /\ inner[h] = "activate" /\ \A i \in Paths(h) : local[h][i] # NoBridgeAt
  /\ routes' = [routes EXCEPT ![h] = [k \in Routed(h) |-> local[h][0].port]]
  /\ inner' = [inner EXCEPT ![h] = "restrict"]
  /\ UNCHANGED <<proxyVars, request, mountProc, loopback, local, confined>>

\* rewrite_proxy_env_value: of the value of a variable, its host becomes the
\* loopback and its port, which is kept here, that of the local bridge.
Rewritten(h, k) == local[h][SocketIndex(h, Env[h][k])].port

\* The second loop of activate_proxy_routes_in_netns
RewriteEnv(h) ==
  /\ inner[h] = "activate" /\ \A i \in Paths(h) : local[h][i] # NoBridgeAt
  /\ routes' = [routes EXCEPT ![h] = [k \in Routed(h) |-> Rewritten(h, k)]]
  /\ inner' = [inner EXCEPT ![h] = "restrict"]
  /\ UNCHANGED <<proxyVars, request, mountProc, loopback, local, confined>>

\* The inner call of apply_permission_profile_to_current_thread
InnerConfines(h) ==
  /\ inner[h] = "restrict"
  /\ confined' = [confined EXCEPT ![h] =
       Restricted(request[h], @, FALSE, request[h].managed)]
  /\ inner' = [inner EXCEPT ![h] = "exec"]
  /\ UNCHANGED <<proxyVars, request, mountProc, loopback, local, routes>>

\* exec_or_panic; the panics of the inner stage are InnerEnds.
InnerExecs(h) ==
  /\ inner[h] = "exec"
  /\ inner' = [inner EXCEPT ![h] = "command"]
  /\ UNCHANGED <<proxyVars, request, mountProc, loopback, local, routes, confined>>

\* The command ends, or panics and death signals end what is inside: all
\* processes of the pid namespace, the local bridges among them, and with them
\* the network namespace.
InnerEnds(h) ==
  /\ InnerRuns(h)
  /\ inner' = [inner EXCEPT ![h] = "ended"]
  /\ local' = [local EXCEPT ![h] = [i \in Indexes |-> NoBridgeAt]]
  /\ loopback' = [loopback EXCEPT ![h] = FALSE]
  /\ UNCHANGED <<proxyVars, request, mountProc, routes, confined>>

-----------------------------------------------------------------------------
(* The end                                                                  *)

\* Where the helper stops by itself: refusals, panics, the end of bubblewrap
MustExit(h) ==
  LET r == request[h]
  IN \/ pc[h] = "plan" /\ Routed(h) = {}
     \/ BridgeUnready(h)
     \/ pc[h] = "here" /\ ~(LegacySupported(r) /\ CanRestrict(r, r.legacy))
     \/ pc[h] = "launch" /\ ~BubblewrapStarts(h)
     \/ pc[h] = "supervising" /\ inner[h] = "ended"

Exit(h) == MustExit(h) /\ Dies(h) /\ UNCHANGED <<pc, stageVars>>

\* SIGKILL, the end of a command that runs in the place of the helper, and
\* whatever else panics: fork, pipe, mkdir.
Kill(h) == Dies(h) /\ UNCHANGED <<pc, stageVars>>

-----------------------------------------------------------------------------
Init ==
  /\ ProxyInit
  /\ request \in Scenarios
  /\ pc = [h \in Helpers |-> "start"]
  /\ mountProc = [h \in Helpers |-> TRUE]
  /\ inner = [h \in Helpers |-> "none"]
  /\ loopback = [h \in Helpers |-> FALSE]
  /\ local = [h \in Helpers |-> [i \in Indexes |-> NoBridgeAt]]
  /\ routes = [h \in Helpers |-> [k \in Routed(h) |-> NoPort]]
  /\ confined = [h \in Helpers |-> Unconfined]

Inside(h) ==
  \/ \E i \in Indexes, port \in Ports : SpawnLocalBridge(h, i, port)
  \/ RaiseLoopback(h) \/ RewriteEnv(h) \/ InnerConfines(h) \/ InnerExecs(h)

Next ==
  \E h \in Helpers :
    \/ \E p \in Pids : Launch(h, p)
    \/ Prepare(h) /\ UNCHANGED stageVars
    \/ \E e \in Endpoints : (BridgeStep(h, e) \/ BridgeFails(h, e)) /\ UNCHANGED stageVars
    \/ (WorkerStep(h) \/ KillWorker(h) \/ Reap(h)) /\ UNCHANGED stageVars
    \/ ConfineAndExec(h) \/ Preflight(h) \/ RunBubblewrap(h)
    \/ Inside(h) \/ InnerEnds(h)
    \/ Exit(h) \/ Kill(h)

\* The kernel delivers death signals and reaps orphans, of the children of a
\* helper always some go on, and a helper that gives up exits.
Children(h) == (\E e \in Endpoints : BridgeStep(h, e)) \/ WorkerStep(h)

Fairness ==
  \A h \in Helpers : WF_vars((Children(h) /\ UNCHANGED stageVars) \/ Exit(h))

Spec == Init /\ [][Next]_vars /\ Fairness

-----------------------------------------------------------------------------
(* Properties                                                               *)

TypeOK ==
  /\ ProxyTypeOK
  /\ request \in [Helpers -> Requests \cup {Absent}]
  /\ pc \in [Helpers -> {"start", "here", "plan", "sweep", "spawn", "prepared", "probe",
                         "launch", "supervising", "command"}]
  /\ mountProc \in [Helpers -> BOOLEAN] /\ loopback \in [Helpers -> BOOLEAN]
  /\ inner \in [Helpers -> {"none", "activate", "restrict", "exec", "command", "ended"}]
  /\ local \in [Helpers -> [Indexes ->
                [port : Ports \cup {NoPort}, filter : {"none", "unix", "ip"}]]]
  /\ DOMAIN routes = Helpers
  /\ \A h \in Helpers : routes[h] \in [Routed(h) -> Ports \cup {NoPort}]
  /\ confined \in [Helpers -> [nnp : BOOLEAN, filter : {"none", "unix", "ip"},
                               landlock : BOOLEAN, mounts : BOOLEAN, netns : BOOLEAN]]

CommandRuns(h) == pc[h] = "command" \/ inner[h] = "command"

\* Whatever the flags and the host, a command that was to be sandboxed runs under
\* all that its profile asks for: a network filter under no_new_privs, a network
\* namespace where the filter lets IP through, and landlock, where it may stand
\* in, or mounts for the files (run_main, network_seccomp_mode and
\* bwrap_network_mode decide it in three places and two processes).
CommandIsConfined ==
  \A h \in Helpers :
    CommandRuns(h) =>
      LET r == request[h]
          c == confined[h]
      IN /\ ~r.network \/ r.managed =>
              c.nnp /\ ("ip" \in SocketsAllowed(c.filter) =>
                          c.netns /\ "unix" \notin SocketsAllowed(c.filter))
         /\ ~r.fullWrite => c.mounts \/ (c.landlock /\ c.nnp /\ r.fullRead /\ ~r.direct)
         /\ r.managed /\ c.netns => \A k \in Routed(h) : routes[h][k] # NoPort

\* The endpoint that a connection to the port of a proxy variable reaches: from
\* the local bridge, if it may open Unix sockets, to the socket, if what is mounted
\* shows it, to the host bridge that listens there.  A local bridge that cannot
\* connect drops the connection (run_local_bridge).
Reached(h, k) ==
  LET at == {i \in Indexes : /\ local[h][i].port = routes[h][k]
                             /\ "unix" \in SocketsAllowed(local[h][i].filter)
                             /\ SocketsShown(request[h])}
      bridges == {dirs[dir[h]].sock[i] : i \in at}
  IN {b[2] : b \in {c \in bridges \ {NoBridge} : c[1] = h /\ BridgeRuns(c[1], c[2])}}

\* Inside the sandbox every proxy variable leads to the endpoint it named on the
\* host, as long as the host bridge of that endpoint runs and the sandbox shows the
\* socket directory, and to no other one at any time (the two loops of
\* prepare_host_proxy_route_spec, and those of activate_proxy_routes_in_netns, agree on
\* the sockets).  Where the policy lets nobody read that directory all variables lead
\* nowhere, although the helper has started the command as if they did not.
RoutesReachTheirEndpoint ==
  \A h \in Helpers :
    inner[h] = "command" /\ request[h].managed /\ Alive(h) /\ h \in fresh =>
      /\ dirs[dir[h]] # NoDir
      /\ \A k \in Routed(h) :
           Reached(h, k) = IF BridgeRuns(h, Env[h][k]) /\ SocketsShown(request[h])
                           THEN {Env[h][k]} ELSE {}

\* Nobody removes or replaces the socket directory of a helper that lives: not
\* the sweep of another helper, not the worker of an earlier one.  Only where the
\* pid had named a directory before may a late remover take it for the old one
\* (is_pid_alive guards the sweep; nothing guards the worker).
LiveDirectoryKept ==
  \A h \in fresh :
    Alive(h) /\ dir[h] # NoName /\ worker[h] \in {"none", "waiting", "killed"} =>
      dirs[dir[h]] # NoDir /\ dirs[dir[h]].by = h

Dead(h) == proc[h] \in {"zombie", "gone"}

\* Again and again no bridge outlives its helper, nor the failure of the next bridge
\* to start: even one that was forked but not yet armed when the helper died ends,
\* and even where orphans do not go to pid 1 (set_parent_death_signal, the readiness
\* pipe and the error of prepare_host_proxy_route_spec).
BridgesEndWithHelper ==
  []<>(\A h \in Helpers, e \in Endpoints : Dead(h) \/ BridgeUnready(h) => ~BridgeRuns(h, e))

\* A worker that is left alone removes the directory of a dead helper, although
\* bridges that died earlier are zombies until then
\* (spawn_proxy_socket_dir_cleanup_worker).
DirectoryGoes ==
  []<>(\A h \in Helpers :
         Dead(h) /\ worker[h] \notin {"none", "killed"} =>
           dirs[dir[h]] = NoDir \/ dirs[dir[h]].by # h)

\* What killed helpers leave is gone once a later helper makes its own directory:
\* every directory that was there when its sweep began, and that nobody alive has
\* owned since (cleanup_stale_proxy_socket_dirs_in).
SweepTakesOrphans ==
  [][\A h \in Helpers :
       pc[h] = "sweep" /\ pc'[h] = "spawn" => \A n \in doomed[h] : dirs[n] = NoDir]_vars

=============================================================================
