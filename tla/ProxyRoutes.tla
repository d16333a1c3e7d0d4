------------------------------ MODULE ProxyRoutes ------------------------------
(***************************************************************************)
(* Managed proxies of the Linux helper (linux/proxy_routing.rs).  A helper  *)
(* whose command may use nothing but the proxies of its environment forks,  *)
(* on the host, one bridge for each proxy endpoint.  A bridge listens on a  *)
(* Unix socket in the socket directory of the helper, which is named after  *)
(* its pid, and a cleanup worker removes the directory when no bridge is    *)
(* alive.  Directories whose owner is dead are swept by later helpers.      *)
(*                                                                         *)
(* Helpers share the parent of the directories and the pids.  Any process   *)
(* may be killed at any step; a bridge that dies stays a zombie as long as  *)
(* its helper lives.  remove_dir_all with its retries is one step.          *)
(***************************************************************************)
EXTENDS FiniteSetsExt, Naturals

CONSTANTS
  Helpers,    (* helper processes                                           *)
  Pids,       (* pids they may get                                          *)
  Endpoints,  (* proxy addresses on the loopback, numbers in their order    *)
  Keys,       (* proxy variables, numbers in alphabetical order             *)
  Foreign,    (* a value that names no loopback endpoint                    *)
  Env,        (* the proxy variables of each helper                         *)
  Attempts,   (* bound: names tried for a directory (128 in the code)       *)
  Leftovers,  (* sets of directories that helpers of the past have left     *)
  Subreaper,  (* do orphans go to another process than pid 1?               *)
  NoPid, NoName, NoDir, NoBridge, NoHelper

Names == Pids \X (0 .. Attempts - 1)
Indexes == 0 .. Cardinality(Endpoints) - 1
Bridges == Helpers \X Endpoints
Directories == [by : Helpers \cup {NoHelper}, sock : [Indexes -> Bridges \cup {NoBridge}]]

ASSUME ProxyAssumption ==
  /\ Endpoints \subseteq Nat /\ Keys \subseteq Nat /\ IsFiniteSet(Endpoints)
  /\ \A h \in Helpers : DOMAIN Env[h] \subseteq Keys
  /\ \A h \in Helpers : \A k \in DOMAIN Env[h] : Env[h][k] \in Endpoints \cup {Foreign}
  /\ Leftovers \subseteq SUBSET Names /\ NoHelper \notin Helpers
  /\ Foreign \notin Endpoints
  /\ Attempts \in Nat \ {0} /\ Subreaper \in BOOLEAN
  /\ NoPid \notin Pids /\ NoName \notin Names /\ NoBridge \notin Bridges
  /\ NoDir \notin Directories

VARIABLES
  proc,       (* each helper: "absent", "alive", "zombie", "gone"           *)
  pid,        (* its pid                                                    *)
  pc,         (* where it is in prepare_host_proxy_route_spec               *)
  scan,       (* directories its sweep has still to look at                 *)
  judged,     (* the one whose owner it found dead                          *)
  dir,        (* its own socket directory                                   *)
  dirs,       (* what exists at each name: who made it, and its sockets     *)
  br,         (* each bridge: "none", "forked", "armed", "bound", "serving",*)
              (* "zombie", "gone"                                           *)
  late,       (* bridges that asked for the death signal after the death    *)
  announced,  (* bridges that wrote HOST_BRIDGE_READY                       *)
  worker,     (* "none", "waiting", "removing", "done", "killed"            *)
  soiled,     (* ghost: pids that have named a directory                    *)
  fresh,      (* ghost: helpers whose pid had named none before             *)
  doomed      (* ghost: what a sweep has to remove, as long as it is orphan *)

EmptyDir(h) == [by |-> h, sock |-> [i \in Indexes |-> NoBridge]]

helperVars == <<proc, pid, pc, scan, judged, dir>>
bridgeVars == <<br, late, announced>>
ghostVars == <<soiled, fresh, doomed>>
proxyVars == <<helperVars, dirs, bridgeVars, worker, ghostVars>>

-----------------------------------------------------------------------------
(* The plan                                                                 *)

\* plan_proxy_routes: variables without a loopback endpoint are left out
Routed(h) == {k \in DOMAIN Env[h] : Env[h][k] # Foreign}
EndpointsOf(h) == {Env[h][k] : k \in Routed(h)}

FirstKey(h, e) == Min({k \in Routed(h) : Env[h][k] = e})

\* The socket of an endpoint: endpoints are numbered as the routes meet them.
SocketIndex(h, e) ==
  Cardinality({f \in EndpointsOf(h) : FirstKey(h, f) < FirstKey(h, e)})

-----------------------------------------------------------------------------
(* Processes                                                                *)

Alive(h) == proc[h] = "alive"

\* kill(pid, 0): a zombie is alive
PidInUse(p) == \E h \in Helpers : pid[h] = p /\ proc[h] \in {"alive", "zombie"}

BridgeRuns(h, e) == br[<<h, e>>] \in {"forked", "armed", "bound", "serving"}

\* is_pid_alive_raw of a bridge
BridgeCountsAlive(h, e) == br[<<h, e>>] \notin {"none", "gone"}

Goes(h, from, to) == Alive(h) /\ pc[h] = from /\ pc' = [pc EXCEPT ![h] = to]

Start(h, p) ==
  /\ proc[h] = "absent" /\ ~PidInUse(p)
  /\ proc' = [proc EXCEPT ![h] = "alive"]
  /\ pid' = [pid EXCEPT ![h] = p]
  /\ fresh' = IF p \in soiled THEN fresh ELSE fresh \cup {h}
  /\ doomed' = [g \in Helpers |-> {n \in doomed[g] : n[1] # p}]
  /\ UNCHANGED <<scan, judged, dir, dirs, bridgeVars, worker, soiled>>

\* A panic, an exit or SIGKILL: what was forked goes on by itself.
Dies(h) ==
  /\ Alive(h)
  /\ proc' = [proc EXCEPT ![h] = "zombie"]
  /\ scan' = [scan EXCEPT ![h] = {}]
  /\ judged' = [judged EXCEPT ![h] = NoName]
  /\ doomed' = [doomed EXCEPT ![h] = {}]
  /\ UNCHANGED <<pid, dir, dirs, bridgeVars, worker, soiled, fresh>>

\* The caller of a helper waits for it; then its pid may be used again.
Reap(h) ==
  /\ proc[h] = "zombie"
  /\ proc' = [proc EXCEPT ![h] = "gone"]
  /\ UNCHANGED <<pid, pc, scan, judged, dir, dirs, bridgeVars, worker, ghostVars>>

-----------------------------------------------------------------------------
(* prepare_host_proxy_route_spec                                            *)

\* Without a route the helper panics.
PlanRoutes(h) ==
  /\ Routed(h) # {}
  /\ Goes(h, "plan", "sweep")
  /\ scan' = [scan EXCEPT ![h] = {n \in Names : dirs[n] # NoDir}]
  /\ doomed' = [doomed EXCEPT ![h] = {n \in Names : dirs[n] # NoDir /\ ~PidInUse(n[1])}]
  /\ UNCHANGED <<proc, pid, judged, dir, dirs, bridgeVars, worker, soiled, fresh>>

\* A bug: the owner is not looked for.
OwnerDead_Unasked(n) == TRUE

OwnerDead(n) == ~PidInUse(n[1])

\* One entry of cleanup_stale_proxy_socket_dirs_in
SweepEntry(h, n) ==
  /\ Alive(h) /\ pc[h] = "sweep" /\ judged[h] = NoName /\ n \in scan[h]
  /\ scan' = [scan EXCEPT ![h] = @ \ {n}]
  /\ judged' = [judged EXCEPT ![h] = IF OwnerDead(n) THEN n ELSE NoName]
  /\ UNCHANGED <<proc, pid, pc, dir, dirs, bridgeVars, worker, ghostVars>>

\* A bug: what is stale is passed over.
RemoveJudged_Skipped(h) ==
  /\ Alive(h) /\ judged[h] # NoName
  /\ judged' = [judged EXCEPT ![h] = NoName]
  /\ UNCHANGED <<proc, pid, pc, scan, dir, dirs, bridgeVars, worker, ghostVars>>

\* cleanup_proxy_socket_dir removes whatever is there by now.
RemoveJudged(h) ==
  /\ Alive(h) /\ judged[h] # NoName
  /\ dirs' = [dirs EXCEPT ![judged[h]] = NoDir]
  /\ judged' = [judged EXCEPT ![h] = NoName]
  /\ UNCHANGED <<proc, pid, pc, scan, dir, bridgeVars, worker, ghostVars>>

\* create_proxy_socket_dir: the first free name.  Nobody else creates names of
\* this pid, so the attempts are one step.
MakeDir(h) ==
  LET free == {a \in 0 .. Attempts - 1 : dirs[<<pid[h], a>>] = NoDir}
      n == <<pid[h], Min(free)>>
  IN /\ Goes(h, "sweep", "spawn")
     /\ scan[h] = {} /\ judged[h] = NoName /\ free # {}
     /\ dirs' = [dirs EXCEPT ![n] = EmptyDir(h)]
     /\ dir' = [dir EXCEPT ![h] = n]
     /\ soiled' = soiled \cup {pid[h]}
     /\ doomed' = [doomed EXCEPT ![h] = {}]
     /\ UNCHANGED <<proc, pid, scan, judged, bridgeVars, worker, fresh>>

Spawned(h) == {e \in EndpointsOf(h) : br[<<h, e>>] # "none"}
AllAnnounced(h) == \A e \in Spawned(h) : <<h, e>> \in announced

\* The fork in spawn_host_bridge, once the bridge before has announced itself
ForkBridge(h) ==
  LET next == EndpointsOf(h) \ Spawned(h)
  IN /\ Alive(h) /\ pc[h] = "spawn" /\ next # {} /\ AllAnnounced(h)
     /\ br' = [br EXCEPT ![<<h, Min(next)>>] = "forked"]
     /\ UNCHANGED <<helperVars, dirs, late, announced, worker, ghostVars>>

\* The pipe of the last bridge is closed without a byte in it: an error.
BridgeUnready(h) ==
  /\ pc[h] = "spawn"
  /\ \E e \in Spawned(h) : <<h, e>> \notin announced /\ ~BridgeRuns(h, e)

\* spawn_proxy_socket_dir_cleanup_worker
StartWorker(h) ==
  /\ EndpointsOf(h) = Spawned(h) /\ AllAnnounced(h)
  /\ Goes(h, "spawn", "prepared")
  /\ worker' = [worker EXCEPT ![h] = "waiting"]
  /\ UNCHANGED <<proc, pid, scan, judged, dir, dirs, bridgeVars, ghostVars>>

-----------------------------------------------------------------------------
(* Host bridges                                                             *)

Becomes(h, e, state) == br' = [br EXCEPT ![<<h, e>>] = state]

\* set_parent_death_signal.  An orphan notices by a parent of pid 1, so not where
\* orphans go to a subreaper.
Arm(h, e) ==
  /\ br[<<h, e>>] = "forked"
  /\ Becomes(h, e, IF Alive(h) \/ Subreaper THEN "armed" ELSE "gone")
  /\ late' = IF Alive(h) THEN late ELSE late \cup {<<h, e>>}
  /\ UNCHANGED <<helperVars, dirs, announced, worker, ghostVars>>

\* remove_file and bind: without the directory the bridge exits.
Bind(h, e) ==
  /\ br[<<h, e>>] = "armed"
  /\ IF dirs[dir[h]] = NoDir
       THEN Becomes(h, e, IF Alive(h) THEN "zombie" ELSE "gone") /\ UNCHANGED dirs
       ELSE /\ Becomes(h, e, "bound")
            /\ dirs' = [dirs EXCEPT ![dir[h]].sock[SocketIndex(h, e)] = <<h, e>>]
  /\ UNCHANGED <<helperVars, late, announced, worker, ghostVars>>

\* A bug: a bridge that cannot announce itself serves nonetheless.
Announce_Regardless(h, e) ==
  /\ br[<<h, e>>] = "bound"
  /\ Becomes(h, e, "serving")
  /\ announced' = announced \cup {<<h, e>>}
  /\ UNCHANGED <<helperVars, dirs, late, worker, ghostVars>>

\* The readiness byte; writing it fails when the helper is gone.
Announce(h, e) ==
  /\ br[<<h, e>>] = "bound"
  /\ IF Alive(h)
       THEN Becomes(h, e, "serving") /\ announced' = announced \cup {<<h, e>>}
       ELSE Becomes(h, e, "gone") /\ UNCHANGED announced
  /\ UNCHANGED <<helperVars, dirs, late, worker, ghostVars>>

\* PR_SET_PDEATHSIG: SIGTERM after the death of the helper
BridgeTerminated(h, e) ==
  /\ BridgeRuns(h, e) /\ br[<<h, e>>] # "forked" /\ <<h, e>> \notin late
  /\ ~Alive(h)
  /\ Becomes(h, e, "gone")
  /\ UNCHANGED <<helperVars, dirs, late, announced, worker, ghostVars>>

\* An error of accept, or a signal
BridgeFails(h, e) ==
  /\ BridgeRuns(h, e) /\ Alive(h)
  /\ Becomes(h, e, "zombie")
  /\ UNCHANGED <<helperVars, dirs, late, announced, worker, ghostVars>>

\* Zombies of a dead helper are reaped by whoever inherits them.
ReapBridge(h, e) ==
  /\ br[<<h, e>>] = "zombie" /\ ~Alive(h)
  /\ Becomes(h, e, "gone")
  /\ UNCHANGED <<helperVars, dirs, late, announced, worker, ghostVars>>

-----------------------------------------------------------------------------
(* The cleanup worker                                                       *)

\* A bug: a bridge that was there once counts for ever.
WorkerWaits_ForTheDead(h) == \E e \in EndpointsOf(h) : br[<<h, e>>] # "none"

\* The loop of the worker: is a bridge still alive?
WorkerWaits(h) == \E e \in EndpointsOf(h) : BridgeCountsAlive(h, e)

WorkerLooks(h) ==
  /\ worker[h] = "waiting" /\ ~WorkerWaits(h)
  /\ worker' = [worker EXCEPT ![h] = "removing"]
  /\ UNCHANGED <<helperVars, dirs, bridgeVars, ghostVars>>

WorkerRemoves(h) ==
  /\ worker[h] = "removing"
  /\ dirs' = [dirs EXCEPT ![dir[h]] = NoDir]
  /\ worker' = [worker EXCEPT ![h] = "done"]
  /\ UNCHANGED <<helperVars, bridgeVars, ghostVars>>

\* The worker has no death signal, but shares the terminal of the helper.
KillWorker(h) ==
  /\ worker[h] \in {"waiting", "removing"}
  /\ worker' = [worker EXCEPT ![h] = "killed"]
  /\ UNCHANGED <<helperVars, dirs, bridgeVars, ghostVars>>

-----------------------------------------------------------------------------
(* Everything but the start and the end of a helper, which belong to the    *)
(* stages of the helper (HelperStages).                                     *)

ProxyInit ==
  /\ proc = [h \in Helpers |-> "absent"]
  /\ pid = [h \in Helpers |-> NoPid]
  /\ scan = [h \in Helpers |-> {}]
  /\ judged = [h \in Helpers |-> NoName]
  /\ dir = [h \in Helpers |-> NoName]
  /\ \E left \in Leftovers :
       /\ dirs = [n \in Names |-> IF n \in left THEN EmptyDir(NoHelper) ELSE NoDir]
       /\ soiled = {n[1] : n \in left}
  /\ br = [b \in Bridges |-> "none"]
  /\ late = {} /\ announced = {}
  /\ worker = [h \in Helpers |-> "none"]
  /\ fresh = {} /\ doomed = [h \in Helpers |-> {}]

Prepare(h) ==
  \/ PlanRoutes(h)
  \/ \E n \in Names : SweepEntry(h, n)
  \/ RemoveJudged(h) \/ MakeDir(h) \/ ForkBridge(h) \/ StartWorker(h)

BridgeStep(h, e) ==
  Arm(h, e) \/ Bind(h, e) \/ Announce(h, e) \/ BridgeTerminated(h, e) \/ ReapBridge(h, e)

WorkerStep(h) == WorkerLooks(h) \/ WorkerRemoves(h)

ProxyTypeOK ==
  /\ proc \in [Helpers -> {"absent", "alive", "zombie", "gone"}]
  /\ pid \in [Helpers -> Pids \cup {NoPid}]
  /\ scan \in [Helpers -> SUBSET Names]
  /\ judged \in [Helpers -> Names \cup {NoName}]
  /\ dir \in [Helpers -> Names \cup {NoName}]
  /\ dirs \in [Names -> {NoDir} \cup Directories]
  /\ br \in [Bridges -> {"none", "forked", "armed", "bound", "serving", "zombie", "gone"}]
  /\ late \subseteq Bridges /\ announced \subseteq Bridges
  /\ worker \in [Helpers -> {"none", "waiting", "removing", "done", "killed"}]
  /\ soiled \subseteq Pids /\ fresh \subseteq Helpers
  /\ doomed \in [Helpers -> SUBSET Names]

=============================================================================
