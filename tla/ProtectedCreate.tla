---------------------------- MODULE ProtectedCreate ----------------------------
(***************************************************************************)
(* Protected-create targets of the Linux helper.                           *)
(*                                                                         *)
(* A missing .git under a parent repository cannot be masked (git would    *)
(* take the mask for a repository), so the sandbox may create it.  While   *)
(* the command runs a monitor thread of the helper removes what appears    *)
(* there; when the command has ended the monitor is stopped and joined,    *)
(* the paths are cleaned up under the registry lock, and a run that        *)
(* created one of them fails.  Several helpers may watch the same path,    *)
(* the user works on it too, and a helper may be killed at any step.       *)
(*                                                                         *)
(* The child is released when its monitor has started (BwrapRun), so one   *)
(* action registers, forks and starts the monitor.                         *)
(***************************************************************************)
EXTENDS FiniteSets, Naturals

CONSTANTS
  Procs,    (* pids a helper process can have                               *)
  Paths,    (* the paths that must not be created                           *)
  PidReuse  (* may the pid of a dead helper belong to some other process?   *)

ASSUME PidReuseAssumption == PidReuse \in BOOLEAN

VARIABLES
  host,      (* what is at each path: "none", "plain" or "dangling", a      *)
             (* symbolic link to nothing                                    *)
  marker,    (* marker[x]: the helpers that have a marker file for x        *)
  pc,        (* where each helper is                                        *)
  want,      (* its ProtectedCreateTargets                                  *)
  child,     (* does its bubblewrap run?  (it can outlive the helper)       *)
  mon,       (* where its monitor thread is                                 *)
  todo,      (* targets that the monitor's pass, or the cleanup, still has  *)
             (* to look at                                                  *)
  seen,      (* the target that lstat found, about to be removed            *)
  violation, (* has a violation been noticed?                               *)
  code,      (* how its last run exited; "crashed" by a panic or a signal    *)
  made,      (* ghost: paths that hold what the run's sandbox created       *)
  real       (* ghost: paths that hold what was created when no helper      *)
             (* knew the path as missing                                    *)

vars == <<host, marker, pc, want, child, mon, todo, seen, violation, code, made, real>>

-----------------------------------------------------------------------------

Missing(x) == host[x] = "none"

\* Path::exists follows the link
PathExists(x) == host[x] = "plain"

\* with_synthetic_mount_registry_lock; the lock of a dead helper is released.
LockFree == \A q \in Procs : pc[q] # "cleaning"

\* process_is_active says no for the pids in `gone`.
GoneSets ==
  LET off == {q \in Procs : pc[q] = "off"} IN
  IF PidReuse THEN SUBSET off ELSE {off}

\* p is gone, how it exited; an orphan goes on with what it was started with.
Vanish(p, how) ==
  /\ pc' = [pc EXCEPT ![p] = "off"]
  /\ code' = [code EXCEPT ![p] = how]
  /\ mon' = [mon EXCEPT ![p] = "none"]
  /\ todo' = [todo EXCEPT ![p] = {}]
  /\ seen' = [seen EXCEPT ![p] = {}]
  /\ want' = IF child[p] THEN want ELSE [want EXCEPT ![p] = {}]

\* exit_with_wait_status_or_policy_violation, whatever the command returned
ExitCodes(violated) == IF violated THEN {"nonzero"} ELSE {"zero", "nonzero"}

\* What x held is gone.
Clear(x) ==
  /\ host' = [host EXCEPT ![x] = "none"]
  /\ made' = [p \in Procs |-> made[p] \ {x}]
  /\ real' = real \ {x}

\* try_remove_protected_create_target after its lstat: somebody may have been
\* faster; a directory that is written to may resist all attempts.
TryRemove(x, result) ==
  \/ Missing(x) /\ result = "missing" /\ UNCHANGED <<host, made, real>>
  \/ ~Missing(x) /\ result = "removed" /\ Clear(x)
  \/ ~Missing(x) /\ result = "error" /\ UNCHANGED <<host, made, real>>

-----------------------------------------------------------------------------
(* The helper                                                               *)

\* A bug: what is there already is a target as well.
Plannable_Everything == Paths

\* A bug: the writable root itself becomes a target.
Plannable_WithRoot == {x \in Paths : Missing(x)} \cup {"root"}

\* append_protected_create_targets_for_writable_root, for a path that
\* should_leave_missing_git_for_parent_repo_discovery does not mask
Plannable == {x \in Paths : Missing(x)}

Plan(p) ==
  /\ pc[p] = "off" /\ ~child[p]
  /\ \E S \in SUBSET Plannable :
       S # {} /\ want' = [want EXCEPT ![p] = S]
  /\ pc' = [pc EXCEPT ![p] = "planned"]
  /\ code' = [code EXCEPT ![p] = "none"]
  /\ violation' = [violation EXCEPT ![p] = FALSE]
  /\ made' = [made EXCEPT ![p] = {}]
  /\ UNCHANGED <<host, marker, child, mon, todo, seen, real>>

\* register_protected_create_targets, fork and ProtectedCreateMonitor::start
RegisterProtectedCreateTargets(p) ==
  /\ pc[p] = "planned" /\ LockFree
  /\ marker' = [x \in Paths |-> IF x \in want[p] THEN marker[x] \cup {p} ELSE marker[x]]
  /\ pc' = [pc EXCEPT ![p] = "running"]
  /\ child' = [child EXCEPT ![p] = TRUE]
  /\ mon' = [mon EXCEPT ![p] = "top"]
  /\ UNCHANGED <<host, want, todo, seen, violation, code, made, real>>

\* A bug: one pass is enough.
MonitorPassEnds_Stops(p) ==
  /\ mon[p] = "pass" /\ todo[p] = {} /\ seen[p] = {}
  /\ mon' = [mon EXCEPT ![p] = "done"]
  /\ UNCHANGED <<host, marker, pc, want, child, todo, seen, violation, code, made, real>>

\* A bug: `stop` is not looked at.
MonitorLoops_IgnoresStop(p) ==
  /\ mon[p] = "top"
  /\ mon' = [mon EXCEPT ![p] = "pass"] /\ todo' = [todo EXCEPT ![p] = want[p]]
  /\ UNCHANGED <<host, marker, pc, want, child, seen, violation, code, made, real>>

\* The monitor's loop condition: `stop` is set once the child is reaped.
MonitorLoops(p) ==
  /\ mon[p] = "top"
  /\ IF pc[p] = "running"
       THEN mon' = [mon EXCEPT ![p] = "pass"] /\ todo' = [todo EXCEPT ![p] = want[p]]
       ELSE mon' = [mon EXCEPT ![p] = "done"] /\ UNCHANGED todo
  /\ UNCHANGED <<host, marker, pc, want, child, seen, violation, code, made, real>>

\* symlink_metadata of the next target
MonitorLooks(p, x) ==
  /\ mon[p] = "pass" /\ x \in todo[p] /\ seen[p] = {}
  /\ todo' = [todo EXCEPT ![p] = @ \ {x}]
  /\ seen' = [seen EXCEPT ![p] = IF Missing(x) THEN {} ELSE {x}]
  /\ UNCHANGED <<host, marker, pc, want, child, mon, violation, code, made, real>>

\* remove_protected_create_target_best_effort: an error counts as a violation.
MonitorRemoves(p, x) ==
  /\ mon[p] = "pass" /\ x \in seen[p]
  /\ seen' = [seen EXCEPT ![p] = {}]
  /\ \E result \in {"missing", "removed", "error"} :
       /\ TryRemove(x, result)
       /\ violation' = [violation EXCEPT ![p] = @ \/ result # "missing"]
  /\ UNCHANGED <<marker, pc, want, child, mon, todo, code>>

\* wait_for_create_event returns on an event, or after 10 ms without any.
MonitorPassEnds(p) ==
  /\ mon[p] = "pass" /\ todo[p] = {} /\ seen[p] = {}
  /\ mon' = [mon EXCEPT ![p] = "top"]
  /\ UNCHANGED <<host, marker, pc, want, child, todo, seen, violation, code, made, real>>

\* wait_for_bwrap_child, then `stop` is set
StopMonitor(p) ==
  /\ pc[p] = "running" /\ ~child[p]
  /\ pc' = [pc EXCEPT ![p] = "stopping"]
  /\ UNCHANGED <<host, marker, want, child, mon, todo, seen, violation, code, made, real>>

\* The monitor is joined.  A violation it noticed short-circuits the cleanup:
\* the helper exits with its markers in place.
JoinMonitor(p) ==
  /\ pc[p] = "stopping" /\ mon[p] = "done"
  /\ IF violation[p]
       THEN \E how \in ExitCodes(TRUE) : Vanish(p, how)
       ELSE /\ pc' = [pc EXCEPT ![p] = "joined"]
            /\ UNCHANGED <<want, mon, todo, seen, code>>
  /\ UNCHANGED <<host, marker, child, violation, made, real>>

\* cleanup_protected_create_targets, first loop
BeginCleanup(p) ==
  /\ pc[p] = "joined" /\ LockFree
  /\ marker' = [x \in Paths |-> IF x \in want[p] THEN marker[x] \ {p} ELSE marker[x]]
  /\ todo' = [todo EXCEPT ![p] = want[p]]
  /\ pc' = [pc EXCEPT ![p] = "cleaning"]
  /\ UNCHANGED <<host, want, child, mon, seen, violation, code, made, real>>

\* A bug: a path that is left to another helper is not looked at.
Examine_NoLook(p, x) ==
  /\ pc[p] = "cleaning" /\ x \in todo[p] /\ seen[p] = {}
  /\ todo' = [todo EXCEPT ![p] = @ \ {x}]
  /\ \E gone \in GoneSets : \E reaped \in SUBSET gone :
       LET active == marker[x] \ gone IN
       /\ marker' = [marker EXCEPT ![x] = @ \ (IF active = {} THEN gone ELSE reaped)]
       /\ seen' = [seen EXCEPT ![p] = IF active # {} \/ Missing(x) THEN {} ELSE {x}]
       /\ UNCHANGED violation
  /\ UNCHANGED <<host, pc, want, child, mon, code, made, real>>

\* Second loop: a path that another process watches is only looked at; any
\* other is removed.
Examine(p, x) ==
  /\ pc[p] = "cleaning" /\ x \in todo[p] /\ seen[p] = {}
  /\ todo' = [todo EXCEPT ![p] = @ \ {x}]
  /\ \E gone \in GoneSets : \E reaped \in SUBSET gone :
       LET active == marker[x] \ gone IN
       /\ marker' = [marker EXCEPT ![x] = @ \ (IF active = {} THEN gone ELSE reaped)]
       /\ seen' = [seen EXCEPT ![p] = IF active # {} \/ Missing(x) THEN {} ELSE {x}]
       /\ violation' = [violation EXCEPT ![p] = @ \/ (active # {} /\ PathExists(x))]
  /\ UNCHANGED <<host, pc, want, child, mon, code, made, real>>

\* remove_protected_create_target: an error is a panic, which exits with 101.
Remove(p, x) ==
  /\ pc[p] = "cleaning" /\ x \in seen[p]
  /\ \E result \in {"missing", "removed", "error"} :
       /\ TryRemove(x, result)
       /\ IF result = "error"
            THEN Vanish(p, "crashed") /\ UNCHANGED violation
            ELSE /\ seen' = [seen EXCEPT ![p] = {}]
                 /\ violation' = [violation EXCEPT ![p] = @ \/ result = "removed"]
                 /\ UNCHANGED <<pc, want, mon, todo, code>>
  /\ UNCHANGED <<marker, child>>

EndCleanup(p) ==
  /\ pc[p] = "cleaning" /\ todo[p] = {} /\ seen[p] = {}
  /\ \E how \in ExitCodes(violation[p]) : Vanish(p, how)
  /\ UNCHANGED <<host, marker, child, violation, made, real>>

\* SIGKILL, or a panic elsewhere
Crash(p) ==
  /\ pc[p] # "off"
  /\ Vanish(p, "crashed")
  /\ UNCHANGED <<host, marker, child, violation, made, real>>

-----------------------------------------------------------------------------
(* The sandboxed command, and the user                                      *)

SandboxCreates(p, x) ==
  /\ child[p] /\ x \in want[p] /\ Missing(x)
  /\ \E k \in {"plain", "dangling"} : host' = [host EXCEPT ![x] = k]
  /\ made' = [made EXCEPT ![p] = @ \cup {x}]
  /\ UNCHANGED <<marker, pc, want, child, mon, todo, seen, violation, code, real>>

SandboxRemoves(p, x) ==
  /\ child[p] /\ x \in want[p] /\ ~Missing(x)
  /\ Clear(x)
  /\ UNCHANGED <<marker, pc, want, child, mon, todo, seen, violation, code>>

\* The command ends; the death signal ends an orphan.
ChildExits(p) ==
  /\ child[p]
  /\ child' = [child EXCEPT ![p] = FALSE]
  /\ want' = IF pc[p] = "off" THEN [want EXCEPT ![p] = {}] ELSE want
  /\ UNCHANGED <<host, marker, pc, mon, todo, seen, violation, code, made, real>>

UserCreates(x) ==
  /\ Missing(x)
  /\ \E k \in {"plain", "dangling"} : host' = [host EXCEPT ![x] = k]
  /\ real' = IF \E p \in Procs : x \in want[p] THEN real ELSE real \cup {x}
  /\ UNCHANGED <<marker, pc, want, child, mon, todo, seen, violation, code, made>>

UserRemoves(x) ==
  /\ ~Missing(x)
  /\ Clear(x)
  /\ UNCHANGED <<marker, pc, want, child, mon, todo, seen, violation, code>>

-----------------------------------------------------------------------------

Init ==
  /\ host = [x \in Paths |-> "none"]
  /\ marker = [x \in Paths |-> {}]
  /\ pc = [p \in Procs |-> "off"]
  /\ want = [p \in Procs |-> {}]
  /\ child = [p \in Procs |-> FALSE]
  /\ mon = [p \in Procs |-> "none"]
  /\ todo = [p \in Procs |-> {}]
  /\ seen = [p \in Procs |-> {}]
  /\ violation = [p \in Procs |-> FALSE]
  /\ code = [p \in Procs |-> "none"]
  /\ made = [p \in Procs |-> {}]
  /\ real = {}

MonitorStep(p) ==
  \/ MonitorLoops(p)
  \/ \E x \in Paths : MonitorLooks(p, x) \/ MonitorRemoves(p, x)
  \/ MonitorPassEnds(p)

CleanupStep(p) ==
  \/ \E x \in Paths : Examine(p, x) \/ Remove(p, x)
  \/ EndCleanup(p)

SandboxStep(p) ==
  \/ \E x \in Paths : SandboxCreates(p, x) \/ SandboxRemoves(p, x)
  \/ ChildExits(p)

HelperStep(p) ==
  \/ Plan(p) \/ RegisterProtectedCreateTargets(p) \/ MonitorStep(p)
  \/ StopMonitor(p) \/ JoinMonitor(p) \/ BeginCleanup(p) \/ CleanupStep(p)
  \/ Crash(p)

Next ==
  \/ \E p \in Procs : HelperStep(p) \/ SandboxStep(p)
  \/ \E x \in Paths : UserCreates(x) \/ UserRemoves(x)

\* Threads that can run do run; flock passes nobody over for ever.  A command
\* may run as long as it likes, and nobody need create anything.
Fairness(p) ==
  /\ WF_vars(MonitorStep(p))
  /\ WF_vars(StopMonitor(p))
  /\ WF_vars(JoinMonitor(p))
  /\ SF_vars(BeginCleanup(p))
  /\ WF_vars(CleanupStep(p))

Spec == Init /\ [][Next]_vars /\ \A p \in Procs : Fairness(p)

-----------------------------------------------------------------------------
(* Properties                                                               *)

TypeOK ==
  /\ host \in [Paths -> {"none", "plain", "dangling"}]
  /\ marker \in [Paths -> SUBSET Procs]
  /\ pc \in [Procs -> {"off", "planned", "running", "stopping", "joined", "cleaning"}]
  /\ want \in [Procs -> SUBSET Paths]
  /\ child \in [Procs -> BOOLEAN]
  /\ mon \in [Procs -> {"none", "top", "pass", "done"}]
  /\ todo \in [Procs -> SUBSET Paths]
  /\ seen \in [Procs -> SUBSET Paths]
  /\ violation \in [Procs -> BOOLEAN]
  /\ code \in [Procs -> {"none", "zero", "nonzero", "crashed"}]
  /\ made \in [Procs -> SUBSET Paths]
  /\ real \subseteq Paths

\* A run that succeeds leaves behind nothing that its sandbox created at a
\* protected path, whoever else watches the path and whatever the monitor got
\* to see (run_bwrap_in_child_with_synthetic_mount_cleanup and
\* cleanup_protected_create_targets; dangling links are excepted, which a
\* cleanup that leaves the path to another helper does not see).
SuccessLeavesNothing ==
  \A p \in Procs : code[p] = "zero" => \A x \in made[p] : ~PathExists(x)

\* What was there before any helper planned for its path is never about to be
\* removed, by a monitor or a cleanup (ProtectedCreateTarget::missing is made
\* for missing paths only, and forgotten with the run).
RealPathsKept ==
  \A p \in Procs : seen[p] \cap real = {}

-----------------------------------------------------------------------------
(* The inductive invariant behind the two properties above                  *)

\* The phases of a run: no cleanup without a joined monitor, no cleanup beside
\* a live command, and nothing under way in a helper that is gone.
PhaseInv ==
  \A p \in Procs :
    /\ pc[p] \in {"planned", "stopping", "joined", "cleaning"} => ~child[p]
    /\ pc[p] \in {"joined", "cleaning"} => mon[p] = "done"
    /\ pc[p] = "off" => todo[p] = {} /\ seen[p] = {}
    /\ code[p] = "zero" => pc[p] = "off" /\ ~child[p]

\* A run looks at its own targets only, one at a time, and its sandbox can create no others.
ScopeInv ==
  \A p \in Procs :
    /\ todo[p] \subseteq want[p] /\ seen[p] \subseteq want[p]
    /\ \A x, y \in seen[p] : x = y
    /\ pc[p] # "off" => made[p] \subseteq want[p]
    /\ \A x \in made[p] : ~Missing(x)

\* A cleanup that has found no violation still has before it whatever the
\* sandbox left.
CleanupInv ==
  \A p \in Procs : pc[p] = "cleaning" /\ ~violation[p] =>
    \A x \in made[p] : PathExists(x) => x \in todo[p] \cup seen[p]

\* Nobody has a path as its target that was there before.
RealInv == \A x \in real : ~Missing(x) /\ \A p \in Procs : x \notin want[p]

IInv ==
  TypeOK /\ PhaseInv /\ ScopeInv /\ CleanupInv /\ RealInv /\ SuccessLeavesNothing

-----------------------------------------------------------------------------
(* Further properties, and what the source says that does not hold          *)

\* Whatever the sandbox creates at a protected path is removed by somebody or
\* noticed by its own helper, unless that dies first: the monitor or the cleanup
\* gets to it (ProtectedCreateMonitor, cleanup_protected_create_targets).
CreationNoticed ==
  \A p \in Procs : \A x \in Paths :
    (x \in made[p] /\ PathExists(x) /\ pc[p] = "running")
      ~> (violation[p] \/ x \notin made[p] \/ code[p] = "crashed")

\* A helper whose command has ended exits: the monitor sees `stop`, is joined,
\* and the lock is granted (ProtectedCreateMonitor::stop).
RunEnds == \A p \in Procs : pc[p] = "stopping" ~> pc[p] = "off"

\* What the test cleanup_protected_create_targets_removes_created_path_and_
\* reports_violation says of a run: the path is gone afterwards.  Here: when all
\* runs have ended and none crashed, nothing a sandbox created is left.
NoProtectedPathSurvives ==
  (\A p \in Procs : pc[p] = "off" /\ code[p] # "crashed")
    => \A p \in Procs : made[p] = {}

==============================================================================
