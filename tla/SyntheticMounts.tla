--------------------------- MODULE SyntheticMounts ---------------------------
(***************************************************************************)
(* The synthetic mount registry of the Linux helper.                       *)
(*                                                                         *)
(* A sandboxed run masks protected workspace metadata (.git, .agents,      *)
(* .codex, ...) that does not exist yet by mounting something empty over   *)
(* it; bubblewrap then leaves an empty mount point on the HOST.  Helper    *)
(* processes that share a workspace agree, through marker files named by   *)
(* their pids, on who removes it: markers are written and scanned under a  *)
(* file lock, while the mount plan is made, and bubblewrap runs, outside   *)
(* it.  Helpers may be killed at any step, pids are reused, and the user   *)
(* works in the same directory meanwhile.                                  *)
(*                                                                         *)
(* Sections of the registry lock that touch only markers are one action;   *)
(* the section that also touches the workspace is one action per system    *)
(* call, because the user does not take the lock.                          *)
(***************************************************************************)
EXTENDS FiniteSets, Naturals

CONSTANTS
  Procs,      (* pids a helper process can have                             *)
  Paths,      (* paths that policies protect                                *)
  MetaPaths,  (* those whose last component is a protected metadata name    *)
  Denied,     (* those that some policies deny, or something below them     *)
  Inodes,     (* identities the file system gives to files                  *)
  NoInode,    (* the identity of nothing                                    *)
  InodeReuse, (* does the file system reuse the inode of a removed file?    *)
  PidReuse    (* may the pid of a dead helper belong to some other process? *)

ASSUME ConstantsAssumption ==
  /\ MetaPaths \subseteq Paths /\ Denied \subseteq Paths
  /\ NoInode \notin Inodes
  /\ {InodeReuse, PidReuse} \subseteq BOOLEAN

VARIABLES
  fs,         (* what the host has at each path                             *)
  spent,      (* inodes that will not be allocated again                    *)
  marker,     (* marker[x][p]: content of the marker file of p for path x   *)
  pc,         (* where each helper is; "off": no helper has this pid        *)
  target,     (* target[p][x]: the mount target of p for x                  *)
  child,      (* p's bubblewrap: "none", "setup" (it mounts) or "command";  *)
              (* it can outlive p                                           *)
  todo,       (* targets the cleanup of p has still to look at              *)
  condemned,  (* targets the cleanup of p has decided to remove             *)
  real        (* ghost: paths holding a file no helper knew as missing      *)

vars == <<fs, spent, marker, pc, target, child, todo, condemned, real>>

-----------------------------------------------------------------------------
(* Data                                                                     *)

Kinds == {"file", "dir"}
Markers == {"none", "synthetic", "existing"}

\* A file system object; `by` is a ghost that says who created it.
Object == [kind: Kinds \cup {"none"}, ino: Inodes \cup {NoInode},
           empty: BOOLEAN, by: {"user", "bwrap"}]
Absent == [kind |-> "none", ino |-> NoInode, empty |-> TRUE, by |-> "user"]

\* SyntheticMountTarget: its kind and the identity of a pre-existing path.  The
\* list of a helper may hold two for one path: a missing directory (`dirToo`),
\* and behind it a missing file.
Target == [kind: Kinds \cup {"none"}, pre: Inodes \cup {NoInode}, dirToo: BOOLEAN]
NoTarget == [kind |-> "none", pre |-> NoInode, dirToo |-> FALSE]
Missing(k, both) == [kind |-> k, pre |-> NoInode, dirToo |-> both]

Exists(x) == fs[x].kind # "none"

FreeInodes == Inodes \ (spent \cup {fs[x].ino : x \in Paths})
Spend(i) == spent' = IF InodeReuse THEN spent ELSE spent \cup {i}

Targets(p) == {x \in Paths : target[p][x].kind # "none"}

\* What a policy's rules for x, or below a missing x, make of it.
\* append_read_only_subpath_args treats an empty metadata path as a transient
\* mount point, masks what is missing, and binds anything else read-only without
\* a target; append_unreadable_root_args registers an empty FILE for whatever is
\* missing, and hides what exists without a target.  Metadata of a root that is
\* denied as well goes through both.
PlannedTargets(x) ==
  LET o == fs[x] IN
  IF o.kind = "none"
    THEN {Missing(IF x \in MetaPaths THEN "dir" ELSE "file", FALSE)}
           \cup (IF x \in Denied THEN {Missing("file", FALSE)} ELSE {})
           \cup (IF x \in Denied \cap MetaPaths THEN {Missing("file", TRUE)} ELSE {})
  ELSE IF x \in MetaPaths /\ o.empty
    THEN {[kind |-> o.kind, pre |-> o.ino, dirToo |-> FALSE]}
  ELSE {}

\* The mask that bubblewrap puts over a missing x first.
FirstMask(t) == IF t.dirToo THEN "dir" ELSE t.kind

\* A bug: the content of the other kind of marker.
MarkerContents_WrongConstant(t) == "protected-create"

\* synthetic_mount_marker_contents
MarkerContents(t) == IF t.pre = NoInode THEN "synthetic" ELSE "existing"

\* A bug: the identity of a pre-existing path is not looked at.
ShouldRemove_IgnoresIdentity(t, o) == t.kind = o.kind /\ (o.kind = "file" => o.empty)

\* should_remove_after_bwrap
ShouldRemove(t, o) ==
  /\ t.kind = o.kind
  /\ o.kind = "file" => o.empty
  /\ t.pre # o.ino

-----------------------------------------------------------------------------
(* The registry lock and the scan of a marker directory                     *)

\* A bug: the lock is kept from registration to cleanup, as a self-deadlock.
LockFree_HeldAcrossRuns == \A q \in Procs : pc[q] \notin {"running", "cleaning"}

\* with_synthetic_mount_registry_lock; the lock of a dead helper is released.
LockFree == \A q \in Procs : pc[q] # "cleaning"

\* process_is_active says no for the pids in `gone`.  Where pids are reused, a
\* dead helper may look alive.
GoneSets ==
  LET off == {q \in Procs : pc[q] = "off"} IN
  IF PidReuse THEN SUBSET off ELSE {off}

SyntheticOwners(x, gone) == {q \in Procs \ gone : marker[x][q] = "synthetic"}

\* A bug: only the markers of synthetic owners keep a mount point in use.
ActiveProcesses_SyntheticOnly(x, gone) == SyntheticOwners(x, gone)

ActiveProcesses(x, gone) == {q \in Procs \ gone : marker[x][q] # "none"}

\* A scan stops at its first match and removes the stale markers it met on the
\* way (`reaped`): all of them when nothing matches.
Scanned(x, matches, gone, reaped) ==
  [q \in Procs |-> IF q \in (IF matches = {} THEN gone ELSE reaped)
                     THEN "none" ELSE marker[x][q]]

-----------------------------------------------------------------------------
(* The helper                                                               *)

\* build_bwrap_argv: reads the host outside the lock.  A helper whose plan has
\* no target replaces itself by bubblewrap (run_or_exec_bwrap) and leaves
\* nothing to clean up.
Plan(p) ==
  /\ pc[p] = "off" /\ child[p] = "none"
  /\ \E t \in [Paths -> Target] :
       /\ \A x \in Paths : t[x] \in {NoTarget} \cup PlannedTargets(x)
       /\ \E x \in Paths : t[x].kind # "none"
       /\ target' = [target EXCEPT ![p] = t]
  /\ pc' = [pc EXCEPT ![p] = "planned"]
  /\ UNCHANGED <<fs, spent, marker, child, todo, condemned, real>>

\* A pre-existing path that an active synthetic owner masks is a transient
\* mount point: its registration forgets the identity.
Registered(p, x, gone) ==
  IF target[p][x].pre # NoInode /\ SyntheticOwners(x, gone) # {}
    THEN [target[p][x] EXCEPT !.pre = NoInode]
    ELSE target[p][x]

\* The lock section of register_synthetic_mount_targets, then fork.
RegisterSyntheticMountTargets(p) ==
  /\ pc[p] = "planned" /\ LockFree
  /\ \E gone \in GoneSets : \E reaped \in [Paths -> SUBSET gone] :
       /\ target' = [target EXCEPT ![p] = [x \in Paths |-> Registered(p, x, gone)]]
       /\ marker' = [x \in Paths |->
            IF x \notin Targets(p) THEN marker[x]
            ELSE [(IF target[p][x].pre = NoInode THEN marker[x]
                   ELSE Scanned(x, SyntheticOwners(x, gone), gone, reaped[x]))
                  EXCEPT ![p] = MarkerContents(Registered(p, x, gone))]]
  /\ pc' = [pc EXCEPT ![p] = "running"]
  /\ child' = [child EXCEPT ![p] = "setup"]
  /\ UNCHANGED <<fs, spent, todo, condemned, real>>

\* bubblewrap mounts over the path, which creates what is missing.  (When the
\* host has something of another kind there, or a file is to be mounted over a
\* directory just mounted, bubblewrap fails: ChildExits.)
ChildMounts(p, x) ==
  /\ child[p] = "setup" /\ target[p][x].kind # "none" /\ ~Exists(x)
  /\ \E i \in FreeInodes :
       /\ fs' = [fs EXCEPT ![x] =
                  [kind |-> FirstMask(target[p][x]), ino |-> i, empty |-> TRUE,
                   by |-> "bwrap"]]
       /\ Spend(i)
  /\ UNCHANGED <<marker, pc, target, child, todo, condemned, real>>

\* Every target is masked, so bubblewrap executes the command.
ChildStarts(p) ==
  /\ child[p] = "setup"
  /\ \A x \in Targets(p) : fs[x].kind = target[p][x].kind /\ ~target[p][x].dirToo
  /\ child' = [child EXCEPT ![p] = "command"]
  /\ UNCHANGED <<fs, spent, marker, pc, target, todo, condemned, real>>

\* Bubblewrap fails or the command ends.  The child of a dead helper is an
\* orphan until its parent-death signal ends it; its plan is forgotten then.
ChildExits(p) ==
  /\ child[p] # "none"
  /\ child' = [child EXCEPT ![p] = "none"]
  /\ target' = IF pc[p] = "off"
                 THEN [target EXCEPT ![p] = [x \in Paths |-> NoTarget]] ELSE target
  /\ UNCHANGED <<fs, spent, marker, pc, todo, condemned, real>>

\* A bug: the helper's own marker is still there when it looks for others.
WithoutMarker_Kept(p, m) == m

WithoutMarker(p, m) == [m EXCEPT ![p] = "none"]

\* cleanup_synthetic_mount_targets, first loop: the helper drops its markers.
BeginCleanup(p) ==
  /\ pc[p] = "running" /\ child[p] = "none" /\ LockFree
  /\ marker' = [x \in Paths |-> IF x \in Targets(p)
                  THEN WithoutMarker(p, marker[x]) ELSE marker[x]]
  /\ todo' = [todo EXCEPT ![p] = Targets(p)]
  /\ pc' = [pc EXCEPT ![p] = "cleaning"]
  /\ UNCHANGED <<fs, spent, target, child, condemned, real>>

\* Second loop: a path that another process still uses is left to it; otherwise
\* lstat decides whether to remove it.
Examine(p, x) ==
  /\ pc[p] = "cleaning" /\ x \in todo[p] /\ condemned[p] = {}
  /\ todo' = [todo EXCEPT ![p] = @ \ {x}]
  /\ \E gone \in GoneSets : \E reaped \in SUBSET gone :
       LET active == ActiveProcesses(x, gone) IN
       /\ marker' = [marker EXCEPT ![x] = Scanned(x, active, gone, reaped)]
       /\ condemned' = [condemned EXCEPT ![p] =
            IF active = {} /\ Exists(x) /\ ShouldRemove(target[p][x], fs[x])
              THEN {x} ELSE {}]
  /\ UNCHANGED <<fs, spent, pc, target, child, real>>

\* The targets are looked at from the last to the first: a missing file, then the
\* missing directory that was planned before it for the same path.
OtherTargetOf(p, x) ==
  /\ pc[p] = "cleaning" /\ condemned[p] = {}
  /\ x \in Targets(p) \ todo[p] /\ target[p][x].dirToo
  /\ target' = [target EXCEPT ![p][x] = [@ EXCEPT !.kind = "dir", !.dirToo = FALSE]]
  /\ todo' = [todo EXCEPT ![p] = @ \cup {x}]
  /\ UNCHANGED <<fs, spent, marker, pc, child, condemned, real>>

\* p is gone, with whatever it remembered; an orphan keeps its plan.
Vanish(p) ==
  /\ pc' = [pc EXCEPT ![p] = "off"]
  /\ todo' = [todo EXCEPT ![p] = {}]
  /\ condemned' = [condemned EXCEPT ![p] = {}]
  /\ target' = IF child[p] # "none" THEN target
               ELSE [target EXCEPT ![p] = [x \in Paths |-> NoTarget]]
  /\ UNCHANGED <<spent, marker, child>>

\* remove_file or remove_dir acts on what the path holds NOW: remove_dir leaves
\* a directory that is not empty, and a path of the wrong kind is a panic.
Unlink(p, x) ==
  /\ pc[p] = "cleaning" /\ x \in condemned[p]
  /\ \/ /\ fs[x].kind \in {"none", target[p][x].kind}
        /\ fs' = IF fs[x].kind = "dir" /\ ~fs[x].empty THEN fs
                 ELSE [fs EXCEPT ![x] = Absent]
        /\ real' = IF Exists(x) /\ (fs[x].kind = "file" \/ fs[x].empty)
                     THEN real \ {x} ELSE real
        /\ condemned' = [condemned EXCEPT ![p] = {}]
        /\ UNCHANGED <<spent, marker, pc, target, child, todo>>
     \/ /\ fs[x].kind \notin {"none", target[p][x].kind}
        /\ Vanish(p)
        /\ UNCHANGED <<fs, real>>

\* The lock is released and the helper exits.
EndCleanup(p) ==
  /\ pc[p] = "cleaning" /\ todo[p] = {} /\ condemned[p] = {}
  /\ \A x \in Paths : ~target[p][x].dirToo
  /\ Vanish(p)
  /\ UNCHANGED <<fs, real>>

\* SIGKILL, or a panic, at any step: markers and mount points stay.
Crash(p) ==
  /\ pc[p] # "off"
  /\ Vanish(p)
  /\ UNCHANGED <<fs, real>>

-----------------------------------------------------------------------------
(* The user, on the host                                                    *)

\* Somebody may remove x: a helper planned to mask it, or a marker says that
\* one did.
Claimed(x) ==
  \E p \in Procs : target[p][x].kind # "none" \/ marker[x][p] = "synthetic"

UserCreates(x) ==
  /\ ~Exists(x)
  /\ \E k \in Kinds, e \in BOOLEAN, i \in FreeInodes :
       /\ fs' = [fs EXCEPT ![x] = [kind |-> k, ino |-> i, empty |-> e, by |-> "user"]]
       /\ Spend(i)
  /\ real' = IF Claimed(x) THEN real ELSE real \cup {x}
  /\ UNCHANGED <<marker, pc, target, child, todo, condemned>>

UserFills(x) ==
  /\ Exists(x) /\ fs[x].empty
  /\ fs' = [fs EXCEPT ![x].empty = FALSE]
  /\ UNCHANGED <<spent, marker, pc, target, child, todo, condemned, real>>

UserRemoves(x) ==
  /\ Exists(x)
  /\ fs' = [fs EXCEPT ![x] = Absent]
  /\ real' = real \ {x}
  /\ UNCHANGED <<spent, marker, pc, target, child, todo, condemned>>

-----------------------------------------------------------------------------

\* The host starts with any files of the user and no markers.
Init ==
  /\ fs \in [Paths -> {o \in Object : o.by = "user" /\ (o.kind = "none" <=> o = Absent)}]
  /\ \A x \in Paths : Exists(x) => fs[x].ino # NoInode
  /\ \A x, y \in Paths : x # y /\ Exists(x) => fs[x].ino # fs[y].ino
  /\ spent = IF InodeReuse THEN {} ELSE {fs[x].ino : x \in {y \in Paths : Exists(y)}}
  /\ marker = [x \in Paths |-> [p \in Procs |-> "none"]]
  /\ pc = [p \in Procs |-> "off"]
  /\ target = [p \in Procs |-> [x \in Paths |-> NoTarget]]
  /\ child = [p \in Procs |-> "none"]
  /\ todo = [p \in Procs |-> {}]
  /\ condemned = [p \in Procs |-> {}]
  /\ real = {x \in Paths : Exists(x)}

HelperStep(p) ==
  \/ Plan(p)
  \/ RegisterSyntheticMountTargets(p)
  \/ \E x \in Paths : ChildMounts(p, x)
  \/ ChildStarts(p)
  \/ ChildExits(p)
  \/ BeginCleanup(p)
  \/ \E x \in Paths : Examine(p, x)
  \/ \E x \in Paths : OtherTargetOf(p, x)
  \/ \E x \in Paths : Unlink(p, x)
  \/ EndCleanup(p)

UserStep(x) == UserCreates(x) \/ UserFills(x) \/ UserRemoves(x)

\* Helpers alone, none of which is killed.
QuietNext == \E p \in Procs : HelperStep(p)

Next ==
  \/ \E p \in Procs : HelperStep(p)
  \/ \E p \in Procs : Crash(p)
  \/ \E x \in Paths : UserStep(x)

Spec == Init /\ [][Next]_vars

\* Every helper that is not killed keeps running; flock queues its waiters in
\* order, so none is passed over for ever.  A command may run as long as it
\* likes, so nothing is assumed of ChildExits.
FairHelper(p) ==
  /\ SF_vars(BeginCleanup(p))
  /\ WF_vars(\E x \in Paths : Examine(p, x))
  /\ WF_vars(\E x \in Paths : OtherTargetOf(p, x))
  /\ WF_vars(\E x \in Paths : Unlink(p, x))
  /\ WF_vars(EndCleanup(p))

QuietSpec == Init /\ [][QuietNext]_vars /\ \A p \in Procs : FairHelper(p)

-----------------------------------------------------------------------------
(* Properties                                                               *)

TypeOK ==
  /\ fs \in [Paths -> Object]
  /\ spent \subseteq Inodes
  /\ marker \in [Paths -> [Procs -> Markers]]
  /\ pc \in [Procs -> {"off", "planned", "running", "cleaning"}]
  /\ target \in [Procs -> [Paths -> Target]]
  /\ child \in [Procs -> {"none", "setup", "command"}]
  /\ todo \in [Procs -> SUBSET Paths]
  /\ condemned \in [Procs -> SUBSET Paths]
  /\ real \subseteq Paths

\* A helper never sets out to remove the mount point of another live run: while
\* a helper has registered a path and its sandbox runs, no cleanup has decided
\* to remove that path (the scan in cleanup_synthetic_mount_targets).  Removing
\* it would detach the mask, and open the protected path to the sandbox.
CleanupSparesLiveMounts ==
  \A q \in Procs : \A x \in condemned[q] :
    \A p \in Procs : ~(pc[p] = "running" /\ child[p] # "none" /\ target[p][x].kind # "none")

\* A file or directory that was there before any helper took an interest in its
\* path is never removed by a cleanup, however helpers overlap, die, or inherit
\* each other's pids, and whatever the user does with it (the identity that
\* SyntheticMountTarget remembers).
RealPathsPreserved ==
  \A q \in Procs : condemned[q] \cap real = {}

-----------------------------------------------------------------------------
(* The inductive invariant behind the two properties above                  *)

\* The lock has one holder, only its holder cleans up, and a cleanup starts
\* after its own sandbox has ended.
LockInv ==
  /\ \A p, q \in Procs : pc[p] = "cleaning" /\ pc[q] = "cleaning" => p = q
  /\ \A p \in Procs : condemned[p] # {} => pc[p] = "cleaning"
  /\ \A p \in Procs : pc[p] \in {"planned", "cleaning"} => child[p] = "none"

\* A helper that registered a path holds a marker for it until its cleanup,
\* whatever scans and crashes others go through meanwhile.
MarkerInv ==
  \A p \in Procs : \A x \in Paths :
    pc[p] = "running" /\ target[p][x].kind # "none" => marker[x][p] # "none"

\* While a cleanup holds on to its decision to remove one of its targets, nobody
\* else is registered for it.
CondemnedInv ==
  \A q \in Procs : \A x \in condemned[q] :
    /\ target[q][x].kind # "none"
    /\ \A p \in Procs : ~(pc[p] = "running" /\ target[p][x].kind # "none")

\* What stood there before helpers came is known to all of them as existing,
\* by its identity.
RealInv ==
  \A x \in real :
    /\ Exists(x) /\ fs[x].ino # NoInode
    /\ \A p \in Procs :
         /\ target[p][x].kind # "none" => target[p][x].pre = fs[x].ino
         /\ marker[x][p] # "synthetic"
         /\ x \notin condemned[p]

IInv == TypeOK /\ LockInv /\ MarkerInv /\ CondemnedInv /\ RealInv

-----------------------------------------------------------------------------
(* Further properties, and what the source says that does not hold          *)

\* With no helper killed and the user away, a mount point outlives the last run
\* that has a target for it only if that run took its identity for that of a
\* pre-existing path, or has a mask of the other kind for the path, because its
\* policy denies what that of another only protects.  In every other case the
\* last of the runs removes it, however they overlap
\* (cleanup_synthetic_mount_targets leaves a path to the other active processes,
\* and the last of them looks at it).
LeftoverOnlyIfTakenForReal ==
  [][\A x \in Paths :
       LET users == {p \in Procs : target[p][x].kind # "none"} IN
       (fs'[x].by = "bwrap" /\ users # {} /\ \A p \in Procs : target'[p][x].kind = "none")
         => \E p \in users : \/ target[p][x].pre = fs[x].ino
                              \/ target[p][x].kind # fs[x].kind]_vars

\* A helper whose sandbox has ended gets the lock, finishes its cleanup and
\* exits (run_bwrap_in_child_with_synthetic_mount_cleanup).
CleanupCompletes ==
  \A p \in Procs : (pc[p] = "running" /\ child[p] = "none") ~> pc[p] = "off"

\* What append_read_only_subpath_args says of an empty mount target that another
\* setup left: it is treated like the missing case, so when all runs have
\* ended, none killed, bubblewrap's mount points are gone.
NoMountPointLeftBehind ==
  \A x \in Paths :
    fs[x].by = "bwrap" => \E p \in Procs : target[p][x].kind # "none"

=============================================================================
