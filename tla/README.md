# A verification of rattler_sandbox

`rattler_sandbox` runs a command in an operating-system sandbox: bubblewrap,
seccomp and landlock on Linux, `sandbox-exec` on macOS, restricted tokens and ACLs
on Windows.  This directory holds TLA+ models of the parts of it whose
correctness depends on the order of events, on several processes, or on an
algorithm with many interacting rules; the TLC configurations that check them;
and machine-checked proofs.

    tlc -config SyntheticMounts.cfg MCSyntheticMounts      # one run
    tlapm SyntheticMounts_proofs.tla                       # one proof module

`PROJECT.json` lists the runs, what each definition models (file and lines), for
each property a mutation of the model that must violate it, the hazards of the
code and the theorems.

## 1. Inventory

Paths are relative to `src/src/`.

| component | state it keeps | operations | what is hard | what makes it correct |
|---|---|---|---|---|
| synthetic mount registry (`linux/run_main.rs` 860–1060, 1160–1260, `linux/bwrap_runner.rs` 180–260) | marker files per path and pid under one lock; empty mount points on the host | plan, register, clean up | several helpers in one workspace; helpers killed at any step; pids and inodes reused; the user edits the workspace meanwhile | a live mask is not detached, a user's file is not removed, mount points do not pile up |
| protected-create targets (`linux/run_main.rs` 560–740, 930–1160) | marker files; a monitor thread with a `stop` and a `violation` flag | register, watch, remove, join, clean up | monitor, cleanup, other helpers, sandbox and user act on one path at the same time | what a sandbox creates at a protected path is removed or reported; nothing else is removed |
| supervision of the bubblewrap child (`linux/run_main.rs` 490–560, 741–860) | signal mask and handlers, `BWRAP_CHILD_PID`, `PENDING_FORWARDED_SIGNAL`, the exec-start pipe, the parent death signal | block, fork, install, release, wait, restore, exit | a signal, or the death of the helper, at any step | signals are neither lost nor deadly before cleanup, no orphan sandbox, no unwatched command |
| helper command line, stages, preflight (`linux/run_main.rs` 1–480, 1270–1480) | the stage of each process | choose the stage, probe `/proc`, enter bubblewrap, confine, execute | what confines the command is decided in three places and two processes | whatever the flags and the host, the command is confined as its profile asks |
| bubblewrap arguments (`linux/bwrap_runner.rs`) | none (pure) | policy → ordered list of mounts | later mounts shadow earlier ones; missing paths; nested read/write/deny rules | the mounts allow what the policy allows and no more |
| bubblewrap discovery and launch (`linux/launcher.rs`, `linux/bwrap.rs`, `linux/exec_util.rs`) | none | probe, exec | an unusable or an old bubblewrap | the helper refuses, or goes on without what is missing |
| landlock, seccomp (`linux/landlock.rs`, `linux/landlock_runner.rs`) | kernel state of the thread | build a filter, apply it | modes of filter against bridges that need sockets | as for the stages |
| proxy bridges (`linux/proxy_routing.rs`) | socket directory, bridge processes, cleanup worker | prepare on the host, activate in the sandbox, clean up | partial failure, death of the parent, reused pids in directory names | routes lead to the endpoints they name; bridges end with the helper, the directory goes with the last bridge |
| pty sessions (`pty/`) | process handle, reader/writer/wait tasks, exit status and exit flag | spawn, write, resize, terminate, drop | exit against output, terminate against exit, lagging receivers | the exit is told once, output is in order and not truncated, termination takes effect |
| ConPTY (`pty/win`) | pseudo console handles | create, resize, close | handle lifetime | – |
| elevated runner (`windows/elevated`) | two pipes, framed messages, process handle | connect, spawn, stdin, terminate, output, exit | input loop against exit; connect timeout; death of either side | exactly one exit or error frame, after all output; no command without a runner |
| unified exec sessions (`windows/unified_exec`) | channels between session and backend threads | write, close, terminate, wait | exit against output, descendants that hold the output | as for pty sessions |
| Windows setup (`windows/setup_*.rs`, `identity.rs`, `sandbox_users.rs`) | accounts, users file, setup marker, error report | compare, elevate, provision, write, lock, refresh | a setup that stops half-way, two at once, settings that change | a client that is ready has credentials that work, under the firewall it asked for |
| firewall and WFP (`windows/firewall.rs`, `wfp*.rs`) | rules and filters of the OS | install, update | partial failure | the rules are those the marker names |
| ACLs, tokens, audit, capabilities (`windows/acl.rs`, `allow.rs`, `audit.rs`, `cap.rs`, `token.rs`) | ACEs, SIDs file | grant, deny, revoke | partial failure | – |
| Windows spawning (`windows/run.rs`, `spawn_prep.rs`, `process.rs`) | handles | spawn, wait | – | – |
| policy (`policy.rs`, `policy_transforms.rs`, `path.rs`) | a list of entries | resolve, add roots, convert to and from the legacy policy | one rule overrides another by specificity and by access; conversions lose information | what the enforcers are told (roots) is what the policy says (decisions) |
| manager and profiles (`manager.rs`, `seatbelt.rs`, `network_proxy.rs`) | none (pure) | choose a sandbox, write a profile | rules are a union, roots nest | the profile allows what the policy allows |
| hardening, binaries (`process_hardening.rs`, `bin/`) | process limits | once at start | none | – |

How they interact: the manager turns a policy into the command line of a
sandbox.  On Linux that is the helper itself: its first stage plans mounts from the
policy, registers what bubblewrap will create on the host, forks bubblewrap
and supervises it; inside bubblewrap the second stage starts the local proxy
bridges, applies seccomp and executes the command.  Helpers of different runs
share nothing but the file system: the workspace, and the registry with its
lock file and its marker directories.  On Windows the parent prepares ACLs and users
(setup), and talks over two pipes to a runner under another user; a
unified-exec session wraps either a local process or such a runner.

The hazards, each with its line, are in `PROJECT.json`; a hazard without property
has a note that says why.

## 2. Plan

The order is by what could hurt a user most: a helper that removes a user's
files or leaves a protected path open, then the policy that everything enforces, then
the sessions.

1. `SyntheticMounts`, `BwrapRun`, `ProtectedCreate`: the Linux helper (done, with
   proofs).
2. `FsPolicy`: the file-system policy, with decisions, roots and conversions as
   operators, and the updates as a state machine.  Reference definition: the
   decision `resolve_access` itself, against which roots and conversions are held
   (done, with proofs about decisions and grants).
3. `BwrapPlan` EXTENDS `FsPolicy`: the list of mounts, its meaning (last mount
   that covers a path), and that it implements the policy.  The policy is the
   abstract specification (done, with proofs).
4. `ProxyRoutes` and `HelperStages`, which composes it: the stages of the helper,
   its proxy bridges and their socket directories (done).
5. `SessionPromise`, what a session promises; `PtySession`, the sessions of this
   process, and `RunnerSession`, those behind the elevated runner, shown to implement
   it (done).
6. `WindowsSetup`, and `WindowsSandbox`, which composes setup and sessions (done).
7. `Seatbelt` EXTENDS `BwrapPlan`: the macOS profile against the same policy (done, with
   proofs).
8. Not done: a composition of the two registries of the helper, which share a lock;
   the access entries of the Windows sandbox, which outlive the sessions that set
   them.

Runs: one per question; instances of two or three processes, two paths, two or
three inodes, and all orders of their steps.  Theorems: type correctness and the
safety properties of every state machine, the refinement of sessions, and lemmas on
the operators they are built from.  Each proof is in the module `<component>_proofs`, which
only adds theorems to the component; those of `BwrapPlan` and `Seatbelt`, which enforce one
policy, share `Enforcement_proofs`, with that of the older policy.  Every invariant and every
action property that a run checks is proved.

What the prover cannot do here, and TLC therefore does: liveness under fairness.  It cannot
expand the library's folds and `SelectSeq` either, so that loops over lists are
written as recursive functions.
The library's induction theorems take an operator as parameter, which no backend
instantiates; where a proof is about lists of any length it uses
`LeastNatural` instead (section 4), with the set of counterexamples in the place of the
predicate.

## 3. The Linux helper

### SyntheticMounts

Bubblewrap cannot mount over a path that does not exist: it creates it, on the
host.  So that a run does not litter the workspace, and does not remove what another
run still masks, helpers keep marker files `<registry>/<hash of path>/<pid>`,
written and scanned under one `flock`.

| model | code |
|---|---|
| `fs` | the host at each protected path: kind, inode, is it empty (size 0, or no entry); `by` is a ghost |
| `marker` | the marker files and their contents |
| `pc`, `target`, `child`, `todo`, `condemned` | the helper, its `Vec<SyntheticMountTarget>`, its bubblewrap, the second loop of the cleanup, the decision between `lstat` and `unlink` |
| `spent`, `real` | ghosts: inodes not to be allocated again; paths holding what no helper knew as missing |
| `Plan`, `PlannedTargets` | `append_read_only_subpath_args`, `append_unreadable_root_args`, `append_missing_…`, `append_existing_empty_…` |
| `RegisterSyntheticMountTargets` | the function of that name and the fork |
| `ChildMounts`, `ChildStarts`, `ChildExits` | bubblewrap |
| `BeginCleanup`, `Examine`, `OtherTargetOf`, `Unlink`, `EndCleanup` | `cleanup_synthetic_mount_targets`, `remove_synthetic_mount_target` |
| `Crash` | SIGKILL or panic |
| `UserCreates`, `UserFills`, `UserRemoves` | the user |

Sections of the lock that touch only markers are one step; those that also touch the
workspace are one step per system call, because the user takes no lock.
A reused pid appears as a dead pid that a scan takes for alive (`PidReuse`), a reused
inode as `InodeReuse`.  The window between the `lstat` and the `unlink` is real in the
model, which is why the properties speak of decisions (`condemned`): what the user
writes into the file after the decision is lost, and no program can prevent it
without a lock the user takes.

What is planned for a missing path depends on the policy: missing metadata that is
protected is masked as a directory; what is denied, or the first missing part of
it, is masked as a file, whatever its name (`Denied`).  Metadata of a root that is also
denied has both targets, one after the other (`dirToo`), and bubblewrap then fails: it cannot
mount a file over the directory.  A path that exists and is denied is hidden without a
target, so `CleanupSparesLiveMounts` says nothing of such a mask: it is about registered ones.
Paths are independent of each other: a mount point inside another is not modelled.

* `registry` (3 helpers, 1 path, 2 inodes, everything allowed):
  `CleanupSparesLiveMounts`, `RealPathsPreserved`.  Three helpers are needed for a
  cleanup, a live run, and a dead marker at once; the properties relate
  at most two helpers at one path, and paths share nothing but the lock.
* `registry_quiet` (2 helpers, 2 paths, one that is metadata and one that is not, both protected by
  some policies and denied by others; no crash and no user): `CleanupCompletes`,
  `LeftoverOnlyIfTakenForReal`.
* `registry_leftover` (no denials, so that all plans agree on the kind of mask): finding, below.

### ProtectedCreate

A missing path that cannot be masked (a missing `.git` inside a parent
repository) is left open, watched by a thread of the helper, and looked at once
more by the cleanup.  `host`, `marker` are the shared state; `mon`, `todo`, `seen`, `violation`
are the thread and the cleanup, `code` is the exit status.  The directory loop of
100 attempts is `TryRemove`, which may fail.  A thread stopped in
`wait_for_create_event` wakes after at most 10 ms, so the pass just ends.

* `protected_create` (2 helpers, 1 path, reused pids): `SuccessLeavesNothing`,
  `RealPathsKept`, `CreationNoticed`, `RunEnds`.  Two helpers suffice for
  "another process watches it"; paths are independent of each other.
* `protected_create_short_circuit`: finding.

### BwrapRun

One run, with everything that signals and death can do to it.  `hp` is the
position of the helper in `run_bwrap_in_child_with_synthetic_mount_cleanup`, `cp` that of the child.
A pending unblocked signal is handled before the helper goes on; without a
handler it ends the helper.

* `supervision` (2 signals, at most 3 sent, SIGKILL at any step):
  `SignalSparesRegistered`, `WatchedCommand`, `NoOrphanSandbox`, `SignalEndsRun`.
  Three sends are one pending signal for each of the places that differ: before the
  first mask, between the masks, after the second.  Not modelled: terminal
  signals that reach the process group of the child directly.

### Fairness

Processes and threads that can run do run; the kernel delivers pending signals.
`flock` queues its waiters in order, so a helper that
waits for the lock is not passed over for ever: strong fairness on
`BeginCleanup`, because the lock is free again and again rather than from some point
on.  Nothing is assumed of commands (a command may run for ever), of the
user, or of who kills or sends.  `registry_quiet` states its liveness under
`QuietSpec`, in which nobody is killed: a killed helper does not exit.

### Findings

1. `registry_leftover`: an empty mount point of bubblewrap stays on the host, though no
   helper was killed.  Registration forgets a "pre-existing" identity only while an
   active synthetic owner exists (`run_main.rs:891`), but the plan was made before, outside
   the lock.  `LeftoverOnlyIfTakenForReal` says that there is one other way: a run that masks
   the path as a directory and one that masks it as a file overlap, and the one that has
   not made the mount point cleans up last: `should_remove_after_bwrap` then leaves it.
   Conversely the identity of a directory that the user made after another helper planned
   the path as missing is forgotten, and a cleanup removes it when it is empty:
   `RealPathsPreserved` speaks only of paths that no helper knew as missing.
2. `protected_create_short_circuit`: `violation || cleanup(..)` (`run_main.rs:544`)
   skips the cleanup once the monitor has noticed something, so what the
   sandbox creates after the last pass stays, and so do the markers.

### Proofs

For every set of helpers, paths and inodes (and, in `BwrapRun`, every set of signals):

* `SyntheticMounts_proofs`: `Spec => []IInv`, with
  `IInv == TypeOK /\ LockInv /\ MarkerInv /\ CondemnedInv /\ RealInv`.  A cleanup
  spares live mounts because while it holds a decision it holds the lock
  (`LockInv`), registered helpers have markers (`MarkerInv`), so that a scan that found none leaves
  nobody registered, and registering needs the lock (`CondemnedInv`).
  A real path is spared because all targets for it have its identity and nobody is
  a synthetic owner of it, so no registration forgets that (`RealInv`).
  `LeftoversExplained` is about `QuietSpec` and needs `QuietInv` besides: without users
  and deaths whatever is not the user's is an empty mount point (`HostInv`) and markers are
  those of running helpers (`AliveInv`); so a cleanup leaves a path only when it is gone, in
  use by a registered run, known by its identity, or of the other kind (`DealtWithInv`).  In the first two
  cases the cleanup's end does not leave a mount point without a target.  TLC has checked
  `QuietInv` with three helpers and reused pids.
* `BwrapRun_proofs`: `GuardInv` ties mask, handlers and registration to the
  position of the helper; `ChildInv` ties the child to it.  From them
  `SignalSparesRegistered` and `WatchedCommand`.
* `ProtectedCreate_proofs`: `PhaseInv`, `ScopeInv` and `CleanupInv` (a cleanup that has
  found nothing yet still has before it whatever the sandbox left) give
  `SuccessLeavesNothing`; `RealInv` gives `RealPathsKept`.

Assumed: the named ASSUMEs of the modules, which TLC evaluates in the runs.
Only model-checked: liveness (out of the prover's reach).

## 4. The policy and its mounts

### FsPolicy

A policy is a list of entries, each with a path (absolute, special, or a glob) and
an access mode.  Three bodies of code read it, and must agree:

| reading | operators | code (`policy.rs`) |
|---|---|---|
| decisions about one path | `ResolveAccess`, `CanRead`, `CanWrite`, `MetadataWriteDenied`, `HasFullRead`, `HasFullWrite` | 645–662, 730–953, 1376–1389, 1478–1545, 1595–1631, 1859–1946 |
| roots, for bubblewrap and Seatbelt | `ReadableRoots`, `WritableRoots`, `UnreadableRoots`, `DefaultReadOnly` | 1081–1236, 1689–1733 |
| the older `SandboxPolicy` | `ToLegacy`, `FromLegacy`, `LegacyRuntime`, `Signature`, `NeedsDirect` | 763–857, 1052–1074, 1261–1402, 1414–1439, 1735–1843, 1902–1930 |

The state machine configures entries one at a time (`Configure`) and then applies what
callers do to a policy: `with_additional_readable_roots`,
`with_additional_writable_roots`, the legacy workspace roots, materialisation of
project roots, and the two ways to replace the allow side and keep the denials.

A path is a sequence of components; `Names` are the components.  The model abstracts:

* symbolic links: every path is its own effective path;
* globs: a glob resolves to no path (as in `resolve_entry_path`), and only its
  presence counts; the matcher that enforces it and its scan depth are not modelled;
* unknown special tokens, which resolve to nothing as `:minimal` does;
* the order of roots in the lists given to the enforcers: those are sets.

The order of the list of entries does matter to the code in one place: which
entry `metadata_child_of_writable_root` finds first, when metadata lies inside
metadata.  That is why `policy.entries` is a sequence.

* `policy` (three hosts: one complete, one where the `.git` of the project is a file, and one
  where the metadata of the project and `/tmp` are missing; 17 entries; policies of up to three entries or operations
  altogether): three is what it takes for an allow, a narrower rule in it and a
  reopening in that, or for a configured pair and one operation on it.  The paths
  are a project `/w`, its `.git` with metadata in it, `.agents`, `.codex`, the directory
  `/w/g` that `.git` files point to, a nested project with its own `.git` file, and `/tmp`.
  * `RootsMatchDecisions`: roots and decisions allow the same writes, but for two kinds
    of path the roots protect more: metadata within metadata, and the
    directory a `.git` file points to.
  * `FullMeansAll`: full access leaves no path refused.  The proof attempt found
    the exception: when `/tmp` is no directory, a write entry for `:slash_tmp` still
    overrides a read entry for the path `/tmp` (line 1536), but resolves to nothing
    (line 1625), so the policy counts as fully writable and `/tmp` is refused.
  * `LegacyEnforcesTheSame`: where `needs_direct_runtime_enforcement` says no, the
    policy that stands for the older one, and the roots it gives, decide the same.
    Exceptions are again such a `/tmp`, and writes to what only the defaults of a root
    protect (`OnlyRootsProtect`): the policy that stands for the older one has those
    defaults as read entries of its own, so that its decision refuses what the
    decision of the first policy leaves to the roots.  The writable roots of both
    policies, which the enforcers are told, are the same.
  * `DeniesSurvive`, `GrantsOnlyAdd`, `GrantsTakeEffect`: denials outlive replacement and
    grants; grants revoke nothing, and are effective unless the same path is denied.

`CHECK_DEADLOCK FALSE`: a policy may stop changing, here after `MaxSteps` operations.

### BwrapPlan

`create_filesystem_args` turns the roots into an ordered list of mounts: a read-only base,
hidden ancestors of writable roots, then each root from shallow to deep with its
read-only paths and what is hidden in it, then what is hidden elsewhere.  `Mounts` is
that list; `Synthetic` are the mount targets that `SyntheticMounts` starts from, `Watched` the
paths that `ProtectedCreate` starts from.  `Seen` is what bubblewrap makes of the list: the
last mount that covers a path.  Each loop of the code that sorts paths by depth is a set of
mounts listed `ByDepth`; paths of one depth are in no particular order.  The policy is the
specification, `PlanGrantsNoMore` and `PlanGrantsNoLess` say that the mounts
implement it.  Left out: `/dev`, `/proc`, platform defaults, symbolic links, the
expansion of globs, and file descriptors.

* `mounts` (four hosts: a repository that has its `.git`, one with an empty `.git`
  and a missing nested root, one with no `.git` at all, and one whose nested directory has a
  `.git` file that points to that of the repository; policies of up to three entries):
  * `PlanGrantsNoMore`.  What stays open, by design or by omission: a missing path that is watched
    and not mounted; what is below a writable root that does not exist and so is
    skipped; a `/tmp` that is no directory, under full write access; and findings 3 and 4.
  * `PlanGrantsNoLess`.  A readable path below a denied one stays hidden, since only
    writable roots are reopened; what only roots protect (`OnlyRootsProtect`) is not writable.
  * `TargetsDisjoint`: no path is both a mount point that bubblewrap creates and
    watched for creation, or no command could succeed.  A denial of a missing `.git`, or a rule
    for something below it, does make it both, in the code and in the model: the property
    excepts it.
* `mounts_missing_metadata`, `mounts_nested_denials`: findings.

### Findings

3. `mounts_missing_metadata`: the missing `.git`, `.agents`, `.codex` of the project
   that an entry makes read-only are removed from the read-only paths of every writable
   root, because the protection by names restores them (`bwrap_runner.rs:407`).  It
   does so only for a writable root at the project itself: with `:root` writable, they are
   neither masked nor watched.
4. `mounts_nested_denials`: the directory a `.git` file points to is read-only for the root
   with the file, wherever it lies (`policy.rs:1702`).  It is bound with that root, so after what
   an outer root hides (`bwrap_runner.rs:597`): with `/w` and `/w/a` writable, `/w/.git/HEAD`
   denied, and `/w/a/.git` a file that points to `/w/.git`, the command can read `HEAD`.

### Proofs

`FsPolicy_proofs`, for every set of names and paths, every host, and every list of entries
of the right type (not only those the instance configures).  Its sections are lists,
decisions, the granting operations, all operations, and roots.

*Lists.*  A policy is a list of any length, so that some facts need induction.
`LeastNatural` gives a set of natural numbers its least member; applied to the lengths of
counterexamples it is an induction over lists (`ListInduction`) and shows that the
recursive functions of the model exist (`Recursion`, by way of the finite
approximations `Steps`).  `AppendReadOnly`, `AppendDefaults` and `AppendDenials`, which the
code writes as loops over a list with a test on what has been appended so far, are such
functions: `PushedLists` says that they keep the old entries in place, in order, and append
only entries of the list they are given.

*Decisions.*
* A decision is the most specific of the entries that cover a path.  `Strongest`
  shows that there always is one, from a measure on entries (`Measure`);
  `DecisionIsStrongest` gives the choice its meaning, and everything else follows from it.
* `DenialWins`: at the same depth a denial cannot be undone.
* `FullReadMeansAll`, `FullWriteMeansAll`, together `FullMeansAllHolds`: the entry for the root
  covers every path, so a refusal comes from an entry that narrows; such an entry is
  either forbidden or overridden at its own target (`SharedTargets`).

*Operations.*
* `TypeCorrect`: each operation makes a policy of a policy (`StepMakesPolicy`, with a
  lemma for each operation).
* `WritableRootOnlyAdds`, `ReadableRootOnlyAdds`, together `GrantsOnlyAddHolds`.  The
  decision about a path after a grant is the old one or the grant, and the latter only where
  nothing deeper than the granted path decided (`DecisionAfterGrant`); there the
  decision was that of the granted path itself (`SameDecisionAbove`), so it was weaker.  The
  new entry is the last of the list, so it protects metadata only where no other
  entry did (`ProtectorsAfterGrant`, `MetadataAfterGrant`); that would revoke a write only
  below metadata without an entry of its own, where the granted root was
  writable already, or protected by the same entry (`ProtectorsBelow`).
* `GrantsAlwaysTakeEffect`: the new entry is the strongest at its own path or ties
  with a denial, and it is the explicit entry that metadata needs (`WriteEntryTakesEffect`).
* `DenialsSurvive`: every operation keeps the denials of a policy that stays restricted
  (replacing the allow side appends those that are missing), and a denied path is one
  that a denial decides, which entries of other modes cannot change (`DeniedPath`).

*Roots.*  `RootsAlwaysMatch`: the deepest writable root over a path is that of the deepest
entry that grants writing over it (`WritableRootsAre`, `DecidingEntry`).  If the entry that
decides is deeper than it, it is among the read-only or the hidden paths of the root, and the root
refuses too; if the entry that decides is the root's own, what the root still protects is
what the decision refuses as metadata, but for `OnlyRootsProtect` (`RootAllowsOnly`,
`DecidingRootAllows`).

`Enforcement_proofs`, first part: the mounts, for every reachable policy and every host.
* *Lists of mounts.*  What is seen at a path comes from the last part of a concatenation that
  covers it (`SeenConcat`).  `ByDepth` is a flattened list of lists: a later mount is
  at least as deep, and every mount of the set is there (`DepthOrder`, `SeenFlat`, which rest
  on `Flattened`).  The sets are finite because a policy is a list (`ResolvedFinite`).
* *The host.*  What is above something that exists does exist (`PlanAssumption`, the one
  assumption on hosts), so a missing path has one first missing component, and a mount
  point for it covers nothing that exists (`AboveExists`, `FirstMissingIs`, `PathMounts`).
* *The list of a policy.*  Within a root its hidden paths win over its read-only ones, and those
  over the bind (`OwnMountsShow`); among roots the last that has a mount over the path wins,
  which but for the directory of a `.git` file is the deepest root over it (`RootsShow`);
  around them, base and denials (`MountsShow`).
* `PlanNeverGrantsMore`: what is seen as "bind" was bound by the deepest mounted root over it
  (`BoundByRoot`), and where the policy refuses, that root has a mount for it, or it is one of the
  exceptions (`WritesNoMore`, from `RootRefuses`).  A denied path is hidden after all that
  could show it (`ReadsNoMore`).
* `PlanNeverGrantsLess`: a writable path has a deepest root, which allows it
  (`WritesNoLess`, from `DecidingRootAllows`); what shows a readable path is never "hide" unless
  a denied path is above it (`ReadsNoLess`).
* `WatchedAlwaysDisjoint`: a watched path is missing and not among the read-only paths of
  its root, so that a mask at it stands for something below it or for a denial
  (`FirstBelowRoot`, `WatchedNotMounted`).

The proof attempts showed that first versions of these properties held for an instance only,
and TLC then found the cases on a larger one: `FullMeansAll` (a missing `/tmp`, which
`PlanGrantsNoMore` has to except as well), `SeatbeltMatchesPolicy` (below), `PlanGrantsNoLess`
and the reads of `PlanGrantsNoMore` (a `.git` file, hence the fourth host and finding 4), and
`TargetsDisjoint` (a denial of the watched path itself), and `LegacyEnforcesTheSame` (the
directory that the `.git` file of the project points to, hence the second host of `policy`).

### Seatbelt

On macOS the policy becomes rules that allow what is below a root, except
excluded paths and names (`create_seatbelt_command_args`).  `WriteRules` and `ReadRules` are
the rules, `Allowed` is what `sandbox-exec` makes of them: one rule that allows is
enough.  The run `mounts` checks `SeatbeltMatchesPolicy` on the same policies and hosts as the
mounts.  Reads agree exactly.  For writes it has exceptions in
either direction: a root around another one allows the metadata that only the inner root
protects (bubblewrap, where order counts, does not); what only roots protect
(`OnlyRootsProtect`: metadata inside metadata, and the directory a `.git` file points to)
is refused; and with full write access everything is allowed, a missing `/tmp` as well
(`UnderMissingTmp`).  The last and the `.git` file were found by the proof.  Left out: parameters
and text, the fixed parts of the profile, globs, network rules and Unix sockets.

`Enforcement_proofs`, second part: `SeatbeltAlwaysMatches`, for every policy that can be reached.  A path is
readable exactly when one read rule allows it (`ReadRulesMatch`, from the decisions at the
roots between the path and the root of the file system); every write rule is a writable root
(`RuleIsRoot`), so that writes follow from the lemmas on roots of `FsPolicy_proofs`.

### The older policy

`Enforcement_proofs`, third part: `OlderAlwaysEnforcesTheSame`.  Equal signatures mean equal
read rules and equal writable roots, so the decisions of the policy and of the runtime form of
the older one agree by `ReadRulesMatch` and `RootsMatch` (`OlderPolicyDecides`).  The roots
of the older policy are computed by other code; they are the paths of the runtime form's write
entries (`RuntimeResolves`, `RuntimeRoots`), and the deepest root over a path allows
the same in both (`OlderRootsMatch`): what the runtime form carves out of that root
is one of the older root's defaults or what a `.git` file points to; a protected
name is among those defaults, or `NamesNeedDirect` would hold; and a default that the
runtime form does not carve out has a write entry, hence a deeper root (`ExplicitDecides`).

## 5. The stages of the helper and its proxies

`HelperStages` EXTENDS `ProxyRoutes`: several helpers on one host, each with the
request it serves.

| model | code |
|---|---|
| `request` | what the profile grants, the flags, whether the mounts of its policy show the socket directory (`sockets`), and what the host offers (WSL1, which bubblewrap, may `/proc` be mounted) |
| `pc`, `inner` | the process outside of bubblewrap and the one inside |
| `dir`, `dirs`, `scan`, `judged` | the socket directories, and where a sweep of old ones is |
| `bridge…`, `worker` | the host bridges (forked, armed, bound, announced) and the cleanup worker |
| `loopback`, `local`, `routes` | inside: is the interface up, the local bridges, the ports in the variables |
| `confined` | what restricts the command: filter, `no_new_privs`, landlock, mounts, network namespace |
| `Launch`, `ConfineAndExec`, `Preflight`, `RunBubblewrap` | `SandboxManager::transform` and `run_main` |
| `PlanRoutes`, `SweepEntry`, `RemoveJudged`, `MakeDir`, `ForkBridge`, `StartWorker` | `prepare_host_proxy_route_spec` |
| `Arm`, `Bind`, `Announce`, `BridgeFails` | `run_host_bridge` |
| `RaiseLoopback`, `SpawnLocalBridge`, `RewriteEnv` | `activate_proxy_routes_in_netns` |
| `Exit`, `Kill`, `Reap`, `KillWorker` | refusals and panics, SIGKILL, the parent, a terminal signal |

* `helper` (one helper with every kind of request; one with four variables, two
  endpoints and a foreign one; two with one endpoint each, sharing two pids, one of which
  left a directory behind, and one of which finds no bubblewrap; two attempts instead
  of 128 for a directory name):
  `CommandIsConfined`, `RoutesReachTheirEndpoint`, `LiveDirectoryKept`,
  `BridgesEndWithHelper`, `DirectoryGoes`, `SweepTakesOrphans`.  Two endpoints are what
  it takes to confuse them, two helpers to take the directory of the other.

Fairness: bridges and workers that can run do, and a helper that gives up exits;
nothing is assumed of the inner stage, of the command or of who kills.  The kernel
reaps orphans at once, or (`Subreaper`) leaves them to a process other than 1.
`CHECK_DEADLOCK FALSE`: helpers end.

What the properties except, and a caller should know:

* With restricted reads, bubblewrap starts from an empty root and binds what the policy lets
  read (`bwrap_runner.rs:446-511`); nothing binds the socket directory, which is in
  `$CODEX_HOME/tmp` or the directory for temporary files (`proxy_routing.rs:302-310`), for its
  own sake.  Where the policy does not show it (`~SocketsShown`), or denies it, the
  local bridges run and drop every connection (`proxy_routing.rs:517-520`): all variables lead
  nowhere, and the command starts as if they did not.  `RoutesReachTheirEndpoint` says both:
  the endpoint where the directory is shown, nothing where it is not, another one never.
  Whether the directory is shown is an input of the run, which tries both, and not
  computed from a policy; `BwrapPlan` models the mounts.
* `LiveDirectoryKept` and `RoutesReachTheirEndpoint` hold for helpers whose pid named no
  directory before.  A remover (`cleanup_proxy_socket_dir`) that has decided on a
  directory removes that of the next owner of the pid, and nothing in the
  code prevents it.

Left out: a removal that fails 21 times over two seconds, after which the code gives up and
the directory stays; the bytes a bridge copies (a half-closed connection is
not passed on), the parsing of proxy URLs (`[::1]` is never recognised as a
loopback host), the pipe of the preflight's stderr.

### Proofs

`HelperStages_proofs`, for every set of helpers, pids, directories, variables and endpoints:
`Spec => []StagesInv`.  TLC has checked `StagesInv` on the 325,499 states of the run.  Its parts
and what they are for:

* `Position`, `Confinement`: where the outer and the inner process are says which
  restrictions are in force already.  They give `ConfinedAlways`: a command
  starts with everything its profile asks for.
* `Bridging`, `LocalBridges`: directory, bridges, worker and inner stage come in this
  order; each local bridge is that of one endpoint, on a port of its own.
* `PidsApart`, `NamesAreSoiled`: running helpers have different pids, and a pid that
  ever named a directory is remembered.  So a helper whose pid has named none before is the
  only one a directory of that name belongs to.
* `NobodyHolds`, `DirectoryKept`: no sweep has decided on a directory of the pid of such
  a helper, and no other helper's worker has one.  A scan may have listed it, but a sweep
  asks whether the pid lives before it decides.  They give `DirectoryAlwaysKept`; the
  decision, and not the removal, is the step to look at, which is why the property alone is
  not inductive.
* `SocketsKept`: in that directory the socket of each bridge that is bound leads to it.
  Endpoints are numbered in the order of their first variables (`FirstKeyNames`,
  `SocketIndexGrows`), so that different endpoints have different sockets
  (`SocketIndexDistinct`).  With `LocalBridges`: `RoutesAlwaysReach`,
  where `SocketsShown` is a condition of the formula and not an assumption.
* `Sweeping`: every orphan of the beginning of a sweep is yet to be looked at, decided on, gone, or
  no orphan any more.  At the end none is left to be looked at: `SweepAlwaysTakesOrphans`.

Assumed are `ProxyAssumption` (endpoints are finitely many and variables are numbered in
their order; values that stand for nothing, as `NoDir` for no directory, are none of the real ones) and `StagesAssumption`.  Only model-checked: `BridgesEndWithHelper` and
`DirectoryGoes`, which are liveness.

## 6. Sessions

`SessionPromise` is the abstract specification of a session: output in order, with
no chunk skipped but by a client that is behind a broadcast channel; the end of the output after its
last chunk; the exit once, after the end of the command, with its code (or that
of a timeout, or of a lost connection).  A lost runner is told twice: by the exit, and by a
notice in the output (`send_runner_error`), which is no chunk of the command, comes once and
last (`SeeNotice`), and takes the room of one in the broadcast channel, so that a client
which lags may miss one more (`Room`).  `PtySession` models the sessions whose command is a
child of this process, `RunnerSession` EXTENDS it by the elevated runner; `WindowsSandbox` states
`Promise == INSTANCE SessionPromise WITH ...` and checks `PromiseKept == Promise!Spec`.

| model | code |
|---|---|
| `command`, `stdin` | the command, a descendant that holds its output, and its input |
| `chan` | pipe, broadcast channel, queue to the client, queue of input; all bounded as in the code |
| `task`, `waiter`, `exit` | reader, stream, wait and writer tasks; the waiter thread of the legacy backend; the exit on its way |
| `ReadDirect`, `ReadLegacy`, `StreamForwards` | `pipe.rs`, `pty.rs`, `legacy.rs`, `spawn_from_driver` |
| `WaitSees`, `WaitTells`, `Waiter…` | wait tasks: exit flag, code and channel are set in this order; `finalize_exit` |
| `RequestTerminate`, `Terminate`, `AbortTasks` | `ProcessHandle`; an aborted blocking thread goes on |
| `link` | `spawn_runner_transport`: logon, connects, request, ready |
| `runner`, `inbox`, `outbox` | the runner, its job, and the frames on the two named pipes |
| `RunnerSpawns`, `RunnerAssigns`, `Finished`, `RunnerExits` | `command_runner_win.rs`, in the order of its main thread |
| `RunnerTakes`, `RunnerReads`, `FrameReader`, `StdinWriter` | the threads at either end of the pipes |

Pipe, pty, inherited descriptors, legacy and elevated are values of `backend`, since they share the
code of the driver.  stdout and stderr are alike and one is modelled, with one difference: the
notice of a lost runner goes to stderr where that is an output of its own.  The output that gets
it is the one modelled; the other one ends without it, and what came last may be missing there
too.

* `windows`: every backend with three chunks of output, and with writes; timeouts for
  those that have one; every channel holds one item.  Three chunks fill a pipe, a
  channel and a reader, which is when something is dropped or waits.  `PromiseKept`, `ExitReported`,
  `TerminateTakesEffect`, `NothingLeftRunning`.

Fairness: tasks, threads and the runner go on; the command, its descendant, the client and
the clock do what they like.  A client that never reads stops a direct session, and
may: the exit does not depend on it.

What the properties except, and a caller should know: a descendant that left the job
and holds the output delays the exit of legacy and elevated sessions for as long as it lives; a
`Terminate` frame waits behind input that the command does not read; a runner that dies
before it has put the command into its job, or that could not create one, leaves it
running; the code of a terminated pty is 1, and -1 with inherited descriptors.  Left out:
resizing, encodings, the death of the client process, `elevated_impl.rs`.

### Proofs

`RunnerSession_proofs` proves that sessions implement the promise (`SessionsKeepPromise`), for
every backend, number of chunks and writes, and capacity: the initial state maps to one of
`SessionPromise`, and each step of a session, its runner or its client to one action of the
promise or to none.  A step of another client's setup is a stutter (`MapsAside`).  The
inductive invariant `SessionAlwaysInv` says:

* what the client has, its queue, the broadcast channel, the frames of the runner and the pipe
  hold, in this order, one chain of chunk numbers (`Flow`, `Chained`, and `FramesChained`
  for the frames).  A chunk is missing only where a broadcast channel was involved and as
  many newer chunks have been made as that holds, which is the gap the promise
  allows a slow client.  Once the notice of a lost runner has been sent (`Noticed`),
  nothing can join the chain any more: what the client, its queue and the channel hold ends
  with the notice, and a gap has one chunk less behind it (`LossFlow`);
* each end is where it is because of the ends before it (`EndsFit`): a reader is done only
  at the end of the output or when its runner is dead, and a stream that the client listens to
  only after its reader; so nothing follows the end of the output;
* an exit on its way is that of the command or the timeout after both have ended, or that
  of a lost connection after the runner died; nothing is told before the wait task is done.

The same invariant gives the types and capacities (`SandboxTyped`).  Only model-checked:
`ExitReported` and `TerminateTakesEffect`, which are liveness.

## 7. The setup of the Windows sandbox

An elevated session needs an account to log on with.  `WindowsSetup` models clients
(`require_logon_sandbox_creds`) and the helpers they start (`run_setup_full` and the refresh).

| model | code |
|---|---|
| `machine` | passwords of the two accounts; users file and marker (missing, torn, whole); the firewall rules; is the directory of secrets locked |
| `asker` | a client: compare the marker, read the users file, ask for setup, refresh |
| `helper` | its helper: the stages of a full setup in the order of the code, or those of a refresh |
| `reading` | the detached helper for read access, and its mutex |
| `report` | the error report, and for which clients it is not an old one |
| `history` | ghosts: whom another setup disturbed, which setup runs alone, was one cut short |

A helper can fail or die before every stage, with or without a report; files are
written in place, so others may find them torn.  `Prepare` and `LogonAs` in
`WindowsSandbox` compose it with the session: a logon succeeds only with the password
the account has now.

* `windows`, its other half: one client on a machine that suits it, one on a fresh one, two with
  different settings on a machine that suits the first; two ports.
  `ArtifactsMatch` (accounts, files, firewall and lock agree), `ReadyMeansReady`,
  `ErrorIsRecent`.  Two clients are one that looks and one that changes what was seen.
  A session is followed beyond the logon only when nobody else could set up the
  machine (`Alone`, `Followed`): the parts share nothing after it.

What the properties except, and the code has no defence against:

* Users file and marker are written before the firewall rules and the locks.  A setup
  that fails or dies in between leaves a marker with which every later client skips
  the setup.  `identity.rs:41` says that the settings of the offline account are
  validated at runtime; what is compared are the settings in the marker.
* Passwords are set before the users file is written: a failure in between leaves
  a file that does not work, and a marker that matches.
* Two setups at once interleave, and a client does not compare the
  marker again after its own setup.
* A second client's helper for read access is skipped while another one runs.

### Proofs

`WindowsSandbox_proofs` proves, for every set of clients and ports, every machine and
every session, of the specification that the run checks:

* `ErrorsAreRecent`, from `SetupInv`: a client waits for its helper exactly as long as
  that runs (`HelpersMatch`), so that a report written between the removal of the old
  one and the reading of the new one is recent for it (`ReportsMatch`).
* `NothingIsLeftRunning`, from `RunnerInv`: position of the runner, job and command fit
  (`JobMatches`), and the client has no runner before the logon nor after a failed start
  (`LinkMatches`).
* `FilesStayTrue` and `ReadyIsReady`, from `ArtifactsInv`: a setup that is alone, or whose client was
  not disturbed, finds at each stage what its earlier stages did (`SetupsDone`); one that
  is alone and has done nothing yet found a machine that matches its files
  (`AloneIsAlone`); what an undisturbed client has read is still there (`ClientsKnow`).
  This is what the two properties lack to be inductive, since they speak only of the
  times when no setup is under way.

The last two assume that the machine matches its files to begin with, and that no
request allows all ports: for such a request `blocked_loopback_tcp_remote_ports` is `None`
and a TCP rule that exists keeps the ports it had.  Both hold of the worlds of the run.
TLC has checked the invariants on the states of the run.  The types of the setup are
`SetupTyped`; with those of the sessions (section 6) they are `SandboxTyped`.

Left out: which roots are granted and the entries themselves, the helper
binaries, hiding of accounts, encryption of passwords, WFP filters.

## 8. Not modelled

* ConPTY and other wrappers of handles; process hardening: a few calls of the system each.
* ACLs, tokens, audit, capabilities: the sets of paths are computed from an
  older form of the policy that lost its narrower entries, and entries persist; that calls for a state
  machine of its own.
* Text: arguments, profiles, URLs, frames and quoting, beyond what they decide.
* Symbolic links and globs in policies.
