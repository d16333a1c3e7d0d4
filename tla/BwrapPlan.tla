------------------------------- MODULE BwrapPlan -------------------------------
(***************************************************************************)
(* The bubblewrap arguments for a policy (create_filesystem_args): a list   *)
(* of mounts, where a later mount hides what is at and below its path.      *)
(*                                                                         *)
(* A mount is "bind" (the host, writable), "ro" (the host, read-only),      *)
(* "hide" (an inaccessible empty file or directory) or "mask" (an empty     *)
(* read-only file or directory).  Left out: /dev, /proc, the platform's     *)
(* default readable roots, symbolic links, and the expansion of globs.     *)
(***************************************************************************)
EXTENDS FsPolicy

CONSTANTS
  HeadName,  (* the component HEAD, by which a .git directory is known      *)
  EmptyFiles (* the files that have no content                              *)

\* What is above something that exists does exist.
ASSUME PlanAssumption ==
  /\ EmptyFiles \subseteq Tree
  /\ \A h \in Hosts : \A p \in Tree : h[p] # "none" =>
       \A n \in 0..Len(p) : SubSeq(p, 1, n) \in Tree /\ h[SubSeq(p, 1, n)] # "none"

-----------------------------------------------------------------------------
(* Paths on the host                                                        *)

Under(p, S) == \E r \in S : IsPrefix(r, p)

\* find_first_non_existent_component
FirstMissing(p) ==
  LET missing == {n \in 1..Len(p) : ~Exists(SubSeq(p, 1, n))}
  IN SubSeq(p, 1, Min(missing))

\* transient_empty_metadata_path: bubblewrap leaves such mount points behind.
TransientEmptyMetadata(p) ==
  /\ p # Root /\ Last(p) \in MetaNames
  /\ \/ HostKind(p) = "file" /\ p \in EmptyFiles
     \/ IsDir(p) /\ ~\E q \in Tree : IsStrictPrefix(p, q) /\ Exists(q)

\* ancestor_has_git_metadata; a .git file is a pointer unless it is empty.
HasGitMetadata(dir) ==
  LET git == Append(dir, Git)
  IN \/ IsDir(git) /\ Exists(Append(git, HeadName))
     \/ HostKind(git) = "file" /\ git \notin EmptyFiles

\* should_leave_missing_git_for_parent_repo_discovery
LeavesMissingGit(root, name) ==
  /\ name = Git /\ ~Exists(Append(root, Git))
  /\ \E n \in 0..Len(root) - 1 : HasGitMetadata(SubSeq(root, 1, n))

-----------------------------------------------------------------------------
(* Mounts                                                                   *)

Mount(op, at) == [op |-> op, at |-> at]

\* The order of path_depth.  The mount point of a path that is missing is less deep
\* than the path, but covers nothing else in a list.
ByDepth(mounts) ==
  LET depths == {Len(m.at) : m \in mounts}
      deepest == IF mounts = {} THEN 0 ELSE Max(depths)
  IN FlattenSeq([d \in 1..deepest + 1 |-> SetToSeq({m \in mounts : Len(m.at) = d - 1})])

\* The first missing component is masked, so that p cannot be created.
MissingMounts(p, allowed) ==
  {Mount("mask", q) : q \in {x \in {FirstMissing(p)} : Under(x, allowed)}}

\* append_read_only_subpath_args
ReadOnlyMounts(p, allowed) ==
  IF TransientEmptyMetadata(p) /\ Under(p, allowed) THEN {Mount("mask", p)}
  ELSE IF ~Exists(p) THEN MissingMounts(p, allowed)
  ELSE {Mount("ro", q) : q \in {x \in {p} : Under(x, allowed)}}

\* append_unreadable_root_args
UnreadableMounts(p, allowed) ==
  IF Exists(p) THEN {Mount("hide", p)} ELSE MissingMounts(p, allowed)

AllReadOnly(paths, allowed) == ByDepth(UNION {ReadOnlyMounts(p, allowed) : p \in paths})
AllUnreadable(paths, allowed) == ByDepth(UNION {UnreadableMounts(p, allowed) : p \in paths})

-----------------------------------------------------------------------------
(* Building the plan                                                        *)

\* Bubblewrap needs its mount points: writable roots that do not exist are skipped.
MountedRoots(pol) == {w \in WritableRoots(pol) : Exists(w.root)}
RootPaths(roots) == {w.root : w \in roots}

\* Defaults of the project root that the protection by name takes care of
MissingAutoMetadata(pol) ==
  {ResolveEntry(e) : e \in {f \in EntriesOf(pol) :
     /\ f.type = "project" /\ f.access = "read" /\ f.at \in {<<n>> : n \in MetaNames}
     /\ ~Exists(ResolveEntry(f))}}

\* The read-only paths of a root, with append_metadata_path_masks_for_writable_root
ReadOnlyOf(pol, w) ==
  ((w.readOnly \ UnreadableRoots(pol)) \ MissingAutoMetadata(pol))
    \cup {Append(w.root, n) : n \in {m \in w.names : ~LeavesMissingGit(w.root, m)}}

\* A bug: what is masked anyway is watched, too.
ProtectedCreate_Masked(w, readOnly) ==
  {x \in {Append(w.root, n) : n \in w.names} : ~Exists(x)}

\* append_protected_create_targets_for_writable_root
ProtectedCreate(w, readOnly) ==
  {x \in {Append(w.root, n) : n \in w.names} : x \notin readOnly /\ ~Exists(x)}

\* One writable root: bind it, then what is read-only and what is hidden in it
RootMounts(pol, w, denied, allowed) ==
  <<Mount("bind", w.root)>>
    \o AllReadOnly(ReadOnlyOf(pol, w), allowed)
    \o AllUnreadable({p \in denied : IsPrefix(w.root, p)}, allowed)

\* A bug: the roots are mounted deepest first.
RootOrder_DeepestFirst(roots) == Reverse(ByDepth({Mount("bind", r) : r \in RootPaths(roots)}))

\* sorted_writable_roots
RootOrder(roots) == ByDepth({Mount("bind", r) : r \in RootPaths(roots)})

AllRoots(pol, denied, allowed) ==
  LET roots == MountedRoots(pol)
      order == RootOrder(roots)
  IN FlattenSeq([i \in DOMAIN order |->
       RootMounts(pol, CHOOSE w \in roots : w.root = order[i].at, denied, allowed)])

\* The read-only base: everything, or the readable roots on an empty file system
Base(pol) ==
  LET readable == ReadableRoots(pol)
  IN IF HasFullRead(pol) \/ Root \in readable THEN <<Mount("ro", Root)>>
     ELSE ByDepth({Mount("ro", r) : r \in {x \in readable : Exists(x)}})

\* A bug: all that is denied outside the roots is hidden last.
DeniedAbove_Last(denied, allowed) == {}

\* unreadable_ancestors_of_writable_roots, hidden before the roots are bound
DeniedAbove(denied, allowed) ==
  {p \in denied : ~Under(p, allowed) /\ \E r \in allowed : IsPrefix(p, r)}

\* rootless_unreadable_roots
DeniedBeside(denied, allowed) ==
  {p \in denied : ~Under(p, allowed)} \ DeniedAbove(denied, allowed)

\* The mounts of create_filesystem_args
FilesystemMounts(pol) ==
  LET allowed == RootPaths(MountedRoots(pol))
      denied == UnreadableRoots(pol)
  IN Base(pol) \o AllUnreadable(DeniedAbove(denied, allowed), allowed)
       \o AllRoots(pol, denied, allowed) \o AllUnreadable(DeniedBeside(denied, allowed), allowed)

\* create_bwrap_command_args: where the policy allows everything, so does one mount.
Mounts(pol) ==
  IF HasFullWrite(pol) THEN <<Mount("bind", Root)>> ELSE FilesystemMounts(pol)

\* The protected-create targets; no root exists where the policy allows everything.
Watched(pol) == UNION {ProtectedCreate(w, ReadOnlyOf(pol, w)) : w \in MountedRoots(pol)}

\* The synthetic mount targets: bubblewrap creates the mount point of a mask.
Synthetic(mounts) == {m.at : m \in {x \in Range(mounts) : x.op = "mask"}}

-----------------------------------------------------------------------------
(* What the sandboxed command finds at a path                               *)

\* The last mount that covers p
Seen(mounts, p) ==
  LET over == {i \in DOMAIN mounts : IsPrefix(mounts[i].at, p)}
  IN IF over = {} THEN "nothing" ELSE mounts[Max(over)].op

Writes(mounts, p) == Seen(mounts, p) = "bind"
Reads(mounts, p) == Seen(mounts, p) \in {"bind", "ro", "mask"}

-----------------------------------------------------------------------------
(* Properties                                                               *)

\* The mounts never let the command write what the policy refuses, nor read what
\* it hides, whatever is nested in what (the mount order of
\* create_filesystem_args).  What stays open: a missing path that is watched
\* instead of mounted, what is below a writable root that does not exist,
\* missing metadata of a project that is not itself a writable root, a /tmp that
\* is no directory, and, for reading, what a .git file points to.
PlanGrantsNoMore ==
  LET mounts == Mounts(policy)
      roots == RootPaths(WritableRoots(policy))
      skipped == {r \in roots : ~Exists(r)}
      unmasked == IF Cwd \in roots THEN {} ELSE MissingAutoMetadata(policy)
      open == Watched(policy) \cup skipped \cup unmasked
  IN \A p \in Tree :
       /\ Writes(mounts, p) => \/ CanWrite(policy, p) \/ Under(p, open)
                               \/ HasFullWrite(policy) /\ UnderMissingTmp(p)
       /\ Reads(mounts, p) /\ Exists(p) => CanRead(policy, p) \/ UnderGitDir(p)

\* The mounts give the command all that the policy grants, except that a
\* readable path below a denied one stays hidden, since only writable roots are
\* reopened (append_existing_unreadable_path_args), and that the defaults of a
\* root may protect more than the decision does.
PlanGrantsNoLess ==
  LET mounts == Mounts(policy) IN
  \A p \in Tree : Exists(p) =>
    /\ CanWrite(policy, p) => Writes(mounts, p) \/ OnlyRootsProtect(p)
    /\ CanRead(policy, p) => Reads(mounts, p) \/ Under(p, UnreadableRoots(policy))

\* The missing metadata of the project that create_filesystem_args takes out of
\* the read-only paths is protected after all, by a mount or by the monitor, as
\* its comment promises: "so the metadata handling below can apply the
\* root-scoped protection consistently".
MissingMetadataIsProtected ==
  LET mounts == Mounts(policy) IN
  \A p \in MissingAutoMetadata(policy) :
    Writes(mounts, p) => CanWrite(policy, p) \/ p \in Watched(policy)

\* What is denied below a writable root stays hidden, as the comment of
\* create_filesystem_args says: "Unreadable paths nested under a broader writable
\* root are applied after that broader root is bound, then reopened by any deeper
\* writable child"; no writable root is at or above a denied path and deeper.
NestedDenialsStayHidden ==
  LET mounts == Mounts(policy) IN
  \A p \in UnreadableRoots(policy) :
    Exists(p) /\ Under(p, RootPaths(MountedRoots(policy))) => ~Reads(mounts, p)

\* A path whose creation the monitor takes for a violation is no mount point that
\* bubblewrap creates itself, or no command could run (a missing .git left for
\* the discovery of the parent repository).  Only a denial of the missing path
\* and a rule for something below it make it both.
TargetsDisjoint ==
  \A p \in Watched(policy) \cap Synthetic(Mounts(policy)) :
    \E e \in Resolved(policy) :
      IsStrictPrefix(p, e.at) \/ (e.at = p /\ e.access = "none")

=============================================================================
