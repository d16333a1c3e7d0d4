-------------------------------- MODULE FsPolicy --------------------------------
(***************************************************************************)
(* The file-system sandbox policy (policy.rs): a list of entries, each of  *)
(* which grants or denies access to a path.                                *)
(*                                                                         *)
(* Everything that enforces a policy reads it in one of three forms: as     *)
(* decisions about single paths (resolve_access_with_cwd and what is built *)
(* on it), as roots (the readable, writable and unreadable roots that      *)
(* bubblewrap and Seatbelt are told), or converted to the older            *)
(* SandboxPolicy.  The module translates the three forms and the           *)
(* operations that change a policy, and states how the forms agree.        *)
(*                                                                         *)
(* A path is the sequence of its components.  There are no symbolic links, *)
(* so every path is its own effective path.                                *)
(***************************************************************************)
EXTENDS SequencesExt

CONSTANTS
  Names,      (* the components of paths                                    *)
  Tree,       (* paths the host may have something at, closed under prefix  *)
  Cwd,        (* the working directory                                      *)
  SlashTmp,   (* /tmp                                                       *)
  TmpDir,     (* what TMPDIR names, or NoPath                               *)
  NoPath,     (* not a path                                                 *)
  Git, Agents, Codex, (* the protected metadata names                       *)
  GitDir,     (* what a .git FILE points to, or NoPath                      *)
  Hosts,      (* the host file systems considered                           *)
  Entries,    (* the entries a user may configure                           *)
  Requests,   (* the paths that callers ask for                             *)
  MaxSteps    (* bound: entries configured and operations done              *)

ASSUME PolicyAssumption ==
  /\ Tree \subseteq Seq(Names)
  /\ {Cwd, SlashTmp} \subseteq Tree
  /\ {TmpDir, GitDir} \subseteq Tree \cup {NoPath}
  /\ Hosts \subseteq [Tree -> {"none", "file", "dir"}]
  /\ NoPath \notin Seq(Names)
  /\ {Git, Agents, Codex} \subseteq Names
  /\ Requests \subseteq Tree
  /\ MaxSteps \in Nat

VARIABLES
  host,   (* what the host has at each path                                 *)
  policy, (* a FileSystemSandboxPolicy                                      *)
  steps   (* entries configured and operations done so far                  *)

vars == <<host, policy, steps>>

-----------------------------------------------------------------------------
(* Paths, entries, policies                                                 *)

Root == <<>>
MetaNames == {Git, Agents, Codex}

HostKind(p) == IF p \in Tree THEN host[p] ELSE "none"
Exists(p) == HostKind(p) # "none"
IsDir(p) == HostKind(p) = "dir"

\* FileSystemAccessMode, in the order of its variants
Rank == [read |-> 0, write |-> 1, none |-> 2]
Accesses == DOMAIN Rank

\* FileSystemPath and FileSystemSpecialPath: `at` is the path, or the subpath of
\* :project_roots, or nothing.
PathTypes == {"path", "glob", "root", "minimal", "project", "tmpdir", "slash_tmp"}
Entry(type, at, access) == [type |-> type, at |-> at, access |-> access]
PathEntry(at, access) == Entry("path", at, access)

AllEntries == [type : PathTypes, at : Seq(Names), access : Accesses]
ASSUME EntriesAssumption == Entries \subseteq AllEntries

Kinds == {"restricted", "unrestricted", "external"}
Restricted(entries) == [kind |-> "restricted", entries |-> entries]
Unrestricted == [kind |-> "unrestricted", entries |-> <<>>]
External == [kind |-> "external", entries |-> <<>>]

EntriesOf(pol) == Range(pol.entries)
DenyEntries(pol) == {e \in EntriesOf(pol) : e.access = "none"}

\* resolve_entry_path; globs and :minimal name no path, a /tmp that is missing
\* and an unset TMPDIR neither.
ResolveEntry(e) ==
  CASE e.type = "path" -> e.at
    [] e.type = "root" -> Root
    [] e.type = "project" -> Cwd \o e.at
    [] e.type = "tmpdir" -> TmpDir
    [] e.type = "slash_tmp" -> IF IsDir(SlashTmp) THEN SlashTmp ELSE NoPath
    [] OTHER -> NoPath

\* resolved_entries_with_cwd
Resolved(pol) ==
  {[at |-> ResolveEntry(e), access |-> e.access] :
     e \in {f \in EntriesOf(pol) : ResolveEntry(f) # NoPath}}

\* file_system_paths_share_target: the same token, or an absolute path and a
\* token whose meaning depends on nothing.
SharesTarget(a, b) ==
  LET names(special, path) ==
        /\ path.type = "path"
        /\ \/ special.type = "root" /\ path.at = Root
           \/ special.type = "slash_tmp" /\ path.at = SlashTmp
  IN (a.type = b.type /\ a.at = b.at) \/ names(a, b) \/ names(b, a)

-----------------------------------------------------------------------------
(* Decisions about single paths                                             *)

\* A bug: ties go to the entry that grants more.
Outranks_ByCapability(e, f) ==
  \/ Len(e.at) > Len(f.at)
  \/ Len(e.at) = Len(f.at) /\ e.access # f.access /\ (f.access = "none" \/ e.access = "write")

\* resolved_entry_precedence: the more specific path, then the access mode
Outranks(e, f) ==
  \/ Len(e.at) > Len(f.at)
  \/ Len(e.at) = Len(f.at) /\ Rank[e.access] > Rank[f.access]

\* resolve_access_with_cwd
ResolveAccess(pol, p) ==
  LET covering == {e \in Resolved(pol) : IsPrefix(e.at, p)}
  IN IF pol.kind # "restricted" THEN "write"
     ELSE IF covering = {} THEN "none"
     ELSE (CHOOSE e \in covering : \A f \in covering : ~Outranks(f, e)).access

CanRead(pol, p) == ResolveAccess(pol, p) # "none"

HasRootAccess(pol, accesses) ==
  pol.kind = "restricted" /\ \E e \in EntriesOf(pol) : e.type = "root" /\ e.access \in accesses

HasDeniedRead(pol) == pol.kind = "restricted" /\ DenyEntries(pol) # {}

\* A bug: any write entry at the same place counts, even against a denial.
WriteOverrides_Denials(pol, e) ==
  \E c \in EntriesOf(pol) : c.access = "write" /\ SharesTarget(c, e)

\* has_same_target_write_override
WriteOverrides(pol, e) ==
  \E c \in EntriesOf(pol) :
    c.access = "write" /\ Rank[c.access] > Rank[e.access] /\ SharesTarget(c, e)

\* has_write_narrowing_entries
NarrowsWrites(pol) ==
  \E e \in EntriesOf(pol) :
    /\ e.access # "write"
    /\ CASE e.type = "glob" -> TRUE
         [] e.type = "root" -> e.access = "none"
         [] e.type = "minimal" -> FALSE
         [] OTHER -> ~WriteOverrides(pol, e)

HasFullRead(pol) ==
  pol.kind = "restricted" => HasRootAccess(pol, {"read", "write"}) /\ ~HasDeniedRead(pol)

HasFullWrite(pol) ==
  pol.kind = "restricted" => HasRootAccess(pol, {"write"}) /\ ~NarrowsWrites(pol)

\* include_platform_defaults
IncludesPlatformDefaults(pol) ==
  /\ pol.kind = "restricted" /\ ~HasFullRead(pol)
  /\ \E e \in EntriesOf(pol) : e.type = "minimal" /\ e.access # "none"

\* metadata_child_of_writable_root: the FIRST write entry, in the order of the
\* list, that has p inside its metadata decides.
MetadataChild(pol, p) ==
  LET at(i) == ResolveEntry(pol.entries[i])
      over == {i \in DOMAIN pol.entries :
                 /\ pol.entries[i].access = "write" /\ at(i) # NoPath
                 /\ IsStrictPrefix(at(i), p)
                 /\ p[Len(at(i)) + 1] \in MetaNames}
      first == CHOOSE i \in over : \A j \in over : i <= j
  IN IF over = {} THEN NoPath ELSE SubSeq(p, 1, Len(at(first)) + 1)

\* A bug: an entry for the metadata path itself does not count.
ExplicitWrite_Below(pol, metadata, p) ==
  \E e \in Resolved(pol) :
    e.access = "write" /\ IsPrefix(e.at, p) /\ IsStrictPrefix(metadata, e.at)

\* has_explicit_write_entry_for_metadata_path
ExplicitWrite(pol, metadata, p) ==
  \E e \in Resolved(pol) :
    e.access = "write" /\ IsPrefix(e.at, p) /\ IsPrefix(metadata, e.at)

\* is_metadata_write_denied
MetadataWriteDenied(pol, p) ==
  LET child == MetadataChild(pol, p)
  IN pol.kind = "restricted" /\ child # NoPath /\ ~ExplicitWrite(pol, child, p)

\* can_write_path_with_cwd
CanWrite(pol, p) ==
  /\ ResolveAccess(pol, p) = "write"
  /\ HasFullWrite(pol) \/ ~MetadataWriteDenied(pol, p)

-----------------------------------------------------------------------------
(* Roots                                                                    *)

\* default_read_only_subpaths_for_writable_root, in its order
DefaultReadOnly(root, protectMissingCodex) ==
  LET git == Append(root, Git)
      agents == Append(root, Agents)
      codex == Append(root, Codex)
      pointsTo == HostKind(git) = "file" /\ GitDir # git /\ Exists(GitDir)
  IN (IF pointsTo THEN <<GitDir>> ELSE <<>>)
       \o (IF Exists(git) THEN <<git>> ELSE <<>>)
       \o (IF IsDir(agents) THEN <<agents>> ELSE <<>>)
       \o (IF protectMissingCodex \/ IsDir(codex) THEN <<codex>> ELSE <<>>)

\* get_readable_roots_with_cwd
ReadableRoots(pol) ==
  IF HasFullRead(pol) THEN {}
  ELSE {e.at : e \in {f \in Resolved(pol) : f.access # "none" /\ CanRead(pol, f.at)}}

\* get_unreadable_roots_with_cwd: never the file-system root itself
UnreadableRoots(pol) ==
  IF pol.kind # "restricted" THEN {}
  ELSE {e.at : e \in {f \in Resolved(pol) :
                        f.access = "none" /\ ~CanRead(pol, f.at) /\ f.at # Root}}

\* A bug: the carve-outs are only the denied paths.
Carveouts_DeniedOnly(pol, root) ==
  {e.at : e \in {f \in Resolved(pol) :
                   f.access = "none" /\ ~CanWrite(pol, f.at) /\ IsStrictPrefix(root, f.at)}}

\* The entries that carve something out of a writable root
Carveouts(pol, root) ==
  {e.at : e \in {f \in Resolved(pol) :
                   f.access # "write" /\ ~CanWrite(pol, f.at) /\ IsStrictPrefix(root, f.at)}}

\* get_writable_roots_with_cwd and protected_metadata_names_for_writable_root
WritableRoot(pol, root) ==
  [root |-> root,
   names |-> {n \in MetaNames : ~CanWrite(pol, Append(root, n))},
   readOnly |->
     (Range(DefaultReadOnly(root, root = Cwd)) \ {e.at : e \in Resolved(pol)})
       \cup Carveouts(pol, root)]

WritableRoots(pol) ==
  IF HasFullWrite(pol) THEN {}
  ELSE {WritableRoot(pol, e.at) :
          e \in {f \in Resolved(pol) : f.access = "write" /\ CanWrite(pol, f.at)}}

\* WritableRoot::is_path_writable
IsPathWritable(w, p) ==
  /\ IsPrefix(w.root, p)
  /\ ~\E r \in w.readOnly : IsPrefix(r, p)
  /\ p = w.root \/ p[Len(w.root) + 1] \notin w.names

\* What the deepest root over p says: the roots are mounted in the order of their
\* depth, and a later mount hides an earlier one.
RootsAllowWrite(roots, p) ==
  \E w \in roots :
    /\ IsPathWritable(w, p)
    /\ \A v \in roots : IsPrefix(v.root, p) => Len(v.root) <= Len(w.root)

\* A bug: the carve-outs of the writable roots are not compared.
Signature_NoCarveouts(pol) ==
  [fullRead |-> HasFullRead(pol), fullWrite |-> HasFullWrite(pol),
   readable |-> ReadableRoots(pol), writable |-> {w.root : w \in WritableRoots(pol)},
   unreadable |-> UnreadableRoots(pol)]

\* semantic_signature
Signature(pol) ==
  [fullRead |-> HasFullRead(pol), fullWrite |-> HasFullWrite(pol),
   platform |-> IncludesPlatformDefaults(pol),
   readable |-> ReadableRoots(pol), writable |-> WritableRoots(pol),
   unreadable |-> UnreadableRoots(pol),
   globs |-> {e.at : e \in {f \in DenyEntries(pol) : f.type = "glob"}}]

-----------------------------------------------------------------------------
(* The older SandboxPolicy                                                  *)

\* `full` stands for DangerFullAccess and `external` for ExternalSandbox.
Legacy(type) == [type |-> type, roots |-> <<>>, slashTmp |-> FALSE, tmpdir |-> FALSE]
WorkspaceWrite(roots, slashTmp, tmpdir) ==
  [type |-> "workspace", roots |-> roots, slashTmp |-> slashTmp, tmpdir |-> tmpdir]

\* append_default_read_only_entry_if_no_explicit_rule, for each path
AppendReadOnly(entries, new) ==
  LET pushed[n \in 0..Len(new)] ==
        IF n = 0 THEN entries
        ELSE LET es == pushed[n - 1]
             IN IF \E f \in Range(es) : SharesTarget(f, new[n]) THEN es ELSE Append(es, new[n])
  IN pushed[Len(new)]

ReadOnlyPaths(paths) == [i \in DOMAIN paths |-> PathEntry(paths[i], "read")]

AppendDefaults(entries, roots) ==
  LET pushed[n \in 0..Len(roots)] ==
        IF n = 0 THEN entries
        ELSE AppendReadOnly(pushed[n - 1], ReadOnlyPaths(DefaultReadOnly(roots[n], FALSE)))
  IN pushed[Len(roots)]

\* The part that workspace_write and the legacy runtime policy have in common
WorkspaceEntries(leg) ==
  <<Entry("root", <<>>, "read"), Entry("project", <<>>, "write")>>
    \o (IF leg.slashTmp THEN <<Entry("slash_tmp", <<>>, "write")>> ELSE <<>>)
    \o (IF leg.tmpdir THEN <<Entry("tmpdir", <<>>, "write")>> ELSE <<>>)
    \o [i \in DOMAIN leg.roots |-> PathEntry(leg.roots[i], "write")]

\* From<&SandboxPolicy>, with FileSystemSandboxPolicy::workspace_write
FromLegacy(leg) ==
  CASE leg.type = "full" -> Unrestricted
    [] leg.type = "external" -> External
    [] leg.type = "read" -> Restricted(<<Entry("root", <<>>, "read")>>)
    [] leg.type = "workspace" ->
         Restricted(AppendDefaults(
           AppendReadOnly(WorkspaceEntries(leg),
             <<Entry("project", <<Git>>, "read"), Entry("project", <<Agents>>, "read"),
               Entry("project", <<Codex>>, "read")>>),
           leg.roots))

\* The defaults of the working directory, then those of the other roots
WithDefaults(entries, leg) ==
  AppendDefaults(AppendReadOnly(entries, ReadOnlyPaths(DefaultReadOnly(Cwd, TRUE))), leg.roots)

\* from_legacy_sandbox_policy_for_cwd
FromLegacyForCwd(leg) ==
  IF leg.type = "workspace"
    THEN Restricted(WithDefaults(FromLegacy(leg).entries, leg))
    ELSE FromLegacy(leg)

\* legacy_runtime_file_system_policy_for_cwd
LegacyRuntime(leg) ==
  IF leg.type = "workspace"
    THEN Restricted(WithDefaults(WorkspaceEntries(leg), leg))
    ELSE FromLegacy(leg)

\* SandboxPolicy::get_writable_roots_with_cwd
LegacyWritableRoots(leg) ==
  IF leg.type # "workspace" THEN {}
  ELSE {[root |-> r, names |-> {}, readOnly |-> Range(DefaultReadOnly(r, r = Cwd))] :
          r \in Range(leg.roots) \cup {Cwd}
                \cup (IF leg.slashTmp /\ IsDir(SlashTmp) THEN {SlashTmp} ELSE {})
                \cup (IF leg.tmpdir THEN {TmpDir} \ {NoPath} ELSE {})}

NamesCwd(e) == (e.type = "path" /\ e.at = Cwd) \/ (e.type = "project" /\ e.at = <<>>)

\* The writable roots of the older policy, each of them once
WorkspaceRoots(entries) ==
  LET pushed[n \in 0..Len(entries)] ==
        IF n = 0 THEN <<>>
        ELSE LET rs == pushed[n - 1]
                 e == entries[n]
             IN IF /\ e.access = "write" /\ e.type \in {"path", "project"} /\ ~NamesCwd(e)
                   /\ ResolveEntry(e) \notin Range(rs)
                  THEN Append(rs, ResolveEntry(e)) ELSE rs
  IN pushed[Len(entries)]

\* to_legacy_sandbox_policy; "error" where a write lies outside the workspace
ToLegacy(pol, network) ==
  LET writes == {e \in EntriesOf(pol) : e.access = "write"}
      has(type) == \E e \in writes : e.type = type
      roots == WorkspaceRoots(pol.entries)
  IN IF pol.kind = "external" THEN Legacy("external")
     ELSE IF HasFullWrite(pol) THEN Legacy(IF network THEN "full" ELSE "external")
     ELSE IF \E e \in writes : NamesCwd(e)
       THEN WorkspaceWrite(roots, has("slash_tmp"), has("tmpdir"))
     ELSE IF has("root") \/ roots # <<>> \/ has("tmpdir") \/ has("slash_tmp")
       THEN Legacy("error")
     ELSE Legacy("read")

\* protected_metadata_names_need_direct_runtime_enforcement
NamesNeedDirect(pol, leg) ==
  \E w \in WritableRoots(pol) : \E n \in w.names :
    ~\E l \in LegacyWritableRoots(leg) :
       l.root = w.root /\ Append(w.root, n) \in l.readOnly

\* needs_direct_runtime_enforcement
NeedsDirect(pol, network) ==
  LET leg == ToLegacy(pol, network)
  IN /\ pol.kind = "restricted"
     /\ \/ leg.type = "error"
        \/ NamesNeedDirect(pol, leg)
        \/ Signature(pol) # Signature(LegacyRuntime(leg))

-----------------------------------------------------------------------------
(* Operations on a policy                                                   *)

\* The denials of a list are pushed to another one, unless they are in it.
AppendDenials(entries, existing) ==
  LET pushed[n \in 0..Len(existing)] ==
        IF n = 0 THEN entries
        ELSE LET es == pushed[n - 1]
                 e == existing[n]
             IN IF e.access # "none" \/ e \in Range(es) THEN es ELSE Append(es, e)
  IN pushed[Len(existing)]

\* from_legacy_sandbox_policy_preserving_deny_entries
FromLegacyKeepingDenies(leg, existing) ==
  LET rebuilt == FromLegacyForCwd(leg)
  IN IF rebuilt.kind # "restricted" THEN rebuilt
     ELSE Restricted(AppendDenials(rebuilt.entries, existing.entries))

\* A bug: the denials are added to whatever the new policy is.
PreserveDenies_AnyKind(new, existing) ==
  [new EXCEPT !.entries = AppendDenials(@, existing.entries)]

\* preserve_deny_read_restrictions_from
PreserveDenies(new, existing) ==
  LET base == IF new.kind = "unrestricted" /\ DenyEntries(existing) # {}
                THEN Restricted(<<Entry("root", <<>>, "write")>>) ELSE new
  IN IF base.kind # "restricted" THEN base
     ELSE Restricted(AppendDenials(base.entries, existing.entries))

\* A bug: what is readable already, perhaps writable, is added once more.
WithReadableRoot_Always(pol, x) ==
  IF HasFullRead(pol) THEN pol
  ELSE [pol EXCEPT !.entries = Append(@, PathEntry(x, "read"))]

\* with_additional_readable_roots, one root at a time
WithReadableRoot(pol, x) ==
  IF HasFullRead(pol) \/ CanRead(pol, x) THEN pol
  ELSE [pol EXCEPT !.entries = Append(@, PathEntry(x, "read"))]

\* with_additional_writable_roots, one root at a time
WithWritableRoot(pol, x) ==
  IF CanWrite(pol, x) THEN pol
  ELSE [pol EXCEPT !.entries = Append(@, PathEntry(x, "write"))]

\* with_additional_legacy_workspace_writable_roots
WithLegacyRoot(pol, x) ==
  IF pol.kind # "restricted" THEN pol
  ELSE LET writes == IF PathEntry(x, "write") \in EntriesOf(pol) THEN pol.entries
                     ELSE Append(pol.entries, PathEntry(x, "write"))
       IN Restricted(AppendReadOnly(writes, ReadOnlyPaths(DefaultReadOnly(x, FALSE))))

\* materialize_project_roots_with_cwd
Materialized(pol) ==
  [pol EXCEPT !.entries =
     [i \in DOMAIN @ |->
        IF @[i].type = "project" THEN PathEntry(ResolveEntry(@[i]), @[i].access) ELSE @[i]]]

-----------------------------------------------------------------------------
(* The state machine: a policy is configured, and callers change it         *)

LegacyPolicies ==
  {Legacy(t) : t \in {"full", "external", "read"}}
    \cup {WorkspaceWrite(rs, slashTmp, TRUE) :
            rs \in {<<>>} \cup {<<p>> : p \in Requests}, slashTmp \in BOOLEAN}

\* FileSystemSandboxPolicy::default, unrestricted, external_sandbox, and
\* restricted with the entries that Configure adds.
Init ==
  /\ host \in Hosts
  /\ policy \in {Restricted(<<>>), Restricted(<<Entry("root", <<>>, "read")>>),
                  Unrestricted, External}
  /\ steps = 0

Becomes(pol) ==
  /\ steps < MaxSteps
  /\ policy' = pol /\ steps' = steps + 1
  /\ UNCHANGED host

Configure(e) ==
  policy.kind = "restricted" /\ Becomes(Restricted(Append(policy.entries, e)))

AddReadableRoot(x) == Becomes(WithReadableRoot(policy, x))
AddWritableRoot(x) == Becomes(WithWritableRoot(policy, x))
AddLegacyRoot(x) == Becomes(WithLegacyRoot(policy, x))
MaterializeProjectRoots == Becomes(Materialized(policy))

\* A caller replaces the allow side and keeps the denials.
ReplaceKeepingDenies(new) == Becomes(PreserveDenies(new, policy))
SelectLegacyPolicy(leg) == Becomes(FromLegacyKeepingDenies(leg, policy))

Replacements == {Unrestricted, External} \cup {FromLegacy(leg) : leg \in LegacyPolicies}

Next ==
  \/ \E e \in Entries : Configure(e)
  \/ \E x \in Requests : AddReadableRoot(x) \/ AddWritableRoot(x) \/ AddLegacyRoot(x)
  \/ MaterializeProjectRoots
  \/ \E new \in Replacements : ReplaceKeepingDenies(new)
  \/ \E leg \in LegacyPolicies : SelectLegacyPolicy(leg)

Spec == Init /\ [][Next]_vars

-----------------------------------------------------------------------------
(* Properties                                                               *)

TypeOK ==
  /\ host \in Hosts
  /\ policy \in [kind : Kinds, entries : Seq(AllEntries)]
  /\ policy.kind # "restricted" => policy.entries = <<>>
  /\ steps \in 0..MaxSteps

\* What the defaults of a root protect although no decision does: metadata inside
\* metadata, and what a .git file points to
MetadataInMetadata(p) == \E i, j \in DOMAIN p : i < j /\ {p[i], p[j]} \subseteq MetaNames
UnderGitDir(p) == GitDir # NoPath /\ IsPrefix(GitDir, p)
OnlyRootsProtect(p) == MetadataInMetadata(p) \/ UnderGitDir(p)

\* The writable roots that the platform sandboxes are told allow exactly the
\* writes that the policy allows, whatever entries are nested in each other
\* (get_writable_roots_with_cwd against can_write_path_with_cwd).  They may be
\* stricter where the defaults of a root protect more than the decision does.
RootsMatchDecisions ==
  LET roots == WritableRoots(policy)
  IN ~HasFullWrite(policy) =>
       \A p \in Tree :
         /\ RootsAllowWrite(roots, p) => CanWrite(policy, p)
         /\ CanWrite(policy, p) => RootsAllowWrite(roots, p) \/ OnlyRootsProtect(p)

\* Where :slash_tmp resolves to nothing, although it overrides entries for /tmp
UnderMissingTmp(p) == IsPrefix(SlashTmp, p) /\ ~IsDir(SlashTmp)

\* Where the policy says that all of the disk can be written or read, no single
\* path is refused: callers that ask skip all other checks
\* (has_write_narrowing_entries, has_full_disk_read_access).  A /tmp that is no
\* directory is the exception: a write entry for :slash_tmp then overrides a
\* read entry for the path /tmp, yet resolves to nothing.
FullMeansAll ==
  /\ HasFullWrite(policy) =>
       \A p \in Tree : CanWrite(policy, p) \/ UnderMissingTmp(p)
  /\ HasFullRead(policy) => \A p \in Tree : CanRead(policy, p)

\* When no direct enforcement is needed, the older policy makes the same
\* decisions: both the policy that stands for it and the roots it gives to the
\* older sandboxes (needs_direct_runtime_enforcement, which compares signatures
\* and metadata names, not decisions).  What only the defaults of a root protect is
\* the exception: the older policy writes those defaults down as entries, so that
\* its own decision refuses what the policy's decision leaves to the roots.
LegacyEnforcesTheSame ==
  \A network \in BOOLEAN :
    LET leg == ToLegacy(policy, network)
        runtime == LegacyRuntime(leg)
        roots == LegacyWritableRoots(leg)
    IN ~NeedsDirect(policy, network) =>
         \A p \in {q \in Tree : ~UnderMissingTmp(q)} :
           /\ CanRead(policy, p) <=> CanRead(runtime, p)
           /\ OnlyRootsProtect(p) \/
                /\ CanWrite(policy, p) <=> CanWrite(runtime, p)
                /\ leg.type = "workspace" => (CanWrite(policy, p) <=> RootsAllowWrite(roots, p))

\* No operation makes a denied path readable, as long as the policy is enforced
\* here at all: denials outlive the replacement of everything else, and grants of
\* the same path (preserve_deny_read_restrictions_from).
DeniesSurvive ==
  [][policy'.kind = "restricted" =>
       \A e \in DenyEntries(policy) :
         ResolveEntry(e) # NoPath => ~CanRead(policy', ResolveEntry(e))]_vars

\* Granting a root takes nothing away, be it by precedence or by the metadata
\* protection that a new writable root brings
\* (with_additional_readable_roots, with_additional_writable_roots).
GrantsOnlyAdd ==
  [][(\E x \in Requests : AddReadableRoot(x) \/ AddWritableRoot(x)) =>
       \A p \in Tree : /\ CanRead(policy, p) => CanRead(policy', p)
                       /\ CanWrite(policy, p) => CanWrite(policy', p)]_vars

\* A granted root is writable afterwards, even one that is metadata of another
\* root or was read-only; only a denial of the same path stands against it.
GrantsTakeEffect ==
  [][\A x \in Requests :
       AddWritableRoot(x) \/ AddLegacyRoot(x) =>
         \/ CanWrite(policy', x)
         \/ \E e \in DenyEntries(policy) : ResolveEntry(e) = x]_vars

=============================================================================
