-------------------------------- MODULE Seatbelt --------------------------------
(***************************************************************************)
(* The file rules of the Seatbelt profile for a policy (seatbelt.rs): what  *)
(* macOS lets a command read and write.  A rule allows what is below its    *)
(* root, except excluded paths and names; rules are not ordered, and what   *)
(* one of them allows is allowed.                                          *)
(*                                                                         *)
(* Left out: the parameters and the text of the profile, its fixed parts    *)
(* (base policy, platform defaults), globs, and the network rules.         *)
(***************************************************************************)
EXTENDS BwrapPlan

\* SeatbeltAccessRoot
AccessRoot(root, excluded, names) == [root |-> root, excluded |-> excluded, names |-> names]

\* seatbelt_protected_metadata_name_regex: the name right below the root
HasName(root, names, p) == Len(p) > Len(root) /\ p[Len(root) + 1] \in names

\* build_seatbelt_access_policy, as sandbox-exec reads it
Allows(rule, p) ==
  /\ IsPrefix(rule.root, p)
  /\ ~Under(p, rule.excluded)
  /\ ~HasName(rule.root, rule.names, p)

\* protected_metadata_names_for_writable_root
ProtectedNames(pol, w) == w.names \cup {n \in MetaNames : ~CanWrite(pol, Append(w.root, n))}

\* A bug: what is read-only below a writable root is not excluded.
WriteRules_NothingExcluded(pol) ==
  IF HasFullWrite(pol) THEN {AccessRoot(Root, UnreadableRoots(pol), {})}
  ELSE {AccessRoot(w.root, {}, ProtectedNames(pol, w)) : w \in WritableRoots(pol)}

\* create_seatbelt_command_args
WriteRules(pol) ==
  IF HasFullWrite(pol) THEN {AccessRoot(Root, UnreadableRoots(pol), {})}
  ELSE {AccessRoot(w.root, w.readOnly, ProtectedNames(pol, w)) : w \in WritableRoots(pol)}

ReadRules(pol) ==
  IF HasFullRead(pol) THEN {AccessRoot(Root, UnreadableRoots(pol), {})}
  ELSE {AccessRoot(r, {u \in UnreadableRoots(pol) : IsPrefix(r, u)}, {}) : r \in ReadableRoots(pol)}

\* One rule that allows p is enough.
Allowed(rules, p) == \E rule \in rules : Allows(rule, p)

-----------------------------------------------------------------------------
(* Properties                                                               *)

\* What is metadata of a root within another root
InnerMetadata(p) ==
  LET roots == {w.root : w \in WritableRoots(policy)}
  IN \E v, w \in roots : IsStrictPrefix(v, w) /\ IsPrefix(w, p) /\ HasName(w, MetaNames, p)

\* Seatbelt lets the command read and write what the policy decides, however its
\* entries are nested (create_seatbelt_command_args against
\* can_read_path_with_cwd and can_write_path_with_cwd).  Three things stay open.
\* Rules are a union, so a root around another one allows the metadata that only
\* the inner root protects; the defaults of a root may refuse more than the
\* decision; and full write access covers a /tmp that is no directory.
SeatbeltMatchesPolicy ==
  LET reads == ReadRules(policy)
      writes == WriteRules(policy)
  IN \A p \in Tree :
       /\ Allowed(reads, p) <=> CanRead(policy, p)
       /\ Allowed(writes, p) => \/ CanWrite(policy, p) \/ InnerMetadata(p)
                                \/ HasFullWrite(policy) /\ UnderMissingTmp(p)
       /\ CanWrite(policy, p) => Allowed(writes, p) \/ OnlyRootsProtect(p)

=============================================================================
