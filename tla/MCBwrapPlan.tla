------------------------------ MODULE MCBwrapPlan ------------------------------
(***************************************************************************)
(* A small instance of BwrapPlan and Seatbelt: a repository /w with a       *)
(* nested directory /w/a, and a file below the .git of each.  Where the     *)
(* .git of /w/a is a file, it points to that of /w.                        *)
(***************************************************************************)
EXTENDS Seatbelt

CONSTANTS w, a, t, x

MCTree ==
  {<<>>, <<w>>, <<w, Git>>, <<w, Git, HeadName>>, <<w, Codex>>, <<w, a>>, <<w, a, Git>>, <<t>>}
MCCwd == <<w>>
MCSlashTmp == <<t>>
MCGitDir == <<w, Git>>

Host(missing, files) ==
  [p \in MCTree |-> IF p \in missing THEN "none" ELSE IF p \in files THEN "file" ELSE "dir"]

MCHosts ==
  {Host({<<w, a, Git>>, <<w, Codex>>}, {<<w, Git, HeadName>>}),
   Host({<<w, Git, HeadName>>, <<w, a>>, <<w, a, Git>>}, {}),
   Host({<<w, Git>>, <<w, Git, HeadName>>}, {<<w, a, Git>>, <<w, Codex>>}),
   Host({<<w, Codex>>}, {<<w, Git, HeadName>>, <<w, a, Git>>})}

MCEmptyFiles == {<<w, Codex>>}

MCRequests == {<<w, a>>}

\* /w is made writable as the project.
MCEntries ==
  {PathEntry(p, y) : p \in {<<w>>, <<w, a>>}, y \in {"read", "none"}}
    \cup {PathEntry(p, "write") : p \in {<<w, a>>, <<w, Git>>}}
    \cup {PathEntry(p, "none") :
            p \in {<<>>, <<w, Git, HeadName>>, <<w, a, Git>>, <<w, a, Git, x>>}}
    \cup {Entry("root", <<>>, "write"), Entry("project", <<>>, "write"),
          Entry("project", <<Git>>, "read")}

==============================================================================
