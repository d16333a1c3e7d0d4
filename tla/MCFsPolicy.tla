------------------------------ MODULE MCFsPolicy ------------------------------
(***************************************************************************)
(* A small instance of FsPolicy for TLC: a workspace /w with a nested       *)
(* repository /w/a, /tmp, and metadata directories, some of which exist.   *)
(* Where a .git is a file, it points to /w/g.                              *)
(***************************************************************************)
EXTENDS FsPolicy

CONSTANTS w, a, t, g

MCTree == {<<>>, <<w>>, <<w, g>>, <<w, Git>>, <<w, Git, Codex>>, <<w, Agents>>,
           <<w, Codex>>, <<w, a>>, <<w, a, Git>>, <<t>>}
MCCwd == <<w>>
MCSlashTmp == <<t>>
MCGitDir == <<w, g>>

Host(missing, files) ==
  [p \in MCTree |-> IF p \in missing THEN "none" ELSE IF p \in files THEN "file" ELSE "dir"]

MCHosts ==
  {Host({}, {<<w, a, Git>>}),
   Host({<<w, Git, Codex>>}, {<<w, Git>>, <<w, a, Git>>}),
   Host({<<w, g>>, <<w, Git>>, <<w, Git, Codex>>, <<w, Agents>>, <<w, Codex>>, <<t>>}, {})}

MCRequests == {<<w, a>>, <<w, Git>>}

MCEntries ==
  ({PathEntry(p, x) : p \in {<<w>>, <<w, Git>>, <<w, a>>}, x \in {"read", "write", "none"}}
     \ {PathEntry(<<w>>, "read")})
    \cup {Entry("root", <<>>, "write"), PathEntry(<<>>, "none"),
          Entry("project", <<>>, "write"), Entry("project", <<Git>>, "read"),
          Entry("slash_tmp", <<>>, "write"), Entry("minimal", <<>>, "read"),
          Entry("glob", <<>>, "none"), PathEntry(<<w, a, Git>>, "write"), PathEntry(<<t>>, "read")}

==============================================================================
