--------------------------- MODULE SessionPromise ---------------------------
(***************************************************************************)
(* What a session promises to the client that started it, whatever runs    *)
(* the command: SpawnedProcess with its output, its exit receiver and its  *)
(* ProcessHandle (src/src/pty/process.rs).                                 *)
(*                                                                         *)
(* Output is a number of chunks, handed over in the order they were made.  *)
(* A session over a broadcast channel may skip chunks of a client that is  *)
(* Slack chunks behind, but never one of the newest Slack.  The exit is    *)
(* told once, after the command has ended, with its code, or with another  *)
(* code when time was up or the connection was lost.  The output closes    *)
(* after the last chunk.  When the connection is lost it closes after a    *)
(* notice that the command did not make, which takes the room of a chunk,  *)
(* so that one more may be skipped, and of what came last some may be      *)
(* missing.                                                                *)
(***************************************************************************)
EXTENDS Integers, Sequences

CONSTANTS Slack,      \* chunks (> 0) a client may be behind before some are skipped
          TimedOut,   \* the codes told for a command that was out of time
          Lost,       \* the code told when the connection to the command is lost
          Notice      \* what is seen then, which is no number of a chunk

VARIABLES lossy,      \* output goes through a broadcast channel
          ended,      \* the command has ended
          code,       \* the code it ended with, or NoCode
          made,       \* chunks written by the command and its descendants
          seen,       \* chunks the client has received, and the notice
          told,       \* the code the client has been told, or NoCode
          closed,     \* the client has seen the end of the output
          aborted,    \* the client has aborted the session
          lost        \* the connection to the command is lost

NoCode == "none"

vars == <<lossy, ended, code, made, seen, told, closed, aborted, lost>>

LastSeen == IF seen = <<>> THEN 0 ELSE seen[Len(seen)]
broken == aborted \/ lost
Room == IF lost THEN Slack - 1 ELSE Slack

Init ==
    /\ lossy \in BOOLEAN
    /\ ended = FALSE /\ code = NoCode
    /\ made = 0 /\ seen = <<>>
    /\ told = NoCode /\ closed = FALSE /\ aborted = FALSE /\ lost = FALSE

\* A driver tells the exit only when no process is left that could write.
Make ==
    /\ lossy /\ told # NoCode => broken
    /\ ~closed \/ broken
    /\ made' = made + 1
    /\ UNCHANGED <<lossy, ended, code, seen, told, closed, aborted, lost>>

End ==
    /\ ~ended
    /\ ended' = TRUE /\ code' # NoCode
    /\ UNCHANGED <<lossy, made, seen, told, closed, aborted, lost>>

See ==
    /\ ~closed /\ LastSeen # Notice
    /\ \E c \in LastSeen + 1 .. made :
          /\ c # LastSeen + 1 => lossy /\ c <= made + 1 - Room
          /\ seen' = Append(seen, c)
    /\ UNCHANGED <<lossy, ended, code, made, told, closed, aborted, lost>>

SeeNotice ==
    /\ ~closed /\ lost /\ LastSeen # Notice
    /\ seen' = Append(seen, Notice)
    /\ UNCHANGED <<lossy, ended, code, made, told, closed, aborted, lost>>

Tell ==
    /\ told = NoCode
    /\ \/ ended /\ told' \in ({code} \cup TimedOut)
       \/ lost /\ told' = Lost
    /\ UNCHANGED <<lossy, ended, code, made, seen, closed, aborted, lost>>

Close ==
    /\ ~closed /\ closed' = TRUE
    /\ \/ aborted
       \/ lost /\ LastSeen = Notice
       \/ ended /\ LastSeen = made
    /\ UNCHANGED <<lossy, ended, code, made, seen, told, aborted, lost>>

\* A session breaks at any time; the death of a runner may take the command with it.
Break ==
    /\ \/ ~aborted /\ aborted' = TRUE /\ UNCHANGED lost
       \/ ~lost /\ lost' = TRUE /\ UNCHANGED aborted
    /\ \/ UNCHANGED <<ended, code>>
       \/ ~ended /\ ended' = TRUE /\ code' # NoCode
    /\ UNCHANGED <<lossy, made, seen, told, closed>>

Next == Make \/ End \/ See \/ SeeNotice \/ Tell \/ Close \/ Break

Spec == Init /\ [][Next]_vars
=============================================================================
