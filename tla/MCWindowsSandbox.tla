-------------------------- MODULE MCWindowsSandbox --------------------------
(***************************************************************************)
(* A small instance of WindowsSandbox: sessions of each backend with output *)
(* or with input, and two clients that set up one machine.                 *)
(***************************************************************************)
EXTENDS WindowsSandbox, TLC

CONSTANTS c1, c2, p, q

Session(b, t, c, w) == [backend |-> b, timed |-> t, chunks |-> c, writes |-> w]

\* Output and input meet only in the two backends that are cheap to look at.
MCScenarios ==
    {Session(b, FALSE, 3, 0) : b \in {"pipe", "pty", "legacy"}}
      \cup {Session(b, FALSE, 1, 2) : b \in {"pipe", "pty"}} \cup {Session("fds", FALSE, 1, 1)}
      \cup {Session("legacy", TRUE, 2, 0), Session("legacy", FALSE, 0, 2)}
      \cup {Session("elevated", FALSE, 2, 0), Session("elevated", FALSE, 0, 2),
            Session("elevated", TRUE, 1, 0), Session("elevated", FALSE, 0, 0)}

Offline(ports, local) ==
    [identity |-> "offline", settings |-> [ports |-> ports, local |-> local]]
Online == [identity |-> "online", settings |-> [ports |-> {}, local |-> FALSE]]
Of(a, b) == c1 :> a @@ c2 :> b

Accounts(x) == "offline" :> x @@ "online" :> x
Files(x) == [state |-> IF x = Nobody THEN "none" ELSE "ok", offline |-> x, online |-> x]
Fresh ==
    [accounts |-> Accounts(Nobody), users |-> Files(Nobody),
     marker |-> [state |-> "none", settings |-> [ports |-> {}, local |-> FALSE]],
     udp |-> FALSE, tcp |-> {}, block |-> FALSE, locked |-> FALSE]
SetUp ==
    [accounts |-> Accounts(Before), users |-> Files(Before),
     marker |-> [state |-> "ok", settings |-> [ports |-> {p}, local |-> FALSE]],
     udp |-> TRUE, tcp |-> {q}, block |-> TRUE, locked |-> TRUE]

\* nobody; one client on a machine that suits it, and on one that does not; two
\* on a machine that suits the first
MCWorlds ==
    {[request |-> Of(Absent, Absent), machine |-> Fresh],
     [request |-> Of(Offline({p}, FALSE), Absent), machine |-> SetUp],
     [request |-> Of(Online, Absent), machine |-> Fresh],
     [request |-> Of(Offline({p}, FALSE), Offline({}, TRUE)), machine |-> SetUp]}
=============================================================================
