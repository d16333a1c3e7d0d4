----------------------------- MODULE MCHelperStages -----------------------------
(***************************************************************************)
(* Small instances of HelperStages for TLC: one helper that serves every    *)
(* kind of request, one with several proxies, and two with proxies that     *)
(* share two pids, one of which an earlier helper had.                      *)
(***************************************************************************)
EXTENDS HelperStages, TLC

CONSTANTS p1, p2, h1, h2, h3

\* Three variables of h1 name two endpoints, one is foreign.
MCEnv ==
  h1 :> (1 :> 2 @@ 2 :> 1 @@ 3 :> 2 @@ 4 :> Foreign)
    @@ h2 :> (1 :> 1) @@ h3 :> (1 :> 1)

Managed ==
  [network |-> TRUE, fullWrite |-> FALSE, fullRead |-> TRUE, sockets |-> TRUE,
   direct |-> FALSE,
   managed |-> TRUE, legacy |-> FALSE, wsl1 |-> FALSE, bwrap |-> "new", named |-> FALSE,
   procMounts |-> TRUE]

\* With proxies inside bubblewrap some of the answers make no difference; without them
\* it is the sockets that make none.
Alone ==
  {r \in Requests :
     IF r.managed /\ ~r.legacy
     THEN /\ ~r.direct /\ r.procMounts
          /\ r.bwrap = "new" <=> ~r.named
          /\ r.network <=> r.fullWrite
          /\ r.fullWrite => r.fullRead /\ r.sockets
     ELSE r.sockets}

Broken == [Managed EXCEPT !.bwrap = "unusable"]

MCLeftovers == {{<<p1, 0>>}}

Nobody == [h \in Helpers |-> Absent]

\* One helper with any request; one with two endpoints; two with proxies, one of
\* which finds no bubblewrap once its bridges are there.
MCScenarios ==
  {[Nobody EXCEPT ![h2] = r] : r \in Alone}
    \cup {h1 :> Managed @@ Nobody, h2 :> Managed @@ h3 :> Broken @@ Nobody}

==============================================================================
