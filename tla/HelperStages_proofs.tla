-------------------------- MODULE HelperStages_proofs --------------------------
(***************************************************************************)
(* What is proved of HelperStages for any number of helpers, pids, proxy    *)
(* endpoints and leftover directories.                                      *)
(***************************************************************************)
EXTENDS HelperStages, FiniteSetTheorems, TLAPS

-----------------------------------------------------------------------------
(* Operators                                                                *)

\* A nonempty set of numbers has a least element, and Min finds it (the sockets
\* are numbered by the first variable that names their endpoint).
LEMMA MinIsIn ==
  ASSUME NEW S, S \subseteq Nat, S # {}
  PROVE  Min(S) \in S /\ \A y \in S : Min(S) <= y
<1> DEFINE R == {ss \in Nat \X Nat : ss[1] < ss[2]}
<1>1. IsWellFoundedOn(R, Nat)
  BY NatLessThanWellFounded DEF OpToRel
<1>2. \A x, y \in Nat : <<y, x>> \in R <=> y < x
  OBVIOUS
<1> HIDE DEF R
<1>3. PICK x \in S : \A y \in S : ~(<<y, x>> \in R)
  BY <1>1, WFMin
<1>4. ASSUME NEW y \in S PROVE x <= y
  <2>1. ~(y < x)
    BY <1>2, <1>3
  <2> QED BY <2>1
<1> QED BY <1>4 DEF Min

\* The first variable of an endpoint names that endpoint, so two endpoints never
\* share it.
LEMMA FirstKeyNames ==
  ASSUME NEW h \in Helpers, NEW e \in EndpointsOf(h)
  PROVE  FirstKey(h, e) \in Routed(h) /\ Env[h][FirstKey(h, e)] = e /\ FirstKey(h, e) \in Nat
<1> DEFINE K == {k \in Routed(h) : Env[h][k] = e}
<1>1. K \subseteq Nat /\ K # {}
  BY ProxyAssumption DEF Routed, EndpointsOf
<1>2. Min(K) \in K
  BY <1>1, MinIsIn
<1> QED BY <1>1, <1>2 DEF FirstKey

\* The endpoints of a helper are among the finitely many of the host.
LEMMA EndpointsAreFinite ==
  ASSUME NEW h \in Helpers
  PROVE  EndpointsOf(h) \subseteq Endpoints /\ IsFiniteSet(EndpointsOf(h))
<1>1. EndpointsOf(h) \subseteq Endpoints
  BY ProxyAssumption DEF EndpointsOf, Routed
<1> QED BY <1>1, FS_Subset, ProxyAssumption

\* The endpoints that come before one, which SocketIndex counts.
Before(h, e) == {f \in EndpointsOf(h) : FirstKey(h, f) < FirstKey(h, e)}

\* A socket index lies in the range that the socket directory has room for.
LEMMA SocketIndexInRange ==
  ASSUME NEW h \in Helpers, NEW e \in EndpointsOf(h)
  PROVE  SocketIndex(h, e) \in Indexes
<1>1. e \in Endpoints /\ Before(h, e) \subseteq Endpoints \ {e}
  BY EndpointsAreFinite, FirstKeyNames DEF Before
<1>2. IsFiniteSet(Endpoints \ {e}) /\ Cardinality(Endpoints \ {e}) = Cardinality(Endpoints) - 1
  BY <1>1, ProxyAssumption, FS_RemoveElement
<1>3. IsFiniteSet(Before(h, e)) /\ Cardinality(Before(h, e)) <= Cardinality(Endpoints \ {e})
  BY <1>1, <1>2, FS_Subset
<1>4. Cardinality(Before(h, e)) \in Nat /\ Cardinality(Endpoints) \in Nat
  BY <1>3, ProxyAssumption, FS_CardinalityType
<1>5. SocketIndex(h, e) = Cardinality(Before(h, e))
  BY DEF SocketIndex, Before
<1> QED BY <1>2, <1>3, <1>4, <1>5 DEF Indexes

\* Endpoints come one after the other: the earlier one has the smaller index.
LEMMA SocketIndexGrows ==
  ASSUME NEW h \in Helpers, NEW e \in EndpointsOf(h), NEW f \in EndpointsOf(h),
         FirstKey(h, e) < FirstKey(h, f)
  PROVE  SocketIndex(h, e) < SocketIndex(h, f)
<1>1. /\ FirstKey(h, e) \in Nat /\ FirstKey(h, f) \in Nat
      /\ \A g \in EndpointsOf(h) : FirstKey(h, g) \in Nat
  BY FirstKeyNames
<1>2. Before(h, e) \subseteq Before(h, f) \ {e} /\ e \in Before(h, f)
  BY <1>1 DEF Before
<1>3. IsFiniteSet(Before(h, f))
  BY EndpointsAreFinite, FS_Subset DEF Before
<1>4. /\ IsFiniteSet(Before(h, f) \ {e})
      /\ Cardinality(Before(h, f) \ {e}) = Cardinality(Before(h, f)) - 1
  BY <1>2, <1>3, FS_RemoveElement
<1>5. /\ IsFiniteSet(Before(h, e))
      /\ Cardinality(Before(h, e)) <= Cardinality(Before(h, f) \ {e})
  BY <1>2, <1>4, FS_Subset
<1>6. Cardinality(Before(h, e)) \in Nat /\ Cardinality(Before(h, f)) \in Nat
  BY <1>3, <1>5, FS_CardinalityType
<1>7. /\ SocketIndex(h, e) = Cardinality(Before(h, e))
      /\ SocketIndex(h, f) = Cardinality(Before(h, f))
  BY DEF SocketIndex, Before
<1> QED BY <1>4, <1>5, <1>6, <1>7

\* No two endpoints of a helper have the same socket.
LEMMA SocketIndexDistinct ==
  ASSUME NEW h \in Helpers, NEW e \in EndpointsOf(h), NEW f \in EndpointsOf(h), e # f
  PROVE  SocketIndex(h, e) # SocketIndex(h, f)
<1>1. /\ FirstKey(h, e) \in Nat /\ FirstKey(h, f) \in Nat
      /\ FirstKey(h, e) # FirstKey(h, f)
  BY FirstKeyNames
<1>2. SocketIndex(h, e) \in Nat /\ SocketIndex(h, f) \in Nat
  <2>1. SocketIndex(h, e) \in Indexes /\ SocketIndex(h, f) \in Indexes
    BY SocketIndexInRange
  <2>2. Cardinality(Endpoints) \in Nat
    BY ProxyAssumption, FS_CardinalityType
  <2> QED BY <2>1, <2>2 DEF Indexes
<1>3. CASE FirstKey(h, e) < FirstKey(h, f)
  BY <1>2, <1>3, SocketIndexGrows
<1>4. CASE FirstKey(h, f) < FirstKey(h, e)
  BY <1>2, <1>4, SocketIndexGrows
<1> QED BY <1>1, <1>3, <1>4

-----------------------------------------------------------------------------
(* The inductive invariant                                                  *)

\* Types; a helper that was started has a pid.
TypeInv ==
  /\ TypeOK
  /\ \A h \in Helpers : proc[h] # "absent" => pid[h] \in Pids

\* Where a helper is tells how its request entered the stages, and only the
\* helper that supervises bubblewrap has an inner process.
Position(h) ==
  /\ proc[h] = "absent" => pc[h] = "start"
  /\ pc[h] # "start" => request[h] \in Requests
  /\ pc[h] \in {"here", "command"} => EntryPoint(request[h]) = "here"
  /\ pc[h] \in {"plan", "sweep", "spawn", "prepared"} => EntryPoint(request[h]) = "plan"
  /\ pc[h] = "probe" => EntryPoint(request[h]) = "probe"
  /\ pc[h] \in {"launch", "supervising"} => EntryPoint(request[h]) # "here"
  /\ inner[h] # "none" => pc[h] = "supervising"

LandlockOf(r) == r.legacy /\ ~(r.fullWrite /\ ~r.managed)

\* What restricts a process is what its request and its stage say.
Confinement(h) ==
  LET r == request[h]
  IN /\ pc[h] = "command" =>
          /\ LegacySupported(r) /\ CanRestrict(r, LandlockOf(r))
          /\ confined[h] = Restricted(r, Unconfined, LandlockOf(r), FALSE)
     /\ inner[h] \in {"activate", "restrict"} => confined[h] = Flags(r)
     /\ inner[h] \in {"exec", "command"} =>
          confined[h] = Restricted(r, Flags(r), FALSE, r.managed)

\* Local bridges are forked before the filter is there, each with a port of its
\* own, and once they are all there the variables hold their ports.
LocalBridges(h) ==
  /\ \A i, j \in Indexes :
       i # j /\ local[h][i].port # NoPort => local[h][i].port # local[h][j].port
  /\ \A i \in Indexes : local[h][i].filter = "none"
  /\ inner[h] \in {"restrict", "exec", "command"} /\ request[h].managed =>
       \A k \in Routed(h) : Rewritten(h, k) # NoPort /\ routes[h][k] = Rewritten(h, k)

\* Bridges and worker come after the directory; once the worker is there, every
\* bridge has announced itself; while the helper lives none of them is reaped.
Bridging(h) ==
  /\ pc[h] \in {"start", "here", "plan", "sweep", "probe", "command"} => dir[h] = NoName
  /\ pc[h] \in {"sweep", "spawn", "prepared"} => Routed(h) # {}
  /\ pc[h] = "spawn" => dir[h] # NoName
  /\ pc[h] = "prepared" \/ (pc[h] \in {"launch", "supervising"} /\ request[h].managed) =>
       worker[h] # "none"
  /\ worker[h] # "none" =>
       /\ Routed(h) # {} /\ dir[h] # NoName
       /\ \A e \in EndpointsOf(h) : <<h, e>> \in announced
  /\ worker[h] \in {"removing", "done"} => ~Alive(h)
  /\ \A e \in Endpoints :
       /\ br[<<h, e>>] # "none" => e \in EndpointsOf(h) /\ dir[h] # NoName
       /\ <<h, e>> \in announced => br[<<h, e>>] # "none"
       /\ Alive(h) => br[<<h, e>>] # "gone"

\* The pid of a running helper is its own, and its directory is named after it.
PidsApart ==
  \A g, h \in Helpers :
    /\ g # h
    /\ proc[g] \in {"alive", "zombie"} /\ proc[h] \in {"alive", "zombie"}
    => pid[g] # pid[h]

\* Whoever has a name in hand has it of a pid that has named a directory.
NamesAreSoiled ==
  /\ \A n \in Names : dirs[n] # NoDir => n[1] \in soiled
  /\ \A h \in Helpers :
       /\ \A n \in scan[h] : n[1] \in soiled
       /\ judged[h] # NoName => judged[h][1] \in soiled
       /\ dir[h] # NoName => dir[h][1] = pid[h] /\ pid[h] \in soiled

\* While a helper with an unused pid lives, nobody has a name of its in hand to
\* remove, neither its sweep nor its worker.
NobodyHolds(h) ==
  /\ h \in fresh => proc[h] # "absent"
  /\ h \in fresh /\ Alive(h) =>
       /\ dir[h] = NoName => pid[h] \notin soiled
       /\ \A g \in Helpers :
            /\ judged[g] # NoName => judged[g][1] # pid[h]
            /\ g # h /\ dir[g] # NoName => dir[g][1] # pid[h]

\* So its directory stays, and in it the socket of each bridge that is bound.
DirectoryKept(h) ==
  h \in fresh /\ Alive(h) /\ dir[h] # NoName =>
    dirs[dir[h]] # NoDir /\ dirs[dir[h]].by = h

SocketsKept(h) ==
  h \in fresh /\ Alive(h) /\ dir[h] # NoName =>
    \A e \in EndpointsOf(h) :
      LET s == dirs[dir[h]].sock[SocketIndex(h, e)]
      IN /\ s \in {NoBridge, <<h, e>>}
         /\ br[<<h, e>>] \in {"bound", "serving"} \/ <<h, e>> \in announced => s = <<h, e>>

\* What a sweep has to remove has no owner, and is on its list, in its hand or gone.
Sweeping(h) ==
  /\ \A n \in doomed[h] : ~PidInUse(n[1])
  /\ pc[h] = "sweep" =>
       \A n \in doomed[h] : n \in scan[h] \/ judged[h] = n \/ dirs[n] = NoDir

StagesInv ==
  /\ TypeInv
  /\ \A h \in Helpers : Position(h)
  /\ \A h \in Helpers : Confinement(h)
  /\ \A h \in Helpers : LocalBridges(h)
  /\ \A h \in Helpers : Bridging(h)
  /\ PidsApart
  /\ NamesAreSoiled
  /\ \A h \in Helpers : NobodyHolds(h)
  /\ \A h \in Helpers : DirectoryKept(h)
  /\ \A h \in Helpers : SocketsKept(h)
  /\ \A h \in Helpers : Sweeping(h)

-----------------------------------------------------------------------------
(* Types                                                                    *)

USE DEF helperVars, bridgeVars, ghostVars, stageVars, proxyVars

\* The helper starts well typed, whatever earlier helpers left behind.
LEMMA TypeInit == Init => TypeInv
<1> SUFFICES ASSUME Init PROVE TypeInv
  OBVIOUS
<1>1. request \in [Helpers -> Requests \cup {Absent}]
  BY StagesAssumption DEF Init
<1>2. EmptyDir(NoHelper) \in Directories
  BY DEF EmptyDir, Directories
<1>3. /\ dirs \in [Names -> {NoDir} \cup Directories]
      /\ soiled \subseteq Pids
  BY <1>2, ProxyAssumption DEF Init, ProxyInit, Names
<1>4. ProxyTypeOK
  BY <1>3 DEF Init, ProxyInit, ProxyTypeOK
<1>5. TypeOK
  BY <1>1, <1>4 DEF Init, TypeOK, NoBridgeAt, Unconfined
<1> QED BY <1>5 DEF TypeInv, Init, ProxyInit

\* What MakeDir makes has a name of the pid that nothing had.
LEMMA FreeName ==
  ASSUME TypeInv, NEW h \in Helpers, MakeDir(h)
  PROVE  \E n \in Names :
           /\ dir' = [dir EXCEPT ![h] = n]
           /\ dirs' = [dirs EXCEPT ![n] = EmptyDir(h)]
           /\ dirs[n] = NoDir /\ n[1] = pid[h]
<1> DEFINE free == {a \in 0 .. Attempts - 1 : dirs[<<pid[h], a>>] = NoDir}
           n == <<pid[h], Min(free)>>
<1>1. free \subseteq Nat /\ free # {}
  BY ProxyAssumption DEF MakeDir
<1>2. Min(free) \in free
  BY <1>1, MinIsIn
<1>3. pid[h] \in Pids
  BY DEF TypeInv, TypeOK, ProxyTypeOK, MakeDir, Goes, Alive
<1>4. dir' = [dir EXCEPT ![h] = n] /\ dirs' = [dirs EXCEPT ![n] = EmptyDir(h)]
  BY DEF MakeDir
<1>5. n \in Names /\ dirs[n] = NoDir /\ n[1] = pid[h]
  BY <1>2, <1>3 DEF Names
<1> HIDE DEF n
<1> QED BY <1>4, <1>5

\* One step of one helper and what belongs to it
HelperStep(h) ==
  \/ \E p \in Pids : Launch(h, p)
  \/ Prepare(h) /\ UNCHANGED stageVars
  \/ \E e \in Endpoints : (BridgeStep(h, e) \/ BridgeFails(h, e)) /\ UNCHANGED stageVars
  \/ (WorkerStep(h) \/ KillWorker(h) \/ Reap(h)) /\ UNCHANGED stageVars
  \/ ConfineAndExec(h) \/ Preflight(h) \/ RunBubblewrap(h)
  \/ Inside(h) \/ InnerEnds(h)
  \/ Exit(h) \/ Kill(h)

Confinements ==
  [nnp : BOOLEAN, filter : {"none", "unix", "ip"}, landlock : BOOLEAN, mounts : BOOLEAN,
   netns : BOOLEAN]

\* What the operators on directories, restrictions and routes yield
LEMMA EmptyDirTyped ==
  ASSUME NEW h \in Helpers
  PROVE  EmptyDir(h) \in Directories
BY DEF EmptyDir, Directories

\* Whatever it is applied to, a restriction is one of the host's.
LEMMA RestrictedTyped ==
  ASSUME NEW r, NEW before \in Confinements, NEW l, NEW t
  PROVE  Restricted(r, before, l, t) \in Confinements
BY DEF Restricted, SeccompMode, Confinements

\* So are the flags of bubblewrap.
LEMMA FlagsTyped ==
  ASSUME NEW r
  PROVE  Flags(r) \in Confinements
BY DEF Flags, FilesystemFlags, FullFilesystemFlags, Unconfined, NetworkUnshared, Confinements

\* A rewritten variable holds a port, or none while its bridge is missing.
LEMMA RewrittenTyped ==
  ASSUME TypeInv, NEW h \in Helpers, NEW k \in Routed(h)
  PROVE  Rewritten(h, k) \in Ports \cup {NoPort}
<1>1. Env[h][k] \in EndpointsOf(h)
  BY DEF EndpointsOf
<1>2. SocketIndex(h, Env[h][k]) \in Indexes
  BY <1>1, SocketIndexInRange
<1> QED BY <1>2 DEF TypeInv, TypeOK, Rewritten

\* Every step of a helper, of its bridges, worker and command keeps the types.
LEMMA TypeStep ==
  ASSUME TypeInv, Next
  PROVE  TypeInv'
<1> SUFFICES ASSUME NEW h \in Helpers, HelperStep(h) PROVE TypeInv'
  BY DEF Next, HelperStep
<1>1. ASSUME NEW p \in Pids, Launch(h, p)
     PROVE  TypeInv'
  BY <1>1 DEF Launch, Start, EntryPoint, TypeInv, TypeOK, ProxyTypeOK
<1>2. ASSUME PlanRoutes(h), UNCHANGED stageVars
     PROVE  TypeInv'
  BY <1>2 DEF PlanRoutes, Goes, TypeInv, TypeOK, ProxyTypeOK
<1>3. ASSUME NEW n \in Names, SweepEntry(h, n), UNCHANGED stageVars
     PROVE  TypeInv'
  BY <1>3 DEF SweepEntry, TypeInv, TypeOK, ProxyTypeOK
<1>4. ASSUME RemoveJudged(h), UNCHANGED stageVars
     PROVE  TypeInv'
  BY <1>4 DEF RemoveJudged, TypeInv, TypeOK, ProxyTypeOK
<1>5. ASSUME MakeDir(h), UNCHANGED stageVars
     PROVE  TypeInv'
  <2>1. PICK n \in Names : /\ dir' = [dir EXCEPT ![h] = n]
                            /\ dirs' = [dirs EXCEPT ![n] = EmptyDir(h)]
    BY <1>5, FreeName
  <2>2. dirs' \in [Names -> {NoDir} \cup Directories] /\ dir' \in [Helpers -> Names \cup {NoName}]
    BY <2>1, EmptyDirTyped DEF TypeInv, TypeOK, ProxyTypeOK
  <2>3. pid[h] \in Pids
    BY <1>5 DEF TypeInv, TypeOK, ProxyTypeOK, MakeDir, Goes, Alive
  <2> QED BY <1>5, <2>2, <2>3 DEF MakeDir, Goes, TypeInv, TypeOK, ProxyTypeOK
<1>6. ASSUME ForkBridge(h), UNCHANGED stageVars
     PROVE  TypeInv'
  BY <1>6 DEF ForkBridge, TypeInv, TypeOK, ProxyTypeOK
<1>7. ASSUME StartWorker(h), UNCHANGED stageVars
     PROVE  TypeInv'
  BY <1>7 DEF StartWorker, Goes, TypeInv, TypeOK, ProxyTypeOK
<1>8. ASSUME NEW e \in Endpoints, Arm(h, e), UNCHANGED stageVars
     PROVE  TypeInv'
  BY <1>8 DEF Arm, Becomes, Bridges, Alive, TypeInv, TypeOK, ProxyTypeOK
<1>9. ASSUME NEW e \in Endpoints, Bind(h, e), UNCHANGED stageVars
     PROVE  TypeInv'
  <2>1. <<h, e>> \in Bridges
    BY DEF Bridges
  <2>2. br' \in [Bridges -> {"none", "forked", "armed", "bound", "serving", "zombie", "gone"}]
    <3>1. \E state \in {"zombie", "gone", "bound"} : br' = [br EXCEPT ![<<h, e>>] = state]
      BY <1>9 DEF Bind, Becomes
    <3> QED BY <2>1, <3>1 DEF TypeInv, TypeOK, ProxyTypeOK
  <2>3. dirs' \in [Names -> {NoDir} \cup Directories]
    <3>1. CASE dirs[dir[h]] = NoDir
      BY <1>9, <3>1 DEF Bind, TypeInv, TypeOK, ProxyTypeOK
    <3>2. CASE dirs[dir[h]] # NoDir
      <4>1. dirs' = [dirs EXCEPT ![dir[h]].sock[SocketIndex(h, e)] = <<h, e>>]
        BY <1>9, <3>2 DEF Bind
      <4>2. CASE dir[h] \in Names
        <5>1. dirs[dir[h]] \in Directories
          BY <3>2, <4>2 DEF TypeInv, TypeOK, ProxyTypeOK
        <5>2. [dirs[dir[h]] EXCEPT !.sock[SocketIndex(h, e)] = <<h, e>>] \in Directories
          BY <2>1, <5>1 DEF Directories
        <5>3. dirs' = [dirs EXCEPT ![dir[h]] =
                 [dirs[dir[h]] EXCEPT !.sock[SocketIndex(h, e)] = <<h, e>>]]
          BY <4>1, <4>2 DEF TypeInv, TypeOK, ProxyTypeOK
        <5> QED BY <5>2, <5>3 DEF TypeInv, TypeOK, ProxyTypeOK
      <4>3. CASE dir[h] = NoName
        <5> DEFINE d == [dirs[dir[h]] EXCEPT !.sock[SocketIndex(h, e)] = <<h, e>>]
        <5>1. dirs' = [dirs EXCEPT ![NoName] = d]
          BY <4>1, <4>3
        <5> HIDE DEF d
        <5>2. NoName \notin Names /\ dirs \in [Names -> {NoDir} \cup Directories]
          BY ProxyAssumption DEF TypeInv, TypeOK, ProxyTypeOK
        <5> QED BY <5>1, <5>2
      <4> QED BY <4>2, <4>3 DEF TypeInv, TypeOK, ProxyTypeOK
    <3> QED BY <3>1, <3>2
  <2> QED BY <1>9, <2>2, <2>3 DEF Bind, TypeInv, TypeOK, ProxyTypeOK
<1>10. ASSUME NEW e \in Endpoints, Announce(h, e), UNCHANGED stageVars
     PROVE  TypeInv'
  <2>1. <<h, e>> \in Bridges
    BY DEF Bridges
  <2>2. br' \in [Bridges -> {"none", "forked", "armed", "bound", "serving", "zombie", "gone"}]
    <3>1. \E state \in {"gone", "serving"} : br' = [br EXCEPT ![<<h, e>>] = state]
      BY <1>10 DEF Announce, Becomes
    <3> QED BY <2>1, <3>1 DEF TypeInv, TypeOK, ProxyTypeOK
  <2>3. announced' \subseteq Bridges
    <3>1. announced' = announced \cup {<<h, e>>} \/ announced' = announced
      BY <1>10 DEF Announce, Becomes, Alive
    <3>2. announced \subseteq Bridges
      BY DEF TypeInv, TypeOK, ProxyTypeOK
    <3> QED BY <2>1, <3>1, <3>2
  <2> QED BY <1>10, <2>2, <2>3 DEF Announce, TypeInv, TypeOK, ProxyTypeOK
<1>11. ASSUME NEW e \in Endpoints, BridgeTerminated(h, e), UNCHANGED stageVars
     PROVE  TypeInv'
  BY <1>11 DEF BridgeTerminated, Becomes, TypeInv, TypeOK, ProxyTypeOK
<1>12. ASSUME NEW e \in Endpoints, ReapBridge(h, e), UNCHANGED stageVars
     PROVE  TypeInv'
  BY <1>12 DEF ReapBridge, Becomes, TypeInv, TypeOK, ProxyTypeOK
<1>13. ASSUME NEW e \in Endpoints, BridgeFails(h, e), UNCHANGED stageVars
     PROVE  TypeInv'
  BY <1>13 DEF BridgeFails, Becomes, TypeInv, TypeOK, ProxyTypeOK
<1>14. ASSUME WorkerLooks(h), UNCHANGED stageVars
     PROVE  TypeInv'
  BY <1>14 DEF WorkerLooks, TypeInv, TypeOK, ProxyTypeOK
<1>15. ASSUME WorkerRemoves(h), UNCHANGED stageVars
     PROVE  TypeInv'
  BY <1>15 DEF WorkerRemoves, TypeInv, TypeOK, ProxyTypeOK
<1>16. ASSUME KillWorker(h), UNCHANGED stageVars
     PROVE  TypeInv'
  BY <1>16 DEF KillWorker, TypeInv, TypeOK, ProxyTypeOK
<1>17. ASSUME Reap(h), UNCHANGED stageVars
     PROVE  TypeInv'
  BY <1>17 DEF Reap, TypeInv, TypeOK, ProxyTypeOK
<1>18. ASSUME ConfineAndExec(h)
     PROVE  TypeInv'
  <2>1. \A r, l, t : Restricted(r, Unconfined, l, t) \in Confinements
    BY RestrictedTyped DEF Confinements, Unconfined
  <2>2. confined' \in [Helpers -> Confinements]
    BY <1>18, <2>1 DEF ConfineAndExec, TypeInv, TypeOK, ProxyTypeOK, Confinements
  <2> QED BY <1>18, <2>2 DEF ConfineAndExec, Goes, TypeInv, TypeOK, ProxyTypeOK, Confinements
<1>19. ASSUME Preflight(h)
     PROVE  TypeInv'
  BY <1>19 DEF Preflight, Goes, TypeInv, TypeOK, ProxyTypeOK
<1>20. ASSUME RunBubblewrap(h)
     PROVE  TypeInv'
  <2>1. confined' \in [Helpers -> Confinements]
    BY <1>20, FlagsTyped DEF RunBubblewrap, TypeInv, TypeOK, ProxyTypeOK, Confinements
  <2>2. loopback' \in [Helpers -> BOOLEAN]
    BY <1>20 DEF RunBubblewrap, TypeInv, TypeOK, ProxyTypeOK
  <2>3. inner' \in [Helpers -> {"none", "activate", "restrict", "exec", "command", "ended"}]
    BY <1>20 DEF RunBubblewrap, TypeInv, TypeOK, ProxyTypeOK
  <2>4. pc' = [pc EXCEPT ![h] = "supervising"]
    BY <1>20 DEF RunBubblewrap, Goes
  <2>5. UNCHANGED <<proc, pid, scan, judged, dir, dirs, br, late, announced, worker, soiled, fresh,
                    doomed, request, mountProc, local, routes>>
    BY <1>20 DEF RunBubblewrap
  <2> QED BY <2>1, <2>2, <2>3, <2>4, <2>5 DEF TypeInv, TypeOK, ProxyTypeOK, Confinements
<1>21. ASSUME NEW i \in Indexes, NEW port \in Ports, SpawnLocalBridge(h, i, port)
     PROVE  TypeInv'
  BY <1>21 DEF SpawnLocalBridge, TypeInv, TypeOK, ProxyTypeOK
<1>22. ASSUME RaiseLoopback(h)
     PROVE  TypeInv'
  BY <1>22 DEF RaiseLoopback, TypeInv, TypeOK, ProxyTypeOK
<1>23. ASSUME RewriteEnv(h)
     PROVE  TypeInv'
  <2>1. \A k \in Routed(h) : Rewritten(h, k) \in Ports \cup {NoPort}
    BY RewrittenTyped
  <2>2. routes' = [routes EXCEPT ![h] = [k \in Routed(h) |-> Rewritten(h, k)]]
    BY <1>23 DEF RewriteEnv
  <2>3. /\ DOMAIN routes' = Helpers
        /\ \A g \in Helpers : routes'[g] \in [Routed(g) -> Ports \cup {NoPort}]
    BY <2>1, <2>2 DEF TypeInv, TypeOK, ProxyTypeOK
  <2>4. inner' = [inner EXCEPT ![h] = "restrict"]
    BY <1>23 DEF RewriteEnv
  <2>5. UNCHANGED <<proc, pid, pc, scan, judged, dir, dirs, br, late, announced, worker, soiled,
                    fresh, doomed, request, mountProc, loopback, local, confined>>
    BY <1>23 DEF RewriteEnv
  <2> QED BY <2>3, <2>4, <2>5 DEF TypeInv, TypeOK, ProxyTypeOK
<1>24. ASSUME InnerConfines(h)
     PROVE  TypeInv'
  <2>1. Restricted(request[h], confined[h], FALSE, request[h].managed) \in Confinements
    BY RestrictedTyped DEF TypeInv, TypeOK, ProxyTypeOK, Confinements
  <2>2. confined' \in [Helpers -> Confinements]
    BY <1>24, <2>1 DEF InnerConfines, TypeInv, TypeOK, ProxyTypeOK, Confinements
  <2> QED BY <1>24, <2>2 DEF InnerConfines, TypeInv, TypeOK, ProxyTypeOK, Confinements
<1>25. ASSUME InnerExecs(h)
     PROVE  TypeInv'
  BY <1>25 DEF InnerExecs, TypeInv, TypeOK, ProxyTypeOK
<1>26. ASSUME InnerEnds(h)
     PROVE  TypeInv'
  <2>1. \A g \in Helpers : local'[g] \in [Indexes ->
            [port : Ports \cup {NoPort}, filter : {"none", "unix", "ip"}]]
    <3>1. [i \in Indexes |-> NoBridgeAt] \in [Indexes ->
            [port : Ports \cup {NoPort}, filter : {"none", "unix", "ip"}]]
      BY DEF NoBridgeAt
    <3> QED BY <1>26, <3>1 DEF InnerEnds, TypeInv, TypeOK, ProxyTypeOK
  <2> QED BY <1>26, <2>1 DEF InnerEnds, TypeInv, TypeOK, ProxyTypeOK
<1>27. ASSUME Dies(h), UNCHANGED <<pc, stageVars>>
     PROVE  TypeInv'
  BY <1>27 DEF Dies, Alive, TypeInv, TypeOK, ProxyTypeOK
<1> QED
  BY <1>1, <1>2, <1>3, <1>4, <1>5, <1>6, <1>7, <1>8, <1>9, <1>10, <1>11, <1>12, <1>13, <1>14,
       <1>15, <1>16, <1>17, <1>18, <1>19, <1>20, <1>21, <1>22, <1>23, <1>24, <1>25, <1>26, <1>27
       DEF HelperStep, Inside, Prepare, BridgeStep, WorkerStep, Exit, Kill

-----------------------------------------------------------------------------
(* Positions and restrictions                                               *)

\* Every step keeps each helper on the way that its request chose (run_main).
LEMMA PositionStep ==
  ASSUME TypeInv, \A g \in Helpers : Position(g), Next
  PROVE  \A g \in Helpers : Position(g)'
<1> SUFFICES ASSUME NEW h \in Helpers, HelperStep(h) PROVE \A g \in Helpers : Position(g)'
  BY DEF Next, HelperStep
<1> USE DEF Position, Alive
<1>1. ASSUME NEW p \in Pids, Launch(h, p)
     PROVE  \A g \in Helpers : Position(g)'
  BY <1>1 DEF Launch, Start, EntryPoint, TypeInv, TypeOK, ProxyTypeOK
<1>2. ASSUME PlanRoutes(h), UNCHANGED stageVars
     PROVE  \A g \in Helpers : Position(g)'
  BY <1>2 DEF PlanRoutes, Goes, TypeInv, TypeOK, ProxyTypeOK
<1>3. ASSUME NEW n \in Names, SweepEntry(h, n), UNCHANGED stageVars
     PROVE  \A g \in Helpers : Position(g)'
  BY <1>3 DEF SweepEntry, TypeInv, TypeOK, ProxyTypeOK
<1>4. ASSUME RemoveJudged(h), UNCHANGED stageVars
     PROVE  \A g \in Helpers : Position(g)'
  BY <1>4 DEF RemoveJudged, TypeInv, TypeOK, ProxyTypeOK
<1>5. ASSUME MakeDir(h), UNCHANGED stageVars
     PROVE  \A g \in Helpers : Position(g)'
  BY <1>5 DEF MakeDir, Goes, TypeInv, TypeOK, ProxyTypeOK
<1>6. ASSUME ForkBridge(h), UNCHANGED stageVars
     PROVE  \A g \in Helpers : Position(g)'
  BY <1>6 DEF ForkBridge, TypeInv, TypeOK, ProxyTypeOK
<1>7. ASSUME StartWorker(h), UNCHANGED stageVars
     PROVE  \A g \in Helpers : Position(g)'
  BY <1>7 DEF StartWorker, Goes, TypeInv, TypeOK, ProxyTypeOK
<1>8. ASSUME NEW e \in Endpoints, Arm(h, e), UNCHANGED stageVars
     PROVE  \A g \in Helpers : Position(g)'
  BY <1>8 DEF Arm, Becomes, TypeInv, TypeOK, ProxyTypeOK
<1>9. ASSUME NEW e \in Endpoints, Bind(h, e), UNCHANGED stageVars
     PROVE  \A g \in Helpers : Position(g)'
  BY <1>9 DEF Bind, Becomes, TypeInv, TypeOK, ProxyTypeOK
<1>10. ASSUME NEW e \in Endpoints, Announce(h, e), UNCHANGED stageVars
     PROVE  \A g \in Helpers : Position(g)'
  BY <1>10 DEF Announce, Becomes, TypeInv, TypeOK, ProxyTypeOK
<1>11. ASSUME NEW e \in Endpoints, BridgeTerminated(h, e), UNCHANGED stageVars
     PROVE  \A g \in Helpers : Position(g)'
  BY <1>11 DEF BridgeTerminated, Becomes, TypeInv, TypeOK, ProxyTypeOK
<1>12. ASSUME NEW e \in Endpoints, ReapBridge(h, e), UNCHANGED stageVars
     PROVE  \A g \in Helpers : Position(g)'
  BY <1>12 DEF ReapBridge, Becomes, TypeInv, TypeOK, ProxyTypeOK
<1>13. ASSUME NEW e \in Endpoints, BridgeFails(h, e), UNCHANGED stageVars
     PROVE  \A g \in Helpers : Position(g)'
  BY <1>13 DEF BridgeFails, Becomes, TypeInv, TypeOK, ProxyTypeOK
<1>14. ASSUME WorkerLooks(h), UNCHANGED stageVars
     PROVE  \A g \in Helpers : Position(g)'
  BY <1>14 DEF WorkerLooks, TypeInv, TypeOK, ProxyTypeOK
<1>15. ASSUME WorkerRemoves(h), UNCHANGED stageVars
     PROVE  \A g \in Helpers : Position(g)'
  BY <1>15 DEF WorkerRemoves, TypeInv, TypeOK, ProxyTypeOK
<1>16. ASSUME KillWorker(h), UNCHANGED stageVars
     PROVE  \A g \in Helpers : Position(g)'
  BY <1>16 DEF KillWorker, TypeInv, TypeOK, ProxyTypeOK
<1>17. ASSUME Reap(h), UNCHANGED stageVars
     PROVE  \A g \in Helpers : Position(g)'
  BY <1>17 DEF Reap, TypeInv, TypeOK, ProxyTypeOK
<1>18. ASSUME ConfineAndExec(h)
     PROVE  \A g \in Helpers : Position(g)'
  BY <1>18 DEF ConfineAndExec, Goes, TypeInv, TypeOK, ProxyTypeOK
<1>19. ASSUME Preflight(h)
     PROVE  \A g \in Helpers : Position(g)'
  BY <1>19 DEF Preflight, Goes, TypeInv, TypeOK, ProxyTypeOK
<1>20. ASSUME RunBubblewrap(h)
     PROVE  \A g \in Helpers : Position(g)'
  BY <1>20 DEF RunBubblewrap, Goes, TypeInv, TypeOK, ProxyTypeOK
<1>21. ASSUME NEW i \in Indexes, NEW port \in Ports, SpawnLocalBridge(h, i, port)
     PROVE  \A g \in Helpers : Position(g)'
  BY <1>21 DEF SpawnLocalBridge, TypeInv, TypeOK, ProxyTypeOK
<1>22. ASSUME RaiseLoopback(h)
     PROVE  \A g \in Helpers : Position(g)'
  BY <1>22 DEF RaiseLoopback, TypeInv, TypeOK, ProxyTypeOK
<1>23. ASSUME RewriteEnv(h)
     PROVE  \A g \in Helpers : Position(g)'
  BY <1>23 DEF RewriteEnv, TypeInv, TypeOK, ProxyTypeOK
<1>24. ASSUME InnerConfines(h)
     PROVE  \A g \in Helpers : Position(g)'
  BY <1>24 DEF InnerConfines, TypeInv, TypeOK, ProxyTypeOK
<1>25. ASSUME InnerExecs(h)
     PROVE  \A g \in Helpers : Position(g)'
  BY <1>25 DEF InnerExecs, TypeInv, TypeOK, ProxyTypeOK
<1>26. ASSUME InnerEnds(h)
     PROVE  \A g \in Helpers : Position(g)'
  BY <1>26 DEF InnerEnds, InnerRuns, TypeInv, TypeOK, ProxyTypeOK
<1>27. ASSUME Dies(h), UNCHANGED <<pc, stageVars>>
     PROVE  \A g \in Helpers : Position(g)'
  BY <1>27 DEF Dies, TypeInv, TypeOK, ProxyTypeOK
<1> QED
  BY <1>1, <1>2, <1>3, <1>4, <1>5, <1>6, <1>7, <1>8, <1>9, <1>10, <1>11, <1>12, <1>13, <1>14,
       <1>15, <1>16, <1>17, <1>18, <1>19, <1>20, <1>21, <1>22, <1>23, <1>24, <1>25, <1>26, <1>27
       DEF HelperStep, Inside, Prepare, BridgeStep, WorkerStep, Exit, Kill

\* Every step keeps the restrictions in line with request and stage: they are made
\* in ConfineAndExec, RunBubblewrap and InnerConfines, and nothing else touches them.
LEMMA ConfinementStep ==
  ASSUME TypeInv, \A g \in Helpers : Position(g), \A g \in Helpers : Confinement(g), Next
  PROVE  \A g \in Helpers : Confinement(g)'
<1> SUFFICES ASSUME NEW h \in Helpers, HelperStep(h) PROVE \A g \in Helpers : Confinement(g)'
  BY DEF Next, HelperStep
<1> USE DEF Confinement, Alive
<1>1. ASSUME NEW p \in Pids, Launch(h, p)
     PROVE  \A g \in Helpers : Confinement(g)'
  <2>1. /\ proc[h] = "absent" /\ pc' = [pc EXCEPT ![h] = EntryPoint(request[h])]
        /\ UNCHANGED <<request, inner, confined>>
    BY <1>1 DEF Launch, Start
  <2>2. EntryPoint(request[h]) # "command"
    BY DEF EntryPoint
  <2>3. inner[h] = "none"
    BY <2>1 DEF Position
  <2> QED BY <2>1, <2>2, <2>3 DEF TypeInv, TypeOK, ProxyTypeOK
<1>2. ASSUME PlanRoutes(h), UNCHANGED stageVars
     PROVE  \A g \in Helpers : Confinement(g)'
  BY <1>2 DEF PlanRoutes, Goes, TypeInv, TypeOK, ProxyTypeOK
<1>3. ASSUME NEW n \in Names, SweepEntry(h, n), UNCHANGED stageVars
     PROVE  \A g \in Helpers : Confinement(g)'
  BY <1>3 DEF SweepEntry, TypeInv, TypeOK, ProxyTypeOK
<1>4. ASSUME RemoveJudged(h), UNCHANGED stageVars
     PROVE  \A g \in Helpers : Confinement(g)'
  BY <1>4 DEF RemoveJudged, TypeInv, TypeOK, ProxyTypeOK
<1>5. ASSUME MakeDir(h), UNCHANGED stageVars
     PROVE  \A g \in Helpers : Confinement(g)'
  BY <1>5 DEF MakeDir, Goes, TypeInv, TypeOK, ProxyTypeOK
<1>6. ASSUME ForkBridge(h), UNCHANGED stageVars
     PROVE  \A g \in Helpers : Confinement(g)'
  BY <1>6 DEF ForkBridge, TypeInv, TypeOK, ProxyTypeOK
<1>7. ASSUME StartWorker(h), UNCHANGED stageVars
     PROVE  \A g \in Helpers : Confinement(g)'
  BY <1>7 DEF StartWorker, Goes, TypeInv, TypeOK, ProxyTypeOK
<1>8. ASSUME NEW e \in Endpoints, Arm(h, e), UNCHANGED stageVars
     PROVE  \A g \in Helpers : Confinement(g)'
  BY <1>8 DEF Arm, Becomes, TypeInv, TypeOK, ProxyTypeOK
<1>9. ASSUME NEW e \in Endpoints, Bind(h, e), UNCHANGED stageVars
     PROVE  \A g \in Helpers : Confinement(g)'
  BY <1>9 DEF Bind, Becomes, TypeInv, TypeOK, ProxyTypeOK
<1>10. ASSUME NEW e \in Endpoints, Announce(h, e), UNCHANGED stageVars
     PROVE  \A g \in Helpers : Confinement(g)'
  BY <1>10 DEF Announce, Becomes, TypeInv, TypeOK, ProxyTypeOK
<1>11. ASSUME NEW e \in Endpoints, BridgeTerminated(h, e), UNCHANGED stageVars
     PROVE  \A g \in Helpers : Confinement(g)'
  BY <1>11 DEF BridgeTerminated, Becomes, TypeInv, TypeOK, ProxyTypeOK
<1>12. ASSUME NEW e \in Endpoints, ReapBridge(h, e), UNCHANGED stageVars
     PROVE  \A g \in Helpers : Confinement(g)'
  BY <1>12 DEF ReapBridge, Becomes, TypeInv, TypeOK, ProxyTypeOK
<1>13. ASSUME NEW e \in Endpoints, BridgeFails(h, e), UNCHANGED stageVars
     PROVE  \A g \in Helpers : Confinement(g)'
  BY <1>13 DEF BridgeFails, Becomes, TypeInv, TypeOK, ProxyTypeOK
<1>14. ASSUME WorkerLooks(h), UNCHANGED stageVars
     PROVE  \A g \in Helpers : Confinement(g)'
  BY <1>14 DEF WorkerLooks, TypeInv, TypeOK, ProxyTypeOK
<1>15. ASSUME WorkerRemoves(h), UNCHANGED stageVars
     PROVE  \A g \in Helpers : Confinement(g)'
  BY <1>15 DEF WorkerRemoves, TypeInv, TypeOK, ProxyTypeOK
<1>16. ASSUME KillWorker(h), UNCHANGED stageVars
     PROVE  \A g \in Helpers : Confinement(g)'
  BY <1>16 DEF KillWorker, TypeInv, TypeOK, ProxyTypeOK
<1>17. ASSUME Reap(h), UNCHANGED stageVars
     PROVE  \A g \in Helpers : Confinement(g)'
  BY <1>17 DEF Reap, TypeInv, TypeOK, ProxyTypeOK
<1>18. ASSUME ConfineAndExec(h)
     PROVE  \A g \in Helpers : Confinement(g)'
  <2> DEFINE l == LandlockOf(request[h])
             c == Restricted(request[h], Unconfined, l, FALSE)
  <2>1. /\ pc[h] = "here" /\ pc' = [pc EXCEPT ![h] = "command"]
        /\ LegacySupported(request[h]) /\ CanRestrict(request[h], l)
        /\ confined' = [confined EXCEPT ![h] = c]
        /\ UNCHANGED <<request, inner>>
    BY <1>18 DEF ConfineAndExec, Goes, LandlockOf
  <2>2. inner[h] = "none"
    BY <2>1 DEF Position
  <2>3. ASSUME NEW g \in Helpers PROVE Confinement(g)'
    <3>1. CASE g = h
      <4>1. pc'[h] = "command" /\ inner'[h] = "none" /\ confined'[h] = c /\ request'[h] = request[h]
        BY <2>1, <2>2 DEF TypeInv, TypeOK, ProxyTypeOK
      <4> QED BY <2>1, <3>1, <4>1
    <3>2. CASE g # h
      <4>1. /\ pc'[g] = pc[g] /\ inner'[g] = inner[g]
            /\ confined'[g] = confined[g] /\ request'[g] = request[g]
        BY <2>1, <3>2 DEF TypeInv, TypeOK, ProxyTypeOK
      <4> QED BY <4>1
    <3> QED BY <3>1, <3>2
  <2> QED BY <2>3
<1>19. ASSUME Preflight(h)
     PROVE  \A g \in Helpers : Confinement(g)'
  BY <1>19 DEF Preflight, Goes, TypeInv, TypeOK, ProxyTypeOK
<1>20. ASSUME RunBubblewrap(h)
     PROVE  \A g \in Helpers : Confinement(g)'
  <2> DEFINE c == Flags(request[h])
  <2>1. /\ pc' = [pc EXCEPT ![h] = "supervising"] /\ UNCHANGED request
        /\ inner' = [inner EXCEPT ![h] = IF request[h].managed THEN "activate" ELSE "restrict"]
        /\ confined' = [confined EXCEPT ![h] = c]
    BY <1>20 DEF RunBubblewrap, Goes
  <2>2. ASSUME NEW g \in Helpers PROVE Confinement(g)'
    <3>1. CASE g = h
      <4>1. /\ pc'[h] = "supervising" /\ inner'[h] \in {"activate", "restrict"}
            /\ confined'[h] = c /\ request'[h] = request[h]
        BY <2>1 DEF TypeInv, TypeOK, ProxyTypeOK
      <4> QED BY <3>1, <4>1
    <3>2. CASE g # h
      <4>1. /\ pc'[g] = pc[g] /\ inner'[g] = inner[g]
            /\ confined'[g] = confined[g] /\ request'[g] = request[g]
        BY <2>1, <3>2 DEF TypeInv, TypeOK, ProxyTypeOK
      <4> QED BY <4>1
    <3> QED BY <3>1, <3>2
  <2> QED BY <2>2
<1>21. ASSUME NEW i \in Indexes, NEW port \in Ports, SpawnLocalBridge(h, i, port)
     PROVE  \A g \in Helpers : Confinement(g)'
  BY <1>21 DEF SpawnLocalBridge, TypeInv, TypeOK, ProxyTypeOK
<1>22. ASSUME RaiseLoopback(h)
     PROVE  \A g \in Helpers : Confinement(g)'
  BY <1>22 DEF RaiseLoopback, TypeInv, TypeOK, ProxyTypeOK
<1>23. ASSUME RewriteEnv(h)
     PROVE  \A g \in Helpers : Confinement(g)'
  BY <1>23 DEF RewriteEnv, TypeInv, TypeOK, ProxyTypeOK
<1>24. ASSUME InnerConfines(h)
     PROVE  \A g \in Helpers : Confinement(g)'
  <2> DEFINE c == Restricted(request[h], confined[h], FALSE, request[h].managed)
  <2>1. /\ inner[h] = "restrict" /\ inner' = [inner EXCEPT ![h] = "exec"]
        /\ confined' = [confined EXCEPT ![h] = c] /\ UNCHANGED <<pc, request>>
    BY <1>24 DEF InnerConfines
  <2>2. pc[h] = "supervising" /\ confined[h] = Flags(request[h])
    BY <2>1 DEF Position
  <2>3. ASSUME NEW g \in Helpers PROVE Confinement(g)'
    <3>1. CASE g = h
      <4>1. /\ pc'[h] = "supervising" /\ inner'[h] = "exec"
            /\ confined'[h] = c /\ request'[h] = request[h]
        BY <2>1, <2>2 DEF TypeInv, TypeOK, ProxyTypeOK
      <4> QED BY <2>2, <3>1, <4>1
    <3>2. CASE g # h
      <4>1. /\ pc'[g] = pc[g] /\ inner'[g] = inner[g]
            /\ confined'[g] = confined[g] /\ request'[g] = request[g]
        BY <2>1, <3>2 DEF TypeInv, TypeOK, ProxyTypeOK
      <4> QED BY <4>1
    <3> QED BY <3>1, <3>2
  <2> QED BY <2>3
<1>25. ASSUME InnerExecs(h)
     PROVE  \A g \in Helpers : Confinement(g)'
  BY <1>25 DEF InnerExecs, TypeInv, TypeOK, ProxyTypeOK
<1>26. ASSUME InnerEnds(h)
     PROVE  \A g \in Helpers : Confinement(g)'
  <2>1. inner' = [inner EXCEPT ![h] = "ended"] /\ UNCHANGED <<pc, request, confined>>
    BY <1>26 DEF InnerEnds
  <2> QED BY <2>1 DEF TypeInv, TypeOK, ProxyTypeOK
<1>27. ASSUME Dies(h), UNCHANGED <<pc, stageVars>>
     PROVE  \A g \in Helpers : Confinement(g)'
  BY <1>27 DEF Dies, TypeInv, TypeOK, ProxyTypeOK
<1> QED
  BY <1>1, <1>2, <1>3, <1>4, <1>5, <1>6, <1>7, <1>8, <1>9, <1>10, <1>11, <1>12, <1>13, <1>14,
       <1>15, <1>16, <1>17, <1>18, <1>19, <1>20, <1>21, <1>22, <1>23, <1>24, <1>25, <1>26, <1>27
       DEF HelperStep, Inside, Prepare, BridgeStep, WorkerStep, Exit, Kill

-----------------------------------------------------------------------------
(* Local bridges and proxy variables                                        *)

\* Every step keeps the local ports apart, and the variables on them
\* (activate_proxy_routes_in_netns).
LEMMA LocalBridgesStep ==
  ASSUME TypeInv, \A g \in Helpers : Confinement(g), \A g \in Helpers : LocalBridges(g), Next
  PROVE  \A g \in Helpers : LocalBridges(g)'
<1> SUFFICES ASSUME NEW h \in Helpers, HelperStep(h) PROVE \A g \in Helpers : LocalBridges(g)'
  BY DEF Next, HelperStep
<1> USE DEF LocalBridges, Rewritten
<1>1. ASSUME NEW p \in Pids, Launch(h, p)
     PROVE  \A g \in Helpers : LocalBridges(g)'
  <2>1. UNCHANGED <<request, inner, local, routes>>
    BY <1>1 DEF Launch, Start, EntryPoint
  <2> QED BY <2>1
<1>2. ASSUME PlanRoutes(h), UNCHANGED stageVars
     PROVE  \A g \in Helpers : LocalBridges(g)'
  <2>1. UNCHANGED <<request, inner, local, routes>>
    BY <1>2 DEF PlanRoutes, Goes
  <2> QED BY <2>1
<1>3. ASSUME NEW n \in Names, SweepEntry(h, n), UNCHANGED stageVars
     PROVE  \A g \in Helpers : LocalBridges(g)'
  <2>1. UNCHANGED <<request, inner, local, routes>>
    BY <1>3 DEF SweepEntry
  <2> QED BY <2>1
<1>4. ASSUME RemoveJudged(h), UNCHANGED stageVars
     PROVE  \A g \in Helpers : LocalBridges(g)'
  <2>1. UNCHANGED <<request, inner, local, routes>>
    BY <1>4 DEF RemoveJudged
  <2> QED BY <2>1
<1>5. ASSUME MakeDir(h), UNCHANGED stageVars
     PROVE  \A g \in Helpers : LocalBridges(g)'
  <2>1. UNCHANGED <<request, inner, local, routes>>
    BY <1>5 DEF MakeDir, Goes
  <2> QED BY <2>1
<1>6. ASSUME ForkBridge(h), UNCHANGED stageVars
     PROVE  \A g \in Helpers : LocalBridges(g)'
  <2>1. UNCHANGED <<request, inner, local, routes>>
    BY <1>6 DEF ForkBridge
  <2> QED BY <2>1
<1>7. ASSUME StartWorker(h), UNCHANGED stageVars
     PROVE  \A g \in Helpers : LocalBridges(g)'
  <2>1. UNCHANGED <<request, inner, local, routes>>
    BY <1>7 DEF StartWorker, Goes
  <2> QED BY <2>1
<1>8. ASSUME NEW e \in Endpoints, Arm(h, e), UNCHANGED stageVars
     PROVE  \A g \in Helpers : LocalBridges(g)'
  <2>1. UNCHANGED <<request, inner, local, routes>>
    BY <1>8 DEF Arm, Becomes
  <2> QED BY <2>1
<1>9. ASSUME NEW e \in Endpoints, Bind(h, e), UNCHANGED stageVars
     PROVE  \A g \in Helpers : LocalBridges(g)'
  <2>1. UNCHANGED <<request, inner, local, routes>>
    BY <1>9 DEF Bind, Becomes
  <2> QED BY <2>1
<1>10. ASSUME NEW e \in Endpoints, Announce(h, e), UNCHANGED stageVars
     PROVE  \A g \in Helpers : LocalBridges(g)'
  <2>1. UNCHANGED <<request, inner, local, routes>>
    BY <1>10 DEF Announce, Becomes
  <2> QED BY <2>1
<1>11. ASSUME NEW e \in Endpoints, BridgeTerminated(h, e), UNCHANGED stageVars
     PROVE  \A g \in Helpers : LocalBridges(g)'
  <2>1. UNCHANGED <<request, inner, local, routes>>
    BY <1>11 DEF BridgeTerminated, Becomes
  <2> QED BY <2>1
<1>12. ASSUME NEW e \in Endpoints, ReapBridge(h, e), UNCHANGED stageVars
     PROVE  \A g \in Helpers : LocalBridges(g)'
  <2>1. UNCHANGED <<request, inner, local, routes>>
    BY <1>12 DEF ReapBridge, Becomes
  <2> QED BY <2>1
<1>13. ASSUME NEW e \in Endpoints, BridgeFails(h, e), UNCHANGED stageVars
     PROVE  \A g \in Helpers : LocalBridges(g)'
  <2>1. UNCHANGED <<request, inner, local, routes>>
    BY <1>13 DEF BridgeFails, Becomes
  <2> QED BY <2>1
<1>14. ASSUME WorkerLooks(h), UNCHANGED stageVars
     PROVE  \A g \in Helpers : LocalBridges(g)'
  <2>1. UNCHANGED <<request, inner, local, routes>>
    BY <1>14 DEF WorkerLooks
  <2> QED BY <2>1
<1>15. ASSUME WorkerRemoves(h), UNCHANGED stageVars
     PROVE  \A g \in Helpers : LocalBridges(g)'
  <2>1. UNCHANGED <<request, inner, local, routes>>
    BY <1>15 DEF WorkerRemoves
  <2> QED BY <2>1
<1>16. ASSUME KillWorker(h), UNCHANGED stageVars
     PROVE  \A g \in Helpers : LocalBridges(g)'
  <2>1. UNCHANGED <<request, inner, local, routes>>
    BY <1>16 DEF KillWorker
  <2> QED BY <2>1
<1>17. ASSUME Reap(h), UNCHANGED stageVars
     PROVE  \A g \in Helpers : LocalBridges(g)'
  <2>1. UNCHANGED <<request, inner, local, routes>>
    BY <1>17 DEF Reap
  <2> QED BY <2>1
<1>18. ASSUME ConfineAndExec(h)
     PROVE  \A g \in Helpers : LocalBridges(g)'
  <2>1. UNCHANGED <<request, inner, local, routes>>
    BY <1>18 DEF ConfineAndExec, Goes
  <2> QED BY <2>1
<1>19. ASSUME Preflight(h)
     PROVE  \A g \in Helpers : LocalBridges(g)'
  <2>1. UNCHANGED <<request, inner, local, routes>>
    BY <1>19 DEF Preflight, Goes
  <2> QED BY <2>1
<1>20. ASSUME RunBubblewrap(h)
     PROVE  \A g \in Helpers : LocalBridges(g)'
  <2>1. /\ inner' = [inner EXCEPT ![h] = IF request[h].managed THEN "activate" ELSE "restrict"]
        /\ UNCHANGED <<request, local, routes>>
    BY <1>20 DEF RunBubblewrap
  <2> QED BY <2>1 DEF TypeInv, TypeOK, ProxyTypeOK
<1>21. ASSUME NEW i \in Indexes, NEW port \in Ports, SpawnLocalBridge(h, i, port)
     PROVE  \A g \in Helpers : LocalBridges(g)'
  <2>1. /\ inner[h] = "activate" /\ port \notin PortsInUse(h)
        /\ UNCHANGED <<request, inner, routes>>
        /\ local' = [local EXCEPT ![h][i] = [port |-> port, filter |-> confined[h].filter]]
    BY <1>21 DEF SpawnLocalBridge
  <2>2. confined[h].filter = "none"
    BY <2>1 DEF Confinement, Flags, FilesystemFlags, FullFilesystemFlags, Unconfined
  <2>3. local' = [local EXCEPT ![h][i] = [port |-> port, filter |-> "none"]]
    BY <2>1, <2>2
  <2>4. /\ local'[h] = [local[h] EXCEPT ![i] = [port |-> port, filter |-> "none"]]
        /\ \A g \in Helpers : g # h => local'[g] = local[g]
    BY <2>3 DEF TypeInv, TypeOK, ProxyTypeOK
  <2>5. \A g \in Helpers : g # h => LocalBridges(g)'
    BY <2>1, <2>4
  <2>6. /\ local'[h][i] = [port |-> port, filter |-> "none"]
        /\ \A j \in Indexes : j # i => local'[h][j] = local[h][j] /\ local[h][j].port # port
    BY <2>1, <2>4 DEF TypeInv, TypeOK, ProxyTypeOK, PortsInUse
  <2>7. LocalBridges(h)'
    BY <2>1, <2>6
  <2> QED BY <2>5, <2>7
<1>22. ASSUME RaiseLoopback(h)
     PROVE  \A g \in Helpers : LocalBridges(g)'
  <2>1. UNCHANGED <<request, inner, local, routes>>
    BY <1>22 DEF RaiseLoopback
  <2> QED BY <2>1
<1>23. ASSUME RewriteEnv(h)
     PROVE  \A g \in Helpers : LocalBridges(g)'
  <2>1. /\ \A i \in Paths(h) : local[h][i] # NoBridgeAt
        /\ routes' = [routes EXCEPT ![h] = [k \in Routed(h) |-> Rewritten(h, k)]]
        /\ inner' = [inner EXCEPT ![h] = "restrict"] /\ UNCHANGED <<request, local>>
    BY <1>23 DEF RewriteEnv
  <2>2. ASSUME NEW k \in Routed(h) PROVE Rewritten(h, k) # NoPort /\ routes'[h][k] = Rewritten(h, k)
    <3>1. Env[h][k] \in EndpointsOf(h)
      BY DEF EndpointsOf
    <3>2. SocketIndex(h, Env[h][k]) \in Indexes /\ SocketIndex(h, Env[h][k]) \in Paths(h)
      BY <3>1, SocketIndexInRange DEF Paths
    <3>3. Rewritten(h, k) # NoPort
      BY <2>1, <3>2 DEF TypeInv, TypeOK, ProxyTypeOK, Rewritten, NoBridgeAt
    <3>4. routes'[h] = [j \in Routed(h) |-> Rewritten(h, j)]
      BY <2>1 DEF TypeInv, TypeOK, ProxyTypeOK
    <3> QED BY <3>3, <3>4
  <2>3. LocalBridges(h)'
    BY <2>1, <2>2 DEF Rewritten
  <2>4. \A g \in Helpers : g # h => routes'[g] = routes[g] /\ inner'[g] = inner[g]
    BY <2>1 DEF TypeInv, TypeOK, ProxyTypeOK
  <2>5. \A g \in Helpers : g # h => LocalBridges(g)'
    BY <2>1, <2>4 DEF Rewritten
  <2> QED BY <2>3, <2>5
<1>24. ASSUME InnerConfines(h)
     PROVE  \A g \in Helpers : LocalBridges(g)'
  <2>1. /\ inner[h] = "restrict" /\ inner' = [inner EXCEPT ![h] = "exec"]
        /\ UNCHANGED <<request, local, routes>>
    BY <1>24 DEF InnerConfines
  <2> QED BY <2>1 DEF TypeInv, TypeOK, ProxyTypeOK
<1>25. ASSUME InnerExecs(h)
     PROVE  \A g \in Helpers : LocalBridges(g)'
  <2>1. /\ inner[h] = "exec" /\ inner' = [inner EXCEPT ![h] = "command"]
        /\ UNCHANGED <<request, local, routes>>
    BY <1>25 DEF InnerExecs
  <2> QED BY <2>1 DEF TypeInv, TypeOK, ProxyTypeOK
<1>26. ASSUME InnerEnds(h)
     PROVE  \A g \in Helpers : LocalBridges(g)'
  <2>1. /\ inner' = [inner EXCEPT ![h] = "ended"]
        /\ local' = [local EXCEPT ![h] = [i \in Indexes |-> NoBridgeAt]]
        /\ UNCHANGED <<request, routes>>
    BY <1>26 DEF InnerEnds
  <2> QED BY <2>1 DEF TypeInv, TypeOK, ProxyTypeOK, NoBridgeAt
<1>27. ASSUME Dies(h), UNCHANGED <<pc, stageVars>>
     PROVE  \A g \in Helpers : LocalBridges(g)'
  <2>1. UNCHANGED <<request, inner, local, routes>>
    BY <1>27 DEF Dies
  <2> QED BY <2>1
<1> QED
  BY <1>1, <1>2, <1>3, <1>4, <1>5, <1>6, <1>7, <1>8, <1>9, <1>10, <1>11, <1>12, <1>13, <1>14,
       <1>15, <1>16, <1>17, <1>18, <1>19, <1>20, <1>21, <1>22, <1>23, <1>24, <1>25, <1>26, <1>27
       DEF HelperStep, Inside, Prepare, BridgeStep, WorkerStep, Exit, Kill

-----------------------------------------------------------------------------
(* Directories, bridges and workers                                         *)

\* A change of one bridge leaves the others as they are.
LEMMA BridgeBecomes ==
  ASSUME TypeInv, NEW h \in Helpers, NEW e \in Endpoints, NEW state, Becomes(h, e, state)
  PROVE  /\ br'[<<h, e>>] = state
         /\ \A g \in Helpers, f \in Endpoints : <<g, f>> # <<h, e>> => br'[<<g, f>>] = br[<<g, f>>]
BY DEF TypeInv, TypeOK, ProxyTypeOK, Becomes, Bridges

\* What a bridge does, and what is done to it, leaves the order of things alone.
LEMMA BridgingOfABridge ==
  ASSUME TypeInv, \A g \in Helpers : Bridging(g), NEW h \in Helpers, NEW e \in Endpoints,
         NEW state, Becomes(h, e, state), Alive(h) => state # "gone", state # "none",
         br[<<h, e>>] # "none", announced \subseteq announced',
         announced' \subseteq announced \cup {<<h, e>>},
         UNCHANGED <<proc, pc, dir, worker, request>>
  PROVE  \A g \in Helpers : Bridging(g)'
<1>1. /\ br'[<<h, e>>] = state
      /\ \A g \in Helpers, f \in Endpoints : <<g, f>> # <<h, e>> => br'[<<g, f>>] = br[<<g, f>>]
  BY BridgeBecomes
<1> SUFFICES ASSUME NEW g \in Helpers PROVE Bridging(g)'
  OBVIOUS
<1>2. ASSUME NEW f \in Endpoints
      PROVE  /\ br'[<<g, f>>] # "none" => f \in EndpointsOf(g) /\ dir[g] # NoName
             /\ <<g, f>> \in announced' => br'[<<g, f>>] # "none"
             /\ Alive(g) => br'[<<g, f>>] # "gone"
  BY <1>1 DEF Bridging
<1> QED BY <1>2 DEF Bridging, Alive

\* Every step keeps the order of directory, bridges, announcements and worker
\* (prepare_host_proxy_route_spec).
LEMMA BridgingStep ==
  ASSUME TypeInv, \A g \in Helpers : Position(g), \A g \in Helpers : Bridging(g), Next
  PROVE  \A g \in Helpers : Bridging(g)'
<1> SUFFICES ASSUME NEW h \in Helpers, HelperStep(h) PROVE \A g \in Helpers : Bridging(g)'
  BY DEF Next, HelperStep
<1> USE DEF Bridging, Alive
<1>1. ASSUME NEW p \in Pids, Launch(h, p)
     PROVE  \A g \in Helpers : Bridging(g)'
  <2>1. /\ proc[h] = "absent" /\ proc' = [proc EXCEPT ![h] = "alive"]
        /\ pc' = [pc EXCEPT ![h] = EntryPoint(request[h])]
        /\ UNCHANGED <<dir, worker, br, announced, request>>
    BY <1>1 DEF Launch, Start
  <2>2. EntryPoint(request[h]) \in {"here", "plan", "probe"}
    BY DEF EntryPoint
  <2>3. dir[h] = NoName
    BY <2>1 DEF Position
  <2> QED BY <2>1, <2>2, <2>3 DEF TypeInv, TypeOK, ProxyTypeOK
<1>2. ASSUME PlanRoutes(h), UNCHANGED stageVars
     PROVE  \A g \in Helpers : Bridging(g)'
  BY <1>2 DEF PlanRoutes, Goes, TypeInv, TypeOK, ProxyTypeOK
<1>3. ASSUME NEW n \in Names, SweepEntry(h, n), UNCHANGED stageVars
     PROVE  \A g \in Helpers : Bridging(g)'
  BY <1>3 DEF SweepEntry, TypeInv, TypeOK, ProxyTypeOK
<1>4. ASSUME RemoveJudged(h), UNCHANGED stageVars
     PROVE  \A g \in Helpers : Bridging(g)'
  BY <1>4 DEF RemoveJudged, TypeInv, TypeOK, ProxyTypeOK
<1>5. ASSUME MakeDir(h), UNCHANGED stageVars
     PROVE  \A g \in Helpers : Bridging(g)'
  <2>1. PICK n \in Names : dir' = [dir EXCEPT ![h] = n]
    BY <1>5, FreeName
  <2>2. /\ pc[h] = "sweep" /\ pc' = [pc EXCEPT ![h] = "spawn"]
        /\ UNCHANGED <<proc, worker, br, announced, request>>
    BY <1>5 DEF MakeDir, Goes
  <2> QED BY <2>1, <2>2, ProxyAssumption DEF TypeInv, TypeOK, ProxyTypeOK
<1>6. ASSUME ForkBridge(h), UNCHANGED stageVars
     PROVE  \A g \in Helpers : Bridging(g)'
  <2> DEFINE next == EndpointsOf(h) \ Spawned(h)
             f == Min(next)
  <2>1. /\ pc[h] = "spawn" /\ next # {} /\ br' = [br EXCEPT ![<<h, f>>] = "forked"]
        /\ UNCHANGED <<proc, pc, dir, worker, announced, request>>
    BY <1>6 DEF ForkBridge
  <2>2. next \subseteq Endpoints /\ next \subseteq Nat
    BY EndpointsAreFinite, ProxyAssumption
  <2>3. f \in next
    BY <2>1, <2>2, MinIsIn
  <2>4. f \in EndpointsOf(h) /\ f \in Endpoints
    BY <2>2, <2>3
  <2> HIDE DEF f, next
  <2>5. Becomes(h, f, "forked")
    BY <2>1 DEF Becomes
  <2>6. /\ br'[<<h, f>>] = "forked"
        /\ \A g \in Helpers, e \in Endpoints : <<g, e>> # <<h, f>> => br'[<<g, e>>] = br[<<g, e>>]
    BY <2>4, <2>5, BridgeBecomes
  <2> QED BY <2>1, <2>4, <2>6 DEF TypeInv, TypeOK, ProxyTypeOK
<1>7. ASSUME StartWorker(h), UNCHANGED stageVars
     PROVE  \A g \in Helpers : Bridging(g)'
  <2>1. /\ EndpointsOf(h) = Spawned(h) /\ AllAnnounced(h) /\ pc[h] = "spawn"
        /\ pc' = [pc EXCEPT ![h] = "prepared"] /\ worker' = [worker EXCEPT ![h] = "waiting"]
        /\ UNCHANGED <<proc, dir, br, announced, request>>
    BY <1>7 DEF StartWorker, Goes
  <2>2. \A e \in EndpointsOf(h) : <<h, e>> \in announced
    BY <2>1 DEF AllAnnounced
  <2> QED BY <2>1, <2>2 DEF TypeInv, TypeOK, ProxyTypeOK
<1>8. ASSUME NEW e \in Endpoints, Arm(h, e), UNCHANGED stageVars
     PROVE  \A g \in Helpers : Bridging(g)'
  <2>1. PICK state \in {"gone", "armed"} :
           Becomes(h, e, state) /\ (Alive(h) => state # "gone")
    BY <1>8 DEF Arm
  <2>2. /\ br[<<h, e>>] # "none" /\ UNCHANGED <<proc, pc, dir, worker, request>>
        /\ announced \subseteq announced' /\ announced' \subseteq announced \cup {<<h, e>>}
    BY <1>8 DEF Arm, BridgeRuns
  <2> QED BY <2>1, <2>2, BridgingOfABridge
<1>9. ASSUME NEW e \in Endpoints, Bind(h, e), UNCHANGED stageVars
     PROVE  \A g \in Helpers : Bridging(g)'
  <2>1. PICK state \in {"zombie", "gone", "bound"} :
           Becomes(h, e, state) /\ (Alive(h) => state # "gone")
    BY <1>9 DEF Bind
  <2>2. /\ br[<<h, e>>] # "none" /\ UNCHANGED <<proc, pc, dir, worker, request>>
        /\ announced \subseteq announced' /\ announced' \subseteq announced \cup {<<h, e>>}
    BY <1>9 DEF Bind, BridgeRuns
  <2> QED BY <2>1, <2>2, BridgingOfABridge
<1>10. ASSUME NEW e \in Endpoints, Announce(h, e), UNCHANGED stageVars
     PROVE  \A g \in Helpers : Bridging(g)'
  <2>1. PICK state \in {"gone", "serving"} :
           Becomes(h, e, state) /\ (Alive(h) => state # "gone")
    BY <1>10 DEF Announce
  <2>2. /\ br[<<h, e>>] # "none" /\ UNCHANGED <<proc, pc, dir, worker, request>>
        /\ announced \subseteq announced' /\ announced' \subseteq announced \cup {<<h, e>>}
    BY <1>10 DEF Announce, BridgeRuns
  <2> QED BY <2>1, <2>2, BridgingOfABridge
<1>11. ASSUME NEW e \in Endpoints, BridgeTerminated(h, e), UNCHANGED stageVars
     PROVE  \A g \in Helpers : Bridging(g)'
  <2>1. PICK state \in {"gone"} :
           Becomes(h, e, state) /\ (Alive(h) => state # "gone")
    BY <1>11 DEF BridgeTerminated
  <2>2. /\ br[<<h, e>>] # "none" /\ UNCHANGED <<proc, pc, dir, worker, request>>
        /\ announced \subseteq announced' /\ announced' \subseteq announced \cup {<<h, e>>}
    BY <1>11 DEF BridgeTerminated, BridgeRuns
  <2> QED BY <2>1, <2>2, BridgingOfABridge
<1>12. ASSUME NEW e \in Endpoints, ReapBridge(h, e), UNCHANGED stageVars
     PROVE  \A g \in Helpers : Bridging(g)'
  <2>1. PICK state \in {"gone"} :
           Becomes(h, e, state) /\ (Alive(h) => state # "gone")
    BY <1>12 DEF ReapBridge
  <2>2. /\ br[<<h, e>>] # "none" /\ UNCHANGED <<proc, pc, dir, worker, request>>
        /\ announced \subseteq announced' /\ announced' \subseteq announced \cup {<<h, e>>}
    BY <1>12 DEF ReapBridge, BridgeRuns
  <2> QED BY <2>1, <2>2, BridgingOfABridge
<1>13. ASSUME NEW e \in Endpoints, BridgeFails(h, e), UNCHANGED stageVars
     PROVE  \A g \in Helpers : Bridging(g)'
  <2>1. PICK state \in {"zombie"} :
           Becomes(h, e, state) /\ (Alive(h) => state # "gone")
    BY <1>13 DEF BridgeFails
  <2>2. /\ br[<<h, e>>] # "none" /\ UNCHANGED <<proc, pc, dir, worker, request>>
        /\ announced \subseteq announced' /\ announced' \subseteq announced \cup {<<h, e>>}
    BY <1>13 DEF BridgeFails, BridgeRuns
  <2> QED BY <2>1, <2>2, BridgingOfABridge
<1>14. ASSUME WorkerLooks(h), UNCHANGED stageVars
     PROVE  \A g \in Helpers : Bridging(g)'
  <2>1. /\ worker[h] = "waiting" /\ ~WorkerWaits(h) /\ worker' = [worker EXCEPT ![h] = "removing"]
        /\ UNCHANGED <<proc, pc, dir, br, announced, request>>
    BY <1>14 DEF WorkerLooks
  <2>2. PICK k \in Routed(h) : TRUE
    BY <2>1
  <2>3. Env[h][k] \in EndpointsOf(h) /\ Env[h][k] \in Endpoints
    BY EndpointsAreFinite DEF EndpointsOf
  <2>4. <<h, Env[h][k]>> \in announced
    BY <2>1, <2>3
  <2>5. br[<<h, Env[h][k]>>] # "none"
    BY <2>3, <2>4
  <2>6. br[<<h, Env[h][k]>>] = "gone"
    BY <2>1, <2>3, <2>5 DEF WorkerWaits, BridgeCountsAlive
  <2>7. ~Alive(h)
    BY <2>3, <2>6
  <2> QED BY <2>1, <2>7 DEF TypeInv, TypeOK, ProxyTypeOK
<1>15. ASSUME WorkerRemoves(h), UNCHANGED stageVars
     PROVE  \A g \in Helpers : Bridging(g)'
  BY <1>15 DEF WorkerRemoves, TypeInv, TypeOK, ProxyTypeOK
<1>16. ASSUME KillWorker(h), UNCHANGED stageVars
     PROVE  \A g \in Helpers : Bridging(g)'
  BY <1>16 DEF KillWorker, TypeInv, TypeOK, ProxyTypeOK
<1>17. ASSUME Reap(h), UNCHANGED stageVars
     PROVE  \A g \in Helpers : Bridging(g)'
  BY <1>17 DEF Reap, TypeInv, TypeOK, ProxyTypeOK
<1>18. ASSUME ConfineAndExec(h)
     PROVE  \A g \in Helpers : Bridging(g)'
  BY <1>18 DEF ConfineAndExec, Goes, TypeInv, TypeOK, ProxyTypeOK
<1>19. ASSUME Preflight(h)
     PROVE  \A g \in Helpers : Bridging(g)'
  <2>1. /\ pc[h] \in {"prepared", "probe"} /\ pc' = [pc EXCEPT ![h] = "launch"]
        /\ UNCHANGED <<proc, dir, worker, br, announced, request>>
    BY <1>19 DEF Preflight, Goes
  <2>2. pc[h] = "probe" => ~request[h].managed
    BY DEF Position, EntryPoint
  <2> QED BY <2>1, <2>2 DEF TypeInv, TypeOK, ProxyTypeOK
<1>20. ASSUME RunBubblewrap(h)
     PROVE  \A g \in Helpers : Bridging(g)'
  BY <1>20 DEF RunBubblewrap, Goes, TypeInv, TypeOK, ProxyTypeOK
<1>21. ASSUME NEW i \in Indexes, NEW port \in Ports, SpawnLocalBridge(h, i, port)
     PROVE  \A g \in Helpers : Bridging(g)'
  BY <1>21 DEF SpawnLocalBridge, TypeInv, TypeOK, ProxyTypeOK
<1>22. ASSUME RaiseLoopback(h)
     PROVE  \A g \in Helpers : Bridging(g)'
  BY <1>22 DEF RaiseLoopback, TypeInv, TypeOK, ProxyTypeOK
<1>23. ASSUME RewriteEnv(h)
     PROVE  \A g \in Helpers : Bridging(g)'
  BY <1>23 DEF RewriteEnv, TypeInv, TypeOK, ProxyTypeOK
<1>24. ASSUME InnerConfines(h)
     PROVE  \A g \in Helpers : Bridging(g)'
  BY <1>24 DEF InnerConfines, TypeInv, TypeOK, ProxyTypeOK
<1>25. ASSUME InnerExecs(h)
     PROVE  \A g \in Helpers : Bridging(g)'
  BY <1>25 DEF InnerExecs, TypeInv, TypeOK, ProxyTypeOK
<1>26. ASSUME InnerEnds(h)
     PROVE  \A g \in Helpers : Bridging(g)'
  BY <1>26 DEF InnerEnds, TypeInv, TypeOK, ProxyTypeOK
<1>27. ASSUME Dies(h), UNCHANGED <<pc, stageVars>>
     PROVE  \A g \in Helpers : Bridging(g)'
  BY <1>27 DEF Dies, TypeInv, TypeOK, ProxyTypeOK
<1> QED
  BY <1>1, <1>2, <1>3, <1>4, <1>5, <1>6, <1>7, <1>8, <1>9, <1>10, <1>11, <1>12, <1>13, <1>14,
       <1>15, <1>16, <1>17, <1>18, <1>19, <1>20, <1>21, <1>22, <1>23, <1>24, <1>25, <1>26, <1>27
       DEF HelperStep, Inside, Prepare, BridgeStep, WorkerStep, Exit, Kill

-----------------------------------------------------------------------------
(* Pids and the names that carry them                                       *)

\* A bridge that binds changes one socket in one directory.
LEMMA BindKeeps ==
  ASSUME TypeInv, NEW h \in Helpers, NEW e \in Endpoints, Bind(h, e), NEW n \in Names
  PROVE  /\ dirs[n] = NoDir => dirs'[n] = NoDir
         /\ dirs[n] # NoDir =>
              /\ dirs'[n] # NoDir /\ dirs'[n].by = dirs[n].by
              /\ \A i \in Indexes :
                   dirs'[n].sock[i] = IF n = dir[h] /\ i = SocketIndex(h, e) THEN <<h, e>>
                                      ELSE dirs[n].sock[i]
<1>1. CASE dirs[dir[h]] = NoDir
  <2>1. UNCHANGED dirs
    BY <1>1 DEF Bind
  <2>2. n # dir[h] \/ dirs[n] = NoDir
    BY <1>1
  <2> QED BY <2>1, <2>2
<1>2. CASE dirs[dir[h]] # NoDir
  <2>1. dirs' = [dirs EXCEPT ![dir[h]].sock[SocketIndex(h, e)] = <<h, e>>]
    BY <1>2 DEF Bind
  <2>2. CASE n # dir[h]
    BY <2>1, <2>2 DEF TypeInv, TypeOK, ProxyTypeOK
  <2>3. CASE n = dir[h]
    <3>1. dirs[n] \in Directories
      BY <1>2, <2>3 DEF TypeInv, TypeOK, ProxyTypeOK
    <3>2. dirs'[n] = [dirs[n] EXCEPT !.sock[SocketIndex(h, e)] = <<h, e>>]
      BY <2>1, <2>3 DEF TypeInv, TypeOK, ProxyTypeOK
    <3>3. <<h, e>> \in Bridges
      BY DEF Bridges
    <3>4. dirs'[n] \in Directories
      BY <3>1, <3>2, <3>3 DEF Directories
    <3> QED BY <2>3, <3>1, <3>2, <3>4, ProxyAssumption DEF Directories
  <2> QED BY <2>2, <2>3
<1> QED BY <1>1, <1>2

\* No step gives a helper the pid of another one that runs or is a zombie.
LEMMA PidsApartStep ==
  ASSUME TypeInv, PidsApart, Next
  PROVE  PidsApart'
<1> SUFFICES ASSUME NEW h \in Helpers, HelperStep(h) PROVE PidsApart'
  BY DEF Next, HelperStep
<1> USE DEF PidsApart, Alive
<1>1. ASSUME NEW p \in Pids, Launch(h, p)
     PROVE  PidsApart'
  BY <1>1 DEF Launch, Start, EntryPoint, PidInUse, TypeInv, TypeOK, ProxyTypeOK
<1>2. ASSUME PlanRoutes(h), UNCHANGED stageVars
     PROVE  PidsApart'
  <2>1. UNCHANGED <<proc, pid>>
    BY <1>2 DEF PlanRoutes, Goes
  <2> QED BY <2>1
<1>3. ASSUME NEW n \in Names, SweepEntry(h, n), UNCHANGED stageVars
     PROVE  PidsApart'
  <2>1. UNCHANGED <<proc, pid>>
    BY <1>3 DEF SweepEntry
  <2> QED BY <2>1
<1>4. ASSUME RemoveJudged(h), UNCHANGED stageVars
     PROVE  PidsApart'
  <2>1. UNCHANGED <<proc, pid>>
    BY <1>4 DEF RemoveJudged
  <2> QED BY <2>1
<1>5. ASSUME MakeDir(h), UNCHANGED stageVars
     PROVE  PidsApart'
  <2>1. UNCHANGED <<proc, pid>>
    BY <1>5 DEF MakeDir, Goes
  <2> QED BY <2>1
<1>6. ASSUME ForkBridge(h), UNCHANGED stageVars
     PROVE  PidsApart'
  <2>1. UNCHANGED <<proc, pid>>
    BY <1>6 DEF ForkBridge
  <2> QED BY <2>1
<1>7. ASSUME StartWorker(h), UNCHANGED stageVars
     PROVE  PidsApart'
  <2>1. UNCHANGED <<proc, pid>>
    BY <1>7 DEF StartWorker, Goes
  <2> QED BY <2>1
<1>8. ASSUME NEW e \in Endpoints, Arm(h, e), UNCHANGED stageVars
     PROVE  PidsApart'
  <2>1. UNCHANGED <<proc, pid>>
    BY <1>8 DEF Arm, Becomes
  <2> QED BY <2>1
<1>9. ASSUME NEW e \in Endpoints, Bind(h, e), UNCHANGED stageVars
     PROVE  PidsApart'
  <2>1. UNCHANGED <<proc, pid>>
    BY <1>9 DEF Bind, Becomes
  <2> QED BY <2>1
<1>10. ASSUME NEW e \in Endpoints, Announce(h, e), UNCHANGED stageVars
     PROVE  PidsApart'
  <2>1. UNCHANGED <<proc, pid>>
    BY <1>10 DEF Announce, Becomes
  <2> QED BY <2>1
<1>11. ASSUME NEW e \in Endpoints, BridgeTerminated(h, e), UNCHANGED stageVars
     PROVE  PidsApart'
  <2>1. UNCHANGED <<proc, pid>>
    BY <1>11 DEF BridgeTerminated, Becomes
  <2> QED BY <2>1
<1>12. ASSUME NEW e \in Endpoints, ReapBridge(h, e), UNCHANGED stageVars
     PROVE  PidsApart'
  <2>1. UNCHANGED <<proc, pid>>
    BY <1>12 DEF ReapBridge, Becomes
  <2> QED BY <2>1
<1>13. ASSUME NEW e \in Endpoints, BridgeFails(h, e), UNCHANGED stageVars
     PROVE  PidsApart'
  <2>1. UNCHANGED <<proc, pid>>
    BY <1>13 DEF BridgeFails, Becomes
  <2> QED BY <2>1
<1>14. ASSUME WorkerLooks(h), UNCHANGED stageVars
     PROVE  PidsApart'
  <2>1. UNCHANGED <<proc, pid>>
    BY <1>14 DEF WorkerLooks
  <2> QED BY <2>1
<1>15. ASSUME WorkerRemoves(h), UNCHANGED stageVars
     PROVE  PidsApart'
  <2>1. UNCHANGED <<proc, pid>>
    BY <1>15 DEF WorkerRemoves
  <2> QED BY <2>1
<1>16. ASSUME KillWorker(h), UNCHANGED stageVars
     PROVE  PidsApart'
  <2>1. UNCHANGED <<proc, pid>>
    BY <1>16 DEF KillWorker
  <2> QED BY <2>1
<1>17. ASSUME Reap(h), UNCHANGED stageVars
     PROVE  PidsApart'
  BY <1>17 DEF Reap, TypeInv, TypeOK, ProxyTypeOK
<1>18. ASSUME ConfineAndExec(h)
     PROVE  PidsApart'
  <2>1. UNCHANGED <<proc, pid>>
    BY <1>18 DEF ConfineAndExec, Goes
  <2> QED BY <2>1
<1>19. ASSUME Preflight(h)
     PROVE  PidsApart'
  <2>1. UNCHANGED <<proc, pid>>
    BY <1>19 DEF Preflight, Goes
  <2> QED BY <2>1
<1>20. ASSUME RunBubblewrap(h)
     PROVE  PidsApart'
  <2>1. UNCHANGED <<proc, pid>>
    BY <1>20 DEF RunBubblewrap, Goes
  <2> QED BY <2>1
<1>21. ASSUME NEW i \in Indexes, NEW port \in Ports, SpawnLocalBridge(h, i, port)
     PROVE  PidsApart'
  <2>1. UNCHANGED <<proc, pid>>
    BY <1>21 DEF SpawnLocalBridge
  <2> QED BY <2>1
<1>22. ASSUME RaiseLoopback(h)
     PROVE  PidsApart'
  <2>1. UNCHANGED <<proc, pid>>
    BY <1>22 DEF RaiseLoopback
  <2> QED BY <2>1
<1>23. ASSUME RewriteEnv(h)
     PROVE  PidsApart'
  <2>1. UNCHANGED <<proc, pid>>
    BY <1>23 DEF RewriteEnv
  <2> QED BY <2>1
<1>24. ASSUME InnerConfines(h)
     PROVE  PidsApart'
  <2>1. UNCHANGED <<proc, pid>>
    BY <1>24 DEF InnerConfines
  <2> QED BY <2>1
<1>25. ASSUME InnerExecs(h)
     PROVE  PidsApart'
  <2>1. UNCHANGED <<proc, pid>>
    BY <1>25 DEF InnerExecs
  <2> QED BY <2>1
<1>26. ASSUME InnerEnds(h)
     PROVE  PidsApart'
  <2>1. UNCHANGED <<proc, pid>>
    BY <1>26 DEF InnerEnds
  <2> QED BY <2>1
<1>27. ASSUME Dies(h), UNCHANGED <<pc, stageVars>>
     PROVE  PidsApart'
  BY <1>27 DEF Dies, TypeInv, TypeOK, ProxyTypeOK
<1> QED
  BY <1>1, <1>2, <1>3, <1>4, <1>5, <1>6, <1>7, <1>8, <1>9, <1>10, <1>11, <1>12, <1>13, <1>14,
       <1>15, <1>16, <1>17, <1>18, <1>19, <1>20, <1>21, <1>22, <1>23, <1>24, <1>25, <1>26, <1>27
       DEF HelperStep, Inside, Prepare, BridgeStep, WorkerStep, Exit, Kill

\* Every step keeps what is known of the names in hand: lists, verdicts and
\* directories are of pids that named a directory before.
LEMMA NamesAreSoiledStep ==
  ASSUME TypeInv, \A g \in Helpers : Position(g), \A g \in Helpers : Bridging(g),
         NamesAreSoiled, Next
  PROVE  NamesAreSoiled'
<1> SUFFICES ASSUME NEW h \in Helpers, HelperStep(h) PROVE NamesAreSoiled'
  BY DEF Next, HelperStep
<1> USE DEF NamesAreSoiled, Alive
<1>1. ASSUME NEW p \in Pids, Launch(h, p)
     PROVE  NamesAreSoiled'
  <2>1. /\ proc[h] = "absent" /\ pid' = [pid EXCEPT ![h] = p]
        /\ UNCHANGED <<dirs, soiled, scan, judged, dir>>
    BY <1>1 DEF Launch, Start
  <2>2. dir[h] = NoName
    BY <2>1 DEF Position, Bridging
  <2> QED BY <2>1, <2>2 DEF TypeInv, TypeOK, ProxyTypeOK
<1>2. ASSUME PlanRoutes(h), UNCHANGED stageVars
     PROVE  NamesAreSoiled'
  BY <1>2 DEF PlanRoutes, Goes, TypeInv, TypeOK, ProxyTypeOK
<1>3. ASSUME NEW n \in Names, SweepEntry(h, n), UNCHANGED stageVars
     PROVE  NamesAreSoiled'
  BY <1>3 DEF SweepEntry, TypeInv, TypeOK, ProxyTypeOK
<1>4. ASSUME RemoveJudged(h), UNCHANGED stageVars
     PROVE  NamesAreSoiled'
  BY <1>4 DEF RemoveJudged, TypeInv, TypeOK, ProxyTypeOK
<1>5. ASSUME MakeDir(h), UNCHANGED stageVars
     PROVE  NamesAreSoiled'
  <2>1. PICK n \in Names : /\ dir' = [dir EXCEPT ![h] = n] /\ n[1] = pid[h]
                            /\ dirs' = [dirs EXCEPT ![n] = EmptyDir(h)]
    BY <1>5, FreeName
  <2>2. soiled' = soiled \cup {pid[h]} /\ UNCHANGED <<pid, scan, judged>>
    BY <1>5 DEF MakeDir
  <2> QED BY <2>1, <2>2 DEF TypeInv, TypeOK, ProxyTypeOK
<1>6. ASSUME ForkBridge(h), UNCHANGED stageVars
     PROVE  NamesAreSoiled'
  <2>1. UNCHANGED <<pid, dirs, soiled, scan, judged, dir>>
    BY <1>6 DEF ForkBridge
  <2> QED BY <2>1
<1>7. ASSUME StartWorker(h), UNCHANGED stageVars
     PROVE  NamesAreSoiled'
  <2>1. UNCHANGED <<pid, dirs, soiled, scan, judged, dir>>
    BY <1>7 DEF StartWorker, Goes
  <2> QED BY <2>1
<1>8. ASSUME NEW e \in Endpoints, Arm(h, e), UNCHANGED stageVars
     PROVE  NamesAreSoiled'
  <2>1. UNCHANGED <<pid, dirs, soiled, scan, judged, dir>>
    BY <1>8 DEF Arm, Becomes
  <2> QED BY <2>1
<1>9. ASSUME NEW e \in Endpoints, Bind(h, e), UNCHANGED stageVars
     PROVE  NamesAreSoiled'
  <2>1. \A n \in Names : dirs'[n] # NoDir => dirs[n] # NoDir
    BY <1>9, BindKeeps
  <2>2. UNCHANGED <<pid, soiled, scan, judged, dir>>
    BY <1>9 DEF Bind
  <2> QED BY <2>1, <2>2
<1>10. ASSUME NEW e \in Endpoints, Announce(h, e), UNCHANGED stageVars
     PROVE  NamesAreSoiled'
  <2>1. UNCHANGED <<pid, dirs, soiled, scan, judged, dir>>
    BY <1>10 DEF Announce, Becomes
  <2> QED BY <2>1
<1>11. ASSUME NEW e \in Endpoints, BridgeTerminated(h, e), UNCHANGED stageVars
     PROVE  NamesAreSoiled'
  <2>1. UNCHANGED <<pid, dirs, soiled, scan, judged, dir>>
    BY <1>11 DEF BridgeTerminated, Becomes
  <2> QED BY <2>1
<1>12. ASSUME NEW e \in Endpoints, ReapBridge(h, e), UNCHANGED stageVars
     PROVE  NamesAreSoiled'
  <2>1. UNCHANGED <<pid, dirs, soiled, scan, judged, dir>>
    BY <1>12 DEF ReapBridge, Becomes
  <2> QED BY <2>1
<1>13. ASSUME NEW e \in Endpoints, BridgeFails(h, e), UNCHANGED stageVars
     PROVE  NamesAreSoiled'
  <2>1. UNCHANGED <<pid, dirs, soiled, scan, judged, dir>>
    BY <1>13 DEF BridgeFails, Becomes
  <2> QED BY <2>1
<1>14. ASSUME WorkerLooks(h), UNCHANGED stageVars
     PROVE  NamesAreSoiled'
  <2>1. UNCHANGED <<pid, dirs, soiled, scan, judged, dir>>
    BY <1>14 DEF WorkerLooks
  <2> QED BY <2>1
<1>15. ASSUME WorkerRemoves(h), UNCHANGED stageVars
     PROVE  NamesAreSoiled'
  BY <1>15 DEF WorkerRemoves, TypeInv, TypeOK, ProxyTypeOK
<1>16. ASSUME KillWorker(h), UNCHANGED stageVars
     PROVE  NamesAreSoiled'
  <2>1. UNCHANGED <<pid, dirs, soiled, scan, judged, dir>>
    BY <1>16 DEF KillWorker
  <2> QED BY <2>1
<1>17. ASSUME Reap(h), UNCHANGED stageVars
     PROVE  NamesAreSoiled'
  <2>1. UNCHANGED <<pid, dirs, soiled, scan, judged, dir>>
    BY <1>17 DEF Reap
  <2> QED BY <2>1
<1>18. ASSUME ConfineAndExec(h)
     PROVE  NamesAreSoiled'
  <2>1. UNCHANGED <<pid, dirs, soiled, scan, judged, dir>>
    BY <1>18 DEF ConfineAndExec, Goes
  <2> QED BY <2>1
<1>19. ASSUME Preflight(h)
     PROVE  NamesAreSoiled'
  <2>1. UNCHANGED <<pid, dirs, soiled, scan, judged, dir>>
    BY <1>19 DEF Preflight, Goes
  <2> QED BY <2>1
<1>20. ASSUME RunBubblewrap(h)
     PROVE  NamesAreSoiled'
  <2>1. UNCHANGED <<pid, dirs, soiled, scan, judged, dir>>
    BY <1>20 DEF RunBubblewrap, Goes
  <2> QED BY <2>1
<1>21. ASSUME NEW i \in Indexes, NEW port \in Ports, SpawnLocalBridge(h, i, port)
     PROVE  NamesAreSoiled'
  <2>1. UNCHANGED <<pid, dirs, soiled, scan, judged, dir>>
    BY <1>21 DEF SpawnLocalBridge
  <2> QED BY <2>1
<1>22. ASSUME RaiseLoopback(h)
     PROVE  NamesAreSoiled'
  <2>1. UNCHANGED <<pid, dirs, soiled, scan, judged, dir>>
    BY <1>22 DEF RaiseLoopback
  <2> QED BY <2>1
<1>23. ASSUME RewriteEnv(h)
     PROVE  NamesAreSoiled'
  <2>1. UNCHANGED <<pid, dirs, soiled, scan, judged, dir>>
    BY <1>23 DEF RewriteEnv
  <2> QED BY <2>1
<1>24. ASSUME InnerConfines(h)
     PROVE  NamesAreSoiled'
  <2>1. UNCHANGED <<pid, dirs, soiled, scan, judged, dir>>
    BY <1>24 DEF InnerConfines
  <2> QED BY <2>1
<1>25. ASSUME InnerExecs(h)
     PROVE  NamesAreSoiled'
  <2>1. UNCHANGED <<pid, dirs, soiled, scan, judged, dir>>
    BY <1>25 DEF InnerExecs
  <2> QED BY <2>1
<1>26. ASSUME InnerEnds(h)
     PROVE  NamesAreSoiled'
  <2>1. UNCHANGED <<pid, dirs, soiled, scan, judged, dir>>
    BY <1>26 DEF InnerEnds
  <2> QED BY <2>1
<1>27. ASSUME Dies(h), UNCHANGED <<pc, stageVars>>
     PROVE  NamesAreSoiled'
  BY <1>27 DEF Dies, TypeInv, TypeOK, ProxyTypeOK
<1> QED
  BY <1>1, <1>2, <1>3, <1>4, <1>5, <1>6, <1>7, <1>8, <1>9, <1>10, <1>11, <1>12, <1>13, <1>14,
       <1>15, <1>16, <1>17, <1>18, <1>19, <1>20, <1>21, <1>22, <1>23, <1>24, <1>25, <1>26, <1>27
       DEF HelperStep, Inside, Prepare, BridgeStep, WorkerStep, Exit, Kill

\* No step puts a name of a running helper with an unused pid in the hand of
\* another one: the sweep asks is_pid_alive first, and nobody else has its pid.
LEMMA NobodyHoldsStep ==
  ASSUME TypeInv, \A g \in Helpers : Position(g), \A g \in Helpers : Bridging(g),
         PidsApart, NamesAreSoiled, \A g \in Helpers : NobodyHolds(g), Next
  PROVE  \A g \in Helpers : NobodyHolds(g)'
<1> SUFFICES ASSUME NEW h \in Helpers, HelperStep(h) PROVE \A g \in Helpers : NobodyHolds(g)'
  BY DEF Next, HelperStep
<1> USE DEF NobodyHolds, Alive
<1>1. ASSUME NEW p \in Pids, Launch(h, p)
     PROVE  \A g \in Helpers : NobodyHolds(g)'
  <2>1. /\ proc[h] = "absent" /\ proc' = [proc EXCEPT ![h] = "alive"]
        /\ pid' = [pid EXCEPT ![h] = p] /\ ~PidInUse(p)
        /\ fresh' = IF p \in soiled THEN fresh ELSE fresh \cup {h}
        /\ UNCHANGED <<soiled, judged, dir>>
    BY <1>1 DEF Launch, Start
  <2>2. dir[h] = NoName /\ h \notin fresh
    BY <2>1 DEF Position, Bridging
  <2>3. NobodyHolds(h)'
    <3>1. SUFFICES ASSUME p \notin soiled PROVE NobodyHolds(h)'
      BY <2>1, <2>2 DEF TypeInv, TypeOK, ProxyTypeOK
    <3>2. /\ pid'[h] = p /\ proc'[h] = "alive" /\ dir'[h] = NoName
          /\ \A g \in Helpers : judged[g] # NoName => judged[g][1] # p
          /\ \A g \in Helpers : dir[g] # NoName => dir[g][1] # p
      BY <2>1, <2>2, <3>1 DEF NamesAreSoiled, TypeInv, TypeOK, ProxyTypeOK
    <3> QED BY <2>1, <3>1, <3>2
  <2>4. ASSUME NEW f \in Helpers, f # h PROVE NobodyHolds(f)'
    <3>1. proc'[f] = proc[f] /\ pid'[f] = pid[f] /\ (f \in fresh' <=> f \in fresh)
      BY <2>1, <2>4 DEF TypeInv, TypeOK, ProxyTypeOK
    <3> QED BY <2>1, <3>1
  <2> QED BY <2>3, <2>4
<1>2. ASSUME PlanRoutes(h), UNCHANGED stageVars
     PROVE  \A g \in Helpers : NobodyHolds(g)'
  <2>1. UNCHANGED <<proc, pid, soiled, judged, dir, fresh>>
    BY <1>2 DEF PlanRoutes, Goes
  <2> QED BY <2>1
<1>3. ASSUME NEW n \in Names, SweepEntry(h, n), UNCHANGED stageVars
     PROVE  \A g \in Helpers : NobodyHolds(g)'
  <2>1. /\ judged' = [judged EXCEPT ![h] = IF OwnerDead(n) THEN n ELSE NoName]
        /\ UNCHANGED <<proc, pid, soiled, dir, fresh>>
    BY <1>3 DEF SweepEntry
  <2>2. OwnerDead(n) => \A f \in Helpers : Alive(f) => n[1] # pid[f]
    BY DEF OwnerDead, PidInUse
  <2>3. \A f, g \in Helpers : judged'[g] # NoName /\ Alive(f) =>
           judged'[g] = judged[g] \/ judged'[g][1] # pid[f]
    BY <2>1, <2>2 DEF TypeInv, TypeOK, ProxyTypeOK
  <2> QED BY <2>1, <2>3
<1>4. ASSUME RemoveJudged(h), UNCHANGED stageVars
     PROVE  \A g \in Helpers : NobodyHolds(g)'
  BY <1>4 DEF RemoveJudged, TypeInv, TypeOK, ProxyTypeOK
<1>5. ASSUME MakeDir(h), UNCHANGED stageVars
     PROVE  \A g \in Helpers : NobodyHolds(g)'
  <2>1. PICK n \in Names : dir' = [dir EXCEPT ![h] = n] /\ n[1] = pid[h]
    BY <1>5, FreeName
  <2>2. /\ soiled' = soiled \cup {pid[h]} /\ Alive(h) /\ judged[h] = NoName
        /\ UNCHANGED <<proc, pid, judged, fresh>>
    BY <1>5 DEF MakeDir, Goes
  <2>3. \A f \in Helpers : f # h /\ Alive(f) => pid[f] # pid[h]
    BY <2>2 DEF PidsApart
  <2>4. dir'[h] = n /\ n # NoName /\ \A g \in Helpers : g # h => dir'[g] = dir[g]
    BY <2>1, ProxyAssumption DEF TypeInv, TypeOK, ProxyTypeOK
  <2>5. NobodyHolds(h)'
    BY <2>2, <2>4
  <2>6. ASSUME NEW f \in Helpers, f # h PROVE NobodyHolds(f)'
    BY <2>1, <2>2, <2>3, <2>4, <2>6
  <2> QED BY <2>5, <2>6
<1>6. ASSUME ForkBridge(h), UNCHANGED stageVars
     PROVE  \A g \in Helpers : NobodyHolds(g)'
  <2>1. UNCHANGED <<proc, pid, soiled, judged, dir, fresh>>
    BY <1>6 DEF ForkBridge
  <2> QED BY <2>1
<1>7. ASSUME StartWorker(h), UNCHANGED stageVars
     PROVE  \A g \in Helpers : NobodyHolds(g)'
  <2>1. UNCHANGED <<proc, pid, soiled, judged, dir, fresh>>
    BY <1>7 DEF StartWorker, Goes
  <2> QED BY <2>1
<1>8. ASSUME NEW e \in Endpoints, Arm(h, e), UNCHANGED stageVars
     PROVE  \A g \in Helpers : NobodyHolds(g)'
  <2>1. UNCHANGED <<proc, pid, soiled, judged, dir, fresh>>
    BY <1>8 DEF Arm, Becomes
  <2> QED BY <2>1
<1>9. ASSUME NEW e \in Endpoints, Bind(h, e), UNCHANGED stageVars
     PROVE  \A g \in Helpers : NobodyHolds(g)'
  <2>1. UNCHANGED <<proc, pid, soiled, judged, dir, fresh>>
    BY <1>9 DEF Bind, Becomes
  <2> QED BY <2>1
<1>10. ASSUME NEW e \in Endpoints, Announce(h, e), UNCHANGED stageVars
     PROVE  \A g \in Helpers : NobodyHolds(g)'
  <2>1. UNCHANGED <<proc, pid, soiled, judged, dir, fresh>>
    BY <1>10 DEF Announce, Becomes
  <2> QED BY <2>1
<1>11. ASSUME NEW e \in Endpoints, BridgeTerminated(h, e), UNCHANGED stageVars
     PROVE  \A g \in Helpers : NobodyHolds(g)'
  <2>1. UNCHANGED <<proc, pid, soiled, judged, dir, fresh>>
    BY <1>11 DEF BridgeTerminated, Becomes
  <2> QED BY <2>1
<1>12. ASSUME NEW e \in Endpoints, ReapBridge(h, e), UNCHANGED stageVars
     PROVE  \A g \in Helpers : NobodyHolds(g)'
  <2>1. UNCHANGED <<proc, pid, soiled, judged, dir, fresh>>
    BY <1>12 DEF ReapBridge, Becomes
  <2> QED BY <2>1
<1>13. ASSUME NEW e \in Endpoints, BridgeFails(h, e), UNCHANGED stageVars
     PROVE  \A g \in Helpers : NobodyHolds(g)'
  <2>1. UNCHANGED <<proc, pid, soiled, judged, dir, fresh>>
    BY <1>13 DEF BridgeFails, Becomes
  <2> QED BY <2>1
<1>14. ASSUME WorkerLooks(h), UNCHANGED stageVars
     PROVE  \A g \in Helpers : NobodyHolds(g)'
  <2>1. UNCHANGED <<proc, pid, soiled, judged, dir, fresh>>
    BY <1>14 DEF WorkerLooks
  <2> QED BY <2>1
<1>15. ASSUME WorkerRemoves(h), UNCHANGED stageVars
     PROVE  \A g \in Helpers : NobodyHolds(g)'
  <2>1. UNCHANGED <<proc, pid, soiled, judged, dir, fresh>>
    BY <1>15 DEF WorkerRemoves
  <2> QED BY <2>1
<1>16. ASSUME KillWorker(h), UNCHANGED stageVars
     PROVE  \A g \in Helpers : NobodyHolds(g)'
  <2>1. UNCHANGED <<proc, pid, soiled, judged, dir, fresh>>
    BY <1>16 DEF KillWorker
  <2> QED BY <2>1
<1>17. ASSUME Reap(h), UNCHANGED stageVars
     PROVE  \A g \in Helpers : NobodyHolds(g)'
  BY <1>17 DEF Reap, TypeInv, TypeOK, ProxyTypeOK
<1>18. ASSUME ConfineAndExec(h)
     PROVE  \A g \in Helpers : NobodyHolds(g)'
  <2>1. UNCHANGED <<proc, pid, soiled, judged, dir, fresh>>
    BY <1>18 DEF ConfineAndExec, Goes
  <2> QED BY <2>1
<1>19. ASSUME Preflight(h)
     PROVE  \A g \in Helpers : NobodyHolds(g)'
  <2>1. UNCHANGED <<proc, pid, soiled, judged, dir, fresh>>
    BY <1>19 DEF Preflight, Goes
  <2> QED BY <2>1
<1>20. ASSUME RunBubblewrap(h)
     PROVE  \A g \in Helpers : NobodyHolds(g)'
  <2>1. UNCHANGED <<proc, pid, soiled, judged, dir, fresh>>
    BY <1>20 DEF RunBubblewrap, Goes
  <2> QED BY <2>1
<1>21. ASSUME NEW i \in Indexes, NEW port \in Ports, SpawnLocalBridge(h, i, port)
     PROVE  \A g \in Helpers : NobodyHolds(g)'
  <2>1. UNCHANGED <<proc, pid, soiled, judged, dir, fresh>>
    BY <1>21 DEF SpawnLocalBridge
  <2> QED BY <2>1
<1>22. ASSUME RaiseLoopback(h)
     PROVE  \A g \in Helpers : NobodyHolds(g)'
  <2>1. UNCHANGED <<proc, pid, soiled, judged, dir, fresh>>
    BY <1>22 DEF RaiseLoopback
  <2> QED BY <2>1
<1>23. ASSUME RewriteEnv(h)
     PROVE  \A g \in Helpers : NobodyHolds(g)'
  <2>1. UNCHANGED <<proc, pid, soiled, judged, dir, fresh>>
    BY <1>23 DEF RewriteEnv
  <2> QED BY <2>1
<1>24. ASSUME InnerConfines(h)
     PROVE  \A g \in Helpers : NobodyHolds(g)'
  <2>1. UNCHANGED <<proc, pid, soiled, judged, dir, fresh>>
    BY <1>24 DEF InnerConfines
  <2> QED BY <2>1
<1>25. ASSUME InnerExecs(h)
     PROVE  \A g \in Helpers : NobodyHolds(g)'
  <2>1. UNCHANGED <<proc, pid, soiled, judged, dir, fresh>>
    BY <1>25 DEF InnerExecs
  <2> QED BY <2>1
<1>26. ASSUME InnerEnds(h)
     PROVE  \A g \in Helpers : NobodyHolds(g)'
  <2>1. UNCHANGED <<proc, pid, soiled, judged, dir, fresh>>
    BY <1>26 DEF InnerEnds
  <2> QED BY <2>1
<1>27. ASSUME Dies(h), UNCHANGED <<pc, stageVars>>
     PROVE  \A g \in Helpers : NobodyHolds(g)'
  BY <1>27 DEF Dies, TypeInv, TypeOK, ProxyTypeOK
<1> QED
  BY <1>1, <1>2, <1>3, <1>4, <1>5, <1>6, <1>7, <1>8, <1>9, <1>10, <1>11, <1>12, <1>13, <1>14,
       <1>15, <1>16, <1>17, <1>18, <1>19, <1>20, <1>21, <1>22, <1>23, <1>24, <1>25, <1>26, <1>27
       DEF HelperStep, Inside, Prepare, BridgeStep, WorkerStep, Exit, Kill

-----------------------------------------------------------------------------
(* The directory of a running helper and the sockets in it                  *)

\* What binds nothing and announces nothing leaves the sockets as they are.
LEMMA KeptWithout ==
  ASSUME TypeInv, \A f \in Helpers : DirectoryKept(f) /\ SocketsKept(f),
         UNCHANGED <<proc, dirs, dir, fresh, announced>>,
         NEW h \in Helpers, NEW e \in Endpoints,
         NEW state \in {"forked", "armed", "zombie", "gone"},
         Becomes(h, e, state)
  PROVE  \A f \in Helpers : DirectoryKept(f)' /\ SocketsKept(f)'
<1> SUFFICES ASSUME NEW f \in Helpers PROVE DirectoryKept(f)' /\ SocketsKept(f)'
  OBVIOUS
<1>1. DirectoryKept(f)'
  BY DEF DirectoryKept, Alive
<1>2. ASSUME NEW x \in EndpointsOf(f), br'[<<f, x>>] \in {"bound", "serving"}
      PROVE  br[<<f, x>>] \in {"bound", "serving"}
  <2>1. x \in Endpoints
    BY EndpointsAreFinite
  <2>2. CASE <<f, x>> = <<h, e>>
    <3>1. br'[<<h, e>>] = state
      BY BridgeBecomes
    <3> QED BY <1>2, <2>2, <3>1
  <2>3. CASE <<f, x>> # <<h, e>>
    <3>1. \A g \in Helpers, y \in Endpoints : <<g, y>> # <<h, e>> => br'[<<g, y>>] = br[<<g, y>>]
      BY BridgeBecomes
    <3>2. br'[<<f, x>>] = br[<<f, x>>]
      BY <2>1, <2>3, <3>1
    <3> QED BY <1>2, <3>2
  <2> QED BY <2>2, <2>3
<1>3. SocketsKept(f)'
  BY <1>2 DEF SocketsKept, Alive
<1> QED BY <1>1, <1>3

\* No step removes the directory of such a helper, or takes a bound socket out of it.
LEMMA KeptStep ==
  ASSUME TypeInv, \A g \in Helpers : Position(g), \A g \in Helpers : Bridging(g),
         PidsApart, NamesAreSoiled, \A g \in Helpers : NobodyHolds(g),
         \A f \in Helpers : DirectoryKept(f) /\ SocketsKept(f), Next
  PROVE  \A f \in Helpers : DirectoryKept(f)' /\ SocketsKept(f)'
<1> SUFFICES ASSUME NEW h \in Helpers, HelperStep(h)
             PROVE  \A f \in Helpers : DirectoryKept(f)' /\ SocketsKept(f)'
  BY DEF Next, HelperStep
<1> USE DEF DirectoryKept, SocketsKept, Alive
<1>1. ASSUME NEW p \in Pids, Launch(h, p)
     PROVE  \A f \in Helpers : DirectoryKept(f)' /\ SocketsKept(f)'
  <2>1. /\ proc[h] = "absent" /\ proc' = [proc EXCEPT ![h] = "alive"]
        /\ fresh' \subseteq fresh \cup {h} /\ UNCHANGED <<dirs, dir, br, announced>>
    BY <1>1 DEF Launch, Start
  <2>2. dir[h] = NoName
    BY <2>1 DEF Position, Bridging
  <2> QED BY <2>1, <2>2 DEF TypeInv, TypeOK, ProxyTypeOK
<1>2. ASSUME PlanRoutes(h), UNCHANGED stageVars
     PROVE  \A f \in Helpers : DirectoryKept(f)' /\ SocketsKept(f)'
  <2>1. UNCHANGED <<proc, dirs, dir, fresh, br, announced>>
    BY <1>2 DEF PlanRoutes, Goes
  <2> QED BY <2>1
<1>3. ASSUME NEW n \in Names, SweepEntry(h, n), UNCHANGED stageVars
     PROVE  \A f \in Helpers : DirectoryKept(f)' /\ SocketsKept(f)'
  <2>1. UNCHANGED <<proc, dirs, dir, fresh, br, announced>>
    BY <1>3 DEF SweepEntry
  <2> QED BY <2>1
<1>4. ASSUME RemoveJudged(h), UNCHANGED stageVars
     PROVE  \A f \in Helpers : DirectoryKept(f)' /\ SocketsKept(f)'
  <2>1. /\ judged[h] # NoName /\ dirs' = [dirs EXCEPT ![judged[h]] = NoDir]
        /\ UNCHANGED <<proc, dir, fresh, br, announced>>
    BY <1>4 DEF RemoveJudged
  <2>2. ASSUME NEW f \in fresh, Alive(f), dir[f] # NoName PROVE dirs'[dir[f]] = dirs[dir[f]]
    <3>1. f \in Helpers /\ dir[f] \in Names
      BY <2>2 DEF TypeInv, TypeOK, ProxyTypeOK
    <3>2. judged[h][1] # dir[f][1]
      BY <2>1, <2>2, <3>1 DEF NobodyHolds, NamesAreSoiled
    <3> QED BY <2>1, <3>1, <3>2 DEF TypeInv, TypeOK, ProxyTypeOK
  <2> QED BY <2>1, <2>2
<1>5. ASSUME MakeDir(h), UNCHANGED stageVars
     PROVE  \A f \in Helpers : DirectoryKept(f)' /\ SocketsKept(f)'
  <2>1. PICK n \in Names : /\ dir' = [dir EXCEPT ![h] = n] /\ n[1] = pid[h]
                            /\ dirs' = [dirs EXCEPT ![n] = EmptyDir(h)]
    BY <1>5, FreeName
  <2>2. /\ Alive(h) /\ pc[h] = "sweep" /\ UNCHANGED <<proc, fresh, br, announced>>
    BY <1>5 DEF MakeDir, Goes
  <2>3. ASSUME NEW f \in fresh, Alive(f), dir[f] # NoName, f # h
        PROVE  dir'[f] = dir[f] /\ dirs'[dir[f]] = dirs[dir[f]]
    <3>1. f \in Helpers /\ dir[f] \in Names
      BY <2>3 DEF TypeInv, TypeOK, ProxyTypeOK
    <3>2. n[1] # dir[f][1]
      BY <2>1, <2>2, <2>3, <3>1 DEF PidsApart, NamesAreSoiled
    <3> QED BY <2>1, <2>3, <3>1, <3>2 DEF TypeInv, TypeOK, ProxyTypeOK
  <2>4. \A f \in Helpers : f # h => dir'[f] = dir[f]
    BY <2>1 DEF TypeInv, TypeOK, ProxyTypeOK
  <2>5. ASSUME NEW f \in Helpers, f # h PROVE DirectoryKept(f)' /\ SocketsKept(f)'
    BY <2>2, <2>3, <2>4, <2>5
  <2>6. dir'[h] = n /\ dirs'[n] = EmptyDir(h)
    BY <2>1 DEF TypeInv, TypeOK, ProxyTypeOK
  <2>7. DirectoryKept(h)'
    BY <2>6, EmptyDirTyped, ProxyAssumption DEF EmptyDir
  <2>8. dir[h] = NoName
    BY <2>2 DEF Bridging
  <2>9. \A e \in EndpointsOf(h) : e \in Endpoints /\ SocketIndex(h, e) \in Indexes
    BY SocketIndexInRange, EndpointsAreFinite
  <2>10. \A e \in EndpointsOf(h) : dirs'[n].sock[SocketIndex(h, e)] = NoBridge
    BY <2>6, <2>9 DEF EmptyDir
  <2>11. \A e \in EndpointsOf(h) : br[<<h, e>>] = "none" /\ <<h, e>> \notin announced
    BY <2>8, <2>9 DEF Bridging
  <2>12. SocketsKept(h)'
    BY <2>2, <2>6, <2>10, <2>11
  <2> QED BY <2>5, <2>7, <2>12
<1>6. ASSUME ForkBridge(h), UNCHANGED stageVars
     PROVE  \A f \in Helpers : DirectoryKept(f)' /\ SocketsKept(f)'
  <2> DEFINE next == EndpointsOf(h) \ Spawned(h)
             x == Min(next)
  <2>1. /\ next # {} /\ br' = [br EXCEPT ![<<h, x>>] = "forked"]
        /\ UNCHANGED <<proc, dirs, dir, fresh, announced>>
    BY <1>6 DEF ForkBridge
  <2>2. next \subseteq Endpoints /\ next \subseteq Nat
    BY EndpointsAreFinite, ProxyAssumption
  <2>3. x \in Endpoints
    BY <2>1, <2>2, MinIsIn
  <2> HIDE DEF x, next
  <2>4. Becomes(h, x, "forked")
    BY <2>1 DEF Becomes
  <2> QED BY <2>1, <2>3, <2>4, KeptWithout
<1>7. ASSUME StartWorker(h), UNCHANGED stageVars
     PROVE  \A f \in Helpers : DirectoryKept(f)' /\ SocketsKept(f)'
  <2>1. UNCHANGED <<proc, dirs, dir, fresh, br, announced>>
    BY <1>7 DEF StartWorker, Goes
  <2> QED BY <2>1
<1>8. ASSUME NEW e \in Endpoints, Arm(h, e), UNCHANGED stageVars
     PROVE  \A f \in Helpers : DirectoryKept(f)' /\ SocketsKept(f)'
  <2>1. PICK state \in {"armed", "gone"} : Becomes(h, e, state)
    BY <1>8 DEF Arm
  <2>2. UNCHANGED <<proc, dirs, dir, fresh, announced>>
    BY <1>8 DEF Arm
  <2> QED BY <2>1, <2>2, KeptWithout
<1>9. ASSUME NEW e \in Endpoints, Bind(h, e), UNCHANGED stageVars
     PROVE  \A f \in Helpers : DirectoryKept(f)' /\ SocketsKept(f)'
  <2>1. /\ br[<<h, e>>] = "armed" /\ UNCHANGED <<proc, dir, fresh, announced>>
    BY <1>9 DEF Bind
  <2>2. PICK state \in {"zombie", "gone", "bound"} : Becomes(h, e, state)
    BY <1>9 DEF Bind
  <2>3. dir[h] # NoName /\ e \in EndpointsOf(h)
    BY <2>1 DEF Bridging
  <2>4. /\ br'[<<h, e>>] = state
        /\ \A g \in Helpers, x \in Endpoints : <<g, x>> # <<h, e>> => br'[<<g, x>>] = br[<<g, x>>]
    BY <2>2, BridgeBecomes
  <2>5. ASSUME NEW f \in fresh, Alive(f), dir[f] # NoName, NEW x \in EndpointsOf(f)
        PROVE  /\ dirs'[dir[f]] # NoDir /\ dirs'[dir[f]].by = f
               /\ LET s == dirs'[dir[f]].sock[SocketIndex(f, x)]
                  IN  IF <<f, x>> = <<h, e>> THEN s = <<h, e>>
                      ELSE s = dirs[dir[f]].sock[SocketIndex(f, x)]
    <3>1. f \in Helpers /\ dir[f] \in Names /\ dirs[dir[f]] # NoDir /\ dirs[dir[f]].by = f
      BY <2>5 DEF TypeInv, TypeOK, ProxyTypeOK
    <3>2. SocketIndex(f, x) \in Indexes
      BY <3>1, SocketIndexInRange
    <3>3. /\ dirs'[dir[f]] # NoDir /\ dirs'[dir[f]].by = f
          /\ \A i \in Indexes :
               dirs'[dir[f]].sock[i] = IF dir[f] = dir[h] /\ i = SocketIndex(h, e) THEN <<h, e>>
                                      ELSE dirs[dir[f]].sock[i]
      BY <1>9, <3>1, BindKeeps
    <3>4. f # h => dir[f] # dir[h]
      BY <2>3, <2>5, <3>1 DEF NobodyHolds, NamesAreSoiled
    <3>5. x # e /\ f = h => SocketIndex(h, x) # SocketIndex(h, e)
      BY <2>3, SocketIndexDistinct
    <3> QED BY <3>2, <3>3, <3>4, <3>5
  <2>6. ASSUME NEW f \in Helpers PROVE DirectoryKept(f)'
    <3>1. SUFFICES ASSUME f \in fresh, Alive(f), dir[f] # NoName
                   PROVE  dirs'[dir[f]] # NoDir /\ dirs'[dir[f]].by = f
      BY <2>1
    <3>2. dir[f] \in Names /\ dirs[dir[f]] # NoDir /\ dirs[dir[f]].by = f
      BY <3>1 DEF TypeInv, TypeOK, ProxyTypeOK
    <3> QED BY <1>9, <3>2, BindKeeps
  <2>7. ASSUME NEW f \in Helpers PROVE SocketsKept(f)'
    <3>1. SUFFICES ASSUME f \in fresh, Alive(f), dir[f] # NoName, NEW x \in EndpointsOf(f)
                   PROVE  LET s == dirs'[dir[f]].sock[SocketIndex(f, x)]
                          IN /\ s \in {NoBridge, <<f, x>>}
                             /\ br'[<<f, x>>] \in {"bound", "serving"} \/ <<f, x>> \in announced
                                  => s = <<f, x>>
      BY <2>1
    <3>2. CASE <<f, x>> = <<h, e>>
      BY <2>5, <3>1, <3>2
    <3>3. CASE <<f, x>> # <<h, e>>
      <4>1. x \in Endpoints
        BY EndpointsAreFinite
      <4>2. br'[<<f, x>>] = br[<<f, x>>]
        BY <2>4, <3>3, <4>1
      <4>3. dirs'[dir[f]].sock[SocketIndex(f, x)] = dirs[dir[f]].sock[SocketIndex(f, x)]
        BY <2>5, <3>1, <3>3
      <4> QED BY <3>1, <4>2, <4>3
    <3> QED BY <3>2, <3>3
  <2> QED BY <2>6, <2>7
<1>10. ASSUME NEW e \in Endpoints, Announce(h, e), UNCHANGED stageVars
     PROVE  \A f \in Helpers : DirectoryKept(f)' /\ SocketsKept(f)'
  <2>1. PICK state \in {"gone", "serving"} : Becomes(h, e, state)
    BY <1>10 DEF Announce
  <2>2. /\ br[<<h, e>>] = "bound" /\ announced' \subseteq announced \cup {<<h, e>>}
        /\ UNCHANGED <<proc, dirs, dir, fresh>>
    BY <1>10 DEF Announce
  <2>3. ASSUME NEW f \in Helpers, NEW x \in Endpoints,
               br'[<<f, x>>] \in {"bound", "serving"} \/ <<f, x>> \in announced'
        PROVE  br[<<f, x>>] \in {"bound", "serving"} \/ <<f, x>> \in announced
    BY <2>1, <2>2, <2>3, BridgeBecomes
  <2>4. \A f \in Helpers : EndpointsOf(f) \subseteq Endpoints
    BY EndpointsAreFinite
  <2>5. ASSUME NEW f \in Helpers PROVE DirectoryKept(f)'
    BY <2>2
  <2>6. ASSUME NEW f \in Helpers PROVE SocketsKept(f)'
    BY <2>2, <2>3, <2>4
  <2> QED BY <2>5, <2>6
<1>11. ASSUME NEW e \in Endpoints, BridgeTerminated(h, e), UNCHANGED stageVars
     PROVE  \A f \in Helpers : DirectoryKept(f)' /\ SocketsKept(f)'
  <2>1. PICK state \in {"gone"} : Becomes(h, e, state)
    BY <1>11 DEF BridgeTerminated
  <2>2. UNCHANGED <<proc, dirs, dir, fresh, announced>>
    BY <1>11 DEF BridgeTerminated
  <2> QED BY <2>1, <2>2, KeptWithout
<1>12. ASSUME NEW e \in Endpoints, ReapBridge(h, e), UNCHANGED stageVars
     PROVE  \A f \in Helpers : DirectoryKept(f)' /\ SocketsKept(f)'
  <2>1. PICK state \in {"gone"} : Becomes(h, e, state)
    BY <1>12 DEF ReapBridge
  <2>2. UNCHANGED <<proc, dirs, dir, fresh, announced>>
    BY <1>12 DEF ReapBridge
  <2> QED BY <2>1, <2>2, KeptWithout
<1>13. ASSUME NEW e \in Endpoints, BridgeFails(h, e), UNCHANGED stageVars
     PROVE  \A f \in Helpers : DirectoryKept(f)' /\ SocketsKept(f)'
  <2>1. PICK state \in {"zombie"} : Becomes(h, e, state)
    BY <1>13 DEF BridgeFails
  <2>2. UNCHANGED <<proc, dirs, dir, fresh, announced>>
    BY <1>13 DEF BridgeFails
  <2> QED BY <2>1, <2>2, KeptWithout
<1>14. ASSUME WorkerLooks(h), UNCHANGED stageVars
     PROVE  \A f \in Helpers : DirectoryKept(f)' /\ SocketsKept(f)'
  <2>1. UNCHANGED <<proc, dirs, dir, fresh, br, announced>>
    BY <1>14 DEF WorkerLooks
  <2> QED BY <2>1
<1>15. ASSUME WorkerRemoves(h), UNCHANGED stageVars
     PROVE  \A f \in Helpers : DirectoryKept(f)' /\ SocketsKept(f)'
  <2>1. /\ worker[h] = "removing" /\ dirs' = [dirs EXCEPT ![dir[h]] = NoDir]
        /\ UNCHANGED <<proc, dir, fresh, br, announced>>
    BY <1>15 DEF WorkerRemoves
  <2>2. ~Alive(h) /\ dir[h] # NoName
    BY <2>1 DEF Bridging
  <2>3. ASSUME NEW f \in fresh, Alive(f), dir[f] # NoName PROVE dirs'[dir[f]] = dirs[dir[f]]
    <3>1. f \in Helpers /\ dir[f] \in Names /\ f # h
      BY <2>2, <2>3 DEF TypeInv, TypeOK, ProxyTypeOK
    <3>2. dir[h][1] # dir[f][1]
      BY <2>2, <2>3, <3>1 DEF NobodyHolds, NamesAreSoiled
    <3> QED BY <2>1, <3>1, <3>2 DEF TypeInv, TypeOK, ProxyTypeOK
  <2> QED BY <2>1, <2>3
<1>16. ASSUME KillWorker(h), UNCHANGED stageVars
     PROVE  \A f \in Helpers : DirectoryKept(f)' /\ SocketsKept(f)'
  <2>1. UNCHANGED <<proc, dirs, dir, fresh, br, announced>>
    BY <1>16 DEF KillWorker
  <2> QED BY <2>1
<1>17. ASSUME Reap(h), UNCHANGED stageVars
     PROVE  \A f \in Helpers : DirectoryKept(f)' /\ SocketsKept(f)'
  <2>1. /\ proc' = [proc EXCEPT ![h] = "gone"] /\ UNCHANGED <<dirs, dir, fresh, br, announced>>
    BY <1>17 DEF Reap
  <2> QED BY <2>1 DEF TypeInv, TypeOK, ProxyTypeOK
<1>18. ASSUME ConfineAndExec(h)
     PROVE  \A f \in Helpers : DirectoryKept(f)' /\ SocketsKept(f)'
  <2>1. UNCHANGED <<proc, dirs, dir, fresh, br, announced>>
    BY <1>18 DEF ConfineAndExec, Goes
  <2> QED BY <2>1
<1>19. ASSUME Preflight(h)
     PROVE  \A f \in Helpers : DirectoryKept(f)' /\ SocketsKept(f)'
  <2>1. UNCHANGED <<proc, dirs, dir, fresh, br, announced>>
    BY <1>19 DEF Preflight, Goes
  <2> QED BY <2>1
<1>20. ASSUME RunBubblewrap(h)
     PROVE  \A f \in Helpers : DirectoryKept(f)' /\ SocketsKept(f)'
  <2>1. UNCHANGED <<proc, dirs, dir, fresh, br, announced>>
    BY <1>20 DEF RunBubblewrap, Goes
  <2> QED BY <2>1
<1>21. ASSUME NEW i \in Indexes, NEW port \in Ports, SpawnLocalBridge(h, i, port)
     PROVE  \A f \in Helpers : DirectoryKept(f)' /\ SocketsKept(f)'
  <2>1. UNCHANGED <<proc, dirs, dir, fresh, br, announced>>
    BY <1>21 DEF SpawnLocalBridge
  <2> QED BY <2>1
<1>22. ASSUME RaiseLoopback(h)
     PROVE  \A f \in Helpers : DirectoryKept(f)' /\ SocketsKept(f)'
  <2>1. UNCHANGED <<proc, dirs, dir, fresh, br, announced>>
    BY <1>22 DEF RaiseLoopback
  <2> QED BY <2>1
<1>23. ASSUME RewriteEnv(h)
     PROVE  \A f \in Helpers : DirectoryKept(f)' /\ SocketsKept(f)'
  <2>1. UNCHANGED <<proc, dirs, dir, fresh, br, announced>>
    BY <1>23 DEF RewriteEnv
  <2> QED BY <2>1
<1>24. ASSUME InnerConfines(h)
     PROVE  \A f \in Helpers : DirectoryKept(f)' /\ SocketsKept(f)'
  <2>1. UNCHANGED <<proc, dirs, dir, fresh, br, announced>>
    BY <1>24 DEF InnerConfines
  <2> QED BY <2>1
<1>25. ASSUME InnerExecs(h)
     PROVE  \A f \in Helpers : DirectoryKept(f)' /\ SocketsKept(f)'
  <2>1. UNCHANGED <<proc, dirs, dir, fresh, br, announced>>
    BY <1>25 DEF InnerExecs
  <2> QED BY <2>1
<1>26. ASSUME InnerEnds(h)
     PROVE  \A f \in Helpers : DirectoryKept(f)' /\ SocketsKept(f)'
  <2>1. UNCHANGED <<proc, dirs, dir, fresh, br, announced>>
    BY <1>26 DEF InnerEnds
  <2> QED BY <2>1
<1>27. ASSUME Dies(h), UNCHANGED <<pc, stageVars>>
     PROVE  \A f \in Helpers : DirectoryKept(f)' /\ SocketsKept(f)'
  <2>1. /\ proc' = [proc EXCEPT ![h] = "zombie"] /\ UNCHANGED <<dirs, dir, fresh, br, announced>>
    BY <1>27 DEF Dies
  <2> QED BY <2>1 DEF TypeInv, TypeOK, ProxyTypeOK
<1> QED
  BY <1>1, <1>2, <1>3, <1>4, <1>5, <1>6, <1>7, <1>8, <1>9, <1>10, <1>11, <1>12, <1>13, <1>14,
       <1>15, <1>16, <1>17, <1>18, <1>19, <1>20, <1>21, <1>22, <1>23, <1>24, <1>25, <1>26, <1>27
       DEF HelperStep, Inside, Prepare, BridgeStep, WorkerStep, Exit, Kill

-----------------------------------------------------------------------------
(* The sweep                                                                *)

\* No step lets go of what a sweep has to remove: it stays listed, judged or gone,
\* and has no owner as long as no new helper gets its pid.
LEMMA SweepingStep ==
  ASSUME TypeInv, \A g \in Helpers : Sweeping(g), Next
  PROVE  \A g \in Helpers : Sweeping(g)'
<1> SUFFICES ASSUME NEW h \in Helpers, HelperStep(h) PROVE \A g \in Helpers : Sweeping(g)'
  BY DEF Next, HelperStep
<1> USE DEF Sweeping, Alive
<1>1. ASSUME NEW p \in Pids, Launch(h, p)
     PROVE  \A g \in Helpers : Sweeping(g)'
  <2>1. /\ proc[h] = "absent" /\ proc' = [proc EXCEPT ![h] = "alive"]
        /\ pid' = [pid EXCEPT ![h] = p] /\ pc' = [pc EXCEPT ![h] = EntryPoint(request[h])]
        /\ doomed' = [g \in Helpers |-> {n \in doomed[g] : n[1] # p}]
        /\ UNCHANGED <<dirs, scan, judged>>
    BY <1>1 DEF Launch, Start
  <2>2. EntryPoint(request[h]) # "sweep"
    BY DEF EntryPoint
  <2>3. \A q \in Pids : PidInUse(q)' => PidInUse(q) \/ q = p
    BY <2>1 DEF PidInUse, TypeInv, TypeOK, ProxyTypeOK
  <2>4. ASSUME NEW g \in Helpers, NEW n \in doomed'[g]
        PROVE  ~PidInUse(n[1])' /\ n \in doomed[g]
    <3>1. n \in doomed[g] /\ n[1] # p
      BY <2>1, <2>4
    <3>2. n[1] \in Pids
      BY <3>1 DEF TypeInv, TypeOK, ProxyTypeOK, Names
    <3> QED BY <2>3, <3>1, <3>2
  <2>5. \A g \in Helpers : pc'[g] = "sweep" => pc[g] = "sweep"
    BY <2>1, <2>2 DEF TypeInv, TypeOK, ProxyTypeOK
  <2> QED BY <2>1, <2>4, <2>5
<1>2. ASSUME PlanRoutes(h), UNCHANGED stageVars
     PROVE  \A g \in Helpers : Sweeping(g)'
  <2>1. /\ pc' = [pc EXCEPT ![h] = "sweep"] /\ UNCHANGED <<proc, pid, dirs, judged>>
        /\ scan' = [scan EXCEPT ![h] = {n \in Names : dirs[n] # NoDir}]
        /\ doomed' = [doomed EXCEPT ![h] = {n \in Names : dirs[n] # NoDir /\ ~PidInUse(n[1])}]
    BY <1>2 DEF PlanRoutes, Goes
  <2> QED BY <2>1 DEF TypeInv, TypeOK, ProxyTypeOK, PidInUse
<1>3. ASSUME NEW n \in Names, SweepEntry(h, n), UNCHANGED stageVars
     PROVE  \A g \in Helpers : Sweeping(g)'
  <2>1. /\ pc[h] = "sweep" /\ judged[h] = NoName
        /\ scan' = [scan EXCEPT ![h] = @ \ {n}]
        /\ judged' = [judged EXCEPT ![h] = IF OwnerDead(n) THEN n ELSE NoName]
        /\ UNCHANGED <<proc, pid, pc, dirs, doomed>>
    BY <1>3 DEF SweepEntry
  <2>2. \A g \in Helpers : g # h => scan'[g] = scan[g] /\ judged'[g] = judged[g]
    BY <2>1 DEF TypeInv, TypeOK, ProxyTypeOK
  <2>3. \A g \in Helpers : g # h => Sweeping(g)'
    BY <2>1, <2>2 DEF PidInUse
  <2>4. ASSUME NEW m \in doomed[h]
        PROVE  m \in scan'[h] \/ judged'[h] = m \/ dirs[m] = NoDir
    <3>1. m # NoName
      BY ProxyAssumption DEF TypeInv, TypeOK, ProxyTypeOK
    <3>2. m \in scan[h] \/ dirs[m] = NoDir
      BY <2>1, <3>1
    <3>3. CASE m = n
      <4>1. OwnerDead(n)
        BY <3>3 DEF OwnerDead
      <4> QED BY <2>1, <3>3, <4>1 DEF TypeInv, TypeOK, ProxyTypeOK
    <3>4. CASE m # n
      BY <2>1, <3>2, <3>4 DEF TypeInv, TypeOK, ProxyTypeOK
    <3> QED BY <3>3, <3>4
  <2>5. Sweeping(h)'
    BY <2>1, <2>4 DEF PidInUse
  <2> QED BY <2>3, <2>5
<1>4. ASSUME RemoveJudged(h), UNCHANGED stageVars
     PROVE  \A g \in Helpers : Sweeping(g)'
  <2>1. /\ judged[h] # NoName /\ dirs' = [dirs EXCEPT ![judged[h]] = NoDir]
        /\ judged' = [judged EXCEPT ![h] = NoName] /\ UNCHANGED <<proc, pid, pc, scan, doomed>>
    BY <1>4 DEF RemoveJudged
  <2>2. \A n \in Names : dirs[n] = NoDir => dirs'[n] = NoDir
    BY <2>1 DEF TypeInv, TypeOK, ProxyTypeOK
  <2>3. dirs'[judged[h]] = NoDir
    BY <2>1 DEF TypeInv, TypeOK, ProxyTypeOK
  <2>4. \A g \in Helpers : doomed[g] \subseteq Names
    BY DEF TypeInv, TypeOK, ProxyTypeOK
  <2>5. \A g \in Helpers : judged'[g] = judged[g] \/ g = h
    BY <2>1 DEF TypeInv, TypeOK, ProxyTypeOK
  <2> QED BY <2>1, <2>2, <2>3, <2>4, <2>5 DEF PidInUse
<1>5. ASSUME MakeDir(h), UNCHANGED stageVars
     PROVE  \A g \in Helpers : Sweeping(g)'
  <2>1. PICK n \in Names : /\ n[1] = pid[h] /\ dirs' = [dirs EXCEPT ![n] = EmptyDir(h)]
    BY <1>5, FreeName
  <2>2. /\ Alive(h) /\ pc' = [pc EXCEPT ![h] = "spawn"] /\ doomed' = [doomed EXCEPT ![h] = {}]
        /\ UNCHANGED <<proc, pid, scan, judged>>
    BY <1>5 DEF MakeDir, Goes
  <2>3. PidInUse(n[1])
    BY <2>1, <2>2 DEF PidInUse
  <2>4. ASSUME NEW g \in Helpers, NEW m \in doomed[g], dirs[m] = NoDir PROVE dirs'[m] = NoDir
    BY <2>1, <2>3, <2>4 DEF TypeInv, TypeOK, ProxyTypeOK
  <2> QED BY <2>2, <2>4 DEF PidInUse, TypeInv, TypeOK, ProxyTypeOK
<1>6. ASSUME ForkBridge(h), UNCHANGED stageVars
     PROVE  \A g \in Helpers : Sweeping(g)'
  <2>1. UNCHANGED <<proc, pid, pc, dirs, scan, judged, doomed>>
    BY <1>6 DEF ForkBridge
  <2> QED BY <2>1 DEF PidInUse
<1>7. ASSUME StartWorker(h), UNCHANGED stageVars
     PROVE  \A g \in Helpers : Sweeping(g)'
  <2>1. /\ pc' \in {[pc EXCEPT ![h] = s] : s \in {"prepared", "launch", "command", "supervising"}}
        /\ UNCHANGED <<proc, pid, dirs, scan, judged, doomed>>
    BY <1>7 DEF StartWorker, Goes
  <2>2. \A g \in Helpers : pc'[g] = "sweep" => pc[g] = "sweep"
    BY <2>1 DEF TypeInv, TypeOK, ProxyTypeOK
  <2> QED BY <2>1, <2>2 DEF PidInUse
<1>8. ASSUME NEW e \in Endpoints, Arm(h, e), UNCHANGED stageVars
     PROVE  \A g \in Helpers : Sweeping(g)'
  <2>1. UNCHANGED <<proc, pid, pc, dirs, scan, judged, doomed>>
    BY <1>8 DEF Arm, Becomes
  <2> QED BY <2>1 DEF PidInUse
<1>9. ASSUME NEW e \in Endpoints, Bind(h, e), UNCHANGED stageVars
     PROVE  \A g \in Helpers : Sweeping(g)'
  <2>1. UNCHANGED <<proc, pid, pc, judged, scan, doomed>>
    BY <1>9 DEF Bind
  <2>2. \A n \in Names : dirs[n] = NoDir => dirs'[n] = NoDir
    BY <1>9, BindKeeps
  <2>3. \A g \in Helpers : doomed[g] \subseteq Names
    BY DEF TypeInv, TypeOK, ProxyTypeOK
  <2> QED BY <2>1, <2>2, <2>3 DEF PidInUse
<1>10. ASSUME NEW e \in Endpoints, Announce(h, e), UNCHANGED stageVars
     PROVE  \A g \in Helpers : Sweeping(g)'
  <2>1. UNCHANGED <<proc, pid, pc, dirs, scan, judged, doomed>>
    BY <1>10 DEF Announce, Becomes
  <2> QED BY <2>1 DEF PidInUse
<1>11. ASSUME NEW e \in Endpoints, BridgeTerminated(h, e), UNCHANGED stageVars
     PROVE  \A g \in Helpers : Sweeping(g)'
  <2>1. UNCHANGED <<proc, pid, pc, dirs, scan, judged, doomed>>
    BY <1>11 DEF BridgeTerminated, Becomes
  <2> QED BY <2>1 DEF PidInUse
<1>12. ASSUME NEW e \in Endpoints, ReapBridge(h, e), UNCHANGED stageVars
     PROVE  \A g \in Helpers : Sweeping(g)'
  <2>1. UNCHANGED <<proc, pid, pc, dirs, scan, judged, doomed>>
    BY <1>12 DEF ReapBridge, Becomes
  <2> QED BY <2>1 DEF PidInUse
<1>13. ASSUME NEW e \in Endpoints, BridgeFails(h, e), UNCHANGED stageVars
     PROVE  \A g \in Helpers : Sweeping(g)'
  <2>1. UNCHANGED <<proc, pid, pc, dirs, scan, judged, doomed>>
    BY <1>13 DEF BridgeFails, Becomes
  <2> QED BY <2>1 DEF PidInUse
<1>14. ASSUME WorkerLooks(h), UNCHANGED stageVars
     PROVE  \A g \in Helpers : Sweeping(g)'
  <2>1. UNCHANGED <<proc, pid, pc, dirs, scan, judged, doomed>>
    BY <1>14 DEF WorkerLooks
  <2> QED BY <2>1 DEF PidInUse
<1>15. ASSUME WorkerRemoves(h), UNCHANGED stageVars
     PROVE  \A g \in Helpers : Sweeping(g)'
  <2>1. /\ dirs' = [dirs EXCEPT ![dir[h]] = NoDir]
        /\ UNCHANGED <<proc, pid, pc, judged, scan, doomed>>
    BY <1>15 DEF WorkerRemoves
  <2>2. \A n \in Names : dirs[n] = NoDir => dirs'[n] = NoDir
    BY <2>1 DEF TypeInv, TypeOK, ProxyTypeOK
  <2>3. \A g \in Helpers : doomed[g] \subseteq Names
    BY DEF TypeInv, TypeOK, ProxyTypeOK
  <2> QED BY <2>1, <2>2, <2>3 DEF PidInUse
<1>16. ASSUME KillWorker(h), UNCHANGED stageVars
     PROVE  \A g \in Helpers : Sweeping(g)'
  <2>1. UNCHANGED <<proc, pid, pc, dirs, scan, judged, doomed>>
    BY <1>16 DEF KillWorker
  <2> QED BY <2>1 DEF PidInUse
<1>17. ASSUME Reap(h), UNCHANGED stageVars
     PROVE  \A g \in Helpers : Sweeping(g)'
  <2>1. /\ proc' = [proc EXCEPT ![h] = "gone"]
        /\ UNCHANGED <<pid, pc, dirs, scan, judged, doomed>>
    BY <1>17 DEF Reap
  <2>2. \A q \in Pids : PidInUse(q)' => PidInUse(q)
    BY <2>1 DEF PidInUse, TypeInv, TypeOK, ProxyTypeOK
  <2>3. \A g \in Helpers : \A n \in doomed[g] : n[1] \in Pids
    BY DEF TypeInv, TypeOK, ProxyTypeOK, Names
  <2> QED BY <2>1, <2>2, <2>3
<1>18. ASSUME ConfineAndExec(h)
     PROVE  \A g \in Helpers : Sweeping(g)'
  <2>1. /\ pc' \in {[pc EXCEPT ![h] = s] : s \in {"prepared", "launch", "command", "supervising"}}
        /\ UNCHANGED <<proc, pid, dirs, scan, judged, doomed>>
    BY <1>18 DEF ConfineAndExec, Goes
  <2>2. \A g \in Helpers : pc'[g] = "sweep" => pc[g] = "sweep"
    BY <2>1 DEF TypeInv, TypeOK, ProxyTypeOK
  <2> QED BY <2>1, <2>2 DEF PidInUse
<1>19. ASSUME Preflight(h)
     PROVE  \A g \in Helpers : Sweeping(g)'
  <2>1. /\ pc' \in {[pc EXCEPT ![h] = s] : s \in {"prepared", "launch", "command", "supervising"}}
        /\ UNCHANGED <<proc, pid, dirs, scan, judged, doomed>>
    BY <1>19 DEF Preflight, Goes
  <2>2. \A g \in Helpers : pc'[g] = "sweep" => pc[g] = "sweep"
    BY <2>1 DEF TypeInv, TypeOK, ProxyTypeOK
  <2> QED BY <2>1, <2>2 DEF PidInUse
<1>20. ASSUME RunBubblewrap(h)
     PROVE  \A g \in Helpers : Sweeping(g)'
  <2>1. /\ pc' \in {[pc EXCEPT ![h] = s] : s \in {"prepared", "launch", "command", "supervising"}}
        /\ UNCHANGED <<proc, pid, dirs, scan, judged, doomed>>
    BY <1>20 DEF RunBubblewrap, Goes
  <2>2. \A g \in Helpers : pc'[g] = "sweep" => pc[g] = "sweep"
    BY <2>1 DEF TypeInv, TypeOK, ProxyTypeOK
  <2> QED BY <2>1, <2>2 DEF PidInUse
<1>21. ASSUME NEW i \in Indexes, NEW port \in Ports, SpawnLocalBridge(h, i, port)
     PROVE  \A g \in Helpers : Sweeping(g)'
  <2>1. UNCHANGED <<proc, pid, pc, dirs, scan, judged, doomed>>
    BY <1>21 DEF SpawnLocalBridge
  <2> QED BY <2>1 DEF PidInUse
<1>22. ASSUME RaiseLoopback(h)
     PROVE  \A g \in Helpers : Sweeping(g)'
  <2>1. UNCHANGED <<proc, pid, pc, dirs, scan, judged, doomed>>
    BY <1>22 DEF RaiseLoopback
  <2> QED BY <2>1 DEF PidInUse
<1>23. ASSUME RewriteEnv(h)
     PROVE  \A g \in Helpers : Sweeping(g)'
  <2>1. UNCHANGED <<proc, pid, pc, dirs, scan, judged, doomed>>
    BY <1>23 DEF RewriteEnv
  <2> QED BY <2>1 DEF PidInUse
<1>24. ASSUME InnerConfines(h)
     PROVE  \A g \in Helpers : Sweeping(g)'
  <2>1. UNCHANGED <<proc, pid, pc, dirs, scan, judged, doomed>>
    BY <1>24 DEF InnerConfines
  <2> QED BY <2>1 DEF PidInUse
<1>25. ASSUME InnerExecs(h)
     PROVE  \A g \in Helpers : Sweeping(g)'
  <2>1. UNCHANGED <<proc, pid, pc, dirs, scan, judged, doomed>>
    BY <1>25 DEF InnerExecs
  <2> QED BY <2>1 DEF PidInUse
<1>26. ASSUME InnerEnds(h)
     PROVE  \A g \in Helpers : Sweeping(g)'
  <2>1. UNCHANGED <<proc, pid, pc, dirs, scan, judged, doomed>>
    BY <1>26 DEF InnerEnds
  <2> QED BY <2>1 DEF PidInUse
<1>27. ASSUME Dies(h), UNCHANGED <<pc, stageVars>>
     PROVE  \A g \in Helpers : Sweeping(g)'
  <2>1. /\ proc[h] = "alive" /\ proc' = [proc EXCEPT ![h] = "zombie"]
        /\ scan' = [scan EXCEPT ![h] = {}] /\ judged' = [judged EXCEPT ![h] = NoName]
        /\ doomed' = [doomed EXCEPT ![h] = {}] /\ UNCHANGED <<pid, pc, dirs>>
    BY <1>27 DEF Dies
  <2>2. \A q \in Pids : PidInUse(q)' => PidInUse(q)
    BY <2>1 DEF PidInUse, TypeInv, TypeOK, ProxyTypeOK
  <2>3. \A g \in Helpers : \A n \in doomed[g] : n[1] \in Pids
    BY DEF TypeInv, TypeOK, ProxyTypeOK, Names
  <2> QED BY <2>1, <2>2, <2>3 DEF TypeInv, TypeOK, ProxyTypeOK
<1> QED
  BY <1>1, <1>2, <1>3, <1>4, <1>5, <1>6, <1>7, <1>8, <1>9, <1>10, <1>11, <1>12, <1>13, <1>14,
       <1>15, <1>16, <1>17, <1>18, <1>19, <1>20, <1>21, <1>22, <1>23, <1>24, <1>25, <1>26, <1>27
       DEF HelperStep, Inside, Prepare, BridgeStep, WorkerStep, Exit, Kill
-----------------------------------------------------------------------------
(* The invariant of the specification                                       *)

\* The invariant holds at the start.
LEMMA StagesInit == Init => StagesInv
<1> SUFFICES ASSUME Init PROVE StagesInv
  OBVIOUS
<1>1. TypeInv
  BY TypeInit
<1>2. /\ proc = [h \in Helpers |-> "absent"] /\ pc = [h \in Helpers |-> "start"]
      /\ inner = [h \in Helpers |-> "none"] /\ dir = [h \in Helpers |-> NoName]
      /\ judged = [h \in Helpers |-> NoName] /\ scan = [h \in Helpers |-> {}]
      /\ worker = [h \in Helpers |-> "none"] /\ br = [b \in Bridges |-> "none"]
      /\ announced = {} /\ fresh = {} /\ doomed = [h \in Helpers |-> {}]
      /\ local = [h \in Helpers |-> [i \in Indexes |-> NoBridgeAt]]
  BY DEF Init, ProxyInit
<1>3. \A h \in Helpers : Position(h)
  BY <1>2 DEF Position
<1>4. \A h \in Helpers : Confinement(h)
  BY <1>2 DEF Confinement
<1>5. \A h \in Helpers : LocalBridges(h)
  BY <1>2 DEF LocalBridges, NoBridgeAt
<1>6. \A h \in Helpers : Bridging(h)
  BY <1>2 DEF Bridging, Bridges
<1>7. PidsApart
  BY <1>2 DEF PidsApart
<1>8. NamesAreSoiled
  <2>1. \A n \in Names : dirs[n] # NoDir => n[1] \in soiled
    BY DEF Init, ProxyInit
  <2> QED BY <1>2, <2>1 DEF NamesAreSoiled
<1>9. \A h \in Helpers : NobodyHolds(h) /\ DirectoryKept(h) /\ SocketsKept(h)
  BY <1>2 DEF NobodyHolds, DirectoryKept, SocketsKept
<1>10. \A h \in Helpers : Sweeping(h)
  BY <1>2 DEF Sweeping
<1> QED BY <1>1, <1>3, <1>4, <1>5, <1>6, <1>7, <1>8, <1>9, <1>10 DEF StagesInv

\* Every step of the system keeps the invariant.
LEMMA StagesStep == StagesInv /\ [Next]_vars => StagesInv'
<1> SUFFICES ASSUME StagesInv, [Next]_vars PROVE StagesInv'
  OBVIOUS
<1>1. CASE Next
  <2>1. TypeInv'
    BY <1>1, TypeStep DEF StagesInv
  <2>2. \A h \in Helpers : Position(h)'
    BY <1>1, PositionStep DEF StagesInv
  <2>3. \A h \in Helpers : Confinement(h)'
    BY <1>1, ConfinementStep DEF StagesInv
  <2>4. \A h \in Helpers : LocalBridges(h)'
    BY <1>1, LocalBridgesStep DEF StagesInv
  <2>5. \A h \in Helpers : Bridging(h)'
    BY <1>1, BridgingStep DEF StagesInv
  <2>6. PidsApart'
    BY <1>1, PidsApartStep DEF StagesInv
  <2>7. NamesAreSoiled'
    BY <1>1, NamesAreSoiledStep DEF StagesInv
  <2>8. \A h \in Helpers : NobodyHolds(h)'
    BY <1>1, NobodyHoldsStep DEF StagesInv
  <2>9. \A h \in Helpers : DirectoryKept(h)' /\ SocketsKept(h)'
    BY <1>1, KeptStep DEF StagesInv
  <2>10. \A h \in Helpers : Sweeping(h)'
    BY <1>1, SweepingStep DEF StagesInv
  <2> QED
    BY <2>1, <2>2, <2>3, <2>4, <2>5, <2>6, <2>7, <2>8, <2>9, <2>10 DEF StagesInv
<1>2. CASE UNCHANGED vars
  <2> USE <1>2 DEF vars
  <2>1. TypeInv'
    BY DEF StagesInv, TypeInv, TypeOK, ProxyTypeOK
  <2>2. \A h \in Helpers : Position(h)' /\ Confinement(h)'
    BY DEF StagesInv, Position, Confinement
  <2>3. \A h \in Helpers : LocalBridges(h)'
    BY DEF StagesInv, LocalBridges, Rewritten
  <2>4. \A h \in Helpers : Bridging(h)'
    BY DEF StagesInv, Bridging, Alive
  <2>5. PidsApart' /\ NamesAreSoiled'
    BY DEF StagesInv, PidsApart, NamesAreSoiled
  <2>6. \A h \in Helpers : NobodyHolds(h)' /\ DirectoryKept(h)' /\ SocketsKept(h)'
    BY DEF StagesInv, NobodyHolds, DirectoryKept, SocketsKept, Alive
  <2>7. \A h \in Helpers : Sweeping(h)'
    BY DEF StagesInv, Sweeping, PidInUse
  <2> QED BY <2>1, <2>2, <2>3, <2>4, <2>5, <2>6, <2>7 DEF StagesInv
<1> QED BY <1>1, <1>2

\* The invariant of the stages and proxy routes always holds.
THEOREM StagesAlwaysInv == Spec => []StagesInv
BY StagesInit, StagesStep, PTL DEF Spec

\* The variables of the helper and its stages keep their types (TypeOK).
THEOREM StagesTyped == Spec => []TypeOK
<1>1. StagesInv => TypeOK
  BY DEF StagesInv, TypeInv
<1> QED BY <1>1, StagesAlwaysInv, PTL

-----------------------------------------------------------------------------
(* What the invariant says of the code                                      *)

\* What restricts a command that runs in the place of its helper
\* (ConfineAndExec: the full-access and the legacy path of run_main)
LEMMA ConfinedHere ==
  ASSUME StagesInv, NEW h \in Helpers, pc[h] = "command"
  PROVE  LET r == request[h]
             c == confined[h]
         IN /\ ~r.network \/ r.managed => c.nnp /\ c.filter = "unix"
            /\ ~r.fullWrite => c.landlock /\ c.nnp /\ r.fullRead /\ ~r.direct
            /\ c.netns = FALSE
<1> DEFINE r == request[h]
           l == LandlockOf(r)
<1>1. /\ r \in Requests /\ EntryPoint(r) = "here"
      /\ LegacySupported(r) /\ CanRestrict(r, l)
      /\ confined[h] = Restricted(r, Unconfined, l, FALSE)
  BY DEF StagesInv, Position, Confinement
<1>2. (r.fullWrite /\ ~r.managed) \/ r.legacy
  BY <1>1 DEF EntryPoint
<1>3. SeccompMode(r, FALSE) = IF r.network /\ ~r.managed THEN "none" ELSE "unix"
  BY DEF SeccompMode
<1>4. /\ confined[h].filter = SeccompMode(r, FALSE)
      /\ confined[h].nnp = (SeccompMode(r, FALSE) # "none" \/ (l /\ ~r.fullWrite))
      /\ confined[h].landlock = (l /\ ~r.fullWrite)
      /\ confined[h].netns = FALSE
  BY <1>1 DEF Restricted, Unconfined
<1>5. ~r.fullWrite => l /\ r.fullRead /\ ~r.direct
  BY <1>1, <1>2 DEF LandlockOf, LegacySupported, CanRestrict, Requests
<1> QED BY <1>1, <1>3, <1>4, <1>5 DEF Requests

\* What restricts a command that runs inside bubblewrap (RunBubblewrap, then
\* InnerConfines)
LEMMA ConfinedInside ==
  ASSUME StagesInv, NEW h \in Helpers, inner[h] = "command"
  PROVE  LET r == request[h]
             c == confined[h]
         IN /\ ~r.network \/ r.managed => c.nnp
            /\ ~r.network \/ r.managed => c.filter = IF r.managed THEN "ip" ELSE "unix"
            /\ r.managed => c.netns
            /\ ~r.fullWrite => c.mounts
            /\ r.managed => \A k \in Routed(h) : routes[h][k] # NoPort
<1> DEFINE r == request[h]
<1>1. r \in Requests /\ confined[h] = Restricted(r, Flags(r), FALSE, r.managed)
  BY DEF StagesInv, Position, Confinement
<1>2. SeccompMode(r, r.managed) =
        IF r.network /\ ~r.managed THEN "none" ELSE IF r.managed THEN "ip" ELSE "unix"
  BY DEF SeccompMode
<1>3. /\ confined[h].filter = SeccompMode(r, r.managed)
      /\ confined[h].nnp = (SeccompMode(r, r.managed) # "none")
      /\ confined[h].netns = Flags(r).netns /\ confined[h].mounts = Flags(r).mounts
  BY <1>1, FlagsTyped DEF Restricted, Confinements
<1>4. Flags(r).netns = NetworkUnshared(r) /\ (~r.fullWrite => Flags(r).mounts = TRUE)
  BY DEF Flags, FilesystemFlags, FullFilesystemFlags, Unconfined
<1>5. r.managed => \A k \in Routed(h) : routes[h][k] # NoPort
  BY DEF StagesInv, LocalBridges
<1> QED BY <1>1, <1>2, <1>3, <1>4, <1>5 DEF NetworkUnshared, Requests

\* Whatever the flags, the profile and the host, a sandboxed command runs under all
\* that its profile asks for (run_main, network_seccomp_mode, bwrap_network_mode).
THEOREM ConfinedAlways == Spec => []CommandIsConfined
<1>1. ASSUME StagesInv PROVE CommandIsConfined
  <2> SUFFICES ASSUME NEW h \in Helpers, CommandRuns(h)
               PROVE  LET r == request[h]
                          c == confined[h]
                      IN /\ ~r.network \/ r.managed =>
                              c.nnp /\ ("ip" \in SocketsAllowed(c.filter) =>
                                          c.netns /\ "unix" \notin SocketsAllowed(c.filter))
                         /\ ~r.fullWrite =>
                              c.mounts \/ (c.landlock /\ c.nnp /\ r.fullRead /\ ~r.direct)
                         /\ r.managed /\ c.netns => \A k \in Routed(h) : routes[h][k] # NoPort
    BY DEF CommandIsConfined
  <2>1. SocketsAllowed("unix") = {"unix"} /\ SocketsAllowed("ip") = {"ip"}
    BY DEF SocketsAllowed
  <2>2. CASE pc[h] = "command"
    BY <1>1, <2>1, <2>2, ConfinedHere
  <2>3. CASE inner[h] = "command"
    BY <1>1, <2>1, <2>3, ConfinedInside
  <2> QED BY <2>2, <2>3 DEF CommandRuns
<1> QED BY <1>1, StagesAlwaysInv, PTL

\* Nobody removes or replaces the socket directory of a running helper with an unused
\* pid (cleanup_stale_proxy_socket_dirs_in, spawn_proxy_socket_dir_cleanup_worker).
THEOREM DirectoryAlwaysKept == Spec => []LiveDirectoryKept
<1>1. StagesInv => LiveDirectoryKept
  BY DEF StagesInv, LiveDirectoryKept, DirectoryKept, TypeInv, TypeOK, ProxyTypeOK
<1> QED BY <1>1, StagesAlwaysInv, PTL

\* The one socket that a proxy variable leads to
LEMMA OneSocket ==
  ASSUME StagesInv, NEW h \in Helpers, inner[h] = "command", request[h].managed,
         NEW k \in Routed(h)
  PROVE  {i \in Indexes : /\ local[h][i].port = routes[h][k]
                          /\ "unix" \in SocketsAllowed(local[h][i].filter)}
           = {SocketIndex(h, Env[h][k])}
<1> DEFINE s == SocketIndex(h, Env[h][k])
<1>1. s \in Indexes
  BY SocketIndexInRange DEF EndpointsOf
<1>2. local[h][s].port # NoPort /\ routes[h][k] = local[h][s].port
  BY DEF StagesInv, LocalBridges, Rewritten
<1>3. \A i \in Indexes : i # s => local[h][i].port # local[h][s].port
  BY <1>1, <1>2 DEF StagesInv, LocalBridges
<1>4. \A i \in Indexes : "unix" \in SocketsAllowed(local[h][i].filter)
  BY DEF StagesInv, LocalBridges, SocketsAllowed
<1> HIDE DEF s
<1>5. ASSUME NEW i \in Indexes
      PROVE  local[h][i].port = routes[h][k] <=> i = s
  BY <1>2, <1>3
<1> DEFINE at == {i \in Indexes : /\ local[h][i].port = routes[h][k]
                                  /\ "unix" \in SocketsAllowed(local[h][i].filter)}
<1>6. \A i \in Indexes : i \in at <=> i = s
  BY <1>4, <1>5
<1>7. at \subseteq Indexes
  OBVIOUS
<1>8. at = {s}
  <2> HIDE DEF at
  <2> QED BY <1>1, <1>6, <1>7
<1> QED BY <1>8 DEF s

\* Inside a sandbox that shows the socket directory every proxy variable leads to the
\* endpoint it named on the host; it never leads to another one, and where the directory
\* is not shown to none at all (prepare_host_proxy_route_spec,
\* activate_proxy_routes_in_netns, create_filesystem_args).
THEOREM RoutesAlwaysReach == Spec => []RoutesReachTheirEndpoint
<1>1. ASSUME StagesInv PROVE RoutesReachTheirEndpoint
  <2> SUFFICES ASSUME NEW h \in Helpers, inner[h] = "command", request[h].managed,
                      Alive(h), h \in fresh
               PROVE  /\ dirs[dir[h]] # NoDir
                      /\ \A k \in Routed(h) :
                           Reached(h, k) =
                             IF BridgeRuns(h, Env[h][k]) /\ SocketsShown(request[h])
                             THEN {Env[h][k]} ELSE {}
    BY DEF RoutesReachTheirEndpoint
  <2>1. worker[h] # "none" /\ dir[h] # NoName
    BY <1>1 DEF StagesInv, Position, Bridging
  <2>2. dirs[dir[h]] # NoDir
    BY <1>1, <2>1 DEF StagesInv, DirectoryKept
  <2>3. ASSUME NEW k \in Routed(h)
        PROVE  Reached(h, k) = IF BridgeRuns(h, Env[h][k]) /\ SocketsShown(request[h])
                               THEN {Env[h][k]} ELSE {}
    <3> DEFINE e == Env[h][k]
               s == dirs[dir[h]].sock[SocketIndex(h, e)]
    <3>0. CASE ~SocketsShown(request[h])
      <4>1. {i \in Indexes : /\ local[h][i].port = routes[h][k]
                             /\ "unix" \in SocketsAllowed(local[h][i].filter)
                             /\ SocketsShown(request[h])} = {}
        BY <3>0
      <4>2. {dirs[dir[h]].sock[i] : i \in {}} = {}
        OBVIOUS
      <4>3. Reached(h, k) = {}
        BY <4>1, <4>2 DEF Reached
      <4> QED BY <3>0, <4>3
    <3>1. e \in EndpointsOf(h) /\ <<h, e>> \in announced
      BY <1>1, <2>1 DEF EndpointsOf, StagesInv, Bridging
    <3>2. s = <<h, e>>
      BY <1>1, <2>1, <3>1 DEF StagesInv, SocketsKept
    <3>3. <<h, e>> # NoBridge
      BY <3>1, EndpointsAreFinite, ProxyAssumption DEF Bridges
    <3>4. {i \in Indexes : /\ local[h][i].port = routes[h][k]
                           /\ "unix" \in SocketsAllowed(local[h][i].filter)} = {SocketIndex(h, e)}
      BY <1>1, OneSocket
    <3>5. ASSUME SocketsShown(request[h])
          PROVE  Reached(h, k) =
                   {b[2] : b \in {c \in {s} \ {NoBridge} : c[1] = h /\ BridgeRuns(c[1], c[2])}}
      BY <3>4, <3>5 DEF Reached
    <3>6. CASE SocketsShown(request[h]) /\ BridgeRuns(h, e)
      <4>1. {c \in {s} \ {NoBridge} : c[1] = h /\ BridgeRuns(c[1], c[2])} = {s}
        <5>1. s # NoBridge /\ s[1] = h /\ s[2] = e
          BY <3>2, <3>3
        <5> HIDE DEF s, e
        <5> QED BY <3>6, <5>1
      <4>2. {b[2] : b \in {s}} = {e}
        <5>1. s[2] = e
          BY <3>2
        <5> HIDE DEF s, e
        <5> QED BY <5>1
      <4> QED BY <3>5, <3>6, <4>1, <4>2
    <3>7. CASE SocketsShown(request[h]) /\ ~BridgeRuns(h, e)
      <4>1. {c \in {s} \ {NoBridge} : c[1] = h /\ BridgeRuns(c[1], c[2])} = {}
        BY <3>2, <3>7
      <4> QED BY <3>5, <3>7, <4>1
    <3> QED BY <3>0, <3>6, <3>7
  <2> QED BY <2>2, <2>3
<1> QED BY <1>1, StagesAlwaysInv, PTL


\* Only the directory of its own ends the sweep of a helper.
LEMMA OnlyMakeDirSpawns ==
  ASSUME TypeInv, Next, NEW h \in Helpers, pc[h] = "sweep", pc'[h] = "spawn"
  PROVE  MakeDir(h)
<1> SUFFICES ASSUME NEW g \in Helpers, HelperStep(g) PROVE MakeDir(h)
  BY DEF Next, HelperStep
<1>0. pc[h] = "sweep" /\ pc'[h] = "spawn"
  OBVIOUS
<1>1. ASSUME NEW p \in Pids, Launch(g, p)
     PROVE  MakeDir(h)
  <2>1. pc' = [pc EXCEPT ![g] = EntryPoint(request[g])] /\ EntryPoint(request[g]) # "spawn"
    BY <1>1 DEF Launch, EntryPoint
  <2> QED BY <2>1, <1>0 DEF TypeInv, TypeOK, ProxyTypeOK
<1>2. ASSUME PlanRoutes(g), UNCHANGED stageVars
     PROVE  MakeDir(h)
  <2>1. pc' = [pc EXCEPT ![g] = "sweep"]
    BY <1>2 DEF PlanRoutes, Goes
  <2> QED BY <2>1, <1>0 DEF TypeInv, TypeOK, ProxyTypeOK
<1>3. ASSUME NEW n \in Names, SweepEntry(g, n), UNCHANGED stageVars
     PROVE  MakeDir(h)
  <2>1. pc' = pc
    BY <1>3 DEF SweepEntry
  <2> QED BY <2>1, <1>0
<1>4. ASSUME RemoveJudged(g), UNCHANGED stageVars
     PROVE  MakeDir(h)
  <2>1. pc' = pc
    BY <1>4 DEF RemoveJudged
  <2> QED BY <2>1, <1>0
<1>5. ASSUME MakeDir(g), UNCHANGED stageVars
     PROVE  MakeDir(h)
  <2>1. pc' = [pc EXCEPT ![g] = "spawn"]
    BY <1>5 DEF MakeDir, Goes
  <2>2. g = h
    BY <2>1, <1>0 DEF TypeInv, TypeOK, ProxyTypeOK
  <2> QED BY <1>5, <2>2
<1>6. ASSUME ForkBridge(g), UNCHANGED stageVars
     PROVE  MakeDir(h)
  <2>1. pc' = pc
    BY <1>6 DEF ForkBridge
  <2> QED BY <2>1, <1>0
<1>7. ASSUME StartWorker(g), UNCHANGED stageVars
     PROVE  MakeDir(h)
  <2>1. pc' = [pc EXCEPT ![g] = "prepared"]
    BY <1>7 DEF StartWorker, Goes
  <2> QED BY <2>1, <1>0 DEF TypeInv, TypeOK, ProxyTypeOK
<1>8. ASSUME NEW e \in Endpoints, Arm(g, e), UNCHANGED stageVars
     PROVE  MakeDir(h)
  <2>1. pc' = pc
    BY <1>8 DEF Arm, Becomes
  <2> QED BY <2>1, <1>0
<1>9. ASSUME NEW e \in Endpoints, Bind(g, e), UNCHANGED stageVars
     PROVE  MakeDir(h)
  <2>1. pc' = pc
    BY <1>9 DEF Bind, Becomes
  <2> QED BY <2>1, <1>0
<1>10. ASSUME NEW e \in Endpoints, Announce(g, e), UNCHANGED stageVars
     PROVE  MakeDir(h)
  <2>1. pc' = pc
    BY <1>10 DEF Announce, Becomes
  <2> QED BY <2>1, <1>0
<1>11. ASSUME NEW e \in Endpoints, BridgeTerminated(g, e), UNCHANGED stageVars
     PROVE  MakeDir(h)
  <2>1. pc' = pc
    BY <1>11 DEF BridgeTerminated, Becomes
  <2> QED BY <2>1, <1>0
<1>12. ASSUME NEW e \in Endpoints, ReapBridge(g, e), UNCHANGED stageVars
     PROVE  MakeDir(h)
  <2>1. pc' = pc
    BY <1>12 DEF ReapBridge, Becomes
  <2> QED BY <2>1, <1>0
<1>13. ASSUME NEW e \in Endpoints, BridgeFails(g, e), UNCHANGED stageVars
     PROVE  MakeDir(h)
  <2>1. pc' = pc
    BY <1>13 DEF BridgeFails, Becomes
  <2> QED BY <2>1, <1>0
<1>14. ASSUME WorkerLooks(g), UNCHANGED stageVars
     PROVE  MakeDir(h)
  <2>1. pc' = pc
    BY <1>14 DEF WorkerLooks
  <2> QED BY <2>1, <1>0
<1>15. ASSUME WorkerRemoves(g), UNCHANGED stageVars
     PROVE  MakeDir(h)
  <2>1. pc' = pc
    BY <1>15 DEF WorkerRemoves
  <2> QED BY <2>1, <1>0
<1>16. ASSUME KillWorker(g), UNCHANGED stageVars
     PROVE  MakeDir(h)
  <2>1. pc' = pc
    BY <1>16 DEF KillWorker
  <2> QED BY <2>1, <1>0
<1>17. ASSUME Reap(g), UNCHANGED stageVars
     PROVE  MakeDir(h)
  <2>1. pc' = pc
    BY <1>17 DEF Reap
  <2> QED BY <2>1, <1>0
<1>18. ASSUME ConfineAndExec(g)
     PROVE  MakeDir(h)
  <2>1. pc' = [pc EXCEPT ![g] = "command"]
    BY <1>18 DEF ConfineAndExec, Goes
  <2> QED BY <2>1, <1>0 DEF TypeInv, TypeOK, ProxyTypeOK
<1>19. ASSUME Preflight(g)
     PROVE  MakeDir(h)
  <2>1. pc' = [pc EXCEPT ![g] = "launch"]
    BY <1>19 DEF Preflight, Goes
  <2> QED BY <2>1, <1>0 DEF TypeInv, TypeOK, ProxyTypeOK
<1>20. ASSUME RunBubblewrap(g)
     PROVE  MakeDir(h)
  <2>1. pc' = [pc EXCEPT ![g] = "supervising"]
    BY <1>20 DEF RunBubblewrap, Goes
  <2> QED BY <2>1, <1>0 DEF TypeInv, TypeOK, ProxyTypeOK
<1>21. ASSUME NEW i \in Indexes, NEW port \in Ports, SpawnLocalBridge(g, i, port)
     PROVE  MakeDir(h)
  <2>1. pc' = pc
    BY <1>21 DEF SpawnLocalBridge
  <2> QED BY <2>1, <1>0
<1>22. ASSUME RaiseLoopback(g)
     PROVE  MakeDir(h)
  <2>1. pc' = pc
    BY <1>22 DEF RaiseLoopback
  <2> QED BY <2>1, <1>0
<1>23. ASSUME RewriteEnv(g)
     PROVE  MakeDir(h)
  <2>1. pc' = pc
    BY <1>23 DEF RewriteEnv
  <2> QED BY <2>1, <1>0
<1>24. ASSUME InnerConfines(g)
     PROVE  MakeDir(h)
  <2>1. pc' = pc
    BY <1>24 DEF InnerConfines
  <2> QED BY <2>1, <1>0
<1>25. ASSUME InnerExecs(g)
     PROVE  MakeDir(h)
  <2>1. pc' = pc
    BY <1>25 DEF InnerExecs
  <2> QED BY <2>1, <1>0
<1>26. ASSUME InnerEnds(g)
     PROVE  MakeDir(h)
  <2>1. pc' = pc
    BY <1>26 DEF InnerEnds
  <2> QED BY <2>1, <1>0
<1>27. ASSUME Dies(g), UNCHANGED <<pc, stageVars>>
     PROVE  MakeDir(h)
  <2>1. pc' = pc
    BY <1>27 DEF Dies
  <2> QED BY <2>1, <1>0
<1> QED
  BY <1>1, <1>2, <1>3, <1>4, <1>5, <1>6, <1>7, <1>8, <1>9, <1>10, <1>11, <1>12, <1>13, <1>14,
       <1>15, <1>16, <1>17, <1>18, <1>19, <1>20, <1>21, <1>22, <1>23, <1>24, <1>25, <1>26, <1>27
       DEF HelperStep, Inside, Prepare, BridgeStep, WorkerStep, Exit, Kill

\* When a sweep is over, what killed helpers had left when it began is gone
\* (cleanup_stale_proxy_socket_dirs_in).
THEOREM SweepAlwaysTakesOrphans == Spec => SweepTakesOrphans
<1> DEFINE Taken == \A h \in Helpers :
             pc[h] = "sweep" /\ pc'[h] = "spawn" => \A n \in doomed[h] : dirs[n] = NoDir
<1>1. StagesInv /\ [Next]_vars => [Taken]_vars
  <2> SUFFICES ASSUME StagesInv, Next PROVE Taken
    OBVIOUS
  <2> SUFFICES ASSUME NEW h \in Helpers, pc[h] = "sweep", pc'[h] = "spawn", NEW n \in doomed[h]
               PROVE  dirs[n] = NoDir
    OBVIOUS
  <2>1. scan[h] = {} /\ judged[h] = NoName
    BY OnlyMakeDirSpawns DEF MakeDir, StagesInv
  <2>2. n \in Names
    BY DEF StagesInv, TypeInv, TypeOK, ProxyTypeOK
  <2>3. n \in scan[h] \/ judged[h] = n \/ dirs[n] = NoDir
    BY DEF StagesInv, Sweeping
  <2> QED BY <2>1, <2>2, <2>3, ProxyAssumption
<1>2. Spec => [][Taken]_vars
  BY <1>1, StagesAlwaysInv, PTL DEF Spec
<1> QED BY <1>2 DEF SweepTakesOrphans
=============================================================================
