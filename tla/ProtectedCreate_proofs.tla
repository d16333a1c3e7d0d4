------------------------- MODULE ProtectedCreate_proofs -------------------------
(***************************************************************************)
(* Proofs about ProtectedCreate, for any number of helpers and paths.       *)
(***************************************************************************)
EXTENDS ProtectedCreate, TLAPS

(***************************************************************************)
(* What a removal attempt can do to a path, and to the ghosts that describe *)
(* it (try_remove_protected_create_target): nothing, or the path is empty.  *)
(***************************************************************************)
LEMMA TryRemoveEffect ==
  ASSUME TypeOK, NEW x \in Paths, NEW result, TryRemove(x, result)
  PROVE  \/ /\ UNCHANGED <<host, made, real>>
            /\ result = "missing" => host[x] = "none"
         \/ /\ result = "removed"
            /\ host' = [host EXCEPT ![x] = "none"]
            /\ made' = [q \in Procs |-> made[q] \ {x}]
            /\ real' = real \ {x}
  BY DEF TryRemove, Clear, Missing

(***************************************************************************)
(* A host without files and without helpers satisfies the invariant.        *)
(***************************************************************************)
LEMMA InitInvariant == Init => IInv
  BY DEF Init, IInv, TypeOK, PhaseInv, ScopeInv, CleanupInv, RealInv,
     SuccessLeavesNothing

(***************************************************************************)
(* Planning and registering keep the invariant: a target is a path that was *)
(* missing, so it holds nothing of anybody, and a new run has made nothing. *)
(***************************************************************************)
LEMMA StartInvariant ==
  ASSUME IInv, NEW p \in Procs, Plan(p) \/ RegisterProtectedCreateTargets(p)
  PROVE  IInv'
<1> USE DEF IInv, TypeOK, Missing, PathExists
<1>1. CASE Plan(p)
  <2>1. PICK S \in SUBSET Paths :
          /\ \A x \in S : host[x] = "none"
          /\ want' = [want EXCEPT ![p] = S]
    BY <1>1 DEF Plan, Plannable
  <2>2. /\ pc[p] = "off" /\ ~child[p]
        /\ pc' = [pc EXCEPT ![p] = "planned"]
        /\ code' = [code EXCEPT ![p] = "none"]
        /\ violation' = [violation EXCEPT ![p] = FALSE]
        /\ made' = [made EXCEPT ![p] = {}]
        /\ UNCHANGED <<host, marker, child, mon, todo, seen, real>>
    BY <1>1 DEF Plan
  <2>3. TypeOK'
    BY <2>1, <2>2
  <2>4. PhaseInv' /\ CleanupInv' /\ SuccessLeavesNothing'
    BY <2>1, <2>2 DEF PhaseInv, CleanupInv, SuccessLeavesNothing
  <2>5. ScopeInv'
    BY <2>1, <2>2 DEF PhaseInv, ScopeInv
  <2>6. RealInv'
    BY <2>1, <2>2 DEF RealInv
  <2> QED
    BY <2>3, <2>4, <2>5, <2>6
<1>2. CASE RegisterProtectedCreateTargets(p)
  <2>1. TypeOK'
    BY <1>2 DEF RegisterProtectedCreateTargets
  <2>2. PhaseInv' /\ CleanupInv' /\ SuccessLeavesNothing'
    BY <1>2 DEF RegisterProtectedCreateTargets, PhaseInv, CleanupInv,
       SuccessLeavesNothing
  <2>3. ScopeInv' /\ RealInv'
    BY <1>2 DEF RegisterProtectedCreateTargets, ScopeInv, RealInv
  <2> QED
    BY <2>1, <2>2, <2>3
<1> QED
  BY <1>1, <1>2

(***************************************************************************)
(* A helper that disappears, without success or with nothing left of what   *)
(* its sandbox made, keeps the invariant (exit, panic and SIGKILL).         *)
(***************************************************************************)
LEMMA VanishInvariant ==
  ASSUME IInv, NEW p \in Procs, NEW how \in {"zero", "nonzero", "crashed"},
         pc[p] # "off", Vanish(p, how),
         how = "zero" => ~child[p] /\ \A x \in made[p] : ~PathExists(x),
         UNCHANGED <<host, child, made, real>>,
         marker' \in [Paths -> SUBSET Procs], violation' \in [Procs -> BOOLEAN],
         \A q \in Procs : q # p => violation'[q] = violation[q]
  PROVE  IInv'
<1> USE DEF IInv, TypeOK, Missing, PathExists, Vanish
<1>1. /\ want' \in [Procs -> SUBSET Paths]
      /\ \A q \in Procs : want'[q] \subseteq want[q]
      /\ \A q \in Procs : q # p => want'[q] = want[q]
  <2>1. CASE child[p]
    BY <2>1
  <2>2. CASE ~child[p]
    BY <2>2
  <2> QED
    BY <2>1, <2>2
<1>2. TypeOK'
  BY <1>1
<1>3. PhaseInv'
  BY DEF PhaseInv
<1>4. ScopeInv'
  BY <1>1 DEF ScopeInv
<1>5. CleanupInv' /\ SuccessLeavesNothing'
  BY DEF CleanupInv, SuccessLeavesNothing
<1>6. RealInv'
  BY <1>1 DEF RealInv
<1> QED
  BY <1>2, <1>3, <1>4, <1>5, <1>6

(***************************************************************************)
(* The monitor keeps the invariant: it looks at the targets of its run, and *)
(* it is gone when the cleanup uses the same worklist.                      *)
(***************************************************************************)
LEMMA MonitorInvariant ==
  ASSUME IInv, NEW p \in Procs, MonitorStep(p)
  PROVE  IInv'
<1> USE DEF IInv, TypeOK, Missing, PathExists
<1>1. CASE MonitorLoops(p)
  <2>1. TypeOK'
    BY <1>1 DEF MonitorLoops
  <2>2. PhaseInv' /\ CleanupInv' /\ SuccessLeavesNothing'
    BY <1>1 DEF MonitorLoops, PhaseInv, CleanupInv, SuccessLeavesNothing
  <2>3. ScopeInv' /\ RealInv'
    BY <1>1 DEF MonitorLoops, ScopeInv, RealInv
  <2> QED
    BY <2>1, <2>2, <2>3
<1>2. ASSUME NEW x \in Paths, MonitorLooks(p, x) PROVE IInv'
  <2>1. TypeOK'
    BY <1>2 DEF MonitorLooks
  <2>2. PhaseInv' /\ CleanupInv' /\ SuccessLeavesNothing'
    BY <1>2 DEF MonitorLooks, PhaseInv, CleanupInv, SuccessLeavesNothing
  <2>3. ScopeInv' /\ RealInv'
    BY <1>2 DEF MonitorLooks, ScopeInv, RealInv
  <2> QED
    BY <2>1, <2>2, <2>3
<1>3. ASSUME NEW x \in Paths, MonitorRemoves(p, x) PROVE IInv'
  <2>1. PICK result \in {"missing", "removed", "error"} :
          /\ TryRemove(x, result)
          /\ violation' = [violation EXCEPT ![p] = @ \/ result # "missing"]
    BY <1>3 DEF MonitorRemoves
  <2>2. /\ mon[p] = "pass" /\ seen' = [seen EXCEPT ![p] = {}]
        /\ UNCHANGED <<marker, pc, want, child, mon, todo, code>>
    BY <1>3 DEF MonitorRemoves
  <2>3. violation' \in [Procs -> BOOLEAN]
    BY <2>1
  <2>4. \A q \in Procs : q # p => violation'[q] = violation[q]
    BY <2>1
  <2>5. CASE UNCHANGED <<host, made, real>>
    <3>1. TypeOK'
      BY <2>2, <2>3, <2>5
    <3>2. PhaseInv' /\ ScopeInv' /\ RealInv' /\ SuccessLeavesNothing'
      BY <2>2, <2>5 DEF PhaseInv, ScopeInv, RealInv, SuccessLeavesNothing
    <3>3. CleanupInv'
      BY <2>2, <2>4, <2>5 DEF PhaseInv, CleanupInv
    <3> QED
      BY <3>1, <3>2, <3>3
  <2>6. CASE /\ host' = [host EXCEPT ![x] = "none"]
             /\ made' = [q \in Procs |-> made[q] \ {x}]
             /\ real' = real \ {x}
    <3>1. TypeOK'
      BY <2>2, <2>3, <2>6
    <3>2. PhaseInv' /\ ScopeInv' /\ RealInv' /\ SuccessLeavesNothing'
      BY <2>2, <2>6 DEF PhaseInv, ScopeInv, RealInv, SuccessLeavesNothing
    <3>3. CleanupInv'
      BY <2>2, <2>4, <2>6 DEF PhaseInv, CleanupInv
    <3> QED
      BY <3>1, <3>2, <3>3
  <2> QED
    BY <2>1, <2>5, <2>6, TryRemoveEffect
<1>4. CASE MonitorPassEnds(p)
  BY <1>4 DEF MonitorPassEnds, PhaseInv, ScopeInv, CleanupInv, RealInv,
     SuccessLeavesNothing
<1> QED
  BY <1>1, <1>2, <1>3, <1>4 DEF MonitorStep

(***************************************************************************)
(* The end of a run keeps the invariant: the cleanup starts with all        *)
(* targets before it, and passes over one only if it holds nothing the      *)
(* sandbox left, or notes the violation, or goes on to remove it.           *)
(***************************************************************************)
LEMMA CleanupInvariant ==
  ASSUME IInv, NEW p \in Procs,
         \/ StopMonitor(p) \/ JoinMonitor(p) \/ BeginCleanup(p)
         \/ CleanupStep(p) \/ Crash(p)
  PROVE  IInv'
<1> USE DEF IInv, TypeOK, Missing, PathExists
<1>1. CASE StopMonitor(p)
  BY <1>1 DEF StopMonitor, PhaseInv, ScopeInv, CleanupInv, RealInv,
     SuccessLeavesNothing
<1>2. CASE JoinMonitor(p) /\ violation[p]
  <2>1. PICK how \in ExitCodes(TRUE) : Vanish(p, how)
    BY <1>2 DEF JoinMonitor
  <2>2. how = "nonzero"
    BY DEF ExitCodes
  <2> QED
    BY <1>2, <2>1, <2>2, VanishInvariant DEF JoinMonitor
<1>3. CASE JoinMonitor(p) /\ ~violation[p]
  BY <1>3 DEF JoinMonitor, PhaseInv, ScopeInv, CleanupInv, RealInv,
     SuccessLeavesNothing
<1>4. CASE BeginCleanup(p)
  <2>1. TypeOK'
    BY <1>4 DEF BeginCleanup
  <2>2. PhaseInv' /\ RealInv' /\ SuccessLeavesNothing'
    BY <1>4 DEF BeginCleanup, PhaseInv, RealInv, SuccessLeavesNothing
  <2>3. ScopeInv' /\ CleanupInv'
    BY <1>4 DEF BeginCleanup, ScopeInv, CleanupInv
  <2> QED
    BY <2>1, <2>2, <2>3
<1>5. ASSUME NEW x \in Paths, Examine(p, x) PROVE IInv'
  <2>1. PICK reaped \in SUBSET Procs :
          /\ marker' = [marker EXCEPT ![x] = @ \ reaped]
          /\ \/ /\ seen' = [seen EXCEPT ![p] = {x}]
                /\ UNCHANGED violation
             \/ /\ host[x] # "plain"
                /\ seen' = [seen EXCEPT ![p] = {}]
                /\ UNCHANGED violation
             \/ /\ seen' = [seen EXCEPT ![p] = {}]
                /\ violation' = [violation EXCEPT ![p] = TRUE]
    <3>1. PICK gone \in GoneSets : \E stale \in SUBSET gone :
            /\ marker' = [marker EXCEPT ![x] =
                 @ \ (IF marker[x] \ gone = {} THEN gone ELSE stale)]
            /\ seen' = [seen EXCEPT ![p] =
                 IF marker[x] \ gone # {} \/ Missing(x) THEN {} ELSE {x}]
            /\ violation' = [violation EXCEPT ![p] =
                 @ \/ (marker[x] \ gone # {} /\ PathExists(x))]
      BY <1>5 DEF Examine
    <3>2. PICK stale \in SUBSET gone :
            /\ marker' = [marker EXCEPT ![x] =
                 @ \ (IF marker[x] \ gone = {} THEN gone ELSE stale)]
            /\ seen' = [seen EXCEPT ![p] =
                 IF marker[x] \ gone # {} \/ Missing(x) THEN {} ELSE {x}]
            /\ violation' = [violation EXCEPT ![p] =
                 @ \/ (marker[x] \ gone # {} /\ PathExists(x))]
      BY <3>1
    <3>3. gone \in SUBSET Procs
      BY DEF GoneSets
    <3>4. PICK dropped \in SUBSET Procs : marker' = [marker EXCEPT ![x] = @ \ dropped]
      <4>1. CASE marker[x] \ gone = {}
        BY <3>2, <3>3, <4>1
      <4>2. CASE marker[x] \ gone # {}
        BY <3>2, <3>3, <4>2
      <4> QED
        BY <4>1, <4>2
    <3>5. CASE marker[x] \ gone # {} /\ PathExists(x)
      <4>1. seen' = [seen EXCEPT ![p] = {}]
        BY <3>2, <3>5
      <4>2. violation' = [violation EXCEPT ![p] = TRUE]
        BY <3>2, <3>5
      <4> QED
        BY <3>4, <4>1, <4>2
    <3>6. CASE ~(marker[x] \ gone # {} /\ PathExists(x))
      <4>1. violation' = violation
        BY <3>2, <3>6
      <4>2. CASE marker[x] \ gone # {} \/ Missing(x)
        BY <3>2, <3>4, <3>6, <4>1, <4>2
      <4>3. CASE ~(marker[x] \ gone # {} \/ Missing(x))
        BY <3>2, <3>4, <4>1, <4>3
      <4> QED
        BY <4>2, <4>3
    <3> QED
      BY <3>5, <3>6
  <2>2. /\ pc[p] = "cleaning" /\ x \in todo[p] /\ seen[p] = {}
        /\ todo' = [todo EXCEPT ![p] = @ \ {x}]
        /\ UNCHANGED <<host, pc, want, child, mon, code, made, real>>
    BY <1>5 DEF Examine
  <2>3. /\ violation' \in [Procs -> BOOLEAN]
        /\ \A q \in Procs : q # p => violation'[q] = violation[q]
    BY <2>1
  <2>4. PICK S \in SUBSET {x} : seen' = [seen EXCEPT ![p] = S]
    BY <2>1
  <2>5. TypeOK'
    BY <2>1, <2>2, <2>3, <2>4
  <2>6. PhaseInv' /\ RealInv' /\ SuccessLeavesNothing'
    BY <2>2, <2>4 DEF PhaseInv, RealInv, SuccessLeavesNothing
  <2>7. ScopeInv'
    BY <2>2, <2>4 DEF ScopeInv
  <2>8. CleanupInv'
    <3> SUFFICES ASSUME NEW q \in Procs, pc'[q] = "cleaning", ~violation'[q],
                        NEW y \in made'[q], host'[y] = "plain"
                 PROVE  y \in todo'[q] \cup seen'[q]
      BY DEF CleanupInv
    <3>1. CASE q # p
      BY <2>2, <2>3, <2>4, <3>1 DEF CleanupInv
    <3>2. CASE q = p /\ y # x
      <4>1. ~violation[p]
        BY <2>1, <3>2
      <4> QED
        BY <2>2, <4>1, <3>2 DEF CleanupInv
    <3>3. CASE q = p /\ y = x
      BY <2>1, <2>2, <3>3
    <3> QED
      BY <3>1, <3>2, <3>3
  <2> QED
    BY <2>5, <2>6, <2>7, <2>8
<1>6. ASSUME NEW x \in Paths, Remove(p, x) PROVE IInv'
  <2>1. PICK result \in {"missing", "removed", "error"} :
          /\ TryRemove(x, result)
          /\ IF result = "error"
               THEN Vanish(p, "crashed") /\ UNCHANGED violation
               ELSE /\ seen' = [seen EXCEPT ![p] = {}]
                    /\ violation' = [violation EXCEPT ![p] = @ \/ result = "removed"]
                    /\ UNCHANGED <<pc, want, mon, todo, code>>
    BY <1>6 DEF Remove
  <2>2. pc[p] = "cleaning" /\ x \in seen[p] /\ UNCHANGED <<marker, child>>
    BY <1>6 DEF Remove
  <2>3. CASE result = "error"
    <3>1. UNCHANGED <<host, made, real>>
      BY <2>1, <2>3, TryRemoveEffect
    <3> QED
      BY <2>1, <2>2, <2>3, <3>1, VanishInvariant
  <2>4. CASE result = "missing"
    <3>1. violation' = violation
      BY <2>1, <2>4
    <3>2. UNCHANGED <<host, made, real>> /\ host[x] = "none"
      BY <2>1, <2>4, TryRemoveEffect
    <3>3. /\ seen' = [seen EXCEPT ![p] = {}]
          /\ UNCHANGED <<pc, want, mon, todo, code>>
      BY <2>1, <2>4
    <3>4. TypeOK'
      BY <2>2, <3>1, <3>2, <3>3
    <3>5. PhaseInv' /\ ScopeInv' /\ RealInv' /\ SuccessLeavesNothing'
      BY <2>2, <3>2, <3>3 DEF PhaseInv, ScopeInv, RealInv, SuccessLeavesNothing
    <3>6. CleanupInv'
      <4> SUFFICES ASSUME NEW q \in Procs, pc[q] = "cleaning", ~violation[q],
                          NEW y \in made[q], host[y] = "plain"
                   PROVE  y \in todo[q] \cup seen'[q]
        BY <3>1, <3>2, <3>3 DEF CleanupInv
      <4>1. y # x /\ y \in todo[q] \cup seen[q]
        BY <3>2 DEF CleanupInv
      <4>2. CASE q # p
        BY <3>3, <4>1, <4>2
      <4>3. CASE q = p
        <5>1. seen[p] \subseteq {x}
          BY <2>2 DEF ScopeInv
        <5> QED
          BY <4>1, <4>3, <5>1
      <4> QED
        BY <4>2, <4>3
    <3> QED
      BY <3>4, <3>5, <3>6
  <2>5. CASE result = "removed"
    <3>1. violation' = [violation EXCEPT ![p] = TRUE]
      BY <2>1, <2>5
    <3>2. \/ UNCHANGED <<host, made, real>>
          \/ /\ host' = [host EXCEPT ![x] = "none"]
             /\ made' = [q \in Procs |-> made[q] \ {x}]
             /\ real' = real \ {x}
      BY <2>1, <2>5, TryRemoveEffect
    <3>3. /\ seen' = [seen EXCEPT ![p] = {}]
          /\ UNCHANGED <<pc, want, mon, todo, code>>
      BY <2>1, <2>5
    <3>4. TypeOK'
      BY <2>2, <3>1, <3>2, <3>3
    <3>5. PhaseInv' /\ ScopeInv' /\ RealInv' /\ SuccessLeavesNothing'
      BY <2>2, <3>2, <3>3 DEF PhaseInv, ScopeInv, RealInv, SuccessLeavesNothing
    <3>6. CleanupInv'
      BY <2>2, <3>1, <3>2, <3>3 DEF CleanupInv
    <3> QED
      BY <3>4, <3>5, <3>6
  <2> QED
    BY <2>3, <2>4, <2>5
<1>7. CASE EndCleanup(p)
  <2>1. PICK how \in ExitCodes(violation[p]) : Vanish(p, how)
    BY <1>7 DEF EndCleanup
  <2>2. how \in {"zero", "nonzero"} /\ (how = "zero" => ~violation[p])
    BY DEF ExitCodes
  <2>3. how = "zero" => \A x \in made[p] : ~PathExists(x)
    BY <1>7, <2>2 DEF EndCleanup, CleanupInv
  <2>4. ~child[p]
    BY <1>7 DEF EndCleanup, PhaseInv
  <2> QED
    BY <1>7, <2>1, <2>2, <2>3, <2>4, VanishInvariant DEF EndCleanup
<1>8. CASE Crash(p)
  BY <1>8, VanishInvariant DEF Crash
<1> QED
  BY <1>1, <1>2, <1>3, <1>4, <1>5, <1>6, <1>7, <1>8 DEF CleanupStep

(***************************************************************************)
(* A path that is emptied, by the sandbox or by the user, is nobody's: the  *)
(* invariant stays.                                                         *)
(***************************************************************************)
LEMMA ClearInvariant ==
  ASSUME IInv, NEW x \in Paths, Clear(x),
         UNCHANGED <<marker, pc, want, child, mon, todo, seen, violation, code>>
  PROVE  IInv'
<1> USE DEF IInv, TypeOK, Missing, PathExists, Clear
<1>1. TypeOK'
  OBVIOUS
<1>2. PhaseInv' /\ ScopeInv' /\ CleanupInv' /\ RealInv' /\ SuccessLeavesNothing'
  BY DEF PhaseInv, ScopeInv, CleanupInv, RealInv, SuccessLeavesNothing
<1> QED
  BY <1>1, <1>2

(***************************************************************************)
(* What the sandboxed command does, and its end, keep the invariant: it     *)
(* reaches only targets of its run, and while no cleanup runs.              *)
(***************************************************************************)
LEMMA SandboxInvariant ==
  ASSUME IInv, NEW p \in Procs, SandboxStep(p)
  PROVE  IInv'
<1> USE DEF IInv, TypeOK, Missing, PathExists
<1>1. ASSUME NEW x \in Paths, SandboxCreates(p, x) PROVE IInv'
  <2>1. PICK k \in {"plain", "dangling"} : host' = [host EXCEPT ![x] = k]
    BY <1>1 DEF SandboxCreates
  <2>2. /\ child[p] /\ x \in want[p] /\ host[x] = "none"
        /\ made' = [made EXCEPT ![p] = @ \cup {x}]
        /\ UNCHANGED <<marker, pc, want, child, mon, todo, seen, violation, code, real>>
    BY <1>1 DEF SandboxCreates
  <2>3. TypeOK'
    BY <2>1, <2>2
  <2>4. PhaseInv' /\ RealInv'
    BY <2>1, <2>2 DEF PhaseInv, RealInv
  <2>5. ScopeInv'
    BY <2>1, <2>2 DEF ScopeInv
  <2>6. CleanupInv' /\ SuccessLeavesNothing'
    BY <2>1, <2>2 DEF PhaseInv, ScopeInv, CleanupInv, SuccessLeavesNothing
  <2> QED
    BY <2>3, <2>4, <2>5, <2>6
<1>2. ASSUME NEW x \in Paths, SandboxRemoves(p, x) PROVE IInv'
  BY <1>2, ClearInvariant DEF SandboxRemoves
<1>3. CASE ChildExits(p)
  <2>1. /\ child[p] /\ child' = [child EXCEPT ![p] = FALSE]
        /\ UNCHANGED <<host, marker, pc, mon, todo, seen, violation, code, made, real>>
    BY <1>3 DEF ChildExits
  <2>2. /\ want' \in [Procs -> SUBSET Paths]
        /\ \A q \in Procs : want'[q] \subseteq want[q]
        /\ \A q \in Procs : want'[q] = want[q] \/ pc[q] = "off"
    BY <1>3 DEF ChildExits
  <2>3. TypeOK'
    BY <2>1, <2>2
  <2>4. PhaseInv' /\ CleanupInv' /\ SuccessLeavesNothing'
    BY <2>1 DEF PhaseInv, CleanupInv, SuccessLeavesNothing
  <2>5. ScopeInv' /\ RealInv'
    BY <2>1, <2>2 DEF PhaseInv, ScopeInv, RealInv
  <2> QED
    BY <2>3, <2>4, <2>5
<1> QED
  BY <1>1, <1>2, <1>3 DEF SandboxStep

(***************************************************************************)
(* What the user does to the paths keeps the invariant: the user's files    *)
(* are not taken for the sandbox's, and are real where no helper plans.     *)
(***************************************************************************)
LEMMA UserInvariant ==
  ASSUME IInv, NEW x \in Paths, UserCreates(x) \/ UserRemoves(x)
  PROVE  IInv'
<1> USE DEF IInv, TypeOK, Missing, PathExists
<1>1. CASE UserCreates(x)
  <2>1. PICK k \in {"plain", "dangling"} : host' = [host EXCEPT ![x] = k]
    BY <1>1 DEF UserCreates
  <2>2. /\ host[x] = "none"
        /\ UNCHANGED <<marker, pc, want, child, mon, todo, seen, violation, code, made>>
    BY <1>1 DEF UserCreates
  <2>3. \/ real' = real
        \/ real' = real \cup {x} /\ \A q \in Procs : x \notin want[q]
    BY <1>1 DEF UserCreates
  <2>4. TypeOK'
    BY <2>1, <2>2, <2>3
  <2>5. PhaseInv' /\ RealInv'
    BY <2>1, <2>2, <2>3 DEF PhaseInv, RealInv
  <2>6. ScopeInv' /\ CleanupInv' /\ SuccessLeavesNothing'
    BY <2>1, <2>2 DEF ScopeInv, CleanupInv, SuccessLeavesNothing
  <2> QED
    BY <2>4, <2>5, <2>6
<1>2. CASE UserRemoves(x)
  BY <1>2, ClearInvariant DEF UserRemoves
<1> QED
  BY <1>1, <1>2

(***************************************************************************)
(* The inductive invariant: every step of a helper, its monitor, its        *)
(* sandbox or the user keeps it.                                            *)
(***************************************************************************)
THEOREM CreateInvariant == Spec => []IInv
<1>1. IInv /\ [Next]_vars => IInv'
  <2> SUFFICES ASSUME IInv, [Next]_vars PROVE IInv'
    OBVIOUS
  <2>1. CASE UNCHANGED vars
    BY <2>1 DEF vars, IInv, TypeOK, PhaseInv, ScopeInv, CleanupInv, RealInv,
       SuccessLeavesNothing, Missing, PathExists
  <2>2. ASSUME NEW p \in Procs, HelperStep(p) PROVE IInv'
    BY <2>2, StartInvariant, MonitorInvariant, CleanupInvariant DEF HelperStep
  <2>3. ASSUME NEW p \in Procs, SandboxStep(p) PROVE IInv'
    BY <2>3, SandboxInvariant
  <2>4. ASSUME NEW x \in Paths, UserCreates(x) \/ UserRemoves(x) PROVE IInv'
    BY <2>4, UserInvariant
  <2> QED
    BY <2>1, <2>2, <2>3, <2>4 DEF Next
<1> QED
  BY InitInvariant, <1>1, PTL DEF Spec

(***************************************************************************)
(* Every variable keeps its type, for any set of helpers and paths.         *)
(***************************************************************************)
THEOREM TypeCorrect == Spec => []TypeOK
<1>1. IInv => TypeOK
  BY DEF IInv
<1> QED
  BY CreateInvariant, <1>1, PTL

(***************************************************************************)
(* A run that exits with 0 leaves nothing at a protected path that its      *)
(* sandbox created, for any number of helpers that watch the same paths.    *)
(***************************************************************************)
THEOREM SuccessIsClean == Spec => []SuccessLeavesNothing
<1>1. IInv => SuccessLeavesNothing
  BY DEF IInv
<1> QED
  BY CreateInvariant, <1>1, PTL

(***************************************************************************)
(* No monitor and no cleanup is ever about to remove what was there before  *)
(* helpers planned for the path.                                            *)
(***************************************************************************)
THEOREM RealPathsSafe == Spec => []RealPathsKept
<1>1. IInv => RealPathsKept
  BY DEF IInv, ScopeInv, RealInv, RealPathsKept
<1> QED
  BY CreateInvariant, <1>1, PTL

==============================================================================
