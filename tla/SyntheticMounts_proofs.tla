------------------------ MODULE SyntheticMounts_proofs ------------------------
(***************************************************************************)
(* Proofs about the synthetic mount registry, for any number of helpers,   *)
(* paths and inodes, with or without reuse of pids and inodes.             *)
(***************************************************************************)
EXTENDS SyntheticMounts, TLAPS

-----------------------------------------------------------------------------
(* The operators                                                            *)

\* Planned targets are targets, and one for an existing path remembers what is
\* there (append_read_only_subpath_args, append_unreadable_root_args).
LEMMA PlannedTargetsType ==
  ASSUME TypeOK, NEW x \in Paths, NEW t \in PlannedTargets(x)
  PROVE  /\ t \in Target
         /\ Exists(x) => t.pre = fs[x].ino
<1>1. fs[x] \in Object
  BY DEF TypeOK
<1>2. CASE fs[x].kind = "none"
  <2>1. \E k \in Kinds, b \in BOOLEAN : t = Missing(k, b)
    BY <1>2 DEF PlannedTargets, Kinds
  <2> QED
    BY <1>2, <2>1 DEF Missing, Target, Exists
<1>3. CASE fs[x].kind # "none"
  <2>1. t = [kind |-> fs[x].kind, pre |-> fs[x].ino, dirToo |-> FALSE]
    BY <1>3 DEF PlannedTargets
  <2> QED
    BY <1>1, <2>1 DEF Target, Object
<1> QED
  BY <1>2, <1>3

\* The targets of a helper that makes its plan (build_bwrap_argv).
LEMMA PlanEffect ==
  ASSUME TypeOK, NEW p \in Procs, Plan(p)
  PROVE  /\ target' \in [Procs -> [Paths -> Target]]
         /\ \A q \in Procs : q # p => target'[q] = target[q]
         /\ \A x \in Paths : target'[p][x] \in {NoTarget} \cup PlannedTargets(x)
<1>1. PICK t \in [Paths -> Target] :
        /\ \A x \in Paths : t[x] \in {NoTarget} \cup PlannedTargets(x)
        /\ target' = [target EXCEPT ![p] = t]
  BY DEF Plan
<1> QED
  BY <1>1 DEF TypeOK

\* What the second of two targets of one path changes: the kind of the target that
\* the cleanup looks at (the second loop of cleanup_synthetic_mount_targets).
LEMMA OtherTargetEffect ==
  ASSUME TypeOK, NEW p \in Procs, NEW x \in Paths, OtherTargetOf(p, x)
  PROVE  /\ target' \in [Procs -> [Paths -> Target]]
         /\ \A q \in Procs, y \in Paths :
              ~(q = p /\ y = x) => target'[q][y] = target[q][y]
         /\ \A q \in Procs, y \in Paths :
              /\ target'[q][y].kind = "none" <=> target[q][y].kind = "none"
              /\ target'[q][y].pre = target[q][y].pre
         /\ \A q \in Procs : todo'[q] = IF q = p THEN todo[p] \cup {x} ELSE todo[q]
<1> DEFINE t == [target[p][x] EXCEPT !.kind = "dir", !.dirToo = FALSE]
<1>1. target[p][x] \in Target
  BY DEF TypeOK
<1>2. t \in Target /\ t.kind = "dir" /\ t.pre = target[p][x].pre
  BY <1>1 DEF Target, Kinds
<1>3. target' = [target EXCEPT ![p][x] = t]
  BY DEF OtherTargetOf
<1> HIDE DEF t
<1>4. target[p][x].kind # "none"
  BY DEF OtherTargetOf, Targets
<1>5. target'[p][x] = t
  BY <1>3 DEF TypeOK
<1>6. \A q \in Procs, y \in Paths : ~(q = p /\ y = x) => target'[q][y] = target[q][y]
  BY <1>3 DEF TypeOK
<1>7. target' \in [Procs -> [Paths -> Target]]
  BY <1>2, <1>3 DEF TypeOK
<1>8. \A q \in Procs : todo'[q] = IF q = p THEN todo[p] \cup {x} ELSE todo[q]
  BY DEF OtherTargetOf, TypeOK
<1> QED
  BY <1>2, <1>4, <1>5, <1>6, <1>7, <1>8

\* A registration has a target for the same paths as the plan
\* (register_synthetic_mount_targets).
LEMMA RegisteredType ==
  ASSUME TypeOK, NEW p \in Procs, NEW x \in Paths, NEW gone
  PROVE  /\ Registered(p, x, gone) \in Target
         /\ Registered(p, x, gone).kind = target[p][x].kind
         /\ MarkerContents(Registered(p, x, gone)) \in {"synthetic", "existing"}
<1>1. target[p][x] \in Target
  BY DEF TypeOK
<1>2. /\ [target[p][x] EXCEPT !.pre = NoInode] \in Target
      /\ [target[p][x] EXCEPT !.pre = NoInode].kind = target[p][x].kind
  BY <1>1 DEF Target
<1>3. QED
  BY <1>1, <1>2 DEF Registered, MarkerContents

\* A scan only removes markers, and only of processes found dead
\* (synthetic_mount_marker_dir_has_active_process_matching).
LEMMA ScannedType ==
  ASSUME TypeOK, NEW x \in Paths, NEW matches, NEW gone, NEW reaped
  PROVE  Scanned(x, matches, gone, reaped) \in [Procs -> Markers]
  BY DEF TypeOK, Scanned, Markers

\* A pid that process_is_active says is dead is no helper's.
LEMMA GoneIsOff ==
  ASSUME NEW gone \in GoneSets, NEW q \in gone
  PROVE  q \in Procs /\ pc[q] = "off"
  BY DEF GoneSets

-----------------------------------------------------------------------------
(* Type correctness                                                         *)

\* A helper that exits or dies (end of cleanup, panic, SIGKILL) leaves every
\* variable within its type.
LEMMA VanishType ==
  ASSUME TypeOK, NEW p \in Procs, Vanish(p), UNCHANGED <<fs, real>>
  PROVE  TypeOK'
  BY DEF Vanish, TypeOK, Target, NoTarget

\* A host with any files of the user, and no markers, is within the types.
LEMMA InitType ==
  ASSUME ConstantsAssumption, Init
  PROVE  TypeOK
  BY DEF Init, TypeOK, ConstantsAssumption, Object, Absent, Target, NoTarget,
         Markers, Kinds, Exists

\* Every step keeps the types: a plan, a registration, bubblewrap's mounts, a
\* cleanup, a death, and what the user does.
LEMMA NextType ==
  ASSUME TypeOK, [Next]_vars
  PROVE  TypeOK'
<1>1. ASSUME NEW p \in Procs, Plan(p)
      PROVE  TypeOK'
  BY <1>1, PlanEffect DEF Plan, TypeOK
<1>2. ASSUME NEW p \in Procs, RegisterSyntheticMountTargets(p)
      PROVE  TypeOK'
  <2>1. PICK gone \in GoneSets : \E reaped \in [Paths -> SUBSET gone] :
       /\ target' = [target EXCEPT ![p] = [x \in Paths |-> Registered(p, x, gone)]]
       /\ marker' = [x \in Paths |->
            IF x \notin Targets(p) THEN marker[x]
            ELSE [(IF target[p][x].pre = NoInode THEN marker[x]
                   ELSE Scanned(x, SyntheticOwners(x, gone), gone, reaped[x]))
                  EXCEPT ![p] = MarkerContents(Registered(p, x, gone))]]
    BY <1>2 DEF RegisterSyntheticMountTargets
  <2>2. target' \in [Procs -> [Paths -> Target]]
    BY <2>1, RegisteredType DEF TypeOK
  <2>3. marker' \in [Paths -> [Procs -> Markers]]
    BY <2>1, RegisteredType, ScannedType DEF TypeOK, Markers
  <2>4. QED
    BY <1>2, <2>2, <2>3 DEF RegisterSyntheticMountTargets, TypeOK
<1>3. ASSUME NEW p \in Procs, NEW x \in Paths, ChildMounts(p, x)
      PROVE  TypeOK'
  <2>1. PICK i \in FreeInodes :
          /\ fs' = [fs EXCEPT ![x] = [kind |-> FirstMask(target[p][x]), ino |-> i,
                                      empty |-> TRUE, by |-> "bwrap"]]
          /\ Spend(i)
    BY <1>3 DEF ChildMounts
  <2>2. FirstMask(target[p][x]) \in Kinds
    BY <1>3 DEF ChildMounts, TypeOK, Target, FirstMask, Kinds
  <2>3. QED
    BY <1>3, <2>1, <2>2 DEF ChildMounts, TypeOK, Object, Spend, FreeInodes
<1>4. ASSUME NEW p \in Procs, ChildStarts(p)
      PROVE  TypeOK'
  BY <1>4 DEF ChildStarts, TypeOK
<1>5. ASSUME NEW p \in Procs, ChildExits(p)
      PROVE  TypeOK'
  BY <1>5 DEF ChildExits, TypeOK, Target, NoTarget
<1>6. ASSUME NEW p \in Procs, BeginCleanup(p)
      PROVE  TypeOK'
  <2>1. marker' \in [Paths -> [Procs -> Markers]]
    BY <1>6 DEF BeginCleanup, WithoutMarker, TypeOK, Markers
  <2>2. QED
    BY <1>6, <2>1 DEF BeginCleanup, TypeOK, Targets
<1>7. ASSUME NEW p \in Procs, NEW x \in Paths, Examine(p, x)
      PROVE  TypeOK'
  <2>1. marker' \in [Paths -> [Procs -> Markers]]
    BY <1>7, ScannedType DEF Examine, TypeOK
  <2>2. condemned' \in [Procs -> SUBSET Paths]
    <3>1. \E c \in SUBSET Paths : condemned' = [condemned EXCEPT ![p] = c]
      BY <1>7 DEF Examine
    <3>2. QED
      BY <3>1 DEF TypeOK
  <2>3. todo' \in [Procs -> SUBSET Paths]
    BY <1>7 DEF Examine, TypeOK
  <2>4. QED
    BY <1>7, <2>1, <2>2, <2>3 DEF Examine, TypeOK
<1>8. ASSUME NEW p \in Procs, NEW x \in Paths, Unlink(p, x)
      PROVE  TypeOK'
  <2>1. Absent \in Object
    BY DEF Absent, Object
  <2>2. CASE Vanish(p) /\ UNCHANGED <<fs, real>>
    BY <2>2, VanishType
  <2>3. CASE ~(Vanish(p) /\ UNCHANGED <<fs, real>>)
    <3>1. /\ fs' = fs \/ fs' = [fs EXCEPT ![x] = Absent]
          /\ real' = real \/ real' = real \ {x}
          /\ condemned' = [condemned EXCEPT ![p] = {}]
          /\ UNCHANGED <<spent, marker, pc, target, child, todo>>
      BY <1>8, <2>3 DEF Unlink
    <3>2. QED
      BY <3>1, <2>1 DEF TypeOK
  <2>4. QED
    BY <2>2, <2>3
<1>9. ASSUME NEW p \in Procs, EndCleanup(p) \/ Crash(p)
      PROVE  TypeOK'
  BY <1>9, VanishType DEF EndCleanup, Crash
<1>10. ASSUME NEW x \in Paths, UserStep(x)
       PROVE  TypeOK'
  <2>1. CASE UserCreates(x)
    <3>1. PICK k \in Kinds, e \in BOOLEAN, i \in FreeInodes :
            /\ fs' = [fs EXCEPT ![x] = [kind |-> k, ino |-> i, empty |-> e, by |-> "user"]]
            /\ Spend(i)
      BY <2>1 DEF UserCreates
    <3>2. [kind |-> k, ino |-> i, empty |-> e, by |-> "user"] \in Object
      BY DEF Object, FreeInodes
    <3>3. fs' \in [Paths -> Object] /\ spent' \subseteq Inodes
      BY <3>1, <3>2 DEF TypeOK, Spend, FreeInodes
    <3>4. QED
      BY <2>1, <3>3 DEF UserCreates, TypeOK
  <2>2. CASE UserFills(x)
    <3>0. fs[x] \in Object
      BY DEF TypeOK
    <3>1. [fs[x] EXCEPT !.empty = FALSE] \in Object
      BY <3>0 DEF Object
    <3>2. QED
      BY <2>2, <3>1 DEF UserFills, TypeOK
  <2>3. CASE UserRemoves(x)
    <3>1. Absent \in Object
      BY DEF Absent, Object
    <3>2. QED
      BY <2>3, <3>1 DEF UserRemoves, TypeOK
  <2>4. QED
    BY <1>10, <2>1, <2>2, <2>3 DEF UserStep
<1>11. ASSUME NEW p \in Procs, NEW x \in Paths, OtherTargetOf(p, x)
       PROVE  TypeOK'
  <2>1. target' \in [Procs -> [Paths -> Target]]
    BY <1>11, OtherTargetEffect
  <2>2. todo' \in [Procs -> SUBSET Paths]
    BY <1>11 DEF OtherTargetOf, TypeOK
  <2> QED
    BY <1>11, <2>1, <2>2 DEF OtherTargetOf, TypeOK
<1>12. CASE UNCHANGED vars
  BY <1>12 DEF vars, TypeOK
<1> QED
  BY <1>1, <1>2, <1>3, <1>4, <1>5, <1>6, <1>7, <1>8, <1>9, <1>10, <1>11, <1>12
     DEF Next, HelperStep

\* The registry's variables keep their types, for any helpers, paths and inodes.
THEOREM TypeCorrect == Spec => []TypeOK
<1>1. Init => TypeOK
  BY InitType, ConstantsAssumption
<1>2. TypeOK /\ [Next]_vars => TypeOK'
  BY NextType
<1>3. QED
  BY <1>1, <1>2, PTL DEF Spec

-----------------------------------------------------------------------------
(* The inductive invariant, one conjunct at a time                          *)

\* What a helper's death, or the end of its cleanup, leaves behind.
LEMMA VanishEffect ==
  ASSUME TypeOK, NEW p \in Procs, Vanish(p)
  PROVE  /\ \A q \in Procs : pc'[q] = IF q = p THEN "off" ELSE pc[q]
         /\ \A q \in Procs : condemned'[q] = IF q = p THEN {} ELSE condemned[q]
         /\ \A q \in Procs, x \in Paths :
              target'[q][x].kind # "none" => target'[q][x] = target[q][x]
         /\ \A q \in Procs : q # p => target'[q] = target[q]
         /\ marker' = marker /\ child' = child
  BY DEF Vanish, TypeOK, NoTarget

\* How a registration changes the targets and the markers.
LEMMA RegistrationEffect ==
  ASSUME TypeOK, NEW p \in Procs, RegisterSyntheticMountTargets(p)
  PROVE  \E gone \in GoneSets :
           /\ target' = [target EXCEPT ![p] = [x \in Paths |-> Registered(p, x, gone)]]
           /\ \A x \in Paths :
                x \in Targets(p) => marker'[x][p] = MarkerContents(Registered(p, x, gone))
           /\ \A x \in Paths, q \in Procs :
                (q # p \/ x \notin Targets(p)) =>
                  marker'[x][q] = marker[x][q] \/ (marker'[x][q] = "none" /\ q \in gone)
<1>0. PICK gone \in GoneSets : \E reaped \in [Paths -> SUBSET gone] :
       /\ target' = [target EXCEPT ![p] = [x \in Paths |-> Registered(p, x, gone)]]
       /\ marker' = [x \in Paths |->
            IF x \notin Targets(p) THEN marker[x]
            ELSE [(IF target[p][x].pre = NoInode THEN marker[x]
                   ELSE Scanned(x, SyntheticOwners(x, gone), gone, reaped[x]))
                  EXCEPT ![p] = MarkerContents(Registered(p, x, gone))]]
  BY DEF RegisterSyntheticMountTargets
<1>1. PICK reaped \in [Paths -> SUBSET gone] :
       /\ target' = [target EXCEPT ![p] = [x \in Paths |-> Registered(p, x, gone)]]
       /\ marker' = [x \in Paths |->
            IF x \notin Targets(p) THEN marker[x]
            ELSE [(IF target[p][x].pre = NoInode THEN marker[x]
                   ELSE Scanned(x, SyntheticOwners(x, gone), gone, reaped[x]))
                  EXCEPT ![p] = MarkerContents(Registered(p, x, gone))]]
  BY <1>0
<1>2. ASSUME NEW x \in Paths, x \in Targets(p)
      PROVE  marker'[x][p] = MarkerContents(Registered(p, x, gone))
  <2>1. marker[x] \in [Procs -> Markers]
    BY DEF TypeOK
  <2>2. Scanned(x, SyntheticOwners(x, gone), gone, reaped[x]) \in [Procs -> Markers]
    BY ScannedType
  <2>3. QED
    BY <1>1, <1>2, <2>1, <2>2
<1>3. ASSUME NEW x \in Paths, NEW q \in Procs, q # p \/ x \notin Targets(p)
      PROVE  marker'[x][q] = marker[x][q] \/ (marker'[x][q] = "none" /\ q \in gone)
  <2>1. marker[x] \in [Procs -> Markers] /\ reaped[x] \subseteq gone
    BY <1>1 DEF TypeOK
  <2>2. CASE x \notin Targets(p)
    BY <1>1, <2>2
  <2>3. CASE x \in Targets(p) /\ target[p][x].pre = NoInode
    BY <1>1, <1>3, <2>1, <2>3
  <2>4. CASE x \in Targets(p) /\ target[p][x].pre # NoInode
    <3> DEFINE n == Scanned(x, SyntheticOwners(x, gone), gone, reaped[x])
    <3>1. n \in [Procs -> Markers]
      BY ScannedType
    <3>2. marker'[x] = [n EXCEPT ![p] = MarkerContents(Registered(p, x, gone))]
      BY <1>1, <2>4
    <3>3. marker'[x][q] = n[q]
      BY <1>3, <2>4, <3>1, <3>2
    <3>4. n[q] = marker[x][q] \/ (n[q] = "none" /\ q \in gone)
      BY <2>1 DEF Scanned
    <3>5. QED
      BY <3>3, <3>4
  <2>5. QED
    BY <2>2, <2>3, <2>4
<1>4. QED
  BY <1>1, <1>2, <1>3

\* How an examination changes the markers and the decision to remove.
LEMMA ExamineEffect ==
  ASSUME TypeOK, NEW p \in Procs, NEW x \in Paths, Examine(p, x)
  PROVE  /\ \A y \in Paths, q \in Procs :
              marker'[y][q] = marker[y][q] \/ (marker'[y][q] = "none" /\ pc[q] = "off")
         /\ \A q \in Procs \ {p} : condemned'[q] = condemned[q]
         /\ condemned'[p] \subseteq {x}
         /\ x \in condemned'[p] =>
              /\ Exists(x) /\ ShouldRemove(target[p][x], fs[x])
              /\ \A q \in Procs : pc[q] # "off" => marker[x][q] = "none"
<1>0. PICK gone \in GoneSets : \E reaped \in SUBSET gone :
        /\ marker' = [marker EXCEPT ![x] =
                        Scanned(x, ActiveProcesses(x, gone), gone, reaped)]
        /\ condemned' = [condemned EXCEPT ![p] =
             IF ActiveProcesses(x, gone) = {} /\ Exists(x) /\ ShouldRemove(target[p][x], fs[x])
               THEN {x} ELSE {}]
  BY DEF Examine
<1>1. PICK reaped \in SUBSET gone :
        /\ marker' = [marker EXCEPT ![x] =
                        Scanned(x, ActiveProcesses(x, gone), gone, reaped)]
        /\ condemned' = [condemned EXCEPT ![p] =
             IF ActiveProcesses(x, gone) = {} /\ Exists(x) /\ ShouldRemove(target[p][x], fs[x])
               THEN {x} ELSE {}]
  BY <1>0
<1>2. \A q \in gone : pc[q] = "off"
  BY GoneIsOff
<1>3. ASSUME NEW y \in Paths, NEW q \in Procs
      PROVE  marker'[y][q] = marker[y][q] \/ (marker'[y][q] = "none" /\ pc[q] = "off")
  BY <1>1, <1>2 DEF TypeOK, Scanned
<1>4. ActiveProcesses(x, gone) = {} => \A q \in Procs : pc[q] # "off" => marker[x][q] = "none"
  BY <1>2 DEF ActiveProcesses
<1>5. QED
  BY <1>1, <1>3, <1>4 DEF TypeOK

\* Every step keeps LockInv: flock admits one cleanup at a time, which starts
\* after its own sandbox was reaped (with_synthetic_mount_registry_lock,
\* wait_for_bwrap_child).
LEMMA LockInvStep ==
  ASSUME TypeOK, LockInv, [Next]_vars
  PROVE  LockInv'
<1>1. ASSUME NEW p \in Procs, Plan(p)
      PROVE  LockInv'
  BY <1>1 DEF Plan, LockInv, TypeOK
<1>2. ASSUME NEW p \in Procs, RegisterSyntheticMountTargets(p)
      PROVE  LockInv'
  BY <1>2 DEF RegisterSyntheticMountTargets, LockInv, TypeOK
<1>3. ASSUME NEW p \in Procs, NEW x \in Paths, ChildMounts(p, x)
      PROVE  LockInv'
  BY <1>3 DEF ChildMounts, LockInv
<1>4. ASSUME NEW p \in Procs, ChildStarts(p) \/ ChildExits(p)
      PROVE  LockInv'
  BY <1>4 DEF ChildStarts, ChildExits, LockInv, TypeOK
<1>5. ASSUME NEW p \in Procs, BeginCleanup(p)
      PROVE  LockInv'
  BY <1>5 DEF BeginCleanup, LockFree, LockInv, TypeOK
<1>6. ASSUME NEW p \in Procs, NEW x \in Paths, Examine(p, x)
      PROVE  LockInv'
  BY <1>6, ExamineEffect DEF Examine, LockInv, TypeOK
<1>7. ASSUME NEW p \in Procs, Vanish(p)
      PROVE  LockInv'
  BY <1>7, VanishEffect DEF LockInv, TypeOK
<1>8. ASSUME NEW p \in Procs, NEW x \in Paths, Unlink(p, x)
      PROVE  LockInv'
  BY <1>7, <1>8 DEF Unlink, LockInv, TypeOK
<1>9. ASSUME NEW x \in Paths, UserStep(x)
      PROVE  LockInv'
  BY <1>9 DEF UserStep, UserCreates, UserFills, UserRemoves, LockInv
<1>10. ASSUME NEW p \in Procs, NEW x \in Paths, OtherTargetOf(p, x)
       PROVE  LockInv'
  BY <1>10 DEF OtherTargetOf, LockInv
<1>11. CASE UNCHANGED vars
  BY <1>11 DEF vars, LockInv
<1> QED
  BY <1>1, <1>2, <1>3, <1>4, <1>5, <1>6, <1>7, <1>8, <1>9, <1>10, <1>11
     DEF Next, HelperStep, EndCleanup, Crash

\* Every step keeps MarkerInv: a scan reaps the markers of dead helpers only, so
\* a running one keeps its own (synthetic_mount_marker_dir_has_active_process_
\* matching).
LEMMA MarkerInvStep ==
  ASSUME TypeOK, LockInv, MarkerInv, [Next]_vars
  PROVE  MarkerInv'
<1>1. ASSUME NEW p \in Procs, Plan(p)
      PROVE  MarkerInv'
  BY <1>1 DEF Plan, MarkerInv, TypeOK
<1>2. ASSUME NEW p \in Procs, RegisterSyntheticMountTargets(p)
      PROVE  MarkerInv'
  <2>1. PICK gone \in GoneSets :
           /\ target' = [target EXCEPT ![p] = [x \in Paths |-> Registered(p, x, gone)]]
           /\ \A x \in Paths :
                x \in Targets(p) => marker'[x][p] = MarkerContents(Registered(p, x, gone))
           /\ \A x \in Paths, q \in Procs :
                (q # p \/ x \notin Targets(p)) =>
                  marker'[x][q] = marker[x][q] \/ (marker'[x][q] = "none" /\ q \in gone)
    BY <1>2, RegistrationEffect
  <2>2. SUFFICES ASSUME NEW q \in Procs, NEW x \in Paths,
                        pc'[q] = "running", target'[q][x].kind # "none"
                 PROVE  marker'[x][q] # "none"
    BY DEF MarkerInv
  <2>3. CASE q = p
    <3>1. x \in Targets(p)
      BY <2>1, <2>2, <2>3, RegisteredType DEF Targets, TypeOK
    <3>2. QED
      BY <2>1, <2>3, <3>1, RegisteredType
  <2>4. CASE q # p
    <3>1. pc[q] = "running" /\ target[q][x].kind # "none"
      BY <1>2, <2>1, <2>2, <2>4 DEF RegisterSyntheticMountTargets, TypeOK
    <3>2. q \notin gone
      BY <3>1, GoneIsOff
    <3>3. QED
      BY <2>1, <2>4, <3>1, <3>2 DEF MarkerInv
  <2>5. QED
    BY <2>3, <2>4
<1>3. ASSUME NEW p \in Procs, NEW x \in Paths, ChildMounts(p, x)
      PROVE  MarkerInv'
  BY <1>3 DEF ChildMounts, MarkerInv
<1>4. ASSUME NEW p \in Procs, ChildStarts(p)
      PROVE  MarkerInv'
  BY <1>4 DEF ChildStarts, MarkerInv
<1>5. ASSUME NEW p \in Procs, ChildExits(p)
      PROVE  MarkerInv'
  BY <1>5 DEF ChildExits, MarkerInv, TypeOK, NoTarget
<1>6. ASSUME NEW p \in Procs, BeginCleanup(p)
      PROVE  MarkerInv'
  BY <1>6 DEF BeginCleanup, WithoutMarker, MarkerInv, TypeOK
<1>7. ASSUME NEW p \in Procs, NEW x \in Paths, Examine(p, x)
      PROVE  MarkerInv'
  <2>1. UNCHANGED <<pc, target>>
    BY <1>7 DEF Examine
  <2>2. QED
    BY <1>7, <2>1, ExamineEffect DEF MarkerInv
<1>8. ASSUME NEW p \in Procs, Vanish(p)
      PROVE  MarkerInv'
  BY <1>8, VanishEffect DEF MarkerInv
<1>9. ASSUME NEW p \in Procs, NEW x \in Paths, Unlink(p, x)
      PROVE  MarkerInv'
  BY <1>8, <1>9 DEF Unlink, MarkerInv
<1>10. ASSUME NEW x \in Paths, UserStep(x)
       PROVE  MarkerInv'
  BY <1>10 DEF UserStep, UserCreates, UserFills, UserRemoves, MarkerInv
<1>11. ASSUME NEW p \in Procs, NEW x \in Paths, OtherTargetOf(p, x)
       PROVE  MarkerInv'
  <2>1. pc[p] = "cleaning" /\ UNCHANGED <<pc, marker>>
    BY <1>11 DEF OtherTargetOf
  <2> QED
    BY <1>11, <2>1, OtherTargetEffect DEF MarkerInv
<1>12. CASE UNCHANGED vars
  BY <1>12 DEF vars, MarkerInv
<1> QED
  BY <1>1, <1>2, <1>3, <1>4, <1>5, <1>6, <1>7, <1>8, <1>9, <1>10, <1>11, <1>12
     DEF Next, HelperStep, EndCleanup, Crash

\* Every step keeps CondemnedInv: a cleanup decides after a scan that found no
\* marker of a live helper, and nobody registers until it lets go of the lock
\* (cleanup_synthetic_mount_targets).
LEMMA CondemnedInvStep ==
  ASSUME TypeOK, LockInv, MarkerInv, CondemnedInv, [Next]_vars
  PROVE  CondemnedInv'
<1>1. ASSUME NEW p \in Procs, Plan(p)
      PROVE  CondemnedInv'
  <2>1. pc[p] = "off" /\ condemned' = condemned
    BY <1>1 DEF Plan
  <2>2. \A q \in Procs : pc'[q] = "running" => q # p /\ pc[q] = "running"
    BY <1>1 DEF Plan, TypeOK
  <2>3. condemned[p] = {}
    BY <2>1 DEF LockInv
  <2> QED
    BY <1>1, <2>1, <2>2, <2>3, PlanEffect DEF CondemnedInv
<1>2. ASSUME NEW p \in Procs, RegisterSyntheticMountTargets(p)
      PROVE  CondemnedInv'
  \* The lock is free, so nothing is condemned.
  <2>1. \A q \in Procs : condemned[q] = {}
    BY <1>2 DEF RegisterSyntheticMountTargets, LockFree, LockInv
  <2>2. QED
    BY <1>2, <2>1 DEF RegisterSyntheticMountTargets, CondemnedInv
<1>3. ASSUME NEW p \in Procs, NEW x \in Paths, ChildMounts(p, x)
      PROVE  CondemnedInv'
  BY <1>3 DEF ChildMounts, CondemnedInv
<1>4. ASSUME NEW p \in Procs, ChildStarts(p)
      PROVE  CondemnedInv'
  BY <1>4 DEF ChildStarts, CondemnedInv
<1>5. ASSUME NEW p \in Procs, ChildExits(p)
      PROVE  CondemnedInv'
  BY <1>5 DEF ChildExits, CondemnedInv, LockInv, TypeOK, NoTarget
<1>6. ASSUME NEW p \in Procs, BeginCleanup(p)
      PROVE  CondemnedInv'
  BY <1>6 DEF BeginCleanup, CondemnedInv, TypeOK
<1>7. ASSUME NEW p \in Procs, NEW x \in Paths, Examine(p, x)
      PROVE  CondemnedInv'
  <2>1. UNCHANGED <<pc, target>>
    BY <1>7 DEF Examine
  <2>2. ASSUME x \in condemned'[p], NEW q \in Procs, pc[q] = "running"
        PROVE  target[q][x].kind = "none"
    <3>1. marker[x][q] = "none"
      BY <1>7, <2>2, ExamineEffect
    <3>2. QED
      BY <2>2, <3>1 DEF MarkerInv
  <2>3. x \in condemned'[p] => target[p][x].kind # "none"
    BY <1>7, ExamineEffect DEF ShouldRemove, Exists
  <2>4. QED
    BY <1>7, <2>1, <2>2, <2>3, ExamineEffect DEF CondemnedInv
<1>8. ASSUME NEW p \in Procs, Vanish(p)
      PROVE  CondemnedInv'
  <2>1. ASSUME NEW q \in Procs, NEW x \in condemned'[q]
        PROVE  q # p /\ x \in condemned[q] /\ target'[q] = target[q]
    BY <1>8, <2>1, VanishEffect
  <2>2. QED
    BY <1>8, <2>1, VanishEffect DEF CondemnedInv, TypeOK
<1>9. ASSUME NEW p \in Procs, NEW x \in Paths, Unlink(p, x)
      PROVE  CondemnedInv'
  <2>1. CASE Vanish(p)
    BY <1>8, <2>1
  <2>2. CASE ~Vanish(p)
    <3>1. condemned' = [condemned EXCEPT ![p] = {}] /\ UNCHANGED <<pc, target>>
      BY <1>9, <2>2 DEF Unlink
    <3>2. \A q \in Procs : condemned'[q] \subseteq condemned[q]
      BY <3>1 DEF TypeOK
    <3>3. QED
      BY <3>1, <3>2 DEF CondemnedInv
  <2>3. QED
    BY <2>1, <2>2
<1>10. ASSUME NEW x \in Paths, UserStep(x)
       PROVE  CondemnedInv'
  BY <1>10 DEF UserStep, UserCreates, UserFills, UserRemoves, CondemnedInv
<1>11. ASSUME NEW p \in Procs, NEW x \in Paths, OtherTargetOf(p, x)
       PROVE  CondemnedInv'
  <2>1. UNCHANGED <<pc, condemned>>
    BY <1>11 DEF OtherTargetOf
  <2>2. \A q \in Procs : \A y \in condemned[q] : y \in Paths
    BY DEF TypeOK
  <2>3. \A q \in Procs, y \in Paths :
          target'[q][y].kind = "none" <=> target[q][y].kind = "none"
    BY <1>11, OtherTargetEffect
  <2> QED
    BY <2>1, <2>2, <2>3 DEF CondemnedInv
<1>12. CASE UNCHANGED vars
  BY <1>12 DEF vars, CondemnedInv
<1> QED
  BY <1>1, <1>2, <1>3, <1>4, <1>5, <1>6, <1>7, <1>8, <1>9, <1>10, <1>11, <1>12
     DEF Next, HelperStep, EndCleanup, Crash

\* Every step keeps RealInv: a plan made while the path exists remembers its
\* identity, and without a synthetic marker no registration forgets it
\* (append_read_only_subpath_args, register_synthetic_mount_targets).
LEMMA RealInvStep ==
  ASSUME TypeOK, LockInv, CondemnedInv, RealInv, [Next]_vars
  PROVE  RealInv'
<1>1. ASSUME NEW p \in Procs, Plan(p)
      PROVE  RealInv'
  <2>2. SUFFICES ASSUME NEW x \in real, NEW q \in Procs, target'[q][x].kind # "none"
                 PROVE  target'[q][x].pre = fs[x].ino
    BY <1>1 DEF Plan, RealInv, Exists
  <2>3. x \in Paths /\ Exists(x)
    BY DEF TypeOK, RealInv
  <2>4. CASE q = p
    BY <1>1, <2>2, <2>3, <2>4, PlanEffect, PlannedTargetsType DEF NoTarget
  <2>5. CASE q # p
    BY <1>1, <2>2, <2>5, PlanEffect DEF RealInv
  <2>6. QED
    BY <2>4, <2>5
<1>2. ASSUME NEW p \in Procs, RegisterSyntheticMountTargets(p)
      PROVE  RealInv'
  <2>1. PICK gone \in GoneSets :
           /\ target' = [target EXCEPT ![p] = [x \in Paths |-> Registered(p, x, gone)]]
           /\ \A x \in Paths :
                x \in Targets(p) => marker'[x][p] = MarkerContents(Registered(p, x, gone))
           /\ \A x \in Paths, q \in Procs :
                (q # p \/ x \notin Targets(p)) =>
                  marker'[x][q] = marker[x][q] \/ (marker'[x][q] = "none" /\ q \in gone)
    BY <1>2, RegistrationEffect
  <2>2. UNCHANGED <<fs, real, condemned>>
    BY <1>2 DEF RegisterSyntheticMountTargets
  <2>3. SUFFICES ASSUME NEW x \in real, NEW q \in Procs
                 PROVE  /\ target'[q][x].kind # "none" => target'[q][x].pre = fs[x].ino
                        /\ marker'[x][q] # "synthetic"
    BY <2>2 DEF RealInv, Exists
  <2>4. x \in Paths /\ fs[x].ino # NoInode
    BY DEF TypeOK, RealInv
  \* No marker of x is synthetic, so no planned target of x is converted.
  <2>5. Registered(p, x, gone) = target[p][x]
    BY <2>4 DEF RealInv, Registered, SyntheticOwners
  <2>6. target'[q][x] = target[q][x]
    BY <2>1, <2>4, <2>5 DEF TypeOK
  <2>7. marker'[x][q] # "synthetic"
    <3>1. CASE q = p /\ x \in Targets(p)
      BY <2>1, <2>4, <2>5, <3>1 DEF MarkerContents, Targets, RealInv
    <3>2. CASE q # p \/ x \notin Targets(p)
      BY <2>1, <2>4, <3>2 DEF RealInv
    <3>3. QED
      BY <3>1, <3>2
  <2>8. QED
    BY <2>6, <2>7 DEF RealInv
<1>3. ASSUME NEW p \in Procs, NEW x \in Paths, ChildMounts(p, x)
      PROVE  RealInv'
  <2>1. x \notin real
    BY <1>3 DEF ChildMounts, RealInv
  <2>2. QED
    BY <1>3, <2>1 DEF ChildMounts, RealInv, Exists, TypeOK
<1>4. ASSUME NEW p \in Procs, ChildStarts(p)
      PROVE  RealInv'
  BY <1>4 DEF ChildStarts, RealInv, Exists
<1>5. ASSUME NEW p \in Procs, ChildExits(p)
      PROVE  RealInv'
  BY <1>5 DEF ChildExits, RealInv, Exists, TypeOK, NoTarget
<1>6. ASSUME NEW p \in Procs, BeginCleanup(p)
      PROVE  RealInv'
  BY <1>6 DEF BeginCleanup, WithoutMarker, RealInv, Exists, TypeOK
<1>7. ASSUME NEW p \in Procs, NEW x \in Paths, Examine(p, x)
      PROVE  RealInv'
  <2>1. UNCHANGED <<fs, target, real>>
    BY <1>7 DEF Examine
  <2>2. x \in real => x \notin condemned'[p]
    BY <1>7, ExamineEffect DEF ShouldRemove, RealInv, Exists
  <2>3. ASSUME NEW y \in real, NEW q \in Procs
        PROVE  marker'[y][q] # "synthetic" /\ y \notin condemned'[q]
    <3>1. y \in Paths
      BY DEF TypeOK
    <3>2. marker'[y][q] # "synthetic"
      BY <1>7, <3>1, ExamineEffect DEF RealInv
    <3>3. y \notin condemned'[q]
      BY <1>7, <2>2, ExamineEffect DEF RealInv
    <3>4. QED
      BY <3>2, <3>3
  <2>4. QED
    BY <2>1, <2>3 DEF RealInv, Exists
<1>8. ASSUME NEW p \in Procs, Vanish(p), UNCHANGED <<fs, real>>
      PROVE  RealInv'
  <2>1. ASSUME NEW x \in real, NEW q \in Procs
        PROVE  /\ target'[q][x].kind # "none" => target'[q][x].pre = fs[x].ino
               /\ x \notin condemned'[q]
    <3>1. x \in Paths
      BY DEF TypeOK
    <3>2. target'[q][x].kind # "none" => target'[q][x] = target[q][x]
      BY <1>8, <3>1, VanishEffect
    <3>3. x \notin condemned'[q]
      BY <1>8, VanishEffect DEF RealInv
    <3>4. QED
      BY <3>2, <3>3 DEF RealInv
  <2>2. marker' = marker
    BY <1>8, VanishEffect
  <2>3. QED
    BY <1>8, <2>1, <2>2 DEF RealInv, Exists
<1>9. ASSUME NEW p \in Procs, NEW x \in Paths, Unlink(p, x)
      PROVE  RealInv'
  <2>1. CASE Vanish(p) /\ UNCHANGED <<fs, real>>
    BY <1>8, <2>1
  <2>2. CASE ~(Vanish(p) /\ UNCHANGED <<fs, real>>)
    <3>1. /\ fs' = fs \/ fs' = [fs EXCEPT ![x] = Absent]
          /\ real' \subseteq real
          /\ condemned' = [condemned EXCEPT ![p] = {}]
          /\ UNCHANGED <<marker, target>>
      BY <1>9, <2>2 DEF Unlink
    <3>2. x \notin real
      BY <1>9 DEF Unlink, RealInv
    <3>3. \A y \in real : fs'[y] = fs[y]
      BY <3>1, <3>2 DEF TypeOK
    <3>4. QED
      BY <3>1, <3>3 DEF RealInv, Exists, TypeOK
  <2>3. QED
    BY <2>1, <2>2
<1>10. ASSUME NEW x \in Paths, UserStep(x)
       PROVE  RealInv'
  <2>1. CASE UserCreates(x)
    <3>1. PICK k \in Kinds, e \in BOOLEAN, i \in FreeInodes :
            fs' = [fs EXCEPT ![x] = [kind |-> k, ino |-> i, empty |-> e, by |-> "user"]]
      BY <2>1 DEF UserCreates
    <3>2. fs'[x].kind # "none" /\ fs'[x].ino # NoInode
      BY <3>1, ConstantsAssumption DEF TypeOK, Kinds, FreeInodes, ConstantsAssumption
    <3>3. x \notin real /\ UNCHANGED <<marker, target, condemned>>
      BY <2>1 DEF UserCreates, RealInv
    <3>4. \A y \in real : fs'[y] = fs[y]
      BY <3>1, <3>3 DEF TypeOK
    <3>5. x \in real' => ~Claimed(x)
      BY <2>1, <3>3 DEF UserCreates
    <3>6. x \in real' => \A q \in Procs : x \notin condemned[q]
      BY <3>5 DEF Claimed, CondemnedInv
    <3>7. QED
      BY <2>1, <3>2, <3>3, <3>4, <3>5, <3>6 DEF UserCreates, RealInv, Claimed, Exists
  <2>2. CASE UserFills(x)
    <3>1. /\ \A y \in Paths : fs'[y].kind = fs[y].kind /\ fs'[y].ino = fs[y].ino
          /\ UNCHANGED <<marker, target, condemned, real>>
      BY <2>2 DEF UserFills, TypeOK, Object
    <3>2. QED
      BY <3>1 DEF RealInv, Exists, TypeOK
  <2>3. CASE UserRemoves(x)
    <3>1. \A y \in real \ {x} : fs'[y] = fs[y]
      BY <2>3 DEF UserRemoves, TypeOK
    <3>2. QED
      BY <2>3, <3>1 DEF UserRemoves, RealInv, Exists
  <2>4. QED
    BY <1>10, <2>1, <2>2, <2>3 DEF UserStep
<1>11. ASSUME NEW p \in Procs, NEW x \in Paths, OtherTargetOf(p, x)
       PROVE  RealInv'
  <2>1. UNCHANGED <<fs, real, marker, condemned>>
    BY <1>11 DEF OtherTargetOf
  <2>2. \A q \in Procs, y \in Paths :
          /\ target'[q][y].kind = "none" <=> target[q][y].kind = "none"
          /\ target'[q][y].pre = target[q][y].pre
    BY <1>11, OtherTargetEffect
  <2>3. real \subseteq Paths
    BY DEF TypeOK
  <2> QED
    BY <2>1, <2>2, <2>3 DEF RealInv, Exists
<1>12. CASE UNCHANGED vars
  BY <1>12 DEF vars, RealInv, Exists
<1> QED
  BY <1>1, <1>2, <1>3, <1>4, <1>5, <1>6, <1>7, <1>8, <1>9, <1>10, <1>11, <1>12
     DEF Next, HelperStep, EndCleanup, Crash

-----------------------------------------------------------------------------
(* The theorems                                                             *)

\* A host without markers and helpers satisfies the invariant.
LEMMA InitInvariant ==
  ASSUME Init
  PROVE  IInv
<1>1. TypeOK
  BY InitType, ConstantsAssumption
<1>2. LockInv /\ MarkerInv /\ CondemnedInv
  BY DEF Init, LockInv, MarkerInv, CondemnedInv
<1>3. RealInv
  BY DEF Init, RealInv, NoTarget
<1>4. QED
  BY <1>1, <1>2, <1>3 DEF IInv

\* Lock, markers, decisions and real paths stay in step, for any helpers, paths
\* and inodes: the inductive invariant of the registry (run_main.rs).
THEOREM RegistryInvariant == Spec => []IInv
<1>1. Init => IInv
  BY InitInvariant
<1>2. IInv /\ [Next]_vars => IInv'
  BY NextType, LockInvStep, MarkerInvStep, CondemnedInvStep, RealInvStep DEF IInv
<1>3. QED
  BY <1>1, <1>2, PTL DEF Spec

\* No cleanup sets out to remove the mount point of a live, registered run
\* (cleanup_synthetic_mount_targets, under the lock, after its scan).
THEOREM LiveMountsSpared == Spec => []CleanupSparesLiveMounts
<1>1. IInv => CleanupSparesLiveMounts
  BY DEF IInv, CondemnedInv, CleanupSparesLiveMounts
<1>2. QED
  BY <1>1, RegistryInvariant, PTL

\* No cleanup ever sets out to remove what was there before helpers came
\* (SyntheticMountTarget::should_remove_after_bwrap).
THEOREM RealPathsKept == Spec => []RealPathsPreserved
<1>1. IInv => RealPathsPreserved
  BY DEF IInv, RealInv, RealPathsPreserved
<1>2. QED
  BY <1>1, RegistryInvariant, PTL

-----------------------------------------------------------------------------
(* Helpers alone, none of which is killed                                   *)

\* What the host holds is the user's and was there from the beginning, or is an
\* empty mount point.
HostInv ==
  /\ \A x \in real : fs[x].by = "user"
  /\ \A x \in Paths \ real :
       /\ ~Exists(x) => fs[x].by = "user"
       /\ Exists(x) => fs[x].empty

\* There are no orphans, no plans of dead helpers, and no stale markers.
AliveInv ==
  /\ \A p \in Procs : child[p] # "none" => pc[p] = "running"
  /\ \A p \in Procs, x \in Paths : pc[p] = "off" => target[p][x].kind = "none"
  /\ \A p \in Procs, x \in Paths :
       marker[x][p] # "none" => pc[p] = "running" /\ target[p][x].kind # "none"

\* A path that a cleanup has dealt with is gone, in use by another run, known to the
\* cleanup as one that existed, or masked in another way than the cleanup's own run
\* did it; one at a time is decided on, and is of the kind to be removed.
DealtWithInv ==
  /\ \A q \in Procs : \A x, y \in condemned[q] : x = y
  /\ \A q \in Procs : \A x \in condemned[q] :
       fs[x].kind \in {"none", target[q][x].kind}
  /\ \A q \in Procs : \A x \in Paths :
       (pc[q] = "cleaning" /\ target[q][x].kind # "none" /\ x \notin todo[q] \cup condemned[q])
         => \/ ~Exists(x)
            \/ \E p \in Procs : pc[p] = "running" /\ target[p][x].kind # "none"
            \/ target[q][x].pre = fs[x].ino
            \/ target[q][x].kind # fs[x].kind

QuietInv == HostInv /\ AliveInv /\ DealtWithInv

\* The host without helpers satisfies the invariant.
LEMMA QuietInit ==
  ASSUME Init
  PROVE  QuietInv
<1>1. HostInv
  <2>1. fs \in [Paths -> Object] /\ \A x \in Paths : fs[x].by = "user"
    BY DEF Init
  <2>2. \A x \in Paths \ real : ~Exists(x)
    BY DEF Init
  <2>3. real \subseteq Paths
    BY DEF Init
  <2> QED
    BY <2>1, <2>2, <2>3 DEF HostInv
<1>2. AliveInv
  BY DEF Init, AliveInv, NoTarget
<1>3. DealtWithInv
  BY DEF Init, DealtWithInv
<1> QED
  BY <1>1, <1>2, <1>3 DEF QuietInv

\* What a cleanup finds at a path it examines: it removes it, or the path is in use,
\* missing, or not its own to remove (the second loop of
\* cleanup_synthetic_mount_targets).
LEMMA ExamineDecides ==
  ASSUME TypeOK, NEW p \in Procs, NEW x \in Paths, Examine(p, x)
  PROVE  \/ x \in condemned'[p]
         \/ \E q \in Procs : marker[x][q] # "none"
         \/ ~Exists(x)
         \/ ~ShouldRemove(target[p][x], fs[x])
<1>1. PICK gone \in GoneSets :
        condemned' = [condemned EXCEPT ![p] =
          IF ActiveProcesses(x, gone) = {} /\ Exists(x) /\ ShouldRemove(target[p][x], fs[x])
            THEN {x} ELSE {}]
  BY DEF Examine
<1>2. ActiveProcesses(x, gone) # {} => \E q \in Procs : marker[x][q] # "none"
  BY DEF ActiveProcesses
<1> QED
  BY <1>1, <1>2 DEF TypeOK

\* A removal by a cleanup makes the path missing: what is not real is as empty as
\* bubblewrap left it (remove_synthetic_mount_target).
LEMMA UnlinkEffect ==
  ASSUME IInv, HostInv, DealtWithInv, NEW p \in Procs, NEW x \in Paths, Unlink(p, x)
  PROVE  /\ fs' = [fs EXCEPT ![x] = Absent] /\ real' = real
         /\ condemned' = [condemned EXCEPT ![p] = {}]
         /\ UNCHANGED <<marker, pc, target, child, todo>>
<1>1. x \in condemned[p] /\ x \notin real
  BY DEF Unlink, IInv, RealInv
<1>2. fs[x].kind \in {"none", target[p][x].kind}
  BY <1>1 DEF DealtWithInv
<1>3. Exists(x) => fs[x].empty
  BY <1>1 DEF HostInv
<1>4. ~(fs[x].kind = "dir" /\ ~fs[x].empty)
  BY <1>3 DEF Exists
<1>5. (real \ {x}) = real
  BY <1>1
<1> QED
  BY <1>1, <1>2, <1>3, <1>4, <1>5 DEF Unlink

\* Every step of a helper that is not killed keeps HostInv: what bubblewrap makes is
\* empty (append_empty_directory_args, append_empty_file_bind_data_args).
LEMMA HostInvStep ==
  ASSUME IInv, QuietInv, ConstantsAssumption, [QuietNext]_vars
  PROVE  HostInv'
<1> USE DEF QuietInv
<1>1. ASSUME NEW p \in Procs, Plan(p) \/ RegisterSyntheticMountTargets(p)
      PROVE  HostInv'
  BY <1>1 DEF Plan, RegisterSyntheticMountTargets, HostInv, Exists
<1>2. ASSUME NEW p \in Procs, NEW x \in Paths, OtherTargetOf(p, x)
      PROVE  HostInv'
  BY <1>2 DEF OtherTargetOf, HostInv, Exists
<1>3. ASSUME NEW p \in Procs, NEW x \in Paths, ChildMounts(p, x)
      PROVE  HostInv'
  <2>1. PICK i \in FreeInodes :
          fs' = [fs EXCEPT ![x] =
                   [kind |-> FirstMask(target[p][x]), ino |-> i, empty |-> TRUE,
                    by |-> "bwrap"]]
    BY <1>3 DEF ChildMounts
  <2>2. x \notin real /\ UNCHANGED <<target, real>>
    BY <1>3 DEF ChildMounts, IInv, RealInv
  <2>3. /\ fs'[x].kind = FirstMask(target[p][x]) /\ fs'[x].empty
        /\ \A y \in Paths \ {x} : fs'[y] = fs[y]
    BY <2>1 DEF IInv, TypeOK
  <2>4. FirstMask(target[p][x]) # "none" /\ real \subseteq Paths
    BY <1>3 DEF ChildMounts, FirstMask, IInv, TypeOK
  <2> QED
    BY <2>2, <2>3, <2>4 DEF HostInv, Exists
<1>4. ASSUME NEW p \in Procs, ChildStarts(p) \/ BeginCleanup(p)
      PROVE  HostInv'
  BY <1>4 DEF ChildStarts, BeginCleanup, HostInv, Exists
<1>5. ASSUME NEW p \in Procs, ChildExits(p)
      PROVE  HostInv'
  BY <1>5 DEF ChildExits, AliveInv, HostInv, Exists
<1>6. ASSUME NEW p \in Procs, NEW x \in Paths, Examine(p, x)
      PROVE  HostInv'
  BY <1>6 DEF Examine, HostInv, Exists
<1>7. ASSUME NEW p \in Procs, NEW x \in Paths, Unlink(p, x)
      PROVE  HostInv'
  <2>1. fs' = [fs EXCEPT ![x] = Absent] /\ real' = real /\ target' = target
    BY <1>7, UnlinkEffect
  <2>2. x \notin real /\ real \subseteq Paths
    BY <1>7 DEF Unlink, IInv, RealInv, TypeOK
  <2>3. fs'[x] = Absent /\ \A y \in Paths \ {x} : fs'[y] = fs[y]
    BY <2>1 DEF IInv, TypeOK
  <2> QED
    BY <2>1, <2>2, <2>3 DEF HostInv, Exists, Absent
<1>8. ASSUME NEW p \in Procs, EndCleanup(p)
      PROVE  HostInv'
  BY <1>8 DEF EndCleanup, HostInv, Exists
<1>9. CASE UNCHANGED vars
  BY <1>9 DEF vars, HostInv, Exists
<1> QED
  BY <1>1, <1>2, <1>3, <1>4, <1>5, <1>6, <1>7, <1>8, <1>9 DEF QuietNext, HelperStep

\* Every step of a helper that is not killed keeps AliveInv: it drops its markers
\* when its cleanup begins, and its targets when that ends.
LEMMA AliveInvStep ==
  ASSUME IInv, QuietInv, ConstantsAssumption, [QuietNext]_vars
  PROVE  AliveInv'
<1> USE DEF QuietInv
<1>1. ASSUME NEW p \in Procs, Plan(p)
      PROVE  AliveInv'
  <2>1. /\ \A q \in Procs : q # p => target'[q] = target[q]
        /\ \A q \in Procs : pc'[q] = IF q = p THEN "planned" ELSE pc[q]
        /\ pc[p] = "off" /\ UNCHANGED <<marker, child>>
    BY <1>1, PlanEffect DEF Plan, IInv, TypeOK
  <2> QED
    BY <2>1 DEF AliveInv
<1>2. ASSUME NEW p \in Procs, RegisterSyntheticMountTargets(p)
      PROVE  AliveInv'
  <2>1. PICK gone \in GoneSets :
          /\ target' = [target EXCEPT ![p] = [x \in Paths |-> Registered(p, x, gone)]]
          /\ \A x \in Paths, q \in Procs :
               (q # p \/ x \notin Targets(p)) => marker'[x][q] \in {marker[x][q], "none"}
    BY <1>2, RegistrationEffect DEF IInv
  <2>2. \A q \in Procs, x \in Paths : target'[q][x].kind = target[q][x].kind
    BY <2>1, RegisteredType DEF IInv, TypeOK
  <2>3. /\ \A q \in Procs : pc'[q] = IF q = p THEN "running" ELSE pc[q]
        /\ \A q \in Procs : q # p => child'[q] = child[q]
        /\ pc[p] = "planned"
    BY <1>2 DEF RegisterSyntheticMountTargets, IInv, TypeOK
  <2>4. \A x \in Targets(p) : x \in Paths /\ target[p][x].kind # "none"
    BY DEF Targets
  <2> QED
    BY <2>1, <2>2, <2>3, <2>4 DEF AliveInv
<1>3. ASSUME NEW p \in Procs, NEW x \in Paths, ChildMounts(p, x)
      PROVE  AliveInv'
  BY <1>3 DEF ChildMounts, AliveInv
<1>4. ASSUME NEW p \in Procs, ChildStarts(p) \/ ChildExits(p)
      PROVE  AliveInv'
  <2>1. pc[p] = "running"
    BY <1>4 DEF ChildStarts, ChildExits, AliveInv
  <2>2. UNCHANGED <<pc, marker, target>>
    BY <1>4, <2>1 DEF ChildStarts, ChildExits
  <2>3. \A q \in Procs : q # p => child'[q] = child[q]
    BY <1>4 DEF ChildStarts, ChildExits, IInv, TypeOK
  <2> QED
    BY <2>1, <2>2, <2>3 DEF AliveInv
<1>5. ASSUME NEW p \in Procs, BeginCleanup(p)
      PROVE  AliveInv'
  <2>1. /\ \A q \in Procs : pc'[q] = IF q = p THEN "cleaning" ELSE pc[q]
        /\ UNCHANGED <<target, child>> /\ child[p] = "none"
    BY <1>5 DEF BeginCleanup, IInv, TypeOK
  <2>2. ASSUME NEW x \in Paths, NEW q \in Procs, marker'[x][q] # "none"
        PROVE  q # p /\ marker[x][q] # "none"
    <3>1. marker[x] \in [Procs -> Markers]
      BY DEF IInv, TypeOK
    <3>2. marker'[x] = IF x \in Targets(p) THEN [marker[x] EXCEPT ![p] = "none"] ELSE marker[x]
      BY <1>5 DEF BeginCleanup, WithoutMarker
    <3>3. x \notin Targets(p) => marker[x][p] = "none"
      BY DEF Targets, AliveInv
    <3> QED
      BY <2>2, <3>1, <3>2, <3>3
  <2> QED
    BY <2>1, <2>2 DEF AliveInv
<1>6. ASSUME NEW p \in Procs, NEW x \in Paths, Examine(p, x)
      PROVE  AliveInv'
  <2>1. \A y \in Paths, q \in Procs : marker'[y][q] \in {marker[y][q], "none"}
    BY <1>6, ExamineEffect DEF IInv
  <2>2. UNCHANGED <<pc, target, child>>
    BY <1>6 DEF Examine
  <2> QED
    BY <2>1, <2>2 DEF AliveInv
<1>7. ASSUME NEW p \in Procs, NEW x \in Paths, Unlink(p, x)
      PROVE  AliveInv'
  BY <1>7, UnlinkEffect DEF AliveInv
<1>8. ASSUME NEW p \in Procs, EndCleanup(p)
      PROVE  AliveInv'
  <2>1. pc[p] = "cleaning" /\ child[p] = "none"
    BY <1>8 DEF EndCleanup, AliveInv
  <2>2. /\ \A q \in Procs : pc'[q] = IF q = p THEN "off" ELSE pc[q]
        /\ \A q \in Procs : q # p => target'[q] = target[q]
        /\ UNCHANGED <<marker, child>>
    BY <1>8, VanishEffect DEF EndCleanup, IInv
  <2>3. \A x \in Paths : target'[p][x].kind = "none"
    BY <1>8, <2>1 DEF EndCleanup, Vanish, IInv, TypeOK, NoTarget
  <2> QED
    BY <2>1, <2>2, <2>3 DEF AliveInv
<1>9. ASSUME NEW p \in Procs, NEW x \in Paths, OtherTargetOf(p, x)
      PROVE  AliveInv'
  <2>1. pc[p] = "cleaning" /\ UNCHANGED <<pc, marker, child>>
    BY <1>9 DEF OtherTargetOf
  <2> QED
    BY <1>9, <2>1, OtherTargetEffect DEF AliveInv, IInv
<1>10. CASE UNCHANGED vars
  BY <1>10 DEF vars, AliveInv
<1> QED
  BY <1>1, <1>2, <1>3, <1>4, <1>5, <1>6, <1>7, <1>8, <1>9, <1>10 DEF QuietNext, HelperStep

\* Every step of a helper that is not killed keeps DealtWithInv: nobody registers
\* while a cleanup holds the lock, and only a registered run makes a path exist.
LEMMA DealtWithInvStep ==
  ASSUME IInv, QuietInv, ConstantsAssumption, [QuietNext]_vars
  PROVE  DealtWithInv'
<1> USE DEF QuietInv
<1>1. ASSUME NEW p \in Procs, Plan(p)
      PROVE  DealtWithInv'
  <2>1. pc[p] = "off" /\ UNCHANGED <<fs, todo, condemned>>
    BY <1>1 DEF Plan
  <2>2. \A q \in Procs : q # p => target'[q] = target[q]
    BY <1>1, PlanEffect DEF IInv
  <2>3. \A q \in Procs : pc'[q] = IF q = p THEN "planned" ELSE pc[q]
    BY <1>1 DEF Plan, IInv, TypeOK
  <2>4. condemned[p] = {}
    BY <2>1 DEF IInv, LockInv
  <2> QED
    BY <2>1, <2>2, <2>3, <2>4 DEF DealtWithInv, Exists
<1>2. ASSUME NEW p \in Procs, RegisterSyntheticMountTargets(p) \/ BeginCleanup(p)
      PROVE  DealtWithInv'
  <2>1. \A q \in Procs : pc[q] # "cleaning"
    BY <1>2 DEF RegisterSyntheticMountTargets, BeginCleanup, LockFree
  <2>2. CASE RegisterSyntheticMountTargets(p)
    <3>1. \A q \in Procs : condemned'[q] = {}
      BY <2>1, <2>2 DEF RegisterSyntheticMountTargets, IInv, LockInv
    <3>2. \A q \in Procs : pc'[q] # "cleaning"
      BY <2>1, <2>2 DEF RegisterSyntheticMountTargets, IInv, TypeOK
    <3> QED
      BY <3>1, <3>2 DEF DealtWithInv
  <2>3. CASE BeginCleanup(p)
    <3>1. \A q \in Procs : pc'[q] = "cleaning" => q = p
      BY <2>1, <2>3 DEF BeginCleanup, IInv, TypeOK
    <3>2. todo'[p] = Targets(p) /\ target' = target
      BY <2>3 DEF BeginCleanup, IInv, TypeOK
    <3>3. \A q \in Procs : condemned'[q] = {}
      BY <2>1, <2>3 DEF BeginCleanup, IInv, LockInv
    <3> QED
      BY <3>1, <3>2, <3>3 DEF DealtWithInv, Targets
  <2> QED
    BY <1>2, <2>2, <2>3
<1>3. ASSUME NEW p \in Procs, NEW x \in Paths, ChildMounts(p, x)
      PROVE  DealtWithInv'
  <2>1. pc[p] = "running" /\ target[p][x].kind # "none"
    BY <1>3 DEF ChildMounts, AliveInv
  <2>2. \A y \in Paths \ {x} : fs'[y] = fs[y]
    BY <1>3 DEF ChildMounts, IInv, TypeOK
  <2>3. UNCHANGED <<pc, target, todo, condemned>>
    BY <1>3 DEF ChildMounts
  <2>4. \A q \in Procs : x \notin condemned[q]
    BY <2>1 DEF IInv, CondemnedInv
  <2>5. \A q \in Procs : \A y \in condemned[q] : y \in Paths
    BY DEF IInv, TypeOK
  <2> QED
    BY <2>1, <2>2, <2>3, <2>4, <2>5 DEF DealtWithInv, Exists
<1>4. ASSUME NEW p \in Procs, ChildStarts(p) \/ ChildExits(p)
      PROVE  DealtWithInv'
  BY <1>4 DEF ChildStarts, ChildExits, AliveInv, DealtWithInv, Exists
<1>5. ASSUME NEW p \in Procs, NEW x \in Paths, Examine(p, x)
      PROVE  DealtWithInv'
  <2>1. /\ UNCHANGED <<fs, pc, target>>
        /\ \A q \in Procs : todo'[q] = IF q = p THEN todo[p] \ {x} ELSE todo[q]
        /\ pc[p] = "cleaning" /\ x \in todo[p] /\ condemned[p] = {}
    BY <1>5 DEF Examine, IInv, TypeOK
  <2>2. /\ \A q \in Procs \ {p} : condemned'[q] = condemned[q]
        /\ condemned'[p] \subseteq {x}
    BY <1>5, ExamineEffect DEF IInv
  <2>3. ASSUME target[p][x].kind # "none", x \notin condemned'[p]
        PROVE  \/ ~Exists(x)
               \/ \E q \in Procs : pc[q] = "running" /\ target[q][x].kind # "none"
               \/ target[p][x].pre = fs[x].ino
               \/ target[p][x].kind # fs[x].kind
    <3>1. CASE \E q \in Procs : marker[x][q] # "none"
      BY <3>1 DEF AliveInv
    <3>2. CASE Exists(x) /\ ~ShouldRemove(target[p][x], fs[x])
      <4>1. x \in real => target[p][x].pre = fs[x].ino
        BY <2>3 DEF IInv, RealInv
      <4>2. x \notin real => fs[x].empty
        BY <3>2 DEF HostInv
      <4> QED
        BY <3>2, <4>1, <4>2 DEF ShouldRemove
    <3> QED
      BY <1>5, <2>3, <3>1, <3>2, ExamineDecides DEF IInv
  <2>4. ASSUME NEW q \in Procs, NEW y \in Paths, pc'[q] = "cleaning",
               target'[q][y].kind # "none", y \notin todo'[q] \cup condemned'[q]
        PROVE  \/ ~Exists(y)
               \/ \E r \in Procs : pc[r] = "running" /\ target[r][y].kind # "none"
               \/ target[q][y].pre = fs[y].ino
               \/ target[q][y].kind # fs[y].kind
    <3>1. CASE q = p /\ y = x
      BY <2>1, <2>3, <2>4, <3>1
    <3>2. CASE ~(q = p /\ y = x)
      <4>1. y \notin todo[q] \cup condemned[q]
        BY <2>1, <2>2, <2>4, <3>2
      <4> QED
        BY <2>1, <2>4, <4>1 DEF DealtWithInv
    <3> QED
      BY <3>1, <3>2
  <2>5. \A q \in Procs : \A y, z \in condemned'[q] : y = z
    BY <2>2 DEF DealtWithInv
  <2>6. x \in condemned'[p] => fs[x].kind = target[p][x].kind
    BY <1>5, ExamineEffect DEF IInv, ShouldRemove
  <2>7. \A q \in Procs : \A y \in condemned'[q] : fs[y].kind \in {"none", target[q][y].kind}
    BY <2>2, <2>6 DEF DealtWithInv
  <2> QED
    BY <2>1, <2>4, <2>5, <2>7 DEF DealtWithInv, Exists
<1>6. ASSUME NEW p \in Procs, NEW x \in Paths, Unlink(p, x)
      PROVE  DealtWithInv'
  <2>1. /\ fs' = [fs EXCEPT ![x] = Absent]
        /\ condemned' = [condemned EXCEPT ![p] = {}]
        /\ UNCHANGED <<pc, target, todo>>
    BY <1>6, UnlinkEffect
  <2>2. fs'[x] = Absent /\ \A y \in Paths \ {x} : fs'[y] = fs[y]
    BY <2>1 DEF IInv, TypeOK
  <2>3. condemned'[p] = {} /\ \A q \in Procs \ {p} : condemned'[q] = condemned[q]
    BY <2>1 DEF IInv, TypeOK
  <2>4. condemned[p] = {x}
    BY <1>6 DEF Unlink, DealtWithInv
  <2>5. \A q \in Procs : \A y \in condemned'[q] : y \in Paths /\ y \in condemned[q]
    BY <2>3 DEF IInv, TypeOK
  <2> QED
    BY <2>1, <2>2, <2>3, <2>4, <2>5 DEF DealtWithInv, Exists, Absent
<1>7. ASSUME NEW p \in Procs, EndCleanup(p)
      PROVE  DealtWithInv'
  <2>1. pc[p] = "cleaning"
    BY <1>7 DEF EndCleanup
  <2>2. \A q \in Procs : pc'[q] # "cleaning"
    BY <1>7, <2>1, VanishEffect DEF EndCleanup, IInv, LockInv
  <2>3. \A q \in Procs : condemned'[q] = {}
    BY <1>7, <2>1, VanishEffect DEF EndCleanup, IInv, LockInv
  <2> QED
    BY <2>2, <2>3 DEF DealtWithInv
<1>8. ASSUME NEW p \in Procs, NEW x \in Paths, OtherTargetOf(p, x)
      PROVE  DealtWithInv'
  <2>1. pc[p] = "cleaning" /\ condemned[p] = {} /\ UNCHANGED <<fs, pc, condemned>>
    BY <1>8 DEF OtherTargetOf
  <2>2. \A q \in Procs : q # p => target'[q] = target[q]
    BY <1>8 DEF OtherTargetOf, IInv, TypeOK
  <2>3. \A y \in Paths : y # x => target'[p][y] = target[p][y]
    BY <1>8, OtherTargetEffect DEF IInv
  <2>4. \A q \in Procs : todo'[q] = IF q = p THEN todo[p] \cup {x} ELSE todo[q]
    BY <1>8, OtherTargetEffect DEF IInv
  <2>5. \A q \in Procs, y \in Paths :
          pc[q] = "running" => target'[q][y] = target[q][y]
    BY <2>1, <2>2
  <2>6. \A q \in Procs : \A y \in condemned[q] : q # p
    BY <2>1
  <2> QED
    BY <2>1, <2>2, <2>3, <2>4, <2>5, <2>6 DEF DealtWithInv, Exists
<1>9. CASE UNCHANGED vars
  BY <1>9 DEF vars, DealtWithInv, Exists
<1> QED
  BY <1>1, <1>2, <1>3, <1>4, <1>5, <1>6, <1>7, <1>8, <1>9 DEF QuietNext, HelperStep

\* With no helper killed and the user away, a mount point that outlives the last run
\* with a target for it was taken by that run for a pre-existing path, or is of the
\* other kind (cleanup_synthetic_mount_targets, register_synthetic_mount_targets): the
\* step is the end of its cleanup, which has dealt with the path.
LEMMA LastUserKnewIt ==
  ASSUME IInv, QuietInv, [QuietNext]_vars, NEW x \in Paths, fs'[x].by = "bwrap",
         NEW p \in Procs, target[p][x].kind # "none",
         \A q \in Procs : target'[q][x].kind = "none"
  PROVE  \E q \in Procs :
           /\ target[q][x].kind # "none"
           /\ target[q][x].pre = fs[x].ino \/ target[q][x].kind # fs[x].kind
<1> USE DEF QuietInv
<1>1. target'[p] # target[p]
  OBVIOUS
<1>2. ASSUME NEW q \in Procs, Plan(q)
      PROVE  FALSE
  <2>1. q = p
    BY <1>1, <1>2, PlanEffect DEF IInv
  <2> QED
    BY <1>2, <2>1 DEF Plan, AliveInv
<1>3. ASSUME NEW q \in Procs, RegisterSyntheticMountTargets(q)
      PROVE  FALSE
  <2>1. PICK gone \in GoneSets :
          target' = [target EXCEPT ![q] = [y \in Paths |-> Registered(q, y, gone)]]
    BY <1>3, RegistrationEffect DEF IInv
  <2>2. target'[p][x].kind = target[p][x].kind
    BY <2>1, RegisteredType DEF IInv, TypeOK
  <2> QED
    BY <2>2
<1>4. ASSUME NEW q \in Procs, ChildExits(q)
      PROVE  FALSE
  BY <1>1, <1>4 DEF ChildExits, AliveInv
<1>5. ASSUME NEW q \in Procs, NEW y \in Paths, Unlink(q, y)
      PROVE  FALSE
  BY <1>1, <1>5, UnlinkEffect
<1>6. ASSUME NEW q \in Procs, EndCleanup(q)
      PROVE  target[p][x].pre = fs[x].ino \/ target[p][x].kind # fs[x].kind
  <2>1. p = q
    BY <1>1, <1>6, VanishEffect DEF EndCleanup, IInv
  <2>2. ~\E r \in Procs : pc[r] = "running" /\ target[r][x].kind # "none"
    BY <1>6, VanishEffect DEF EndCleanup, IInv
  <2>3. pc[p] = "cleaning" /\ x \notin todo[p] \cup condemned[p] /\ fs' = fs
    BY <1>6, <2>1 DEF EndCleanup
  <2>4. Exists(x)
    BY <2>3 DEF HostInv
  <2> QED
    BY <2>2, <2>3, <2>4 DEF DealtWithInv
<1>7. ASSUME NEW q \in Procs, \/ ChildStarts(q) \/ BeginCleanup(q)
                              \/ \E y \in Paths : ChildMounts(q, y) \/ Examine(q, y)
      PROVE  FALSE
  BY <1>1, <1>7 DEF ChildStarts, BeginCleanup, ChildMounts, Examine
<1>8. ASSUME NEW q \in Procs, NEW y \in Paths, OtherTargetOf(q, y)
      PROVE  FALSE
  <2>1. target'[p][x].kind # "none"
    BY <1>8, OtherTargetEffect DEF IInv
  <2> QED
    BY <2>1
<1>9. CASE UNCHANGED vars
  BY <1>1, <1>9 DEF vars
<1> QED
  BY <1>2, <1>3, <1>4, <1>5, <1>6, <1>7, <1>8, <1>9 DEF QuietNext, HelperStep

\* What the run registry_quiet checks, for any helpers, paths and inodes: a mount point
\* stays behind only in the two ways of the finding, an identity that was remembered
\* (run_main.rs, 891) or two kinds of mask for one path (bwrap_runner.rs, 1096 and 1164).
THEOREM LeftoversExplained == QuietSpec => LeftoverOnlyIfTakenForReal
<1>1. Init => IInv /\ QuietInv
  BY InitInvariant, QuietInit
<1>2. IInv /\ QuietInv /\ [QuietNext]_vars => IInv' /\ QuietInv'
  <2> SUFFICES ASSUME IInv, QuietInv, [QuietNext]_vars
               PROVE  IInv' /\ QuietInv'
    OBVIOUS
  <2>1. [Next]_vars
    BY DEF QuietNext, Next
  <2>2. IInv'
    BY <2>1, NextType, LockInvStep, MarkerInvStep, CondemnedInvStep, RealInvStep DEF IInv
  <2>3. QuietInv'
    BY HostInvStep, AliveInvStep, DealtWithInvStep, ConstantsAssumption DEF QuietInv
  <2> QED
    BY <2>2, <2>3
<1> DEFINE Explained ==
      \A x \in Paths :
        LET users == {p \in Procs : target[p][x].kind # "none"} IN
        (fs'[x].by = "bwrap" /\ users # {} /\ \A p \in Procs : target'[p][x].kind = "none")
          => \E p \in users : \/ target[p][x].pre = fs[x].ino
                               \/ target[p][x].kind # fs[x].kind
<1>3. IInv /\ QuietInv /\ [QuietNext]_vars => Explained
  BY LastUserKnewIt
<1>4. QuietSpec => Init /\ [][QuietNext]_vars
  BY PTL DEF QuietSpec
<1>5. LeftoverOnlyIfTakenForReal <=> [][Explained]_vars
  BY PTL DEF LeftoverOnlyIfTakenForReal
<1> HIDE DEF Explained
<1> QED
  BY <1>1, <1>2, <1>3, <1>4, <1>5, PTL

==============================================================================
