---------------------------- MODULE BwrapRun_proofs ----------------------------
(***************************************************************************)
(* Proofs about BwrapRun, for any set of signals and any number of them.   *)
(***************************************************************************)
EXTENDS BwrapRun, TLAPS

(***************************************************************************)
(* Before the helper blocks anything nothing is registered, forked or       *)
(* installed.                                                              *)
(***************************************************************************)
LEMMA InitInvariant == Init => IInv
<1> SUFFICES ASSUME Init PROVE IInv
  OBVIOUS
<1>1. TypeOK
  <2>1. /\ mask \in BOOLEAN /\ handlers \in BOOLEAN /\ cpid \in BOOLEAN
        /\ monitor \in BOOLEAN /\ registered \in BOOLEAN
        /\ cmask \in BOOLEAN /\ pdeath \in BOOLEAN
    BY DEF Init
  <2>2. sends \in 0..MaxSends
    BY SignalsAssumption DEF SignalsAssumption, Init
  <2>3. /\ hp \in HelperPoints /\ end = "alive" /\ cp \in ChildPoints
        /\ pipe = "closed"
    BY DEF Init, HelperPoints, ChildPoints
  <2>4. pend \subseteq Signals /\ cpend \subseteq Signals /\ fwd = NoSignal
    BY DEF Init
  <2> QED
    BY <2>1, <2>2, <2>3, <2>4 DEF TypeOK
<1>2. GuardInv /\ ChildInv /\ SignalSparesRegistered
  BY DEF Init, GuardInv, ChildInv, SignalSparesRegistered
<1> QED
  BY <1>1, <1>2 DEF IInv

(***************************************************************************)
(* Each system call of the helper (one action, one case) leaves every       *)
(* variable within its type and keeps masks, handlers, registrations and    *)
(* the child in step with the place the helper has got to.                  *)
(***************************************************************************)
LEMMA HelperStepInvariant == IInv /\ HelperStep => IInv'
<1> SUFFICES ASSUME IInv, HelperStep PROVE IInv'
  OBVIOUS
<1> USE SignalsAssumption DEF SignalsAssumption
<1> USE DEF IInv, TypeOK, GuardInv, ChildInv, SignalSparesRegistered,
            HelperPoints, ChildPoints, Runs, childVars
<1>1. CASE BlockSignals
  BY <1>1 DEF BlockSignals
<1>2. CASE Register
  BY <1>2 DEF Register
<1>3. CASE Fork
  BY <1>3 DEF Fork, PipeAtFork
<1>4. CASE StartMonitor
  BY <1>4 DEF StartMonitor
<1>5. CASE InstallForwarders
  BY <1>5 DEF InstallForwarders, SendToChild
<1>6. CASE ReleaseChild
  BY <1>6 DEF ReleaseChild
<1>7. CASE UnblockToWait
  BY <1>7 DEF UnblockToWait, Unblock
<1>8. CASE Reap
  BY <1>8 DEF Reap
<1>9. CASE BlockForCleanup
  BY <1>9 DEF BlockForCleanup
<1>10. CASE StopMonitor
  BY <1>10 DEF StopMonitor
<1>11. CASE CleanUp
  BY <1>11 DEF CleanUp
<1>12. CASE RestoreHandlers
  BY <1>12 DEF RestoreHandlers
<1>13. CASE UnblockToExit
  BY <1>13 DEF UnblockToExit, Unblock
<1>14. CASE Exit
  BY <1>14 DEF Exit
<1> QED
  BY <1>1, <1>2, <1>3, <1>4, <1>5, <1>6, <1>7, <1>8, <1>9, <1>10, <1>11,
     <1>12, <1>13, <1>14 DEF HelperStep

(***************************************************************************)
(* The child's own steps, up to exec and to its end, keep the invariant: a  *)
(* child that waits on the pipe does not become bubblewrap.                 *)
(***************************************************************************)
LEMMA ChildInvariant ==
  IInv /\ (ChildStep \/ ChildExits \/ ChildKilledBySignal) => IInv'
<1> SUFFICES ASSUME IInv, ChildStep \/ ChildExits \/ ChildKilledBySignal
             PROVE  IInv'
  OBVIOUS
<1> USE SignalsAssumption DEF SignalsAssumption
<1> USE DEF IInv, TypeOK, GuardInv, ChildInv, SignalSparesRegistered,
            HelperPoints, ChildPoints, helperVars
<1>1. CASE ChildUnblocks
  <2>1. /\ cp = "forked" /\ cp' = "unmasked" /\ cmask' \in BOOLEAN
        /\ UNCHANGED <<helperVars, cpend, pdeath, pipe, sends>>
    BY <1>1 DEF ChildUnblocks
  <2> QED
    BY <2>1
<1>2. CASE TerminateWithParent
  BY <1>2 DEF TerminateWithParent
<1>3. CASE ChildExecs
  BY <1>3 DEF ChildExecs
<1>4. CASE ChildExits
  BY <1>4 DEF ChildExits, ChildAlive
<1>5. CASE ChildKilledBySignal
  BY <1>5 DEF ChildKilledBySignal, ChildAlive
<1> QED
  BY <1>1, <1>2, <1>3, <1>4, <1>5 DEF ChildStep

(***************************************************************************)
(* Signals that are sent and delivered, and SIGKILL, keep the invariant.    *)
(* The case that matters: a delivery that ends the helper finds signals      *)
(* unblocked and no forwarder installed, which is never so between           *)
(* registration and cleanup.                                                *)
(***************************************************************************)
LEMMA KernelInvariant ==
  ASSUME NEW s \in Signals, IInv, Send(s) \/ Deliver(s) \/ Kill
  PROVE  IInv'
<1> USE SignalsAssumption DEF SignalsAssumption
<1> USE DEF IInv, TypeOK, GuardInv, ChildInv, SignalSparesRegistered,
            HelperPoints, ChildPoints
<1>1. CASE Send(s)
  BY <1>1 DEF Send, childVars
<1>2. CASE Deliver(s) /\ handlers
  BY <1>2 DEF Deliver, ForwardSignal, SendToChild
<1>3. CASE Deliver(s) /\ ~handlers
  <2>1. ~registered
    BY <1>3 DEF Deliver
  <2> QED
    BY <1>3, <2>1 DEF Deliver, HelperDies
<1>4. CASE Kill
  BY <1>4 DEF Kill, HelperDies
<1> QED
  BY <1>1, <1>2, <1>3, <1>4

(***************************************************************************)
(* The inductive invariant: every step of the helper, of the child and of   *)
(* the kernel keeps it.                                                     *)
(***************************************************************************)
THEOREM RunInvariant == Spec => []IInv
<1>1. IInv /\ [Next]_vars => IInv'
  <2> SUFFICES ASSUME IInv, [Next]_vars PROVE IInv'
    OBVIOUS
  <2>1. CASE UNCHANGED vars
    BY <2>1 DEF vars, helperVars, childVars, IInv, TypeOK, GuardInv, ChildInv,
       SignalSparesRegistered
  <2>2. CASE HelperStep
    BY <2>2, HelperStepInvariant
  <2>3. CASE ChildStep \/ ChildExits \/ ChildKilledBySignal
    BY <2>3, ChildInvariant
  <2>4. CASE \E s \in Signals : Send(s) \/ Deliver(s)
    BY <2>4, KernelInvariant
  <2>5. CASE Kill
    BY <2>5, KernelInvariant, SignalsAssumption DEF SignalsAssumption
  <2> QED
    BY <2>1, <2>2, <2>3, <2>4, <2>5 DEF Next
<1> QED
  BY InitInvariant, <1>1, PTL DEF Spec

(***************************************************************************)
(* Every variable keeps its type, for any set of forwarded signals.         *)
(***************************************************************************)
THEOREM TypeCorrect == Spec => []TypeOK
<1>1. IInv => TypeOK
  BY DEF IInv
<1> QED
  BY RunInvariant, <1>1, PTL

(***************************************************************************)
(* No forwarded signal ends the helper between its registration and its     *)
(* cleanup, however many arrive and whenever.                               *)
(***************************************************************************)
THEOREM SignalsSpareRegistered == Spec => []SignalSparesRegistered
<1>1. IInv => SignalSparesRegistered
  BY DEF IInv
<1> QED
  BY RunInvariant, <1>1, PTL

(***************************************************************************)
(* While the helper lives, a command with protected-create targets runs     *)
(* only while the monitor watches and signals are forwarded: it is behind    *)
(* the pipe before, and reaped after.                                       *)
(***************************************************************************)
THEOREM CommandsWatched == Spec => []WatchedCommand
<1>1. IInv => WatchedCommand
  BY DEF IInv, TypeOK, HelperPoints, GuardInv, ChildInv, WatchedCommand
<1> QED
  BY RunInvariant, <1>1, PTL

==============================================================================
