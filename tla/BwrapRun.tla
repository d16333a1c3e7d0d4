------------------------------- MODULE BwrapRun -------------------------------
(***************************************************************************)
(* How the Linux helper supervises one bubblewrap child                    *)
(* (run_bwrap_in_child_with_synthetic_mount_cleanup): it blocks the         *)
(* signals it forwards, registers, forks, starts the protected-create       *)
(* monitor, installs its forwarders, releases the child through a pipe,     *)
(* unblocks, waits, blocks again, cleans up and exits as the child did.     *)
(*                                                                         *)
(* One action is one system call, or a run of them that nobody else can     *)
(* observe.  Anybody may send the helper any forwarded signal at any time,  *)
(* and SIGKILL may end it; the child is killed by the default action of     *)
(* every signal it gets.                                                    *)
(***************************************************************************)
EXTENDS Naturals, FiniteSets

CONSTANTS
  Signals,    (* FORWARDED_SIGNALS                                          *)
  SIGTERM,    (* the one a child gets when its parent dies                  *)
  NoSignal,   (* 0 in PENDING_FORWARDED_SIGNAL                              *)
  Protected,  (* are there protected-create targets?                        *)
  MaxSends    (* bound: signals that arrive in a behaviour                  *)

ASSUME SignalsAssumption ==
  /\ SIGTERM \in Signals
  /\ NoSignal \notin Signals
  /\ Protected \in BOOLEAN
  /\ MaxSends \in Nat

VARIABLES
  hp,         (* where the helper is                                        *)
  end,        (* how it ended: "alive", "exited", "signal", "killed"        *)
  mask,       (* does the helper block the forwarded signals?               *)
  pend,       (* signals pending for the helper                             *)
  handlers,   (* are the forwarders installed?                              *)
  cpid,       (* is BWRAP_CHILD_PID set?                                    *)
  fwd,        (* PENDING_FORWARDED_SIGNAL                                   *)
  monitor,    (* does the protected-create monitor run?                     *)
  pipe,       (* the exec-start pipe: "closed", "open", "written"           *)
  registered, (* does the registry hold markers of this helper?             *)
  cp,         (* where the child is                                         *)
  cmask,      (* does the child block the forwarded signals?                *)
  cpend,      (* signals pending for the child                              *)
  pdeath,     (* has the child asked for a signal when its parent dies?     *)
  sends       (* signals sent to the helper so far                          *)

helperVars == <<hp, end, mask, pend, handlers, cpid, fwd, monitor, registered>>
childVars == <<cp, cmask, cpend, pdeath>>
vars == <<helperVars, childVars, pipe, sends>>

HelperPoints ==
  {"start", "blocked", "registered", "forked", "monitoring", "installed",
   "released", "waiting", "reaped", "masked", "cleaning", "cleaned",
   "restored", "unmasked"}
ChildPoints ==
  {"none", "forked", "unmasked", "armed", "bwrap", "zombie", "reaped"}

ChildAlive == cp \in {"forked", "unmasked", "armed", "bwrap"}

-----------------------------------------------------------------------------
(* The helper                                                               *)

\* A pending signal that is not blocked is handled before the helper goes on.
Runs(from, to) ==
  /\ end = "alive" /\ hp = from /\ (mask \/ pend = {})
  /\ hp' = to

\* A bug: the signals are not blocked while the run is set up.
BlockSignals_Forgotten ==
  /\ Runs("start", "blocked")
  /\ UNCHANGED <<end, mask, pend, handlers, cpid, fwd, monitor, registered>>
  /\ UNCHANGED <<childVars, pipe, sends>>

\* ForwardedSignalMask::block, before anything is registered
BlockSignals ==
  /\ Runs("start", "blocked")
  /\ mask' = TRUE
  /\ UNCHANGED <<end, pend, handlers, cpid, fwd, monitor, registered>>
  /\ UNCHANGED <<childVars, pipe, sends>>

\* register_synthetic_mount_targets and register_protected_create_targets
Register ==
  /\ Runs("blocked", "registered")
  /\ registered' = TRUE
  /\ UNCHANGED <<end, mask, pend, handlers, cpid, fwd, monitor>>
  /\ UNCHANGED <<childVars, pipe, sends>>

\* A bug: there is no pipe for the child to wait on.
PipeAtFork_Never == "closed"

\* create_exec_start_pipe
PipeAtFork == IF Protected THEN "open" ELSE "closed"

\* The child inherits the blocked mask; nothing is pending for it yet.
Fork ==
  /\ Runs("registered", "forked")
  /\ pipe' = PipeAtFork
  /\ cp' = "forked" /\ cmask' = mask
  /\ UNCHANGED <<end, mask, pend, handlers, cpid, fwd, monitor, registered>>
  /\ UNCHANGED <<cpend, pdeath, sends>>

\* ProtectedCreateMonitor::start: no thread without targets
StartMonitor ==
  /\ Runs("forked", "monitoring")
  /\ monitor' = Protected
  /\ UNCHANGED <<end, mask, pend, handlers, cpid, fwd, registered>>
  /\ UNCHANGED <<childVars, pipe, sends>>

\* kill: a process that has ended gets nothing.
SendToChild(s) == cpend' = IF ChildAlive THEN cpend \cup {s} ELSE cpend

\* A bug: what is remembered is replayed even when it is nothing.
InstallForwarders_ReplaysNothing ==
  /\ Runs("monitoring", "installed")
  /\ cpid' = TRUE /\ handlers' = TRUE /\ fwd' = NoSignal
  /\ SendToChild(fwd)
  /\ UNCHANGED <<end, mask, pend, monitor, registered, cp, cmask, pdeath, pipe, sends>>

\* install_bwrap_signal_forwarders, with its replay of a remembered signal
InstallForwarders ==
  /\ Runs("monitoring", "installed")
  /\ cpid' = TRUE /\ handlers' = TRUE /\ fwd' = NoSignal
  /\ IF fwd # NoSignal THEN SendToChild(fwd) ELSE UNCHANGED cpend
  /\ UNCHANGED <<end, mask, pend, monitor, registered, cp, cmask, pdeath, pipe, sends>>

\* release_child_exec_start: one byte, then the write end is closed
ReleaseChild ==
  /\ Runs("installed", "released")
  /\ pipe' = IF pipe = "open" THEN "written" ELSE pipe
  /\ UNCHANGED <<end, mask, pend, handlers, cpid, fwd, monitor, registered>>
  /\ UNCHANGED <<childVars, sends>>

\* ForwardedSignalMask::restore: the forwarded signals are never blocked after
Unblock(from, to) ==
  /\ Runs(from, to)
  /\ mask' = FALSE
  /\ UNCHANGED <<end, pend, handlers, cpid, fwd, monitor, registered>>
  /\ UNCHANGED <<childVars, pipe, sends>>

UnblockToWait == Unblock("released", "waiting")

\* wait_for_bwrap_child; a handler only interrupts and restarts waitpid
Reap ==
  /\ Runs("waiting", "reaped")
  /\ cp = "zombie" /\ cp' = "reaped"
  /\ UNCHANGED <<end, mask, pend, handlers, cpid, fwd, monitor, registered>>
  /\ UNCHANGED <<cmask, cpend, pdeath, pipe, sends>>

BlockForCleanup ==
  /\ Runs("reaped", "masked")
  /\ mask' = TRUE
  /\ UNCHANGED <<end, pend, handlers, cpid, fwd, monitor, registered>>
  /\ UNCHANGED <<childVars, pipe, sends>>

\* BWRAP_CHILD_PID is cleared, the monitor is stopped and joined
StopMonitor ==
  /\ Runs("masked", "cleaning")
  /\ cpid' = FALSE /\ monitor' = FALSE
  /\ UNCHANGED <<end, mask, pend, handlers, fwd, registered>>
  /\ UNCHANGED <<childVars, pipe, sends>>

\* cleanup_synthetic_mount_targets and cleanup_protected_create_targets
CleanUp ==
  /\ Runs("cleaning", "cleaned")
  /\ registered' = FALSE
  /\ UNCHANGED <<end, mask, pend, handlers, cpid, fwd, monitor>>
  /\ UNCHANGED <<childVars, pipe, sends>>

\* ForwardedSignalHandlers::restore
RestoreHandlers ==
  /\ Runs("cleaned", "restored")
  /\ cpid' = FALSE /\ fwd' = NoSignal /\ handlers' = FALSE
  /\ UNCHANGED <<end, mask, pend, monitor, registered>>
  /\ UNCHANGED <<childVars, pipe, sends>>

UnblockToExit == Unblock("restored", "unmasked")

Exit ==
  /\ Runs("unmasked", "unmasked")
  /\ end' = "exited"
  /\ UNCHANGED <<mask, pend, handlers, cpid, fwd, monitor, registered>>
  /\ UNCHANGED <<childVars, pipe, sends>>

-----------------------------------------------------------------------------
(* What the kernel does                                                     *)

\* The parent's death signal reaches a child that asked for it; its end of the
\* pipe is closed, which the child reads as end of file.
HelperDies(how) ==
  /\ end' = how
  /\ cpend' = IF ChildAlive /\ pdeath THEN cpend \cup {SIGTERM} ELSE cpend
  /\ pipe' = IF pipe = "open" THEN "closed" ELSE pipe
  /\ monitor' = FALSE

\* A bug: the handler only remembers the signal.
ForwardSignal_OnlyRemembers(s) == UNCHANGED cpend

\* forward_signal_to_bwrap_child
ForwardSignal(s) == IF cpid THEN SendToChild(s) ELSE UNCHANGED cpend

\* A signal reaches the helper: its handler runs, or the default action.
Deliver(s) ==
  /\ end = "alive" /\ ~mask /\ s \in pend
  /\ pend' = pend \ {s}
  /\ IF handlers
       THEN /\ fwd' = s
            /\ ForwardSignal(s)
            /\ UNCHANGED <<end, pipe, monitor>>
       ELSE /\ HelperDies("signal")
            /\ UNCHANGED fwd
  /\ UNCHANGED <<hp, mask, handlers, cpid, registered, cp, cmask, pdeath, sends>>

\* SIGKILL, or a panic of the helper
Kill ==
  /\ end = "alive"
  /\ HelperDies("killed")
  /\ UNCHANGED <<hp, mask, pend, handlers, cpid, fwd, registered, cp, cmask, pdeath, sends>>

Send(s) ==
  /\ end = "alive" /\ sends < MaxSends
  /\ pend' = pend \cup {s} /\ sends' = sends + 1
  /\ UNCHANGED <<hp, end, mask, handlers, cpid, fwd, monitor, registered, childVars, pipe>>

-----------------------------------------------------------------------------
(* The child                                                                *)

\* Handlers back to their defaults, then the mask; its own process group.
ChildUnblocks ==
  /\ cp = "forked"
  /\ cp' = "unmasked" /\ cmask' = FALSE
  /\ UNCHANGED <<helperVars, cpend, pdeath, pipe, sends>>

\* A bug: prctl alone, which says nothing of a parent that is dead already.
TerminateWithParent_NoCheck ==
  /\ cp = "unmasked" /\ cpend = {}
  /\ cp' = "armed" /\ pdeath' = TRUE
  /\ UNCHANGED <<helperVars, cmask, cpend, pipe, sends>>

\* terminate_with_parent: prctl, then a look at who the parent is
TerminateWithParent ==
  /\ cp = "unmasked" /\ cpend = {}
  /\ cp' = "armed" /\ pdeath' = TRUE
  /\ cpend' = IF end = "alive" THEN cpend ELSE cpend \cup {SIGTERM}
  /\ UNCHANGED <<helperVars, cmask, pipe, sends>>

\* wait_for_parent_exec_start returns on the byte, on end of file or when there
\* is no pipe; then exec_bwrap.
ChildExecs ==
  /\ cp = "armed" /\ cpend = {} /\ pipe # "open"
  /\ cp' = "bwrap"
  /\ UNCHANGED <<helperVars, cmask, cpend, pdeath, pipe, sends>>

\* The command ends, or the child fails on its way.
ChildExits ==
  /\ ChildAlive
  /\ cp' = "zombie"
  /\ UNCHANGED <<helperVars, cmask, cpend, pdeath, pipe, sends>>

ChildKilledBySignal ==
  /\ ChildAlive /\ ~cmask /\ cpend # {}
  /\ cp' = "zombie"
  /\ UNCHANGED <<helperVars, cmask, cpend, pdeath, pipe, sends>>

-----------------------------------------------------------------------------

Init ==
  /\ hp = "start" /\ end = "alive" /\ mask = FALSE /\ pend = {}
  /\ handlers = FALSE /\ cpid = FALSE /\ fwd = NoSignal
  /\ monitor = FALSE /\ pipe = "closed" /\ registered = FALSE
  /\ cp = "none" /\ cmask = FALSE /\ cpend = {} /\ pdeath = FALSE
  /\ sends = 0

HelperStep ==
  \/ BlockSignals \/ Register \/ Fork \/ StartMonitor \/ InstallForwarders
  \/ ReleaseChild \/ UnblockToWait \/ Reap \/ BlockForCleanup \/ StopMonitor
  \/ CleanUp \/ RestoreHandlers \/ UnblockToExit \/ Exit

ChildStep == ChildUnblocks \/ TerminateWithParent \/ ChildExecs

Next ==
  \/ HelperStep
  \/ ChildStep
  \/ ChildExits
  \/ ChildKilledBySignal
  \/ \E s \in Signals : Send(s) \/ Deliver(s)
  \/ Kill

\* Processes that can run do run, and the kernel delivers signals.  A command
\* may run as long as it likes, and nobody need send or kill.
Fairness ==
  /\ WF_vars(HelperStep)
  /\ WF_vars(ChildStep)
  /\ WF_vars(ChildKilledBySignal)
  /\ \A s \in Signals : WF_vars(Deliver(s))

Spec == Init /\ [][Next]_vars /\ Fairness

-----------------------------------------------------------------------------
(* Properties                                                               *)

TypeOK ==
  /\ hp \in HelperPoints
  /\ end \in {"alive", "exited", "signal", "killed"}
  /\ mask \in BOOLEAN /\ handlers \in BOOLEAN /\ cpid \in BOOLEAN
  /\ monitor \in BOOLEAN /\ registered \in BOOLEAN
  /\ cmask \in BOOLEAN /\ pdeath \in BOOLEAN
  /\ pend \subseteq Signals
  /\ fwd \in Signals \cup {NoSignal}
  /\ pipe \in {"closed", "open", "written"}
  /\ cp \in ChildPoints
  /\ cpend \subseteq Signals
  /\ sends \in 0..MaxSends

\* A forwarded signal never ends the helper between its registration and its
\* cleanup, whenever it arrives: only then are markers and mount points taken
\* away (the masks and handlers around the run; the test
\* bwrap_signal_forwarder_terminates_child_and_keeps_parent_alive).
SignalSparesRegistered == end = "signal" => ~registered

\* While the helper lives, no command of a run with protected-create targets
\* runs before the monitor watches them and signals are forwarded, and none is
\* left running when the monitor stops (the exec-start pipe).
WatchedCommand ==
  (Protected /\ end = "alive" /\ cp = "bwrap") => (monitor /\ handlers)

-----------------------------------------------------------------------------
(* The inductive invariant behind the two properties above                  *)

\* Where the helper blocks the signals, where it forwards them, and when it
\* has registered something.
GuardInv ==
  /\ hp \notin {"start", "waiting", "reaped", "unmasked"} => mask
  /\ handlers <=> hp \in {"installed", "released", "waiting", "reaped",
                          "masked", "cleaning", "cleaned"}
  /\ registered <=> hp \in {"registered", "forked", "monitoring", "installed",
                            "released", "waiting", "reaped", "masked", "cleaning"}

\* The child while its helper lives: it cannot get past the pipe before it is
\* released, and it is reaped before anything is torn down.
ChildInv ==
  end = "alive" =>
    /\ hp \in {"start", "blocked", "registered"} => cp = "none"
    /\ hp \in {"forked", "monitoring", "installed"} /\ Protected =>
         pipe = "open" /\ cp # "bwrap"
    /\ hp \in {"monitoring", "installed", "released", "waiting", "reaped", "masked"}
         /\ Protected => monitor
    /\ hp \in {"reaped", "masked", "cleaning", "cleaned", "restored", "unmasked"} =>
         cp = "reaped"

IInv == TypeOK /\ GuardInv /\ ChildInv /\ SignalSparesRegistered

-----------------------------------------------------------------------------
(* Liveness                                                                 *)

\* The child does not outlive its helper for ever, however and whenever the
\* helper died: before the child asked for the death signal, while it waited
\* for the pipe, or while the command ran (terminate_with_parent).
NoOrphanSandbox == (end # "alive") ~> ~ChildAlive

\* A signal that arrives once there is a child ends it, and the helper with it,
\* or the helper alone when the child has ended before (the forwarders, and the
\* pending signals that the masks keep).
SignalEndsRun ==
  \A s \in Signals : (s \in pend /\ ChildAlive) ~> (~ChildAlive /\ end # "alive")

==============================================================================
