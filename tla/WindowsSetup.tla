---------------------------- MODULE WindowsSetup ----------------------------
(***************************************************************************)
(* The setup of the elevated Windows sandbox: clients that need the        *)
(* credentials of a sandbox account (identity.rs, setup_orchestrator.rs),  *)
(* and the setup helpers they run (setup_main_win.rs, sandbox_users.rs,    *)
(* firewall.rs).                                                           *)
(*                                                                         *)
(* Accounts, firewall rules, the users file and the marker are one per     *)
(* machine, and nothing serialises the helpers.  Files are written in      *)
(* place: a reader may find one torn, and takes it for missing.  A helper  *)
(* can fail at every stage, which leaves an error report, or die.          *)
(***************************************************************************)
EXTENDS Integers, FiniteSets

CONSTANTS Clients,
          Absent,       \* in place of the request of a client that is not there
          Worlds,       \* the machines and requests to start with
          Ports         \* TCP ports of the loopback

Settings == [ports : SUBSET Ports, local : BOOLEAN]
AnyRequest == [identity : {"offline", "online"}, settings : Settings]

\* A password is named after the client whose helper drew it.
Nobody == "nobody"
Before == "before"
Passwords == Clients \cup {Nobody, Before}

AnyMachine ==
    [accounts : [{"offline", "online"} -> Passwords],
     users : [state : {"none", "torn", "ok"}, offline : Passwords, online : Passwords],
     marker : [state : {"none", "torn", "ok"}, settings : Settings],
     udp : BOOLEAN, tcp : SUBSET Ports, block : BOOLEAN,
     locked : BOOLEAN]  \* are the secrets closed to the sandbox accounts?

ASSUME SetupAssumption ==
    /\ \A w \in Worlds : w.machine \in AnyMachine
                          /\ w.request \in [Clients -> AnyRequest \cup {Absent}]
    /\ Clients \cap {Nobody, Before} = {}

VARIABLES
    request,    \* what each client asks for
    machine,    \* accounts, files and firewall rules
    asker,    \* [at, again, creds, cleared, told] of each client
    helper,     \* [mode, at] of the setup helper that each client waits for
    reading,    \* a read-ACL helper runs and holds the mutex
    report,     \* [there, recent]: the error report, and for whom it is recent
    history     \* [disturbed, alone, suspect]: what the properties need to know

setupVars == <<request, machine, asker, helper, reading, report, history>>

ClientAt == {"idle", "check", "identify", "load", "setup", "consent", "waiting",
             "report", "refresh", "refreshing", "ready", "failed"}

\* The stages of a full setup, and of a refresh
Full == {"offline", "online", "users", "users written", "marker", "marker written",
         "udp", "broad", "narrow", "block", "acls", "lock"}
Refresh == {"resolve", "acls", "lock"}

SetupTypeOK ==
    /\ request \in [Clients -> AnyRequest \cup {Absent}] /\ machine \in AnyMachine
    /\ asker \in [Clients -> [at : ClientAt, again : BOOLEAN, creds : Passwords,
                                cleared : BOOLEAN, told : {"none", "recent", "stale", "other"}]]
    /\ helper \in [Clients -> [mode : {"full", "refresh"}, at : Full \cup Refresh \cup {"off"}]]
    /\ reading \in BOOLEAN
    /\ report \in [there : BOOLEAN, recent : SUBSET Clients]
    /\ history \in [disturbed : SUBSET Clients, alone : SUBSET Clients, suspect : BOOLEAN]

SetupInit ==
    /\ \E w \in Worlds : request = w.request /\ machine = w.machine
    /\ asker = [c \in Clients |-> [at |-> "idle", again |-> FALSE, creds |-> Nobody,
                                     cleared |-> FALSE, told |-> "none"]]
    /\ helper = [c \in Clients |-> [mode |-> "full", at |-> "off"]]
    /\ reading = FALSE
    /\ report = [there |-> TRUE, recent |-> {}]
    /\ history = [disturbed |-> {}, alone |-> {}, suspect |-> FALSE]

Goes(c, at) == asker' = [asker EXCEPT ![c].at = at]

-----------------------------------------------------------------------------
(* A client: require_logon_sandbox_creds.                                  *)

Begin(c) ==
    /\ request[c] # Absent /\ asker[c].at = "idle"
    /\ Goes(c, "check")
    /\ UNCHANGED <<request, machine, helper, reading, report, history>>

\* load_marker: a marker that is torn counts as missing.
MarkerThere == machine.marker.state = "ok"

\* A bug: a marker of other settings will do.
MarkerSuits_Any(c) == MarkerThere

\* request_mismatch_reason: only the offline identity asks for settings.
MarkerSuits(c) ==
    /\ MarkerThere
    /\ request[c].identity = "offline" => machine.marker.settings = request[c].settings

Check(c) ==
    /\ asker[c].at = "check"
    /\ Goes(c, IF MarkerSuits(c) THEN "identify" ELSE "setup")
    /\ UNCHANGED <<request, machine, helper, reading, report, history>>

\* select_identity reads the marker again, then the users file.  The first time
\* a file that is missing leads to setup, the second time to a refresh that is
\* in vain.
Missing(c) == IF asker[c].again THEN "refresh" ELSE "setup"

Identify(c) ==
    /\ asker[c].at = "identify"
    /\ Goes(c, IF MarkerThere THEN "load" ELSE Missing(c))
    /\ UNCHANGED <<request, machine, helper, reading, report, history>>

Load(c) ==
    /\ asker[c].at = "load"
    /\ IF machine.users.state = "ok"
       THEN asker' = [asker EXCEPT ![c].at = "refresh",
                                       ![c].creds = machine.users[request[c].identity]]
       ELSE Goes(c, Missing(c))
    /\ UNCHANGED <<request, machine, helper, reading, report, history>>

\* A bug: the old report is left where it is.
Cleared_Kept(cleared) == UNCHANGED report

\* clear_setup_error_report
Cleared(cleared) == report' = IF cleared THEN [there |-> FALSE, recent |-> {}] ELSE report

\* run_setup_exe removes an old error report; when that fails, it will not read one.
ClearReport(c) ==
    /\ asker[c].at = "setup"
    /\ \E cleared \in BOOLEAN :
          /\ asker' = [asker EXCEPT ![c].at = "consent", ![c].cleared = cleared]
          /\ Cleared(cleared)
    /\ UNCHANGED <<request, machine, helper, reading, history>>

InSetup(c) == helper[c].mode = "full" /\ helper[c].at # "off"
Others(c) == {d \in Clients \ {c} : InSetup(d)}

\* The user consents to the elevation, or does not.
Consent(c) ==
    /\ asker[c].at = "consent"
    /\ \/ /\ Goes(c, "failed")
          /\ UNCHANGED <<helper, history>>
       \/ /\ Goes(c, "waiting")
          /\ helper' = [helper EXCEPT ![c] = [mode |-> "full", at |-> "offline"]]
          /\ history' = [history EXCEPT !.alone = IF Others(c) = {} THEN {c} ELSE {}]
    /\ UNCHANGED <<request, machine, reading, report>>

\* report_helper_failure
ReadReport(c) ==
    /\ asker[c].at = "report"
    /\ asker' = [asker EXCEPT ![c].at = "failed",
                     ![c].told = CASE ~asker[c].cleared \/ ~report.there -> "other"
                                   [] c \in report.recent -> "recent"
                                   [] OTHER -> "stale"]
    /\ UNCHANGED <<request, machine, helper, reading, report, history>>

StartRefresh(c) ==
    /\ asker[c].at = "refresh"
    /\ Goes(c, "refreshing")
    /\ helper' = [helper EXCEPT ![c] = [mode |-> "refresh", at |-> "resolve"]]
    /\ UNCHANGED <<request, machine, reading, report, history>>

AskerStep(c) ==
    \/ Begin(c) \/ Check(c) \/ Identify(c) \/ Load(c) \/ ClearReport(c)
    \/ Consent(c) \/ ReadReport(c) \/ StartRefresh(c)

-----------------------------------------------------------------------------
(* The setup helper.                                                       *)

\* A bug: the ports of a TCP rule that exists are not set.
AfterBroad_Unnarrowed(c) == "block"

\* ensure_offline_proxy_allowlist narrows the broad rule to the ports to block.
AfterBroad(c) == IF request[c].settings.local THEN "block" ELSE "narrow"

\* run_setup_full: the stages one after the other
After(c, at) ==
    CASE at = "offline" -> "online"
      [] at = "online" -> "users"
      [] at = "users" -> "users written"
      [] at = "users written" -> "marker"
      [] at = "marker" -> "marker written"
      [] at = "marker written" -> "udp"
      [] at = "udp" -> "broad"
      [] at = "broad" -> AfterBroad(c)
      [] at = "narrow" -> "block"
      [] at = "block" -> "acls"
      [] at = "resolve" -> "acls"
      [] at = "acls" -> "lock"

\* blocked_loopback_tcp_remote_ports
BlockedPorts(s) == Ports \ s.ports

\* provision_sandbox_users: a new password, and the account that gets it
Provisioned(i, c) == [machine EXCEPT !.accounts[i] = c]

\* write_secrets: the users file, and after it the marker, truncated and written
Written(at, c, s) ==
    CASE at = "users" -> [machine EXCEPT !.users.state = "torn"]
      [] at = "users written" ->
            [machine EXCEPT !.users = [state |-> "ok", offline |-> c, online |-> c]]
      [] at = "marker" -> [machine EXCEPT !.marker.state = "torn"]
      [] at = "marker written" ->
            [machine EXCEPT !.marker = [state |-> "ok", settings |-> s]]

\* With local binding the loopback rules are removed; otherwise a TCP rule that
\* exists keeps its ports until it is narrowed to those that are to be blocked.
Loopback(at, s) ==
    CASE at = "udp" -> [machine EXCEPT !.udp = ~s.local]
      [] at = "broad" ->
            [machine EXCEPT !.tcp = IF s.local THEN {} ELSE IF @ = {} THEN Ports ELSE @]
      [] OTHER -> [machine EXCEPT !.tcp = IF BlockedPorts(s) = {} THEN @ ELSE BlockedPorts(s)]

\* ensure_offline_outbound_block
Outbound == [machine EXCEPT !.block = TRUE]

\* What a stage does.
Staged(c, at, s) ==
    CASE at \in {"offline", "online"} -> Provisioned(at, c)
      [] at \in {"users", "users written", "marker", "marker written"} -> Written(at, c, s)
      [] at \in {"udp", "broad", "narrow"} -> Loopback(at, s)
      [] at = "block" -> Outbound
      [] OTHER -> machine

\* resolve_sid finds an account that was created.
Resolves(i) == machine.accounts[i] # Nobody

HelperWorks(c) ==
    /\ helper[c].at \in (Full \cup Refresh) \ {"lock", "acls"}
    /\ helper[c].at = "resolve" => Resolves("offline")
    /\ machine' = Staged(c, helper[c].at, request[c].settings)
    /\ helper' = [helper EXCEPT ![c].at = After(c, helper[c].at)]
    /\ history' = [history EXCEPT !.disturbed =
                     IF InSetup(c) THEN @ \cup {d \in Clients \ {c} : asker[d].at # "idle"}
                     ELSE @]
    /\ UNCHANGED <<request, asker, reading, report>>

\* A read-ACL helper is started, which ends at once when another one holds the
\* mutex; write and deny entries are set.
HelperSetsAcls(c) ==
    /\ helper[c].at = "acls"
    /\ reading' = TRUE
    /\ helper' = [helper EXCEPT ![c].at = After(c, "acls")]
    /\ UNCHANGED <<request, machine, asker, report, history>>

\* lock_sandbox_dir; only a full setup comes to the directory of the secrets.
Locked(c) == IF InSetup(c) THEN [machine EXCEPT !.locked = TRUE] ELSE machine

\* The last stage locks the directories.  After a setup the client removes the
\* report and selects the identity again; after a refresh it has its credentials.
HelperSucceeds(c) ==
    /\ helper[c].at = "lock"
    /\ helper' = [helper EXCEPT ![c].at = "off"]
    /\ IF InSetup(c)
       THEN /\ asker' = [asker EXCEPT ![c].at = "identify", ![c].again = TRUE]
            /\ \E cleared \in BOOLEAN : Cleared(cleared)
            /\ history' = [history EXCEPT !.suspect = c \notin history.alone,
                                          !.alone = @ \ {c}]
       ELSE /\ Goes(c, IF asker[c].creds = Nobody THEN "failed" ELSE "ready")
            /\ UNCHANGED <<report, history>>
    /\ machine' = Locked(c)
    /\ UNCHANGED <<request, reading>>

\* for these clients a report written now is a recent one
Expecting == {d \in Clients : asker[d].at \in {"consent", "waiting", "report"}}
Reported == report' = [there |-> TRUE, recent |-> Expecting]

\* A setup that stops here leaves things that do not fit together.
HalfWay(c) == IF helper[c].at \in {"acls", "lock"} THEN ~machine.locked ELSE helper[c].at # "offline"

\* The helper ends early, with a report of its error or, when it dies, without;
\* in the last stage the secrets may be locked by then.
HelperStops(c) ==
    /\ helper[c].at # "off"
    /\ Reported \/ UNCHANGED report
    /\ helper' = [helper EXCEPT ![c].at = "off"]
    /\ Goes(c, IF InSetup(c) THEN "report" ELSE "failed")
    /\ history' = IF InSetup(c)
                  THEN [history EXCEPT !.suspect = @ \/ c \notin history.alone \/ HalfWay(c),
                                       !.alone = @ \ {c}]
                  ELSE history
    /\ machine' \in IF helper[c].at = "lock" THEN {machine, Locked(c)} ELSE {machine}
    /\ UNCHANGED <<request, reading>>

\* The read-ACL helper, detached: run_read_acl_only
ReaderEnds ==
    /\ reading
    /\ reading' = FALSE
    /\ Reported \/ UNCHANGED report
    /\ UNCHANGED <<request, machine, asker, helper, history>>

HelperStep(c) ==
    HelperWorks(c) \/ HelperSetsAcls(c) \/ HelperSucceeds(c) \/ HelperStops(c)

SetupNext == ReaderEnds \/ \E c \in Clients : AskerStep(c) \/ HelperStep(c)

-----------------------------------------------------------------------------
(* Properties.                                                             *)

\* The rules let the offline account reach nothing but what the settings allow.
Blocks(s) ==
    /\ machine.block
    /\ IF s.local THEN machine.tcp = {} /\ ~machine.udp
       ELSE machine.udp /\ machine.tcp = BlockedPorts(s)

\* No setup is under way, and the last one to change anything ran alone and to its end.
Settled == ~history.suspect /\ \A c \in Clients : ~InSetup(c)

\* What the files say is true of the machine (write_secrets and the stages
\* after it), unless a setup was cut short or met another one: the users file
\* holds the passwords of the accounts, out of their reach, and the marker the
\* settings of the firewall, for whatever sequence of setups led here.
ArtifactsMatch ==
    Settled =>
      /\ machine.users.state = "ok" =>
           /\ machine.locked
           /\ \A i \in {"offline", "online"} : machine.users[i] = machine.accounts[i]
      /\ machine.marker.state = "ok" => Blocks(machine.marker.settings)

\* A client that is ready has credentials that the system accepts, and when it
\* is offline the firewall is that of its own settings - unless another setup
\* ran since it began, or one was cut short (require_logon_sandbox_creds).
ReadyMeansReady ==
    \A c \in Clients :
      (asker[c].at = "ready" /\ c \notin history.disturbed /\ Settled) =>
        /\ asker[c].creds = machine.accounts[request[c].identity]
        /\ request[c].identity = "offline" => Blocks(request[c].settings)

\* The error a client is told is not that of a helper that had ended before
\* the client asked for setup (run_setup_exe, report_helper_failure).
ErrorIsRecent == \A c \in Clients : asker[c].told # "stale"
=============================================================================
