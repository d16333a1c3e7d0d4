------------------------ MODULE WindowsSandbox_proofs -------------------------
(***************************************************************************)
(* Theorems about WindowsSandbox, for every set of clients and ports, every *)
(* machine to start with, every session and every capacity of a channel.   *)
(***************************************************************************)
EXTENDS WindowsSandbox, TLAPS

-----------------------------------------------------------------------------
(* The setup: types, and reports of errors.                                *)

AnyAsker ==
    [at : ClientAt, again : BOOLEAN, creds : Passwords, cleared : BOOLEAN,
     told : {"none", "recent", "stale", "other"}]
AnyHelper == [mode : {"full", "refresh"}, at : Full \cup Refresh \cup {"off"}]

AskersTyped == asker \in [Clients -> AnyAsker]
HelpersTyped == helper \in [Clients -> AnyHelper]
RestTyped ==
    /\ request \in [Clients -> AnyRequest \cup {Absent}] /\ machine \in AnyMachine
    /\ reading \in BOOLEAN
    /\ report \in [there : BOOLEAN, recent : SUBSET Clients]
    /\ history \in [disturbed : SUBSET Clients, alone : SUBSET Clients, suspect : BOOLEAN]

\* Only a client that is there does anything.
AskersAreThere == \A c \in Clients : asker[c].at # "idle" => request[c] # Absent

\* A client waits for its helper as long as there is one (run_setup_exe,
\* run_setup_refresh_inner).
Waits(a, h) == h.at # "off" => a.at = IF h.mode = "full" THEN "waiting" ELSE "refreshing"
HelpersMatch == \A c \in Clients : Waits(asker[c], helper[c])

\* Once a client has removed the old report and until it has read the new one,
\* a report that is there is recent for it.
RecentFor(c, a, r) ==
    (a.cleared /\ a.at \in {"consent", "waiting", "report"} /\ r.there) => c \in r.recent
ReportsMatch == \A c \in Clients : RecentFor(c, asker[c], report)

SetupInv ==
    /\ AskersTyped /\ HelpersTyped /\ RestTyped
    /\ AskersAreThere /\ HelpersMatch /\ ReportsMatch /\ ErrorIsRecent

\* The invariant implies the type invariant that the run checks.
LEMMA SetupInvTyped == SetupInv => SetupTypeOK
  BY DEF SetupInv, SetupTypeOK, AskersTyped, HelpersTyped, RestTyped, AnyAsker, AnyHelper

\* The invariant holds before the first step (SetupInit).
LEMMA SetupInitInv == SetupInit => SetupInv
<1> SUFFICES ASSUME SetupInit PROVE SetupInv
  OBVIOUS
<1>1. AskersTyped /\ HelpersTyped /\ RestTyped
  BY SetupAssumption DEF SetupAssumption, SetupInit, AskersTyped, AnyAsker, HelpersTyped,
     AnyHelper, RestTyped, Passwords, ClientAt, Nobody
<1>2. AskersAreThere /\ HelpersMatch /\ ReportsMatch /\ ErrorIsRecent
  BY DEF SetupInit, AskersAreThere, HelpersMatch, Waits, ReportsMatch, RecentFor, ErrorIsRecent
<1> QED BY <1>1, <1>2 DEF SetupInv

\* A client changes without the others.
LEMMA AskerBecomes ==
  ASSUME AskersTyped, NEW c \in Clients, NEW a \in AnyAsker, asker' = [asker EXCEPT ![c] = a]
  PROVE  /\ AskersTyped'
         /\ asker'[c] = a
         /\ \A d \in Clients \ {c} : asker'[d] = asker[d]
  BY DEF AskersTyped

\* A client that goes somewhere changes nothing else of itself.
LEMMA Moves ==
  ASSUME AskersTyped, NEW c \in Clients, NEW at \in ClientAt, Goes(c, at)
  PROVE  \E a \in AnyAsker : /\ asker' = [asker EXCEPT ![c] = a]
                             /\ a.at = at /\ a.told = asker[c].told
                             /\ a.cleared = asker[c].cleared /\ a.creds = asker[c].creds
<1>1. asker' = [asker EXCEPT ![c] = [asker[c] EXCEPT !.at = at]]
  BY DEF Goes, AskersTyped
<1>2. asker[c] \in AnyAsker
  BY DEF AskersTyped
<1>3. [asker[c] EXCEPT !.at = at] \in AnyAsker
  BY <1>2 DEF AnyAsker
<1>4. /\ [asker[c] EXCEPT !.at = at].at = at
      /\ [asker[c] EXCEPT !.at = at].told = asker[c].told
      /\ [asker[c] EXCEPT !.at = at].cleared = asker[c].cleared
      /\ [asker[c] EXCEPT !.at = at].creds = asker[c].creds
  BY <1>2 DEF AnyAsker
<1> QED BY <1>1, <1>3, <1>4

\* What a step of a client has to show: it and its helper match, it is not told
\* an old error, and the report is recent for whoever waits for one.
LEMMA AskerKeeps ==
  ASSUME SetupInv, NEW c \in Clients, NEW a \in AnyAsker, asker' = [asker EXCEPT ![c] = a],
         request' = request, request[c] # Absent, RestTyped',
         HelpersTyped', \A d \in Clients \ {c} : helper'[d] = helper[d],
         Waits(a, helper'[c]), a.told # "stale", ReportsMatch'
  PROVE  SetupInv'
<1>1. /\ AskersTyped' /\ asker'[c] = a
      /\ \A d \in Clients \ {c} : asker'[d] = asker[d]
  BY AskerBecomes DEF SetupInv
<1>2. AskersAreThere'
  BY <1>1 DEF SetupInv, AskersAreThere
<1>3. HelpersMatch'
  BY <1>1 DEF SetupInv, HelpersMatch
<1>4. ErrorIsRecent'
  BY <1>1 DEF SetupInv, ErrorIsRecent
<1> QED BY <1>1, <1>2, <1>3, <1>4 DEF SetupInv

\* A step of a client keeps the invariant (require_logon_sandbox_creds,
\* run_setup_exe, report_helper_failure).
LEMMA AskerStepInv ==
  ASSUME SetupInv, NEW c \in Clients, AskerStep(c)
  PROVE  SetupInv'
<1>a. asker[c] \in AnyAsker /\ AskersTyped
  BY DEF SetupInv, AskersTyped
<1>b. asker[c].told # "stale" /\ (asker[c].at # "idle" => request[c] # Absent)
  BY DEF SetupInv, ErrorIsRecent, AskersAreThere
<1>c. asker[c].at \notin {"waiting", "refreshing"} => helper[c].at = "off"
  BY DEF SetupInv, HelpersMatch, Waits
<1>d. HelpersTyped /\ RestTyped
  BY DEF SetupInv
<1>1. ASSUME NEW at \in ClientAt \ {"consent", "waiting", "report"}, Goes(c, at),
             asker[c].at \notin {"waiting", "refreshing"}, request[c] # Absent,
             UNCHANGED <<request, machine, helper, reading, report, history>>
      PROVE  SetupInv'
  <2>1. PICK a \in AnyAsker : /\ asker' = [asker EXCEPT ![c] = a]
                              /\ a.at = at /\ a.told = asker[c].told
    BY <1>1, <1>a, Moves
  <2>2. HelpersTyped' /\ RestTyped'
    BY <1>1, <1>d DEF HelpersTyped, RestTyped
  <2>3. Waits(a, helper'[c])
    BY <1>1, <1>c DEF Waits
  <2>4. ReportsMatch'
    BY <1>1, <2>1, <1>a, AskerBecomes DEF SetupInv, ReportsMatch, RecentFor
  <2> QED BY <1>1, <1>b, <2>1, <2>2, <2>3, <2>4, AskerKeeps
<1>2. CASE Begin(c)
  BY <1>2, <1>1 DEF Begin, ClientAt
<1>3. CASE Check(c)
  BY <1>3, <1>1, <1>b DEF Check, ClientAt
<1>4. CASE Identify(c)
  BY <1>4, <1>1, <1>b DEF Identify, Missing, ClientAt
<1>5. CASE Load(c) /\ machine.users.state # "ok"
  BY <1>5, <1>1, <1>b DEF Load, Missing, ClientAt
<1>6. CASE Load(c) /\ machine.users.state = "ok"
  <2> DEFINE creds == machine.users[request[c].identity]
             a == [asker[c] EXCEPT !.at = "refresh", !.creds = creds]
  <2>1. creds \in Passwords
    <3>1. request[c] # Absent
      BY <1>6, <1>b DEF Load
    <3>2. request[c].identity \in {"offline", "online"}
      BY <1>d, <3>1 DEF RestTyped, AnyRequest
    <3> QED BY <1>d, <3>2 DEF RestTyped, AnyMachine
  <2>2. asker' = [asker EXCEPT ![c] = a]
    BY <1>6, <1>a DEF Load, AskersTyped
  <2> HIDE DEF creds
  <2>3. a \in AnyAsker /\ a.at = "refresh" /\ a.told = asker[c].told
    BY <1>a, <2>1 DEF AnyAsker, ClientAt
  <2> HIDE DEF a
  <2>4. HelpersTyped' /\ RestTyped'
    BY <1>6, <1>d DEF Load, HelpersTyped, RestTyped
  <2>5. Waits(a, helper'[c])
    BY <1>6, <1>c DEF Load, Waits
  <2>6. ReportsMatch'
    BY <1>6, <2>2, <2>3, <1>a, AskerBecomes DEF Load, SetupInv, ReportsMatch, RecentFor
  <2> QED BY <1>6, <1>b, <2>2, <2>3, <2>4, <2>5, <2>6, AskerKeeps DEF Load
<1>7. CASE ClearReport(c)
  <2>1. PICK cleared \in BOOLEAN :
          /\ asker' = [asker EXCEPT ![c].at = "consent", ![c].cleared = cleared]
          /\ Cleared(cleared)
    BY <1>7 DEF ClearReport
  <2> DEFINE a == [asker[c] EXCEPT !.at = "consent", !.cleared = cleared]
  <2>2. asker' = [asker EXCEPT ![c] = a]
    BY <2>1, <1>a DEF AskersTyped
  <2>3. a \in AnyAsker /\ a.at = "consent" /\ a.told = asker[c].told /\ a.cleared = cleared
    BY <1>a DEF AnyAsker, ClientAt
  <2> HIDE DEF a
  <2>4. HelpersTyped' /\ RestTyped'
    BY <1>7, <2>1, <1>d DEF ClearReport, Cleared, HelpersTyped, RestTyped
  <2>5. Waits(a, helper'[c])
    BY <1>7, <1>c DEF ClearReport, Waits
  <2>6. ReportsMatch'
    <3>1. asker'[c] = a /\ \A d \in Clients \ {c} : asker'[d] = asker[d]
      BY <2>2, <2>3, <1>a, AskerBecomes
    <3>2. RecentFor(c, asker'[c], report')
      BY <2>1, <2>3, <3>1 DEF Cleared, RecentFor
    <3>3. ASSUME NEW d \in Clients \ {c} PROVE RecentFor(d, asker[d], report')
      BY <2>1 DEF Cleared, RecentFor, SetupInv, ReportsMatch
    <3> QED BY <3>1, <3>2, <3>3 DEF ReportsMatch
  <2> QED BY <1>7, <1>b, <2>2, <2>3, <2>4, <2>5, <2>6, AskerKeeps DEF ClearReport

<1>8. CASE Consent(c)
  <2>1. PICK at \in {"failed", "waiting"} :
          /\ Goes(c, at)
          /\ helper' = IF at = "waiting"
                       THEN [helper EXCEPT ![c] = [mode |-> "full", at |-> "offline"]] ELSE helper
    BY <1>8 DEF Consent
  <2>2. PICK a \in AnyAsker : /\ asker' = [asker EXCEPT ![c] = a]
                              /\ a.at = at /\ a.told = asker[c].told
                              /\ a.cleared = asker[c].cleared
    BY <2>1, <1>a, Moves DEF ClientAt
  <2>3. HelpersTyped' /\ \A d \in Clients \ {c} : helper'[d] = helper[d]
    BY <2>1, <1>d DEF HelpersTyped, AnyHelper, Full
  <2>4. RestTyped'
    <3>1. history' \in [disturbed : SUBSET Clients, alone : SUBSET Clients, suspect : BOOLEAN]
      BY <1>8, <1>d DEF Consent, RestTyped
    <3> QED BY <1>8, <3>1, <1>d DEF Consent, RestTyped
  <2>5. Waits(a, helper'[c])
    BY <1>8, <1>c, <1>d, <2>1, <2>2 DEF Consent, Waits, HelpersTyped
  <2>6. ReportsMatch'
    BY <1>8, <1>a, <2>1, <2>2, AskerBecomes DEF Consent, SetupInv, ReportsMatch, RecentFor
  <2> QED BY <1>8, <1>b, <2>2, <2>3, <2>4, <2>5, <2>6, AskerKeeps DEF Consent
<1>9. CASE ReadReport(c)
  <2> DEFINE told == CASE ~asker[c].cleared \/ ~report.there -> "other"
                       [] c \in report.recent -> "recent"
                       [] OTHER -> "stale"
             a == [asker[c] EXCEPT !.at = "failed", !.told = told]
  <2>1. RecentFor(c, asker[c], report)
    BY DEF SetupInv, ReportsMatch
  <2>2. told \in {"other", "recent"}
    <3>1. asker[c].cleared /\ report.there => c \in report.recent
      BY <2>1, <1>9 DEF RecentFor, ReadReport
    <3> QED BY <3>1
  <2>0. asker' = [asker EXCEPT ![c].at = "failed", ![c].told = told]
    BY <1>9 DEF ReadReport
  <2> HIDE DEF told
  <2>3. asker' = [asker EXCEPT ![c] = a]
    BY <2>0, <1>a DEF AskersTyped
  <2>4. a \in AnyAsker /\ a.at = "failed" /\ a.told # "stale"
    BY <1>a, <2>2 DEF AnyAsker, ClientAt
  <2> HIDE DEF a
  <2>5. HelpersTyped' /\ RestTyped'
    BY <1>9, <1>d DEF ReadReport, HelpersTyped, RestTyped
  <2>6. Waits(a, helper'[c])
    BY <1>9, <1>c DEF ReadReport, Waits
  <2>7. ReportsMatch'
    <3>1. asker'[c] = a /\ \A d \in Clients \ {c} : asker'[d] = asker[d]
      BY <2>3, <2>4, <1>a, AskerBecomes
    <3>2. report' = report
      BY <1>9 DEF ReadReport
    <3> QED BY <2>4, <3>1, <3>2 DEF SetupInv, ReportsMatch, RecentFor
  <2> QED BY <1>9, <1>b, <2>3, <2>4, <2>5, <2>6, <2>7, AskerKeeps DEF ReadReport
<1>10. CASE StartRefresh(c)
  <2>1. PICK a \in AnyAsker : /\ asker' = [asker EXCEPT ![c] = a]
                              /\ a.at = "refreshing" /\ a.told = asker[c].told
    BY <1>10, <1>a, Moves DEF StartRefresh, ClientAt
  <2>2. /\ HelpersTyped' /\ RestTyped'
        /\ helper'[c] = [mode |-> "refresh", at |-> "resolve"]
        /\ \A d \in Clients \ {c} : helper'[d] = helper[d]
    BY <1>10, <1>d DEF StartRefresh, HelpersTyped, AnyHelper, Refresh, RestTyped
  <2>3. Waits(a, helper'[c])
    BY <2>1, <2>2 DEF Waits
  <2>4. ReportsMatch'
    BY <1>10, <2>1, <1>a, AskerBecomes DEF StartRefresh, SetupInv, ReportsMatch, RecentFor
  <2> QED BY <1>10, <1>b, <2>1, <2>2, <2>3, <2>4, AskerKeeps DEF StartRefresh
<1> QED BY <1>2, <1>3, <1>4, <1>5, <1>6, <1>7, <1>8, <1>9, <1>10 DEF AskerStep

\* A stage of a setup keeps the type of the machine (run_setup_full).
LEMMA StagedTyped ==
  ASSUME machine \in AnyMachine, NEW c \in Clients, NEW s \in Settings,
         NEW at \in (Full \cup Refresh) \ {"lock", "acls"}
  PROVE  Staged(c, at, s) \in AnyMachine
<1>a. c \in Passwords /\ s.ports \in SUBSET Ports /\ s.local \in BOOLEAN
  BY DEF Passwords, Settings
<1>1. CASE at \in {"offline", "online"}
  <2>1. [machine.accounts EXCEPT ![at] = c] \in [{"offline", "online"} -> Passwords]
    BY <1>1, <1>a DEF AnyMachine
  <2>2. Provisioned(at, c) = [machine EXCEPT !.accounts = [machine.accounts EXCEPT ![at] = c]]
    BY DEF Provisioned, AnyMachine
  <2>3. Provisioned(at, c) \in AnyMachine
    BY <2>1, <2>2 DEF AnyMachine
  <2> QED BY <1>1, <2>3 DEF Staged
<1>2. CASE at \in {"users", "users written", "marker", "marker written"}
  <2>1. Staged(c, at, s) = Written(at, c, s)
    BY <1>2 DEF Staged
  <2>2. CASE at = "users"
    BY <2>1, <2>2 DEF Written, AnyMachine
  <2>3. CASE at = "users written"
    <3>1. [state |-> "ok", offline |-> c, online |-> c]
            \in [state : {"none", "torn", "ok"}, offline : Passwords, online : Passwords]
      BY <1>a
    <3>2. Written(at, c, s) =
            [machine EXCEPT !.users = [state |-> "ok", offline |-> c, online |-> c]]
      BY <2>3 DEF Written
    <3> QED BY <2>1, <3>1, <3>2 DEF AnyMachine
  <2>4. CASE at = "marker"
    <3>1. Written(at, c, s) = [machine EXCEPT !.marker = [machine.marker EXCEPT !.state = "torn"]]
      BY <2>4 DEF Written, AnyMachine
    <3>2. [machine.marker EXCEPT !.state = "torn"]
            \in [state : {"none", "torn", "ok"}, settings : Settings]
      BY DEF AnyMachine
    <3> QED BY <2>1, <3>1, <3>2 DEF AnyMachine
  <2>5. CASE at = "marker written"
    <3>1. Written(at, c, s) = [machine EXCEPT !.marker = [state |-> "ok", settings |-> s]]
      BY <2>5 DEF Written
    <3>2. [state |-> "ok", settings |-> s]
            \in [state : {"none", "torn", "ok"}, settings : Settings]
      OBVIOUS
    <3> QED BY <2>1, <3>1, <3>2 DEF AnyMachine
  <2> QED BY <1>2, <2>2, <2>3, <2>4, <2>5
<1>3. CASE at \in {"udp", "broad", "narrow"}
  <2>1. Staged(c, at, s) = Loopback(at, s)
    BY <1>3 DEF Staged
  <2>2. CASE at = "udp"
    BY <2>1, <2>2, <1>a DEF Loopback, AnyMachine
  <2>3. CASE at = "broad"
    BY <2>1, <2>3, <1>a DEF Loopback, AnyMachine
  <2>4. CASE at = "narrow"
    BY <2>1, <2>4, <1>a DEF Loopback, BlockedPorts, AnyMachine
  <2> QED BY <1>3, <2>2, <2>3, <2>4
<1>4. CASE at = "block"
  BY <1>4 DEF Staged, Outbound, AnyMachine
<1>5. CASE at = "resolve"
  BY <1>5 DEF Staged
<1> QED BY <1>1, <1>2, <1>3, <1>4, <1>5 DEF Full, Refresh

\* The stage after the one that a helper works at is a stage (run_setup_full).
LEMMA AfterTyped ==
  ASSUME NEW c, NEW at \in (Full \cup Refresh) \ {"lock"}
  PROVE  After(c, at) \in Full
  BY DEF After, AfterBroad, Full, Refresh

\* Clients wait for a report (report_helper_failure).
LEMMA ExpectingTyped ==
  [there |-> TRUE, recent |-> Expecting] \in [there : BOOLEAN, recent : SUBSET Clients]
<1>1. Expecting \in SUBSET Clients
  BY DEF Expecting
<1> QED BY <1>1

\* A step of a setup helper keeps the invariant (run_setup_full,
\* run_setup_refresh, and the clients that wait for them).
LEMMA HelperStepInv ==
  ASSUME SetupInv, NEW c \in Clients, HelperStep(c)
  PROVE  SetupInv'
<1>a. asker[c] \in AnyAsker /\ helper[c] \in AnyHelper
  BY DEF SetupInv, AskersTyped, HelpersTyped
<1>b. Waits(asker[c], helper[c]) /\ RecentFor(c, asker[c], report)
  BY DEF SetupInv, HelpersMatch, ReportsMatch
<1>c. AskersTyped /\ HelpersTyped /\ RestTyped
  BY DEF SetupInv
<1>d. asker[c].told # "stale" /\ (asker[c].at # "idle" => request[c] # Absent)
  BY DEF SetupInv, ErrorIsRecent, AskersAreThere
<1>e. helper[c].at # "off" => request[c] # Absent
  BY <1>b, <1>d DEF Waits
<1>1. ASSUME NEW at \in AnyHelper, helper' = [helper EXCEPT ![c].at = at.at],
             at.at # "off" => helper[c].at # "off",
             UNCHANGED <<request, asker, report>>, RestTyped'
      PROVE  SetupInv'
  <2>1. helper' = [helper EXCEPT ![c] = [helper[c] EXCEPT !.at = at.at]]
    BY <1>1, <1>c DEF HelpersTyped
  <2>2. [helper[c] EXCEPT !.at = at.at] \in AnyHelper
    BY <1>1, <1>a DEF AnyHelper
  <2>3. /\ HelpersTyped'
        /\ helper'[c] = [helper[c] EXCEPT !.at = at.at]
        /\ \A d \in Clients \ {c} : helper'[d] = helper[d]
    BY <2>1, <2>2, <1>c DEF HelpersTyped
  <2>4. Waits(asker[c], helper'[c])
    BY <2>3, <1>1, <1>a, <1>b DEF Waits, AnyHelper
  <2>5. HelpersMatch'
    BY <1>1, <2>3, <2>4 DEF SetupInv, HelpersMatch
  <2>6. AskersTyped' /\ AskersAreThere' /\ ReportsMatch' /\ ErrorIsRecent'
    BY <1>1 DEF SetupInv, AskersTyped, AskersAreThere, ReportsMatch, RecentFor, ErrorIsRecent
  <2> QED BY <1>1, <2>3, <2>5, <2>6 DEF SetupInv
<1>2. CASE HelperWorks(c)
  <2>1. request[c].settings \in Settings
    BY <1>2, <1>c, <1>e DEF HelperWorks, RestTyped, AnyRequest, Full, Refresh
  <2>2. machine' \in AnyMachine
    BY <1>2, <1>c, <2>1, StagedTyped DEF HelperWorks, RestTyped
  <2>3. history' \in [disturbed : SUBSET Clients, alone : SUBSET Clients, suspect : BOOLEAN]
    BY <1>2, <1>c DEF HelperWorks, RestTyped
  <2>4. RestTyped'
    BY <1>2, <1>c, <2>2, <2>3 DEF HelperWorks, RestTyped
  <2>5. After(c, helper[c].at) \in Full
    BY <1>2, AfterTyped DEF HelperWorks
  <2>6. PICK h \in AnyHelper : h.at = After(c, helper[c].at)
    BY <2>5, [mode |-> "full", at |-> After(c, helper[c].at)] \in AnyHelper DEF AnyHelper
  <2>7. helper[c].at # "off"
    BY <1>2 DEF HelperWorks, Full, Refresh
  <2> QED BY <1>1, <1>2, <2>4, <2>6, <2>7 DEF HelperWorks
<1>3. CASE HelperSetsAcls(c)
  <2>1. RestTyped'
    BY <1>3, <1>c DEF HelperSetsAcls, RestTyped
  <2>2. After(c, "acls") \in Full
    BY AfterTyped DEF Full
  <2>3. PICK h \in AnyHelper : h.at = After(c, "acls")
    BY <2>2, [mode |-> "full", at |-> After(c, "acls")] \in AnyHelper DEF AnyHelper
  <2> QED BY <1>1, <1>3, <2>1, <2>3 DEF HelperSetsAcls
<1>f. Locked(c) \in AnyMachine
  BY <1>c DEF Locked, RestTyped, AnyMachine
<1>g. ASSUME helper' = [helper EXCEPT ![c].at = "off"]
      PROVE  /\ HelpersTyped' /\ helper'[c].at = "off"
             /\ \A d \in Clients \ {c} : helper'[d] = helper[d]
  <2>1. helper' = [helper EXCEPT ![c] = [helper[c] EXCEPT !.at = "off"]]
    BY <1>g, <1>c DEF HelpersTyped
  <2>2. [helper[c] EXCEPT !.at = "off"] \in AnyHelper /\ [helper[c] EXCEPT !.at = "off"].at = "off"
    BY <1>a DEF AnyHelper
  <2> QED BY <2>1, <2>2, <1>c DEF HelpersTyped
<1>4. CASE HelperSucceeds(c)
  <2>1. /\ HelpersTyped' /\ helper'[c].at = "off"
        /\ \A d \in Clients \ {c} : helper'[d] = helper[d]
    BY <1>4, <1>g DEF HelperSucceeds
  <2>2. request' = request /\ request[c] # Absent
    BY <1>4, <1>e DEF HelperSucceeds
  <2>3. PICK a \in AnyAsker : /\ asker' = [asker EXCEPT ![c] = a]
                              /\ a.at \in {"identify", "failed", "ready"}
                              /\ a.told = asker[c].told
    <3>1. CASE InSetup(c)
      <4> DEFINE a == [asker[c] EXCEPT !.at = "identify", !.again = TRUE]
      <4>1. asker' = [asker EXCEPT ![c] = a]
        BY <1>4, <1>c, <3>1 DEF HelperSucceeds, AskersTyped
      <4>2. a \in AnyAsker /\ a.at = "identify" /\ a.told = asker[c].told
        BY <1>a DEF AnyAsker, ClientAt
      <4> QED BY <4>1, <4>2
    <3>2. CASE ~InSetup(c)
      BY <1>4, <1>c, <3>2, Moves DEF HelperSucceeds, ClientAt
    <3> QED BY <3>1, <3>2
  <2>4. report' \in {report, [there |-> FALSE, recent |-> {}]}
    BY <1>4 DEF HelperSucceeds, Cleared
  <2>5. RestTyped'
    <3>1. history' \in [disturbed : SUBSET Clients, alone : SUBSET Clients, suspect : BOOLEAN]
      <4> DEFINE s == c \notin history.alone
      <4>1. s \in BOOLEAN
        OBVIOUS
      <4>2. \/ history' = history
            \/ history' = [history EXCEPT !.suspect = s, !.alone = @ \ {c}]
        BY <1>4 DEF HelperSucceeds
      <4> HIDE DEF s
      <4>3. history \in [disturbed : SUBSET Clients, alone : SUBSET Clients, suspect : BOOLEAN]
        BY <1>c DEF RestTyped
      <4>4. [history EXCEPT !.suspect = s, !.alone = @ \ {c}]
              \in [disturbed : SUBSET Clients, alone : SUBSET Clients, suspect : BOOLEAN]
        BY <4>1, <4>3
      <4> QED BY <4>2, <4>3, <4>4
    <3>2. report' \in [there : BOOLEAN, recent : SUBSET Clients]
      <4>1. [there |-> FALSE, recent |-> {}] \in [there : BOOLEAN, recent : SUBSET Clients]
        OBVIOUS
      <4>2. report \in [there : BOOLEAN, recent : SUBSET Clients]
        BY <1>c DEF RestTyped
      <4> QED BY <2>4, <4>1, <4>2
    <3>3. machine' \in AnyMachine /\ reading' \in BOOLEAN
      BY <1>4, <1>c, <1>f DEF HelperSucceeds, RestTyped
    <3> QED BY <1>c, <2>2, <3>1, <3>2, <3>3 DEF RestTyped
  <2>6. ReportsMatch'
    <3>1. asker'[c] = a /\ \A d \in Clients \ {c} : asker'[d] = asker[d]
      BY <2>3, <1>c, AskerBecomes
    <3>2. ASSUME NEW d \in Clients \ {c} PROVE RecentFor(d, asker[d], report')
      BY <2>4 DEF RecentFor, SetupInv, ReportsMatch
    <3> QED BY <2>3, <3>1, <3>2 DEF ReportsMatch, RecentFor
  <2> QED BY <1>d, <2>1, <2>2, <2>3, <2>5, <2>6, AskerKeeps DEF Waits
<1>5. CASE HelperStops(c)
  <2>1. /\ HelpersTyped' /\ helper'[c].at = "off"
        /\ \A d \in Clients \ {c} : helper'[d] = helper[d]
    BY <1>5, <1>g DEF HelperStops
  <2>2. request' = request /\ request[c] # Absent /\ helper[c].at # "off"
    BY <1>5, <1>e DEF HelperStops
  <2>3. PICK a \in AnyAsker : /\ asker' = [asker EXCEPT ![c] = a]
                              /\ a.at = IF InSetup(c) THEN "report" ELSE "failed"
                              /\ a.told = asker[c].told /\ a.cleared = asker[c].cleared
    BY <1>5, <1>c, Moves DEF HelperStops, ClientAt
  <2>4. report' \in {report, [there |-> TRUE, recent |-> Expecting]}
    BY <1>5 DEF HelperStops, Reported
  <2>5. RestTyped'
    <3>1. history' \in [disturbed : SUBSET Clients, alone : SUBSET Clients, suspect : BOOLEAN]
      <4>1. HalfWay(c) \in BOOLEAN
        BY <1>c DEF HalfWay, RestTyped, AnyMachine
      <4> QED BY <1>5, <1>c, <4>1 DEF HelperStops, RestTyped
    <3>2. machine' \in AnyMachine
      BY <1>5, <1>c, <1>f DEF HelperStops, RestTyped
    <3>3. report' \in [there : BOOLEAN, recent : SUBSET Clients]
      <4>1. report \in [there : BOOLEAN, recent : SUBSET Clients]
        BY <1>c DEF RestTyped
      <4> QED BY <2>4, <4>1, ExpectingTyped
    <3> QED BY <1>5, <1>c, <3>1, <3>2, <3>3 DEF HelperStops, RestTyped
  <2>6. ReportsMatch'
    <3>1. asker'[c] = a /\ \A d \in Clients \ {c} : asker'[d] = asker[d]
      BY <2>3, <1>c, AskerBecomes
    <3>2. RecentFor(c, a, report')
      <4>1. InSetup(c) => asker[c].at = "waiting"
        BY <1>b DEF Waits, InSetup
      <4>2. InSetup(c) => c \in Expecting
        BY <4>1 DEF Expecting
      <4> QED BY <1>b, <2>3, <2>4, <4>1, <4>2 DEF RecentFor
    <3>3. ASSUME NEW d \in Clients \ {c} PROVE RecentFor(d, asker[d], report')
      BY <2>4 DEF RecentFor, Expecting, SetupInv, ReportsMatch
    <3> QED BY <3>1, <3>2, <3>3 DEF ReportsMatch
  <2> QED BY <1>d, <2>1, <2>2, <2>3, <2>5, <2>6, AskerKeeps DEF Waits
<1> QED BY <1>2, <1>3, <1>4, <1>5 DEF HelperStep

\* The setup keeps its invariant.
LEMMA SetupStepInv == SetupInv /\ [SetupNext]_setupVars => SetupInv'
<1> SUFFICES ASSUME SetupInv, [SetupNext]_setupVars PROVE SetupInv'
  OBVIOUS
<1>1. CASE ReaderEnds
  <2>1. report' \in {report, [there |-> TRUE, recent |-> Expecting]}
    BY <1>1 DEF ReaderEnds, Reported
  <2>2. RestTyped'
    <3>1. report' \in [there : BOOLEAN, recent : SUBSET Clients]
      <4>1. report \in [there : BOOLEAN, recent : SUBSET Clients]
        BY DEF SetupInv, RestTyped
      <4> QED BY <2>1, <4>1, ExpectingTyped
    <3> QED BY <1>1, <3>1 DEF ReaderEnds, SetupInv, RestTyped
  <2>3. ReportsMatch'
    BY <1>1, <2>1 DEF ReaderEnds, SetupInv, ReportsMatch, RecentFor, Expecting
  <2> QED BY <1>1, <2>2, <2>3 DEF ReaderEnds, SetupInv, AskersTyped, HelpersTyped,
                                  AskersAreThere, HelpersMatch, Waits, ErrorIsRecent
<1>2. ASSUME NEW c \in Clients, AskerStep(c) \/ HelperStep(c) PROVE SetupInv'
  BY <1>2, AskerStepInv, HelperStepInv
<1>3. CASE UNCHANGED setupVars
  BY <1>3 DEF setupVars, SetupInv, AskersTyped, HelpersTyped, RestTyped, AskersAreThere,
     HelpersMatch, Waits, ReportsMatch, RecentFor, ErrorIsRecent
<1> QED BY <1>1, <1>2, <1>3 DEF SetupNext

\* Whatever the sandbox does, its setup does one step of its own or none.
LEMMA SandboxStepOfSetup == [Next]_vars => [SetupNext]_setupVars
  BY DEF Next, Prepare, LogonAs, vars

\* The invariant holds in every state of the sandbox.
THEOREM SetupAlwaysInv == Spec => []SetupInv
<1>1. Init => SetupInv
  BY SetupInitInv DEF Init
<1>2. SetupInv /\ [Next]_vars => SetupInv'
  BY SetupStepInv, SandboxStepOfSetup
<1> QED BY <1>1, <1>2, PTL DEF Spec

\* Nobody is told an error of a helper that had ended before it asked for setup,
\* however many clients and helpers there are and wherever each of them stops
\* (run_setup_exe, report_helper_failure).
THEOREM ErrorsAreRecent == Spec => []ErrorIsRecent
<1>1. SetupInv => ErrorIsRecent
  BY DEF SetupInv
<1> QED BY <1>1, SetupAlwaysInv, PTL

\* The variables of the setup have their types (identity.rs, setup_orchestrator.rs,
\* setup_main_win.rs).
THEOREM SetupTyped == Spec => []SetupTypeOK
  BY SetupInvTyped, SetupAlwaysInv, PTL

-----------------------------------------------------------------------------
(* The elevated backend: the command and the job of its runner.            *)

AnyCommand == [is : {"none", "running", "ended"}, code : CodeOrNone, made : Nat,
               child : {"no", "kin", "free"}]
AnyRunner == [at : RunnerAt, opened : Nat, job : {"none", "open", "closed"}, code : CodeOrNone]

\* A command is there once the runner has spawned it; a job that is open belongs
\* to a runner that has not finished, and closing it ends the command; a runner
\* that has finished left no command behind.
JobMatches ==
    /\ runner.at \in {"none", "starting", "request", "spawning"} => command.is = "none"
    /\ runner.at \in {"none", "starting", "request", "spawning", "spawned"} => runner.job = "none"
    /\ runner.job = "open" => runner.at \in {"assigned", "running"}
    /\ runner.job = "closed" => runner.at \in {"joining", "exited", "dead"}
    /\ runner.at \in {"joining", "exited"} => ~Running
    /\ runner.at = "dead" /\ Running => runner.job = "none"

\* The client has no runner before the logon, and none after a start that failed.
LinkMatches ==
    /\ link = "logon" => runner.at = "none"
    /\ link = "failed" => Gone

RunnerInv ==
    /\ command \in AnyCommand /\ runner \in AnyRunner
    /\ Elevated => JobMatches /\ LinkMatches
    /\ ~Elevated => runner.at = "none" /\ link = "logon"

\* The invariant implies the property.
LEMMA RunnerInvImplies == RunnerInv => NothingLeftRunning
  BY DEF RunnerInv, JobMatches, LinkMatches, NothingLeftRunning, Gone, Running, AnyRunner, RunnerAt

\* The invariant holds before the first step.
LEMMA RunnerInitInv == SessionInit /\ RunnerInit => RunnerInv
  BY DEF SessionInit, RunnerInit, RunnerInv, AnyCommand, AnyRunner, RunnerAt, CodeOrNone,
     JobMatches, LinkMatches, Elevated, Running, Gone

\* Killing ends a command that runs and changes no other (Killed, KinKilled).
LEMMA KillingEnds ==
  ASSUME NEW cmd \in AnyCommand, NEW code \in CodeOrNone
  PROVE  /\ Killed(cmd, code) \in AnyCommand /\ Killed(cmd, code).is # "running"
         /\ cmd.is # "running" => Killed(cmd, code) = cmd
         /\ KinKilled(cmd) \in AnyCommand /\ KinKilled(cmd).is = cmd.is
  BY DEF Killed, KinKilled, AnyCommand

\* Closing the job leaves no command in it (create_job_kill_on_close).
LEMMA JobEndsCommand ==
  ASSUME command \in AnyCommand
  PROVE  /\ JobEnds(command) \in AnyCommand
         /\ runner.job = "open" => JobEnds(command).is # "running"
         /\ runner.job # "open" => JobEnds(command) = command
         /\ command.is # "running" => JobEnds(command).is = command.is
<1>1. "terminated" \in CodeOrNone
  BY DEF CodeOrNone, Codes
<1>2. Killed(command, "terminated") \in AnyCommand
  BY <1>1, KillingEnds
<1> QED BY <1>1, <1>2, KillingEnds DEF JobEnds

\* A step that only lets a command end, or changes something else of it, keeps
\* the invariant as long as runner and link stay what they are.
LEMMA CommandKeeps ==
  ASSUME RunnerInv, scenario' = scenario, UNCHANGED <<link, runner>>, command' \in AnyCommand,
         command'.is = command.is \/ (Running /\ command'.is = "ended")
  PROVE  RunnerInv'
  BY DEF RunnerInv, JobMatches, LinkMatches, Elevated, backend, Running, Gone

\* A step that leaves command, runner and link alone keeps the invariant.
LEMMA OthersKeep ==
  ASSUME RunnerInv, UNCHANGED <<scenario, command, link, runner>>
  PROVE  RunnerInv'
  BY DEF RunnerInv, JobMatches, LinkMatches, Elevated, backend, Running, Gone

\* The steps of a session that are not those of the runner or its client keep
\* the invariant: a command can end, and is never started again.
LEMMA SessionStepInv ==
  ASSUME RunnerInv, SessionNext, UNCHANGED runnerVars
  PROVE  RunnerInv'
<1>a. UNCHANGED <<link, runner>> /\ command \in AnyCommand
  BY DEF runnerVars, RunnerInv
<1>b. {"terminated", "signal", "own"} \subseteq CodeOrNone
  BY DEF CodeOrNone, Codes
<1>1. CASE Reading
  BY <1>1, <1>a, OthersKeep DEF Reading, ReadDirect, ReadLegacy, ReadEof
<1>2. CASE Streaming
  BY <1>2, <1>a, OthersKeep DEF Streaming, StreamForwards, StreamEnds
<1>3. CASE Waiting
  BY <1>3, <1>a, OthersKeep DEF Waiting, WaitSees, WaitTells
<1>4. CASE Writing
  BY <1>4, <1>a, OthersKeep DEF Writing, WriterWrites, WriterEnds
<1>5. CASE WaiterTimesOut \/ WaiterReadsCode \/ WaiterJoins
  BY <1>5, <1>a, OthersKeep DEF WaiterTimesOut, WaiterReadsCode, WaiterJoins
<1>6. CASE WaiterTerminates
  <2>1. command' \in AnyCommand /\ (command'.is = command.is \/ (Running /\ command'.is = "ended"))
    BY <1>6, <1>a, <1>b DEF WaiterTerminates, Killed, Running, AnyCommand
  <2> QED BY <1>6, <1>a, <2>1, CommandKeeps DEF WaiterTerminates
<1>7. CASE CommandReads
  BY <1>7, <1>a, OthersKeep DEF CommandReads
<1>8. CASE Produce
  <2>1. command' \in AnyCommand /\ command'.is = command.is
    BY <1>8, <1>a DEF Produce, AnyCommand
  <2> QED BY <1>8, <1>a, <2>1, CommandKeeps DEF Produce
<1>9. CASE ChildEnds
  <2>1. command' \in AnyCommand /\ command'.is = command.is
    BY <1>9, <1>a DEF ChildEnds, AnyCommand
  <2> QED BY <1>9, <1>a, <2>1, CommandKeeps DEF ChildEnds
<1>10. CASE CommandEnds
  <2>1. command' \in AnyCommand /\ Running /\ command'.is = "ended"
    BY <1>10, <1>a, <1>b DEF CommandEnds, AnyCommand
  <2> QED BY <1>10, <1>a, <2>1, CommandKeeps DEF CommandEnds
<1>11. CASE LocalFork
  <2>1. command' \in AnyCommand /\ command'.is = command.is
    BY <1>11, <1>a DEF LocalFork, Fork, AnyCommand
  <2> QED BY <1>11, <1>a, <2>1, CommandKeeps DEF LocalFork, Fork
<1>12. CASE Write \/ CloseStdin \/ Receive \/ ReceiveEnd \/ StopListening
  BY <1>12, <1>a, OthersKeep DEF Write, CloseStdin, Receive, ReceiveEnd, StopListening
<1>13. ASSUME Kill
       PROVE  command' \in AnyCommand /\ (command'.is = command.is \/ (Running /\ command'.is = "ended"))
  <2>1. ASSUME NEW code \in CodeOrNone
        PROVE  /\ Killed(command, code) \in AnyCommand
               /\ Killed(command, code).is = command.is
                    \/ (Running /\ Killed(command, code).is = "ended")
    BY <1>a DEF Killed, Running, AnyCommand
  <2>2. ASSUME NEW code \in CodeOrNone
        PROVE  /\ KinKilled(Killed(command, code)) \in AnyCommand
               /\ KinKilled(Killed(command, code)).is = Killed(command, code).is
    BY <2>1, KillingEnds
  <2>3. \/ \E code \in CodeOrNone : command' = KinKilled(Killed(command, code))
        \/ \E code \in CodeOrNone : command' = Killed(command, code)
        \/ command' = command
    BY <1>13, <1>b DEF Kill
  <2> QED BY <2>1, <2>2, <2>3, <1>a
<1>14. CASE RequestTerminate
  BY <1>14, <1>13, <1>a, CommandKeeps DEF RequestTerminate
<1>15. CASE Terminate
  BY <1>15, <1>13, <1>a, CommandKeeps, OthersKeep DEF Terminate
<1> QED BY <1>1, <1>2, <1>3, <1>4, <1>5, <1>6, <1>7, <1>8, <1>9, <1>10, <1>11, <1>12, <1>14,
           <1>15 DEF SessionNext, LegacyWaiting, CommandStep, ClientStep

\* A runner that ends takes what is in its job with it, and nothing follows it
\* (create_job_kill_on_close).
LEMMA DeadInv ==
  ASSUME RunnerInv, scenario' = scenario, RunnerDead, link' \in {link, "failed"}, link # "logon"
  PROVE  RunnerInv'
<1>1. command \in AnyCommand /\ runner \in AnyRunner
  BY DEF RunnerInv
<1>2. /\ runner' \in AnyRunner /\ runner'.at = "dead"
      /\ runner'.job = IF runner.job = "open" THEN "closed" ELSE runner.job
  BY <1>1 DEF RunnerDead, JobClosed, AnyRunner, RunnerAt
<1>3. /\ command' \in AnyCommand
      /\ runner.job = "open" => command'.is # "running"
      /\ runner.job # "open" => command' = command
  BY <1>1, JobEndsCommand DEF RunnerDead
<1>4. ASSUME Elevated PROVE JobMatches' /\ LinkMatches'
  <2>1. JobMatches
    BY <1>4 DEF RunnerInv
  <2>2. command'.is = "running" => runner.job = "none"
    BY <1>1, <1>3, <2>1 DEF JobMatches, Running, AnyRunner
  <2>3. JobMatches'
    BY <1>1, <1>2, <2>2 DEF JobMatches, Running, AnyRunner
  <2>4. LinkMatches'
    BY <1>2 DEF LinkMatches, Gone
  <2> QED BY <2>3, <2>4
<1> QED BY <1>2, <1>3, <1>4 DEF RunnerInv, Elevated, backend

\* The steps of the runner keep the invariant (command_runner_win.rs).
LEMMA RunnerStepInv ==
  ASSUME RunnerInv, Elevated,
         RunnerMain \/ RunnerReads \/ RunnerInput \/ RunnerTimesOut \/ RunnerDies \/ RunnerFork
  PROVE  RunnerInv'
<1>a. command \in AnyCommand /\ runner \in AnyRunner /\ JobMatches /\ LinkMatches
  BY DEF RunnerInv
<1>b. {"terminated", "timeout", "own"} \subseteq CodeOrNone
  BY DEF CodeOrNone, Codes
<1>1. CASE RunnerOpens
  <2>1. /\ runner' \in AnyRunner /\ runner'.at \in {"starting", "request"}
        /\ runner'.job = runner.job
    <3> DEFINE at == IF runner.opened = 1 THEN "request" ELSE runner.at
    <3>1. at \in {"starting", "request"} /\ runner.opened + 1 \in Nat
      BY <1>1, <1>a DEF RunnerOpens, AnyRunner
    <3>2. runner' = [runner EXCEPT !.opened = runner.opened + 1, !.at = at]
      BY <1>1, <1>a DEF RunnerOpens, AnyRunner
    <3> HIDE DEF at
    <3> QED BY <1>a, <3>1, <3>2 DEF AnyRunner, RunnerAt
  <2> QED BY <1>1, <1>a, <2>1
          DEF RunnerOpens, sessionVars, RunnerInv, JobMatches, LinkMatches,
              Elevated, backend, Running, Gone
<1>2. CASE RunnerReadsRequest
  <2>1. runner' \in AnyRunner /\ runner'.at = "spawning" /\ runner'.job = runner.job
    BY <1>2, <1>a DEF RunnerReadsRequest, AnyRunner, RunnerAt
  <2> QED BY <1>2, <1>a, <2>1
          DEF RunnerReadsRequest, sessionVars, RunnerInv, JobMatches, LinkMatches,
              Elevated, backend, Running, Gone
<1>3. CASE RunnerRefuses
  <2>1. runner' \in AnyRunner /\ runner'.at = "exited" /\ runner'.job = runner.job
    BY <1>3, <1>a DEF RunnerRefuses, AnyRunner, RunnerAt
  <2> QED BY <1>3, <1>a, <2>1
          DEF RunnerRefuses, sessionVars, RunnerInv, JobMatches, LinkMatches,
              Elevated, backend, Running, Gone
<1>4. CASE RunnerSpawns
  <2>1. /\ runner' \in AnyRunner /\ runner'.at = "spawned" /\ runner'.job = runner.job
        /\ command' \in AnyCommand
    BY <1>4, <1>a DEF RunnerSpawns, AnyRunner, RunnerAt, AnyCommand
  <2> QED BY <1>4, <1>a, <2>1
          DEF RunnerSpawns, RunnerInv, JobMatches, LinkMatches,
              Elevated, backend, Running, Gone
<1>5. CASE RunnerAssigns
  <2>1. runner' \in AnyRunner /\ runner'.at = "assigned" /\ runner'.job \in {"open", "none"}
    BY <1>5, <1>a DEF RunnerAssigns, AnyRunner, RunnerAt
  <2> QED BY <1>5, <1>a, <2>1
          DEF RunnerAssigns, sessionVars, RunnerInv, JobMatches, LinkMatches,
              Elevated, backend, Running, Gone
<1>6. CASE RunnerReady
  <2>1. runner' \in AnyRunner /\ runner'.at = "running" /\ runner'.job = runner.job
    BY <1>6, <1>a DEF RunnerReady, AnyRunner, RunnerAt
  <2> QED BY <1>6, <1>a, <2>1
          DEF RunnerReady, sessionVars, RunnerInv, JobMatches, LinkMatches,
              Elevated, backend, Running, Gone
<1>7. ASSUME NEW cmd \in AnyCommand, NEW code \in CodeOrNone, runner.at = "running",
             cmd.is # "running", Finished(cmd, code)
      PROVE  RunnerInv'
  <2>1. /\ runner' \in AnyRunner /\ runner'.at = "joining"
        /\ runner'.job = IF runner.job = "open" THEN "closed" ELSE runner.job
    BY <1>7, <1>a DEF Finished, JobClosed, AnyRunner, RunnerAt
  <2>2. command' \in AnyCommand /\ command'.is # "running"
    <3>1. Killed(cmd, "terminated") = cmd
      BY <1>7, <1>b, KillingEnds
    <3>2. KinKilled(cmd) \in AnyCommand /\ KinKilled(cmd).is = cmd.is
      BY <1>7, <1>b, KillingEnds
    <3> QED BY <1>7, <3>1, <3>2 DEF Finished, JobEnds
  <2> QED BY <1>7, <1>a, <2>1, <2>2
          DEF Finished, RunnerInv, JobMatches, LinkMatches,
              Elevated, backend, Running, Gone
<1>8. CASE RunnerSeesEnd
  <2>1. command.code \in CodeOrNone /\ command.is = "ended"
    BY <1>8, <1>a DEF RunnerSeesEnd, Ended, AnyCommand
  <2> QED BY <1>8, <1>7, <1>a, <2>1 DEF RunnerSeesEnd
<1>9. CASE RunnerTimesOut
  <2>1. /\ Killed(command, "terminated") \in AnyCommand
        /\ Killed(command, "terminated").is # "running"
    BY <1>a, <1>b, KillingEnds
  <2> QED BY <1>9, <1>7, <1>b, <2>1 DEF RunnerTimesOut
<1>10. CASE RunnerReads
  BY <1>10, OthersKeep DEF RunnerReads
<1>11. CASE RunnerExits
  <2>1. runner' \in AnyRunner /\ runner'.at = "exited" /\ runner'.job = runner.job
    BY <1>11, <1>a DEF RunnerExits, AnyRunner, RunnerAt
  <2> QED BY <1>11, <1>a, <2>1
          DEF RunnerExits, sessionVars, RunnerInv, JobMatches, LinkMatches,
              Elevated, backend, Running, Gone
<1>12. CASE RunnerTakes
  <2>1. /\ command' \in AnyCommand
        /\ command'.is = command.is \/ (Running /\ command'.is = "ended")
    <3>1. command' \in {command, Killed(command, "terminated")}
      BY <1>12 DEF RunnerTakes
    <3> QED BY <1>a, <1>b, <3>1 DEF Killed, Running, AnyCommand
  <2> QED BY <1>12, <2>1, CommandKeeps DEF RunnerTakes
<1>13. CASE RunnerInputEnds
  BY <1>13, OthersKeep DEF RunnerInputEnds, runnerVars
<1>14. CASE RunnerDies
  BY <1>14, <1>a, DeadInv DEF RunnerDies, Gone, LinkMatches
<1>15. CASE RunnerFork
  <2>1. command' \in AnyCommand /\ command'.is = command.is
    BY <1>15, <1>a DEF RunnerFork, Fork, AnyCommand
  <2> QED BY <1>15, <2>1, CommandKeeps DEF RunnerFork, Fork, runnerVars
<1> QED BY <1>1, <1>2, <1>3, <1>4, <1>5, <1>6, <1>8, <1>9, <1>10, <1>11, <1>12, <1>13, <1>14,
           <1>15 DEF RunnerMain, RunnerInput

\* The steps of the client keep the invariant (spawn_runner_transport and the
\* tasks it starts).
LEMMA ClientStepInv ==
  ASSUME RunnerInv, Elevated,
         Handshake \/ FrameReader \/ StdinWriter \/ RunnerClientStep
  PROVE  RunnerInv'
<1>1. CASE ClientConnects
  BY <1>1 DEF ClientConnects, Connected, sessionVars, RunnerInv, JobMatches, LinkMatches,
     Elevated, backend, Running, Gone
<1>2. CASE ClientRequests
  BY <1>2 DEF ClientRequests, sessionVars, RunnerInv, JobMatches, LinkMatches,
     Elevated, backend, Running, Gone
<1>3. CASE ClientIsUp
  BY <1>3 DEF ClientIsUp, RunnerInv, JobMatches, LinkMatches,
     Elevated, backend, Running, Gone
<1>4. CASE StartFails
  <2>1. link # "logon" /\ link' = "failed" /\ scenario' = scenario
    BY <1>4 DEF StartFails, WaitsForRunner
  <2>2. CASE Gone
    BY <1>4, <2>1, <2>2 DEF StartFails, RunnerInv, JobMatches, LinkMatches,
       Elevated, backend, Running, Gone
  <2>3. CASE ~Gone
    BY <1>4, <2>1, <2>3, DeadInv DEF StartFails
  <2> QED BY <2>2, <2>3
<1>5. CASE FrameReader
  BY <1>5, OthersKeep DEF FrameReader
<1>6. CASE StdinWriter
  BY <1>6, OthersKeep DEF StdinWriter
<1>7. CASE RunnerRequestTerminate \/ RunnerTerminate
  BY <1>7, OthersKeep DEF RunnerRequestTerminate, RunnerTerminate
<1> QED BY <1>1, <1>2, <1>3, <1>4, <1>5, <1>6, <1>7 DEF Handshake, RunnerClientStep

\* Only a session of the elevated backend has a runner.
LEMMA RunnerIsElevated ==
  ASSUME RunnerInv, RunnerNext
  PROVE  Elevated
<1> SUFFICES ASSUME ~Elevated PROVE FALSE
  OBVIOUS
<1>1. runner.at = "none" /\ link = "logon"
  BY DEF RunnerInv
<1> QED BY <1>1 DEF RunnerNext, RunnerMain, RunnerOpens, RunnerReadsRequest, RunnerRefuses,
    RunnerSpawns, RunnerAssigns, RunnerReady, RunnerSeesEnd, RunnerExits, RunnerReads,
    RunnerInput, RunnerTakes, Reads, RunnerInputEnds, RunnerTimesOut, RunnerDies, Gone,
    Handshake, ClientConnects, Connected, ClientRequests, ClientIsUp, StartFails, WaitsForRunner,
    FrameReader, StdinWriter, RunnerClientStep, RunnerRequestTerminate, RunnerTerminate, RunnerFork

\* The logon starts a runner, or the start has failed (CreateProcessWithLogonW).
LEMMA LogonInv ==
  ASSUME RunnerInv, NEW accepted \in BOOLEAN, Logon(accepted)
  PROVE  RunnerInv'
<1>1. command \in AnyCommand /\ runner \in AnyRunner /\ JobMatches /\ LinkMatches
  BY DEF RunnerInv, Logon
<1>2. /\ runner' \in AnyRunner /\ runner'.at = IF accepted THEN "starting" ELSE "none"
      /\ runner'.job = runner.job
  BY <1>1 DEF Logon, LinkMatches, AnyRunner, RunnerAt
<1> QED BY <1>1, <1>2
  DEF Logon, sessionVars, RunnerInv, JobMatches, LinkMatches, Elevated, backend, Running, Gone

\* The sandbox keeps the invariant.
LEMMA RunnerInvKept == RunnerInv /\ [Next]_vars => RunnerInv'
<1> SUFFICES ASSUME RunnerInv, [Next]_vars PROVE RunnerInv'
  OBVIOUS
<1>1. CASE Prepare
  BY <1>1, OthersKeep DEF Prepare, allSessionVars, sessionVars, runnerVars
<1>2. ASSUME NEW c \in Clients, LogonAs(c) PROVE RunnerInv'
  BY <1>2, LogonInv DEF LogonAs
<1>3. CASE SessionNext /\ UNCHANGED runnerVars
  BY <1>3, SessionStepInv
<1>4. CASE RunnerNext
  BY <1>4, RunnerIsElevated, RunnerStepInv, ClientStepInv DEF RunnerNext
<1>5. CASE UNCHANGED vars
  BY <1>5, OthersKeep DEF vars, allSessionVars, sessionVars, runnerVars
<1> QED BY <1>1, <1>2, <1>3, <1>4, <1>5 DEF Next, SessionsNext

\* A start that failed, and a runner that died, leave no command running, except
\* one that was never in the job of the runner: for every output, input, timeout
\* and capacity, at whatever step runner or client stop (spawn_runner_transport,
\* create_job_kill_on_close).
THEOREM NothingIsLeftRunning == Spec => []NothingLeftRunning
<1>1. Init => RunnerInv
  BY RunnerInitInv DEF Init
<1>2. RunnerInv => NothingLeftRunning
  BY RunnerInvImplies
<1> QED BY <1>1, <1>2, RunnerInvKept, PTL DEF Spec

-----------------------------------------------------------------------------
(* The setup: the files and the machine.  Two things are assumed of the    *)
(* start: the machine matches its files, and nobody asks for all ports, for *)
(* which no rule is narrowed.                                              *)

NotAllPorts == \A c \in Clients : request[c] # Absent => request[c].settings.ports # Ports

\* What the files say is true of the machine.
Matches ==
    /\ machine.users.state = "ok" =>
         /\ machine.locked
         /\ \A i \in {"offline", "online"} : machine.users[i] = machine.accounts[i]
    /\ machine.marker.state = "ok" => Blocks(machine.marker.settings)

\* What a full setup has done when it comes to a stage.
Done(m, c, at, s) ==
    /\ at # "offline" => m.accounts["offline"] = c
    /\ at \notin {"offline", "online"} => m.accounts["online"] = c
    /\ at \notin {"offline", "online", "users", "users written"} =>
         m.users = [state |-> "ok", offline |-> c, online |-> c]
    /\ at \in {"udp", "broad", "narrow", "block", "acls", "lock"} =>
         m.marker = [state |-> "ok", settings |-> s]
    /\ at \in {"broad", "narrow", "block", "acls", "lock"} => m.udp = ~s.local
    /\ at = "narrow" => ~s.local
    /\ at \in {"block", "acls", "lock"} =>
         m.tcp = IF s.local THEN {} ELSE BlockedPorts(s)
    /\ at \in {"acls", "lock"} => m.block

\* No other setup changes the machine under a setup that is alone, or whose
\* client was not disturbed.
SetupsDone ==
    \A c \in Clients : (InSetup(c) /\ (c \in history.alone \/ c \notin history.disturbed)) =>
      Done(machine, c, helper[c].at, request[c].settings)

AloneIsAlone ==
    \A c \in history.alone :
      /\ InSetup(c) /\ Others(c) = {}
      /\ helper[c].at = "offline" /\ ~history.suspect => Matches

\* What a client that was not disturbed has read is still there.
Knows(c) ==
    /\ asker[c].at \in {"identify", "load", "refresh", "refreshing", "ready"} => MarkerSuits(c)
    /\ asker[c].at = "ready" => asker[c].creds # Nobody
    /\ asker[c].creds # Nobody =>
         /\ asker[c].at \in {"refresh", "refreshing", "ready", "failed"}
         /\ machine.users.state = "ok" /\ asker[c].creds = machine.users[request[c].identity]

\* A helper works at the stages of its mode.
StagesOfMode ==
    \A c \in Clients : helper[c].at # "off" =>
      helper[c].at \in IF helper[c].mode = "full" THEN Full ELSE Refresh

ClientsKnow == \A c \in Clients \ history.disturbed : Knows(c)

ArtifactsInv ==
    /\ NotAllPorts /\ StagesOfMode /\ ArtifactsMatch
    /\ SetupsDone /\ AloneIsAlone /\ ClientsKnow

\* The property of the run, by the name that the proof uses.
LEMMA MatchesWhenSettled == ArtifactsMatch <=> (Settled => Matches)
  BY DEF ArtifactsMatch, Matches

\* The other way round: both sides say nothing that the other does not.
LEMMA MatchesWhenSettledNext == ArtifactsMatch' <=> (Settled' => Matches')
  BY DEF ArtifactsMatch, Matches

\* When not every port is allowed, a rule blocks the others
\* (blocked_loopback_tcp_remote_ports).
LEMMA SomeBlocked ==
  ASSUME NEW s \in Settings, s.ports # Ports
  PROVE  BlockedPorts(s) # {}
  BY DEF Settings, BlockedPorts

\* A stage does what the next stage relies on (run_setup_full, write_secrets,
\* ensure_offline_proxy_allowlist, ensure_offline_outbound_block).
LEMMA StageDone ==
  ASSUME machine \in AnyMachine, NEW c \in Clients, NEW s \in Settings, s.ports # Ports,
         s = request[c].settings, NEW at \in Full \ {"acls", "lock"}, Done(machine, c, at, s),
         machine' = Staged(c, at, s), NEW next, next = After(c, at)
  PROVE  Done(machine', c, next, s) /\ next \in Full \ {"offline"}
<1>1. CASE at = "offline"
  <2>1. next = "online" /\ machine' = [machine EXCEPT !.accounts[at] = c]
    BY <1>1 DEF After, Staged, Provisioned
  <2>2. machine'.accounts["offline"] = c
    BY <1>1, <2>1 DEF AnyMachine
  <2> QED BY <2>1, <2>2 DEF Done, Full
<1>2. CASE at = "online"
  <2>1. next = "users" /\ machine' = [machine EXCEPT !.accounts[at] = c]
    BY <1>2 DEF After, Staged, Provisioned
  <2>2. machine'.accounts["offline"] = c /\ machine'.accounts["online"] = c
    BY <1>2, <2>1 DEF AnyMachine, Done
  <2> QED BY <2>1, <2>2 DEF Done, Full
<1>3. CASE at = "users"
  <2>1. next = "users written" /\ machine' = [machine EXCEPT !.users.state = "torn"]
    BY <1>3 DEF After, Staged, Written
  <2>2. machine'.accounts = machine.accounts
    BY <2>1 DEF AnyMachine
  <2> QED BY <1>3, <2>1, <2>2 DEF Done, Full
<1>4. CASE at = "users written"
  <2>1. /\ next = "marker"
        /\ machine' = [machine EXCEPT !.users = [state |-> "ok", offline |-> c, online |-> c]]
    BY <1>4 DEF After, Staged, Written
  <2>2. /\ machine'.accounts = machine.accounts
        /\ machine'.users = [state |-> "ok", offline |-> c, online |-> c]
    BY <2>1 DEF AnyMachine
  <2> QED BY <1>4, <2>1, <2>2 DEF Done, Full
<1>5. CASE at = "marker"
  <2>1. next = "marker written" /\ machine' = [machine EXCEPT !.marker.state = "torn"]
    BY <1>5 DEF After, Staged, Written
  <2>2. machine'.accounts = machine.accounts /\ machine'.users = machine.users
    BY <2>1 DEF AnyMachine
  <2> QED BY <1>5, <2>1, <2>2 DEF Done, Full
<1>6. CASE at = "marker written"
  <2>1. /\ next = "udp"
        /\ machine' = [machine EXCEPT !.marker = [state |-> "ok", settings |-> s]]
    BY <1>6 DEF After, Staged, Written
  <2>2. /\ machine'.accounts = machine.accounts /\ machine'.users = machine.users
        /\ machine'.marker = [state |-> "ok", settings |-> s]
    BY <2>1 DEF AnyMachine
  <2> QED BY <1>6, <2>1, <2>2 DEF Done, Full
<1>7. CASE at = "udp"
  <2>1. next = "broad" /\ machine' = [machine EXCEPT !.udp = ~s.local]
    BY <1>7 DEF After, Staged, Loopback
  <2>2. /\ machine'.accounts = machine.accounts /\ machine'.users = machine.users
        /\ machine'.marker = machine.marker /\ machine'.udp = ~s.local
    BY <2>1 DEF AnyMachine
  <2> QED BY <1>7, <2>1, <2>2 DEF Done, Full
<1>8. CASE at = "broad"
  <2> DEFINE tcp == IF s.local THEN {} ELSE IF machine.tcp = {} THEN Ports ELSE machine.tcp
  <2>1. /\ next = IF s.local THEN "block" ELSE "narrow"
        /\ machine' = [machine EXCEPT !.tcp = tcp]
    BY <1>8 DEF After, AfterBroad, Staged, Loopback, AnyMachine
  <2>2. /\ machine'.accounts = machine.accounts /\ machine'.users = machine.users
        /\ machine'.marker = machine.marker /\ machine'.udp = machine.udp
        /\ s.local => machine'.tcp = {}
    BY <2>1 DEF AnyMachine
  <2> QED BY <1>8, <2>1, <2>2 DEF Done, Full
<1>9. CASE at = "narrow"
  <2>1. next = "block" /\ machine' = [machine EXCEPT !.tcp = BlockedPorts(s)]
    BY <1>9, SomeBlocked DEF After, Staged, Loopback
  <2>2. /\ machine'.accounts = machine.accounts /\ machine'.users = machine.users
        /\ machine'.marker = machine.marker /\ machine'.udp = machine.udp
        /\ machine'.tcp = BlockedPorts(s)
    BY <2>1 DEF AnyMachine
  <2> QED BY <1>9, <2>1, <2>2 DEF Done, Full
<1>10. CASE at = "block"
  <2>1. next = "acls" /\ machine' = [machine EXCEPT !.block = TRUE]
    BY <1>10 DEF After, Staged, Outbound
  <2>2. /\ machine'.accounts = machine.accounts /\ machine'.users = machine.users
        /\ machine'.marker = machine.marker /\ machine'.udp = machine.udp
        /\ machine'.tcp = machine.tcp /\ machine'.block
    BY <2>1 DEF AnyMachine
  <2> QED BY <1>10, <2>1, <2>2 DEF Done, Full
<1> QED BY <1>1, <1>2, <1>3, <1>4, <1>5, <1>6, <1>7, <1>8, <1>9, <1>10 DEF Full

\* A setup that is done and has locked its secrets leaves a machine that matches
\* its files (write_secrets, lock_sandbox_dir).
LEMMA DoneMatchesNext ==
  ASSUME NEW c \in Clients, NEW s \in Settings, NEW at \in {"acls", "lock"},
         Done(machine', c, at, s), machine'.locked
  PROVE  Matches'
<1>1. /\ machine'.accounts["offline"] = c /\ machine'.accounts["online"] = c
      /\ machine'.users = [state |-> "ok", offline |-> c, online |-> c]
      /\ machine'.marker = [state |-> "ok", settings |-> s]
      /\ machine'.udp = ~s.local /\ machine'.block
      /\ machine'.tcp = IF s.local THEN {} ELSE BlockedPorts(s)
  BY DEF Done
<1>2. \A i \in {"offline", "online"} : machine'.users[i] = machine'.accounts[i]
  BY <1>1
<1>3. machine'.marker.settings = s
  BY <1>1
<1>4. Blocks(s)'
  BY <1>1 DEF Blocks
<1> QED BY <1>1, <1>2, <1>3, <1>4 DEF Matches, Blocks

\* What a step of a client has to show: it still knows what it has read.
LEMMA AskerArtifacts ==
  ASSUME ArtifactsInv, SetupInv, NEW c \in Clients, NEW a \in AnyAsker,
         asker' = [asker EXCEPT ![c] = a], UNCHANGED <<request, machine, helper, history>>,
         c \notin history.disturbed => Knows(c)'
  PROVE  ArtifactsInv'
<1>1. \A d \in Clients \ {c} : asker'[d] = asker[d]
  BY AskerBecomes DEF SetupInv
<1>2. ClientsKnow'
  BY <1>1 DEF ArtifactsInv, ClientsKnow, Knows, MarkerSuits, MarkerThere
<1>3. NotAllPorts' /\ StagesOfMode' /\ SetupsDone' /\ AloneIsAlone'
  BY DEF ArtifactsInv, NotAllPorts, StagesOfMode, SetupsDone, InSetup, Done, AloneIsAlone,
     Others, Matches, Blocks
<1>4. ArtifactsMatch'
  BY DEF ArtifactsInv, ArtifactsMatch, Settled, InSetup, Blocks
<1> QED BY <1>2, <1>3, <1>4 DEF ArtifactsInv

\* A step of a client keeps the files true and what it has read
\* (require_logon_sandbox_creds).
LEMMA AskerStepArtifacts ==
  ASSUME ArtifactsInv, SetupInv, NEW c \in Clients, AskerStep(c)
  PROVE  ArtifactsInv'
<1>a. asker[c] \in AnyAsker /\ AskersTyped /\ HelpersTyped /\ RestTyped
  BY DEF SetupInv, AskersTyped
<1>b. c \notin history.disturbed => Knows(c)
  BY DEF ArtifactsInv, ClientsKnow
<1>c. asker[c].at \notin {"waiting", "refreshing"} => helper[c].at = "off"
  BY DEF SetupInv, HelpersMatch, Waits
<1>1. ASSUME NEW at \in ClientAt, Goes(c, at), UNCHANGED <<request, machine, helper, history>>,
             asker[c].at \in {"idle", "check", "identify", "load"},
             at \notin {"ready", "identify", "load", "refresh", "refreshing"} \/ MarkerSuits(c)
                \/ asker[c].at \in {"identify", "load"},
             at # "ready"
      PROVE  ArtifactsInv'
  <2>1. PICK a \in AnyAsker : /\ asker' = [asker EXCEPT ![c] = a]
                              /\ a.at = at /\ a.creds = asker[c].creds
    BY <1>1, <1>a, Moves
  <2>2. asker'[c] = a
    BY <2>1, <1>a, AskerBecomes
  <2>3. c \notin history.disturbed => asker[c].creds = Nobody
    BY <1>1, <1>b DEF Knows
  <2>4. c \notin history.disturbed => Knows(c)'
    BY <1>1, <1>b, <2>1, <2>2, <2>3 DEF Knows, MarkerSuits, MarkerThere
  <2> QED BY <1>1, <2>1, <2>4, AskerArtifacts
<1>2. CASE Begin(c)
  BY <1>2, <1>1 DEF Begin, ClientAt
<1>3. CASE Check(c)
  BY <1>3, <1>1 DEF Check, ClientAt
<1>4. CASE Identify(c)
  BY <1>4, <1>1 DEF Identify, Missing, ClientAt
<1>5. CASE Load(c) /\ machine.users.state # "ok"
  BY <1>5, <1>1 DEF Load, Missing, ClientAt
<1>6. CASE Load(c) /\ machine.users.state = "ok"
  <2> DEFINE creds == machine.users[request[c].identity]
             a == [asker[c] EXCEPT !.at = "refresh", !.creds = creds]
  <2>1. creds \in Passwords
    <3>1. request[c] # Absent
      BY <1>6 DEF Load, SetupInv, AskersAreThere
    <3>2. request[c].identity \in {"offline", "online"}
      BY <1>a, <3>1 DEF RestTyped, AnyRequest
    <3> QED BY <1>a, <3>2 DEF RestTyped, AnyMachine
  <2>2. asker' = [asker EXCEPT ![c] = a]
    BY <1>6, <1>a DEF Load, AskersTyped
  <2>3. a \in AnyAsker /\ a.at = "refresh" /\ a.creds = creds
    BY <1>a, <2>1 DEF AnyAsker, ClientAt
  <2> HIDE DEF a
  <2>4. asker'[c] = a
    BY <2>2, <2>3, <1>a, AskerBecomes
  <2>5. c \notin history.disturbed => Knows(c)'
    BY <1>6, <1>b, <2>3, <2>4 DEF Load, Knows, MarkerSuits, MarkerThere
  <2> QED BY <1>6, <2>2, <2>3, <2>5, AskerArtifacts DEF Load
<1>7. CASE ClearReport(c)
  <2>1. PICK cleared \in BOOLEAN :
          asker' = [asker EXCEPT ![c].at = "consent", ![c].cleared = cleared]
    BY <1>7 DEF ClearReport
  <2> DEFINE a == [asker[c] EXCEPT !.at = "consent", !.cleared = cleared]
  <2>2. asker' = [asker EXCEPT ![c] = a]
    BY <2>1, <1>a DEF AskersTyped
  <2>3. a \in AnyAsker /\ a.at = "consent" /\ a.creds = asker[c].creds
    BY <1>a DEF AnyAsker, ClientAt
  <2> HIDE DEF a
  <2>4. asker'[c] = a
    BY <2>2, <2>3, <1>a, AskerBecomes
  <2>5. c \notin history.disturbed => Knows(c)'
    BY <1>7, <1>b, <2>3, <2>4 DEF ClearReport, Knows
  <2> QED BY <1>7, <2>2, <2>3, <2>5, AskerArtifacts DEF ClearReport
<1>8. CASE ReadReport(c)
  <2>1. PICK told \in {"none", "recent", "stale", "other"} :
          asker' = [asker EXCEPT ![c].at = "failed", ![c].told = told]
    <3> DEFINE t == CASE ~asker[c].cleared \/ ~report.there -> "other"
                      [] c \in report.recent -> "recent"
                      [] OTHER -> "stale"
    <3>1. asker' = [asker EXCEPT ![c].at = "failed", ![c].told = t]
      BY <1>8 DEF ReadReport
    <3>2. t \in {"none", "recent", "stale", "other"}
      <4>1. CASE ~asker[c].cleared \/ ~report.there
        BY <4>1, <1>8 DEF SetupInv, ReportsMatch, RecentFor, ReadReport
      <4>2. CASE ~(~asker[c].cleared \/ ~report.there) /\ c \in report.recent
        BY <4>2
      <4>3. CASE ~(~asker[c].cleared \/ ~report.there) /\ c \notin report.recent
        BY <4>3
      <4> QED BY <4>1, <4>2, <4>3
    <3> QED BY <3>1, <3>2
  <2> DEFINE a == [asker[c] EXCEPT !.at = "failed", !.told = told]
  <2>2. asker' = [asker EXCEPT ![c] = a]
    BY <2>1, <1>a DEF AskersTyped
  <2>3. a \in AnyAsker /\ a.at = "failed" /\ a.creds = asker[c].creds
    BY <1>a DEF AnyAsker, ClientAt
  <2> HIDE DEF a
  <2>4. asker'[c] = a
    BY <2>2, <2>3, <1>a, AskerBecomes
  <2>5. c \notin history.disturbed => Knows(c)'
    BY <1>8, <1>b, <2>3, <2>4 DEF ReadReport, Knows
  <2> QED BY <1>8, <2>2, <2>3, <2>5, AskerArtifacts DEF ReadReport
<1>9. CASE Consent(c)
  <2>1. PICK at \in {"failed", "waiting"} :
          /\ Goes(c, at)
          /\ at = "failed" => UNCHANGED <<helper, history>>
          /\ at = "waiting" =>
               /\ helper' = [helper EXCEPT ![c] = [mode |-> "full", at |-> "offline"]]
               /\ history' = [history EXCEPT !.alone = IF Others(c) = {} THEN {c} ELSE {}]
    BY <1>9 DEF Consent
  <2>2. PICK a \in AnyAsker : /\ asker' = [asker EXCEPT ![c] = a]
                              /\ a.at = at /\ a.creds = asker[c].creds
    BY <2>1, <1>a, Moves DEF ClientAt
  <2>3. /\ asker'[c] = a /\ \A d \in Clients \ {c} : asker'[d] = asker[d]
    BY <2>2, <1>a, AskerBecomes
  <2>4. UNCHANGED <<request, machine>> /\ helper[c].at = "off"
    BY <1>9, <1>c DEF Consent
  <2>5. c \notin history.disturbed => Knows(c)'
    BY <1>9, <1>b, <2>1, <2>2, <2>3, <2>4 DEF Consent, Knows
  <2>6. CASE at = "failed"
    BY <2>1, <2>2, <2>4, <2>5, <2>6, AskerArtifacts
  <2>7. CASE at = "waiting"
    <3>1. /\ helper'[c] = [mode |-> "full", at |-> "offline"]
          /\ \A d \in Clients \ {c} : helper'[d] = helper[d]
      BY <2>1, <2>7, <1>a DEF HelpersTyped
    <3>2. /\ history'.disturbed = history.disturbed /\ history'.suspect = history.suspect
          /\ history'.alone = IF Others(c) = {} THEN {c} ELSE {}
      BY <2>1, <2>7, <1>a DEF RestTyped
    <3>3. InSetup(c)' /\ ~InSetup(c) /\ \A d \in Clients \ {c} : InSetup(d)' = InSetup(d)
      BY <2>4, <3>1 DEF InSetup
    <3>4. Others(c)' = Others(c)
      BY <3>3 DEF Others
    <3>5. NotAllPorts' /\ StagesOfMode'
      <4>1. StagesOfMode'
        <5>1. helper'[c].mode = "full" /\ helper'[c].at \in Full
          BY <3>1 DEF Full
        <5>2. \A d \in Clients \ {c} : helper'[d].at # "off" =>
                helper'[d].at \in IF helper'[d].mode = "full" THEN Full ELSE Refresh
          BY <3>1 DEF ArtifactsInv, StagesOfMode
        <5> QED BY <5>1, <5>2 DEF StagesOfMode
      <4> QED BY <2>4, <4>1 DEF ArtifactsInv, NotAllPorts
    <3>6. ArtifactsMatch'
      BY <3>3, MatchesWhenSettledNext DEF Settled
    <3>7. SetupsDone'
      <4>1. ASSUME NEW d \in Clients, InSetup(d)',
                   (d \in history.alone \/ d \notin history.disturbed)'
            PROVE  Done(machine', d, helper'[d].at, request'[d].settings)
        <5>1. CASE d = c
          <6>1. helper'[d].at = "offline"
            BY <3>1, <5>1
          <6>2. Done(machine', d, "offline", request'[d].settings)
            BY DEF Done
          <6> QED BY <6>1, <6>2
        <5>2. CASE d # c
          BY <2>4, <3>1, <3>2, <3>3, <4>1, <5>2 DEF ArtifactsInv, SetupsDone
        <5> QED BY <5>1, <5>2
      <4> QED BY <4>1 DEF SetupsDone
    <3>8. AloneIsAlone'
      <4>1. ASSUME NEW d \in history'.alone
            PROVE  d = c /\ Others(c) = {}
        BY <3>2
      <4>2. Others(c) = {} /\ ~history.suspect => Settled
        BY <3>3 DEF Settled, Others
      <4>3. Matches => Matches'
        BY <2>4 DEF Matches, Blocks, BlockedPorts
      <4> QED BY <3>1, <3>2, <3>3, <3>4, <4>1, <4>2, <4>3, MatchesWhenSettled
              DEF ArtifactsInv, AloneIsAlone
    <3>9. ClientsKnow'
      BY <2>3, <2>4, <2>5, <3>2 DEF ArtifactsInv, ClientsKnow, Knows, MarkerSuits, MarkerThere
    <3> QED BY <3>5, <3>6, <3>7, <3>8, <3>9 DEF ArtifactsInv
  <2> QED BY <2>6, <2>7
<1>10. CASE StartRefresh(c)
  <2>1. PICK a \in AnyAsker : /\ asker' = [asker EXCEPT ![c] = a]
                              /\ a.at = "refreshing" /\ a.creds = asker[c].creds
    BY <1>10, <1>a, Moves DEF StartRefresh, ClientAt
  <2>2. asker'[c] = a /\ \A d \in Clients \ {c} : asker'[d] = asker[d]
    BY <2>1, <1>a, AskerBecomes
  <2>3. UNCHANGED <<request, machine, history>> /\ helper[c].at = "off"
    BY <1>10, <1>c DEF StartRefresh
  <2>4. /\ helper'[c] = [mode |-> "refresh", at |-> "resolve"]
        /\ \A d \in Clients \ {c} : helper'[d] = helper[d]
    BY <1>10, <1>a DEF StartRefresh, HelpersTyped
  <2>5. \A d \in Clients : InSetup(d)' = InSetup(d)
    BY <2>3, <2>4 DEF InSetup
  <2>6. NotAllPorts' /\ StagesOfMode'
    BY <2>3, <2>4 DEF ArtifactsInv, NotAllPorts, StagesOfMode, Refresh
  <2>7. Matches' = Matches
    BY <2>3 DEF Matches, Blocks, BlockedPorts
  <2>8. ArtifactsMatch'
    BY <2>3, <2>5, <2>7, MatchesWhenSettled, MatchesWhenSettledNext DEF ArtifactsInv, Settled
  <2>9. ~InSetup(c)
    BY <2>3 DEF InSetup
  <2>10. SetupsDone'
    BY <2>3, <2>4, <2>5, <2>9 DEF ArtifactsInv, SetupsDone
  <2>11. \A d \in Clients : Others(d)' = Others(d)
    BY <2>5 DEF Others
  <2>12. AloneIsAlone'
    <3>1. c \notin history.alone /\ history.alone \subseteq Clients
      BY <2>9, <1>a DEF ArtifactsInv, AloneIsAlone, RestTyped
    <3> QED BY <2>3, <2>4, <2>5, <2>7, <2>11, <3>1 DEF ArtifactsInv, AloneIsAlone
  <2>13. c \notin history.disturbed => Knows(c)'
    BY <1>10, <1>b, <2>1, <2>2, <2>3 DEF StartRefresh, Knows, MarkerSuits, MarkerThere
  <2>14. ClientsKnow'
    BY <2>2, <2>3, <2>13 DEF ArtifactsInv, ClientsKnow, Knows, MarkerSuits, MarkerThere
  <2> QED BY <2>6, <2>8, <2>10, <2>12, <2>14 DEF ArtifactsInv
<1> QED BY <1>2, <1>3, <1>4, <1>5, <1>6, <1>7, <1>8, <1>9, <1>10 DEF AskerStep

\* Locking the secrets changes nothing else of the machine (lock_sandbox_dir).
LEMMA LockedKeeps ==
  ASSUME machine \in AnyMachine, NEW c \in Clients
  PROVE  /\ Locked(c) \in AnyMachine
         /\ \A f \in {"accounts", "users", "marker", "udp", "tcp", "block"} :
              Locked(c)[f] = machine[f]
         /\ Locked(c).locked = (machine.locked \/ InSetup(c))
         /\ ~InSetup(c) => Locked(c) = machine
  BY DEF Locked, AnyMachine

\* A machine that differs in its lock alone: what setups have done and what
\* clients know is still there.
LEMMA LockKeeps ==
  ASSUME \A f \in {"accounts", "users", "marker", "udp", "tcp", "block"} : machine'[f] = machine[f],
         machine \in AnyMachine, machine' \in AnyMachine
  PROVE  /\ machine'.accounts = machine.accounts /\ machine'.users = machine.users
         /\ machine'.marker = machine.marker /\ machine'.udp = machine.udp
         /\ machine'.tcp = machine.tcp /\ machine'.block = machine.block
         /\ \A c, at, s : Done(machine, c, at, s) => Done(machine', c, at, s)
<1>1. /\ machine'.accounts = machine.accounts /\ machine'.users = machine.users
      /\ machine'.marker = machine.marker /\ machine'.udp = machine.udp
      /\ machine'.tcp = machine.tcp /\ machine'.block = machine.block
  OBVIOUS
<1>2. ASSUME NEW c, NEW at, NEW s, Done(machine, c, at, s) PROVE Done(machine', c, at, s)
  BY <1>1, <1>2 DEF Done
<1> QED BY <1>1, <1>2

\* A stage of a helper keeps the files true, and nobody else knows anything that
\* it makes untrue (run_setup_full, run_setup_refresh).
LEMMA HelperWorksArtifacts ==
  ASSUME ArtifactsInv, SetupInv, NEW c \in Clients, HelperWorks(c)
  PROVE  ArtifactsInv'
<1>a. AskersTyped /\ HelpersTyped /\ RestTyped /\ helper[c] \in AnyHelper
  BY DEF SetupInv, HelpersTyped
<1>b. Waits(asker[c], helper[c]) /\ helper[c].at # "off"
  BY DEF SetupInv, HelpersMatch, HelperWorks, Full, Refresh
<1>c. request[c] # Absent /\ request[c].settings \in Settings /\ request[c].settings.ports # Ports
  <2>1. request[c] # Absent
    BY <1>b DEF SetupInv, AskersAreThere, Waits
  <2> QED BY <1>a, <2>1 DEF RestTyped, AnyRequest, ArtifactsInv, NotAllPorts
<1>d. UNCHANGED <<request, asker>>
  BY DEF HelperWorks
<1> DEFINE next == After(c, helper[c].at)
<1>1. /\ helper'[c] = [mode |-> helper[c].mode, at |-> next]
      /\ \A d \in Clients \ {c} : helper'[d] = helper[d]
  <2>1. helper' = [helper EXCEPT ![c] = [helper[c] EXCEPT !.at = next]]
    BY <1>a DEF HelperWorks, HelpersTyped
  <2> HIDE DEF next
  <2> QED BY <2>1, <1>a DEF HelpersTyped, AnyHelper
<1>2. NotAllPorts'
  BY <1>d DEF ArtifactsInv, NotAllPorts
<1>3. CASE ~InSetup(c)
  <2>1. helper[c].mode = "refresh" /\ helper[c].at = "resolve" /\ next = "acls"
    BY <1>3, <1>a, <1>b DEF InSetup, AnyHelper, HelperWorks, ArtifactsInv, StagesOfMode, Refresh,
       After
  <2> HIDE DEF next
  <2>2. machine' = machine /\ history' = history
    BY <1>3, <1>a, <2>1 DEF HelperWorks, Staged, RestTyped
  <2>3. \A d \in Clients : InSetup(d)' = InSetup(d) /\ Others(d)' = Others(d)
    BY <1>1, <1>3, <2>1 DEF InSetup, Others
  <2>4. StagesOfMode'
    BY <1>1, <2>1, "acls" \in Refresh DEF ArtifactsInv, StagesOfMode, Refresh
  <2>5. Matches' = Matches
    BY <2>2 DEF Matches, Blocks
  <2>6. ArtifactsMatch'
    BY <2>2, <2>3, <2>5, MatchesWhenSettled, MatchesWhenSettledNext DEF ArtifactsInv, Settled
  <2>7. SetupsDone'
    BY <1>1, <1>3, <1>d, <2>2, <2>3 DEF ArtifactsInv, SetupsDone
  <2>8. AloneIsAlone'
    <3>1. c \notin history.alone /\ history.alone \subseteq Clients
      BY <1>3, <1>a DEF ArtifactsInv, AloneIsAlone, RestTyped
    <3> QED BY <1>1, <2>2, <2>3, <2>5, <3>1 DEF ArtifactsInv, AloneIsAlone
  <2>9. ClientsKnow'
    BY <1>d, <2>2 DEF ArtifactsInv, ClientsKnow, Knows, MarkerSuits, MarkerThere
  <2> QED BY <1>2, <2>4, <2>6, <2>7, <2>8, <2>9 DEF ArtifactsInv
<1>4. CASE InSetup(c)
  <2>1. helper[c].mode = "full" /\ helper[c].at \in Full \ {"acls", "lock"}
    BY <1>4 DEF InSetup, HelperWorks, ArtifactsInv, StagesOfMode
  <2>2. next \in Full \ {"offline"}
    BY <2>1 DEF After, AfterBroad, Full
  <2>3. /\ history'.alone = history.alone /\ history'.suspect = history.suspect
        /\ history'.disturbed = history.disturbed
                                  \cup {d \in Clients \ {c} : asker[d].at # "idle"}
    BY <1>4, <1>a DEF HelperWorks, RestTyped
  <2>4. asker[c].at = "waiting"
    BY <1>b, <2>1 DEF Waits
  <2>5. Done(machine, c, helper[c].at, request[c].settings)
          => Done(machine', c, next, request[c].settings)
    BY <1>a, <1>c, <2>1, StageDone DEF HelperWorks, RestTyped
  <2> HIDE DEF next
  <2>6. InSetup(c)' /\ \A d \in Clients : InSetup(d)' = InSetup(d) /\ Others(d)' = Others(d)
    <3>1. InSetup(c)'
      <4>1. next # "off"
        BY <2>2 DEF Full
      <4> QED BY <1>1, <2>1, <4>1 DEF InSetup
    <3>2. \A d \in Clients : InSetup(d)' = InSetup(d)
      BY <1>1, <1>4, <3>1 DEF InSetup
    <3> QED BY <3>1, <3>2 DEF Others
  <2>7. StagesOfMode'
    BY <1>1, <2>1, <2>2 DEF ArtifactsInv, StagesOfMode
  <2>8. ArtifactsMatch'
    BY <2>6, MatchesWhenSettledNext DEF Settled
  <2>9. \A d \in Clients \ {c} : d \notin history.alone
    BY <1>4 DEF ArtifactsInv, AloneIsAlone, Others
  <2>10. SetupsDone'
    <3>1. ASSUME NEW d \in Clients, InSetup(d), d \in history.alone \/ d \notin history'.disturbed
          PROVE  d = c /\ Done(machine', c, next, request[c].settings)
      <4>1. asker[d].at = "waiting"
        BY <3>1 DEF SetupInv, HelpersMatch, Waits, InSetup
      <4>2. d = c
        BY <2>3, <2>9, <3>1, <4>1
      <4> QED BY <2>3, <2>5, <3>1, <4>2 DEF ArtifactsInv, SetupsDone
    <3> QED BY <1>1, <1>d, <2>3, <2>6, <3>1 DEF SetupsDone
  <2>11. AloneIsAlone'
    <3>1. history.alone \subseteq {c}
      BY <1>a, <2>9 DEF RestTyped
    <3> QED BY <1>1, <2>2, <2>3, <2>6, <3>1 DEF ArtifactsInv, AloneIsAlone
  <2>12. ClientsKnow'
    <3>1. ASSUME NEW d \in Clients, d \notin history'.disturbed
          PROVE  asker[d].at \in {"idle", "waiting"} /\ asker[d].creds = Nobody
      <4>1. asker[d].at \in {"idle", "waiting"} /\ d \notin history.disturbed
        BY <2>3, <2>4, <3>1
      <4> QED BY <4>1 DEF ArtifactsInv, ClientsKnow, Knows
    <3> QED BY <1>d, <3>1 DEF ClientsKnow, Knows
  <2> QED BY <1>2, <2>7, <2>8, <2>10, <2>11, <2>12 DEF ArtifactsInv
<1> QED BY <1>3, <1>4

\* A helper that sets the access lists changes nothing that the files speak of
\* (run_setup_refresh, the read-ACL helper).
LEMMA HelperSetsAclsArtifacts ==
  ASSUME ArtifactsInv, SetupInv, NEW c \in Clients, HelperSetsAcls(c)
  PROVE  ArtifactsInv'
<1>a. HelpersTyped /\ RestTyped /\ helper[c] \in AnyHelper
  BY DEF SetupInv, HelpersTyped
<1>b. UNCHANGED <<request, machine, asker, history>> /\ helper[c].at = "acls"
  BY DEF HelperSetsAcls
<1>1. /\ helper'[c] = [mode |-> helper[c].mode, at |-> "lock"]
      /\ \A d \in Clients \ {c} : helper'[d] = helper[d]
  <2>1. helper' = [helper EXCEPT ![c].at = "lock"]
    BY DEF HelperSetsAcls, After
  <2>2. helper' = [helper EXCEPT ![c] = [helper[c] EXCEPT !.at = "lock"]]
    BY <2>1, <1>a DEF HelpersTyped
  <2> QED BY <2>2, <1>a DEF HelpersTyped, AnyHelper
<1>2. NotAllPorts'
  BY <1>b DEF ArtifactsInv, NotAllPorts
<1>3. StagesOfMode'
  <2>1. "lock" \in Full /\ "lock" \in Refresh
    BY DEF Full, Refresh
  <2>2. helper'[c].at = "lock"
    BY <1>1
  <2> QED BY <1>1, <2>1, <2>2 DEF ArtifactsInv, StagesOfMode
<1>4. \A d \in Clients : InSetup(d)' = InSetup(d)
  BY <1>1, <1>b DEF InSetup
<1>5. \A d \in Clients : Others(d)' = Others(d)
  BY <1>4 DEF Others
<1>6. Matches' = Matches
  BY <1>b DEF Matches, Blocks
<1>7. ArtifactsMatch'
  BY <1>b, <1>4, <1>6, MatchesWhenSettled, MatchesWhenSettledNext DEF ArtifactsInv, Settled
<1>8. SetupsDone'
  <2>1. \A s : Done(machine, c, "acls", s) => Done(machine', c, "lock", s)
    BY <1>b DEF Done
  <2> QED BY <1>1, <1>b, <1>4, <2>1 DEF ArtifactsInv, SetupsDone
<1>9. AloneIsAlone'
  <2>1. history.alone \subseteq Clients
    BY <1>a DEF RestTyped
  <2> QED BY <1>1, <1>b, <1>4, <1>5, <1>6, <2>1 DEF ArtifactsInv, AloneIsAlone
<1>10. ClientsKnow'
  BY <1>b DEF ArtifactsInv, ClientsKnow, Knows, MarkerSuits, MarkerThere
<1> QED BY <1>2, <1>3, <1>7, <1>8, <1>9, <1>10 DEF ArtifactsInv

\* What the end of a helper has to show: what its client knows, and that after a
\* setup the files are true or the setup is suspect.
LEMMA HelperOffArtifacts ==
  ASSUME ArtifactsInv, SetupInv, NEW c \in Clients, helper[c].at # "off",
         helper' = [helper EXCEPT ![c].at = "off"], request' = request,
         machine' \in {machine, Locked(c)},
         NEW a \in AnyAsker, asker' = [asker EXCEPT ![c] = a],
         c \notin history.disturbed => Knows(c)',
         history'.disturbed = history.disturbed,
         ~InSetup(c) => history' = history,
         InSetup(c) => /\ history'.alone = history.alone \ {c}
                       /\ ~history'.suspect => Matches'
  PROVE  ArtifactsInv'
<1>a. AskersTyped /\ HelpersTyped /\ RestTyped /\ machine \in AnyMachine
  BY DEF SetupInv, RestTyped
<1>1. helper'[c].at = "off" /\ \A d \in Clients \ {c} : helper'[d] = helper[d]
  <2>1. helper' = [helper EXCEPT ![c] = [helper[c] EXCEPT !.at = "off"]]
    BY <1>a DEF HelpersTyped
  <2>2. [helper[c] EXCEPT !.at = "off"].at = "off"
    BY <1>a DEF HelpersTyped, AnyHelper
  <2> QED BY <2>1, <2>2, <1>a DEF HelpersTyped
<1>2. asker'[c] = a /\ \A d \in Clients \ {c} : asker'[d] = asker[d]
  BY <1>a, AskerBecomes
<1>3. /\ machine'.accounts = machine.accounts /\ machine'.users = machine.users
      /\ machine'.marker = machine.marker /\ machine'.udp = machine.udp
      /\ machine'.tcp = machine.tcp /\ machine'.block = machine.block
      /\ \A d, at, s : Done(machine, d, at, s) => Done(machine', d, at, s)
  <2>1. Locked(c) \in AnyMachine
        /\ \A f \in {"accounts", "users", "marker", "udp", "tcp", "block"} :
             Locked(c)[f] = machine[f]
    BY <1>a, LockedKeeps
  <2>2. /\ machine' \in AnyMachine
        /\ \A f \in {"accounts", "users", "marker", "udp", "tcp", "block"} :
             machine'[f] = machine[f]
    BY <1>a, <2>1
  <2> HIDE DEF Done
  <2> QED BY <1>a, <2>2, LockKeeps
<1>4. NotAllPorts' /\ StagesOfMode'
  BY <1>1 DEF ArtifactsInv, NotAllPorts, StagesOfMode
<1>5. ~InSetup(c)' /\ \A d \in Clients \ {c} : InSetup(d)' = InSetup(d)
  BY <1>1 DEF InSetup
<1>6. ClientsKnow'
  BY <1>2, <1>3 DEF ArtifactsInv, ClientsKnow, Knows, MarkerSuits, MarkerThere
<1>7. CASE ~InSetup(c)
  <2>1. history' = history /\ machine' = machine
    BY <1>7, <1>a, LockedKeeps
  <2>2. \A d \in Clients : InSetup(d)' = InSetup(d) /\ Others(d)' = Others(d)
    <3>1. \A d \in Clients : InSetup(d)' = InSetup(d)
      BY <1>1, <1>7 DEF InSetup
    <3> QED BY <3>1 DEF Others
  <2>3. Matches' = Matches
    BY <2>1 DEF Matches, Blocks
  <2>4. ArtifactsMatch'
    BY <2>1, <2>2, <2>3, MatchesWhenSettled, MatchesWhenSettledNext DEF ArtifactsInv, Settled
  <2>5. SetupsDone'
    BY <1>1, <1>3, <1>7, <2>1, <2>2 DEF ArtifactsInv, SetupsDone
  <2>6. AloneIsAlone'
    <3>1. c \notin history.alone /\ history.alone \subseteq Clients
      BY <1>7, <1>a DEF ArtifactsInv, AloneIsAlone, RestTyped
    <3> QED BY <1>1, <2>1, <2>2, <2>3, <3>1 DEF ArtifactsInv, AloneIsAlone
  <2> QED BY <1>4, <1>6, <2>4, <2>5, <2>6 DEF ArtifactsInv
<1>8. CASE InSetup(c)
  <2>1. ArtifactsMatch'
    BY <1>8, MatchesWhenSettledNext DEF Settled
  <2>2. history'.alone \subseteq history.alone /\ history'.alone \subseteq Clients \ {c}
    BY <1>8, <1>a DEF RestTyped
  <2>3. SetupsDone'
    BY <1>1, <1>3, <1>5, <2>2 DEF ArtifactsInv, SetupsDone
  <2>4. history'.alone = {}
    <3>1. \A d \in history.alone : d = c
      BY <1>8, <1>a DEF ArtifactsInv, AloneIsAlone, Others, RestTyped
    <3> QED BY <1>8, <3>1
  <2>5. AloneIsAlone'
    BY <2>4 DEF AloneIsAlone
  <2> QED BY <1>4, <1>6, <2>1, <2>3, <2>5 DEF ArtifactsInv
<1> QED BY <1>7, <1>8

\* A helper that succeeds leaves files that are true, if it ran alone, and a
\* client that knows what it wrote (run_setup_full, run_elevated_setup).
LEMMA HelperSucceedsArtifacts ==
  ASSUME ArtifactsInv, SetupInv, NEW c \in Clients, HelperSucceeds(c)
  PROVE  ArtifactsInv'
<1>a. AskersTyped /\ HelpersTyped /\ RestTyped /\ machine \in AnyMachine /\ asker[c] \in AnyAsker
  BY DEF SetupInv, RestTyped, AskersTyped
<1>b. /\ helper[c].at = "lock" /\ helper' = [helper EXCEPT ![c].at = "off"]
      /\ request' = request /\ machine' = Locked(c)
  BY DEF HelperSucceeds
<1>c. Waits(asker[c], helper[c]) /\ (c \notin history.disturbed => Knows(c))
  BY DEF SetupInv, HelpersMatch, ArtifactsInv, ClientsKnow
<1>1. CASE ~InSetup(c)
  <2>1. machine' = machine
    BY <1>1, <1>a, <1>b, LockedKeeps
  <2>2. asker[c].at = "refreshing"
    BY <1>1, <1>a, <1>b, <1>c DEF InSetup, Waits, HelpersTyped, AnyHelper
  <2>3. PICK a \in AnyAsker : /\ asker' = [asker EXCEPT ![c] = a] /\ a.creds = asker[c].creds
                              /\ a.at = IF asker[c].creds = Nobody THEN "failed" ELSE "ready"
    BY <1>1, <1>a, Moves DEF HelperSucceeds, ClientAt
  <2>4. asker'[c] = a
    BY <2>3, <1>a, AskerBecomes
  <2>5. c \notin history.disturbed => Knows(c)'
    BY <1>b, <1>c, <2>1, <2>2, <2>3, <2>4 DEF Knows, MarkerSuits, MarkerThere
  <2>6. history' = history
    BY <1>1 DEF HelperSucceeds
  <2> QED BY <1>1, <1>b, <2>1, <2>3, <2>5, <2>6, HelperOffArtifacts
<1>2. CASE InSetup(c)
  <2>1. asker[c].at = "waiting" /\ request[c] # Absent
    BY <1>2, <1>b, <1>c DEF InSetup, Waits, SetupInv, AskersAreThere
  <2>2. request[c].settings \in Settings
    BY <1>a, <2>1 DEF RestTyped, AnyRequest
  <2> DEFINE a == [asker[c] EXCEPT !.at = "identify", !.again = TRUE]
  <2>3. asker' = [asker EXCEPT ![c] = a]
    BY <1>2, <1>a DEF HelperSucceeds, AskersTyped
  <2>4. a \in AnyAsker /\ a.at = "identify" /\ a.creds = asker[c].creds
    BY <1>a DEF AnyAsker, ClientAt
  <2> HIDE DEF a
  <2>5. asker'[c] = a
    BY <2>3, <2>4, <1>a, AskerBecomes
  <2>6. /\ history'.disturbed = history.disturbed /\ history'.alone = history.alone \ {c}
        /\ history'.suspect = (c \notin history.alone)
    BY <1>2, <1>a DEF HelperSucceeds, RestTyped
  <2>7. c \in history.alone \/ c \notin history.disturbed
          => Done(machine, c, "lock", request[c].settings)
    BY <1>2, <1>b DEF ArtifactsInv, SetupsDone
  <2>8. /\ machine' \in AnyMachine /\ machine'.locked
        /\ Done(machine, c, "lock", request[c].settings)
             => Done(machine', c, "lock", request[c].settings)
    <3>1. Locked(c) = [machine EXCEPT !.locked = TRUE]
      BY <1>2 DEF Locked
    <3>2. machine' = [machine EXCEPT !.locked = TRUE]
      BY <1>b, <3>1
    <3>3. machine' \in AnyMachine /\ machine'.locked
      BY <1>a, <3>2 DEF AnyMachine
    <3>4. \A f \in {"accounts", "users", "marker", "udp", "tcp", "block"} : machine'[f] = machine[f]
      BY <1>a, <1>b, LockedKeeps
    <3> QED BY <1>a, <3>3, <3>4, LockKeeps
  <2>9. ~history'.suspect => Matches'
    <3>1. SUFFICES ASSUME Done(machine', c, "lock", request[c].settings) PROVE Matches'
      BY <2>6, <2>7, <2>8
    <3> QED BY <2>2, <2>8, <3>1, DoneMatchesNext
  <2>10. c \notin history.disturbed => Knows(c)'
    <3>1. SUFFICES ASSUME c \notin history.disturbed PROVE Knows(c)'
      OBVIOUS
    <3>2. machine'.marker = [state |-> "ok", settings |-> request[c].settings]
      BY <2>7, <2>8, <3>1 DEF Done
    <3>3. asker[c].creds = Nobody
      BY <1>c, <2>1, <3>1 DEF Knows
    <3>4. MarkerSuits(c)'
      BY <1>b, <3>2 DEF MarkerSuits, MarkerThere
    <3> QED BY <2>4, <2>5, <3>3, <3>4 DEF Knows
  <2> QED BY <1>2, <1>b, <2>3, <2>4, <2>6, <2>9, <2>10, HelperOffArtifacts
<1> QED BY <1>1, <1>2

\* A helper that stops early leaves things as they were, or locked, or a setup
\* that is suspect (run_setup_full's errors, report_helper_failure).
LEMMA HelperStopsArtifacts ==
  ASSUME ArtifactsInv, SetupInv, NEW c \in Clients, HelperStops(c)
  PROVE  ArtifactsInv'
<1>a. AskersTyped /\ HelpersTyped /\ RestTyped /\ machine \in AnyMachine /\ asker[c] \in AnyAsker
  BY DEF SetupInv, RestTyped, AskersTyped
<1>b. /\ helper[c].at # "off" /\ helper' = [helper EXCEPT ![c].at = "off"] /\ request' = request
      /\ machine' \in IF helper[c].at = "lock" THEN {machine, Locked(c)} ELSE {machine}
  BY DEF HelperStops
<1>c. Waits(asker[c], helper[c]) /\ (c \notin history.disturbed => Knows(c))
  BY DEF SetupInv, HelpersMatch, ArtifactsInv, ClientsKnow
<1>1. PICK a \in AnyAsker : /\ asker' = [asker EXCEPT ![c] = a] /\ a.creds = asker[c].creds
                            /\ a.at = IF InSetup(c) THEN "report" ELSE "failed"
  BY <1>a, Moves DEF HelperStops, ClientAt
<1>2. asker'[c] = a
  BY <1>1, <1>a, AskerBecomes
<1>3. CASE ~InSetup(c)
  <2>1. machine' = machine
    BY <1>3, <1>a, <1>b, LockedKeeps
  <2>2. c \notin history.disturbed => Knows(c)'
    BY <1>3, <1>b, <1>c, <1>1, <1>2, <2>1 DEF Knows
  <2>3. history' = history
    BY <1>3 DEF HelperStops
  <2> QED BY <1>3, <1>b, <1>1, <2>1, <2>2, <2>3, HelperOffArtifacts
<1>4. CASE InSetup(c)
  <2>1. asker[c].at = "waiting" /\ request[c] # Absent
    BY <1>4, <1>b, <1>c DEF InSetup, Waits, SetupInv, AskersAreThere
  <2>2. request[c].settings \in Settings
    BY <1>a, <2>1 DEF RestTyped, AnyRequest
  <2>3. c \notin history.disturbed => Knows(c)'
    BY <1>4, <1>c, <1>1, <1>2, <2>1 DEF Knows
  <2>4. /\ history'.disturbed = history.disturbed /\ history'.alone = history.alone \ {c}
        /\ history'.suspect = (history.suspect \/ c \notin history.alone \/ HalfWay(c))
    BY <1>4, <1>a DEF HelperStops, RestTyped
  <2>5. ASSUME ~history'.suspect PROVE Matches'
    <3>1. ~history.suspect /\ c \in history.alone /\ ~HalfWay(c)
      BY <2>4, <2>5
    <3>2. CASE helper[c].at = "offline"
      <4>1. machine' = machine
        BY <1>b, <3>2
      <4>2. Matches
        BY <3>1, <3>2 DEF ArtifactsInv, AloneIsAlone
      <4> QED BY <4>1, <4>2 DEF Matches, Blocks
    <3>3. CASE helper[c].at \in {"acls", "lock"}
      <4>1. machine.locked /\ Locked(c).locked
        BY <1>4, <1>a, <3>1, <3>3, LockedKeeps DEF HalfWay
      <4>2. /\ machine' \in AnyMachine /\ machine'.locked
            /\ \A f \in {"accounts", "users", "marker", "udp", "tcp", "block"} :
                 machine'[f] = machine[f]
        BY <1>a, <1>b, <4>1, LockedKeeps
      <4>3. Done(machine, c, helper[c].at, request[c].settings)
        BY <1>4, <3>1 DEF ArtifactsInv, SetupsDone
      <4>4. Done(machine', c, helper[c].at, request[c].settings)
        BY <1>a, <4>2, <4>3, LockKeeps
      <4> QED BY <2>2, <3>3, <4>2, <4>4, DoneMatchesNext
    <3> QED BY <3>1, <3>2, <3>3 DEF HalfWay
  <2>6. machine' \in {machine, Locked(c)}
    BY <1>b
  <2> QED BY <1>4, <1>b, <1>1, <2>3, <2>4, <2>5, <2>6, HelperOffArtifacts
<1> QED BY <1>3, <1>4

\* The setup keeps its files true.
LEMMA ArtifactsStepInv == ArtifactsInv /\ SetupInv /\ [SetupNext]_setupVars => ArtifactsInv'
<1> SUFFICES ASSUME ArtifactsInv, SetupInv, [SetupNext]_setupVars PROVE ArtifactsInv'
  OBVIOUS
<1>1. ASSUME UNCHANGED <<request, machine, asker, helper, history>> PROVE ArtifactsInv'
  <2>1. NotAllPorts' /\ StagesOfMode' /\ SetupsDone' /\ AloneIsAlone' /\ ClientsKnow'
    BY <1>1 DEF ArtifactsInv, NotAllPorts, StagesOfMode, SetupsDone, InSetup, AloneIsAlone,
       Others, Matches, Blocks, ClientsKnow, Knows, MarkerSuits, MarkerThere
  <2>2. ArtifactsMatch'
    BY <1>1 DEF ArtifactsInv, ArtifactsMatch, Settled, InSetup, Blocks
  <2> QED BY <2>1, <2>2 DEF ArtifactsInv
<1>2. CASE ReaderEnds
  BY <1>1, <1>2 DEF ReaderEnds
<1>3. ASSUME NEW c \in Clients, AskerStep(c) PROVE ArtifactsInv'
  BY <1>3, AskerStepArtifacts
<1>4. ASSUME NEW c \in Clients, HelperStep(c) PROVE ArtifactsInv'
  BY <1>4, HelperWorksArtifacts, HelperSetsAclsArtifacts, HelperSucceedsArtifacts,
     HelperStopsArtifacts DEF HelperStep
<1>5. CASE UNCHANGED setupVars
  BY <1>1, <1>5 DEF setupVars
<1> QED BY <1>2, <1>3, <1>4, <1>5 DEF SetupNext

\* At the start nobody has read or done anything.
LEMMA ArtifactsInitInv == Init /\ ArtifactsMatch /\ NotAllPorts => ArtifactsInv
  BY DEF Init, SetupInit, ArtifactsInv, StagesOfMode, SetupsDone, InSetup, AloneIsAlone,
     ClientsKnow, Knows

\* On a machine that matches its files to begin with, the invariant holds always.
THEOREM ArtifactsAlwaysInv == Spec /\ ArtifactsMatch /\ NotAllPorts => [](ArtifactsInv /\ SetupInv)
<1>1. Init /\ ArtifactsMatch /\ NotAllPorts => ArtifactsInv /\ SetupInv
  BY ArtifactsInitInv, SetupInitInv DEF Init
<1>2. ArtifactsInv /\ SetupInv /\ [Next]_vars => (ArtifactsInv /\ SetupInv)'
  BY ArtifactsStepInv, SetupStepInv, SandboxStepOfSetup
<1> QED BY <1>1, <1>2, PTL DEF Spec

\* What the users file, the marker, the firewall and the lock say of each other
\* stays true, unless a setup was cut short or met another one: for any number of
\* clients, in whatever order their setups come, fail and are repeated, if it is
\* true to begin with and nobody asks for all ports (write_secrets,
\* ensure_offline_proxy_allowlist, lock_sandbox_dir).
THEOREM FilesStayTrue == Spec /\ ArtifactsMatch /\ NotAllPorts => []ArtifactsMatch
<1>1. ArtifactsInv => ArtifactsMatch
  BY DEF ArtifactsInv
<1> QED BY <1>1, ArtifactsAlwaysInv, PTL

\* Under the same assumptions a client that is ready can log on, and the firewall
\* is the one it asked for, unless another setup disturbed it or one was cut short
\* (require_logon_sandbox_creds).
THEOREM ReadyIsReady == Spec /\ ArtifactsMatch /\ NotAllPorts => []ReadyMeansReady
<1>1. ArtifactsInv /\ SetupInv => ReadyMeansReady
  <2> SUFFICES ASSUME ArtifactsInv, SetupInv, NEW c \in Clients, asker[c].at = "ready",
                      c \notin history.disturbed, Settled
               PROVE  /\ asker[c].creds = machine.accounts[request[c].identity]
                      /\ request[c].identity = "offline" => Blocks(request[c].settings)
    BY DEF ReadyMeansReady
  <2>1. Matches /\ Knows(c)
    BY MatchesWhenSettled DEF ArtifactsInv, ClientsKnow
  <2>2. request[c].identity \in {"offline", "online"}
    <3>1. request[c] # Absent
      BY DEF SetupInv, AskersAreThere
    <3> QED BY <3>1 DEF SetupInv, RestTyped, AnyRequest
  <2>3. asker[c].creds = machine.accounts[request[c].identity]
    BY <2>1, <2>2 DEF Matches, Knows
  <2>4. request[c].identity = "offline" => Blocks(request[c].settings)
    BY <2>1 DEF Matches, Knows, MarkerSuits, MarkerThere
  <2> QED BY <2>3, <2>4
<1> QED BY <1>1, ArtifactsAlwaysInv, PTL
=============================================================================
