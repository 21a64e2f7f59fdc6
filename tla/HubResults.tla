----------------------------- MODULE HubResults -----------------------------
(***************************************************************************)
(* The conversation with the Hub: login, logout and the requests of        *)
(* hubserver.go, and the operations made of them, each in a session of its *)
(* own:                                                                    *)
(*   "config"    Arbiter.ValidateConfig                                    *)
(*   "validate"  ValidateGetProjectVersion                                 *)
(*   "scan"      ScanResults, which polls until the scan is complete       *)
(*   "version"   ScanImage.versionResults and ProjectVersionResults        *)
(*   "pod"       GetScanResultsFromProjectVersion                          *)
(*                                                                         *)
(* The Hub, which is not in this repository, has one project version and   *)
(* one scan of it.  Both can disappear at any time, and the counts of the  *)
(* version change.  Requests and replies get lost, replies are garbled,    *)
(* sessions expire.                                                        *)
(***************************************************************************)
EXTENDS Integers

CONSTANTS
    Client,     \* workers of the arbiter and of the controllers
    Count,      \* counts of vulnerabilities and of violations
    MaxFaults,  \* bound on requests that fail
    MaxChanges, \* bound on changes of the version's counts
    None

ASSUME HubAssumption ==
    /\ 0 \in Count /\ None \notin Count
    /\ MaxFaults \in Nat /\ MaxChanges \in Nat

VARIABLES
    client,     \* where each client stands in its operation
    open,       \* how many sessions of each client the Hub has open
    lost,       \* history: how often each client lost a login, a logout, a cookie or its life
    status,     \* the status of the scan, None if there is no summary
    version,    \* the project version, NoVersion if there is none
    faults, changes

hubVars == <<status, version>>

vars == <<client, open, lost, hubVars, faults, changes>>

Operation == {"config", "validate", "scan", "version", "pod"}

Link == {"riskProfile", "policy-status"}

\* Of the statuses ScanResults does not know, "" stands for those that last.
Errors == {"ERROR", "CANCELLED"}

Status == {"SCANNING", "COMPLETE", ""} \cup Errors

Final == {"COMPLETE", None} \cup Errors

\* policy is None if the policy status has no item IN_VIOLATION.
Version == [links : SUBSET Link, vulns : Count, policy : Count \cup {None}]

NoVersion == [links |-> {}, vulns |-> None, policy |-> None]

\* session: the cookie in the client's jar is good for nothing if the session
\* has expired or another cookie has replaced it.  todo: links still to follow.
\* found: counts read so far.  result: what the operation returns.  failed:
\* history, some request of the operation got no proper answer.
ClientState ==
    [pc : {"idle", "login", "summary", "poll", "codelocation", "projects",
           "versions", "version", "links", "logout"},
     op : Operation \cup {None}, session : {"none", "good", "bad"},
     todo : SUBSET Link, found : SUBSET Link,
     vulns : Count, violations : Count,
     result : {"none", "ok", "error"}, failed : BOOLEAN]

Idle ==
    [pc |-> "idle", op |-> None, session |-> "none", todo |-> {}, found |-> {},
     vulns |-> 0, violations |-> 0, result |-> "none", failed |-> FALSE]

Init ==
    /\ client = [c \in Client |-> Idle]
    /\ open = [c \in Client |-> 0]
    /\ lost = [c \in Client |-> 0]
    /\ status \in Status
    /\ version \in Version
    /\ faults = MaxFaults
    /\ changes = MaxChanges

-----------------------------------------------------------------------------
(***************************************************************************)
(* Sessions.                                                               *)
(***************************************************************************)

At(c, pc) == client[c].pc = pc

Fault ==
    /\ faults > 0
    /\ faults' = faults - 1

NoFault == UNCHANGED faults

SessionFault(c) ==
    /\ Fault
    /\ lost' = [lost EXCEPT ![c] = @ + 1]

\* NewHubServer.
Call(c, o) ==
    /\ At(c, "idle")
    /\ client' = [client EXCEPT ![c] = [Idle EXCEPT !.pc = "login", !.op = o]]
    /\ UNCHANGED <<open, lost, hubVars, faults, changes>>

FirstRequest(o) ==
    CASE o = "config" -> "logout"
      [] o = "scan"   -> "summary"
      [] o = "pod"    -> "projects"
      [] OTHER        -> "version"

Login(c) ==
    /\ At(c, "login")
    /\ NoFault
    /\ open' = [open EXCEPT ![c] = @ + 1]
    /\ client' = [client EXCEPT ![c].pc = FirstRequest(client[c].op), ![c].session = "good",
            ![c].result = IF client[c].op = "config" THEN "ok" ELSE "none"]
    /\ UNCHANGED <<lost, hubVars, changes>>

\* The Hub refuses, or its reply is lost and with it the cookie.  Only
\* ValidateConfig has deferred Logout already.
LoginFails(c) ==
    /\ At(c, "login")
    /\ SessionFault(c)
    /\ open' \in {open, [open EXCEPT ![c] = @ + 1]}
    /\ client' = [client EXCEPT ![c].pc = IF client[c].op = "config" THEN "logout" ELSE "idle",
                                ![c].result = "error", ![c].failed = TRUE]
    /\ UNCHANGED <<hubVars, changes>>

Logout(c) ==
    /\ At(c, "logout")
    /\ NoFault
    /\ open' = [open EXCEPT ![c] = IF client[c].session = "good" THEN @ - 1 ELSE @]
    /\ client' = [client EXCEPT ![c].pc = "idle", ![c].session = "none"]
    /\ UNCHANGED <<lost, hubVars, changes>>

\* The result of Logout is not looked at.
LogoutFails(c) ==
    /\ At(c, "logout")
    /\ SessionFault(c)
    /\ client' = [client EXCEPT ![c].pc = "idle", ![c].session = "none"]
    /\ UNCHANGED <<open, hubVars, changes>>

\* The client's process dies, for one because another of its goroutines has
\* found a positive TotalCount and no items in the reply to a search, and
\* panics: it closes its own session on its way out, as if the reply were
\* garbled, but the others have no time to.
ProcessDies(c) ==
    /\ ~At(c, "idle")
    /\ SessionFault(c)
    /\ open' \in {open, [open EXCEPT ![c] = IF At(c, "login") THEN @ + 1 ELSE @]}
    /\ client' = [client EXCEPT ![c] = Idle]
    /\ UNCHANGED <<hubVars, changes>>

\* The Hub closes the client's session, or one that nobody will close.
SessionExpires(c) ==
    \/ /\ client[c].session = "good"
       /\ client' = [client EXCEPT ![c].session = "bad"]
       /\ open' = [open EXCEPT ![c] = @ - 1]
       /\ UNCHANGED <<lost, hubVars, faults, changes>>
    \/ /\ open[c] > IF client[c].session = "good" THEN 1 ELSE 0
       /\ open' = [open EXCEPT ![c] = @ - 1]
       /\ UNCHANGED <<client, lost, hubVars, faults, changes>>

\* SetCookies keeps the cookies of the last reply that has any.
CookieReplaced(c) ==
    /\ client[c].session = "good"
    /\ SessionFault(c)
    /\ client' = [client EXCEPT ![c].session = "bad"]
    /\ UNCHANGED <<open, hubVars, changes>>

-----------------------------------------------------------------------------
(***************************************************************************)
(* Requests.                                                               *)
(***************************************************************************)

\* Mutant: the operation returns its error before Logout is deferred.
FailsAtOnce(c) == [client[c] EXCEPT !.pc = "idle", !.result = "error", !.failed = TRUE]

\* The operation returns an error, and the deferred Logout runs.
Fails(c) == [client[c] EXCEPT !.pc = "logout", !.result = "error", !.failed = TRUE]

\* A request that gets no proper answer: it or the reply is lost, the session
\* is no good, what it asks for is not in the Hub, or the reply is garbled.
\* The Get functions return false; the Find functions return an empty list,
\* which their caller takes for an error as well.
RequestFails(c, there) ==
    /\ \/ client[c].session = "bad" /\ NoFault
       \/ ~there /\ NoFault
       \/ Fault
    /\ client' = [client EXCEPT ![c] = Fails(c)]
    /\ UNCHANGED <<open, lost, hubVars, changes>>

\* A request that is answered.
Answered(c, there, next) ==
    /\ client[c].session = "good"
    /\ there
    /\ client' = [client EXCEPT ![c] = next]
    /\ UNCHANGED <<open, lost, hubVars, faults, changes>>

GetScanSummary(c) ==
    /\ At(c, "summary")
    /\ \/ RequestFails(c, status # None)
       \/ Answered(c, status # None,
            [client[c] EXCEPT !.pc = IF status = "COMPLETE" THEN "codelocation" ELSE "poll"])

\* Mutant: a final status other than COMPLETE is waited for as well.
AfterPollPatient(c) ==
    [client[c] EXCEPT !.pc = IF status = "COMPLETE" THEN "codelocation" ELSE "poll"]

AfterPoll(c) ==
    IF status \in Errors
    THEN [client[c] EXCEPT !.pc = "logout", !.result = "error"]
    ELSE [client[c] EXCEPT !.pc = IF status = "COMPLETE" THEN "codelocation" ELSE "poll"]

\* The loop of ScanResults, once a minute.
PollScanSummary(c) ==
    /\ At(c, "poll")
    /\ \/ RequestFails(c, status # None)
       \/ Answered(c, status # None, AfterPoll(c))

InHub == version # NoVersion

\* The link to the code location, and its mapped project version.
GetCodeLocation(c) ==
    /\ At(c, "codelocation")
    /\ \/ RequestFails(c, InHub /\ status # None)
       \/ Answered(c, InHub /\ status # None, [client[c] EXCEPT !.pc = "version"])

FindProjects(c) ==
    /\ At(c, "projects")
    /\ \/ RequestFails(c, InHub)
       \/ Answered(c, InHub, [client[c] EXCEPT !.pc = "versions"])

FindProjectVersions(c) ==
    /\ At(c, "versions")
    /\ \/ RequestFails(c, InHub)
       \/ Answered(c, InHub, [client[c] EXCEPT !.pc = "version"])

GetProjectVersion(c) ==
    /\ At(c, "version")
    /\ \/ RequestFails(c, InHub)
       \/ Answered(c, InHub,
            IF client[c].op = "validate"
            THEN [client[c] EXCEPT !.pc = "logout", !.result = "ok"]
            ELSE [client[c] EXCEPT !.pc = "links", !.todo = version.links])

\* Mutant: a risk profile that could not be loaded counts as one without
\* vulnerabilities.
GetRiskProfileUnchecked(c) ==
    /\ At(c, "links") /\ "riskProfile" \in client[c].todo
    /\ \/ /\ Fault
          /\ client' = [client EXCEPT ![c].todo = @ \ {"riskProfile"}, ![c].failed = TRUE]
          /\ UNCHANGED <<open, lost, hubVars, changes>>
       \/ Answered(c, InHub,
            [client[c] EXCEPT !.todo = @ \ {"riskProfile"}, !.vulns = version.vulns,
                              !.found = @ \cup {"riskProfile"}])

GetRiskProfile(c) ==
    /\ At(c, "links") /\ "riskProfile" \in client[c].todo
    /\ \/ RequestFails(c, InHub)
       \/ Answered(c, InHub,
            [client[c] EXCEPT !.todo = @ \ {"riskProfile"}, !.vulns = version.vulns,
                              !.found = @ \cup {"riskProfile"}])

\* Mutant: the item IN_VIOLATION is not looked for.
GetPolicyStatusUnnamed(c) ==
    /\ At(c, "links") /\ "policy-status" \in client[c].todo
    /\ \/ RequestFails(c, InHub)
       \/ Answered(c, InHub,
            [client[c] EXCEPT !.todo = @ \ {"policy-status"}, !.violations = version.policy,
                              !.found = @ \cup {"policy-status"}])

GetPolicyStatus(c) ==
    /\ At(c, "links") /\ "policy-status" \in client[c].todo
    /\ \/ RequestFails(c, InHub)
       \/ Answered(c, InHub,
            IF version.policy = None
            THEN [client[c] EXCEPT !.todo = @ \ {"policy-status"}]
            ELSE [client[c] EXCEPT !.todo = @ \ {"policy-status"}, !.violations = version.policy,
                                   !.found = @ \cup {"policy-status"}])

\* All links are followed.  Pods need one count at least; images do not.
Return(c) ==
    /\ At(c, "links") /\ client[c].todo = {}
    /\ client' = [client EXCEPT ![c].pc = "logout",
            ![c].result = IF client[c].op = "pod" /\ client[c].found = {} THEN "error" ELSE "ok"]
    /\ UNCHANGED <<open, lost, hubVars, faults, changes>>

-----------------------------------------------------------------------------
(***************************************************************************)
(* The Hub.                                                                *)
(***************************************************************************)

\* A scan ends, gets stuck in a status ScanResults does not know, or is
\* deleted with its code location.
ScanChanges ==
    /\ status' \in IF status = "SCANNING" THEN (Status \cup {None}) \ {status}
                  ELSE {None} \ {status}
    /\ UNCHANGED <<client, open, lost, version, faults, changes>>

CountsChange ==
    /\ InHub
    /\ changes > 0
    /\ changes' = changes - 1
    /\ version' \in {v \in Version : v.links = version.links} \ {version}
    /\ UNCHANGED <<client, open, lost, status, faults>>

VersionDeleted ==
    /\ InHub
    /\ version' = NoVersion
    /\ UNCHANGED <<client, open, lost, status, faults, changes>>

ClientRuns(c) ==
    \/ Login(c) \/ LoginFails(c)
    \/ GetScanSummary(c) \/ PollScanSummary(c) \/ GetCodeLocation(c)
    \/ FindProjects(c) \/ FindProjectVersions(c) \/ GetProjectVersion(c)
    \/ GetRiskProfile(c) \/ GetPolicyStatus(c) \/ Return(c)
    \/ Logout(c) \/ LogoutFails(c)

Next ==
    \/ \E c \in Client :
        \/ \E o \in Operation : Call(c, o)
        \/ ClientRuns(c)
        \/ SessionExpires(c)
        \/ CookieReplaced(c)
        \/ ProcessDies(c)
    \/ ScanChanges
    \/ CountsChange
    \/ VersionDeleted

Spec == Init /\ [][Next]_vars

\* Every request ends: hangtimeBeforeTimingOutOnTheHub.  No request has to
\* fail, and a scan need not end.
FairSpec == Spec /\ \A c \in Client : WF_vars(NoFault /\ ClientRuns(c))

-----------------------------------------------------------------------------

\* Type invariant.
TypeOK ==
    /\ client \in [Client -> ClientState]
    /\ open \in [Client -> Nat]
    /\ lost \in [Client -> 0..MaxFaults]
    /\ status \in Status \cup {None}
    /\ version \in Version \cup {NoVersion}
    /\ faults \in 0..MaxFaults
    /\ changes \in 0..MaxChanges

\* "Note an explicit logout is required" (hubserver.go, Login): whatever an
\* operation meets on its way, it leaves no session behind in the Hub, but for
\* those whose login, logout or cookie got lost or whose process died.
NoSessionLeak ==
    \A c \in Client : At(c, "idle") => open[c] <= lost[c]

\* An operation returns results only if every request it made was answered: a
\* request that failed never passes for a count of zero.  (A version without a
\* link to its risk profile does, since nothing is asked then.)
NoFalseClean ==
    \A c \in Client : client[c].result = "ok" => ~client[c].failed

\* Every operation returns, unless it polls for a scan that stays in a status
\* which is neither COMPLETE nor an error.
ResultsReturn ==
    \A c \in Client :
        \/ []<>At(c, "idle")
        \/ <>[](At(c, "poll") /\ status \notin Final)
=============================================================================
