-------------------------- MODULE HubResultsProofs --------------------------
(***************************************************************************)
(* Theorems about HubResults, for any set of clients, any counts and any   *)
(* number of faults and changes.                                           *)
(***************************************************************************)
EXTENDS HubResults, TLAPS

\* The sessions a client in state s can still close: its own, if its cookie is
\* good for one.
Held(s) == IF s.session = "good" THEN 1 ELSE 0

\* Of o sessions the Hub has open, one is the client's own if its cookie is
\* good, and the others are among the l that got lost.
Sessions(s, o, l) == Held(s) <= o /\ o <= l + Held(s)

\* There is no session before login and after logout.
NoneHeld(s) == s.pc \in {"idle", "login"} => s.session = "none"

\* An operation in which a request failed is on its way out, with an error.
FailsClean(s) == s.failed => s.pc \in {"idle", "logout"} /\ s.result = "error"

ClientInv(s, o, l) == Sessions(s, o, l) /\ NoneHeld(s) /\ FailsClean(s)

\* Every loss is a fault.
LossesCounted == \A c \in Client : lost[c] + faults <= MaxFaults

IInv ==
    /\ TypeOK
    /\ \A c \in Client : ClientInv(client[c], open[c], lost[c])
    /\ LossesCounted

\* No client has begun.
LEMMA InitIInv == ASSUME Init PROVE IInv
  <1> USE HubAssumption DEF HubAssumption
  <1>1. Idle \in ClientState
    BY DEF Idle, ClientState, Link, Operation
  <1>2. TypeOK
    BY <1>1 DEF Init, TypeOK
  <1>3. ClientInv(Idle, 0, 0)
    BY DEF Idle, ClientInv, Held, Sessions, NoneHeld, FailsClean
  <1>4. LossesCounted
    <2>1. SUFFICES ASSUME NEW c \in Client PROVE lost[c] + faults <= MaxFaults
      BY DEF LossesCounted
    <2>2. lost[c] = 0 /\ faults = MaxFaults
      BY DEF Init
    <2> QED
      BY <2>2
  <1> QED
    BY <1>2, <1>3, <1>4 DEF IInv, Init

\* Parts of a sum are within the sum's bound.
LEMMA Summands ==
    ASSUME NEW l \in Nat, NEW f \in Nat, NEW n \in Nat, l + f <= n
    PROVE  l \in 0..n /\ f \in 0..n
  OBVIOUS

\* A step of one client has to establish the invariant for this client only:
\* the others, and the Hub, stay as they are.
LEMMA OneClient ==
    ASSUME IInv, NEW c \in Client,
           NEW s \in ClientState, client' = [client EXCEPT ![c] = s],
           NEW o \in Nat, open' = [open EXCEPT ![c] = o],
           NEW l \in Nat, lost' = [lost EXCEPT ![c] = l],
           faults' \in Nat, faults' <= faults, l + faults' <= MaxFaults,
           UNCHANGED <<hubVars, changes>>,
           ClientInv(s, o, l)
    PROVE  IInv'
  <1>1. MaxFaults \in Nat /\ faults \in 0..MaxFaults
    BY HubAssumption DEF HubAssumption, IInv, TypeOK
  <1>2. /\ client \in [Client -> ClientState]
        /\ open \in [Client -> Nat]
        /\ lost \in [Client -> 0..MaxFaults]
    BY DEF IInv, TypeOK
  <1>3. l \in 0..MaxFaults /\ faults' \in 0..MaxFaults
    BY <1>1, Summands
  <1>4. TypeOK'
    <2>1. client' \in [Client -> ClientState] /\ open' \in [Client -> Nat]
      BY <1>2
    <2>2. lost' \in [Client -> 0..MaxFaults]
      BY <1>2, <1>3
    <2>3. /\ status' \in Status \cup {None}
          /\ version' \in Version \cup {NoVersion}
          /\ changes' \in 0..MaxChanges
      BY DEF IInv, TypeOK, hubVars
    <2> QED
      BY <1>3, <2>1, <2>2, <2>3 DEF TypeOK
  <1>5. ASSUME NEW d \in Client
        PROVE  /\ ClientInv(client'[d], open'[d], lost'[d])
               /\ lost'[d] + faults' <= MaxFaults
    <2>1. CASE d = c
      BY <1>2, <2>1
    <2>2. CASE d # c
      <3>1. client'[d] = client[d] /\ open'[d] = open[d] /\ lost'[d] = lost[d]
        BY <1>2, <2>2
      <3>2. ClientInv(client[d], open[d], lost[d])
        BY DEF IInv
      <3>3. lost[d] + faults <= MaxFaults /\ lost[d] \in Nat
        BY <1>1, <1>2 DEF IInv, LossesCounted
      <3>4. lost[d] + faults' <= MaxFaults
        BY <1>1, <3>3
      <3> QED
        BY <3>1, <3>2, <3>4
    <2> QED
      BY <2>1, <2>2
  <1> QED
    BY <1>4, <1>5 DEF IInv, LossesCounted

\* What the invariant says of one client.
LEMMA ClientFacts ==
    ASSUME IInv, NEW c \in Client
    PROVE  /\ client[c] \in ClientState /\ open[c] \in Nat /\ lost[c] \in Nat
           /\ ClientInv(client[c], open[c], lost[c])
           /\ faults \in Nat /\ MaxFaults \in Nat
           /\ lost[c] + faults <= MaxFaults
  <1>1. MaxFaults \in Nat /\ faults \in 0..MaxFaults
    BY HubAssumption DEF HubAssumption, IInv, TypeOK
  <1>2. /\ client \in [Client -> ClientState]
        /\ open \in [Client -> Nat]
        /\ lost \in [Client -> 0..MaxFaults]
    BY DEF IInv, TypeOK
  <1>3. lost[c] + faults <= MaxFaults /\ ClientInv(client[c], open[c], lost[c])
    BY DEF IInv, LossesCounted
  <1> QED
    BY <1>1, <1>2, <1>3

\* A step that changes neither the sessions nor the losses of its client.
LEMMA SameSessions ==
    ASSUME IInv, NEW c \in Client,
           NEW s \in ClientState, client' = [client EXCEPT ![c] = s],
           s.session = client[c].session, NoneHeld(s), FailsClean(s),
           UNCHANGED <<open, lost, hubVars, changes>>,
           \/ faults' = faults
           \/ faults > 0 /\ faults' = faults - 1
    PROVE  IInv'
  <1>1. /\ client[c] \in ClientState /\ open[c] \in Nat /\ lost[c] \in Nat
        /\ ClientInv(client[c], open[c], lost[c])
        /\ faults \in Nat /\ MaxFaults \in Nat
        /\ lost[c] + faults <= MaxFaults
    BY ClientFacts
  <1>2. open' = [open EXCEPT ![c] = open[c]] /\ lost' = [lost EXCEPT ![c] = lost[c]]
    BY DEF IInv, TypeOK
  <1>3. faults' \in Nat /\ faults' <= faults /\ lost[c] + faults' <= MaxFaults
    BY <1>1
  <1>4. ClientInv(s, open[c], lost[c])
    BY <1>1 DEF ClientInv, Sessions, Held
  <1>5. UNCHANGED <<hubVars, changes>>
    OBVIOUS
  <1> QED
    BY <1>1, <1>2, <1>3, <1>4, <1>5, OneClient

\* A request within a session: it is answered and the operation goes on in
\* state s, or it fails and the operation with it.
LEMMA Request ==
    ASSUME IInv, NEW c \in Client, client[c].pc \notin {"idle", "login", "logout"},
           NEW s \in ClientState, s.session = client[c].session,
           s.pc \notin {"idle", "login"}, s.failed = client[c].failed,
           UNCHANGED <<open, lost, hubVars, changes>>,
           \/ client' = [client EXCEPT ![c] = s] /\ faults' = faults
           \/ /\ client' = [client EXCEPT ![c] = Fails(c)]
              /\ \/ faults' = faults
                 \/ faults > 0 /\ faults' = faults - 1
    PROVE  IInv'
  <1>1. client[c] \in ClientState /\ FailsClean(client[c])
    BY ClientFacts DEF ClientInv
  <1>2. ~client[c].failed
    BY <1>1 DEF FailsClean
  <1>3. CASE client' = [client EXCEPT ![c] = s] /\ faults' = faults
    <2>1. NoneHeld(s) /\ FailsClean(s)
      BY <1>2 DEF NoneHeld, FailsClean
    <2> QED
      BY <1>3, <2>1, SameSessions
  <1>4. CASE /\ client' = [client EXCEPT ![c] = Fails(c)]
             /\ \/ faults' = faults
                \/ faults > 0 /\ faults' = faults - 1
    <2>1. Fails(c) \in ClientState /\ Fails(c).session = client[c].session
      BY <1>1 DEF Fails, ClientState
    <2>2. NoneHeld(Fails(c)) /\ FailsClean(Fails(c))
      BY <1>1 DEF Fails, NoneHeld, FailsClean, ClientState
    <2> QED
      BY <1>4, <2>1, <2>2, SameSessions
  <1> QED
    BY <1>3, <1>4

\* The steps of the conversation, each of which is a request.
LEMMA Conversation ==
    ASSUME IInv, NEW c \in Client,
           \/ GetScanSummary(c) \/ PollScanSummary(c) \/ GetCodeLocation(c)
           \/ FindProjects(c) \/ FindProjectVersions(c) \/ GetProjectVersion(c)
           \/ GetRiskProfile(c) \/ GetPolicyStatus(c)
    PROVE  IInv'
  <1> USE DEF RequestFails, Answered, NoFault, Fault, At
  <1>1. client[c] \in ClientState /\ version \in Version \cup {NoVersion}
    BY ClientFacts DEF IInv, TypeOK
  <1>2. InHub => /\ version.links \in SUBSET Link
                 /\ version.vulns \in Count
                 /\ version.policy \in Count \cup {None}
    BY <1>1 DEF InHub, Version
  <1>3. CASE GetScanSummary(c)
    <2> DEFINE s == [client[c] EXCEPT !.pc = IF status = "COMPLETE" THEN "codelocation" ELSE "poll"]
    <2>1. s \in ClientState /\ s.session = client[c].session /\ s.failed = client[c].failed
          /\ s.pc \notin {"idle", "login"}
      BY <1>1 DEF ClientState
    <2>2. client[c].pc \notin {"idle", "login", "logout"}
      BY <1>3 DEF GetScanSummary
    <2> QED
      BY <1>3, <2>1, <2>2, Request DEF GetScanSummary
  <1>4. CASE PollScanSummary(c)
    <2>1. /\ AfterPoll(c) \in ClientState
          /\ AfterPoll(c).session = client[c].session /\ AfterPoll(c).failed = client[c].failed
          /\ AfterPoll(c).pc \notin {"idle", "login"}
      BY <1>1 DEF ClientState, AfterPoll
    <2>2. client[c].pc \notin {"idle", "login", "logout"}
      BY <1>4 DEF PollScanSummary
    <2> QED
      BY <1>4, <2>1, <2>2, Request DEF PollScanSummary
  <1>5. CASE GetCodeLocation(c) \/ FindProjectVersions(c)
    <2> DEFINE s == [client[c] EXCEPT !.pc = "version"]
    <2>1. s \in ClientState /\ s.session = client[c].session /\ s.failed = client[c].failed
          /\ s.pc \notin {"idle", "login"}
      BY <1>1 DEF ClientState
    <2>2. client[c].pc \notin {"idle", "login", "logout"}
      BY <1>5 DEF GetCodeLocation, FindProjectVersions
    <2> QED
      BY <1>5, <2>1, <2>2, Request DEF GetCodeLocation, FindProjectVersions
  <1>6. CASE FindProjects(c)
    <2> DEFINE s == [client[c] EXCEPT !.pc = "versions"]
    <2>1. s \in ClientState /\ s.session = client[c].session /\ s.failed = client[c].failed
          /\ s.pc \notin {"idle", "login"}
      BY <1>1 DEF ClientState
    <2>2. client[c].pc \notin {"idle", "login", "logout"}
      BY <1>6 DEF FindProjects
    <2> QED
      BY <1>6, <2>1, <2>2, Request DEF FindProjects
  <1>7. CASE GetProjectVersion(c)
    <2> DEFINE s == IF client[c].op = "validate"
                    THEN [client[c] EXCEPT !.pc = "logout", !.result = "ok"]
                    ELSE [client[c] EXCEPT !.pc = "links",
                              !.todo = IF InHub THEN version.links ELSE {}]
    <2>1. s \in ClientState /\ s.session = client[c].session /\ s.failed = client[c].failed
          /\ s.pc \notin {"idle", "login"}
      BY <1>1, <1>2 DEF ClientState
    <2>2. client[c].pc \notin {"idle", "login", "logout"}
      BY <1>7 DEF GetProjectVersion
    <2> QED
      BY <1>7, <2>1, <2>2, Request DEF GetProjectVersion
  <1>8. CASE GetRiskProfile(c)
    <2> DEFINE s == [client[c] EXCEPT !.todo = @ \ {"riskProfile"},
                        !.vulns = IF InHub THEN version.vulns ELSE @,
                        !.found = @ \cup {"riskProfile"}]
    <2>1. s \in ClientState /\ s.session = client[c].session /\ s.failed = client[c].failed
          /\ s.pc = client[c].pc
      BY <1>1, <1>2 DEF ClientState, Link
    <2>2. client[c].pc \notin {"idle", "login", "logout"}
      BY <1>8 DEF GetRiskProfile
    <2> QED
      BY <1>8, <2>1, <2>2, Request DEF GetRiskProfile
  <1>9. CASE GetPolicyStatus(c)
    <2> DEFINE s == IF version.policy = None \/ ~InHub
                    THEN [client[c] EXCEPT !.todo = @ \ {"policy-status"}]
                    ELSE [client[c] EXCEPT !.todo = @ \ {"policy-status"},
                              !.violations = version.policy,
                              !.found = @ \cup {"policy-status"}]
    <2>1. s \in ClientState /\ s.session = client[c].session /\ s.failed = client[c].failed
          /\ s.pc = client[c].pc
      BY <1>1, <1>2 DEF ClientState, Link
    <2>2. client[c].pc \notin {"idle", "login", "logout"}
      BY <1>9 DEF GetPolicyStatus
    <2> QED
      BY <1>9, <2>1, <2>2, Request DEF GetPolicyStatus
  <1> QED
    BY <1>3, <1>4, <1>5, <1>6, <1>7, <1>8, <1>9

\* An operation begins, and has all it wanted.
LEMMA CallAndReturn ==
    ASSUME IInv, NEW c \in Client, (\E o \in Operation : Call(c, o)) \/ Return(c)
    PROVE  IInv'
  <1>1. client[c] \in ClientState /\ NoneHeld(client[c]) /\ FailsClean(client[c])
    BY ClientFacts DEF ClientInv
  <1>2. ASSUME NEW o \in Operation, Call(c, o) PROVE IInv'
    <2> DEFINE s == [Idle EXCEPT !.pc = "login", !.op = o]
    <2>1. s \in ClientState /\ s.session = "none" /\ NoneHeld(s) /\ FailsClean(s)
      BY HubAssumption DEF HubAssumption, Idle, ClientState, NoneHeld, FailsClean, Link
    <2>2. client[c].session = "none"
      BY <1>1, <1>2 DEF Call, At, NoneHeld
    <2> QED
      BY <1>2, <2>1, <2>2, SameSessions DEF Call
  <1>3. CASE Return(c)
    <2> DEFINE s == [client[c] EXCEPT !.pc = "logout",
            !.result = IF client[c].op = "pod" /\ client[c].found = {} THEN "error" ELSE "ok"]
    <2>1. s \in ClientState /\ s.session = client[c].session
          /\ s.pc = "logout" /\ s.failed = client[c].failed
      BY <1>1 DEF ClientState
    <2>2. client[c].pc = "links"
      BY <1>3 DEF Return, At
    <2>3. client' = [client EXCEPT ![c] = s] /\ UNCHANGED <<open, lost, hubVars, faults, changes>>
      BY <1>3 DEF Return
    <2> QED
      BY <2>1, <2>2, <2>3, Request
  <1> QED
    BY <1>2, <1>3

\* Logging in opens a session, which the client holds unless the login fails.
LEMMA LoginStep ==
    ASSUME IInv, NEW c \in Client, Login(c) \/ LoginFails(c)
    PROVE  IInv'
  <1>1. /\ client[c] \in ClientState /\ open[c] \in Nat /\ lost[c] \in Nat
        /\ ClientInv(client[c], open[c], lost[c])
        /\ faults \in Nat /\ MaxFaults \in Nat
        /\ lost[c] + faults <= MaxFaults
    BY ClientFacts
  <1>2. client[c].session = "none" /\ ~client[c].failed /\ client[c].pc = "login"
    BY <1>1 DEF Login, LoginFails, At, ClientInv, NoneHeld, FailsClean
  <1>3. 0 <= open[c] /\ open[c] <= lost[c]
    BY <1>1, <1>2 DEF ClientInv, Sessions, Held
  <1>4. open \in [Client -> Nat] /\ lost \in [Client -> 0..MaxFaults]
    BY DEF IInv, TypeOK
  <1>5. CASE Login(c)
    <2> DEFINE s == [client[c] EXCEPT !.pc = FirstRequest(client[c].op), !.session = "good",
            !.result = IF client[c].op = "config" THEN "ok" ELSE "none"]
    <2>1. FirstRequest(client[c].op) \in {"logout", "summary", "projects", "version"}
      BY DEF FirstRequest
    <2>2. s \in ClientState /\ s.session = "good" /\ ~s.failed /\ s.pc \notin {"idle", "login"}
      BY <1>1, <1>2, <2>1 DEF ClientState
    <2>3. ClientInv(s, open[c] + 1, lost[c])
      BY <1>1, <1>3, <2>2 DEF ClientInv, Sessions, Held, NoneHeld, FailsClean
    <2>4. /\ client' = [client EXCEPT ![c] = s]
          /\ open' = [open EXCEPT ![c] = open[c] + 1]
          /\ lost' = [lost EXCEPT ![c] = lost[c]]
          /\ faults' = faults
          /\ UNCHANGED <<hubVars, changes>>
      BY <1>4, <1>5 DEF Login, NoFault
    <2>5. open[c] + 1 \in Nat /\ faults' \in Nat /\ faults' <= faults
          /\ lost[c] + faults' <= MaxFaults
      BY <1>1, <2>4
    <2> HIDE DEF s
    <2> QED
      BY <1>1, <2>2, <2>3, <2>4, <2>5, OneClient
  <1>6. CASE LoginFails(c)
    <2> DEFINE s == [client[c] EXCEPT !.pc = IF client[c].op = "config" THEN "logout" ELSE "idle",
                                      !.result = "error", !.failed = TRUE]
    <2>1. s \in ClientState /\ s.session = "none" /\ s.pc \in {"idle", "logout"}
          /\ s.result = "error"
      BY <1>1, <1>2 DEF ClientState
    <2>2. PICK o \in Nat : o \in {open[c], open[c] + 1} /\ open' = [open EXCEPT ![c] = o]
      BY <1>1, <1>4, <1>6 DEF LoginFails
    <2>3. ClientInv(s, o, lost[c] + 1)
      BY <1>1, <1>3, <2>1, <2>2 DEF ClientInv, Sessions, Held, NoneHeld, FailsClean
    <2>4. /\ client' = [client EXCEPT ![c] = s]
          /\ lost' = [lost EXCEPT ![c] = lost[c] + 1]
          /\ faults > 0 /\ faults' = faults - 1
          /\ UNCHANGED <<hubVars, changes>>
      BY <1>6 DEF LoginFails, SessionFault, Fault
    <2>5. lost[c] + 1 \in Nat /\ faults' \in Nat /\ faults' <= faults
          /\ (lost[c] + 1) + faults' <= MaxFaults
      BY <1>1, <2>4
    <2> HIDE DEF s
    <2> QED
      BY <2>1, <2>2, <2>3, <2>4, <2>5, OneClient
  <1> QED
    BY <1>5, <1>6

\* Logging out closes the session the client holds, unless the logout fails.
LEMMA LogoutStep ==
    ASSUME IInv, NEW c \in Client, Logout(c) \/ LogoutFails(c)
    PROVE  IInv'
  <1> DEFINE s == [client[c] EXCEPT !.pc = "idle", !.session = "none"]
  <1>1. /\ client[c] \in ClientState /\ open[c] \in Nat /\ lost[c] \in Nat
        /\ ClientInv(client[c], open[c], lost[c])
        /\ faults \in Nat /\ MaxFaults \in Nat
        /\ lost[c] + faults <= MaxFaults
    BY ClientFacts
  <1>2. Held(client[c]) \in {0, 1} /\ Held(client[c]) <= open[c]
        /\ open[c] <= lost[c] + Held(client[c])
    BY <1>1 DEF ClientInv, Sessions, Held
  <1>3. open \in [Client -> Nat] /\ lost \in [Client -> 0..MaxFaults]
    BY DEF IInv, TypeOK
  <1>4. s \in ClientState /\ s.session = "none" /\ NoneHeld(s) /\ FailsClean(s)
        /\ Held(s) = 0
    BY <1>1 DEF ClientInv, ClientState, NoneHeld, FailsClean, Held
  <1>5. CASE Logout(c)
    <2> DEFINE o == open[c] - Held(client[c])
    <2>1. o \in Nat /\ o <= lost[c]
      BY <1>1, <1>2
    <2>2. ClientInv(s, o, lost[c])
      BY <1>1, <1>4, <2>1 DEF ClientInv, Sessions
    <2>3. open' = [open EXCEPT ![c] = o]
      <3>1. CASE client[c].session = "good"
        BY <1>5, <3>1 DEF Logout, Held
      <3>2. CASE client[c].session # "good"
        <4>1. o = open[c]
          BY <1>1, <3>2 DEF Held
        <4> QED
          BY <1>5, <3>2, <4>1 DEF Logout
      <3> QED
        BY <3>1, <3>2
    <2>4. /\ client' = [client EXCEPT ![c] = s]
          /\ lost' = [lost EXCEPT ![c] = lost[c]]
          /\ faults' = faults
          /\ UNCHANGED <<hubVars, changes>>
      BY <1>3, <1>5 DEF Logout, NoFault
    <2>5. faults' \in Nat /\ faults' <= faults /\ lost[c] + faults' <= MaxFaults
      BY <1>1, <2>4
    <2> HIDE DEF o, s
    <2> QED
      BY <1>1, <1>4, <2>1, <2>2, <2>3, <2>4, <2>5, OneClient
  <1>6. CASE LogoutFails(c)
    <2>1. lost[c] + 1 \in Nat /\ open[c] <= lost[c] + 1
      BY <1>1, <1>2
    <2>2. ClientInv(s, open[c], lost[c] + 1)
      BY <1>1, <1>4, <2>1 DEF ClientInv, Sessions
    <2>3. /\ client' = [client EXCEPT ![c] = s]
          /\ open' = [open EXCEPT ![c] = open[c]]
          /\ lost' = [lost EXCEPT ![c] = lost[c] + 1]
          /\ faults > 0 /\ faults' = faults - 1
          /\ UNCHANGED <<hubVars, changes>>
      BY <1>3, <1>6 DEF LogoutFails, SessionFault, Fault
    <2>4. faults' \in Nat /\ faults' <= faults /\ (lost[c] + 1) + faults' <= MaxFaults
      BY <1>1, <2>3
    <2> QED
      BY <1>1, <1>4, <2>1, <2>2, <2>3, <2>4, OneClient
  <1> QED
    BY <1>5, <1>6

\* A client whose process dies leaves at most one session behind.
LEMMA ProcessDiesStep ==
    ASSUME IInv, NEW c \in Client, ProcessDies(c)
    PROVE  IInv'
  <1>1. /\ client[c] \in ClientState /\ open[c] \in Nat /\ lost[c] \in Nat
        /\ ClientInv(client[c], open[c], lost[c])
        /\ faults \in Nat /\ MaxFaults \in Nat
        /\ lost[c] + faults <= MaxFaults
    BY ClientFacts
  <1>2. open \in [Client -> Nat] /\ lost \in [Client -> 0..MaxFaults]
    BY DEF IInv, TypeOK
  <1>3. PICK o \in Nat : /\ open' = [open EXCEPT ![c] = o]
                         /\ o = open[c] \/ (o = open[c] + 1 /\ client[c].pc = "login")
    BY <1>1, <1>2 DEF ProcessDies, At
  <1>4. o <= lost[c] + 1 /\ 0 <= o
    BY <1>1, <1>3 DEF ClientInv, Sessions, NoneHeld, Held
  <1>5. Idle \in ClientState /\ Idle.session = "none" /\ ~Idle.failed
    BY HubAssumption DEF HubAssumption, Idle, ClientState, Link
  <1>6. ClientInv(Idle, o, lost[c] + 1)
    BY <1>1, <1>4, <1>5 DEF ClientInv, Sessions, Held, NoneHeld, FailsClean
  <1>7. /\ client' = [client EXCEPT ![c] = Idle]
        /\ lost' = [lost EXCEPT ![c] = lost[c] + 1]
        /\ faults > 0 /\ faults' = faults - 1
        /\ UNCHANGED <<hubVars, changes>>
    BY DEF ProcessDies, SessionFault, Fault
  <1>8. lost[c] + 1 \in Nat /\ faults' \in Nat /\ faults' <= faults
        /\ (lost[c] + 1) + faults' <= MaxFaults
    BY <1>1, <1>7
  <1> QED
    BY <1>3, <1>5, <1>6, <1>7, <1>8, OneClient

\* The Hub closes a session, or the client's cookie is replaced and its session
\* becomes one of the lost.
LEMMA SessionStep ==
    ASSUME IInv, NEW c \in Client, SessionExpires(c) \/ CookieReplaced(c)
    PROVE  IInv'
  <1> DEFINE s == [client[c] EXCEPT !.session = "bad"]
  <1>1. /\ client[c] \in ClientState /\ open[c] \in Nat /\ lost[c] \in Nat
        /\ ClientInv(client[c], open[c], lost[c])
        /\ faults \in Nat /\ MaxFaults \in Nat
        /\ lost[c] + faults <= MaxFaults
    BY ClientFacts
  <1>2. Held(client[c]) \in {0, 1} /\ Held(client[c]) <= open[c]
        /\ open[c] <= lost[c] + Held(client[c])
    BY <1>1 DEF ClientInv, Sessions, Held
  <1>3. /\ client = [client EXCEPT ![c] = client[c]]
        /\ open = [open EXCEPT ![c] = open[c]]
        /\ lost = [lost EXCEPT ![c] = lost[c]]
    BY DEF IInv, TypeOK
  <1>4. ASSUME client[c].session = "good"
        PROVE  /\ s \in ClientState /\ Held(s) = 0 /\ Held(client[c]) = 1
               /\ NoneHeld(s) /\ FailsClean(s)
    BY <1>1, <1>4 DEF ClientInv, ClientState, NoneHeld, FailsClean, Held
  <1>5. CASE /\ client[c].session = "good"
             /\ client' = [client EXCEPT ![c] = s]
             /\ open' = [open EXCEPT ![c] = open[c] - 1]
             /\ UNCHANGED <<lost, hubVars, faults, changes>>
    <2>1. open[c] - 1 \in Nat /\ open[c] - 1 <= lost[c] /\ 0 <= open[c] - 1
      BY <1>1, <1>2, <1>4, <1>5
    <2>2. ClientInv(s, open[c] - 1, lost[c])
      BY <1>1, <1>4, <1>5, <2>1 DEF ClientInv, Sessions
    <2>3. faults' \in Nat /\ faults' <= faults /\ lost[c] + faults' <= MaxFaults
      BY <1>1, <1>5
    <2> HIDE DEF s
    <2> QED
      BY <1>1, <1>3, <1>4, <1>5, <2>1, <2>2, <2>3, OneClient
  <1>6. CASE /\ open[c] > Held(client[c])
             /\ open' = [open EXCEPT ![c] = open[c] - 1]
             /\ UNCHANGED <<client, lost, hubVars, faults, changes>>
    <2>1. open[c] - 1 \in Nat /\ Held(client[c]) <= open[c] - 1
          /\ open[c] - 1 <= lost[c] + Held(client[c])
      BY <1>1, <1>2, <1>6
    <2>2. ClientInv(client[c], open[c] - 1, lost[c])
      BY <1>1, <2>1 DEF ClientInv, Sessions
    <2>3. faults' \in Nat /\ faults' <= faults /\ lost[c] + faults' <= MaxFaults
      BY <1>1, <1>6
    <2> HIDE DEF s
    <2> QED
      BY <1>1, <1>3, <1>6, <2>1, <2>2, <2>3, OneClient
  <1>7. CASE CookieReplaced(c)
    <2>1. /\ client[c].session = "good"
          /\ client' = [client EXCEPT ![c] = s]
          /\ lost' = [lost EXCEPT ![c] = lost[c] + 1]
          /\ faults > 0 /\ faults' = faults - 1
          /\ UNCHANGED <<open, hubVars, changes>>
      BY <1>7 DEF CookieReplaced, SessionFault, Fault
    <2>2. lost[c] + 1 \in Nat /\ 0 <= open[c] /\ open[c] <= lost[c] + 1
      BY <1>1, <1>2
    <2>3. ClientInv(s, open[c], lost[c] + 1)
      BY <1>1, <1>4, <2>1, <2>2 DEF ClientInv, Sessions
    <2>4. faults' \in Nat /\ faults' <= faults /\ (lost[c] + 1) + faults' <= MaxFaults
      BY <1>1, <2>1
    <2> HIDE DEF s
    <2> QED
      BY <1>1, <1>3, <1>4, <2>1, <2>2, <2>3, <2>4, OneClient
  <1> QED
    BY <1>5, <1>6, <1>7 DEF SessionExpires, Held

\* The Hub's scan and version are no client's business.
LEMMA HubStep ==
    ASSUME IInv, ScanChanges \/ CountsChange \/ VersionDeleted
    PROVE  IInv'
  <1>1. UNCHANGED <<client, open, lost, faults>>
    BY DEF ScanChanges, CountsChange, VersionDeleted
  <1>2. status' \in Status \cup {None}
    BY DEF IInv, TypeOK, ScanChanges, CountsChange, VersionDeleted, Status
  <1>3. version' \in Version \cup {NoVersion}
    BY DEF IInv, TypeOK, ScanChanges, CountsChange, VersionDeleted
  <1>4. changes' \in 0..MaxChanges
    BY HubAssumption DEF HubAssumption, IInv, TypeOK, ScanChanges, CountsChange, VersionDeleted
  <1>5. TypeOK'
    BY <1>1, <1>2, <1>3, <1>4 DEF IInv, TypeOK
  <1> QED
    BY <1>1, <1>5 DEF IInv, LossesCounted

\* Every step keeps the invariant.
LEMMA NextIInv == ASSUME IInv, [Next]_vars PROVE IInv'
  <1>1. ASSUME NEW c \in Client,
               \/ \E o \in Operation : Call(c, o)
               \/ ClientRuns(c) \/ SessionExpires(c) \/ CookieReplaced(c) \/ ProcessDies(c)
        PROVE  IInv'
    BY <1>1, Conversation, CallAndReturn, LoginStep, LogoutStep, SessionStep,
       ProcessDiesStep DEF ClientRuns
  <1>2. CASE ScanChanges \/ CountsChange \/ VersionDeleted
    BY <1>2, HubStep
  <1>3. CASE UNCHANGED vars
    BY <1>3 DEF vars, hubVars, IInv, TypeOK, LossesCounted
  <1> QED
    BY <1>1, <1>2, <1>3 DEF Next

\* IInv is an invariant: the sessions of every client are its own and the lost
\* ones, and failures lead out of an operation.
THEOREM SessionInvariant == Spec => []IInv
  BY InitIInv, NextIInv, PTL DEF Spec

\* Type correctness of the Hub client.
THEOREM ResultsTypeCorrect == Spec => []TypeOK
  <1>1. IInv => TypeOK
    BY DEF IInv
  <1> QED
    BY <1>1, SessionInvariant, PTL

\* Whichever operations clients run and whatever goes wrong on the way (early
\* returns of scanresults.go, the deferred Logout), the Hub keeps no session of
\* an idle client but those whose login, logout or cookie got lost.
THEOREM SessionsClosed == Spec => []NoSessionLeak
  <1>1. ASSUME IInv PROVE NoSessionLeak
    <2>1. SUFFICES ASSUME NEW c \in Client, client[c].pc = "idle" PROVE open[c] <= lost[c]
      BY DEF NoSessionLeak, At
    <2>2. Held(client[c]) = 0
      BY <1>1, <2>1, ClientFacts DEF ClientInv, NoneHeld, Held
    <2> QED
      BY <1>1, <2>2, ClientFacts DEF ClientInv, Sessions
  <1> QED
    BY <1>1, SessionInvariant, PTL

\* An operation that returns results had every request answered: no count that
\* could not be read is stored as zero.
THEOREM ResultsComplete == Spec => []NoFalseClean
  <1>1. ASSUME IInv PROVE NoFalseClean
    BY <1>1, ClientFacts DEF NoFalseClean, ClientInv, FailsClean
  <1> QED
    BY <1>1, SessionInvariant, PTL
=============================================================================
