------------------------ MODULE SingleLogout_proofs -------------------------
(***************************************************************************)
(* Theorems about single logout, for every number of sessions, RPs, tabs   *)
(* and logouts, and any number of failures.                                *)
(***************************************************************************)
EXTENDS SingleLogout, TLAPS

USE NoneAssumption, ChannelsAssumption, FaultsAssumption

Lossy == {"join", "lapse", "end"}

(* A step takes no session back, and no client from one that lives on unless *)
(* an error was dropped.                                                     *)
Harmless ==
  /\ failed \subseteq failed'
  /\ \A s \in Sids : sessions[s] # "none" => sessions'[s] # "none"
  /\ failed' \cap Lossy = {} =>
       \A s \in Sids : Live(s)' => Live(s) /\ members[s] \subseteq members'[s]

(* The local variables of a login and of a logout that has begun. *)
LEMMA TabType ==
  ASSUME TypeOK, NEW w \in Tabs, tabs[w].pc # "idle"
  PROVE  tabs[w] \in Login
  BY DEF TypeOK, Idle

LEMMA LogoutType ==
  ASSUME TypeOK, NEW l \in Logouts, logouts[l].pc # "idle"
  PROVE  logouts[l] \in Logout
  BY DEF TypeOK, Idle

(* The sids in the browser's requests and cookies. *)
LEMMA HeldSids ==
  ASSUME TypeOK
  PROVE  /\ cookie \in SidOrNone
         /\ \A w \in Tabs : tabs[w].pc # "idle" =>
                             tabs[w].cookie \in Sids /\ tabs[w].sid \in SidOrNone
         /\ \A c \in Clients : rp[c].sid \in SidOrNone
<1>1. \A c \in Clients : rp[c].sid \in SidOrNone
  BY DEF TypeOK, RPCookies
<1>2. QED
  BY <1>1, TabType DEF TypeOK, Login

(* What removing a session does to the tables. *)
LEMMA DeleteSessionEffect ==
  ASSUME TypeOK, NEW s, NEW how \in {"lapsed", "ended"}, DeleteSession(s, how)
  PROVE  /\ sessions' \in [Sids -> {"none", "valid", "expired", "lapsed", "ended"}]
         /\ members' \in [Sids -> SUBSET Clients]
         /\ \A x \in Sids : sessions[x] # "none" => sessions'[x] # "none"
         /\ \A x \in Sids : Live(x)' => Live(x) /\ members'[x] = members[x]
  BY DEF TypeOK, DeleteSession, Live

LEMMA LookupSessionEffect ==
  ASSUME TypeOK, NEW s, LookupSession(s)
  PROVE  /\ sessions' \in [Sids -> {"none", "valid", "expired", "lapsed", "ended"}]
         /\ members' \in [Sids -> SUBSET Clients]
         /\ \A x \in Sids : sessions[x] # "none" => sessions'[x] # "none"
         /\ \A x \in Sids : Live(x)' => Live(x) /\ members'[x] = members[x]
<1>1. CASE DeleteSession(s, "lapsed")
  BY <1>1, DeleteSessionEffect
<1>2. CASE UNCHANGED <<sessions, members>>
  BY <1>2 DEF TypeOK, Live
<1>3. QED
  BY <1>1, <1>2 DEF LookupSession

(***************************************************************************)
(* Every step keeps the types.                                             *)
(***************************************************************************)
LEMMA TypeStep == TypeOK /\ [Next]_vars => TypeOK'
<1> SUFFICES ASSUME TypeOK, [Next]_vars PROVE TypeOK'
  OBVIOUS
<1> USE DEF TypeOK, NoFault, Fault, SidOrNone
<1>1. CASE SessionStep
  <2>1. CASE OpenHome
    BY <2>1, LookupSessionEffect DEF OpenHome
  <2>2. ASSUME NEW s \in Sids, StartSession(s) \/ Expire(s) PROVE TypeOK'
    BY <2>2 DEF StartSession, Expire
  <2>3. QED
    BY <1>1, <2>1, <2>2 DEF SessionStep
<1>2. ASSUME NEW w \in Tabs, NEW c \in Clients, Authorize(w, c) PROVE TypeOK'
  <2>1. tabs' \in [Tabs -> {Idle} \cup Login]
    BY <1>2 DEF Authorize, Login
  <2>2. ASSUME NEW l \in Logouts, logouts[l] # Idle
        PROVE  [logouts[l] EXCEPT !.early = @ \ {c}] \in Logout
    BY <2>2 DEF Logout
  <2>3. logouts' \in [Logouts -> {Idle} \cup Logout]
    BY <1>2, <2>2 DEF Authorize
  <2>4. rp' \in [Clients -> RPCookies]
    BY <1>2 DEF Authorize, RPCookies
  <2>5. QED
    BY <1>2, <2>1, <2>3, <2>4 DEF Authorize
<1>3. ASSUME NEW w \in Tabs,
             \/ CurrentUser(w) \/ Consent(w) \/ CurrentSID(w) \/ IssueCode(w)
             \/ RememberSid(w) \/ GiveUp(w) \/ CurrentSIDError(w) \/ IssueCodeUnjoined(w)
      PROVE  TypeOK'
  <2> USE DEF TabGoes, TabCloses
  <2>1. tabs[w].pc = "idle" \/ tabs[w] \in Login
    BY TabType
  <2>2. CASE CurrentUser(w)
    <3>1. tabs' \in [Tabs -> {Idle} \cup Login]
      BY <2>1, <2>2 DEF CurrentUser, Login
    <3>2. QED
      BY <2>2, <3>1, LookupSessionEffect DEF CurrentUser
  <2>3. CASE Consent(w)
    BY <2>1, <2>3 DEF Consent, Login
  <2>4. CASE CurrentSID(w)
    <3>1. tabs' \in [Tabs -> {Idle} \cup Login]
      BY <2>1, <2>4 DEF CurrentSID, Login
    <3>2. QED
      BY <2>4, <3>1, LookupSessionEffect DEF CurrentSID
  <2>5. CASE IssueCode(w)
    BY <2>1, <2>5 DEF IssueCode, Login, AddSessionClient
  <2>6. CASE RememberSid(w)
    <3>1. tabs[w].client \in Clients /\ tabs[w].sid \in SidOrNone
      BY <2>1, <2>6 DEF RememberSid, Login
    <3>2. PICK c \in Clients, s \in SidOrNone :
             rp' = [rp EXCEPT ![c].access = TRUE, ![c].login = None,
                              ![c].sid = IF s = None THEN @ ELSE s]
      BY <2>6, <3>1 DEF RememberSid
    <3>3. \A x \in Clients : rp'[x] \in RPCookies
      <4>1. rp[c] \in RPCookies
        OBVIOUS
      <4>2. rp'[c] = [rp[c] EXCEPT !.access = TRUE, !.login = None,
                                   !.sid = IF s = None THEN rp[c].sid ELSE s]
        BY <3>2, <4>1 DEF RPCookies
      <4>3. rp'[c] \in RPCookies
        BY <4>1, <4>2 DEF RPCookies
      <4>4. QED
        BY <3>2, <4>3
    <3>4. rp' \in [Clients -> RPCookies]
      BY <3>2, <3>3
    <3>5. QED
      BY <2>1, <2>6, <3>4 DEF RememberSid, Login
  <2>7. CASE GiveUp(w)
    BY <2>7 DEF GiveUp
  <2>8. CASE CurrentSIDError(w)
    BY <2>1, <2>8 DEF CurrentSIDError, Login, Kinds
  <2>9. CASE IssueCodeUnjoined(w)
    BY <2>1, <2>9 DEF IssueCodeUnjoined, Login, Kinds
  <2>10. QED
    BY <1>3, <2>2, <2>3, <2>4, <2>5, <2>6, <2>7, <2>8, <2>9
<1>4. ASSUME NEW l \in Logouts, NEW c \in Clients, AskLogout(l, c) PROVE TypeOK'
  <2>1. rp' \in [Clients -> RPCookies]
    BY <1>4 DEF AskLogout, RPCookies
  <2>2. logouts' \in [Logouts -> {Idle} \cup Logout]
    BY <1>4 DEF AskLogout, NewLogout, Logout
  <2>3. QED
    BY <1>4, <2>1, <2>2, LookupSessionEffect DEF AskLogout
<1>5. ASSUME NEW l \in Logouts, AskProvider(l) \/ Confirm(l) \/ FinishLogout(l)
      PROVE  TypeOK'
  <2> USE DEF LogoutGoes, Ticks
  <2>1. logouts[l].pc = "idle" \/ logouts[l] \in Logout
    BY LogoutType
  <2>2. CASE AskProvider(l)
    BY <2>2 DEF AskProvider, NewLogout, Logout
  <2>3. CASE Confirm(l)
    <3>1. logouts' \in [Logouts -> {Idle} \cup Logout]
      BY <2>1, <2>3 DEF Confirm, Logout
    <3>2. QED
      BY <2>3, <3>1, LookupSessionEffect DEF Confirm
  <2>4. CASE CurrentSIDToEnd(l)
    <3>1. logouts' \in [Logouts -> {Idle} \cup Logout]
      BY <2>1, <2>4 DEF CurrentSIDToEnd, Logout
    <3>2. QED
      BY <2>4, <3>1, LookupSessionEffect DEF CurrentSIDToEnd
  <2>5. CASE CurrentUserToEnd(l)
    <3>1. logouts' \in [Logouts -> {Idle} \cup Logout]
      BY <2>1, <2>5 DEF CurrentUserToEnd, Logout
    <3>2. QED
      BY <2>5, <3>1, LookupSessionEffect DEF CurrentUserToEnd
  <2>6. CASE ListForBackChannel(l)
    BY <2>1, <2>6 DEF ListForBackChannel, Logout
  <2>7. CASE ListForFrontChannel(l)
    BY <2>1, <2>7 DEF ListForFrontChannel, Logout
  <2>8. CASE EndBrowserSession(l)
    <3>1. logouts' \in [Logouts -> {Idle} \cup Logout]
      BY <2>1, <2>8 DEF EndBrowserSession, Logout
    <3>2. QED
      BY <2>8, <3>1, DeleteSessionEffect DEF EndBrowserSession
  <2>9. CASE LoggedOut(l)
    <3>1. logouts' \in [Logouts -> {Idle} \cup Logout]
      BY <2>1, <2>9 DEF LoggedOut, Logout
    <3>2. rp' \in [Clients -> RPCookies]
      <4>1. ASSUME NEW c \in Clients
            PROVE  /\ [access |-> FALSE, sid |-> None, login |-> rp[c].login, logout |-> None]
                        \in RPCookies
                   /\ [rp[c] EXCEPT !.logout = None] \in RPCookies
        <5>1. rp[c] \in RPCookies
          BY <4>1
        <5>2. QED
          BY <5>1 DEF RPCookies
      <4>2. logouts[l].from \in Clients \cup {None}
        BY <2>1, <2>9 DEF LoggedOut, Logout
      <4>3. QED
        BY <2>9, <4>1, <4>2 DEF LoggedOut
    <3>3. QED
      BY <2>9, <3>1, <3>2 DEF LoggedOut
  <2>10. ASSUME NEW c \in Clients, Notify(l, c) \/ LoadFrame(l, c) PROVE TypeOK'
    <3>1. logouts' \in [Logouts -> {Idle} \cup Logout]
      BY <2>1, <2>10 DEF Notify, LoadFrame, Logout
    <3>2. revoked' \in [Clients -> SUBSET Sids]
      BY <2>1, <2>10 DEF Notify, LoadFrame, RevokeSid, Logout
    <3>3. QED
      BY <2>10, <3>1, <3>2 DEF Notify, LoadFrame
  <2>11. QED
    BY <1>5, <2>2, <2>3, <2>4, <2>5, <2>6, <2>7, <2>8, <2>9, <2>10 DEF FinishLogout
<1>6. ASSUME NEW l \in Logouts,
             \/ CurrentSIDToEndError(l) \/ ListError(l)
             \/ EndBrowserSessionError(l) \/ AbortLogout(l)
      PROVE  TypeOK'
  <2> USE DEF LogoutGoes, Kinds
  <2>1. logouts[l].pc = "idle" \/ logouts[l] \in Logout
    BY LogoutType
  <2>2. CASE CurrentSIDToEndError(l)
    BY <2>1, <2>2 DEF CurrentSIDToEndError, Logout
  <2>3. CASE ListError(l)
    BY <2>1, <2>3 DEF ListError, Logout
  <2>4. CASE EndBrowserSessionError(l)
    <3>1. logouts' \in [Logouts -> {Idle} \cup Logout]
      BY <2>1, <2>4 DEF EndBrowserSessionError, Logout
    <3>2. /\ sessions' \in [Sids -> {"none", "valid", "expired", "lapsed", "ended"}]
          /\ members' \in [Sids -> SUBSET Clients]
      BY <2>4 DEF EndBrowserSessionError, DeleteClientsOnly
    <3>3. QED
      BY <2>4, <3>1, <3>2 DEF EndBrowserSessionError
  <2>5. CASE AbortLogout(l)
    BY <2>1, <2>5 DEF AbortLogout, Logout, Idle
  <2>6. QED
    BY <1>6, <2>2, <2>3, <2>4, <2>5
<1>7. ASSUME NEW l \in Logouts, NEW c \in Clients, LoseNotice(l, c) \/ LoseFrame(l, c)
      PROVE  TypeOK'
  <2>1. logouts[l] \in Logout
    BY <1>7, LogoutType DEF LoseNotice, LoseFrame
  <2>2. QED
    BY <1>7, <2>1 DEF LoseNotice, LoseFrame, Ticks, Logout, Kinds
<1>8. ASSUME NEW s \in Sids, LookupSessionError(s) PROVE TypeOK'
  BY <1>8 DEF LookupSessionError, Kinds
<1>9. ASSUME NEW c \in Clients, RestartRP(c) PROVE TypeOK'
  BY <1>9 DEF RestartRP, Kinds
<1>10. CASE UNCHANGED vars
  BY <1>10 DEF vars
<1>11. QED
  BY <1>1, <1>2, <1>3, <1>4, <1>5, <1>6, <1>7, <1>8, <1>9, <1>10
     DEF Next, LoginStep, LogoutStep, Failure

(* The tables, the browser and the requests in flight keep their types in *)
(* every behaviour, with every failure.                                   *)
THEOREM TypeCorrect == Spec => []TypeOK
<1>1. Init => TypeOK
  BY DEF Init, TypeOK, SidOrNone, RPCookies
<1>2. QED
  BY <1>1, TypeStep, PTL DEF Spec

(***************************************************************************)
(* Every step keeps the inductive invariant.  Most steps take no session   *)
(* back and give nobody a sid he did not hold; the others are those of a   *)
(* login, and StartSession.                                                *)
(***************************************************************************)
LEMMA HarmlessStep ==
  ASSUME LogoutInv, TypeOK', Harmless, cookie' \in {cookie, None},
         \A w \in Tabs : tabs'[w].pc = "idle" \/ tabs'[w] = tabs[w],
         \A c \in Clients : rp'[c].sid \in {rp[c].sid, None}
  PROVE  LogoutInv'
<1>1. KnownSids'
  BY DEF LogoutInv, TypeOK, KnownSids, Harmless, SidOrNone, Login, RPCookies, Idle
<1>2. Joined'
  <2> SUFFICES ASSUME failed' \cap Lossy = {} PROVE
        /\ \A w \in Tabs : tabs'[w].pc = "callback" /\ Live(tabs[w].sid)' =>
             tabs'[w].client \in members'[tabs'[w].sid]
        /\ \A c \in Clients : Live(rp[c].sid)' => c \in members'[rp'[c].sid]
    BY DEF Joined, Lossy, Live
  <2>1. failed \cap Lossy = {}
    BY DEF Harmless
  <2>2. ASSUME NEW w \in Tabs, tabs'[w].pc = "callback", Live(tabs[w].sid)'
        PROVE  tabs'[w].client \in members'[tabs'[w].sid]
    <3>1. tabs'[w] = tabs[w]
      BY <2>2
    <3>2. tabs[w].sid \in Sids
      BY <2>2, <3>1, TabType DEF LogoutInv, Login, SidOrNone, Live
    <3>3. QED
      BY <2>1, <2>2, <3>1, <3>2 DEF LogoutInv, Joined, Lossy, Harmless, Live
  <2>3. ASSUME NEW c \in Clients, Live(rp[c].sid)'
        PROVE  c \in members'[rp'[c].sid]
    <3>1. rp'[c].sid = rp[c].sid /\ rp[c].sid \in Sids
      BY <2>3 DEF LogoutInv, TypeOK, RPCookies, SidOrNone, Live
    <3>2. QED
      BY <2>1, <2>3, <3>1 DEF LogoutInv, Joined, Lossy, Harmless, Live
  <2>4. QED
    BY <2>2, <2>3
<1>3. QED
  BY <1>1, <1>2 DEF LogoutInv

(* The steps of a login that has begun, and of a logout. *)
LoginGoesOn(w) ==
  \/ CurrentUser(w) \/ Consent(w) \/ CurrentSID(w) \/ IssueCode(w)
  \/ RememberSid(w) \/ GiveUp(w) \/ CurrentSIDError(w) \/ IssueCodeUnjoined(w)

LEMMA LoginIsOpen ==
  ASSUME NEW w \in Tabs, LoginGoesOn(w)
  PROVE  tabs[w] # Idle
<1>0. Idle.pc = "idle"
  BY DEF Idle
<1>1. CASE CurrentUser(w)
  BY <1>0, <1>1 DEF CurrentUser
<1>2. CASE Consent(w)
  BY <1>0, <1>2 DEF Consent
<1>3. CASE CurrentSID(w)
  BY <1>0, <1>3 DEF CurrentSID
<1>4. CASE IssueCode(w)
  BY <1>0, <1>4 DEF IssueCode
<1>5. CASE RememberSid(w)
  BY <1>0, <1>5 DEF RememberSid
<1>6. CASE GiveUp(w)
  BY <1>0, <1>6 DEF GiveUp
<1>7. CASE CurrentSIDError(w)
  BY <1>0, <1>7 DEF CurrentSIDError
<1>8. CASE IssueCodeUnjoined(w)
  BY <1>0, <1>8 DEF IssueCodeUnjoined
<1>9. QED
  BY <1>1, <1>2, <1>3, <1>4, <1>5, <1>6, <1>7, <1>8 DEF LoginGoesOn

LogoutGoesOn(l) ==
  \/ AskProvider(l) \/ Confirm(l) \/ FinishLogout(l)
  \/ CurrentSIDToEndError(l) \/ ListError(l)
  \/ EndBrowserSessionError(l) \/ AbortLogout(l)
  \/ \E c \in Clients : AskLogout(l, c) \/ LoseNotice(l, c) \/ LoseFrame(l, c)

LEMMA LoginStepKeeps ==
  ASSUME LogoutInv, TypeOK', NEW w \in Tabs, LoginGoesOn(w)
  PROVE  LogoutInv'
<1> USE DEF TabGoes, TabCloses, NoFault
<1>1. TypeOK
  BY DEF LogoutInv
<1>2. tabs[w] \in Login
  BY <1>1, TabType DEF LoginGoesOn, CurrentUser, Consent, CurrentSID, IssueCode,
     RememberSid, GiveUp, CurrentSIDError, IssueCodeUnjoined, Idle, TypeOK
<1>3. CASE CurrentUser(w) \/ Consent(w) \/ CurrentSID(w) \/ CurrentSIDError(w)
  <2>1. Harmless
    BY <1>1, <1>3, LookupSessionEffect
       DEF CurrentUser, Consent, CurrentSID, CurrentSIDError, Harmless, Fault, Live
  <2>2. tabs'[w].pc # "callback" /\ \A x \in Tabs : x # w => tabs'[x] = tabs[x]
    BY <1>1, <1>2, <1>3
       DEF CurrentUser, Consent, CurrentSID, CurrentSIDError, TypeOK, Login, Idle
  <2>3. tabs'[w].pc # "idle" =>
          /\ tabs'[w].cookie \in {tabs[w].cookie, cookie}
          /\ tabs'[w].sid \in {tabs[w].sid, tabs[w].cookie, None}
    BY <1>1, <1>2, <1>3
       DEF CurrentUser, Consent, CurrentSID, CurrentSIDError, TypeOK, Login, Idle
  <2>4. cookie' = cookie /\ rp' = rp
    BY <1>3 DEF CurrentUser, Consent, CurrentSID, CurrentSIDError
  <2>5. KnownSids'
    <3>1. \A s \in SidOrNone : s # None /\ sessions[s] # "none" => sessions'[s] # "none"
      BY <2>1 DEF Harmless, SidOrNone
    <3>2. tabs[w].pc # "idle"
      BY <1>2 DEF Login
    <3>3. ASSUME NEW x \in Tabs, tabs'[x].pc # "idle"
          PROVE  /\ tabs'[x].cookie # None => sessions'[tabs'[x].cookie] # "none"
                 /\ tabs'[x].sid # None => sessions'[tabs'[x].sid] # "none"
      <4>1. CASE x = w
        BY <1>1, HeldSids, <2>3, <3>1, <3>2, <3>3, <4>1 DEF LogoutInv, KnownSids, SidOrNone
      <4>2. CASE x # w
        BY <1>1, HeldSids, <2>2, <3>1, <3>3, <4>2 DEF LogoutInv, KnownSids, SidOrNone
      <4>3. QED
        BY <4>1, <4>2
    <3>4. QED
      BY <1>1, HeldSids, <2>4, <3>1, <3>3 DEF LogoutInv, KnownSids
  <2>6. Joined'
    BY <1>1, HeldSids, <2>1, <2>2, <2>4
       DEF LogoutInv, Joined, Harmless, Lossy, SidOrNone, Live
  <2>7. QED
    BY <2>5, <2>6 DEF LogoutInv
<1>4. CASE IssueCode(w)
  <2>1. Harmless
    BY <1>1, <1>4 DEF IssueCode, AddSessionClient, Harmless, TypeOK, Live
  <2>2. tabs'[w] = [tabs[w] EXCEPT !.pc = "callback"]
    BY <1>1, <1>4 DEF IssueCode, TypeOK
  <2>3. \A x \in Tabs : x # w => tabs'[x] = tabs[x]
    BY <1>1, <1>4 DEF IssueCode, TypeOK
  <2>4. KnownSids'
    BY <1>1, <1>2, <1>4, <2>2, <2>3 DEF IssueCode, LogoutInv, KnownSids, Login
  <2>5. Joined'
    <3>1. tabs'[w].sid = tabs[w].sid /\ tabs'[w].client = tabs[w].client
      BY <1>2, <2>2 DEF Login
    <3>2. UNCHANGED <<sessions, rp, failed>>
      BY <1>4 DEF IssueCode
    <3>3. tabs[w].client \in Clients /\ tabs[w].sid \in SidOrNone
      BY <1>2 DEF Login
    <3>4. /\ Live(tabs[w].sid) => tabs[w].client \in members'[tabs[w].sid]
          /\ \A x \in Sids : members[x] \subseteq members'[x]
      BY <1>1, <1>4, <3>3 DEF IssueCode, AddSessionClient, TypeOK, SidOrNone, Live
    <3>5. /\ \A x \in Tabs : tabs[x].pc = "callback" => tabs[x].sid \in SidOrNone
          /\ \A c \in Clients : rp[c].sid \in SidOrNone
      BY <1>1, HeldSids
    <3>6. QED
      BY <2>3, <3>1, <3>2, <3>4, <3>5 DEF LogoutInv, Joined, SidOrNone, Live
  <2>6. QED
    BY <2>4, <2>5 DEF LogoutInv
<1>5. CASE RememberSid(w)
  <2>1. tabs'[w] = Idle /\ \A x \in Tabs : x # w => tabs'[x] = tabs[x]
    BY <1>1, <1>5 DEF RememberSid, TypeOK
  <2>2. \A c \in Clients : \/ rp'[c].sid = rp[c].sid
                           \/ c = tabs[w].client /\ rp'[c].sid = tabs[w].sid
    <3>1. rp \in [Clients -> RPCookies]
      BY <1>1 DEF TypeOK
    <3>2. ASSUME NEW c \in Clients, c # tabs[w].client PROVE rp'[c] = rp[c]
      BY <1>5, <3>1, <3>2 DEF RememberSid
    <3>3. ASSUME NEW c \in Clients, c = tabs[w].client
          PROVE  rp'[c].sid \in {rp[c].sid, tabs[w].sid}
      <4>1. rp'[c] = [rp[c] EXCEPT !.access = TRUE, !.login = None,
                                   !.sid = IF tabs[w].sid = None THEN @ ELSE tabs[w].sid]
        BY <1>5, <3>1, <3>3 DEF RememberSid
      <4>2. rp[c] \in RPCookies
        BY <3>1
      <4>3. QED
        BY <4>1, <4>2 DEF RPCookies
    <3>4. QED
      BY <3>2, <3>3
  <2>3. tabs[w].pc = "callback"
    BY <1>5 DEF RememberSid
  <2>4. UNCHANGED <<sessions, members, cookie, failed>>
    BY <1>5 DEF RememberSid
  <2>5. KnownSids'
    BY <2>1, <2>2, <2>3, <2>4 DEF LogoutInv, KnownSids, Idle
  <2>6. Joined'
    <3>1. \A x \in Tabs : tabs'[x].pc = "callback" => tabs[x].pc = "callback" /\ tabs'[x] = tabs[x]
      BY <2>1 DEF Idle
    <3>2. ASSUME failed \cap {"join", "lapse", "end"} = {}, NEW c \in Clients,
                 Live(rp'[c].sid)
          PROVE  c \in members[rp'[c].sid]
      <4>1. CASE rp'[c].sid = rp[c].sid
        BY <3>2, <4>1 DEF LogoutInv, Joined
      <4>2. CASE c = tabs[w].client /\ rp'[c].sid = tabs[w].sid
        BY <2>3, <3>2, <4>2 DEF LogoutInv, Joined
      <4>3. QED
        BY <2>2, <4>1, <4>2
    <3>3. QED
      BY <2>4, <3>1, <3>2 DEF LogoutInv, Joined, Live
  <2>7. QED
    BY <2>5, <2>6 DEF LogoutInv
<1>6. CASE GiveUp(w)
  <2>1. Harmless
    BY <1>1, <1>6 DEF GiveUp, Harmless, Live
  <2>2. QED
    BY <1>1, <1>6, <2>1, HarmlessStep DEF GiveUp, TypeOK, Idle
<1>7. CASE IssueCodeUnjoined(w)
  <2>1. tabs'[w] = [tabs[w] EXCEPT !.pc = "callback"]
    BY <1>1, <1>7 DEF IssueCodeUnjoined, TypeOK
  <2>2. \A x \in Tabs : x # w => tabs'[x] = tabs[x]
    BY <1>1, <1>7 DEF IssueCodeUnjoined, TypeOK
  <2>3. KnownSids'
    BY <1>1, <1>2, <1>7, <2>1, <2>2 DEF IssueCodeUnjoined, LogoutInv, KnownSids, Login
  <2>4. Joined'
    BY <1>7 DEF IssueCodeUnjoined, Joined, Fault
  <2>5. QED
    BY <2>3, <2>4 DEF LogoutInv
<1>8. QED
  BY <1>3, <1>4, <1>5, <1>6, <1>7 DEF LoginGoesOn

LEMMA LogoutStepKeeps ==
  ASSUME LogoutInv, TypeOK', NEW l \in Logouts, LogoutGoesOn(l)
  PROVE  LogoutInv'
<1>1. TypeOK
  BY DEF LogoutInv
<1>2. tabs' = tabs /\ cookie' \in {cookie, None}
  BY DEF LogoutGoesOn, FinishLogout, AskProvider, Confirm, CurrentSIDToEnd, CurrentUserToEnd,
     ListForBackChannel, ListForFrontChannel, EndBrowserSession, LoggedOut, Notify, LoadFrame,
     CurrentSIDToEndError, ListError, EndBrowserSessionError, AbortLogout, AskLogout,
     LoseNotice, LoseFrame
<1>3. \A c \in Clients : rp'[c].sid \in {rp[c].sid, None}
  <2>1. ASSUME NEW c \in Clients, AskLogout(l, c)
        PROVE  \A x \in Clients : rp'[x].sid = rp[x].sid
    BY <1>1, <2>1 DEF AskLogout, TypeOK, RPCookies
  <2>2. CASE LoggedOut(l)
    BY <1>1, <2>2 DEF LoggedOut, TypeOK, RPCookies
  <2>3. CASE rp' = rp
    BY <2>3
  <2>4. QED
    BY <2>1, <2>2, <2>3 DEF LogoutGoesOn, FinishLogout, AskProvider, Confirm,
       CurrentSIDToEnd, CurrentUserToEnd, ListForBackChannel, ListForFrontChannel,
       EndBrowserSession, Notify, LoadFrame, CurrentSIDToEndError, ListError,
       EndBrowserSessionError, AbortLogout, LoseNotice, LoseFrame
<1>4. Harmless
  <2> USE DEF NoFault, Fault, Harmless
  <2>1. CASE \/ AskProvider(l) \/ ListForBackChannel(l) \/ ListForFrontChannel(l)
             \/ LoggedOut(l) \/ CurrentSIDToEndError(l) \/ ListError(l) \/ AbortLogout(l)
             \/ \E c \in Clients : \/ Notify(l, c) \/ LoadFrame(l, c)
                                   \/ LoseNotice(l, c) \/ LoseFrame(l, c)
    <3>1. UNCHANGED <<sessions, members>> /\ failed \subseteq failed'
      BY <2>1 DEF AskProvider, ListForBackChannel, ListForFrontChannel, LoggedOut,
         CurrentSIDToEndError, ListError, AbortLogout, Notify, LoadFrame, LoseNotice, LoseFrame
    <3>2. QED
      BY <3>1 DEF Live
  <2>2. CASE Confirm(l) \/ CurrentSIDToEnd(l) \/ CurrentUserToEnd(l)
    BY <1>1, <2>2, LookupSessionEffect DEF Confirm, CurrentSIDToEnd, CurrentUserToEnd
  <2>3. ASSUME NEW c \in Clients, AskLogout(l, c) PROVE Harmless
    BY <1>1, <2>3, LookupSessionEffect DEF AskLogout
  <2>4. CASE EndBrowserSession(l)
    BY <1>1, <2>4, DeleteSessionEffect DEF EndBrowserSession
  <2>5. CASE EndBrowserSessionError(l)
    <3>1. "end" \in failed'
      BY <2>5 DEF EndBrowserSessionError
    <3>2. \A s \in Sids : sessions[s] # "none" => sessions'[s] # "none"
      BY <1>1, <2>5 DEF EndBrowserSessionError, DeleteClientsOnly, TypeOK
    <3>3. QED
      BY <2>5, <3>1, <3>2 DEF EndBrowserSessionError, Lossy
  <2>6. QED
    BY <2>1, <2>2, <2>3, <2>4, <2>5 DEF LogoutGoesOn, FinishLogout
<1>5. QED
  BY <1>2, <1>3, <1>4, HarmlessStep

LEMMA InvStep == LogoutInv /\ [Next]_vars => LogoutInv'
<1> SUFFICES ASSUME LogoutInv, [Next]_vars PROVE LogoutInv'
  OBVIOUS
<1>1. TypeOK /\ TypeOK'
  BY TypeStep DEF LogoutInv
<1>2. CASE SessionStep
  <2>1. CASE OpenHome
    <3>1. Harmless
      BY <1>1, <2>1, LookupSessionEffect DEF OpenHome, NoFault, Harmless
    <3>2. QED
      BY <1>1, <2>1, <3>1, HarmlessStep DEF OpenHome
  <2>2. ASSUME NEW s \in Sids, StartSession(s) PROVE LogoutInv'
    <3>1. KnownSids'
      BY <1>1, <2>2 DEF LogoutInv, KnownSids, StartSession, TypeOK, Login, RPCookies, SidOrNone
    <3>2. Joined'
      <4>1. \A w \in Tabs : tabs[w].pc = "callback" => tabs[w].sid # s
        BY <2>2 DEF LogoutInv, KnownSids, StartSession
      <4>2. \A c \in Clients : rp[c].sid # s
        BY <2>2 DEF LogoutInv, KnownSids, StartSession
      <4>3. \A x : x # s => (Live(x)' <=> Live(x))
        BY <1>1, <2>2 DEF StartSession, Live, TypeOK
      <4>4. QED
        BY <2>2, <4>1, <4>2, <4>3 DEF LogoutInv, Joined, StartSession, NoFault
    <3>3. QED
      BY <1>1, <3>1, <3>2 DEF LogoutInv
  <2>3. ASSUME NEW s \in Sids, Expire(s) PROVE LogoutInv'
    <3>1. Harmless
      BY <1>1, <2>3 DEF Expire, NoFault, Harmless, Live, TypeOK
    <3>2. QED
      BY <1>1, <2>3, <3>1, HarmlessStep DEF Expire
  <2>4. QED
    BY <1>2, <2>1, <2>2, <2>3 DEF SessionStep
<1>3. ASSUME NEW w \in Tabs, NEW c \in Clients, Authorize(w, c) PROVE LogoutInv'
  <2>1. KnownSids'
    BY <1>1, <1>3 DEF LogoutInv, KnownSids, Authorize, TypeOK
  <2>2. Joined'
    BY <1>1, <1>3 DEF LogoutInv, Joined, Authorize, NoFault, TypeOK, Live
  <2>3. QED
    BY <1>1, <2>1, <2>2 DEF LogoutInv
<1>4. ASSUME NEW w \in Tabs, LoginGoesOn(w) PROVE LogoutInv'
  BY <1>1, <1>4, LoginStepKeeps
<1>5. ASSUME NEW l \in Logouts, LogoutGoesOn(l) PROVE LogoutInv'
  BY <1>1, <1>5, LogoutStepKeeps
<1>6. ASSUME NEW s \in Sids, LookupSessionError(s) PROVE LogoutInv'
  <2>1. Harmless
    BY <1>1, <1>6 DEF LookupSessionError, Fault, Harmless, Lossy
  <2>2. QED
    BY <1>1, <1>6, <2>1, HarmlessStep DEF LookupSessionError
<1>7. ASSUME NEW c \in Clients, RestartRP(c) PROVE LogoutInv'
  <2>1. Harmless
    BY <1>1, <1>7 DEF RestartRP, Fault, Harmless, Live
  <2>2. QED
    BY <1>1, <1>7, <2>1, HarmlessStep DEF RestartRP
<1>8. CASE UNCHANGED vars
  <2>1. Harmless
    BY <1>8 DEF vars, Harmless, Live
  <2>2. QED
    BY <1>1, <1>8, <2>1, HarmlessStep DEF vars
<1>9. QED
  BY <1>2, <1>3, <1>4, <1>5, <1>6, <1>7, <1>8
     DEF Next, LoginStep, LogoutStep, Failure, LoginGoesOn, LogoutGoesOn

(* A sid in use was started, and who holds the sid of a session that lives   *)
(* on has joined it, but for dropped errors.                                 *)
THEOREM LogoutInvariant == Spec => []LogoutInv
<1>1. Init => LogoutInv
  BY DEF Init, LogoutInv, TypeOK, KnownSids, Joined, SidOrNone, RPCookies, Idle, Live
<1>2. QED
  BY <1>1, InvStep, PTL DEF Spec

(* Every RP that shows a user logged in under a session the provider still   *)
(* has is among the clients its logout notifies.                             *)
THEOREM NoLoginIsMissed == Spec => []LiveLoginsAreMembers
<1>1. LogoutInv => LiveLoginsAreMembers
  BY DEF LogoutInv, Joined, LiveLoginsAreMembers, LoggedInUnder
<1>2. QED
  BY <1>1, LogoutInvariant, PTL

(***************************************************************************)
(* A logout and the RPs that were logged in before it.  What a step does   *)
(* to them is said first: to a session, to an RP without a login in        *)
(* flight, to the logins in flight, and to the logouts.                    *)
(***************************************************************************)
(* A session that lives is left alone, with its list, or lapses.           *)
Gentle(s) ==
  Live(s) => sessions'[s] = "lapsed" \/ (Live(s)' /\ members[s] \subseteq members'[s])

(* An RP forgets no revoked sid, and shows nobody logged in anew.          *)
Quiet(c) ==
  /\ revoked[c] \subseteq revoked'[c]
  /\ rp'[c].access => rp[c].access /\ rp'[c].sid = rp[c].sid

LEMMA LookupSessionIsGentle ==
  ASSUME TypeOK, NEW s \in Sids, NEW x, LookupSession(x)
  PROVE  Gentle(s)
  BY DEF TypeOK, LookupSession, DeleteSession, Live, Valid, Gentle

(* A session that has ended or lapsed never changes again.                 *)
LEMMA GoneStaysGone ==
  ASSUME TypeOK, [Next]_vars, NEW s \in Sids, sessions[s] # "none"
  PROVE  /\ sessions'[s] # "none"
         /\ ~Live(s) => sessions'[s] = sessions[s]
<1>1. ASSUME NEW x, LookupSession(x)
      PROVE  sessions'[s] # "none" /\ (~Live(s) => sessions'[s] = sessions[s])
  BY <1>1 DEF TypeOK, LookupSession, DeleteSession, Live, Valid
<1>2. CASE UNCHANGED sessions
  BY <1>2
<1>3. CASE SessionStep
  BY <1>1, <1>3 DEF SessionStep, OpenHome, StartSession, Expire, TypeOK, Live
<1>4. ASSUME NEW w \in Tabs, LoginGoesOn(w)
      PROVE  sessions'[s] # "none" /\ (~Live(s) => sessions'[s] = sessions[s])
  BY <1>1, <1>2, <1>4 DEF LoginGoesOn, CurrentUser, Consent, CurrentSID, IssueCode,
     RememberSid, GiveUp, CurrentSIDError, IssueCodeUnjoined
<1>5. ASSUME NEW l \in Logouts, LogoutGoesOn(l)
      PROVE  sessions'[s] # "none" /\ (~Live(s) => sessions'[s] = sessions[s])
  <2>1. CASE EndBrowserSession(l)
    BY <2>1 DEF EndBrowserSession, DeleteSession, TypeOK
  <2>2. CASE EndBrowserSessionError(l)
    BY <1>2, <2>2 DEF EndBrowserSessionError, DeleteClientsOnly, TypeOK
  <2>3. CASE ~EndBrowserSession(l) /\ ~EndBrowserSessionError(l)
    BY <1>1, <1>2, <1>5, <2>3
       DEF LogoutGoesOn, FinishLogout, AskProvider, Confirm, CurrentSIDToEnd,
           CurrentUserToEnd, ListForBackChannel, ListForFrontChannel, LoggedOut, Notify,
           LoadFrame, CurrentSIDToEndError, ListError, AbortLogout, AskLogout,
           LoseNotice, LoseFrame
  <2>4. QED
    BY <2>1, <2>2, <2>3
<1>6. ASSUME NEW w \in Tabs, NEW c \in Clients, Authorize(w, c) PROVE UNCHANGED sessions
  BY <1>6 DEF Authorize
<1>7. ASSUME NEW x \in Sids, LookupSessionError(x) PROVE UNCHANGED sessions
  BY <1>7 DEF LookupSessionError
<1>8. ASSUME NEW c \in Clients, RestartRP(c) PROVE UNCHANGED sessions
  BY <1>8 DEF RestartRP
<1>9. CASE UNCHANGED vars
  BY <1>2, <1>9 DEF vars
<1>10. QED
  BY <1>2, <1>3, <1>4, <1>5, <1>6, <1>7, <1>8, <1>9
     DEF Next, LoginStep, LogoutStep, Failure, LoginGoesOn, LogoutGoesOn

(* Only a login in flight shows anybody logged in at an RP anew, and only a   *)
(* restart makes an RP forget.                                             *)
LEMMA QuietWithoutLogins ==
  ASSUME TypeOK, [Next]_vars, NEW c \in Clients, ~InFlight(c), "restart" \notin failed'
  PROVE  Quiet(c)
<1> USE DEF Quiet
<1>1. CASE UNCHANGED <<rp, revoked>>
  BY <1>1
<1>2. ASSUME NEW w \in Tabs, NEW d \in Clients, Authorize(w, d) PROVE Quiet(c)
  BY <1>2 DEF Authorize, TypeOK, RPCookies
<1>3. ASSUME NEW w \in Tabs, LoginGoesOn(w) PROVE Quiet(c)
  <2>1. CASE RememberSid(w)
    <3>1. tabs[w] # Idle /\ tabs[w].client # c
      BY <2>1 DEF RememberSid, InFlight, Idle
    <3>2. rp'[c] = rp[c] /\ revoked'[c] = revoked[c]
      BY <2>1, <3>1 DEF RememberSid, TypeOK
    <3>3. QED
      BY <3>2
  <2>2. CASE ~RememberSid(w)
    BY <1>1, <1>3, <2>2 DEF LoginGoesOn, CurrentUser, Consent, CurrentSID, IssueCode,
       GiveUp, CurrentSIDError, IssueCodeUnjoined
  <2>3. QED
    BY <2>1, <2>2
<1>4. ASSUME NEW l \in Logouts, LogoutGoesOn(l) PROVE Quiet(c)
  <2>1. ASSUME NEW d \in Clients, AskLogout(l, d) PROVE Quiet(c)
    BY <2>1 DEF AskLogout, TypeOK, RPCookies
  <2>2. ASSUME NEW d \in Clients, Notify(l, d) \/ LoadFrame(l, d) PROVE Quiet(c)
    BY <2>2 DEF Notify, LoadFrame, RevokeSid, TypeOK
  <2>3. CASE LoggedOut(l)
    BY <2>3 DEF LoggedOut, TypeOK, RPCookies
  <2>4. CASE UNCHANGED <<rp, revoked>>
    BY <1>1, <2>4
  <2>5. QED
    BY <1>4, <2>1, <2>2, <2>3, <2>4
       DEF LogoutGoesOn, FinishLogout, AskProvider, Confirm, CurrentSIDToEnd,
           CurrentUserToEnd, ListForBackChannel, ListForFrontChannel, EndBrowserSession,
           CurrentSIDToEndError, ListError, EndBrowserSessionError, AbortLogout,
           LoseNotice, LoseFrame
<1>5. ASSUME NEW d \in Clients, RestartRP(d) PROVE FALSE
  BY <1>5 DEF RestartRP, Fault
<1>6. ASSUME NEW x \in Sids, LookupSessionError(x) PROVE UNCHANGED <<rp, revoked>>
  BY <1>6 DEF LookupSessionError
<1>7. CASE SessionStep
  BY <1>1, <1>7 DEF SessionStep, OpenHome, StartSession, Expire
<1>8. CASE UNCHANGED vars
  BY <1>1, <1>8 DEF vars
<1>9. QED
  BY <1>1, <1>2, <1>3, <1>4, <1>5, <1>6, <1>7, <1>8
     DEF Next, LoginStep, LogoutStep, Failure, LoginGoesOn, LogoutGoesOn

(* A live session lapses, is ended by a logout, or stays, with its list.   *)
LEMMA OnlyLogoutsAreHarsh ==
  ASSUME TypeOK, [Next]_vars, NEW s \in Sids, "lapse" \notin failed',
         \A k \in Logouts : ~EndBrowserSession(k) /\ ~EndBrowserSessionError(k)
  PROVE  Gentle(s)
<1>1. CASE UNCHANGED <<sessions, members>>
  BY <1>1 DEF Gentle, Live
<1>2. CASE SessionStep
  <2>1. CASE OpenHome
    BY <2>1, LookupSessionIsGentle DEF OpenHome
  <2>2. ASSUME NEW x \in Sids, StartSession(x) \/ Expire(x) PROVE Gentle(s)
    BY <2>2 DEF StartSession, Expire, TypeOK, Gentle, Live
  <2>3. QED
    BY <1>2, <2>1, <2>2 DEF SessionStep
<1>3. ASSUME NEW w \in Tabs, LoginGoesOn(w) PROVE Gentle(s)
  <2>1. CASE CurrentUser(w) \/ CurrentSID(w)
    BY <2>1, LookupSessionIsGentle DEF CurrentUser, CurrentSID
  <2>2. CASE IssueCode(w)
    BY <2>2 DEF IssueCode, AddSessionClient, TypeOK, Gentle, Live
  <2>3. QED
    BY <1>1, <1>3, <2>1, <2>2 DEF LoginGoesOn, Consent, RememberSid, GiveUp,
       CurrentSIDError, IssueCodeUnjoined
<1>4. ASSUME NEW l \in Logouts, LogoutGoesOn(l) PROVE Gentle(s)
  <2>1. ASSUME NEW x, LookupSession(x) PROVE Gentle(s)
    BY <2>1, LookupSessionIsGentle
  <2>2. QED
    BY <1>1, <1>4, <2>1
       DEF LogoutGoesOn, FinishLogout, AskProvider, Confirm, CurrentSIDToEnd,
           CurrentUserToEnd, ListForBackChannel, ListForFrontChannel, LoggedOut, Notify,
           LoadFrame, CurrentSIDToEndError, ListError, AbortLogout, AskLogout,
           LoseNotice, LoseFrame
<1>5. ASSUME NEW w \in Tabs, NEW c \in Clients, Authorize(w, c)
      PROVE  UNCHANGED <<sessions, members>>
  BY <1>5 DEF Authorize
<1>6. ASSUME NEW x \in Sids, LookupSessionError(x) PROVE FALSE
  BY <1>6 DEF LookupSessionError, Fault
<1>7. ASSUME NEW c \in Clients, RestartRP(c) PROVE UNCHANGED <<sessions, members>>
  BY <1>7 DEF RestartRP
<1>8. CASE UNCHANGED vars
  BY <1>1, <1>8 DEF vars
<1>9. QED
  BY <1>1, <1>2, <1>3, <1>4, <1>5, <1>6, <1>7, <1>8
     DEF Next, LoginStep, LogoutStep, Failure, LoginGoesOn, LogoutGoesOn

(* A step either lets nothing fail, or one thing.                          *)
LEMMA FaultsAreCounted ==
  ASSUME TypeOK, FaultsCounted, [Next]_vars
  PROVE  FaultsCounted' /\ failed \subseteq failed'
<1>1. NoFault \/ \E kind : Fault(kind)
  BY DEF vars, NoFault, Next, SessionStep, LoginStep, LogoutStep, FinishLogout, Failure,
     OpenHome, StartSession, Expire, Authorize, CurrentUser, Consent, CurrentSID, IssueCode,
     RememberSid, GiveUp, AskLogout, AskProvider, Confirm, CurrentSIDToEnd,
     CurrentUserToEnd, ListForBackChannel, ListForFrontChannel, EndBrowserSession,
     LoggedOut, Notify, LoadFrame, CurrentSIDToEndError, ListError, EndBrowserSessionError,
     AbortLogout, LoseNotice, LoseFrame, CurrentSIDError, IssueCodeUnjoined,
     LookupSessionError, RestartRP
<1>2. faults \in Nat
  BY DEF TypeOK
<1>3. QED
  BY <1>1, <1>2 DEF NoFault, Fault, FaultsCounted

(* What a logout keeps of itself once it has read its sid.                 *)
KeepsRequest(l) ==
  /\ logouts'[l].sid = logouts[l].sid
  /\ logouts'[l].cookie = logouts[l].cookie
  /\ logouts'[l].early = logouts[l].early

(* A step of a logout leaves the other requests alone.                     *)
LEMMA LogoutStepsApart ==
  ASSUME TypeOK, NEW k \in Logouts, LogoutGoesOn(k)
  PROVE  /\ tabs' = tabs
         /\ \A l \in Logouts : l # k => logouts'[l] = logouts[l]
         /\ logouts'[k] # Idle
         /\ logouts[k].pc = "idle" => /\ AskProvider(k) \/ \E d \in Clients : AskLogout(k, d)
                                      /\ logouts'[k].pc \in {"confirm", "sid"}
                                      /\ logouts'[k].cookie = cookie
                                      /\ logouts'[k].sid = None
                                      /\ logouts'[k].early = {}
         /\ logouts[k].pc # "idle" =>
              \/ Confirm(k) \/ CurrentSIDToEnd(k)
              \/ /\ KeepsRequest(k)
                 /\ Begun(k)' => Begun(k) \/ CurrentSIDToEndError(k)
                 /\ logouts'[k].pc \notin {"idle", "confirm", "sid"}
<1> USE DEF LogoutGoes, Ticks, Idle
<1>1. ASSUME NEW d \in Clients, AskLogout(k, d) \/ AskProvider(k)
      PROVE  /\ tabs' = tabs /\ \A l \in Logouts : l # k => logouts'[l] = logouts[l]
             /\ logouts[k].pc = "idle"
             /\ logouts'[k].pc \in {"confirm", "sid"}
             /\ logouts'[k].cookie = cookie
             /\ logouts'[k].sid = None
             /\ logouts'[k].early = {}
  BY <1>1 DEF AskLogout, AskProvider, NewLogout, TypeOK
<1>2. CASE AskProvider(k)
  BY <1>2 DEF AskProvider, NewLogout, TypeOK
<1>3. CASE Confirm(k) \/ CurrentSIDToEnd(k)
  <2>1. logouts[k] \in Logout
    BY <1>3, LogoutType DEF Confirm, CurrentSIDToEnd
  <2>2. logouts'[k].pc \in {"sid", "subject"} /\ logouts[k].pc # "idle"
    BY <1>3, <2>1 DEF Confirm, CurrentSIDToEnd, TypeOK, Logout
  <2>3. QED
    BY <1>3, <2>2 DEF Confirm, CurrentSIDToEnd, TypeOK
<1>4. CASE \/ CurrentUserToEnd(k) \/ ListForBackChannel(k) \/ ListForFrontChannel(k)
           \/ EndBrowserSession(k) \/ LoggedOut(k)
           \/ \E d \in Clients : Notify(k, d) \/ LoadFrame(k, d)
  <2>1. logouts[k] \in Logout
    BY <1>4, LogoutType DEF CurrentUserToEnd, ListForBackChannel, ListForFrontChannel,
       EndBrowserSession, LoggedOut, Notify, LoadFrame
  <2>2. /\ logouts[k].pc \in {"subject", "back", "notify", "end", "frames"}
        /\ logouts'[k].pc \in {"subject", "back", "notify", "end", "frames", "done"}
        /\ KeepsRequest(k)
    BY <1>4, <2>1 DEF CurrentUserToEnd, ListForBackChannel, ListForFrontChannel,
       EndBrowserSession, LoggedOut, Notify, LoadFrame, KeepsRequest, TypeOK, Logout
  <2>3. tabs' = tabs /\ \A l \in Logouts : l # k => logouts'[l] = logouts[l]
    BY <1>4 DEF CurrentUserToEnd, ListForBackChannel, ListForFrontChannel,
       EndBrowserSession, LoggedOut, Notify, LoadFrame, TypeOK
  <2>4. QED
    BY <2>2, <2>3 DEF Begun
<1>5. CASE \/ CurrentSIDToEndError(k) \/ ListError(k) \/ EndBrowserSessionError(k)
           \/ AbortLogout(k) \/ \E d \in Clients : LoseNotice(k, d) \/ LoseFrame(k, d)
  <2>1. logouts[k].pc # "idle"
    BY <1>5, LogoutType DEF CurrentSIDToEndError, ListError, EndBrowserSessionError,
       AbortLogout, LoseNotice, LoseFrame, TypeOK, Logout
  <2>2. logouts[k] \in Logout
    BY <2>1, LogoutType
  <2>3. /\ logouts'[k].pc \in {"subject", "back", "notify", "end", "frames", "gone"}
        /\ KeepsRequest(k)
    BY <1>5, <2>2 DEF CurrentSIDToEndError, ListError, EndBrowserSessionError,
       AbortLogout, LoseNotice, LoseFrame, KeepsRequest, TypeOK, Logout
  <2>4. Begun(k)' => Begun(k) \/ CurrentSIDToEndError(k)
    BY <1>5, <2>1, <2>2 DEF ListError, EndBrowserSessionError, AbortLogout, LoseNotice,
       LoseFrame, Begun, TypeOK, Logout
  <2>5. tabs' = tabs /\ \A l \in Logouts : l # k => logouts'[l] = logouts[l]
    BY <1>5 DEF CurrentSIDToEndError, ListError, EndBrowserSessionError, AbortLogout,
       LoseNotice, LoseFrame, TypeOK
  <2>6. QED
    BY <2>1, <2>3, <2>4, <2>5
<1>6. QED
  BY <1>1, <1>2, <1>3, <1>4, <1>5 DEF LogoutGoesOn, FinishLogout

(* The other steps leave the logouts alone, but that a login that begins     *)
(* takes its RP from those a logout answers for.                           *)
LEMMA LogoutsWait ==
  ASSUME TypeOK, [Next]_vars, \A k \in Logouts : ~LogoutGoesOn(k)
  PROVE  /\ \A l \in Logouts :
              /\ logouts[l] = Idle => logouts'[l] = Idle
              /\ logouts[l] # Idle =>
                   /\ logouts'[l] # Idle
                   /\ \/ logouts'[l] = logouts[l]
                      \/ \E c \in Clients : logouts'[l] = [logouts[l] EXCEPT !.early = @ \ {c}]
                   /\ \A c \in logouts'[l].early : InFlight(c)' => InFlight(c)
         /\ failed \subseteq failed'
<1>1. CASE UNCHANGED <<tabs, logouts>> /\ failed \subseteq failed'
  BY <1>1 DEF InFlight
<1>2. ASSUME NEW w \in Tabs, NEW c \in Clients, Authorize(w, c)
      PROVE  /\ \A l \in Logouts :
                  /\ logouts[l] = Idle => logouts'[l] = Idle
                  /\ logouts[l] # Idle =>
                       /\ logouts'[l] # Idle
                       /\ logouts'[l] = [logouts[l] EXCEPT !.early = @ \ {c}]
                       /\ c \notin logouts'[l].early
             /\ \A d \in Clients : InFlight(d)' => InFlight(d) \/ d = c
             /\ failed' = failed
  <2>1. ASSUME NEW l \in Logouts
        PROVE  /\ logouts[l] = Idle => logouts'[l] = Idle
               /\ logouts[l] # Idle =>
                    /\ logouts'[l] # Idle
                    /\ logouts'[l] = [logouts[l] EXCEPT !.early = @ \ {c}]
                    /\ c \notin logouts'[l].early
    <3>1. logouts[l] = Idle \/ logouts[l] \in Logout
      BY DEF TypeOK
    <3>2. logouts'[l] = IF logouts[l] = Idle THEN Idle ELSE [logouts[l] EXCEPT !.early = @ \ {c}]
      BY <1>2 DEF Authorize
    <3>3. ASSUME logouts[l] \in Logout
          PROVE  /\ [logouts[l] EXCEPT !.early = @ \ {c}].pc # "idle"
                 /\ c \notin [logouts[l] EXCEPT !.early = @ \ {c}].early
      BY <3>3 DEF Logout
    <3>4. QED
      BY <3>1, <3>2, <3>3 DEF Idle
  <2>2. ASSUME NEW d \in Clients, d # c, InFlight(d)' PROVE InFlight(d)
    <3>1. PICK v \in Tabs : tabs'[v] # Idle /\ tabs'[v].client = d
      BY <2>2 DEF InFlight
    <3>2. v # w /\ tabs'[v] = tabs[v]
      BY <1>2, <2>2, <3>1 DEF Authorize, TypeOK
    <3>3. QED
      BY <3>1, <3>2 DEF InFlight
  <2>3. QED
    BY <1>2, <2>1, <2>2 DEF Authorize, NoFault
<1>3. ASSUME NEW w \in Tabs, LoginGoesOn(w)
      PROVE  /\ logouts' = logouts
             /\ \A d \in Clients : InFlight(d)' => InFlight(d)
             /\ failed \subseteq failed'
  <2>1. UNCHANGED logouts /\ failed \subseteq failed' /\ tabs[w] # Idle
    <3>0. tabs[w] # Idle
      BY <1>3, LoginIsOpen
    <3>1. CASE CurrentUser(w) \/ Consent(w) \/ CurrentSID(w)
      BY <3>0, <3>1 DEF CurrentUser, Consent, CurrentSID, NoFault
    <3>2. CASE IssueCode(w) \/ RememberSid(w) \/ GiveUp(w)
      BY <3>0, <3>2 DEF IssueCode, RememberSid, GiveUp, NoFault
    <3>3. CASE CurrentSIDError(w) \/ IssueCodeUnjoined(w)
      BY <3>0, <3>3 DEF CurrentSIDError, IssueCodeUnjoined, Fault
    <3>4. QED
      BY <1>3, <3>1, <3>2, <3>3 DEF LoginGoesOn
  <2>2. tabs[w] \in Login
    BY <2>1 DEF TypeOK
  <2>3. tabs'[w] = Idle \/ tabs'[w].client = tabs[w].client
    <3>1. CASE RememberSid(w) \/ GiveUp(w)
      BY <3>1 DEF RememberSid, GiveUp, TabCloses, TypeOK
    <3>2. CASE CurrentUser(w)
      BY <2>2, <3>2 DEF CurrentUser, TabGoes, TabCloses, TypeOK, Login
    <3>3. CASE IssueCode(w) \/ IssueCodeUnjoined(w)
      BY <2>2, <3>3 DEF IssueCode, IssueCodeUnjoined, TabGoes, TypeOK, Login
    <3>4. CASE Consent(w) \/ CurrentSID(w) \/ CurrentSIDError(w)
      BY <2>2, <3>4 DEF Consent, CurrentSID, CurrentSIDError, TabGoes, TypeOK, Login
    <3>5. QED
      BY <1>3, <3>1, <3>2, <3>3, <3>4 DEF LoginGoesOn
  <2>4. \A v \in Tabs : v # w => tabs'[v] = tabs[v]
    BY <1>3 DEF LoginGoesOn, CurrentUser, Consent, CurrentSID, IssueCode, RememberSid,
       GiveUp, CurrentSIDError, IssueCodeUnjoined, TabGoes, TabCloses, TypeOK
  <2>5. QED
    BY <2>1, <2>3, <2>4 DEF InFlight
<1>4. ASSUME NEW x \in Sids, LookupSessionError(x) PROVE UNCHANGED <<tabs, logouts>> /\ failed \subseteq failed'
  BY <1>4 DEF LookupSessionError, Fault
<1>5. ASSUME NEW c \in Clients, RestartRP(c) PROVE UNCHANGED <<tabs, logouts>> /\ failed \subseteq failed'
  BY <1>5 DEF RestartRP, Fault
<1>6. CASE SessionStep
  BY <1>1, <1>6 DEF SessionStep, OpenHome, StartSession, Expire, NoFault
<1>7. CASE UNCHANGED vars
  BY <1>1, <1>7 DEF vars
<1>8. ASSUME NEW l \in Logouts, logouts[l] # Idle
      PROVE  logouts[l].early \subseteq Clients
  BY <1>8 DEF TypeOK, Logout
<1>9. CASE \E w \in Tabs, c \in Clients : Authorize(w, c)
  <2>1. PICK w \in Tabs, c \in Clients : Authorize(w, c)
    BY <1>9
  <2>2. ASSUME NEW l \in Logouts, logouts[l] # Idle
        PROVE  logouts'[l].early \subseteq Clients
    <3>1. logouts[l] \in Logout
      BY <2>2 DEF TypeOK
    <3>2. [logouts[l] EXCEPT !.early = @ \ {c}].early \subseteq Clients
      BY <3>1 DEF Logout
    <3>3. logouts'[l] = [logouts[l] EXCEPT !.early = @ \ {c}]
      BY <1>2, <2>1, <2>2
    <3>4. QED
      BY <3>2, <3>3
  <2>3. QED
    BY <1>2, <2>1, <2>2
<1>10. CASE \E w \in Tabs : LoginGoesOn(w)
  <2>1. /\ logouts' = logouts
        /\ \A d \in Clients : InFlight(d)' => InFlight(d)
        /\ failed \subseteq failed'
    BY <1>3, <1>10
  <2>2. QED
    BY <1>8, <2>1
<1>11. QED
  BY <1>1, <1>4, <1>5, <1>6, <1>7, <1>9, <1>10
     DEF Next, LoginStep, LogoutStep, Failure, LoginGoesOn, LogoutGoesOn

LEMMA LogoutSidsStep ==
  ASSUME LogoutInv, TypeOK', LogoutSids, [Next]_vars
  PROVE  LogoutSids'
<1> DEFINE Fine(l) ==
      /\ logouts[l].cookie # None => sessions[logouts[l].cookie] # "none"
      /\ logouts[l].sid \in {logouts[l].cookie, None}
      /\ logouts[l].sid = None => logouts[l].early = {}
      /\ logouts[l].pc \in {"confirm", "sid"} => logouts[l].sid = None
<1> DEFINE Lapsed(l) ==
      "lookup" \notin failed /\ Begun(l) /\ logouts[l].sid = None => ~Live(logouts[l].cookie)
<1>1. TypeOK
  BY DEF LogoutInv
<1>2. \A l \in Logouts : (logouts[l] # Idle => Fine(l)) /\ Lapsed(l)
  BY DEF LogoutSids
<1>3. \A l \in Logouts : logouts[l] # Idle => logouts[l].cookie \in SidOrNone
  BY <1>1 DEF TypeOK, Logout
<1>4. \A s \in Sids : sessions[s] # "none" =>
        sessions'[s] # "none" /\ (~Live(s) => ~Live(s)')
  BY <1>1, GoneStaysGone DEF Live
<1>5. ASSUME NEW l \in Logouts, logouts[l] # Idle,
             logouts'[l].cookie = logouts[l].cookie
      PROVE  /\ logouts'[l].cookie # None => sessions'[logouts'[l].cookie] # "none"
             /\ ~Live(logouts[l].cookie) => ~Live(logouts[l].cookie)'
  BY <1>2, <1>3, <1>4, <1>5 DEF SidOrNone, Live
<1>6. ASSUME NEW l \in Logouts, logouts'[l] = logouts[l], failed \subseteq failed'
      PROVE  (logouts'[l] # Idle => Fine(l)') /\ Lapsed(l)'
  <2>1. CASE logouts[l] = Idle
    BY <1>6, <2>1 DEF Begun
  <2>2. CASE logouts[l] # Idle
    BY <1>2, <1>5, <1>6, <2>2 DEF Begun, Live
  <2>3. QED
    BY <2>1, <2>2
<1>7. CASE \A k \in Logouts : ~LogoutGoesOn(k)
  <2> SUFFICES ASSUME NEW l \in Logouts
               PROVE  (logouts'[l] # Idle => Fine(l)') /\ Lapsed(l)'
    BY DEF LogoutSids
  <2>1. failed \subseteq failed'
    BY <1>1, <1>7, LogoutsWait
  <2>2. CASE logouts'[l] = logouts[l]
    BY <1>6, <2>1, <2>2
  <2>3. CASE logouts'[l] # logouts[l]
    <3>1. logouts[l] # Idle /\ logouts[l] \in Logout
      BY <1>1, <1>7, <2>3, LogoutsWait DEF TypeOK
    <3>2. PICK c \in Clients : logouts'[l] = [logouts[l] EXCEPT !.early = @ \ {c}]
      BY <1>1, <1>7, <2>3, <3>1, LogoutsWait
    <3>3. /\ logouts'[l].pc = logouts[l].pc
          /\ logouts'[l].sid = logouts[l].sid
          /\ logouts'[l].cookie = logouts[l].cookie
          /\ logouts'[l].early \subseteq logouts[l].early
      BY <3>1, <3>2 DEF Logout
    <3>4. Fine(l)'
      BY <1>2, <1>5, <3>1, <3>3
    <3>5. Lapsed(l)'
      BY <1>2, <1>5, <2>1, <3>1, <3>3 DEF Begun, Live
    <3>6. QED
      BY <3>4, <3>5
  <2>4. QED
    BY <2>2, <2>3
<1>8. ASSUME NEW k \in Logouts, LogoutGoesOn(k)
      PROVE  LogoutSids'
  <2>1. failed \subseteq failed'
    BY <1>8 DEF LogoutGoesOn, FinishLogout, AskProvider, Confirm, CurrentSIDToEnd,
       CurrentUserToEnd, ListForBackChannel, ListForFrontChannel, EndBrowserSession,
       LoggedOut, Notify, LoadFrame, CurrentSIDToEndError, ListError,
       EndBrowserSessionError, AbortLogout, AskLogout, LoseNotice, LoseFrame, NoFault, Fault
  <2>2. \A l \in Logouts : l # k => (logouts'[l] # Idle => Fine(l)') /\ Lapsed(l)'
    BY <1>1, <1>6, <1>8, <2>1, LogoutStepsApart
  <2>3. Fine(k)' /\ Lapsed(k)'
    <3>1. cookie # None => sessions'[cookie] # "none"
      BY <1>1, <1>4, HeldSids DEF LogoutInv, KnownSids, SidOrNone
    <3>2. CASE logouts[k].pc = "idle"
      BY <1>1, <1>8, <3>1, <3>2, LogoutStepsApart DEF Begun
    <3>3. CASE Confirm(k)
      <4>1. logouts[k] \in Logout /\ logouts[k] # Idle
        BY <1>1, <3>3, LogoutType DEF Confirm, Logout, Idle
      <4>2. /\ logouts'[k].pc = "sid" /\ logouts'[k].cookie = cookie
            /\ logouts'[k].sid = logouts[k].sid /\ logouts'[k].early = logouts[k].early
        BY <1>1, <3>3, <4>1 DEF Confirm, TypeOK, Logout
      <4>3. logouts[k].sid = None /\ logouts[k].early = {}
        BY <1>2, <3>3, <4>1 DEF Confirm
      <4>4. QED
        BY <3>1, <4>2, <4>3 DEF Begun
    <3>4. CASE CurrentSIDToEnd(k)
      <4> DEFINE s == logouts[k].cookie
      <4>1. logouts[k] \in Logout /\ logouts[k] # Idle
        BY <1>1, <3>4, LogoutType DEF CurrentSIDToEnd, Logout, Idle
      <4>2. /\ logouts'[k].pc = "subject" /\ logouts'[k].cookie = s
            /\ logouts'[k].sid = IF Valid(s) THEN s ELSE None
            /\ ~Valid(s) => logouts'[k].early = {}
        BY <1>1, <3>4, <4>1 DEF CurrentSIDToEnd, TypeOK, Logout
      <4>3. ~Valid(s) => ~Live(s)'
        BY <1>1, <1>3, <3>4, <4>1
           DEF CurrentSIDToEnd, LookupSession, DeleteSession, TypeOK, Live, Valid, SidOrNone
      <4>4. Fine(k)'
        BY <1>5, <4>1, <4>2 DEF Valid
      <4>5. Lapsed(k)'
        BY <4>2, <4>3 DEF Live, Valid
      <4>6. QED
        BY <4>4, <4>5
    <3>5. CASE logouts[k].pc # "idle" /\ ~Confirm(k) /\ ~CurrentSIDToEnd(k)
      <4>1. logouts[k] # Idle
        BY <3>5 DEF Idle
      <4>2. /\ KeepsRequest(k) /\ logouts'[k].pc \notin {"idle", "confirm", "sid"}
            /\ Begun(k)' => Begun(k) \/ CurrentSIDToEndError(k)
        BY <1>1, <1>8, <3>5, LogoutStepsApart
      <4>3. Fine(k)'
        BY <1>2, <1>5, <4>1, <4>2 DEF KeepsRequest
      <4>4. CurrentSIDToEndError(k) => "lookup" \in failed'
        BY DEF CurrentSIDToEndError, Fault
      <4>5. Lapsed(k)'
        BY <1>2, <1>5, <2>1, <4>1, <4>2, <4>4 DEF KeepsRequest, Live
      <4>6. QED
        BY <4>3, <4>5
    <3>6. QED
      BY <3>2, <3>3, <3>4, <3>5
  <2>4. QED
    BY <2>2, <2>3 DEF LogoutSids
<1>9. QED
  BY <1>7, <1>8

(* An RP that shows the user as logged out does so until the next login.   *)
LEMMA ShownOutStays ==
  ASSUME TypeOK, [Next]_vars, NEW l \in Logouts, NEW c \in Clients,
         logouts[l].sid \in Sids, sessions[logouts[l].sid] # "none",
         logouts'[l].sid = logouts[l].sid,
         ~InFlight(c), "restart" \notin failed', ShownOut(l, c)
  PROVE  ShownOut(l, c)'
<1>1. Quiet(c)
  BY QuietWithoutLogins
<1>2. CASE sessions[logouts[l].sid] = "lapsed"
  BY <1>2, GoneStaysGone DEF Live, ShownOut
<1>3. CASE ~LoggedInUnder(c, logouts[l].sid)
  BY <1>1, <1>3 DEF Quiet, LoggedInUnder, LoggedIn, ShownOut
<1>4. QED
  BY <1>2, <1>3 DEF ShownOut

(* A session that stays or lapses leaves the RP on the list, or shown out. *)
LEMMA ListedOrOut ==
  ASSUME NEW l \in Logouts, NEW c \in Clients, logouts'[l].sid = logouts[l].sid,
         Gentle(logouts[l].sid), StillListed(l, c)
  PROVE  StillListed(l, c)' \/ ShownOut(l, c)'
  BY DEF Gentle, StillListed, ShownOut, Live

(* What no logout's own step disturbs: each channel still tells an RP of   *)
(* which no login is in flight.                                            *)
LEMMA OthersLeaveChannels ==
  ASSUME TypeOK, [Next]_vars, \A k \in Logouts : ~LogoutGoesOn(k),
         NEW l \in Logouts, NEW c \in Clients, logouts[l] # Idle,
         logouts[l].sid \in Sids, sessions[logouts[l].sid] # "none",
         ~InFlight(c), failed' \cap {"restart", "lapse"} = {}
  PROVE  /\ BackChannelTells(l, c) => BackChannelTells(l, c)'
         /\ FrontChannelTells(l, c) => FrontChannelTells(l, c)'
<1>1. \A k \in Logouts :
        /\ logouts'[k] # Idle <=> logouts[k] # Idle
        /\ logouts[k] # Idle => /\ logouts'[k].pc = logouts[k].pc
                                /\ logouts'[k].sid = logouts[k].sid
                                /\ logouts'[k].todo = logouts[k].todo
  <2> SUFFICES ASSUME NEW k \in Logouts
               PROVE  /\ logouts'[k] # Idle <=> logouts[k] # Idle
                      /\ logouts[k] # Idle => /\ logouts'[k].pc = logouts[k].pc
                                              /\ logouts'[k].sid = logouts[k].sid
                                              /\ logouts'[k].todo = logouts[k].todo
    OBVIOUS
  <2>1. CASE logouts[k] = Idle
    BY <2>1, LogoutsWait
  <2>2. CASE logouts[k] # Idle
    <3>1. logouts[k] \in Logout
      BY <2>2 DEF TypeOK
    <3>2. \A d \in Clients :
            /\ [logouts[k] EXCEPT !.early = @ \ {d}].pc = logouts[k].pc
            /\ [logouts[k] EXCEPT !.early = @ \ {d}].sid = logouts[k].sid
            /\ [logouts[k] EXCEPT !.early = @ \ {d}].todo = logouts[k].todo
      BY <3>1 DEF Logout
    <3>3. QED
      BY <2>2, <3>2, LogoutsWait
  <2>3. QED
    BY <2>1, <2>2
<1>2. Gentle(logouts[l].sid)
  BY OnlyLogoutsAreHarsh DEF LogoutGoesOn, FinishLogout
<1>3. ShownOut(l, c) => ShownOut(l, c)'
  BY <1>1, ShownOutStays
<1>4. StillListed(l, c) => StillListed(l, c)' \/ ShownOut(l, c)'
  BY <1>1, <1>2, ListedOrOut
<1>5. \A k \in Logouts : Ends(k, l)' <=> Ends(k, l)
  BY <1>1 DEF Ends
<1>6. BackChannelTells(l, c) => BackChannelTells(l, c)'
  BY <1>1, <1>3, <1>4, <1>5 DEF BackChannelTells, Ends
<1>7. FramePending(c, logouts[l].sid) => FramePending(c, logouts[l].sid)'
  BY <1>1 DEF FramePending
<1>8. FrontChannelTells(l, c) => FrontChannelTells(l, c)'
  BY <1>1, <1>3, <1>4, <1>5, <1>7 DEF FrontChannelTells, Ends
<1>9. QED
  BY <1>6, <1>8

(* An RP that is told a sid shows nobody logged in under it.               *)
LEMMA ToldIsOut ==
  ASSUME TypeOK, NEW k \in Logouts, NEW c \in Clients, Notify(k, c) \/ LoadFrame(k, c)
  PROVE  ~LoggedInUnder(c, logouts[k].sid)'
<1>1. logouts[k] \in Logout /\ logouts[k].sid \in Sids
  BY LogoutType DEF Notify, LoadFrame, Logout
<1>2. revoked'[c] = revoked[c] \cup {logouts[k].sid}
  BY <1>1 DEF Notify, LoadFrame, RevokeSid, TypeOK
<1>3. logouts'[k].sid = logouts[k].sid
  BY <1>1 DEF Notify, LoadFrame, Ticks, TypeOK, Logout
<1>4. QED
  BY <1>2, <1>3 DEF LoggedInUnder, LoggedIn

(* A session is only ended by a logout that has its sid, when no lookup    *)
(* failed: one that ends it without having read the sid finds it gone.     *)
LEMMA OwnSessionEnds ==
  ASSUME TypeOK, LogoutSids, [Next]_vars, failed \subseteq failed',
         failed' \cap {"lookup", "lapse"} = {},
         NEW k \in Logouts, LogoutGoesOn(k), NEW s \in Sids,
         EndBrowserSession(k) \/ EndBrowserSessionError(k) => logouts[k].sid # s
  PROVE  Gentle(s)
<1>1. CASE EndBrowserSession(k) \/ EndBrowserSessionError(k)
  <2>1. logouts[k].pc = "end" /\ logouts[k] \in Logout /\ logouts[k] # Idle
    BY <1>1, LogoutType DEF EndBrowserSession, EndBrowserSessionError, Logout, Idle
  <2>2. logouts[k].cookie = s => ~Live(s)
    BY <1>1, <2>1 DEF LogoutSids, Begun
  <2>3. CASE logouts[k].cookie = s
    BY <2>2, <2>3 DEF Gentle
  <2>4. CASE logouts[k].cookie # s
    BY <1>1, <2>4 DEF EndBrowserSession, EndBrowserSessionError, DeleteSession,
       DeleteClientsOnly, TypeOK, Gentle, Live
  <2>5. QED
    BY <2>3, <2>4
<1>2. CASE ~EndBrowserSession(k) /\ ~EndBrowserSessionError(k)
  <2>1. ASSUME NEW j \in Logouts, EndBrowserSession(j) \/ EndBrowserSessionError(j)
        PROVE  logouts'[j] # logouts[j]
    <3>1. logouts[j].pc = "end" /\ logouts[j] \in Logout
      BY <2>1, LogoutType DEF EndBrowserSession, EndBrowserSessionError, Logout
    <3>2. logouts'[j].pc = "frames"
      BY <2>1, <3>1 DEF EndBrowserSession, EndBrowserSessionError, LogoutGoes, TypeOK, Logout
    <3>3. QED
      BY <3>1, <3>2
  <2>2. \A j \in Logouts : ~EndBrowserSession(j) /\ ~EndBrowserSessionError(j)
    BY <1>2, <2>1, LogoutStepsApart
  <2>3. QED
    BY <2>2, OnlyLogoutsAreHarsh
<1>3. QED
  BY <1>1, <1>2

(* The back channel of an RP in a step of some logout.                     *)
LEMMA BackChannelStays ==
  ASSUME TypeOK, LogoutSids, [Next]_vars, NEW k \in Logouts, LogoutGoesOn(k),
         NEW l \in Logouts, NEW c \in Clients, logouts[l] # Idle,
         logouts[l].sid \in Sids, sessions[logouts[l].sid] # "none",
         ~InFlight(c), failed \subseteq failed', c \in Back, failed' \subseteq {"end", "frame"},
         BackChannelTells(l, c)
  PROVE  BackChannelTells(l, c)'
<1> DEFINE s == logouts[l].sid
<1> USE DEF LogoutGoes, Ticks
<1>1. logouts[l] \in Logout /\ (logouts[k] = Idle \/ logouts[k] \in Logout)
  BY DEF TypeOK
<1>2. logouts[l].pc \notin {"confirm", "sid"} /\ s # None
  BY DEF LogoutSids
<1>3. /\ logouts'[l].sid = s
      /\ \A j \in Logouts : j # k => logouts'[j] = logouts[j]
      /\ logouts'[k] # Idle
  BY <1>1, <1>2, LogoutStepsApart DEF KeepsRequest, Confirm, CurrentSIDToEnd, Logout, Idle
<1> HIDE DEF s
<1>4. ShownOut(l, c) => ShownOut(l, c)'
  BY <1>3, ShownOutStays DEF s
<1>5. CASE ShownOut(l, c)
  BY <1>4, <1>5 DEF BackChannelTells
<1>6. CASE ~ShownOut(l, c)
  <2>1. /\ StillListed(l, c)
        /\ logouts[l].pc \in {"subject", "back", "notify"}
        /\ \A j \in Logouts : Ends(j, l) =>
              logouts[j].pc # "end" /\ (logouts[j].pc = "notify" => c \in logouts[j].todo)
    BY <1>6 DEF BackChannelTells
  <2>2. Gentle(s)
    <3>1. EndBrowserSession(k) \/ EndBrowserSessionError(k) => logouts[k].sid # s
      BY <1>1, <2>1 DEF Ends, EndBrowserSession, EndBrowserSessionError, s, Logout, Idle
    <3>2. QED
      BY <3>1, OwnSessionEnds DEF s
  <2>3. SUFFICES ASSUME ~ShownOut(l, c)'
                 PROVE  /\ logouts'[l].pc \in {"subject", "back", "notify"}
                        /\ Ends(k, l)' => /\ logouts'[k].pc # "end"
                                          /\ logouts'[k].pc = "notify" => c \in logouts'[k].todo
    BY <1>3, <2>1, <2>2, ListedOrOut DEF BackChannelTells, Ends, s
  <2>4. CASE logouts[k].pc = "idle"
    BY <1>2, <1>3, <2>1, <2>4, LogoutStepsApart DEF Ends, Idle, s
  <2>5. CASE Confirm(k) \/ CurrentSIDToEnd(k)
    <3>1. logouts[k] \in Logout /\ logouts'[k].pc \in {"sid", "subject"}
      BY <1>1, <2>5 DEF Confirm, CurrentSIDToEnd, TypeOK, Logout, Idle
    <3>2. k # l
      BY <1>2, <2>5 DEF Confirm, CurrentSIDToEnd
    <3>3. QED
      BY <1>3, <2>1, <3>1, <3>2
  <2>6. CASE logouts[k].pc # "idle" /\ ~Confirm(k) /\ ~CurrentSIDToEnd(k)
    <3>1. logouts[k] # Idle /\ logouts[k] \in Logout /\ KeepsRequest(k)
      BY <1>1, <2>6, LogoutStepsApart DEF Idle
    <3>2. Ends(k, l)' => Ends(k, l)
      BY <1>3, <3>1 DEF Ends, KeepsRequest, s
    <3>3. k = l => Ends(k, l)
      BY <3>1 DEF Ends
    <3>4. CASE CurrentUserToEnd(k)
      BY <1>2, <1>3, <2>1, <3>1, <3>2, <3>4
         DEF CurrentUserToEnd, Ends, TypeOK, Logout, s
    <3>5. CASE ListForBackChannel(k)
      BY <1>3, <2>1, <3>1, <3>2, <3>5
         DEF ListForBackChannel, StillListed, Ends, TypeOK, Logout, s
    <3>6. ASSUME NEW d \in Clients, Notify(k, d)
          PROVE  /\ logouts'[l].pc \in {"subject", "back", "notify"}
                 /\ Ends(k, l)' => /\ logouts'[k].pc # "end"
                                   /\ logouts'[k].pc = "notify" => c \in logouts'[k].todo
      <4>1. Ends(k, l) => d # c
        BY <1>3, <2>3, <3>1, <3>6, ToldIsOut DEF Ends, ShownOut, LoggedInUnder, s, KeepsRequest
      <4>2. logouts'[k].pc = "notify" /\ logouts'[k].todo = logouts[k].todo \ {d}
        BY <3>1, <3>6 DEF Notify, TypeOK, Logout
      <4>3. QED
        BY <1>3, <2>1, <3>1, <3>2, <3>6, <4>1, <4>2 DEF Notify
    <3>7. CASE ListForFrontChannel(k)
      <4>1. ~Ends(k, l)
        BY <2>1, <3>1, <3>7 DEF ListForFrontChannel
      <4>2. QED
        BY <1>3, <2>1, <3>2, <3>3, <4>1
    <3>8. CASE EndBrowserSession(k) \/ EndBrowserSessionError(k)
      <4>1. ~Ends(k, l)
        BY <2>1, <3>8 DEF EndBrowserSession, EndBrowserSessionError
      <4>2. QED
        BY <1>3, <2>1, <3>2, <3>3, <4>1
    <3>9. CASE LoggedOut(k) \/ \E d \in Clients : LoadFrame(k, d) \/ LoseFrame(k, d)
      <4>1. logouts[k].pc = "frames" /\ logouts'[k].pc \in {"frames", "done"}
        BY <3>1, <3>9 DEF LoggedOut, LoadFrame, LoseFrame, TypeOK, Logout
      <4>2. QED
        BY <1>3, <2>1, <4>1
    <3>10. CASE \/ CurrentSIDToEndError(k) \/ ListError(k) \/ AbortLogout(k)
                \/ \E d \in Clients : LoseNotice(k, d)
      BY <3>10 DEF CurrentSIDToEndError, ListError, AbortLogout, LoseNotice, Fault
    <3>11. QED
      BY <2>6, <3>4, <3>5, <3>6, <3>7, <3>8, <3>9, <3>10
         DEF LogoutGoesOn, FinishLogout, AskProvider, AskLogout, Idle
  <2>7. QED
    BY <2>4, <2>5, <2>6
<1>7. QED
  BY <1>5, <1>6

(* An iframe that is still to load does, or is there still.                *)
LEMMA FramesLoad ==
  ASSUME TypeOK, NEW k \in Logouts, LogoutGoesOn(k), NEW c \in Clients,
         NEW s \in Sids, FramePending(c, s), failed' \cap {"frame", "abort"} = {}
  PROVE  FramePending(c, s)' \/ ~LoggedInUnder(c, s)'
<1> USE DEF LogoutGoes, Ticks
<1>1. PICK j \in Logouts : /\ logouts[j] # Idle /\ logouts[j].pc = "frames"
                           /\ logouts[j].sid = s /\ c \in logouts[j].todo
  BY DEF FramePending
<1>2. CASE j # k
  BY <1>1, <1>2, LogoutStepsApart DEF FramePending
<1>3. CASE j = k
  <2>1. logouts[k] \in Logout
    BY <1>1, <1>3 DEF TypeOK
  <2>2. \E d \in Clients : LoadFrame(k, d)
    BY <1>1, <1>3 DEF LogoutGoesOn, FinishLogout, AskProvider, Confirm, CurrentSIDToEnd,
       CurrentUserToEnd, ListForBackChannel, ListForFrontChannel, EndBrowserSession,
       LoggedOut, Notify, CurrentSIDToEndError, ListError, EndBrowserSessionError,
       AbortLogout, AskLogout, LoseNotice, LoseFrame, Fault, Idle
  <2>3. PICK d \in Clients : LoadFrame(k, d)
    BY <2>2
  <2>4. /\ logouts'[k].pc = "frames" /\ logouts'[k].sid = s
        /\ logouts'[k].todo = logouts[k].todo \ {d}
    BY <1>1, <1>3, <2>1, <2>3 DEF LoadFrame, TypeOK, Logout
  <2>5. CASE d = c
    BY <2>3, <2>4, <2>5, ToldIsOut DEF LoggedInUnder
  <2>6. CASE d # c
    BY <1>1, <1>3, <2>4, <2>6 DEF FramePending, Idle
  <2>7. QED
    BY <2>5, <2>6
<1>4. QED
  BY <1>2, <1>3

(* The front channel of an RP in a step of some logout.                    *)
LEMMA FrontChannelStays ==
  ASSUME TypeOK, LogoutSids, [Next]_vars, NEW k \in Logouts, LogoutGoesOn(k),
         NEW l \in Logouts, NEW c \in Clients, logouts[l] # Idle,
         logouts[l].sid \in Sids, sessions[logouts[l].sid] # "none",
         ~InFlight(c), failed \subseteq failed', c \in Front, failed' \subseteq {"end", "notice"},
         FrontChannelTells(l, c)
  PROVE  FrontChannelTells(l, c)'
<1> DEFINE s == logouts[l].sid
<1> USE DEF LogoutGoes, Ticks
<1>1. logouts[l] \in Logout /\ (logouts[k] = Idle \/ logouts[k] \in Logout)
  BY DEF TypeOK
<1>2. logouts[l].pc \notin {"confirm", "sid"} /\ s # None
  BY DEF LogoutSids
<1>3. /\ logouts'[l].sid = s
      /\ \A j \in Logouts : j # k => logouts'[j] = logouts[j]
      /\ logouts'[k] # Idle
  BY <1>1, <1>2, LogoutStepsApart DEF KeepsRequest, Confirm, CurrentSIDToEnd, Logout, Idle
<1> HIDE DEF s
<1>4. ShownOut(l, c) => ShownOut(l, c)'
  BY <1>3, ShownOutStays DEF s
<1>5. ASSUME NEW x \in Sids, x = s
      PROVE  FramePending(c, x) => FramePending(c, x)' \/ ~LoggedInUnder(c, x)'
  BY FramesLoad
<1>6. CASE ShownOut(l, c) \/ FramePending(c, s)
  BY <1>3, <1>4, <1>5, <1>6 DEF FrontChannelTells, ShownOut, FramePending, LoggedInUnder, s
<1>7. CASE ~ShownOut(l, c) /\ ~FramePending(c, s)
  <2>1. /\ StillListed(l, c)
        /\ logouts[l].pc \in {"subject", "back", "notify", "end"}
        /\ \A j \in Logouts : Ends(j, l) /\ logouts[j].pc = "end" => c \in logouts[j].todo
    BY <1>7 DEF FrontChannelTells, s
  <2>2. CASE EndBrowserSession(k) \/ EndBrowserSessionError(k)
    <3>1. logouts[k].pc = "end" /\ logouts[k] \in Logout /\ logouts[k] # Idle
      BY <1>1, <2>2 DEF EndBrowserSession, EndBrowserSessionError, Idle
    <3>2. /\ logouts'[k].pc = "frames" /\ logouts'[k].sid = logouts[k].sid
          /\ logouts'[k].todo = logouts[k].todo
      BY <2>2, <3>1 DEF EndBrowserSession, EndBrowserSessionError, TypeOK, Logout
    <3>3. CASE Ends(k, l)
      BY <1>3, <2>1, <3>1, <3>2, <3>3 DEF FrontChannelTells, FramePending, Ends, s
    <3>4. CASE ~Ends(k, l)
      <4>1. logouts[k].sid # s /\ k # l
        BY <3>1, <3>4 DEF Ends, s
      <4>2. Gentle(s)
        BY <4>1, OwnSessionEnds DEF s
      <4>3. StillListed(l, c)' \/ ShownOut(l, c)'
        BY <1>3, <2>1, <4>2, ListedOrOut DEF s
      <4>4. QED
        BY <1>3, <2>1, <3>2, <4>1, <4>3 DEF FrontChannelTells, Ends, s
    <3>5. QED
      BY <3>3, <3>4
  <2>3. CASE ~EndBrowserSession(k) /\ ~EndBrowserSessionError(k)
    <3>1. StillListed(l, c)' \/ ShownOut(l, c)'
      BY <1>3, <2>1, <2>3, ListedOrOut, OwnSessionEnds DEF s
    <3>2. SUFFICES ASSUME ~ShownOut(l, c)'
                   PROVE  /\ logouts'[l].pc \in {"subject", "back", "notify", "end"}
                          /\ Ends(k, l)' /\ logouts'[k].pc = "end" => c \in logouts'[k].todo
      BY <1>3, <2>1, <3>1 DEF FrontChannelTells, Ends, s
    <3>3. CASE logouts[k].pc = "idle"
      BY <1>2, <1>3, <2>1, <3>3, LogoutStepsApart DEF Ends, Idle, s
    <3>4. CASE Confirm(k) \/ CurrentSIDToEnd(k)
      <4>1. logouts[k] \in Logout /\ logouts'[k].pc \in {"sid", "subject"}
        BY <1>1, <3>4 DEF Confirm, CurrentSIDToEnd, TypeOK, Logout, Idle
      <4>2. k # l
        BY <1>2, <3>4 DEF Confirm, CurrentSIDToEnd
      <4>3. QED
        BY <1>3, <2>1, <4>1, <4>2
    <3>5. CASE logouts[k].pc # "idle" /\ ~Confirm(k) /\ ~CurrentSIDToEnd(k)
      <4>1. logouts[k] # Idle /\ logouts[k] \in Logout /\ KeepsRequest(k)
        BY <1>1, <3>5, LogoutStepsApart DEF Idle
      <4>2. CASE CurrentUserToEnd(k) \/ ListForBackChannel(k)
        <5>1. /\ logouts[k].pc \in {"subject", "back"}
              /\ logouts[k].sid # None => logouts'[k].pc \in {"back", "notify"}
          BY <4>1, <4>2 DEF CurrentUserToEnd, ListForBackChannel, LogoutGoes, TypeOK, Logout
        <5>2. QED
          BY <1>2, <1>3, <2>1, <4>1, <5>1 DEF Ends, KeepsRequest, s
      <4>3. CASE \E d \in Clients : Notify(k, d) \/ LoseNotice(k, d)
        BY <1>3, <2>1, <4>1, <4>3 DEF Notify, LoseNotice, TypeOK, Logout
      <4>4. CASE ListForFrontChannel(k)
        BY <1>3, <2>1, <4>1, <4>4
           DEF ListForFrontChannel, StillListed, Ends, KeepsRequest, TypeOK, Logout, s
      <4>5. CASE LoggedOut(k) \/ \E d \in Clients : LoadFrame(k, d)
        <5>1. logouts[k].pc = "frames" /\ logouts'[k].pc \in {"frames", "done"}
          BY <4>1, <4>5 DEF LoggedOut, LoadFrame, TypeOK, Logout
        <5>2. QED
          BY <1>3, <2>1, <5>1
      <4>6. CASE \/ CurrentSIDToEndError(k) \/ ListError(k) \/ AbortLogout(k)
                 \/ \E d \in Clients : LoseFrame(k, d)
        BY <4>6 DEF CurrentSIDToEndError, ListError, AbortLogout, LoseFrame, Fault
      <4>7. QED
        BY <2>3, <3>5, <4>2, <4>3, <4>4, <4>5, <4>6
           DEF LogoutGoesOn, FinishLogout, AskProvider, AskLogout, Idle
    <3>6. QED
      BY <3>3, <3>4, <3>5
  <2>4. QED
    BY <2>2, <2>3
<1>8. QED
  BY <1>6, <1>7

(* What the invariant says of logout l and RP c.                           *)
Told(l, c) ==
  /\ ~InFlight(c)
  /\ c \in Back /\ failed \subseteq {"end", "frame"} => BackChannelTells(l, c)
  /\ c \in Front /\ failed \subseteq {"end", "notice"} => FrontChannelTells(l, c)

(* The session of a logout that answers for some RP.                       *)
LEMMA EarlySid ==
  ASSUME TypeOK, LogoutSids, NEW l \in Logouts, logouts[l] # Idle, logouts[l].early # {}
  PROVE  /\ logouts[l].sid \in Sids /\ sessions[logouts[l].sid] # "none"
         /\ logouts[l].early \subseteq Clients
<1>1. logouts[l] \in Logout
  BY DEF TypeOK
<1>2. logouts[l].sid # None /\ logouts[l].sid = logouts[l].cookie
  BY DEF LogoutSids
<1>3. QED
  BY <1>1, <1>2 DEF LogoutSids, Logout, SidOrNone

(* A logout that reads its sid, with no other one of the session under way: *)
(* the RPs it answers for are on the list, where their login put them.      *)
LEMMA LogoutBegins ==
  ASSUME LogoutInv, NEW l \in Logouts, CurrentSIDToEnd(l), NEW c \in logouts'[l].early
  PROVE  Told(l, c)'
<1> DEFINE s == logouts[l].cookie
           sid == IF Valid(s) THEN s ELSE None
           early == {d \in Clients : /\ Valid(s) /\ ~UnderWay(s)
                                     /\ LoggedInUnder(d, s) /\ ~InFlight(d)
                                     /\ "end" \in failed => d \in members[s]}
<1>1. TypeOK /\ logouts[l] \in Logout /\ logouts[l] # Idle
  BY LogoutType DEF LogoutInv, CurrentSIDToEnd, Logout, Idle
<1>2. /\ logouts'[l].pc = "subject" /\ logouts'[l] # Idle
      /\ logouts'[l].sid = sid /\ logouts'[l].early = early
      /\ \A k \in Logouts : k # l => logouts'[k] = logouts[k]
  <2>1. logouts' = [logouts EXCEPT ![l].pc = "subject", ![l].sid = sid, ![l].early = early]
    BY DEF CurrentSIDToEnd
  <2> HIDE DEF sid, early
  <2>2. logouts \in [Logouts -> {Idle} \cup Logout]
    BY <1>1 DEF TypeOK
  <2>3. /\ logouts'[l] = [logouts[l] EXCEPT !.pc = "subject", !.sid = sid, !.early = early]
        /\ \A k \in Logouts : k # l => logouts'[k] = logouts[k]
    BY <2>1, <2>2
  <2>4. \A k \in Logouts : k # l => logouts'[k] = logouts[k]
    BY <2>3
  <2>5. logouts'[l].pc = "subject"
    BY <1>1, <2>3 DEF Logout
  <2>6. logouts'[l].sid = sid
    BY <1>1, <2>3 DEF Logout
  <2>7. logouts'[l].early = early
    BY <1>1, <2>3 DEF Logout
  <2>8. logouts'[l] # Idle
    BY <2>5 DEF Idle
  <2>9. QED
    BY <2>4, <2>5, <2>6, <2>7, <2>8
<1>3. /\ c \in Clients /\ Valid(s) /\ ~UnderWay(s) /\ LoggedInUnder(c, s) /\ ~InFlight(c)
      /\ "end" \in failed => c \in members[s]
  BY <1>2
<1>4. UNCHANGED <<sessions, members, failed, tabs>> /\ logouts'[l].sid = s
  BY <1>2, <1>3 DEF CurrentSIDToEnd, LookupSession, NoFault
<1>5. ASSUME failed \subseteq {"end", "frame", "notice"} PROVE c \in members[s]
  BY <1>3, <1>5 DEF LogoutInv, Joined, LoggedInUnder, Live, Valid
<1>6. ASSUME failed \subseteq {"end", "frame", "notice"} PROVE StillListed(l, c)'
  BY <1>3, <1>4, <1>5, <1>6 DEF StillListed, Live, Valid
<1>7. \A k \in Logouts : Ends(k, l)' => logouts'[k].pc \notin {"notify", "end"}
  BY <1>2, <1>3, <1>4 DEF Ends, UnderWay
<1>8. ~InFlight(c)'
  BY <1>3, <1>4 DEF InFlight
<1>9. failed' = failed
  BY <1>4
<1>10. failed \subseteq {"end", "frame"} => BackChannelTells(l, c)'
  BY <1>2, <1>6, <1>7 DEF BackChannelTells
<1>11. failed \subseteq {"end", "notice"} => FrontChannelTells(l, c)'
  BY <1>2, <1>6, <1>7 DEF FrontChannelTells
<1>12. QED
  BY <1>8, <1>9, <1>10, <1>11 DEF Told

LEMMA EarlierLoginsStep ==
  ASSUME LogoutInv, LogoutInv', EarlierLoginsInv, [Next]_vars
  PROVE  EarlierLoginsInv'
<1>1. TypeOK /\ TypeOK' /\ LogoutSids
  BY DEF LogoutInv, EarlierLoginsInv
<1>2. LogoutSids'
  BY <1>1, LogoutSidsStep
<1>3. FaultsCounted' /\ failed \subseteq failed'
  BY <1>1, FaultsAreCounted DEF EarlierLoginsInv
<1>4. ASSUME NEW l \in Logouts, logouts'[l] # Idle, NEW c \in logouts'[l].early
      PROVE  Told(l, c)'
  <2>1. ASSUME logouts[l] # Idle, c \in logouts[l].early
        PROVE  /\ Told(l, c) /\ c \in Clients
               /\ logouts[l].sid \in Sids /\ sessions[logouts[l].sid] # "none"
    BY <1>1, <2>1, EarlySid DEF EarlierLoginsInv, Told
  <2>2. CASE \A k \in Logouts : ~LogoutGoesOn(k)
    <3>1. logouts[l] # Idle
      BY <1>1, <1>4, <2>2, LogoutsWait
    <3>2. logouts[l] \in Logout /\ logouts'[l] \in Logout
      BY <1>1, <1>4, <3>1 DEF TypeOK
    <3>3. \A d \in Clients : [logouts[l] EXCEPT !.early = @ \ {d}].early \subseteq logouts[l].early
      BY <3>2 DEF Logout
    <3>4. c \in logouts[l].early /\ (InFlight(c)' => InFlight(c))
      BY <1>1, <1>4, <2>2, <3>1, <3>3, LogoutsWait
    <3>5. /\ Told(l, c) /\ c \in Clients /\ ~InFlight(c)
          /\ logouts[l].sid \in Sids /\ sessions[logouts[l].sid] # "none"
      BY <2>1, <3>1, <3>4 DEF Told
    <3>6. failed' \cap {"restart", "lapse"} = {} =>
            /\ BackChannelTells(l, c) => BackChannelTells(l, c)'
            /\ FrontChannelTells(l, c) => FrontChannelTells(l, c)'
      BY <1>1, <2>2, <3>1, <3>5, OthersLeaveChannels
    <3>7. QED
      BY <1>3, <3>4, <3>5, <3>6 DEF Told
  <2>3. ASSUME NEW k \in Logouts, LogoutGoesOn(k) PROVE Told(l, c)'
    <3>1. CASE l = k /\ CurrentSIDToEnd(l)
      BY <1>4, <3>1, LogoutBegins
    <3>2. CASE ~(l = k /\ CurrentSIDToEnd(l))
      <4>1. CASE l = k /\ logouts[l].pc = "idle"
        BY <1>1, <1>4, <2>3, <4>1, LogoutStepsApart
      <4>2. CASE l = k /\ Confirm(l)
        <5>1. logouts[l] # Idle /\ logouts[l] \in Logout
          BY <1>1, <4>2, LogoutType DEF Confirm, Logout, Idle
        <5>2. logouts'[l].early = logouts[l].early
          BY <1>1, <4>2, <5>1 DEF Confirm, TypeOK, Logout
        <5>3. QED
          BY <1>1, <1>4, <4>2, <5>1, <5>2 DEF LogoutSids, Confirm
      <4>3. CASE ~(l = k /\ (logouts[l].pc = "idle" \/ Confirm(l)))
        <5>1. /\ logouts[l] # Idle
              /\ logouts'[l].early = logouts[l].early
              /\ tabs' = tabs
          BY <1>1, <1>4, <2>3, <3>2, <4>3, LogoutStepsApart DEF KeepsRequest, Idle
        <5>2. /\ Told(l, c) /\ c \in Clients /\ ~InFlight(c)
              /\ logouts[l].sid \in Sids /\ sessions[logouts[l].sid] # "none"
          BY <1>4, <2>1, <5>1 DEF Told
        <5>3. ~InFlight(c)'
          BY <5>1, <5>2 DEF InFlight
        <5>4. c \in Back /\ failed' \subseteq {"end", "frame"} /\ BackChannelTells(l, c)
                => BackChannelTells(l, c)'
          BY <1>1, <1>3, <2>3, <5>1, <5>2, BackChannelStays
        <5>5. c \in Front /\ failed' \subseteq {"end", "notice"} /\ FrontChannelTells(l, c)
                => FrontChannelTells(l, c)'
          BY <1>1, <1>3, <2>3, <5>1, <5>2, FrontChannelStays
        <5>6. QED
          BY <1>3, <5>2, <5>3, <5>4, <5>5 DEF Told
      <4>4. QED
        BY <4>1, <4>2, <4>3
    <3>3. QED
      BY <3>1, <3>2
  <2>4. QED
    BY <2>2, <2>3
<1>5. QED
  BY <1>2, <1>3, <1>4 DEF EarlierLoginsInv, Told

(* Of an RP that was logged in before a logout no login is in flight, and as  *)
(* long as it shows the user logged in each of its channels that has lost     *)
(* nothing will tell it: for every number of overlapping logouts.             *)
THEOREM EarlierLoginsInvariant == Spec => []EarlierLoginsInv
<1>1. Init => EarlierLoginsInv
  BY DEF Init, EarlierLoginsInv, LogoutSids, FaultsCounted, Begun, Idle
<1>2. LogoutInv /\ LogoutInv' /\ EarlierLoginsInv /\ [Next]_vars => EarlierLoginsInv'
  BY EarlierLoginsStep
<1>3. QED
  BY <1>1, <1>2, LogoutInvariant, PTL DEF Spec

(* When a logout is over, every RP that was logged in under its session before *)
(* shows the user as logged out, when one of its channels has lost nothing.    *)
THEOREM EarlierLoginsEnd == Spec => []LogoutEndsEarlierLogins
<1>1. LogoutInv /\ EarlierLoginsInv => LogoutEndsEarlierLogins
  <2> SUFFICES ASSUME LogoutInv, EarlierLoginsInv,
                      NEW l \in Logouts, logouts[l].pc = "done", NEW c \in logouts[l].early,
                      Reached(c), sessions[logouts[l].sid] # "lapsed",
                      ~FramePending(c, logouts[l].sid)
               PROVE  ~LoggedInUnder(c, logouts[l].sid)
    BY DEF LogoutEndsEarlierLogins
  <2>1. logouts[l] # Idle /\ Told(l, c)
    BY DEF EarlierLoginsInv, Told, Idle
  <2>2. \/ c \in Back /\ failed \subseteq {"end", "frame"}
        \/ c \in Front /\ failed \subseteq {"end", "notice"}
    <3>1. faults \in Nat
      BY DEF LogoutInv, TypeOK
    <3>2. "frame" \in failed /\ "notice" \in failed => faults >= 2
      BY DEF EarlierLoginsInv, FaultsCounted
    <3>3. QED
      BY <3>1, <3>2 DEF Reached
  <2>3. QED
    BY <2>1, <2>2 DEF Told, BackChannelTells, FrontChannelTells, ShownOut
<1>2. QED
  BY <1>1, LogoutInvariant, EarlierLoginsInvariant, PTL

(***************************************************************************)
(* How a login at an RP comes and goes.                                    *)
(***************************************************************************)
(* What the RP's page depends on stays.                                    *)
Untouched(c) ==
  rp'[c].access = rp[c].access /\ rp'[c].sid = rp[c].sid /\ revoked'[c] = revoked[c]

(* Only the callback of a login, a notice, an iframe, the return from a     *)
(* logout and a restart touch what an RP knows.                             *)
LEMMA WhoTouchesAnRP ==
  ASSUME TypeOK, [Next]_vars, NEW c \in Clients
  PROVE  \/ Untouched(c)
         \/ \E w \in Tabs : RememberSid(w) /\ tabs[w] # Idle /\ tabs[w].client = c
         \/ \E l \in Logouts : Notify(l, c) \/ LoadFrame(l, c)
         \/ \E l \in Logouts : LoggedOut(l) /\ logouts[l].from = c
         \/ RestartRP(c)
<1> DEFINE Goal ==
      \/ Untouched(c)
      \/ \E w \in Tabs : RememberSid(w) /\ tabs[w] # Idle /\ tabs[w].client = c
      \/ \E l \in Logouts : Notify(l, c) \/ LoadFrame(l, c)
      \/ \E l \in Logouts : LoggedOut(l) /\ logouts[l].from = c
      \/ RestartRP(c)
<1>1. CASE UNCHANGED <<rp, revoked>>
  BY <1>1 DEF Untouched
<1>2. ASSUME NEW w \in Tabs, NEW d \in Clients, Authorize(w, d) PROVE Untouched(c)
  BY <1>2 DEF Authorize, TypeOK, RPCookies, Untouched
<1>3. ASSUME NEW w \in Tabs, RememberSid(w) PROVE Goal
  <2>1. tabs[w] # Idle
    BY <1>3 DEF RememberSid, Idle
  <2>2. ASSUME tabs[w].client # c PROVE Untouched(c)
    BY <1>3, <2>2 DEF RememberSid, TypeOK, Untouched
  <2>3. QED
    BY <1>3, <2>1, <2>2
<1>4. ASSUME NEW w \in Tabs, LoginGoesOn(w), ~RememberSid(w) PROVE UNCHANGED <<rp, revoked>>
  BY <1>4 DEF LoginGoesOn, CurrentUser, Consent, CurrentSID, IssueCode, GiveUp,
     CurrentSIDError, IssueCodeUnjoined
<1>5. ASSUME NEW l \in Logouts, NEW d \in Clients, AskLogout(l, d) PROVE Untouched(c)
  BY <1>5 DEF AskLogout, TypeOK, RPCookies, Untouched
<1>6. ASSUME NEW l \in Logouts, NEW d \in Clients, Notify(l, d) \/ LoadFrame(l, d), d # c
      PROVE  Untouched(c)
  BY <1>6 DEF Notify, LoadFrame, RevokeSid, TypeOK, Untouched
<1>7. ASSUME NEW l \in Logouts, LoggedOut(l), logouts[l].from # c PROVE Untouched(c)
  BY <1>7 DEF LoggedOut, TypeOK, Untouched
<1>8. ASSUME NEW l \in Logouts, LogoutGoesOn(l) PROVE Goal
  <2>1. CASE LoggedOut(l)
    BY <1>7, <2>1
  <2>2. CASE \E d \in Clients : AskLogout(l, d)
    BY <1>5, <2>2
  <2>3. CASE \E d \in Clients : Notify(l, d) \/ LoadFrame(l, d)
    BY <1>6, <2>3
  <2>4. CASE UNCHANGED <<rp, revoked>>
    BY <1>1, <2>4
  <2>5. QED
    BY <1>8, <2>1, <2>2, <2>3, <2>4
       DEF LogoutGoesOn, FinishLogout, AskProvider, Confirm, CurrentSIDToEnd,
           CurrentUserToEnd, ListForBackChannel, ListForFrontChannel, EndBrowserSession,
           CurrentSIDToEndError, ListError, EndBrowserSessionError, AbortLogout,
           LoseNotice, LoseFrame
<1>9. ASSUME NEW d \in Clients, RestartRP(d) PROVE Goal
  BY <1>9 DEF RestartRP, TypeOK, Untouched
<1>10. ASSUME NEW x \in Sids, LookupSessionError(x) PROVE UNCHANGED <<rp, revoked>>
  BY <1>10 DEF LookupSessionError
<1>11. CASE SessionStep
  BY <1>1, <1>11 DEF SessionStep, OpenHome, StartSession, Expire
<1>12. CASE UNCHANGED vars
  BY <1>1, <1>12 DEF vars
<1>13. QED
  BY <1>1, <1>2, <1>3, <1>4, <1>8, <1>9, <1>10, <1>11, <1>12
     DEF Next, LoginStep, LogoutStep, Failure, LoginGoesOn, LogoutGoesOn

(* The callback of a login shows the user logged in: under the sid it        *)
(* brings, or if it brings none, under the one the RP had.                   *)
LEMMA CallbackLogsIn ==
  ASSUME TypeOK, NEW w \in Tabs, NEW c \in Clients, RememberSid(w), tabs[w].client = c
  PROVE  /\ rp'[c].access
         /\ revoked'[c] = revoked[c] \ {tabs[w].sid}
         /\ rp'[c].sid = IF tabs[w].sid = None THEN rp[c].sid ELSE tabs[w].sid
<1>1. rp[c] \in RPCookies
  BY DEF TypeOK
<1>2. rp'[c] = [rp[c] EXCEPT !.access = TRUE, !.login = None,
                             !.sid = IF tabs[w].sid = None THEN @ ELSE tabs[w].sid]
  BY DEF RememberSid, TypeOK
<1>3. rp'[c].access
  BY <1>1, <1>2 DEF RPCookies
<1>4. rp'[c].sid = IF tabs[w].sid = None THEN rp[c].sid ELSE tabs[w].sid
  BY <1>1, <1>2 DEF RPCookies
<1>5. revoked'[c] = revoked[c] \ {tabs[w].sid}
  BY DEF RememberSid, TypeOK
<1>6. QED
  BY <1>3, <1>4, <1>5

(* A notice or an iframe revokes the sid of its logout, and no other.        *)
LEMMA ToldOfOneSid ==
  ASSUME TypeOK, NEW l \in Logouts, NEW c \in Clients, Notify(l, c) \/ LoadFrame(l, c)
  PROVE  /\ rp' = rp /\ revoked'[c] = revoked[c] \cup {logouts[l].sid}
         /\ Begun(l) /\ logouts[l].sid \in Sids
<1>1. logouts[l] \in Logout /\ logouts[l] # Idle
  BY LogoutType DEF Notify, LoadFrame, Idle
<1>2. logouts[l].sid \in Sids
  BY <1>1 DEF Notify, LoadFrame, Logout
<1>3. rp' = rp /\ revoked'[c] = revoked[c] \cup {logouts[l].sid}
  BY DEF Notify, LoadFrame, RevokeSid, TypeOK
<1>4. QED
  BY <1>1, <1>2, <1>3 DEF Notify, LoadFrame, Begun

(* The return from a logout clears the RP's cookies, or leaves them if the   *)
(* RP has asked for another one since.                                       *)
LEMMA ReturnClears ==
  ASSUME TypeOK, NEW l \in Logouts, NEW c \in Clients, LoggedOut(l), logouts[l].from = c
  PROVE  \/ Begun(l) /\ rp[c].logout = l /\ ~rp'[c].access /\ rp'[c].sid = None
         \/ Untouched(c)
<1>1. rp[c] \in RPCookies /\ c # None
  BY DEF TypeOK
<1>2. revoked' = revoked /\ Begun(l)
  BY DEF LoggedOut, Begun, Idle
<1>3. CASE rp[c].logout = l
  BY <1>1, <1>2, <1>3 DEF LoggedOut, TypeOK
<1>4. CASE rp[c].logout # l
  <2>1. rp'[c] = [rp[c] EXCEPT !.logout = None]
    BY <1>1, <1>4 DEF LoggedOut, TypeOK
  <2>2. QED
    BY <1>1, <1>2, <2>1 DEF RPCookies, Untouched
<1>5. QED
  BY <1>3, <1>4

(* Nobody is logged out at an RP but by a logout it asked for last, or by    *)
(* one of that very session.                                                 *)
LEMMA LogoutOfOneSessionStep ==
  ASSUME TypeOK, LogoutSids, [Next]_vars, NEW c \in Clients, LoggedIn(c), ~LoggedIn(c)'
  PROVE  \E l \in Logouts :
           /\ Begun(l)
           /\ \/ logouts[l].from = c /\ rp[c].logout = l
              \/ logouts[l].sid = rp[c].sid /\ logouts[l].cookie = rp[c].sid
<1>1. ~Untouched(c)
  BY DEF Untouched, LoggedIn
<1>2. ASSUME NEW w \in Tabs, RememberSid(w), tabs[w].client = c PROVE FALSE
  BY <1>2, CallbackLogsIn DEF LoggedIn
<1>3. ASSUME NEW l \in Logouts, Notify(l, c) \/ LoadFrame(l, c)
      PROVE  Begun(l) /\ logouts[l].sid = rp[c].sid /\ logouts[l].cookie = rp[c].sid
  <2>1. Begun(l) /\ logouts[l].sid \in Sids /\ logouts[l].sid = rp[c].sid
    BY <1>3, ToldOfOneSid DEF LoggedIn
  <2>2. logouts[l].sid = logouts[l].cookie
    BY <2>1 DEF LogoutSids, Begun
  <2>3. QED
    BY <2>1, <2>2
<1>4. ASSUME NEW l \in Logouts, LoggedOut(l), logouts[l].from = c
      PROVE  Begun(l) /\ rp[c].logout = l
  BY <1>1, <1>4, ReturnClears
<1>5. ASSUME RestartRP(c) PROVE FALSE
  BY <1>5 DEF RestartRP, TypeOK, LoggedIn
<1>6. QED
  BY <1>1, <1>2, <1>3, <1>4, <1>5, WhoTouchesAnRP

(* A notice, an iframe or a login that comes late logs nobody out of another *)
(* session: for every number of sessions, RPs and logouts, whatever fails.   *)
THEOREM NoOtherSession == Spec => LogoutIsOfOneSession
<1>1. LogoutInv /\ EarlierLoginsInv /\ [Next]_vars =>
        \A c \in Clients : LoggedIn(c) =>
          \/ LoggedIn(c)'
          \/ \E l \in Logouts :
               /\ Begun(l)
               /\ \/ logouts[l].from = c /\ rp[c].logout = l
                  \/ logouts[l].sid = rp[c].sid /\ logouts[l].cookie = rp[c].sid
  BY LogoutOfOneSessionStep DEF LogoutInv, EarlierLoginsInv
<1>2. QED
  BY <1>1, LogoutInvariant, EarlierLoginsInvariant, PTL DEF Spec, LogoutIsOfOneSession

(* An RP without an access cookie has no rp_sid cookie.                      *)
BareWithoutAccess == \A c \in Clients : ~rp[c].access => rp[c].sid = None

LEMMA BareStep ==
  ASSUME TypeOK, BareWithoutAccess, [Next]_vars, NEW c \in Clients, ~rp'[c].access
  PROVE  rp'[c].sid = None
<1>1. ASSUME Untouched(c) PROVE rp'[c].sid = None
  BY <1>1 DEF Untouched, BareWithoutAccess
<1>2. ASSUME NEW w \in Tabs, RememberSid(w), tabs[w].client = c PROVE FALSE
  BY <1>2, CallbackLogsIn
<1>3. ASSUME NEW l \in Logouts, Notify(l, c) \/ LoadFrame(l, c) PROVE rp' = rp
  BY <1>3, ToldOfOneSid
<1>4. ASSUME NEW l \in Logouts, LoggedOut(l), logouts[l].from = c PROVE rp'[c].sid = None
  BY <1>1, <1>4, ReturnClears
<1>5. ASSUME RestartRP(c) PROVE rp' = rp
  BY <1>5 DEF RestartRP
<1>6. QED
  BY <1>1, <1>2, <1>3, <1>4, <1>5, WhoTouchesAnRP DEF BareWithoutAccess

(* No login takes up the sid of a session that is gone.                      *)
LEMMA NoNewCarrier ==
  ASSUME TypeOK, [Next]_vars, NEW s \in Sids, Gone(s), NEW w \in Tabs, Carries(w, s)'
  PROVE  Carries(w, s)
<1> SUFFICES ASSUME tabs'[w] # tabs[w] PROVE Carries(w, s)
  BY DEF Carries
<1>1. ASSUME NEW v \in Tabs, NEW c \in Clients, Authorize(v, c) PROVE FALSE
  BY <1>1 DEF Authorize, TypeOK, Carries
<1>2. ASSUME NEW v \in Tabs, LoginGoesOn(v) PROVE v = w /\ tabs[w] # Idle
  <2>1. tabs[v] # Idle
    BY <1>2, LoginIsOpen
  <2>2. \A x \in Tabs : x # v => tabs'[x] = tabs[x]
    <3>1. CASE CurrentUser(v) \/ GiveUp(v)
      BY <3>1 DEF CurrentUser, GiveUp, TabGoes, TabCloses, TypeOK
    <3>2. CASE Consent(v) \/ CurrentSID(v)
      BY <3>2 DEF Consent, CurrentSID, TypeOK
    <3>3. CASE IssueCode(v) \/ RememberSid(v)
      BY <3>3 DEF IssueCode, RememberSid, TabGoes, TabCloses, TypeOK
    <3>4. CASE CurrentSIDError(v) \/ IssueCodeUnjoined(v)
      BY <3>4 DEF CurrentSIDError, IssueCodeUnjoined, TabGoes, TypeOK
    <3>5. QED
      BY <1>2, <3>1, <3>2, <3>3, <3>4 DEF LoginGoesOn
  <2>3. QED
    BY <2>1, <2>2
<1>3. CASE LoginGoesOn(w)
  <2>1. tabs[w] \in Login /\ tabs[w] # Idle
    BY <1>2, <1>3 DEF TypeOK
  <2>2. CASE CurrentSID(w)
    <3>1. tabs'[w] = [tabs[w] EXCEPT !.pc = "issue",
                        !.sid = IF Valid(tabs[w].cookie) THEN tabs[w].cookie ELSE None]
      BY <2>2 DEF CurrentSID, TypeOK
    <3>2. tabs'[w].sid = IF Valid(tabs[w].cookie) THEN tabs[w].cookie ELSE None
      BY <2>1, <3>1 DEF Login
    <3>3. QED
      BY <3>2 DEF Carries, Valid, Gone
  <2>3. CASE RememberSid(w) \/ GiveUp(w)
    BY <2>3 DEF RememberSid, GiveUp, TabCloses, TypeOK, Carries
  <2>4. CASE CurrentUser(w) \/ IssueCode(w) \/ CurrentSIDError(w) \/ IssueCodeUnjoined(w)
    <3>1. tabs'[w] = Idle \/ \E pc : tabs'[w] = [tabs[w] EXCEPT !.pc = pc]
      BY <2>4 DEF CurrentUser, IssueCode, CurrentSIDError, IssueCodeUnjoined, TabGoes,
         TabCloses, TypeOK
    <3>2. QED
      BY <2>1, <3>1 DEF Carries, Login
  <2>5. CASE Consent(w)
    <3>1. tabs'[w] = [tabs[w] EXCEPT !.pc = "post", !.cookie = cookie]
      BY <2>5 DEF Consent, TypeOK
    <3>2. QED
      BY <2>1, <3>1 DEF Carries, Login
  <2>6. QED
    BY <1>3, <2>2, <2>3, <2>4, <2>5 DEF LoginGoesOn
<1>4. ASSUME NEW l \in Logouts, LogoutGoesOn(l) PROVE FALSE
  BY <1>4, LogoutStepsApart
<1>5. ASSUME NEW x \in Sids, LookupSessionError(x) PROVE FALSE
  BY <1>5 DEF LookupSessionError
<1>6. ASSUME NEW d \in Clients, RestartRP(d) PROVE FALSE
  BY <1>6 DEF RestartRP
<1>7. CASE SessionStep
  BY <1>7 DEF SessionStep, OpenHome, StartSession, Expire
<1>8. CASE UNCHANGED vars
  BY <1>8 DEF vars
<1>9. QED
  BY <1>1, <1>2, <1>3, <1>4, <1>5, <1>6, <1>7, <1>8
     DEF Next, LoginStep, LogoutStep, Failure, LoginGoesOn, LogoutGoesOn

(* Nobody is shown logged in anew under a session that is gone, but by a     *)
(* login that carried its sid already, and by a restart.                     *)
LEMMA BackUnderAGoneSession ==
  ASSUME TypeOK, BareWithoutAccess, [Next]_vars, NEW s \in Sids, NEW c \in Clients,
         LoggedInUnder(c, s)'
  PROVE  \/ LoggedInUnder(c, s)
         \/ \E w \in Tabs : Carries(w, s) /\ tabs[w].client = c
         \/ RestartRP(c)
<1> USE DEF LoggedInUnder, LoggedIn
<1>1. ASSUME Untouched(c) PROVE LoggedInUnder(c, s)
  BY <1>1 DEF Untouched
<1>2. ASSUME NEW w \in Tabs, RememberSid(w), tabs[w] # Idle, tabs[w].client = c
      PROVE  Carries(w, s) \/ LoggedInUnder(c, s)
  <2>1. CASE tabs[w].sid = s
    BY <1>2, <2>1 DEF Carries
  <2>2. CASE tabs[w].sid # s
    <3>1. /\ tabs[w].sid = None /\ rp[c].sid = s
          /\ revoked'[c] = revoked[c] \ {None} /\ s \notin revoked'[c]
      BY <1>2, <2>2, CallbackLogsIn
    <3>2. s # None /\ s \notin revoked[c]
      BY <3>1
    <3>3. rp[c].access
      BY <3>1, <3>2 DEF BareWithoutAccess
    <3>4. QED
      BY <3>1, <3>2, <3>3
  <2>3. QED
    BY <2>1, <2>2
<1>3. ASSUME NEW l \in Logouts, Notify(l, c) \/ LoadFrame(l, c) PROVE LoggedInUnder(c, s)
  BY <1>3, ToldOfOneSid
<1>4. ASSUME NEW l \in Logouts, LoggedOut(l), logouts[l].from = c PROVE LoggedInUnder(c, s)
  BY <1>1, <1>4, ReturnClears
<1>5. QED
  BY <1>1, <1>2, <1>3, <1>4, WhoTouchesAnRP

(* A session that was logged out stays so: what a logout misses is a login   *)
(* that had read its sid before, and nothing after it brings the sid back.   *)
THEOREM LoggedOutForGood == Spec => LogoutIsForGood
<1>1. Init => BareWithoutAccess
  BY DEF Init, BareWithoutAccess
<1>2. LogoutInv /\ BareWithoutAccess /\ [Next]_vars => BareWithoutAccess'
  BY BareStep DEF LogoutInv, BareWithoutAccess
<1>3. ASSUME LogoutInv, BareWithoutAccess, [Next]_vars, NEW s \in Sids, Gone(s)
      PROVE  /\ Gone(s)'
             /\ \A w \in Tabs : Carries(w, s)' => Carries(w, s)
             /\ \A c \in Clients : LoggedInUnder(c, s)' =>
                  \/ LoggedInUnder(c, s)
                  \/ \E w \in Tabs : Carries(w, s) /\ tabs[w].client = c
                  \/ RestartRP(c)
  <2>1. TypeOK
    BY <1>3 DEF LogoutInv
  <2>2. Gone(s)'
    BY <1>3, <2>1, GoneStaysGone DEF Gone, Live
  <2>3. QED
    BY <1>3, <2>1, <2>2, NoNewCarrier, BackUnderAGoneSession
<1>4. LogoutInv /\ BareWithoutAccess /\ [Next]_vars =>
        \A s \in Sids : Gone(s) =>
          /\ Gone(s)'
          /\ \A w \in Tabs : Carries(w, s)' => Carries(w, s)
          /\ \A c \in Clients : LoggedInUnder(c, s)' =>
               \/ LoggedInUnder(c, s)
               \/ \E w \in Tabs : Carries(w, s) /\ tabs[w].client = c
               \/ RestartRP(c)
  BY <1>3
<1>5. QED
  BY <1>1, <1>2, <1>4, LogoutInvariant, PTL DEF Spec, LogoutIsForGood
=============================================================================
