---------------------------- MODULE SingleLogout ----------------------------
(***************************************************************************)
(* Single logout across relying parties.  A browser logs in at the         *)
(* provider, several of its tabs log in at relying parties (RPs) under     *)
(* that session, and a logout tells every RP the session reached: first    *)
(* over the back channel (a POST from the provider), then over the front   *)
(* channel (an iframe in the browser).  The RP is sample-rp, which keeps   *)
(* the sids it holds revoked in memory.                                    *)
(*                                                                         *)
(* A session row, its cookie and its sid are created together and never    *)
(* re-used, so one value stands for the three.  Every logout token has a   *)
(* jti of its own, so the RP's check for replayed ones never refuses one   *)
(* of the provider's and is left out.                                      *)
(***************************************************************************)
EXTENDS Naturals, FiniteSets

CONSTANTS
  Clients,    \* the relying parties
  Back,       \* those with a BackChannelLogoutURI
  Front,      \* those with a FrontChannelLogoutURI
  Sids,       \* browser sessions at the provider
  Tabs,       \* logins at an RP in flight
  Logouts,    \* logout requests, each made once
  None,       \* no cookie, sid == "", no RP
  MaxFaults   \* bound: failures of all kinds in one behaviour

ASSUME ChannelsAssumption == Back \subseteq Clients /\ Front \subseteq Clients
ASSUME NoneAssumption == None \notin Sids \cup Clients \cup Tabs \cup Logouts
ASSUME FaultsAssumption == MaxFaults \in Nat

VARIABLES
  sessions,  \* table sessions, by sid
  members,   \* table session_clients
  cookie,    \* the browser's cookie at the provider
  rp,        \* the browser's cookies at each RP
  revoked,   \* the sids each RP holds revoked
  tabs,      \* /authorize at the provider, then /callback at the RP
  logouts,   \* /end-session or /logout, then the page it renders
  faults,    \* failures so far
  failed     \* the kinds of failure so far

vars == <<sessions, members, cookie, rp, revoked, tabs, logouts, faults, failed>>

SidOrNone == Sids \cup {None}

Idle == [pc |-> "idle"]
Login == [pc : {"user", "consent", "post", "sid", "issue", "callback"},
          client : Clients, cookie : Sids, sid : SidOrNone]
\* A logout tells nobody until, and unless, it has a sid.
Logout ==
  [pc : {"confirm", "sid", "subject", "end", "frames", "done", "gone"},
   cookie : SidOrNone, sid : SidOrNone, from : Clients \cup {None},
   todo : {{}}, early : SUBSET Clients]
  \cup
  [pc : {"back", "notify", "end", "frames", "done", "gone"},
   cookie : SidOrNone, sid : Sids, from : Clients \cup {None},
   todo : SUBSET Clients, early : SUBSET Clients]
\* login and logout: what rp_state and rp_logout_state name.
RPCookies == [access : BOOLEAN, sid : SidOrNone,
              login : Tabs \cup {None}, logout : Logouts \cup {None}]
Kinds == {"lookup", "lapse", "list", "notice", "frame", "join", "end", "abort", "restart"}

\* Types of the tables, the browser and the requests in flight.
TypeOK ==
  /\ sessions \in [Sids -> {"none", "valid", "expired", "lapsed", "ended"}]
  /\ members \in [Sids -> SUBSET Clients]
  /\ cookie \in SidOrNone
  /\ rp \in [Clients -> RPCookies]
  /\ revoked \in [Clients -> SUBSET Sids]
  /\ tabs \in [Tabs -> {Idle} \cup Login]
  /\ logouts \in [Logouts -> {Idle} \cup Logout]
  /\ faults \in 0..MaxFaults
  /\ failed \subseteq Kinds

Init ==
  /\ sessions = [s \in Sids |-> "none"]
  /\ members = [s \in Sids |-> {}]
  /\ cookie = None
  /\ rp = [c \in Clients |-> [access |-> FALSE, sid |-> None, login |-> None, logout |-> None]]
  /\ revoked = [c \in Clients |-> {}]
  /\ tabs = [w \in Tabs |-> Idle]
  /\ logouts = [l \in Logouts |-> Idle]
  /\ faults = 0
  /\ failed = {}

-----------------------------------------------------------------------------
NoFault == UNCHANGED <<faults, failed>>

Fault(kind) ==
  /\ faults < MaxFaults
  /\ faults' = faults + 1
  /\ failed' = failed \cup {kind}

TabGoes(w, pc) == tabs' = [tabs EXCEPT ![w].pc = pc]

TabCloses(w) == tabs' = [tabs EXCEPT ![w] = Idle]

LogoutGoes(l, pc) == logouts' = [logouts EXCEPT ![l].pc = pc]

Ticks(l, c) == logouts' = [logouts EXCEPT ![l].todo = @ \ {c}]

Live(s) == s # None /\ sessions[s] \in {"valid", "expired"}

Valid(s) == s # None /\ sessions[s] = "valid"

(* Defect, and what an error leaves: the clients go and the session stays. *)
DeleteClientsOnly(s, how) ==
  /\ UNCHANGED sessions
  /\ members' = [x \in Sids |-> IF x = s THEN {} ELSE members[x]]

(* Deletes the row, if there is one, and the clients of the session. *)
DeleteSession(s, how) ==
  /\ sessions' = [x \in Sids |-> IF x = s /\ Live(s) THEN how ELSE sessions[x]]
  /\ members' = [x \in Sids |-> IF x = s /\ Live(s) THEN {} ELSE members[x]]

(* LookupSession forgets a session it finds expired, and those who joined it. *)
LookupSession(s) ==
  IF Live(s) /\ ~Valid(s)
    THEN DeleteSession(s, "lapsed")
    ELSE UNCHANGED <<sessions, members>>

(* Defect: the client is not added to the session. *)
AddSessionClientForgotten(s, c) == UNCHANGED members

AddSessionClient(s, c) ==
  members' = [x \in Sids |-> IF x = s THEN members[x] \cup {c} ELSE members[x]]

(* Defect: the sid that is revoked is the one of the RP's cookie. *)
RevokeSidHeld(c, s) == revoked' = [revoked EXCEPT ![c] = @ \cup {rp[c].sid}]

RevokeSid(c, s) == revoked' = [revoked EXCEPT ![c] = @ \cup {s}]

(* What the RP's page shows: an access token, and a sid that is not revoked. *)
LoggedIn(c) == rp[c].access /\ rp[c].sid \notin revoked[c]

LoggedInUnder(c, s) == LoggedIn(c) /\ rp[c].sid = s

-----------------------------------------------------------------------------
(***************************************************************************)
(* The session at the provider.                                            *)
(***************************************************************************)
StartSession(s) ==
  /\ sessions[s] = "none"
  /\ sessions' = [sessions EXCEPT ![s] = "valid"]
  /\ cookie' = s
  /\ NoFault /\ UNCHANGED <<members, rp, revoked, tabs, logouts>>

(* The cookie expires with the session, by the browser's own clock. *)
Expire(s) ==
  /\ sessions[s] = "valid"
  /\ sessions' = [sessions EXCEPT ![s] = "expired"]
  /\ cookie' \in {cookie, IF cookie = s THEN None ELSE cookie}
  /\ NoFault /\ UNCHANGED <<members, rp, revoked, tabs, logouts>>

(* Any page of the provider looks the session of the browser up. *)
OpenHome ==
  /\ LookupSession(cookie)
  /\ NoFault /\ UNCHANGED <<cookie, rp, revoked, tabs, logouts>>

-----------------------------------------------------------------------------
(***************************************************************************)
(* A login at RP c: /authorize looks the session up for its user and again *)
(* for its sid, stores the code and adds the client to the session; the    *)
(* browser takes the code to the RP's callback, which redeems it, verifies *)
(* the ID token and remembers its sid.                                     *)
(*                                                                         *)
(* logouts[l].early is history: the RPs that were logged in when logout l  *)
(* read the sid, with no other logout of it under way, and at which no     *)
(* login was in flight then or has begun since; after an End that failed   *)
(* half way, only those still on the list of the session.                  *)
(***************************************************************************)
Authorize(w, c) ==
  /\ tabs[w] = Idle
  /\ cookie # None
  /\ tabs' = [tabs EXCEPT ![w] =
       [pc |-> "user", client |-> c, cookie |-> cookie, sid |-> None]]
  /\ rp' = [rp EXCEPT ![c].login = w]
  /\ logouts' = [l \in Logouts |->
       IF logouts[l] = Idle THEN Idle ELSE [logouts[l] EXCEPT !.early = @ \ {c}]]
  /\ NoFault /\ UNCHANGED <<sessions, members, cookie, revoked>>

(* Without a consent on record the user is asked first. *)
CurrentUser(w) ==
  /\ tabs[w].pc \in {"user", "post"}
  /\ LookupSession(tabs[w].cookie)
  /\ IF Valid(tabs[w].cookie)
       THEN TabGoes(w, "sid") \/ (tabs[w].pc = "user" /\ TabGoes(w, "consent"))
       ELSE TabCloses(w)
  /\ NoFault /\ UNCHANGED <<cookie, rp, revoked, logouts>>

(* The user allows it, under the session the browser holds by then. *)
Consent(w) ==
  /\ tabs[w].pc = "consent" /\ cookie # None
  /\ tabs' = [tabs EXCEPT ![w].pc = "post", ![w].cookie = cookie]
  /\ NoFault /\ UNCHANGED <<sessions, members, cookie, rp, revoked, logouts>>

CurrentSID(w) ==
  LET s == tabs[w].cookie IN
  /\ tabs[w].pc = "sid"
  /\ LookupSession(s)
  /\ tabs' = [tabs EXCEPT ![w].pc = "issue",
                          ![w].sid = IF Valid(s) THEN s ELSE None]
  /\ NoFault /\ UNCHANGED <<cookie, rp, revoked, logouts>>

IssueCode(w) ==
  /\ tabs[w].pc = "issue"
  /\ AddSessionClient(tabs[w].sid, tabs[w].client)
  /\ TabGoes(w, "callback")
  /\ NoFault /\ UNCHANGED <<sessions, cookie, rp, revoked, logouts>>

(* The callback of the login that was begun last at the RP redeems the code   *)
(* and verifies the ID token, whose sid it remembers; one without a sid       *)
(* leaves the rp_sid cookie of an earlier login.                              *)
RememberSid(w) ==
  LET c == tabs[w].client
      s == tabs[w].sid IN
  /\ tabs[w].pc = "callback" /\ rp[c].login = w
  /\ revoked' = [revoked EXCEPT ![c] = @ \ {s}]
  /\ rp' = [rp EXCEPT ![c].access = TRUE, ![c].login = None,
                      ![c].sid = IF s = None THEN @ ELSE s]
  /\ TabCloses(w)
  /\ NoFault /\ UNCHANGED <<sessions, members, cookie, logouts>>

(* The user closes the tab or denies consent, or the RP refuses the callback. *)
GiveUp(w) ==
  /\ tabs[w] # Idle
  /\ TabCloses(w)
  /\ NoFault /\ UNCHANGED <<sessions, members, cookie, rp, revoked, logouts>>

-----------------------------------------------------------------------------
(***************************************************************************)
(* A logout.  finishLogout reads the sid, then the user, notifies the      *)
(* clients of the session one after the other, lists them again for the    *)
(* front channel and ends the session; its page loads the iframes before   *)
(* the browser goes on to the RP's /logged-out.                            *)
(***************************************************************************)
NewLogout(pc, c) ==
  [pc |-> pc, cookie |-> cookie, sid |-> None, from |-> c, todo |-> {}, early |-> {}]

(* The logout button of RP c, whose id_token_hint is set with its access     *)
(* cookie: without a hint a user who is logged in has to confirm.            *)
AskLogout(l, c) ==
  /\ logouts[l] = Idle
  /\ rp' = [rp EXCEPT ![c].logout = l]
  /\ LookupSession(cookie)
  /\ logouts' = [logouts EXCEPT ![l] =
       NewLogout(IF Valid(cookie) /\ ~rp[c].access THEN "confirm" ELSE "sid", c)]
  /\ NoFault /\ UNCHANGED <<cookie, revoked, tabs>>

(* The logout button of the provider's own page. *)
AskProvider(l) ==
  /\ logouts[l] = Idle
  /\ logouts' = [logouts EXCEPT ![l] = NewLogout("sid", None)]
  /\ NoFault /\ UNCHANGED <<sessions, members, cookie, rp, revoked, tabs>>

Confirm(l) ==
  /\ logouts[l].pc = "confirm"
  /\ LookupSession(cookie)
  /\ logouts' = [logouts EXCEPT ![l].pc = "sid", ![l].cookie = cookie]
  /\ NoFault /\ UNCHANGED <<cookie, rp, revoked, tabs>>

UnderWay(s) ==
  \E k \in Logouts : /\ logouts[k] # Idle /\ logouts[k].sid = s
                     /\ logouts[k].pc \in {"subject", "back", "notify", "end"}

InFlight(c) == \E w \in Tabs : tabs[w] # Idle /\ tabs[w].client = c

CurrentSIDToEnd(l) ==
  LET s == logouts[l].cookie IN
  /\ logouts[l].pc = "sid"
  /\ LookupSession(s)
  /\ logouts' = [logouts EXCEPT
       ![l].pc = "subject",
       ![l].sid = IF Valid(s) THEN s ELSE None,
       ![l].early = {c \in Clients : /\ Valid(s) /\ ~UnderWay(s)
                                     /\ LoggedInUnder(c, s) /\ ~InFlight(c)
                                     /\ "end" \in failed => c \in members[s]}]
  /\ NoFault /\ UNCHANGED <<cookie, rp, revoked, tabs>>

(* The second lookup may be the one that finds the session expired. *)
CurrentUserToEnd(l) ==
  /\ logouts[l].pc = "subject"
  /\ LookupSession(logouts[l].cookie)
  /\ LogoutGoes(l, IF logouts[l].sid = None THEN "end" ELSE "back")
  /\ NoFault /\ UNCHANGED <<cookie, rp, revoked, tabs>>

ListForBackChannel(l) ==
  /\ logouts[l].pc = "back"
  /\ logouts' = [logouts EXCEPT ![l].pc = "notify",
                                ![l].todo = members[logouts[l].sid] \cap Back]
  /\ NoFault /\ UNCHANGED <<sessions, members, cookie, rp, revoked, tabs>>

(* Defect: the RP answers the notification and forgets the sid. *)
NotifyForgotten(l, c) ==
  /\ logouts[l].pc = "notify" /\ c \in logouts[l].todo
  /\ Ticks(l, c)
  /\ NoFault /\ UNCHANGED <<sessions, members, cookie, rp, revoked, tabs>>

Notify(l, c) ==
  /\ logouts[l].pc = "notify" /\ c \in logouts[l].todo
  /\ RevokeSid(c, logouts[l].sid)
  /\ Ticks(l, c)
  /\ NoFault /\ UNCHANGED <<sessions, members, cookie, rp, tabs>>

(* Defect: the clients of the back channel are not told over the front one. *)
ListForFrontChannelRest(l) ==
  /\ logouts[l].pc = "notify" /\ logouts[l].todo = {}
  /\ logouts' = [logouts EXCEPT ![l].pc = "end",
                                ![l].todo = members[logouts[l].sid] \cap (Front \ Back)]
  /\ NoFault /\ UNCHANGED <<sessions, members, cookie, rp, revoked, tabs>>

ListForFrontChannel(l) ==
  /\ logouts[l].pc = "notify" /\ logouts[l].todo = {}
  /\ logouts' = [logouts EXCEPT ![l].pc = "end",
                                ![l].todo = members[logouts[l].sid] \cap Front]
  /\ NoFault /\ UNCHANGED <<sessions, members, cookie, rp, revoked, tabs>>

(* The answer clears whatever cookie the browser holds by then. *)
EndBrowserSession(l) ==
  /\ logouts[l].pc = "end"
  /\ DeleteSession(logouts[l].cookie, "ended")
  /\ cookie' = None
  /\ LogoutGoes(l, "frames")
  /\ NoFault /\ UNCHANGED <<rp, revoked, tabs>>

LoadFrame(l, c) ==
  /\ logouts[l].pc = "frames" /\ c \in logouts[l].todo
  /\ RevokeSid(c, logouts[l].sid)
  /\ Ticks(l, c)
  /\ NoFault /\ UNCHANGED <<sessions, members, cookie, rp, tabs>>

(* The RP clears its cookies only for the logout it asked for last. *)
LoggedOut(l) ==
  /\ logouts[l].pc = "frames" /\ logouts[l].todo = {}
  /\ LogoutGoes(l, "done")
  /\ LET c == logouts[l].from IN
     rp' = IF c = None THEN rp
           ELSE IF rp[c].logout = l
             THEN [rp EXCEPT ![c] = [access |-> FALSE, sid |-> None,
                                     login |-> @.login, logout |-> None]]
             ELSE [rp EXCEPT ![c].logout = None]
  /\ NoFault /\ UNCHANGED <<sessions, members, cookie, revoked, tabs>>

-----------------------------------------------------------------------------
(***************************************************************************)
(* Failures.                                                               *)
(***************************************************************************)
(* GetSession errs, and currentSID answers "" for a session that is there. *)
CurrentSIDError(w) ==
  /\ tabs[w].pc = "sid"
  /\ Fault("lookup")
  /\ TabGoes(w, "issue")
  /\ UNCHANGED <<sessions, members, cookie, rp, revoked, logouts>>

CurrentSIDToEndError(l) ==
  /\ logouts[l].pc = "sid"
  /\ Fault("lookup")
  /\ LogoutGoes(l, "subject")
  /\ UNCHANGED <<sessions, members, cookie, rp, revoked, tabs>>

(* A lookup that finds a session expired drops the error of DeleteSession,   *)
(* of which the first statement was executed.                                *)
LookupSessionError(s) ==
  /\ sessions[s] = "expired"
  /\ Fault("lapse")
  /\ members' = [members EXCEPT ![s] = {}]
  /\ UNCHANGED <<sessions, cookie, rp, revoked, tabs, logouts>>

(* ListSessionClients errs: nobody is told over that channel. *)
ListError(l) ==
  /\ \/ logouts[l].pc = "back" /\ LogoutGoes(l, "notify")
     \/ logouts[l].pc = "notify" /\ logouts[l].todo = {} /\ LogoutGoes(l, "end")
  /\ Fault("list")
  /\ UNCHANGED <<sessions, members, cookie, rp, revoked, tabs>>

(* The POST does not reach the RP within the 3 s of LogoutHTTP. *)
LoseNotice(l, c) ==
  /\ logouts[l].pc = "notify" /\ c \in logouts[l].todo
  /\ Fault("notice")
  /\ Ticks(l, c)
  /\ UNCHANGED <<sessions, members, cookie, rp, revoked, tabs>>

(* The page moves on after a second, whether the iframe has loaded or not. *)
LoseFrame(l, c) ==
  /\ logouts[l].pc = "frames" /\ c \in logouts[l].todo
  /\ Fault("frame")
  /\ Ticks(l, c)
  /\ UNCHANGED <<sessions, members, cookie, rp, revoked, tabs>>

(* The error of AddSessionClient is dropped and the code is issued. *)
IssueCodeUnjoined(w) ==
  /\ tabs[w].pc = "issue"
  /\ Fault("join")
  /\ TabGoes(w, "callback")
  /\ UNCHANGED <<sessions, members, cookie, rp, revoked, logouts>>

(* So is the error of End: the statements of DeleteSession fail one by one. *)
EndBrowserSessionError(l) ==
  /\ logouts[l].pc = "end"
  /\ Fault("end")
  /\ LET s == logouts[l].cookie IN
     \/ UNCHANGED <<sessions, members>>
     \/ DeleteClientsOnly(s, "ended")
     \/ sessions' = [x \in Sids |-> IF x = s /\ Live(s) THEN "ended" ELSE sessions[x]]
        /\ UNCHANGED members
  /\ cookie' = None
  /\ LogoutGoes(l, "frames")
  /\ UNCHANGED <<rp, revoked, tabs>>

(* The browser goes away: the request context ends and so does the logout. *)
AbortLogout(l) ==
  /\ logouts[l] # Idle /\ logouts[l].pc \notin {"done", "gone"}
  /\ Fault("abort")
  /\ LogoutGoes(l, "gone")
  /\ UNCHANGED <<sessions, members, cookie, rp, revoked, tabs>>

RestartRP(c) ==
  /\ revoked[c] # {}
  /\ Fault("restart")
  /\ revoked' = [revoked EXCEPT ![c] = {}]
  /\ UNCHANGED <<sessions, members, cookie, rp, tabs, logouts>>

-----------------------------------------------------------------------------
SessionStep == OpenHome \/ \E s \in Sids : StartSession(s) \/ Expire(s)

LoginStep ==
  \E w \in Tabs :
     \/ \E c \in Clients : Authorize(w, c)
     \/ CurrentUser(w) \/ Consent(w) \/ CurrentSID(w) \/ IssueCode(w)
     \/ RememberSid(w) \/ GiveUp(w)

\* What the provider and the page it renders do by themselves.
FinishLogout(l) ==
  \/ CurrentSIDToEnd(l) \/ CurrentUserToEnd(l)
  \/ ListForBackChannel(l) \/ ListForFrontChannel(l)
  \/ EndBrowserSession(l) \/ LoggedOut(l)
  \/ \E c \in Clients : Notify(l, c) \/ LoadFrame(l, c)

LogoutStep ==
  \E l \in Logouts :
     \/ \E c \in Clients : AskLogout(l, c)
     \/ AskProvider(l) \/ Confirm(l) \/ FinishLogout(l)

Failure ==
  \/ \E l \in Logouts :
        \/ CurrentSIDToEndError(l) \/ ListError(l)
        \/ EndBrowserSessionError(l) \/ AbortLogout(l)
        \/ \E c \in Clients : LoseNotice(l, c) \/ LoseFrame(l, c)
  \/ \E w \in Tabs : CurrentSIDError(w) \/ IssueCodeUnjoined(w)
  \/ \E s \in Sids : LookupSessionError(s)
  \/ \E c \in Clients : RestartRP(c)

Next == SessionStep \/ LoginStep \/ LogoutStep \/ Failure

Spec == Init /\ [][Next]_vars

\* The handler runs to its end and the page's timer fires; users may stop anywhere.
FairSpec == Spec /\ \A l \in Logouts : WF_vars(FinishLogout(l))

-----------------------------------------------------------------------------
\* Every RP that shows a user logged in under a session the provider still
\* has is among the clients that session's logout will notify: the client is
\* added before the code is handed out, and no lookup, logout or second login
\* takes it away (issueCodeRedirect, DeleteSession).  Dropped errors of
\* AddSessionClient and DeleteSession are the exceptions.
LiveLoginsAreMembers ==
  failed \cap {"join", "lapse", "end"} = {} =>
    \A c \in Clients, s \in Sids :
      LoggedInUnder(c, s) /\ Live(s) => c \in members[s]

\* A sid that is held anywhere is that of a session that was started.
KnownSids ==
  LET Started(s) == s # None => sessions[s] # "none" IN
  /\ Started(cookie)
  /\ \A w \in Tabs : tabs[w].pc # "idle" => Started(tabs[w].cookie) /\ Started(tabs[w].sid)
  /\ \A c \in Clients : Started(rp[c].sid)

\* The client of a code on its way to the RP, and of a sid the RP has in a
\* cookie, is a member of the session it came from, as long as that lives.
Joined ==
  failed \cap {"join", "lapse", "end"} = {} =>
    /\ \A w \in Tabs :
         tabs[w].pc = "callback" /\ Live(tabs[w].sid) => tabs[w].client \in members[tabs[w].sid]
    /\ \A c \in Clients : Live(rp[c].sid) => c \in members[rp[c].sid]

\* The inductive invariant behind LiveLoginsAreMembers: a sid in use was
\* started, and who holds one of a live session has joined it.
LogoutInv == TypeOK /\ KnownSids /\ Joined

\* A channel to the RP was not cut: any, when no notice or frame was lost, both
\* when one was.
Reached(c) ==
  \/ c \in Back \cup Front /\ failed \subseteq {"end"}
  \/ c \in Back \cap Front /\ faults <= 1 /\ failed \subseteq {"notice", "frame", "end"}

\* Another logout of the same session still has the iframe of RP c to load.
FramePending(c, s) ==
  \E k \in Logouts : /\ logouts[k] # Idle /\ logouts[k].pc = "frames"
                     /\ logouts[k].sid = s /\ c \in logouts[k].todo

\* When a logout is over, every RP that was logged in under its session before
\* and has not begun to log in again shows the user as logged out
\* (finishLogout), also when logouts overlap and when one of the two channels
\* to it lost its message; unless the session lapsed meanwhile.
LogoutEndsEarlierLogins ==
  \A l \in Logouts : logouts[l].pc = "done" =>
    \A c \in logouts[l].early :
      LET s == logouts[l].sid IN
      Reached(c) /\ sessions[s] # "lapsed" /\ ~FramePending(c, s)
        => ~LoggedInUnder(c, s)

(* Logouts that have read a sid and go on: one that was aborted is not.      *)
Begun(l) ==
  logouts[l] # Idle /\ logouts[l].pc \in {"subject", "back", "notify", "end", "frames", "done"}

\* A logout that has no sid has a cookie without a session, but for a lookup
\* that failed; one that has a sid has it from its cookie, and reads it once.
LogoutSids ==
  /\ \A l \in Logouts : logouts[l] # Idle =>
       /\ logouts[l].cookie # None => sessions[logouts[l].cookie] # "none"
       /\ logouts[l].sid \in {logouts[l].cookie, None}
       /\ logouts[l].sid = None => logouts[l].early = {}
       /\ logouts[l].pc \in {"confirm", "sid"} => logouts[l].sid = None
  /\ "lookup" \notin failed =>
       \A l \in Logouts : Begun(l) /\ logouts[l].sid = None => ~Live(logouts[l].cookie)

\* An RP stops showing a user as logged in only for a logout it has asked for, or
\* for one of that very session, begun where its cookie was (finishLogout, Notify,
\* LoggedOut): a notice, an iframe or a second login that comes late takes nobody
\* out of a session that is not being ended.
LogoutIsOfOneSession ==
  [][\A c \in Clients : LoggedIn(c) =>
       \/ LoggedIn(c)'
       \/ \E l \in Logouts :
            /\ Begun(l)
            /\ \/ logouts[l].from = c /\ rp[c].logout = l
               \/ logouts[l].sid = rp[c].sid /\ logouts[l].cookie = rp[c].sid]_vars

Gone(s) == sessions[s] \in {"ended", "lapsed"}

\* A login that has read the sid s and may still bring it to its RP.
Carries(w, s) == tabs[w] # Idle /\ tabs[w].sid = s

\* A session that is gone stays gone, no login takes up its sid any more, and an RP
\* comes to show a user logged in under it only through a login that had read the
\* sid before, or because it forgot at a restart what it was told (currentSID,
\* DeleteSession, sids.ts).
LogoutIsForGood ==
  [][\A s \in Sids : Gone(s) =>
       /\ Gone(s)'
       /\ \A w \in Tabs : Carries(w, s)' => Carries(w, s)
       /\ \A c \in Clients : LoggedInUnder(c, s)' =>
            \/ LoggedInUnder(c, s)
            \/ \E w \in Tabs : Carries(w, s) /\ tabs[w].client = c
            \/ RestartRP(c)]_vars

(* The kinds that have failed are different failures.                        *)
FaultsCounted ==
  \A a \in failed : faults >= 1 /\ \A b \in failed : a # b => faults >= 2

\* RP c is still on the list of the session logout l ends.
StillListed(l, c) == Live(logouts[l].sid) /\ c \in members[logouts[l].sid]

Ends(k, l) == logouts[k] # Idle /\ logouts[k].sid = logouts[l].sid

ShownOut(l, c) ==
  sessions[logouts[l].sid] = "lapsed" \/ ~LoggedInUnder(c, logouts[l].sid)

\* As long as RP c shows the user logged in, it is on the list, and every logout
\* that has made its list of the back channel has the RP still to notify.
BackChannelTells(l, c) ==
  \/ ShownOut(l, c)
  \/ /\ StillListed(l, c)
     /\ logouts[l].pc \in {"subject", "back", "notify"}
     /\ \A k \in Logouts : Ends(k, l) =>
          /\ logouts[k].pc # "end"
          /\ logouts[k].pc = "notify" => c \in logouts[k].todo

\* The same of the iframes, until the session is gone; then some logout's page
\* has the iframe of the RP still to load.
FrontChannelTells(l, c) ==
  \/ ShownOut(l, c) \/ FramePending(c, logouts[l].sid)
  \/ /\ StillListed(l, c)
     /\ logouts[l].pc \in {"subject", "back", "notify", "end"}
     /\ \A k \in Logouts : Ends(k, l) /\ logouts[k].pc = "end" => c \in logouts[k].todo

\* The inductive invariant behind LogoutEndsEarlierLogins: of an RP that was
\* logged in before the logout no login is in flight, and each channel to it that
\* has lost nothing will tell it, through this logout or another one.
EarlierLoginsInv ==
  /\ LogoutSids /\ FaultsCounted
  /\ \A l \in Logouts : logouts[l] # Idle => \A c \in logouts[l].early :
       /\ ~InFlight(c)
       /\ c \in Back /\ failed \subseteq {"end", "frame"} => BackChannelTells(l, c)
       /\ c \in Front /\ failed \subseteq {"end", "notice"} => FrontChannelTells(l, c)

\* A logout that has begun to be served removes the session of its cookie
\* (finishLogout), whatever logins and logouts run beside it and whatever else
\* fails, unless the browser goes away or the statements of End fail.
LogoutEndsSession ==
  \A l \in Logouts, s \in Sids :
    logouts[l].pc = "sid" /\ logouts[l].cookie = s ~>
      ~Live(s) \/ failed \cap {"end", "abort"} # {}

\* What README.md:31 and the test "logging out from one RP ends the other RP
\* session" promise: after a logout nobody is logged in under its session.
LogoutEndsEveryLogin ==
  failed = {} =>
    \A l \in Logouts : logouts[l].pc = "done" /\ logouts[l].sid # None =>
      \A c \in Back \cup Front : ~LoggedInUnder(c, logouts[l].sid)
=============================================================================
