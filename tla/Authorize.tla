------------------------------ MODULE Authorize ------------------------------
(***************************************************************************)
(* GET /authorize and POST /consent, up to the authorization code.  A      *)
(* request whose user has not consented to what the client asks leaves a   *)
(* pending request in the memory of the process and answers with a page    *)
(* that names it; the answer to the page comes later, perhaps twice,       *)
(* perhaps from another user of the same browser, perhaps after a restart. *)
(* Meanwhile an admin edits the client and disables users.                 *)
(*                                                                         *)
(* A page stands for the id of its pending request, which is random and    *)
(* never used again.  The sid of a code and the clients that join a        *)
(* session are in SingleLogout; so is the lapse of a session, which here   *)
(* is a lookup that finds nobody.                                          *)
(***************************************************************************)
EXTENDS Naturals

CONSTANTS
  Requests,   \* handlers, each used over and over
  Users,      \* those who may be logged in
  Clients,    \* the clients registered
  URIs,       \* redirect URIs a request or an admin may name
  Edits,      \* sets of redirect URIs an admin may give a client
  Scopes,     \* what a request may ask for
  Known,      \* the scopes the provider allows
  OpenID,     \* the scope that must be asked for
  Pages,      \* consent pages
  Codes,      \* authorization codes
  None,       \* no row, no page
  MaxFaults   \* bound: failed store calls and restarts

ASSUME ScopesAssumption == Known \subseteq Scopes /\ OpenID \in Known
ASSUME EditsAssumption == Edits \subseteq (SUBSET URIs) \ {{}}
ASSUME FaultsAssumption == MaxFaults \in Nat

VARIABLES
  redirects,   \* column redirect_uris of the clients
  enabled,     \* column disabled of the users, negated
  consents,    \* table consents; {} is no row, for a row has OpenID
  codes,       \* table auth_codes
  audits,      \* audit_events of type consent
  pages,       \* the pending requests, and what became of them
  reqs,        \* the handlers
  faults,      \* failures so far
  registered,  \* history: the URIs each client has ever had
  allowed      \* history: what each user has allowed each client

vars == <<redirects, enabled, consents, codes, audits, pages, reqs, faults,
          registered, allowed>>
history == <<registered, allowed>>

\* What /authorize puts together (pendingAuth).
Wanted == {s \in SUBSET Known : OpenID \in s}
PendingAuth == [client : Clients, uri : URIs, scopes : Wanted]
Pending == [state : {"pending"}, auth : PendingAuth]
\* What became of a page is history: to the code it is not there.
Gone == {[state |-> s] : s \in {"unused", "taken", "denied", "lost"}}

Idle == [pc |-> "idle"]
\* served is history: the user was enabled at some moment of the request.
Asking == [pc : {"user", "consented", "code"}, user : Users, served : BOOLEAN,
           auth : PendingAuth, page : {None}]
Posting == [pc : {"poster", "take"}, user : Users, served : BOOLEAN, page : Pages]
Allowing == [pc : {"allow", "code"}, user : Users, served : BOOLEAN,
             auth : PendingAuth, page : Pages]

CodeRow == [user : Users, auth : PendingAuth, page : Pages \cup {None}]

ASSUME NoneAssumption == None \notin Pages \cup CodeRow

\* Types of the tables, the pending requests and the handlers.
TypeOK ==
  /\ redirects \in [Clients -> SUBSET URIs]
  /\ enabled \subseteq Users
  /\ consents \in [Users \X Clients -> SUBSET Known]
  /\ codes \in [Codes -> CodeRow \cup {None}]
  /\ audits \subseteq Pages
  /\ pages \in [Pages -> Gone \cup Pending]
  /\ reqs \in [Requests -> {Idle} \cup Asking \cup Posting \cup Allowing]
  /\ faults \in 0..MaxFaults
  /\ registered \in [Clients -> SUBSET URIs]
  /\ allowed \in [Users \X Clients -> SUBSET SUBSET Known]

Init ==
  /\ redirects \in [Clients -> Edits]
  /\ enabled = Users
  /\ consents = [uc \in Users \X Clients |-> {}]
  /\ codes = [k \in Codes |-> None]
  /\ audits = {}
  /\ pages = [p \in Pages |-> [state |-> "unused"]]
  /\ reqs = [r \in Requests |-> Idle]
  /\ faults = 0
  /\ registered = redirects
  /\ allowed = [uc \in Users \X Clients |-> {}]

-----------------------------------------------------------------------------
Goes(r, pc) == reqs' = [reqs EXCEPT ![r].pc = pc]

Ends(r) == reqs' = [reqs EXCEPT ![r] = Idle]

Fault ==
  /\ faults < MaxFaults
  /\ faults' = faults + 1

(* Defect: a scope nobody knows passes. *)
NormalizeScopesOpenID(scopes) == OpenID \in scopes

(* Scopes a request may ask for: all of them known, openid among them.     *)
NormalizeScopes(scopes) == scopes \subseteq Known /\ OpenID \in scopes

(* Defect: any URI of the server will do. *)
RedirectURIAny(uri, c) == uri \in URIs

RedirectURIExact(uri, c) == uri \in redirects[c]

(* Defect: a consent to some of the scopes counts for all of them. *)
HasConsentToSome(u, auth) == consents[<<u, auth.client>>] \cap auth.scopes # {}

hasConsent(u, auth) == auth.scopes \subseteq consents[<<u, auth.client>>]

-----------------------------------------------------------------------------
(***************************************************************************)
(* GET /authorize                                                          *)
(***************************************************************************)
(* A request that is refused at once changes nothing. *)
HandleAuthorize(r, u, auth) ==
  /\ reqs[r] = Idle
  /\ RedirectURIExact(auth.uri, auth.client)
  /\ NormalizeScopes(auth.scopes)
  /\ reqs' = [reqs EXCEPT ![r] =
       [pc |-> "user", user |-> u, served |-> u \in enabled, auth |-> auth, page |-> None]]
  /\ UNCHANGED <<redirects, enabled, consents, codes, audits, pages, faults, history>>

(* Defect: the session is looked up, and not the user. *)
CurrentSession(r) ==
  /\ reqs[r].pc \in {"user", "poster"}
  /\ Goes(r, IF reqs[r].pc = "user" THEN "consented" ELSE "take")
  /\ UNCHANGED <<redirects, enabled, consents, codes, audits, pages, faults, history>>

(* Both handlers look the user up; who is not found is sent to log in. *)
CurrentUser(r) ==
  /\ reqs[r].pc \in {"user", "poster"}
  /\ reqs[r].user \in enabled
  /\ Goes(r, IF reqs[r].pc = "user" THEN "consented" ELSE "take")
  /\ UNCHANGED <<redirects, enabled, consents, codes, audits, pages, faults, history>>

(* The user is disabled, the session has lapsed, or a lookup fails. *)
SendToLogin(r) ==
  /\ reqs[r].pc \in {"user", "poster"}
  /\ Ends(r)
  /\ UNCHANGED <<redirects, enabled, consents, codes, audits, pages, faults, history>>

Consented(r) ==
  /\ reqs[r].pc = "consented"
  /\ hasConsent(reqs[r].user, reqs[r].auth)
  /\ Goes(r, "code")
  /\ UNCHANGED <<redirects, enabled, consents, codes, audits, pages, faults, history>>

(* A consent that cannot be read is asked for again. *)
AskConsent(r, p) ==
  /\ reqs[r].pc = "consented"
  /\ \/ ~hasConsent(reqs[r].user, reqs[r].auth) /\ UNCHANGED faults
     \/ Fault
  /\ pages[p].state = "unused"
  /\ pages' = [pages EXCEPT ![p] = [state |-> "pending", auth |-> reqs[r].auth]]
  /\ Ends(r)
  /\ UNCHANGED <<redirects, enabled, consents, codes, audits, history>>

-----------------------------------------------------------------------------
(***************************************************************************)
(* POST /consent                                                           *)
(***************************************************************************)
(* Whoever is logged in at the browser submits a page it was shown. *)
HandleConsent(r, u, p) ==
  /\ reqs[r] = Idle
  /\ pages[p].state # "unused"
  /\ reqs' = [reqs EXCEPT ![r] =
       [pc |-> "poster", user |-> u, served |-> u \in enabled, page |-> p]]
  /\ UNCHANGED <<redirects, enabled, consents, codes, audits, pages, faults, history>>

Allows(r, auth) ==
  /\ reqs' = [reqs EXCEPT ![r] = [pc |-> "allow", user |-> @.user, served |-> @.served,
                                  auth |-> auth, page |-> @.page]]
  /\ allowed' = [allowed EXCEPT ![<<reqs[r].user, auth.client>>] = @ \cup {auth.scopes}]

(* Defect: the pending request is read and not deleted. *)
TakePendingKept(r) ==
  /\ reqs[r].pc = "take"
  /\ pages[reqs[r].page].state = "pending"
  /\ Allows(r, pages[reqs[r].page].auth)
  /\ UNCHANGED <<redirects, enabled, consents, codes, audits, pages, faults, registered>>

(* Found and deleted under the mutex; the user allows what the page shows. *)
TakePending(r) ==
  /\ reqs[r].pc = "take"
  /\ pages[reqs[r].page].state = "pending"
  /\ pages' = [pages EXCEPT ![reqs[r].page] = [state |-> "taken"]]
  /\ Allows(r, pages[reqs[r].page].auth)
  /\ UNCHANGED <<redirects, enabled, consents, codes, audits, faults, registered>>

DenyPending(r) ==
  /\ reqs[r].pc = "take"
  /\ pages[reqs[r].page].state = "pending"
  /\ pages' = [pages EXCEPT ![reqs[r].page] = [state |-> "denied"]]
  /\ Ends(r)
  /\ UNCHANGED <<redirects, enabled, consents, codes, audits, faults, history>>

RefusePending(r) ==
  /\ reqs[r].pc = "take"
  /\ pages[reqs[r].page].state # "pending"
  /\ Ends(r)
  /\ UNCHANGED <<redirects, enabled, consents, codes, audits, pages, faults, history>>

(* One row per user and client: the last decision replaces the others.  The  *)
(* event is appended after it, which nobody waits for or reads here.         *)
PutConsent(r) ==
  /\ reqs[r].pc = "allow"
  /\ consents' = [consents EXCEPT ![<<reqs[r].user, reqs[r].auth.client>>] = reqs[r].auth.scopes]
  /\ \/ audits' = audits \cup {reqs[r].page} /\ UNCHANGED faults
     \/ UNCHANGED audits /\ Fault
  /\ Goes(r, "code")
  /\ UNCHANGED <<redirects, enabled, codes, pages, history>>

(* The error is dropped. *)
PutConsentError(r) ==
  /\ reqs[r].pc = "allow"
  /\ Fault
  /\ audits' = audits \cup {reqs[r].page}
  /\ Goes(r, "code")
  /\ UNCHANGED <<redirects, enabled, consents, codes, pages, history>>

-----------------------------------------------------------------------------
(***************************************************************************)
(* The code                                                                *)
(***************************************************************************)
(* Defect: the code carries what is on record, not what the page showed. *)
StoreCodeOnRecord(r, k) ==
  /\ codes[k] = None
  /\ codes' = [codes EXCEPT ![k] =
       [user |-> reqs[r].user, page |-> reqs[r].page,
        auth |-> [reqs[r].auth EXCEPT
                   !.scopes = consents[<<reqs[r].user, reqs[r].auth.client>>]]]]

StoreCode(r, k) ==
  /\ codes[k] = None
  /\ codes' = [codes EXCEPT ![k] =
       [user |-> reqs[r].user, auth |-> reqs[r].auth, page |-> reqs[r].page]]

(* A code stored although PutCode errs is one nobody is told. *)
IssueCode(r, k) ==
  /\ reqs[r].pc = "code"
  /\ StoreCode(r, k)
  /\ Ends(r)
  /\ UNCHANGED faults \/ Fault
  /\ UNCHANGED <<redirects, enabled, consents, audits, pages, history>>

PutCodeError(r) ==
  /\ reqs[r].pc = "code"
  /\ Fault
  /\ Ends(r)
  /\ UNCHANGED <<redirects, enabled, consents, codes, audits, pages, history>>

-----------------------------------------------------------------------------
(***************************************************************************)
(* The world around                                                        *)
(***************************************************************************)
(* An admin replaces the redirect URIs of a client, of which there is at     *)
(* least one.                                                                *)
UpdateClient(c, uris) ==
  /\ redirects' = [redirects EXCEPT ![c] = uris]
  /\ registered' = [registered EXCEPT ![c] = @ \cup uris]
  /\ UNCHANGED <<enabled, consents, codes, audits, pages, reqs, faults, allowed>>

SetUserDisabled(u) ==
  /\ enabled' = IF u \in enabled THEN enabled \ {u} ELSE enabled \cup {u}
  /\ reqs' = [r \in Requests |->
       IF reqs[r] # Idle /\ reqs[r].user = u /\ u \notin enabled
         THEN [reqs[r] EXCEPT !.served = TRUE] ELSE reqs[r]]
  /\ UNCHANGED <<redirects, consents, codes, audits, pages, faults, history>>

(* Ten lifetimes of a code pass.  The entry stays in the map until somebody  *)
(* submits the page and is refused: nobody can tell it from one that is gone. *)
ExpirePending(p) ==
  /\ pages[p].state = "pending"
  /\ pages' = [pages EXCEPT ![p] = [state |-> "lost"]]
  /\ UNCHANGED <<redirects, enabled, consents, codes, audits, reqs, faults, history>>

Restart ==
  /\ Fault
  /\ reqs' = [r \in Requests |-> Idle]
  /\ pages' = [p \in Pages |->
       IF pages[p] \in Pending THEN [state |-> "lost"] ELSE pages[p]]
  /\ UNCHANGED <<redirects, enabled, consents, codes, audits, history>>

-----------------------------------------------------------------------------
Handle(r) ==
  \/ CurrentUser(r) \/ SendToLogin(r) \/ Consented(r)
  \/ TakePending(r) \/ DenyPending(r) \/ RefusePending(r)
  \/ PutConsent(r) \/ PutConsentError(r)
  \/ PutCodeError(r)
  \/ \E p \in Pages : AskConsent(r, p)
  \/ \E k \in Codes : IssueCode(r, k)

World ==
  \/ \E c \in Clients, uris \in Edits : UpdateClient(c, uris)
  \/ \E u \in Users : SetUserDisabled(u)
  \/ \E p \in Pages : ExpirePending(p)
  \/ Restart

Next ==
  \/ \E r \in Requests, u \in Users :
        \/ \E c \in Clients, uri \in URIs, scopes \in SUBSET Scopes :
              HandleAuthorize(r, u, [client |-> c, uri |-> uri, scopes |-> scopes])
        \/ \E p \in Pages : HandleConsent(r, u, p)
  \/ \E r \in Requests : Handle(r)
  \/ World

Spec == Init /\ [][Next]_vars

-----------------------------------------------------------------------------
Issued == {k \in Codes : codes[k] # None}

\* A page yields one code at most, and none when it was denied, however often
\* and by whomever it is submitted (handleConsent, the mutex around pending).
PageAnsweredOnce ==
  \A k \in Issued : codes[k].page # None =>
    /\ pages[codes[k].page].state = "taken"
    /\ \A m \in Issued : codes[m].page = codes[k].page => m = k

\* A code carries no scope its user has not allowed its client in one decision,
\* whoever opened the page and whatever decision is stored last (hasConsent,
\* PutConsent).
CodesAreAllowed ==
  \A k \in Issued :
    \E decision \in allowed[<<codes[k].user, codes[k].auth.client>>] :
      codes[k].auth.scopes \subseteq decision

\* A user disabled before a request comes in gets no consent and no code from
\* it, wherever the page came from (currentUser): a page outlives the check that
\* was made when it was opened.
DisabledGetNoCode ==
  \A r \in Requests :
    reqs[r].pc \in {"consented", "take", "allow", "code"} => reqs[r].served

\* A code is sent only to a URI an admin has registered for its client, however
\* the client is edited before the page is answered (handleAuthorize,
\* RedirectURIExact).
CodesGoToRegisteredURIs ==
  \A k \in Issued : codes[k].auth.uri \in registered[codes[k].auth.client]

-----------------------------------------------------------------------------
(* Handlers that store a code unless something fails, and those of them that *)
(* serve the answer to a page.                                               *)
Granting == {r \in Requests : reqs[r].pc \in {"allow", "code"}}
Answering == {r \in Granting : reqs[r].page # None}

UsesRegisteredURIs ==
  /\ \A c \in Clients : redirects[c] \subseteq registered[c]
  /\ \A r \in Requests : reqs[r].pc \in {"user", "consented", "allow", "code"} =>
       reqs[r].auth.uri \in registered[reqs[r].auth.client]
  /\ \A p \in Pages : pages[p].state = "pending" =>
       pages[p].auth.uri \in registered[pages[p].auth.client]
  /\ CodesGoToRegisteredURIs

GrantsAreAllowed ==
  /\ \A u \in Users, c \in Clients : consents[<<u, c>>] # {} =>
       \E decision \in allowed[<<u, c>>] : consents[<<u, c>>] \subseteq decision
  /\ \A r \in Granting :
       \E decision \in allowed[<<reqs[r].user, reqs[r].auth.client>>] :
         reqs[r].auth.scopes \subseteq decision
  /\ CodesAreAllowed

AnswersAreTaken ==
  /\ \A r \in Answering :
       /\ pages[reqs[r].page].state = "taken"
       /\ \A k \in Issued : codes[k].page # reqs[r].page
       /\ \A q \in Answering : reqs[q].page = reqs[r].page => q = r
  /\ PageAnsweredOnce

EnabledAreServed ==
  /\ \A r \in Requests : reqs[r] # Idle /\ reqs[r].user \in enabled => reqs[r].served
  /\ DisabledGetNoCode

\* What a handler and a pending request carry is what the client may have and the
\* user has allowed, between any two calls of handleAuthorize and handleConsent:
\* the four properties above follow from it, step by step.
AuthorizeInv ==
  /\ TypeOK
  /\ UsesRegisteredURIs /\ GrantsAreAllowed /\ AnswersAreTaken /\ EnabledAreServed

-----------------------------------------------------------------------------
Answers(p) == {r \in Answering : reqs[r].page = p}

CodesOf(p) == {k \in Issued : codes[k].page = p}

\* An answer is final: a page that was allowed, denied or lost stays what it is, one
\* that was denied or lost is never picked up by a handler and never becomes a code,
\* and a code that a page became is joined by no other and stays the row it was
\* (handleConsent, issueCodeRedirect).
AnswerIsFinal ==
  [][\A p \in Pages :
       /\ pages[p].state \in {"taken", "denied", "lost"} => pages'[p] = pages[p]
       /\ pages[p].state \in {"denied", "lost"} => Answers(p)' = {} /\ CodesOf(p)' = {}
       /\ CodesOf(p) # {} => Answers(p)' = {} /\ CodesOf(p)' = CodesOf(p)
       /\ \A k \in CodesOf(p) : codes'[k] = codes[k]]_vars

\* Where the permission of a page is: in the map of pending requests, in a
\* handler that goes on to the code, in a code.
SlipsOf(p) ==
  (CASE pages[p].state = "unused" -> {[place |-> "pad"]}
     [] pages[p].state = "pending" -> {[place |-> "page", offer |-> pages[p].auth]}
     [] OTHER -> {})
  \cup {[place |-> "answer", offer |-> reqs[r].auth, user |-> reqs[r].user] : r \in Answers(p)}
  \cup {[place |-> "code", offer |-> codes[k].auth, user |-> codes[k].user, code |-> k] :
          k \in CodesOf(p)}

Consent == INSTANCE ConsentPage WITH
  Offers <- PendingAuth, slips <- [p \in Pages |-> SlipsOf(p)]

\* Every behaviour of the two handlers is one of the abstract consent pages: what
\* a page shows is answered once, by one user, and ends in one code for that user
\* and for exactly what was shown, or in none (handleConsent, issueCodeRedirect).
ConsentProtocol == Consent!Spec
=============================================================================
