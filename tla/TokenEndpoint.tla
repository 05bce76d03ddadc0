--------------------------- MODULE TokenEndpoint ---------------------------
(***************************************************************************)
(* POST /token of the identity provider: redeeming an authorization code   *)
(* and rotating a refresh token.  Requests are served concurrently by      *)
(* handler goroutines; every call on the shared store is one step, and the *)
(* local work that follows a call belongs to that step.  A step can fail   *)
(* (the request context is cancelled when the caller disconnects, the      *)
(* database connection breaks), its write done or not; an answer can be    *)
(* lost; the process can restart over a durable store.                     *)
(***************************************************************************)
EXTENDS Naturals, FiniteSets

CONSTANTS
  Requests,       \* slots for requests in flight
  Clients,        \* registered relying parties, already authenticated
  Grants,         \* what a user agreed to: (UserID, SessionSID, Scopes)
  Offline,        \* the grants whose scopes contain offline_access
  Codes,          \* authorization codes (their hashes)
  RefreshTokens,  \* refresh tokens (their hashes)
  Families,       \* refresh token family ids
  Redirects,      \* redirect_uri values
  Verifiers,      \* PKCE verifiers; a challenge is named by its verifier
  NoRow,          \* no row in the store / no token in an answer
  NoFamily,       \* familyID == ""
  CodeTTL,        \* lifetime of a code
  RefreshTTL,     \* lifetime of a refresh token
  MaxTime,        \* bound: the clock stops here
  MaxFaults       \* bound: failures of all kinds in one behaviour

ASSUME OfflineAssumption == Offline \subseteq Grants
ASSUME FamiliesAssumption == NoFamily \notin Families
ASSUME SourcesAssumption == Codes \cap RefreshTokens = {}
ASSUME NatAssumption ==
  /\ CodeTTL \in Nat /\ RefreshTTL \in Nat
  /\ MaxTime \in Nat /\ MaxFaults \in Nat

VARIABLES
  now,      \* the clock
  codes,    \* table auth_codes
  refresh,  \* table refresh_tokens
  access,   \* table access_tokens; src is the code or token it was minted from
  audits,   \* table audit_events, as the set of distinct events
  reqs,     \* the handler goroutines
  held,     \* refresh tokens that reached a relying party
  minted,   \* history: access tokens minted from each code or refresh token
  faults    \* failures so far

vars == <<now, codes, refresh, access, audits, reqs, held, minted, faults>>

Sources == Codes \cup RefreshTokens

CodeRow == [client : Clients, grant : Grants, redirect : Redirects,
            challenge : Verifiers, exp : Nat, used : BOOLEAN]
RefreshRow == [family : Families, client : Clients, grant : Grants,
               exp : Nat, revoked : BOOLEAN]
ASSUME NoRowAssumption == NoRow \notin CodeRow \cup RefreshRow \cup RefreshTokens

AccessRow == [src : Sources, client : Clients, grant : Grants]
AuditEvent == [type : {"token_issue"}, client : Clients, grant : Grants]
              \cup [type : {"revoke"}, family : Families]

(***************************************************************************)
(* What a handler goroutine keeps in its local variables, by the store     *)
(* call it is about to make.                                               *)
(***************************************************************************)
Idle == [pc |-> "idle"]
CodeRequest == [pc : {"take_code"}, client : Clients, code : Codes,
                redirect : Redirects, verifier : Verifiers]
RefreshRequest == [pc : {"take_refresh"}, client : Clients,
                   token : RefreshTokens]
Minting == [pc : {"put_access", "put_refresh"}, src : Sources,
            client : Clients, grant : Grants,
            family : Families \cup {NoFamily}, withRefresh : BOOLEAN]
Answering == [pc : {"respond"}, client : Clients, grant : Grants,
              token : RefreshTokens \cup {NoRow}]
Revoking == [pc : {"revoke", "audit_revoke"}, family : Families]

TypeOK ==
  /\ now \in Nat
  /\ codes \in [Codes -> CodeRow \cup {NoRow}]
  /\ refresh \in [RefreshTokens -> RefreshRow \cup {NoRow}]
  /\ access \subseteq AccessRow
  /\ audits \subseteq AuditEvent
  /\ reqs \in [Requests -> {Idle} \cup CodeRequest \cup RefreshRequest
                           \cup Minting \cup Answering \cup Revoking]
  /\ held \subseteq RefreshTokens
  /\ minted \in [Sources -> Nat]
  /\ faults \in 0..MaxFaults

Init ==
  /\ now = 0
  /\ codes = [k \in Codes |-> NoRow]
  /\ refresh = [t \in RefreshTokens |-> NoRow]
  /\ access = {}
  /\ audits = {}
  /\ reqs = [r \in Requests |-> Idle]
  /\ held = {}
  /\ minted = [s \in Sources |-> 0]
  /\ faults = 0

-----------------------------------------------------------------------------
Live(t) == refresh[t] # NoRow /\ ~refresh[t].revoked

Redeemable(k) == codes[k] # NoRow /\ ~codes[k].used

Spent(k) == codes[k] # NoRow /\ codes[k].used

Unexpired(row) == row.exp > now

Goto(r, local) == reqs' = [reqs EXCEPT ![r] = local]

Fault == faults < MaxFaults /\ faults' = faults + 1

(***************************************************************************)
(* Bound: a request that may mint a refresh token is let in only while     *)
(* unused token values remain for it and for the requests in flight.       *)
(***************************************************************************)
SpareToken ==
  Cardinality({t \in RefreshTokens : refresh[t] = NoRow})
    > Cardinality({r \in Requests : reqs[r] # Idle})

-----------------------------------------------------------------------------
(***************************************************************************)
(* The store's writes.                                                     *)
(***************************************************************************)
MarkUsed(k) == [codes EXCEPT ![k].used = TRUE]

(* Defect: the rotated token is left as it was. *)
MarkRevokedForgotten(t) == refresh

MarkRevoked(t) == [refresh EXCEPT ![t].revoked = TRUE]

(* Defect: the revocation matches no row. *)
FamilyRevokedForgotten(f) == refresh

FamilyRevoked(f) ==
  [t \in RefreshTokens |->
     IF refresh[t] # NoRow /\ refresh[t].family = f
       THEN [refresh[t] EXCEPT !.revoked = TRUE]
       ELSE refresh[t]]

PutAccess(m) ==
  /\ access' = access \cup {[src |-> m.src, client |-> m.client, grant |-> m.grant]}
  /\ minted' = [minted EXCEPT ![m.src] = @ + 1]

(* The row keeps the family of the rotation, or opens a new one. *)
FamilyFor(m, f) ==
  IF m.family = NoFamily
    THEN \A u \in RefreshTokens : refresh[u] # NoRow => refresh[u].family # f
    ELSE f = m.family

PutRefresh(m, t, f) ==
  /\ refresh[t] = NoRow
  /\ FamilyFor(m, f)
  /\ refresh' = [refresh EXCEPT ![t] =
       [family |-> f, client |-> m.client, grant |-> m.grant,
        exp |-> now + RefreshTTL, revoked |-> FALSE]]

-----------------------------------------------------------------------------
(***************************************************************************)
(* The rest of the system: the clock, and /authorize storing a code.       *)
(***************************************************************************)
Tick ==
  /\ now < MaxTime
  /\ now' = now + 1
  /\ UNCHANGED <<codes, refresh, access, audits, reqs, held, minted, faults>>

IssueCode(k, c, g, u, v) ==
  /\ codes[k] = NoRow
  /\ codes' = [codes EXCEPT ![k] =
       [client |-> c, grant |-> g, redirect |-> u, challenge |-> v,
        exp |-> now + CodeTTL, used |-> FALSE]]
  /\ UNCHANGED <<now, refresh, access, audits, reqs, held, minted, faults>>

(***************************************************************************)
(* An authenticated client asks for tokens: with any code value, known to  *)
(* the store or not, or with a refresh token some relying party received.  *)
(***************************************************************************)
AskWithCode(r, c, k, u, v) ==
  /\ reqs[r] = Idle
  /\ SpareToken \/ Spent(k)
  /\ Goto(r, [pc |-> "take_code", client |-> c, code |-> k,
              redirect |-> u, verifier |-> v])
  /\ UNCHANGED <<now, codes, refresh, access, audits, held, minted, faults>>

AskWithRefresh(r, c, t) ==
  /\ reqs[r] = Idle
  /\ t \in held
  /\ SpareToken \/ ~Live(t)
  /\ Goto(r, [pc |-> "take_refresh", client |-> c, token |-> t])
  /\ UNCHANGED <<now, codes, refresh, access, audits, held, minted, faults>>

-----------------------------------------------------------------------------
(***************************************************************************)
(* grant_type=authorization_code.  The code is spent by the take, whatever *)
(* the checks that follow decide.                                          *)
(***************************************************************************)
CodeChecks(q, row) ==
  /\ Unexpired(row)
  /\ row.client = q.client
  /\ row.redirect = q.redirect
  /\ row.challenge = q.verifier

TakeCode(r) ==
  LET q == reqs[r] IN
  /\ q.pc = "take_code"
  /\ Redeemable(q.code)
  /\ codes' = MarkUsed(q.code)
  /\ LET row == codes[q.code] IN
     Goto(r, IF CodeChecks(q, row)
               THEN [pc |-> "put_access", src |-> q.code, client |-> q.client,
                     grant |-> row.grant, family |-> NoFamily,
                     withRefresh |-> row.grant \in Offline]
               ELSE Idle)
  /\ UNCHANGED <<now, refresh, access, audits, held, minted, faults>>

RefuseCode(r) ==
  LET q == reqs[r] IN
  /\ q.pc = "take_code"
  /\ ~Redeemable(q.code)
  /\ Goto(r, Idle)
  /\ UNCHANGED <<now, codes, refresh, access, audits, held, minted, faults>>

(***************************************************************************)
(* grant_type=refresh_token.  The presented token is revoked by the take;  *)
(* a token that is revoked already, has expired or belongs to another      *)
(* client costs its whole family.                                          *)
(***************************************************************************)
(* Defect: the client is not compared. *)
RefreshChecksAnyClient(q, row) == Unexpired(row)

RefreshChecks(q, row) == Unexpired(row) /\ row.client = q.client

TakeRefresh(r) ==
  LET q == reqs[r] IN
  /\ q.pc = "take_refresh"
  /\ Live(q.token)
  /\ refresh' = MarkRevoked(q.token)
  /\ LET row == refresh[q.token] IN
     Goto(r, IF RefreshChecks(q, row)
               THEN [pc |-> "put_access", src |-> q.token, client |-> q.client,
                     grant |-> row.grant, family |-> row.family,
                     withRefresh |-> TRUE]
               ELSE [pc |-> "revoke", family |-> row.family])
  /\ UNCHANGED <<now, codes, access, audits, held, minted, faults>>

(* Defect: the revoked row is rotated all the same. *)
DetectReuseRotates(r) ==
  LET q == reqs[r]
      row == refresh[q.token] IN
  /\ q.pc = "take_refresh"
  /\ row # NoRow /\ row.revoked
  /\ Goto(r, [pc |-> "put_access", src |-> q.token, client |-> row.client,
              grant |-> row.grant, family |-> row.family, withRefresh |-> TRUE])
  /\ UNCHANGED <<now, codes, refresh, access, audits, held, minted, faults>>

(* TakeRefresh returned an error; GetRefresh finds the row all the same. *)
DetectReuse(r) ==
  LET q == reqs[r] IN
  /\ q.pc = "take_refresh"
  /\ refresh[q.token] # NoRow
  /\ ~Live(q.token)
  /\ Goto(r, [pc |-> "revoke", family |-> refresh[q.token].family])
  /\ UNCHANGED <<now, codes, refresh, access, audits, held, minted, faults>>

(* Defect: the revocation leaves no audit event. *)
RevokeFamilyUnaudited(r) ==
  LET q == reqs[r] IN
  /\ q.pc = "revoke"
  /\ refresh' = FamilyRevoked(q.family)
  /\ Goto(r, Idle)
  /\ UNCHANGED <<now, codes, access, audits, held, minted, faults>>

RevokeFamily(r) ==
  LET q == reqs[r] IN
  /\ q.pc = "revoke"
  /\ refresh' = FamilyRevoked(q.family)
  /\ Goto(r, [q EXCEPT !.pc = "audit_revoke"])
  /\ UNCHANGED <<now, codes, access, audits, held, minted, faults>>

AuditRevoke(r) ==
  LET q == reqs[r] IN
  /\ q.pc = "audit_revoke"
  /\ audits' = audits \cup {[type |-> "revoke", family |-> q.family]}
  /\ Goto(r, Idle)
  /\ UNCHANGED <<now, codes, refresh, access, held, minted, faults>>

-----------------------------------------------------------------------------
(***************************************************************************)
(* writeTokenResponse: store the access token, then the refresh token if   *)
(* one is due, then audit and answer.                                      *)
(***************************************************************************)
Answer(m, t) == [pc |-> "respond", client |-> m.client, grant |-> m.grant,
                 token |-> t]

WriteAccess(r) ==
  LET m == reqs[r] IN
  /\ m.pc = "put_access"
  /\ PutAccess(m)
  /\ Goto(r, IF m.withRefresh THEN [m EXCEPT !.pc = "put_refresh"]
                              ELSE Answer(m, NoRow))
  /\ UNCHANGED <<now, codes, refresh, audits, held, faults>>

WriteRefresh(r, t, f) ==
  LET m == reqs[r] IN
  /\ m.pc = "put_refresh"
  /\ PutRefresh(m, t, f)
  /\ Goto(r, Answer(m, t))
  /\ UNCHANGED <<now, codes, access, audits, held, minted, faults>>

Respond(r) ==
  LET a == reqs[r] IN
  /\ a.pc = "respond"
  /\ audits' = audits \cup {[type |-> "token_issue", client |-> a.client,
                             grant |-> a.grant]}
  /\ held' = held \cup ({a.token} \ {NoRow})
  /\ Goto(r, Idle)
  /\ UNCHANGED <<now, codes, refresh, access, minted, faults>>

-----------------------------------------------------------------------------
(***************************************************************************)
(* Failures.  A store call that returns an error may have taken effect:    *)
(* the request context is cancelled, or the connection lost, after the     *)
(* statement committed.                                                    *)
(***************************************************************************)
TakeCodeError(r) ==
  LET q == reqs[r] IN
  /\ q.pc = "take_code"
  /\ Fault
  /\ \/ UNCHANGED codes
     \/ Redeemable(q.code) /\ codes' = MarkUsed(q.code)
  /\ Goto(r, Idle)
  /\ UNCHANGED <<now, refresh, access, audits, held, minted>>

(* Every error of TakeRefresh is followed by GetRefresh, which may succeed. *)
TakeRefreshError(r) ==
  LET q == reqs[r] IN
  /\ q.pc = "take_refresh"
  /\ Fault
  /\ \/ UNCHANGED refresh
     \/ Live(q.token) /\ refresh' = MarkRevoked(q.token)
  /\ \/ Goto(r, Idle)
     \/ /\ refresh[q.token] # NoRow
        /\ Goto(r, [pc |-> "revoke", family |-> refresh[q.token].family])
  /\ UNCHANGED <<now, codes, access, audits, held, minted>>

(* The error of RevokeFamily is dropped and the handler goes on. *)
RevokeFamilyError(r) ==
  LET q == reqs[r] IN
  /\ q.pc = "revoke"
  /\ Fault
  /\ Goto(r, [q EXCEPT !.pc = "audit_revoke"])
  /\ UNCHANGED <<now, codes, refresh, access, audits, held, minted>>

(* Defect: a failed write is tried again. *)
WriteAccessErrorRetried(r) ==
  LET m == reqs[r] IN
  /\ m.pc = "put_access"
  /\ Fault
  /\ UNCHANGED <<access, minted>> \/ PutAccess(m)
  /\ UNCHANGED <<now, codes, refresh, audits, held, reqs>>

(* GetByID, PutAccess, or after it the signature of the ID token, failed. *)
WriteAccessError(r) ==
  LET m == reqs[r] IN
  /\ m.pc = "put_access"
  /\ Fault
  /\ UNCHANGED <<access, minted>> \/ PutAccess(m)
  /\ Goto(r, Idle)
  /\ UNCHANGED <<now, codes, refresh, audits, held>>

(* Defect: a failed write is tried again. *)
WriteRefreshErrorRetried(r, t, f) ==
  LET m == reqs[r] IN
  /\ m.pc = "put_refresh"
  /\ Fault
  /\ UNCHANGED refresh \/ PutRefresh(m, t, f)
  /\ UNCHANGED <<now, codes, access, audits, held, minted, reqs>>

WriteRefreshError(r, t, f) ==
  LET m == reqs[r] IN
  /\ m.pc = "put_refresh"
  /\ Fault
  /\ UNCHANGED refresh \/ PutRefresh(m, t, f)
  /\ Goto(r, Idle)
  /\ UNCHANGED <<now, codes, access, audits, held, minted>>

(* An audit event that is not stored, or an answer nobody reads. *)
LoseAnswer(r) ==
  LET a == reqs[r] IN
  /\ a.pc \in {"respond", "audit_revoke"}
  /\ Fault
  /\ Goto(r, Idle)
  /\ UNCHANGED <<now, codes, refresh, access, audits, held, minted>>

(* The process restarts over the durable store: requests in flight are gone. *)
Restart ==
  /\ Fault
  /\ reqs' = [r \in Requests |-> Idle]
  /\ UNCHANGED <<now, codes, refresh, access, audits, held, minted>>

-----------------------------------------------------------------------------
(* The steps the handler takes by itself once it has a request. *)
Handle(r) ==
  \/ TakeCode(r) \/ RefuseCode(r)
  \/ TakeRefresh(r) \/ DetectReuse(r) \/ RevokeFamily(r) \/ AuditRevoke(r)
  \/ WriteAccess(r)
  \/ \E t \in RefreshTokens, f \in Families : WriteRefresh(r, t, f)
  \/ Respond(r)

Fail(r) ==
  \/ TakeCodeError(r) \/ TakeRefreshError(r) \/ RevokeFamilyError(r)
  \/ WriteAccessError(r)
  \/ \E t \in RefreshTokens, f \in Families : WriteRefreshError(r, t, f)
  \/ LoseAnswer(r)

Ask(r) ==
  \E c \in Clients :
    \/ \E k \in Codes, u \in Redirects, v \in Verifiers : AskWithCode(r, c, k, u, v)
    \/ \E t \in RefreshTokens : AskWithRefresh(r, c, t)

Next ==
  \/ Tick
  \/ \E k \in Codes, c \in Clients, g \in Grants, u \in Redirects, v \in Verifiers :
       IssueCode(k, c, g, u, v)
  \/ \E r \in Requests : Ask(r) \/ Handle(r) \/ Fail(r)
  \/ Restart

Spec == Init /\ [][Next]_vars

(* net/http runs every handler to its end; nobody has to send a request. *)
FairSpec == Spec /\ \A r \in Requests : WF_vars(Handle(r))

-----------------------------------------------------------------------------
FamilyOf(t) == refresh[t].family

(* Request r has taken a token of family f and has not stored its child. *)
Rotating(r, f) ==
  reqs[r].pc \in {"put_access", "put_refresh"} /\ reqs[r].family = f

Born(f) == \E t \in RefreshTokens : refresh[t] # NoRow /\ FamilyOf(t) = f

Dead(f) ==
  /\ Born(f)
  /\ \A t \in RefreshTokens : Live(t) => FamilyOf(t) # f
  /\ \A r \in Requests : ~Rotating(r, f)

FamilyStage(f) ==
  IF \E r \in Requests : Rotating(r, f) THEN "rotating"
  ELSE IF \E t \in RefreshTokens : Live(t) /\ FamilyOf(t) = f THEN "live"
  ELSE IF Born(f) THEN "dead"
  ELSE "unborn"

OwnerOf(t) == [client |-> refresh[t].client, grant |-> refresh[t].grant]

FamilyOwner(f) ==
  {OwnerOf(t) : t \in {u \in RefreshTokens : refresh[u] # NoRow /\ FamilyOf(u) = f}}

Family == INSTANCE RefreshFamily WITH
  Owners <- [client : Clients, grant : Offline],
  stage <- [f \in Families |-> FamilyStage(f)],
  owner <- [f \in Families |-> FamilyOwner(f)]

(***************************************************************************)
(* Every behaviour of the endpoint is one of the abstract families': a     *)
(* family opens once, for a grant with offline access; its rotations hand  *)
(* one token on to one child of the same client and grant; and a family    *)
(* that was revoked or lost while no rotation was under way never returns. *)
(***************************************************************************)
FamilyProtocol == Family!Spec

(***************************************************************************)
(* "TakeRefresh marks one still-active token revoked so concurrent         *)
(* rotation cannot mint two children" and "AuthCode is a one-time          *)
(* authorization code": whatever the interleaving, the failures and the    *)
(* replays, a code or a refresh token yields at most one access token.     *)
(***************************************************************************)
SourceMintsOnce == \A s \in Sources : minted[s] <= 1

(***************************************************************************)
(* A family is a chain: it has at most one usable token, and none while    *)
(* one of its tokens is being rotated.                                     *)
(***************************************************************************)
OneLiveTokenPerFamily ==
  \A t, u \in RefreshTokens :
    Live(t) /\ Live(u) /\ FamilyOf(t) = FamilyOf(u) => t = u

(***************************************************************************)
(* Every access token is bound to the client and to exactly the grant      *)
(* (user, session, scopes) of the code or refresh token it came from, and  *)
(* all tokens of a family to the same ones.                                *)
(***************************************************************************)
ChainKeepsGrant ==
  /\ \A a \in access :
       LET row == IF a.src \in Codes THEN codes[a.src] ELSE refresh[a.src]
       IN  row # NoRow /\ a.client = row.client /\ a.grant = row.grant
  /\ \A t, u \in RefreshTokens :
       refresh[t] # NoRow /\ refresh[u] # NoRow /\ FamilyOf(t) = FamilyOf(u) =>
         /\ refresh[t].client = refresh[u].client
         /\ refresh[t].grant = refresh[u].grant
         /\ refresh[t].grant \in Offline

(***************************************************************************)
(* The inductive invariant behind the safety properties above: a request   *)
(* that mints holds the baton of its family alone, and carries the client  *)
(* and the grant of a source it alone has spent.                           *)
(***************************************************************************)
MintingNow(r) == reqs[r].pc \in {"put_access", "put_refresh"}

SourceRow(s) == IF s \in Codes THEN codes[s] ELSE refresh[s]

SourceSpent(s) ==
  IF s \in Codes THEN Spent(s) ELSE refresh[s] # NoRow /\ refresh[s].revoked

BatonInHand ==
  \A r \in Requests, t \in RefreshTokens : Live(t) => ~Rotating(r, FamilyOf(t))

OneRotation ==
  \A r, s \in Requests, f \in Families : Rotating(r, f) /\ Rotating(s, f) => r = s

CarriesSource(m) ==
  /\ SourceSpent(m.src)
  /\ m.client = SourceRow(m.src).client
  /\ m.grant = SourceRow(m.src).grant
  /\ IF m.src \in Codes
       THEN m.family = NoFamily /\ (m.withRefresh => m.grant \in Offline)
       ELSE m.family = FamilyOf(m.src)
  /\ m.pc = "put_refresh" => m.withRefresh

MinterCarriesSource == \A r \in Requests : MintingNow(r) => CarriesSource(reqs[r])

OneMinter ==
  \A r, s \in Requests :
    MintingNow(r) /\ MintingNow(s) /\ reqs[r].src = reqs[s].src => r = s

MintedAreSpent ==
  /\ \A s \in Sources : minted[s] > 0 => SourceSpent(s)
  /\ \A r \in Requests : reqs[r].pc = "put_access" => minted[reqs[r].src] = 0

EndpointInv ==
  /\ TypeOK
  /\ OneLiveTokenPerFamily /\ BatonInHand /\ OneRotation
  /\ MinterCarriesSource /\ OneMinter
  /\ MintedAreSpent /\ SourceMintsOnce
  /\ ChainKeepsGrant

(***************************************************************************)
(* While nothing fails, a family is never lost without the operator's      *)
(* trail saying so: a dead one has its AuditRevoke event, or a request is  *)
(* about to write it.                                                      *)
(***************************************************************************)
DeadFamilyIsAudited ==
  faults = 0 =>
    \A f \in Families :
      Dead(f) => \/ [type |-> "revoke", family |-> f] \in audits
                 \/ \E r \in Requests :
                      reqs[r].pc \in {"revoke", "audit_revoke"} /\ reqs[r].family = f

(***************************************************************************)
(* When no call fails, a refused refresh token takes down every token the  *)
(* family had at that moment.                                              *)
(***************************************************************************)
ReuseRevokesFamily ==
  \A r \in Requests, t \in RefreshTokens :
    (reqs[r].pc = "revoke" /\ refresh[t] # NoRow /\ FamilyOf(t) = reqs[r].family)
      ~> ~Live(t) \/ faults > 0

(***************************************************************************)
(* What a revocation does achieve: once it is done the family is dead, and *)
(* a dead family stays dead, unless the call failed or a request was       *)
(* rotating one of its tokens at that moment (RevokeFamily, TakeRefresh).  *)
(***************************************************************************)
RevocationIsForGood ==
  [][\A f \in Families :
       /\ Dead(f) => Dead(f)'
       /\ \A r \in Requests :
            reqs[r].pc = "revoke" /\ reqs[r].family = f /\ reqs'[r].pc # "revoke" =>
              Dead(f)' \/ (\E s \in Requests : Rotating(s, f)) \/ faults' > faults]_vars

(* A family is revoked for a token that is not good, or at a store error.   *)
RevokedForCauseOrError ==
  [][\A r \in Requests :
       reqs[r].pc = "take_refresh" /\ reqs'[r].pc = "revoke" =>
         LET row == refresh[reqs[r].token]
         IN  row.revoked \/ ~RefreshChecks(reqs[r], row) \/ faults' > faults]_vars

(***************************************************************************)
(* What the code's comments say of a family, and the code does not do.     *)
(* "FamilyID groups a chain so reuse can revoke all": once the revocation  *)
(* is done and audited, no token of the family is usable.                  *)
(***************************************************************************)
RevokedFamilyHasNoLiveToken ==
  \A f \in Families :
    [type |-> "revoke", family |-> f] \in audits =>
      \A t \in RefreshTokens : Live(t) => FamilyOf(t) # f

(* A family is revoked because of the token presented, never by accident. *)
RevokedForCause ==
  [][\A r \in Requests :
       reqs[r].pc = "take_refresh" /\ reqs'[r].pc = "revoke" =>
         LET row == refresh[reqs[r].token]
         IN  row.revoked \/ ~RefreshChecks(reqs[r], row)]_vars
=============================================================================
