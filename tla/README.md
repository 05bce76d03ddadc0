# Verification of the identity provider

TLA+ models of `apps/server` (an OAuth 2.0 / OpenID Connect provider in Go) and
of the part of `apps/sample-rp` that takes part in single logout, the TLC
configurations that check them on small instances, and TLAPS proofs.

## The system

One Go process serves HTTP; every request runs in a goroutine of its own.
Handlers keep no locks across store calls: each store call is atomic (one mutex
in `store/memory`, one SQL statement in `store/postgres`), and anything between
two calls can interleave with other requests. `r.Context()` is passed to every
store call, so a caller that disconnects can make any of them fail.

| Part | State | Operations | Hard behaviour |
| --- | --- | --- | --- |
| Token endpoint (`web/token.go`) | codes, refresh tokens in families, access tokens | redeem a code, rotate a refresh token, revoke a family on reuse | concurrent redemption and rotation, failure between the take and the writes |
| Authorize and consent (`web/authorize.go`) | pending requests (in memory), consents, codes | authorize, consent, issue a code | a page answered twice, late, by another user or after a restart; clients edited and users disabled in between |
| Sessions (`session`, `web/account.go`) | sessions, the clients that joined each `sid` | start, look up (deletes expired), end | expiry between two lookups |
| Single logout (`web/end_session.go`, `sample-rp`) | the above, and each RP's revoked `sid`s and seen `jti`s | notify the back channel, render the front channel, end the session | logins racing the logout, lost notices, RP restarts |
| Organizations (`org`, `web/orgs.go`, `web/admin_orgs.go`) | organizations, memberships, each session's active one | create, add, change, remove a member, choose the active one | check-then-act on the last owner, creation in two writes |
| Login throttle (`ratelimit`, `handleLogin`) | failures per address and e-mail within a window, in memory | check, fail, succeed | the check and the failure are two steps |
| Client registry (`web/admin.go`) | clients | create, patch, rotate the secret | rotations that race or whose answer is lost, patches and seeds in between |
| Audit log (`web/audit.go`, `ListAudits`) | append-only events | append, page through | appends during paging, equal timestamps |
| Migrations and boot (`store/postgres/migrate.go`, `seed`, `main.go`) | `schema_migrations`, the seeded rows | run scripts, seed clients, a user and an organization, serve | replicas that start together, a stop between a script and its record, a seed racing an admin |
| Config, password, CSRF, OIDC signer, OAuth helpers | constants | pure functions | |
| Admin UI, e2e, deploy | none of their own | calls the admin API | |

## Modules

### `RefreshFamily`, `TokenEndpoint` — POST /token

`TokenEndpoint` follows a request through `tokenAuthCode`, `tokenRefresh` and
`writeTokenResponse`. `reqs[r]` is the handler goroutine: the store call it is
about to make (`pc`) and the local variables it still needs. One action is one
store call with the local work after it: `TakeCode` / `RefuseCode`,
`TakeRefresh` / `DetectReuse` (the failed take and the `GetRefresh` after it,
which are one step because rows are never deleted and never change family),
`RevokeFamily`, `AuditRevoke`, `WriteAccess`, `WriteRefresh`, `Respond`. The
`...Error` actions are the same calls failing, with or without their effect;
`LoseAnswer` is an answer nobody reads; `Restart` drops every request in flight
and keeps the (Postgres) store. A grant stands for the user, session and scopes
of a code; a PKCE challenge is named by the verifier that matches it. Client
authentication precedes everything and only reads, so a request starts
authenticated.

`RefreshFamily` is the abstract promise: a family is a baton that is minted once
for one owner, is live or being rotated by one request, and once dead stays
dead. `TokenEndpoint` implements it under the mapping `FamilyStage`,
`FamilyOwner` (checked as `FamilyProtocol`).

| Run | Shows |
| --- | --- |
| `TokenRotation.cfg` | 2 requests, 2 clients, 1 code and 3 refresh tokens of its chain, another client that presents them, expiry, 1 failure of any kind: the inductive invariant of the proofs, single use, one live token per family, grants kept, every dead family audited while nothing fails, the family protocol; and a handler that found reuse takes down every token the family had (liveness) |
| `TokenReuseRace.cfg` | violation: a family revoked while one of its tokens is being rotated keeps a live child |
| `TokenBlamelessRevoke.cfg` | violation: a store error in `TakeRefresh` is taken for reuse |

Bounds: two requests make every race of the handlers (each property relates at
most two of them). Three refresh tokens are a parent, a child and a grandchild,
or what would be two children of one parent; that families do not disturb one
another is proved for any number of them. `MaxTime = 1` with lifetimes of 1 puts
every token before or after its expiry. One redirect URI and one verifier are enough
here: a wrong one takes the branch of a wrong client, which the run has. One
failure and a retry is the least that can break single use; the proofs have any
number. A request is let in only while
unused token values remain (`SpareToken`).

Fairness: weak, of the steps of each handler. `net/http` runs every handler to
its end, and nothing else is assumed: no client has to ask or to retry.

### `SingleLogout` — POST /logout, /end-session and the sample RP

One user at one browser. `sessions`, `members` (table `session_clients`) and
`cookie` are the provider's; `rp` and `revoked` are the cookies and the memory
of each RP (`lib/cookies.ts`, `lib/sids.ts`); `tabs[w]` is a login going through
/authorize, perhaps /consent, and the RP's /callback; `logouts[l]` is a request
to /end-session or /logout with the page it renders.

- A login is `Authorize`, `CurrentUser`, (`Consent`, `CurrentUser`),
  `CurrentSID`, `IssueCode`, `RememberSid`. The session is looked up twice, the
  client joins it only after the code is stored, and every lookup deletes what
  has expired. `PutCode` and `AddSessionClient` are one step: nobody knows the
  code before the answer.
- A logout is `AskLogout` or `AskProvider`, (`Confirm`), `CurrentSIDToEnd`,
  `CurrentUserToEnd`, `ListForBackChannel`, one `Notify` per client,
  `ListForFrontChannel`, `EndBrowserSession`, one `LoadFrame` per client,
  `LoggedOut`. The provider notifies in the order of client ids; the model in
  any order.
- Failures: a lookup that errs (`CurrentSIDError`, `CurrentSIDToEndError`,
  `LookupSessionError`), a list that errs, lost notices and frames, dropped
  errors of `AddSessionClient` and `End`, a browser that goes away, an RP that
  restarts.

`logouts[l].early` is history, in no guard: the RPs that were logged in when
logout `l` read its sid and have not begun a login since. It states what the
code can promise; the stronger promise of the repository's README fails
(`LogoutRace.cfg`). After an `End` that failed half way the list may have lost
clients, so a logout that reads its sid then counts only those still on the list:
nobody could notify the others.

Left out: the check for replayed `jti`s (the provider makes a new one for each
notice), the validity of the access token an RP holds (the page asks /userinfo),
and the de-duplication of equal iframe URLs (each RP has its own). `DeleteSession`
is one step as in the memory store; in Postgres its statements can also be seen
half done, which the runs cover only when a statement fails.

| Run | Shows |
| --- | --- |
| `LogoutOverlap.cfg` | 1 session, 1 RP with both channels, 1 tab, 2 logouts, 1 failure of any kind: the inductive invariant of the proof, and with it an early RP is logged out in the end, by the channel that lost nothing, whatever overlaps |
| `LogoutFaults.cfg` | 1 RP with both channels, 2 sessions, 1 logout, 1 failure of any kind: the inductive invariant of the proofs; whoever is logged in under a live session is on the list its logout notifies; no RP is logged out but for a logout it asked for or one of the session it shows; and a logout that is served removes the session of its cookie (liveness), unless the browser goes away or the statements of `End` fail |
| `LogoutRace.cfg` | violation: a login in flight survives the logout |

Deadlock is not checked in these runs: each logout is made once and no session
is started twice, so the system really stops. Two logouts are every overlap the
properties speak of. Each property of a passing run speaks of one RP, which no
action of another RP touches but through the lists; two RPs, and lists of two,
are in `LogoutRace.cfg`, and any number of them in the proofs. One tab that can be used again is a login before, during
or after each of them. Fairness is weak fairness of `FinishLogout`: handlers run
to their end and the page's timer fires. Users and logins get none.

### `OrgTenancy` — organizations

`orgs`, `members` and `active` are the tables (`active` is a column of
`sessions`); `reqs[q]` is a handler with its local variables.

- Creation is two writes (`Create`, `AddOwner`); `AddMember` is one, and a
  conflict if the row is there.
- `ChangeMember` reads the role, `CountOwners` counts when an owner would be
  one no longer, `WriteChange` updates or deletes. A role `"none"` stands for
  DELETE.
- `Switch` checks the membership, `ReadSession` is the extra lookup of the
  bearer path, `SetSessionActiveOrg` writes.
- /userinfo is `ListOrganizations`, one `ReadRole` per organization, `Answer`.
  A membership that cannot be read is skipped (`ReadRoleError`), a session that
  cannot be read means the oldest organization (`GetSessionError`).

`lost` and `raced` are history, in no guard: the roles the user lost since a
/userinfo request came in, and whether another request changed a membership of
the organization since a change of a member read the role.

| Run | Shows |
| --- | --- |
| `OrgClaims.cfg` | 2 organizations, 2 users (only the owner of the session joins both), 2 requests, 1 failure: no claim is staler than its request, whatever is active; and the last owner goes only to a request that raced another change |
| `OrgLastOwner.cfg` | violation: two requests remove the last two owners |

Two requests are a reader and a writer, or the two writers of the race; two
users are two owners, or an owner and a member. That every organization has an
owner is not a property of this code: creation that stops half way leaves one
without, and so does the race.

### `LoginThrottle` — POST /login

`hits` is the limiter's map, from address and e-mail to the failures kept, each
named by the request that failed; `reqs[q]` is a request and, once it has
failed, the age of its failure; `enabled` is the column `disabled` of the users.
`Login` asks the limiter (which forgets old failures), `Authenticate` verifies,
`Failure` or `Success` reports, `StartSession` sets the cookie. The password is
right or wrong at will, so wrong includes an account that does not exist and one
that cannot be read. `SetUserDisabled` is the admin, `Tick` the clock, `Restart`
a process that has forgotten its failures; `Again` lets a request whose failure
is forgotten come again, so that guessing goes on for ever. `served` is history:
the account was enabled at some moment of the login.

| Run | Shows |
| --- | --- |
| `LoginThrottle.cfg` | 3 requests, 2 of them at a time, 2 addresses, 1 account: requests in flight overshoot the limit by no more than their number less one, a refusal is for failures of its own key within the window, a disabled account gets no session, no key stays limited for ever |

`Max = 1` with two requests at a time bounds the guesses on a key by 2 while
there are 3 to make: the race of two requests that both pass the check happens,
and a third is refused. So "max is the number of failures allowed inside window"
(`limiter.go:22`) holds up to the requests in flight. `Window = 2` has ages
inside, at and past the edge. Fairness: handlers run to their end, and the clock
ticks.

### `ConsentPage`, `Authorize` — GET /authorize and POST /consent

`reqs[r]` is a handler, used over and over; `pages[p]` a pending request in the
memory of the process (`Server.pending`), named by its random id, and what became
of it; `consents`, `codes`, `redirects`, `enabled` are the tables.

- /authorize: `HandleAuthorize` (the client, the exact redirect URI, the scopes:
  requests refused here change nothing), `CurrentUser` or `SendToLogin`,
  `Consented` or `AskConsent`, `IssueCode`.
- /consent: `HandleConsent`, `CurrentUser`, then under the mutex `TakePending`,
  `DenyPending` or `RefusePending`; `PutConsent`, `IssueCode`. The session cookie
  says who submits: a page is bound to no user.
- A consent that cannot be read is asked for again; the errors of `PutConsent`
  and of its audit event are dropped; `PutCode` can fail, or store a code nobody
  is told. `ExpirePending` is ten lifetimes of a code going by, `Restart` loses
  the pages and the handlers. `UpdateClient` and `SetUserDisabled` are admins.

`registered`, `allowed`, `served` and the state of a page that is gone are
history, in no guard: the URIs a client ever had, what each user allowed in one
decision, whether the user was enabled at some moment of the request.

`ConsentPage` is the abstract promise: the permission of a page is a slip of
paper, on the page, in the answer of one user or in one code, and gone once it is
torn. `Authorize` implements it under the mapping `SlipsOf`, which collects the
slips of a page from the map of pending requests, the handlers and the codes
(checked as `ConsentProtocol`): that there is never a second slip is the point.
A slip in a code says what the page showed and who answered it.

| Run | Shows |
| --- | --- |
| `Authorize.cfg` | 2 handlers, 2 users of one browser, 1 client whose URI changes, 3 scopes of which one is unknown, 2 pages, 2 codes (a behaviour ends with the second, and when both users are disabled), 1 failure: a page yields one code at most, for exactly what it showed, a code carries what its user allowed in one decision and goes to a URI its client has had, a disabled user gets nothing |

Two handlers submit one page together, two pages carry decisions that replace
one another, and two users answer one another's pages. A second client would
share nothing with the first, since every row names its client. Deadlock is not
checked: pages and codes run out.

### `ClientRegistry`, `Boot` — clients, migrations and seeds

`ClientRegistry` has table `clients` and the handlers of the admin API: creation
and patches are one statement, a rotation is a read (`RotateSecret`), a write
(`StoreSecret`) and an answer that tells the secret, once (`Answer`).
`StoreSecretError` and `LoseAnswer` are the failures, the second with the secret
stored. A secret stands for its hash and is a number, drawn once; `label` stands
for the name and the logout URIs, which are written with the redirect URIs.

`Boot` extends it with the replicas. `procs[r]` is where a process is: per
script `CheckScript`, `RunScript` (`BEGIN; ...; COMMIT`), `RecordVersion`; per
seeded client `ReadSeed`, then `CreateSeed` or `UpdateSeed`; `SeedUser`;
`SeedOrganization` and `SeedOwner`; then it serves, and admins can use it
(`Administer`). Every error ends the process (`log.Fatal`), which is started
again; two are not errors: a look into `schema_migrations` that fails finds
nothing (`CheckScriptError`), and a user that cannot be looked up is served
without an organization (`SkipOrganization`). `Crash` is a stop anywhere or
another failed call. At the start the database is empty or what an earlier
release left. A seed overwrites an admin's label at each boot and keeps the
redirect URIs it has read.

`told`, `lost`, `replaced`, `beaten`, `raced`, `skipped` and `halted` are history,
in no guard.

| Run | Shows |
| --- | --- |
| `Boot.cfg` | 2 replicas, 3 scripts of which the second may run again, 1 seeded client and 1 whose secret is rotated by 2 admins, 3 secrets, 1 failure: scripts in order, a server that serves is ready, only a stop between a script and its record blocks the start, the last secret stored works and no replaced one does, a seed drops no URI unless it was overtaken; and every replica serves in the end, unless the schema is stuck (liveness) |

Two replicas make every race for a script, a row or the organization; a third
script lets one replica run ahead of the other by more than a step. One label is enough: no guard reads it. Three
secrets are those of a client and of two rotations. `deploy/k8s/deployment-idp.yaml:8`
runs one replica, of which a rolling update starts the next before it ends the
first. Fairness is weak, of the steps of a replica that starts
(`Boots`): a process that has ended is started again by Kubernetes, and one that
starts goes on. Admins get none.

### `AuditPaging` — the audit log

`events` is the log; `store` says which store holds it, and each behaviour has
one: the memory store sorts a slice and cuts the page out of it (`ListSlice`),
the Postgres store asks for the rows before the cursor and one more
(`ListTable`). An admin asks for the newest page (`ListNewest`) and follows the
link to the next (`ListNext`) with the cursor `after`; an error page has no link.
Between pages handlers append (`AppendAudit`); the time of an event is taken from
the clock of its server before it is stored, so events come in any order.
`AppendAuditError` is an insert that errs, with effect or without, and `Restart`
loses the slice of the memory store. `pages`, `before` and `broken` are history:
what the admin has seen, the log when the walk began, whether a page was refused.

| Run | Shows |
| --- | --- |
| `AuditPaging.cfg` | 5 events at 2 times, pages of 1 to 3, 1 failure, both stores: newest first and none twice, a walk to the end has shown all there was at its start, links work, and both stores answer alike |

Five events are a full page, what comes before and after it, and one that is
appended; two times give equal ones and late ones. Deadlock is not checked: ids
run out. That the caller is an admin is checked before and changes nothing.

## Proofs

TLAPS checks, for every value of the constants:

- `TokenEndpoint_proofs`: `TypeCorrect`, and the inductive invariant
  `EndpointInv` with the safety properties it implies: `SingleUse`,
  `NoBranching`, `GrantIsKept`. "One live token per family" is not inductive: a
  step that stores a child needs to know that no other request is about to
  store one (`OneRotation`), that no token of the family is live meanwhile
  (`BatonInHand`), and that the request carries what its spent source was
  issued for (`MinterCarriesSource`, `OneMinter`). The rows of the tables only
  advance (`TokensAdvance`, `CodesAdvance`); with that the steps fall into
  four kinds, one lemma each: no new minter, a new minter, an access token
  stored, a refresh token stored.
- `RefreshFamily_proofs`: `FamilyRefinement`, the token endpoint implements the
  abstract families; each action is one abstract move or a stutter.
  `LossesAreAudited`: while nothing fails, a family is accounted for (`TrailInv`) by
  a live token, a rotation, a request that revokes it or its event; and a rotation
  goes on to store a child (`RotationsGoOn`). `RevocationHolds`
  (`RevocationIsForGood`): a dead family stays dead, which the refinement gives
  (`DeadStaysDead`), and a revocation that nothing stops kills the family unless
  another request was rotating one of its tokens (`RevocationTakesAll`, with
  `RevokesAreBorn`: who revokes has found a token). `OnlyErrorsRevokeBlamelessly`
  (`RevokedForCauseOrError`) looks at the one step that turns to the revocation.
- `SingleLogout_proofs`: `TypeCorrect` and `LogoutInvariant`, the inductive
  invariant `LogoutInv`, from which `NoLoginIsMissed` follows: every RP logged
  in under a live session is notified by its logout. What makes it inductive is
  `Joined` of the login before it: a code on its way already has its client in
  the list, for as long as its session lives; and `KnownSids`, so that a session
  that starts has nobody who holds its sid already. `EarlierLoginsEnd` has an
  invariant of its own, `EarlierLoginsInv`: as long as an early RP shows the user
  logged in, it is on the list of the session, and every logout that has made
  its list from it has still to notify it (`BackChannelTells`), or to put its
  iframe on a page (`FrontChannelTells`), where it stays until loaded. Each of
  the two holds unless that channel lost something, and one failure spares one
  of them (`FaultsCounted`). Steps of another logout of the same session are the
  hard ones: `OwnSessionEnds` shows that, while no lookup fails, the session goes
  only by a logout that has read its sid, and of such a one the invariant says
  that it has told the RP or has its iframe on the page (`BackChannelStays`,
  `FrontChannelStays`). The others follow from what they cannot do (`LogoutStepsApart`, `GoneStaysGone`,
  `QuietWithoutLogins`). `NoOtherSession` shows from both invariants that an RP is
  logged out only for its own request or for its own session: a notice and an
  iframe carry the sid that the logout read (`ToldOfOneSid`), and the page an RP
  returns from was asked for there (`ReturnClears`). `LoggedOutForGood`
  (`LogoutIsForGood`): a session that is gone does not come back
  (`GoneStaysGone`), no login takes up its sid any more (`NoNewCarrier`), and an RP
  is logged in under it again only by one that already carries it, or when it
  restarts and forgets the notice (`BackUnderAGoneSession`).
- `OrgTenancy_proofs`: `TypeCorrect`, `ClaimsCorrect`. `ClaimsAreCurrent` speaks
  of the claims a request has put together so far and is inductive beside the
  types: a row that changes is remembered by whoever may have read it
  (`RememberCurrent`), and no other step takes a role away. `OwnersAreKept`: a
  request about to take an owner away has counted two, so it knows another one
  (`KnowsAnotherOwner`) until some change marks it `raced`.
- `LoginThrottle_proofs`: `ThrottleInvariant` and `DisabledStaysOut`. The count
  of the limiter alone is not inductive, for a request past the check will add
  to it: `OvershootIsBounded` counts the requests in flight as well (`Guesses`).
  A step that adds none cannot exceed it (`FewerGuesses`), and one that adds a
  guess found fewer than `Max` failures and fewer than `MaxInFlight` requests
  (`OneMoreGuess`). `HitsAreFailures` keeps a failure with its key. For
  disabled accounts, `ServedWhileEnabled` carries what `Authenticate` sees to
  the session. `RefusedForOwn`: only `Login` refuses, on failures it has just found
  within the window, and `HitsAreFailures` says whose they are.
- `Authorize_proofs`: `Invariance` of `AuthorizeInv` and the four properties of
  the run. A code is only as good as what the handler carried, which is what the
  page carried: `UsesRegisteredURIs` and `GrantsAreAllowed` say of handlers, pages
  and consents what the properties say of codes; `AnswersAreTaken` adds that two
  handlers never answer the same page. With it a page has one slip at most
  (`OneSlip`), before a step and after it, and `ConsentRefinement` follows action by
  action: `TakeMoves` is Allow, `AskMoves` Show, `IssueMoves` Grant or a stutter,
  and what fails, expires or restarts tears. `AnswersAreFinal` (`AnswerIsFinal`): a
  page that is settled stays so (`SettledStays`), no row of a code is written
  twice (`RowStays`), and a page has one permission (`OnePermission`).
- `Boot_proofs`: `Invariance` of `BootInv`, for any number of replicas, scripts,
  clients, admins and failures, and the properties of the run but liveness.
  `MigratesInOrder` and `SeedsInOrder` read from the place of a replica what must
  be there; `HalvesAccounted` gives each script without a record a replica about
  to record it or one that stopped; `SecretsApart` keeps a secret still to be stored
  out of every row. `SeedsDropNoURI` follows from `ReadsAreCurrent`.
- `AuditPaging_proofs`: `StoresAgree` by counting: the first `n` events after the
  cursor are those ranked from the cursor's place on. `Invariance` of `PagingInv`:
  the cursor is the oldest event shown and what has not been shown is older
  (`CursorIsOldest`), which later events, of any time, do not change.

Assumptions: codes and refresh tokens are different values, and the markers for
"no row" and "no family" are not values of the tables, here and in `Authorize`. Both hold in the code
(the tables are separate, and an absent row is not a row). In the other modules
the marker for "no sid", "no organization" is likewise no value, RPs with a
channel are RPs, each session has a user, and there are finitely many users and
login requests (as many as one likes).

In `AuditPaging` times and ids are natural numbers, which gives the order of
events; in `ClientRegistry` the URIs that parse, those that do not and white
space are different values.

Only model-checked: liveness (`ReuseRevokesFamily`, `LogoutEndsSession`,
`NobodyIsLockedOut`, `ReplicasServe`), which the prover does not reach. Every
invariant and action property of the passing runs is proved. Four action
properties are proved and in no configuration: `RevocationIsForGood`,
`RevokedForCauseOrError`, `LogoutIsForGood` and `AnswerIsFinal`.

## What the code does not do

The violation runs are disagreements between the code and what the repository
says of it; PROJECT.json quotes both sides. A revoked family can keep one live
token; a store error is taken for reuse; a login in flight survives a single
logout; two requests take the last two owners away.

What does hold in each place is a theorem. A revoked family is dead unless a
request was rotating one of its tokens (`RevocationHolds`); a token that is good
is taken for reused only when a store call fails (`OnlyErrorsRevokeBlamelessly`);
only a login that carried the sid already, or an RP that restarts and forgets the
notice, brings a user back after a logout (`LoggedOutForGood`);
the last owner goes only in a race (`OwnersAreKept`).

## Plan

What is left, in this order.

1. `DeleteSession` of the Postgres store statement by statement when none fails.
2. Checked operators: parsing of redirect URIs, `validateProfile` of the
   configuration.

## Not modelled

Password hashing, token signing, PKCE and random values (fresh values instead);
HTML, CSRF and discovery (no state beyond a request); the validation of the
configuration (once, before anything runs); registration (one insert with a
unique key); the admin UI beyond the page of the audit log; end-to-end tests and
deployment (read for what they promise). The map of pending requests keeps
entries nobody submits: it has no bound in the code, and no property here.
That a user disabled after login keeps rotating refresh tokens is the code's
behaviour, which nothing in the repository contradicts.
