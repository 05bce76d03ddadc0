-------------------------- MODULE Authorize_proofs --------------------------
(***************************************************************************)
(* Theorems about Authorize: types, and the four properties of its codes.  *)
(* Each property has an invariant of its own, inductive together with the  *)
(* types; a lemma per property shows that every step keeps it.             *)
(***************************************************************************)
EXTENDS Authorize, TLAPS

-----------------------------------------------------------------------------
\* What a handler is, by where it stands.
LEMMA Shapes ==
  ASSUME TypeOK, NEW r \in Requests
  PROVE  /\ reqs[r] = Idle \/ reqs[r] \in Asking \/ reqs[r] \in Posting \/ reqs[r] \in Allowing
         /\ reqs[r].pc \in {"user", "consented"} => reqs[r] \in Asking
         /\ reqs[r].pc = "code" => reqs[r] \in Asking \cup Allowing
         /\ reqs[r].pc \in {"poster", "take"} => reqs[r] \in Posting
         /\ reqs[r].pc = "allow" => reqs[r] \in Allowing
         /\ reqs[r] = Idle <=> reqs[r].pc = "idle"
<1>1. reqs[r] \in {Idle} \cup Asking \cup Posting \cup Allowing
  BY DEF TypeOK
<1>2. Idle.pc = "idle"
  BY DEF Idle
<1>3. ASSUME reqs[r] \in Asking PROVE reqs[r].pc \in {"user", "consented", "code"}
  BY <1>3 DEF Asking
<1>4. ASSUME reqs[r] \in Posting PROVE reqs[r].pc \in {"poster", "take"}
  BY <1>4 DEF Posting
<1>5. ASSUME reqs[r] \in Allowing PROVE reqs[r].pc \in {"allow", "code"}
  BY <1>5 DEF Allowing
<1> QED
  BY <1>1, <1>2, <1>3, <1>4, <1>5

\* A handler that goes on to a place of the same kind stays of that kind.
LEMMA Going ==
  ASSUME NEW x, NEW pc
  PROVE  /\ x \in Asking /\ pc \in {"user", "consented", "code"} => [x EXCEPT !.pc = pc] \in Asking
         /\ x \in Posting /\ pc \in {"poster", "take"} => [x EXCEPT !.pc = pc] \in Posting
         /\ x \in Allowing /\ pc \in {"allow", "code"} => [x EXCEPT !.pc = pc] \in Allowing
BY DEF Asking, Posting, Allowing

\* So does one whose user turns out to be enabled.
LEMMA Serving ==
  ASSUME NEW x
  PROVE  /\ x \in Asking => [x EXCEPT !.served = TRUE] \in Asking
         /\ x \in Posting => [x EXCEPT !.served = TRUE] \in Posting
         /\ x \in Allowing => [x EXCEPT !.served = TRUE] \in Allowing
BY DEF Asking, Posting, Allowing

\* Handlers after one of them has changed.
LEMMA ReqsTyped ==
  ASSUME TypeOK, NEW r \in Requests, NEW x \in {Idle} \cup Asking \cup Posting \cup Allowing
  PROVE  [reqs EXCEPT ![r] = x] \in [Requests -> {Idle} \cup Asking \cup Posting \cup Allowing]
BY DEF TypeOK

LEMMA GoesTyped ==
  ASSUME TypeOK, NEW r \in Requests, NEW pc,
         \/ reqs[r] \in Asking /\ pc \in {"user", "consented", "code"}
         \/ reqs[r] \in Posting /\ pc \in {"poster", "take"}
         \/ reqs[r] \in Allowing /\ pc \in {"allow", "code"},
         Goes(r, pc)
  PROVE  reqs' \in [Requests -> {Idle} \cup Asking \cup Posting \cup Allowing]
<1>1. [reqs[r] EXCEPT !.pc = pc] \in Asking \cup Posting \cup Allowing
  BY Going
<1>2. reqs' = [reqs EXCEPT ![r] = [reqs[r] EXCEPT !.pc = pc]]
  BY DEF Goes
<1> QED
  BY <1>1, <1>2, ReqsTyped

LEMMA EndsTyped ==
  ASSUME TypeOK, NEW r \in Requests, Ends(r)
  PROVE  reqs' \in [Requests -> {Idle} \cup Asking \cup Posting \cup Allowing]
BY ReqsTyped DEF Ends

-----------------------------------------------------------------------------
LEMMA InitTyped == Init => TypeOK
<1> SUFFICES ASSUME Init PROVE TypeOK
  OBVIOUS
<1>1. redirects \in [Clients -> SUBSET URIs]
  BY EditsAssumption DEF Init
<1>2. faults \in 0..MaxFaults
  BY FaultsAssumption DEF Init
<1>3. pages \in [Pages -> Gone \cup Pending]
  BY DEF Init, Gone
<1> QED
  BY <1>1, <1>2, <1>3 DEF Init, TypeOK

LEMMA FaultTyped ==
  ASSUME TypeOK, Fault \/ UNCHANGED faults
  PROVE  faults' \in 0..MaxFaults
BY FaultsAssumption DEF TypeOK, Fault

LEMMA AuthorizeTyped ==
  ASSUME TypeOK, NEW r \in Requests, NEW u \in Users, NEW c \in Clients, NEW uri \in URIs,
         NEW scopes \in SUBSET Scopes,
         HandleAuthorize(r, u, [client |-> c, uri |-> uri, scopes |-> scopes])
  PROVE  TypeOK'
<1> DEFINE auth == [client |-> c, uri |-> uri, scopes |-> scopes]
<1>1. auth \in PendingAuth
  BY DEF HandleAuthorize, NormalizeScopes, PendingAuth, Wanted
<1> DEFINE x == [pc |-> "user", user |-> u, served |-> u \in enabled, auth |-> auth, page |-> None]
<1>2. x \in Asking
  BY <1>1 DEF Asking
<1>3. reqs' = [reqs EXCEPT ![r] = x]
  BY DEF HandleAuthorize
<1>4. reqs' \in [Requests -> {Idle} \cup Asking \cup Posting \cup Allowing]
  BY <1>2, <1>3, ReqsTyped
<1> QED
  BY <1>4 DEF HandleAuthorize, TypeOK, history

LEMMA ConsentTyped ==
  ASSUME TypeOK, NEW r \in Requests, NEW u \in Users, NEW p \in Pages, HandleConsent(r, u, p)
  PROVE  TypeOK'
<1> DEFINE x == [pc |-> "poster", user |-> u, served |-> u \in enabled, page |-> p]
<1>1. x \in Posting
  BY DEF Posting
<1>2. reqs' = [reqs EXCEPT ![r] = x]
  BY DEF HandleConsent
<1>3. reqs' \in [Requests -> {Idle} \cup Asking \cup Posting \cup Allowing]
  BY <1>1, <1>2, ReqsTyped
<1> QED
  BY <1>3 DEF HandleConsent, TypeOK, history

\* Each call of a handler keeps the types.
LEMMA HandleTyped ==
  ASSUME TypeOK, NEW r \in Requests, Handle(r)
  PROVE  TypeOK'
<1> DEFINE R == [Requests -> {Idle} \cup Asking \cup Posting \cup Allowing]
<1>1. CASE CurrentUser(r)
  <2>1. reqs[r].pc = "user" => reqs[r] \in Asking
    BY Shapes
  <2>2. reqs[r].pc # "user" => reqs[r] \in Posting
    BY <1>1, Shapes DEF CurrentUser
  <2>3. reqs' \in R
    BY <1>1, <2>1, <2>2, GoesTyped DEF CurrentUser
  <2> QED
    BY <1>1, <2>3 DEF CurrentUser, TypeOK, history
<1>2. CASE SendToLogin(r)
  BY <1>2, EndsTyped DEF SendToLogin, TypeOK, history
<1>3. CASE Consented(r)
  <2>1. reqs' \in R
    BY <1>3, Shapes, GoesTyped DEF Consented
  <2> QED
    BY <1>3, <2>1 DEF Consented, TypeOK, history
<1>4. CASE TakePending(r)
  <2>1. reqs[r] \in Posting
    BY <1>4, Shapes DEF TakePending
  <2> DEFINE auth == pages[reqs[r].page].auth
             x == [pc |-> "allow", user |-> reqs[r].user, served |-> reqs[r].served,
                   auth |-> auth, page |-> reqs[r].page]
  <2>2. reqs[r].page \in Pages /\ reqs[r].user \in Users /\ reqs[r].served \in BOOLEAN
    BY <2>1 DEF Posting
  <2>3. pages[reqs[r].page] \in Pending
    BY <1>4, <2>2 DEF TakePending, TypeOK, Gone
  <2>4. auth \in PendingAuth
    BY <2>3 DEF Pending
  <2>5. x \in Allowing
    BY <2>2, <2>4 DEF Allowing
  <2>6. reqs' \in R
    BY <1>4, <2>5, ReqsTyped DEF TakePending, Allows
  <2>7. auth.scopes \in SUBSET Known /\ auth.client \in Clients
    BY <2>4 DEF PendingAuth, Wanted
  <2>8. allowed' \in [Users \X Clients -> SUBSET SUBSET Known]
    BY <1>4, <2>2, <2>7 DEF TakePending, Allows, TypeOK
  <2>9. pages' \in [Pages -> Gone \cup Pending]
    BY <1>4 DEF TakePending, TypeOK, Gone
  <2> QED
    BY <1>4, <2>6, <2>8, <2>9 DEF TakePending, TypeOK
<1>5. CASE DenyPending(r)
  <2>1. pages' \in [Pages -> Gone \cup Pending]
    BY <1>5 DEF DenyPending, TypeOK, Gone
  <2> QED
    BY <1>5, <2>1, EndsTyped DEF DenyPending, TypeOK, history
<1>6. CASE RefusePending(r)
  BY <1>6, EndsTyped DEF RefusePending, TypeOK, history
<1>7. CASE PutConsent(r)
  <2>1. reqs[r] \in Allowing
    BY <1>7, Shapes DEF PutConsent
  <2>2. reqs[r].page \in Pages /\ reqs[r].auth.scopes \in SUBSET Known
    BY <2>1 DEF Allowing, PendingAuth, Wanted
  <2>3. reqs' \in R
    BY <1>7, <2>1, GoesTyped DEF PutConsent
  <2>4. consents' \in [Users \X Clients -> SUBSET Known]
    BY <1>7, <2>2 DEF PutConsent, TypeOK
  <2> QED
    BY <1>7, <2>2, <2>3, <2>4, FaultTyped DEF PutConsent, TypeOK, history
<1>8. CASE PutConsentError(r)
  <2>1. reqs[r] \in Allowing
    BY <1>8, Shapes DEF PutConsentError
  <2>2. reqs[r].page \in Pages
    BY <2>1 DEF Allowing
  <2>3. reqs' \in R
    BY <1>8, <2>1, GoesTyped DEF PutConsentError
  <2> QED
    BY <1>8, <2>2, <2>3, FaultTyped DEF PutConsentError, TypeOK, history
<1>9. CASE PutCodeError(r)
  BY <1>9, EndsTyped, FaultTyped DEF PutCodeError, TypeOK, history
<1>10. ASSUME NEW p \in Pages, AskConsent(r, p) PROVE TypeOK'
  <2>1. reqs[r] \in Asking
    BY <1>10, Shapes DEF AskConsent
  <2>2. [state |-> "pending", auth |-> reqs[r].auth] \in Pending
    BY <2>1 DEF Asking, Pending
  <2>3. pages' \in [Pages -> Gone \cup Pending]
    BY <1>10, <2>2 DEF AskConsent, TypeOK
  <2> QED
    BY <1>10, <2>3, EndsTyped, FaultTyped DEF AskConsent, TypeOK, history
<1>11. ASSUME NEW k \in Codes, IssueCode(r, k) PROVE TypeOK'
  <2>1. reqs[r] \in Asking \cup Allowing
    BY <1>11, Shapes DEF IssueCode
  <2>2. [user |-> reqs[r].user, auth |-> reqs[r].auth, page |-> reqs[r].page] \in CodeRow
    BY <2>1 DEF Asking, Allowing, CodeRow
  <2>3. codes' \in [Codes -> CodeRow \cup {None}]
    BY <1>11, <2>2 DEF IssueCode, StoreCode, TypeOK
  <2> QED
    BY <1>11, <2>3, EndsTyped, FaultTyped DEF IssueCode, TypeOK, history
<1> QED
  BY <1>1, <1>2, <1>3, <1>4, <1>5, <1>6, <1>7, <1>8, <1>9, <1>10, <1>11 DEF Handle

\* So does the world around.
LEMMA WorldTyped ==
  ASSUME TypeOK, World
  PROVE  TypeOK'
<1>1. ASSUME NEW c \in Clients, NEW uris \in Edits, UpdateClient(c, uris) PROVE TypeOK'
  BY <1>1, EditsAssumption DEF UpdateClient, TypeOK
<1>2. ASSUME NEW u \in Users, SetUserDisabled(u) PROVE TypeOK'
  <2>1. ASSUME NEW r \in Requests, reqs[r] # Idle
        PROVE  [reqs[r] EXCEPT !.served = TRUE] \in Asking \cup Posting \cup Allowing
    BY <2>1, Shapes, Serving
  <2>2. reqs' \in [Requests -> {Idle} \cup Asking \cup Posting \cup Allowing]
    BY <1>2, <2>1 DEF SetUserDisabled, TypeOK
  <2> QED
    BY <1>2, <2>2 DEF SetUserDisabled, TypeOK, history
<1>3. ASSUME NEW p \in Pages, ExpirePending(p) PROVE TypeOK'
  BY <1>3 DEF ExpirePending, TypeOK, history, Gone
<1>4. CASE Restart
  BY <1>4, FaultTyped DEF Restart, TypeOK, history, Gone
<1> QED
  BY <1>1, <1>2, <1>3, <1>4 DEF World

\* Every step keeps the types.
LEMMA StepTyped == TypeOK /\ [Next]_vars => TypeOK'
<1>1. ASSUME TypeOK, UNCHANGED vars PROVE TypeOK'
  BY <1>1 DEF vars, TypeOK
<1> QED
  BY <1>1, AuthorizeTyped, ConsentTyped, HandleTyped, WorldTyped DEF Next

\* The tables, the pending requests and the handlers of GET /authorize and POST
\* /consent have their types.
THEOREM Typed == Spec => []TypeOK
BY InitTyped, StepTyped, PTL DEF Spec

-----------------------------------------------------------------------------
(* What a step leaves of the handlers.                                     *)

\* Handlers with something to carry have a user, an auth and a page.
LEMMA Carried ==
  ASSUME TypeOK
  PROVE  /\ \A r \in Requests : reqs[r].pc \in {"user", "consented", "allow", "code"} =>
              reqs[r].auth \in PendingAuth /\ reqs[r].user \in Users
              /\ reqs[r].page \in Pages \cup {None}
         /\ \A p \in Pages : pages[p].state = "pending" => pages[p].auth \in PendingAuth
         /\ \A k \in Issued : codes[k] \in CodeRow
<1>1. ASSUME NEW r \in Requests, reqs[r].pc \in {"user", "consented", "allow", "code"}
      PROVE  reqs[r].auth \in PendingAuth /\ reqs[r].user \in Users
             /\ reqs[r].page \in Pages \cup {None}
  BY <1>1, Shapes DEF Asking, Allowing
<1>2. ASSUME NEW p \in Pages, pages[p].state = "pending" PROVE pages[p].auth \in PendingAuth
  <2>1. pages[p] \in Pending
    BY <1>2 DEF TypeOK, Gone
  <2> QED
    BY <2>1 DEF Pending
<1>3. ASSUME NEW k \in Issued PROVE codes[k] \in CodeRow
  BY <1>3 DEF TypeOK, Issued
<1> QED
  BY <1>1, <1>2, <1>3

\* A handler that ends carries nothing, and the others what they carried.
LEMMA EndsLeaves ==
  ASSUME TypeOK, NEW r \in Requests, Ends(r)
  PROVE  reqs'[r] = Idle /\ reqs'[r].pc = "idle" /\ \A q \in Requests : q # r => reqs'[q] = reqs[q]
BY DEF Ends, TypeOK, Idle

\* A handler that goes on keeps its user, its auth and its page.
LEMMA GoesLeaves ==
  ASSUME TypeOK, NEW r \in Requests, NEW pc, reqs[r] # Idle, Goes(r, pc)
  PROVE  /\ reqs'[r].pc = pc
         /\ reqs'[r].user = reqs[r].user /\ reqs'[r].served = reqs[r].served
         /\ reqs'[r].page = reqs[r].page
         /\ reqs[r].pc \in {"user", "consented", "allow", "code"} => reqs'[r].auth = reqs[r].auth
         /\ \A q \in Requests : q # r => reqs'[q] = reqs[q]
<1>1. reqs'[r] = [reqs[r] EXCEPT !.pc = pc] /\ \A q \in Requests : q # r => reqs'[q] = reqs[q]
  BY DEF Goes, TypeOK
<1>2. CASE reqs[r] \in Asking
  BY <1>1, <1>2 DEF Asking
<1>3. CASE reqs[r] \in Posting
  BY <1>1, <1>3 DEF Posting
<1>4. CASE reqs[r] \in Allowing
  BY <1>1, <1>4 DEF Allowing
<1> QED
  BY <1>2, <1>3, <1>4, Shapes

-----------------------------------------------------------------------------
(* The URIs.                                                               *)

\* It is enough that no handler gets another auth, no page and no code comes up,
\* and the history only grows.
LEMMA UsesKept ==
  ASSUME TypeOK, UsesRegisteredURIs,
         \A q \in Requests : reqs'[q].pc \in {"user", "consented", "allow", "code"} =>
           /\ reqs[q].pc \in {"user", "consented", "allow", "code"}
           /\ reqs'[q].auth = reqs[q].auth,
         \A p \in Pages : pages'[p].state = "pending" => pages'[p] = pages[p],
         codes' = codes, redirects' = redirects, registered' = registered
  PROVE  UsesRegisteredURIs'
BY DEF UsesRegisteredURIs, CodesGoToRegisteredURIs, Issued

\* Every step keeps the URIs in use among those registered.
LEMMA UsesStep ==
  ASSUME TypeOK, UsesRegisteredURIs, [Next]_vars
  PROVE  UsesRegisteredURIs'
<1>1. ASSUME NEW r \in Requests, NEW u \in Users, NEW c \in Clients, NEW uri \in URIs,
             NEW scopes \in SUBSET Scopes,
             HandleAuthorize(r, u, [client |-> c, uri |-> uri, scopes |-> scopes])
      PROVE  UsesRegisteredURIs'
  <2> DEFINE auth == [client |-> c, uri |-> uri, scopes |-> scopes]
  <2>1. reqs'[r].auth = auth /\ \A q \in Requests : q # r => reqs'[q] = reqs[q]
    BY <1>1 DEF HandleAuthorize, TypeOK
  <2>2. auth.uri \in registered[auth.client]
    BY <1>1 DEF HandleAuthorize, RedirectURIExact, UsesRegisteredURIs
  <2> QED
    BY <1>1, <2>1, <2>2
    DEF HandleAuthorize, history, UsesRegisteredURIs, CodesGoToRegisteredURIs, Issued
<1>2. ASSUME NEW r \in Requests, NEW u \in Users, NEW p \in Pages, HandleConsent(r, u, p)
      PROVE  UsesRegisteredURIs'
  <2>1. reqs'[r].pc = "poster" /\ \A q \in Requests : q # r => reqs'[q] = reqs[q]
    BY <1>2 DEF HandleConsent, TypeOK
  <2> QED
    BY <1>2, <2>1, UsesKept DEF HandleConsent, history
<1>3. ASSUME NEW r \in Requests, CurrentUser(r) PROVE UsesRegisteredURIs'
  BY <1>3, Shapes, GoesLeaves, UsesKept DEF CurrentUser, history
<1>4. ASSUME NEW r \in Requests, SendToLogin(r) PROVE UsesRegisteredURIs'
  BY <1>4, EndsLeaves, UsesKept DEF SendToLogin, history
<1>5. ASSUME NEW r \in Requests, Consented(r) PROVE UsesRegisteredURIs'
  BY <1>5, Shapes, GoesLeaves, UsesKept DEF Consented, history
<1>6. ASSUME NEW r \in Requests, TakePending(r) PROVE UsesRegisteredURIs'
  <2>1. reqs[r].page \in Pages
    BY <1>6, Shapes DEF TakePending, Posting
  <2>2. /\ reqs'[r].auth = pages[reqs[r].page].auth
        /\ \A q \in Requests : q # r => reqs'[q] = reqs[q]
    BY <1>6 DEF TakePending, Allows, TypeOK
  <2>3. pages[reqs[r].page].auth.uri \in registered[pages[reqs[r].page].auth.client]
    BY <1>6, <2>1 DEF TakePending, UsesRegisteredURIs
  <2>4. \A p \in Pages : pages'[p].state = "pending" => pages'[p] = pages[p]
    BY <1>6, <2>1 DEF TakePending, TypeOK
  <2> QED
    BY <1>6, <2>2, <2>3, <2>4
    DEF TakePending, UsesRegisteredURIs, CodesGoToRegisteredURIs, Issued
<1>7. ASSUME NEW r \in Requests, DenyPending(r) PROVE UsesRegisteredURIs'
  <2>1. \A p \in Pages : pages'[p].state = "pending" => pages'[p] = pages[p]
    BY <1>7 DEF DenyPending, TypeOK
  <2> QED
    BY <1>7, <2>1, EndsLeaves, UsesKept DEF DenyPending, history
<1>8. ASSUME NEW r \in Requests, RefusePending(r) PROVE UsesRegisteredURIs'
  BY <1>8, EndsLeaves, UsesKept DEF RefusePending, history
<1>9. ASSUME NEW r \in Requests, PutConsent(r) PROVE UsesRegisteredURIs'
  BY <1>9, Shapes, GoesLeaves, UsesKept DEF PutConsent, history
<1>10. ASSUME NEW r \in Requests, PutConsentError(r) PROVE UsesRegisteredURIs'
  BY <1>10, Shapes, GoesLeaves, UsesKept DEF PutConsentError, history
<1>11. ASSUME NEW r \in Requests, PutCodeError(r) PROVE UsesRegisteredURIs'
  BY <1>11, EndsLeaves, UsesKept DEF PutCodeError, history
<1>12. ASSUME NEW r \in Requests, NEW p \in Pages, AskConsent(r, p) PROVE UsesRegisteredURIs'
  <2>1. reqs[r].auth.uri \in registered[reqs[r].auth.client]
    BY <1>12 DEF AskConsent, UsesRegisteredURIs
  <2>2. pages'[p].auth = reqs[r].auth /\ \A o \in Pages : o # p => pages'[o] = pages[o]
    BY <1>12 DEF AskConsent, TypeOK
  <2> QED
    BY <1>12, <2>1, <2>2, EndsLeaves
    DEF AskConsent, history, UsesRegisteredURIs, CodesGoToRegisteredURIs, Issued
<1>13. ASSUME NEW r \in Requests, NEW k \in Codes, IssueCode(r, k) PROVE UsesRegisteredURIs'
  <2>1. reqs[r].auth.uri \in registered[reqs[r].auth.client]
    BY <1>13 DEF IssueCode, UsesRegisteredURIs
  <2>2. codes'[k].auth = reqs[r].auth /\ \A m \in Codes : m # k => codes'[m] = codes[m]
    BY <1>13 DEF IssueCode, StoreCode, TypeOK
  <2> QED
    BY <1>13, <2>1, <2>2, EndsLeaves
    DEF IssueCode, history, UsesRegisteredURIs, CodesGoToRegisteredURIs, Issued
<1>14. ASSUME NEW c \in Clients, NEW uris \in Edits, UpdateClient(c, uris)
       PROVE  UsesRegisteredURIs'
  <2>1. \A d \in Clients : registered[d] \subseteq registered'[d] /\ redirects'[d] \subseteq registered'[d]
    BY <1>14 DEF UpdateClient, TypeOK, UsesRegisteredURIs
  <2>2. \A auth : auth \in PendingAuth /\ auth.uri \in registered[auth.client] =>
          auth.uri \in registered'[auth.client]
    BY <2>1 DEF PendingAuth
  <2>3. \A k \in Issued : codes[k].auth \in PendingAuth
    BY Carried DEF CodeRow
  <2> QED
    BY <1>14, <2>1, <2>2, <2>3, Carried
    DEF UpdateClient, UsesRegisteredURIs, CodesGoToRegisteredURIs, Issued
<1>15. ASSUME NEW u \in Users, SetUserDisabled(u) PROVE UsesRegisteredURIs'
  <2>1. ASSUME NEW q \in Requests, reqs'[q].pc \in {"user", "consented", "allow", "code"}
        PROVE  reqs[q].pc = reqs'[q].pc /\ reqs'[q].auth = reqs[q].auth
    BY <1>15, <2>1, Shapes DEF SetUserDisabled, Asking, Posting, Allowing
  <2> QED
    BY <1>15, <2>1, UsesKept DEF SetUserDisabled, history
<1>16. ASSUME NEW p \in Pages, ExpirePending(p) PROVE UsesRegisteredURIs'
  <2>1. \A o \in Pages : pages'[o].state = "pending" => pages'[o] = pages[o]
    BY <1>16 DEF ExpirePending, TypeOK
  <2> QED
    BY <1>16, <2>1, UsesKept DEF ExpirePending, history
<1>17. CASE Restart
  <2>1. \A p \in Pages : pages'[p].state = "pending" => pages'[p] = pages[p]
    BY <1>17 DEF Restart
  <2>2. \A q \in Requests : reqs'[q].pc = "idle"
    BY <1>17 DEF Restart, Idle
  <2> QED
    BY <1>17, <2>1, <2>2, UsesKept DEF Restart, history
<1>18. CASE UNCHANGED vars
  BY <1>18, UsesKept DEF vars
<1> QED
  BY <1>1, <1>2, <1>3, <1>4, <1>5, <1>6, <1>7, <1>8, <1>9, <1>10, <1>11, <1>12, <1>13,
     <1>14, <1>15, <1>16, <1>17, <1>18 DEF Next, Handle, World

-----------------------------------------------------------------------------
(* The consents.                                                           *)

\* It is enough that nobody else is about to get a code, and no row changes.
LEMMA GrantsKept ==
  ASSUME TypeOK, GrantsAreAllowed,
         \A q \in Granting' : /\ q \in Granting
                              /\ reqs'[q].user = reqs[q].user /\ reqs'[q].auth = reqs[q].auth,
         consents' = consents, codes' = codes, allowed' = allowed
  PROVE  GrantsAreAllowed'
BY DEF GrantsAreAllowed, CodesAreAllowed, Issued

\* Every step keeps what is granted within what was allowed.
LEMMA GrantsStep ==
  ASSUME TypeOK, GrantsAreAllowed, [Next]_vars
  PROVE  GrantsAreAllowed'
<1>1. ASSUME NEW r \in Requests, NEW u \in Users, NEW c \in Clients, NEW uri \in URIs,
             NEW scopes \in SUBSET Scopes,
             HandleAuthorize(r, u, [client |-> c, uri |-> uri, scopes |-> scopes])
      PROVE  GrantsAreAllowed'
  <2>1. reqs'[r].pc = "user" /\ \A q \in Requests : q # r => reqs'[q] = reqs[q]
    BY <1>1 DEF HandleAuthorize, TypeOK
  <2> QED
    BY <1>1, <2>1, GrantsKept DEF HandleAuthorize, history, Granting
<1>2. ASSUME NEW r \in Requests, NEW u \in Users, NEW p \in Pages, HandleConsent(r, u, p)
      PROVE  GrantsAreAllowed'
  <2>1. reqs'[r].pc = "poster" /\ \A q \in Requests : q # r => reqs'[q] = reqs[q]
    BY <1>2 DEF HandleConsent, TypeOK
  <2> QED
    BY <1>2, <2>1, GrantsKept DEF HandleConsent, history, Granting
<1>3. ASSUME NEW r \in Requests, CurrentUser(r) PROVE GrantsAreAllowed'
  BY <1>3, Shapes, GoesLeaves, GrantsKept DEF CurrentUser, history, Granting
<1>4. ASSUME NEW r \in Requests, SendToLogin(r) PROVE GrantsAreAllowed'
  BY <1>4, EndsLeaves, GrantsKept DEF SendToLogin, history, Granting
<1>5. ASSUME NEW r \in Requests, Consented(r) PROVE GrantsAreAllowed'
  <2> DEFINE u == reqs[r].user  auth == reqs[r].auth
  <2>1. u \in Users /\ auth.client \in Clients /\ OpenID \in auth.scopes
    BY <1>5, Carried DEF Consented, PendingAuth, Wanted
  <2>2. auth.scopes \subseteq consents[<<u, auth.client>>]
    BY <1>5 DEF Consented, hasConsent
  <2>3. PICK decision \in allowed[<<u, auth.client>>] :
          consents[<<u, auth.client>>] \subseteq decision
    BY <2>1, <2>2 DEF GrantsAreAllowed
  <2>4. auth.scopes \subseteq decision
    BY <2>2, <2>3
  <2>5. /\ reqs'[r].user = u /\ reqs'[r].auth = auth
        /\ \A q \in Requests : q # r => reqs'[q] = reqs[q]
    BY <1>5, Shapes, GoesLeaves DEF Consented
  <2> QED
    BY <1>5, <2>3, <2>4, <2>5
    DEF Consented, history, GrantsAreAllowed, CodesAreAllowed, Issued, Granting
<1>6. ASSUME NEW r \in Requests, TakePending(r) PROVE GrantsAreAllowed'
  <2>1. reqs[r].page \in Pages /\ reqs[r].user \in Users
    BY <1>6, Shapes DEF TakePending, Posting
  <2> DEFINE u == reqs[r].user  auth == pages[reqs[r].page].auth
  <2>2. auth.client \in Clients
    BY <1>6, <2>1, Carried DEF TakePending, PendingAuth
  <2>3. /\ reqs'[r].user = u /\ reqs'[r].auth = auth
        /\ \A q \in Requests : q # r => reqs'[q] = reqs[q]
    BY <1>6 DEF TakePending, Allows, TypeOK
  <2>4. \A v \in Users, c \in Clients : allowed[<<v, c>>] \subseteq allowed'[<<v, c>>]
    BY <1>6, <2>1, <2>2 DEF TakePending, Allows, TypeOK
  <2>5. auth.scopes \in allowed'[<<u, auth.client>>]
    BY <1>6, <2>1, <2>2 DEF TakePending, Allows, TypeOK
  <2>6. ASSUME NEW q \in Granting'
        PROVE  \E decision \in allowed'[<<reqs'[q].user, reqs'[q].auth.client>>] :
                 reqs'[q].auth.scopes \subseteq decision
    <3>1. CASE q = r
      BY <2>3, <2>5, <3>1
    <3>2. CASE q # r
      <4>1. q \in Granting /\ reqs'[q] = reqs[q] /\ q \in Requests
        BY <2>3, <3>2 DEF Granting
      <4>2. reqs[q].user \in Users /\ reqs[q].auth.client \in Clients
        BY <4>1, Carried DEF Granting, PendingAuth
      <4> QED
        BY <2>4, <4>1, <4>2 DEF GrantsAreAllowed
    <3> QED
      BY <3>1, <3>2
  <2>7. CodesAreAllowed'
    <3>1. \A k \in Issued : codes[k].user \in Users /\ codes[k].auth.client \in Clients
      BY Carried DEF CodeRow, PendingAuth
    <3> QED
      BY <1>6, <2>4, <3>1 DEF TakePending, GrantsAreAllowed, CodesAreAllowed, Issued
  <2>8. \A v \in Users, c \in Clients : consents'[<<v, c>>] # {} =>
          \E decision \in allowed'[<<v, c>>] : consents'[<<v, c>>] \subseteq decision
    BY <1>6, <2>4 DEF TakePending, GrantsAreAllowed
  <2> QED
    BY <2>6, <2>7, <2>8 DEF GrantsAreAllowed
<1>7. ASSUME NEW r \in Requests, DenyPending(r) PROVE GrantsAreAllowed'
  BY <1>7, EndsLeaves, GrantsKept DEF DenyPending, history, Granting
<1>8. ASSUME NEW r \in Requests, RefusePending(r) PROVE GrantsAreAllowed'
  BY <1>8, EndsLeaves, GrantsKept DEF RefusePending, history, Granting
<1>9. ASSUME NEW r \in Requests, PutConsent(r) PROVE GrantsAreAllowed'
  <2>1. /\ reqs[r] # Idle /\ r \in Granting
        /\ reqs[r].user \in Users /\ reqs[r].auth.client \in Clients
    BY <1>9, Shapes, Carried DEF PutConsent, Granting, PendingAuth
  <2>2. /\ reqs'[r].user = reqs[r].user /\ reqs'[r].auth = reqs[r].auth
        /\ \A q \in Requests : q # r => reqs'[q] = reqs[q]
    BY <1>9, <2>1, GoesLeaves DEF PutConsent
  <2>3. PICK decision \in allowed[<<reqs[r].user, reqs[r].auth.client>>] :
          reqs[r].auth.scopes \subseteq decision
    BY <2>1 DEF GrantsAreAllowed
  <2>4. ASSUME NEW v \in Users, NEW c \in Clients, consents'[<<v, c>>] # {}
        PROVE  \E d \in allowed'[<<v, c>>] : consents'[<<v, c>>] \subseteq d
    <3>1. CASE <<v, c>> = <<reqs[r].user, reqs[r].auth.client>>
      BY <1>9, <2>1, <2>3, <3>1 DEF PutConsent, TypeOK, history
    <3>2. CASE <<v, c>> # <<reqs[r].user, reqs[r].auth.client>>
      BY <1>9, <2>1, <2>4, <3>2 DEF PutConsent, TypeOK, history, GrantsAreAllowed
    <3> QED
      BY <3>1, <3>2
  <2> QED
    BY <1>9, <2>1, <2>2, <2>4
    DEF PutConsent, history, GrantsAreAllowed, CodesAreAllowed, Issued, Granting
<1>10. ASSUME NEW r \in Requests, PutConsentError(r) PROVE GrantsAreAllowed'
  BY <1>10, Shapes, GoesLeaves, GrantsKept DEF PutConsentError, history, Granting
<1>11. ASSUME NEW r \in Requests, PutCodeError(r) PROVE GrantsAreAllowed'
  BY <1>11, EndsLeaves, GrantsKept DEF PutCodeError, history, Granting
<1>12. ASSUME NEW r \in Requests, NEW p \in Pages, AskConsent(r, p) PROVE GrantsAreAllowed'
  BY <1>12, EndsLeaves, GrantsKept DEF AskConsent, history, Granting
<1>13. ASSUME NEW r \in Requests, NEW k \in Codes, IssueCode(r, k) PROVE GrantsAreAllowed'
  <2>1. \E decision \in allowed[<<reqs[r].user, reqs[r].auth.client>>] :
          reqs[r].auth.scopes \subseteq decision
    BY <1>13 DEF IssueCode, GrantsAreAllowed, Granting
  <2>2. /\ codes'[k].auth = reqs[r].auth /\ codes'[k].user = reqs[r].user
        /\ \A m \in Codes : m # k => codes'[m] = codes[m]
    BY <1>13 DEF IssueCode, StoreCode, TypeOK
  <2> QED
    BY <1>13, <2>1, <2>2, EndsLeaves
    DEF IssueCode, history, GrantsAreAllowed, CodesAreAllowed, Issued, Granting
<1>14. ASSUME NEW c \in Clients, NEW uris \in Edits, UpdateClient(c, uris) PROVE GrantsAreAllowed'
  BY <1>14, GrantsKept DEF UpdateClient, Granting
<1>15. ASSUME NEW u \in Users, SetUserDisabled(u) PROVE GrantsAreAllowed'
  <2>1. ASSUME NEW q \in Granting'
        PROVE  q \in Granting /\ reqs'[q].user = reqs[q].user /\ reqs'[q].auth = reqs[q].auth
    BY <1>15, <2>1, Shapes DEF SetUserDisabled, Asking, Posting, Allowing, Granting
  <2> QED
    BY <1>15, <2>1, GrantsKept DEF SetUserDisabled, history
<1>16. ASSUME NEW p \in Pages, ExpirePending(p) PROVE GrantsAreAllowed'
  BY <1>16, GrantsKept DEF ExpirePending, history, Granting
<1>17. CASE Restart
  <2>1. \A q \in Requests : reqs'[q].pc = "idle"
    BY <1>17 DEF Restart, Idle
  <2> QED
    BY <1>17, <2>1, GrantsKept DEF Restart, history, Granting
<1>18. CASE UNCHANGED vars
  BY <1>18, GrantsKept DEF vars, Granting
<1> QED
  BY <1>1, <1>2, <1>3, <1>4, <1>5, <1>6, <1>7, <1>8, <1>9, <1>10, <1>11, <1>12, <1>13,
     <1>14, <1>15, <1>16, <1>17, <1>18 DEF Next, Handle, World

-----------------------------------------------------------------------------
(* The pages.                                                              *)

\* It is enough that no page stops being taken, no other handler serves one, and
\* no code comes up.
LEMMA AnswersKept ==
  ASSUME TypeOK, AnswersAreTaken,
         \A q \in Answering' : q \in Answering /\ reqs'[q].page = reqs[q].page,
         \A p \in Pages : pages[p].state = "taken" => pages'[p].state = "taken",
         codes' = codes
  PROVE  AnswersAreTaken'
<1>1. \A q \in Answering : reqs[q].page \in Pages
  BY Carried DEF Answering, Granting
<1>2. \A k \in Issued : codes[k].page # None => codes[k].page \in Pages
  BY Carried DEF CodeRow
<1> QED
  BY <1>1, <1>2 DEF AnswersAreTaken, PageAnsweredOnce, Issued

\* Every step keeps each page with one handler or one code.
LEMMA AnswersStep ==
  ASSUME TypeOK, AnswersAreTaken, [Next]_vars
  PROVE  AnswersAreTaken'
<1>1. ASSUME NEW r \in Requests, NEW u \in Users, NEW c \in Clients, NEW uri \in URIs,
             NEW scopes \in SUBSET Scopes,
             HandleAuthorize(r, u, [client |-> c, uri |-> uri, scopes |-> scopes])
      PROVE  AnswersAreTaken'
  <2>1. reqs'[r].pc = "user" /\ \A q \in Requests : q # r => reqs'[q] = reqs[q]
    BY <1>1 DEF HandleAuthorize, TypeOK
  <2> QED
    BY <1>1, <2>1, AnswersKept DEF HandleAuthorize, Granting, Answering
<1>2. ASSUME NEW r \in Requests, NEW u \in Users, NEW p \in Pages, HandleConsent(r, u, p)
      PROVE  AnswersAreTaken'
  <2>1. reqs'[r].pc = "poster" /\ \A q \in Requests : q # r => reqs'[q] = reqs[q]
    BY <1>2 DEF HandleConsent, TypeOK
  <2> QED
    BY <1>2, <2>1, AnswersKept DEF HandleConsent, Granting, Answering
<1>3. ASSUME NEW r \in Requests, CurrentUser(r) PROVE AnswersAreTaken'
  BY <1>3, Shapes, GoesLeaves, AnswersKept DEF CurrentUser, Granting, Answering
<1>4. ASSUME NEW r \in Requests, SendToLogin(r) PROVE AnswersAreTaken'
  BY <1>4, EndsLeaves, AnswersKept DEF SendToLogin, Granting, Answering
<1>5. ASSUME NEW r \in Requests, Consented(r) PROVE AnswersAreTaken'
  <2>1. reqs[r].page = None
    BY <1>5, Shapes DEF Consented, Asking
  <2> QED
    BY <1>5, <2>1, Shapes, GoesLeaves, AnswersKept DEF Consented, Granting, Answering
<1>6. ASSUME NEW r \in Requests, TakePending(r) PROVE AnswersAreTaken'
  <2>1. reqs[r].page \in Pages
    BY <1>6, Shapes DEF TakePending, Posting
  <2>2. /\ reqs'[r].page = reqs[r].page
        /\ \A q \in Requests : q # r => reqs'[q] = reqs[q]
    BY <1>6 DEF TakePending, Allows, TypeOK
  <2>3. \A q \in Answering : reqs[q].page # reqs[r].page
    BY <1>6 DEF TakePending, AnswersAreTaken
  <2>4. \A k \in Issued : codes[k].page # reqs[r].page
    BY <1>6, <2>1, NoneAssumption DEF TakePending, AnswersAreTaken, PageAnsweredOnce
  <2>5. /\ pages'[reqs[r].page].state = "taken"
        /\ \A p \in Pages : pages[p].state = "taken" => pages'[p].state = "taken"
    BY <1>6, <2>1 DEF TakePending, TypeOK
  <2>6. \A q \in Answering' : q = r \/ (q \in Answering /\ reqs'[q] = reqs[q])
    BY <2>2 DEF Answering, Granting
  <2>7. \A q \in Answering : reqs[q].page \in Pages
    BY Carried DEF Answering, Granting
  <2>8. \A k \in Issued : codes[k].page # None => codes[k].page \in Pages
    BY Carried DEF CodeRow
  <2>9. Issued' = Issued /\ codes' = codes
    BY <1>6 DEF TakePending, Issued
  <2>10. ASSUME NEW q \in Answering'
         PROVE  /\ pages'[reqs'[q].page].state = "taken"
                /\ \A k \in Issued : codes[k].page # reqs'[q].page
                /\ \A o \in Answering' : reqs'[o].page = reqs'[q].page => o = q
    BY <2>2, <2>3, <2>4, <2>5, <2>6, <2>7 DEF AnswersAreTaken
  <2>11. PageAnsweredOnce'
    BY <2>5, <2>8, <2>9 DEF AnswersAreTaken, PageAnsweredOnce
  <2> QED
    BY <2>9, <2>10, <2>11 DEF AnswersAreTaken
<1>7. ASSUME NEW r \in Requests, DenyPending(r) PROVE AnswersAreTaken'
  <2>1. \A p \in Pages : pages[p].state = "taken" => pages'[p].state = "taken"
    BY <1>7 DEF DenyPending, TypeOK
  <2> QED
    BY <1>7, <2>1, EndsLeaves, AnswersKept DEF DenyPending, Granting, Answering
<1>8. ASSUME NEW r \in Requests, RefusePending(r) PROVE AnswersAreTaken'
  BY <1>8, EndsLeaves, AnswersKept DEF RefusePending, Granting, Answering
<1>9. ASSUME NEW r \in Requests, PutConsent(r) PROVE AnswersAreTaken'
  BY <1>9, Shapes, GoesLeaves, AnswersKept DEF PutConsent, Granting, Answering
<1>10. ASSUME NEW r \in Requests, PutConsentError(r) PROVE AnswersAreTaken'
  BY <1>10, Shapes, GoesLeaves, AnswersKept DEF PutConsentError, Granting, Answering
<1>11. ASSUME NEW r \in Requests, PutCodeError(r) PROVE AnswersAreTaken'
  BY <1>11, EndsLeaves, AnswersKept DEF PutCodeError, Granting, Answering
<1>12. ASSUME NEW r \in Requests, NEW p \in Pages, AskConsent(r, p) PROVE AnswersAreTaken'
  <2>1. \A o \in Pages : pages[o].state = "taken" => pages'[o].state = "taken"
    BY <1>12 DEF AskConsent, TypeOK
  <2> QED
    BY <1>12, <2>1, EndsLeaves, AnswersKept DEF AskConsent, Granting, Answering
<1>13. ASSUME NEW r \in Requests, NEW k \in Codes, IssueCode(r, k) PROVE AnswersAreTaken'
  <2>1. /\ codes'[k].page = reqs[r].page /\ codes[k] = None
        /\ \A m \in Codes : m # k => codes'[m] = codes[m]
    BY <1>13 DEF IssueCode, StoreCode, TypeOK
  <2>2. Issued' \subseteq Issued \cup {k} /\ \A m \in Issued : m # k /\ codes'[m] = codes[m]
    BY <2>1 DEF Issued
  <2>3. /\ reqs'[r].pc = "idle"
        /\ \A q \in Requests : q # r => reqs'[q] = reqs[q]
    BY <1>13, EndsLeaves DEF IssueCode
  <2>4. \A q \in Answering' : q \in Answering \ {r} /\ reqs'[q] = reqs[q]
    BY <2>3 DEF Answering, Granting
  <2>5. CASE reqs[r].page = None
    <3>1. \A q \in Answering : reqs[q].page # None
      BY DEF Answering
    <3>2. \A q \in Answering' : reqs'[q].page # None
      BY <2>4, <3>1
    <3>3. PageAnsweredOnce'
      BY <1>13, <2>1, <2>2, <2>5 DEF IssueCode, AnswersAreTaken, PageAnsweredOnce
    <3>4. ASSUME NEW q \in Answering'
          PROVE  /\ pages'[reqs'[q].page].state = "taken"
                 /\ \A m \in Issued' : codes'[m].page # reqs'[q].page
                 /\ \A o \in Answering' : reqs'[o].page = reqs'[q].page => o = q
      BY <1>13, <2>1, <2>2, <2>4, <2>5, <3>2 DEF IssueCode, AnswersAreTaken
    <3> QED
      BY <3>3, <3>4 DEF AnswersAreTaken
  <2>6. CASE reqs[r].page # None
    <3>1. r \in Answering
      BY <1>13, <2>6 DEF IssueCode, Answering, Granting
    <3>2. pages[reqs[r].page].state = "taken" /\ \A m \in Issued : codes[m].page # reqs[r].page
      BY <3>1 DEF AnswersAreTaken
    <3>3. PageAnsweredOnce'
      BY <1>13, <2>1, <2>2, <3>2 DEF IssueCode, AnswersAreTaken, PageAnsweredOnce
    <3>4. ASSUME NEW q \in Answering'
          PROVE  /\ pages'[reqs'[q].page].state = "taken"
                 /\ \A m \in Issued' : codes'[m].page # reqs'[q].page
                 /\ \A o \in Answering' : reqs'[o].page = reqs'[q].page => o = q
      BY <1>13, <2>1, <2>2, <2>4, <3>1 DEF IssueCode, AnswersAreTaken
    <3> QED
      BY <3>3, <3>4 DEF AnswersAreTaken
  <2> QED
    BY <2>5, <2>6
<1>14. ASSUME NEW c \in Clients, NEW uris \in Edits, UpdateClient(c, uris) PROVE AnswersAreTaken'
  BY <1>14, AnswersKept DEF UpdateClient, Granting, Answering
<1>15. ASSUME NEW u \in Users, SetUserDisabled(u) PROVE AnswersAreTaken'
  <2>1. ASSUME NEW q \in Answering'
        PROVE  q \in Answering /\ reqs'[q].page = reqs[q].page
    BY <1>15, <2>1, Shapes DEF SetUserDisabled, Asking, Posting, Allowing, Granting, Answering
  <2> QED
    BY <1>15, <2>1, AnswersKept DEF SetUserDisabled
<1>16. ASSUME NEW p \in Pages, ExpirePending(p) PROVE AnswersAreTaken'
  <2>1. \A o \in Pages : pages[o].state = "taken" => pages'[o].state = "taken"
    BY <1>16 DEF ExpirePending, TypeOK
  <2> QED
    BY <1>16, <2>1, AnswersKept DEF ExpirePending, Granting, Answering
<1>17. CASE Restart
  <2>1. \A q \in Requests : reqs'[q].pc = "idle"
    BY <1>17 DEF Restart, Idle
  <2>2. \A p \in Pages : pages[p].state = "taken" => pages'[p].state = "taken"
    BY <1>17 DEF Restart, Pending
  <2> QED
    BY <1>17, <2>1, <2>2, AnswersKept DEF Restart, Granting, Answering
<1>18. CASE UNCHANGED vars
  BY <1>18, AnswersKept DEF vars, Granting, Answering
<1> QED
  BY <1>1, <1>2, <1>3, <1>4, <1>5, <1>6, <1>7, <1>8, <1>9, <1>10, <1>11, <1>12, <1>13,
     <1>14, <1>15, <1>16, <1>17, <1>18 DEF Next, Handle, World

-----------------------------------------------------------------------------
(* The users.                                                              *)

\* It is enough that a handler past the look-up was past it before, and the users
\* are as they were.
LEMMA ServedKept ==
  ASSUME TypeOK, EnabledAreServed,
         \A q \in Requests : reqs'[q] # Idle =>
           /\ reqs[q] # Idle
           /\ reqs'[q].user = reqs[q].user /\ reqs'[q].served = reqs[q].served
           /\ reqs'[q].pc \in {"consented", "take", "allow", "code"} =>
                reqs[q].served \/ reqs[q].pc \in {"consented", "take", "allow", "code"},
         enabled' = enabled
  PROVE  EnabledAreServed'
<1>1. Idle.pc = "idle"
  BY DEF Idle
<1> QED
  BY <1>1 DEF EnabledAreServed, DisabledGetNoCode

\* Every step keeps disabled users from consents and codes.
LEMMA ServedStep ==
  ASSUME TypeOK, EnabledAreServed, [Next]_vars
  PROVE  EnabledAreServed'
<1>1. ASSUME NEW r \in Requests, NEW u \in Users, NEW c \in Clients, NEW uri \in URIs,
             NEW scopes \in SUBSET Scopes,
             HandleAuthorize(r, u, [client |-> c, uri |-> uri, scopes |-> scopes])
      PROVE  EnabledAreServed'
  <2>1. /\ reqs'[r].pc = "user" /\ reqs'[r].user = u /\ (u \in enabled => reqs'[r].served)
        /\ \A q \in Requests : q # r => reqs'[q] = reqs[q]
    BY <1>1 DEF HandleAuthorize, TypeOK
  <2> QED
    BY <1>1, <2>1 DEF HandleAuthorize, EnabledAreServed, DisabledGetNoCode
<1>2. ASSUME NEW r \in Requests, NEW u \in Users, NEW p \in Pages, HandleConsent(r, u, p)
      PROVE  EnabledAreServed'
  <2>1. /\ reqs'[r].pc = "poster" /\ reqs'[r].user = u /\ (u \in enabled => reqs'[r].served)
        /\ \A q \in Requests : q # r => reqs'[q] = reqs[q]
    BY <1>2 DEF HandleConsent, TypeOK
  <2> QED
    BY <1>2, <2>1 DEF HandleConsent, EnabledAreServed, DisabledGetNoCode
<1>3. ASSUME NEW r \in Requests, CurrentUser(r) PROVE EnabledAreServed'
  <2>1. reqs[r] # Idle /\ reqs[r].served
    BY <1>3, Shapes DEF CurrentUser, EnabledAreServed
  <2> QED
    BY <1>3, <2>1, GoesLeaves, ServedKept DEF CurrentUser
<1>4. ASSUME NEW r \in Requests, SendToLogin(r) PROVE EnabledAreServed'
  BY <1>4, EndsLeaves, ServedKept DEF SendToLogin
<1>5. ASSUME NEW r \in Requests, Consented(r) PROVE EnabledAreServed'
  BY <1>5, Shapes, GoesLeaves, ServedKept DEF Consented
<1>6. ASSUME NEW r \in Requests, TakePending(r) PROVE EnabledAreServed'
  <2>1. reqs[r] # Idle
    BY <1>6, Shapes DEF TakePending
  <2>2. /\ reqs'[r].user = reqs[r].user /\ reqs'[r].served = reqs[r].served
        /\ \A q \in Requests : q # r => reqs'[q] = reqs[q]
    BY <1>6 DEF TakePending, Allows, TypeOK
  <2> QED
    BY <1>6, <2>1, <2>2, ServedKept DEF TakePending
<1>7. ASSUME NEW r \in Requests, DenyPending(r) PROVE EnabledAreServed'
  BY <1>7, EndsLeaves, ServedKept DEF DenyPending
<1>8. ASSUME NEW r \in Requests, RefusePending(r) PROVE EnabledAreServed'
  BY <1>8, EndsLeaves, ServedKept DEF RefusePending
<1>9. ASSUME NEW r \in Requests, PutConsent(r) PROVE EnabledAreServed'
  BY <1>9, Shapes, GoesLeaves, ServedKept DEF PutConsent
<1>10. ASSUME NEW r \in Requests, PutConsentError(r) PROVE EnabledAreServed'
  BY <1>10, Shapes, GoesLeaves, ServedKept DEF PutConsentError
<1>11. ASSUME NEW r \in Requests, PutCodeError(r) PROVE EnabledAreServed'
  BY <1>11, EndsLeaves, ServedKept DEF PutCodeError
<1>12. ASSUME NEW r \in Requests, NEW p \in Pages, AskConsent(r, p) PROVE EnabledAreServed'
  BY <1>12, EndsLeaves, ServedKept DEF AskConsent
<1>13. ASSUME NEW r \in Requests, NEW k \in Codes, IssueCode(r, k) PROVE EnabledAreServed'
  BY <1>13, EndsLeaves, ServedKept DEF IssueCode
<1>14. ASSUME NEW c \in Clients, NEW uris \in Edits, UpdateClient(c, uris) PROVE EnabledAreServed'
  BY <1>14, ServedKept DEF UpdateClient
<1>15. ASSUME NEW u \in Users, SetUserDisabled(u) PROVE EnabledAreServed'
  <2>1. CASE u \in enabled
    BY <1>15, <2>1 DEF SetUserDisabled, EnabledAreServed, DisabledGetNoCode
  <2>2. CASE u \notin enabled
    <3>1. ASSUME NEW q \in Requests, reqs[q] # Idle
          PROVE  /\ reqs'[q].pc = reqs[q].pc /\ reqs'[q].user = reqs[q].user
                 /\ reqs'[q].served = (reqs[q].served \/ reqs[q].user = u)
      BY <1>15, <2>2, <3>1, Shapes DEF SetUserDisabled, Asking, Posting, Allowing
    <3>2. \A q \in Requests : reqs[q] = Idle => reqs'[q] = Idle
      BY <1>15 DEF SetUserDisabled
    <3> QED
      BY <1>15, <2>2, <3>1, <3>2 DEF SetUserDisabled, EnabledAreServed, DisabledGetNoCode
  <2> QED
    BY <2>1, <2>2
<1>16. ASSUME NEW p \in Pages, ExpirePending(p) PROVE EnabledAreServed'
  BY <1>16, ServedKept DEF ExpirePending
<1>17. CASE Restart
  <2>1. \A q \in Requests : reqs'[q] = Idle
    BY <1>17 DEF Restart
  <2> QED
    BY <1>17, <2>1, ServedKept DEF Restart
<1>18. CASE UNCHANGED vars
  BY <1>18, ServedKept DEF vars
<1> QED
  BY <1>1, <1>2, <1>3, <1>4, <1>5, <1>6, <1>7, <1>8, <1>9, <1>10, <1>11, <1>12, <1>13,
     <1>14, <1>15, <1>16, <1>17, <1>18 DEF Next, Handle, World

-----------------------------------------------------------------------------
\* The initial states satisfy all of it.
LEMMA InitInv == Init => AuthorizeInv
<1> SUFFICES ASSUME Init PROVE AuthorizeInv
  OBVIOUS
<1>1. \A r \in Requests : reqs[r] = Idle /\ reqs[r].pc = "idle"
  BY DEF Init, Idle
<1>2. Issued = {} /\ Granting = {} /\ Answering = {}
  BY <1>1 DEF Init, Issued, Granting, Answering
<1>3. UsesRegisteredURIs
  BY <1>1, <1>2 DEF Init, UsesRegisteredURIs, CodesGoToRegisteredURIs
<1>4. GrantsAreAllowed
  BY <1>2 DEF Init, GrantsAreAllowed, CodesAreAllowed
<1>5. AnswersAreTaken
  BY <1>2 DEF AnswersAreTaken, PageAnsweredOnce
<1>6. EnabledAreServed
  BY <1>1 DEF EnabledAreServed, DisabledGetNoCode
<1> QED
  BY <1>3, <1>4, <1>5, <1>6, InitTyped DEF AuthorizeInv

\* Between any two calls of the handlers, what they and the pending requests carry
\* is what the client may have and the user has allowed.
THEOREM Invariance == Spec => []AuthorizeInv
<1>1. AuthorizeInv /\ [Next]_vars => AuthorizeInv'
  BY StepTyped, UsesStep, GrantsStep, AnswersStep, ServedStep DEF AuthorizeInv
<1> QED
  BY InitInv, <1>1, PTL DEF Spec

\* A consent page yields one code at most, and none when it was denied
\* (handleConsent).
THEOREM AnsweredOnce == Spec => []PageAnsweredOnce
<1>1. AuthorizeInv => PageAnsweredOnce
  BY DEF AuthorizeInv, AnswersAreTaken
<1> QED
  BY Invariance, <1>1, PTL

\* No code carries more than its user allowed its client in one decision
\* (hasConsent, PutConsent).
THEOREM OnlyAllowed == Spec => []CodesAreAllowed
<1>1. AuthorizeInv => CodesAreAllowed
  BY DEF AuthorizeInv, GrantsAreAllowed
<1> QED
  BY Invariance, <1>1, PTL

\* A user disabled before a request comes in gets nothing from it (currentUser).
THEOREM NoneForDisabled == Spec => []DisabledGetNoCode
<1>1. AuthorizeInv => DisabledGetNoCode
  BY DEF AuthorizeInv, EnabledAreServed
<1> QED
  BY Invariance, <1>1, PTL

\* A code goes to no URI but those registered for its client
\* (RedirectURIExact).
THEOREM OnlyRegistered == Spec => []CodesGoToRegisteredURIs
<1>1. AuthorizeInv => CodesGoToRegisteredURIs
  BY DEF AuthorizeInv, UsesRegisteredURIs
<1> QED
  BY Invariance, <1>1, PTL

-----------------------------------------------------------------------------
(* What no step undoes.                                                    *)

\* A page that was answered or lost stays as it is.
LEMMA SettledStays ==
  ASSUME TypeOK, [Next]_vars, NEW p \in Pages, pages[p].state \in {"taken", "denied", "lost"}
  PROVE  pages'[p] = pages[p]
<1>0. pages \in [Pages -> Gone \cup Pending]
  BY DEF TypeOK
<1>1. ASSUME NEW r \in Requests, NEW q \in Pages, AskConsent(r, q) PROVE pages'[p] = pages[p]
  BY <1>0, <1>1 DEF AskConsent
<1>2. ASSUME NEW r \in Requests, TakePending(r) \/ DenyPending(r) PROVE pages'[p] = pages[p]
  BY <1>0, <1>2 DEF TakePending, DenyPending
<1>3. ASSUME NEW q \in Pages, ExpirePending(q) PROVE pages'[p] = pages[p]
  BY <1>0, <1>3 DEF ExpirePending
<1>4. CASE Restart
  BY <1>0, <1>4 DEF Restart, Pending
<1>5. ASSUME NEW r \in Requests, Handle(r) PROVE pages'[p] = pages[p]
  <2>1. CASE UNCHANGED pages
    BY <2>1
  <2>2. ~UNCHANGED pages => TakePending(r) \/ DenyPending(r) \/ \E q \in Pages : AskConsent(r, q)
    BY <1>5 DEF Handle, CurrentUser, SendToLogin, Consented, RefusePending, PutConsent,
       PutConsentError, PutCodeError, IssueCode
  <2> QED
    BY <1>1, <1>2, <2>1, <2>2
<1>6. CASE World
  BY <1>3, <1>4, <1>6 DEF World, UpdateClient, SetUserDisabled
<1>7. CASE UNCHANGED vars
  BY <1>7 DEF vars
<1> QED
  BY <1>5, <1>6, <1>7 DEF Next, HandleAuthorize, HandleConsent

\* A row of the table of codes is never written twice.
LEMMA RowStays ==
  ASSUME TypeOK, [Next]_vars, NEW k \in Issued
  PROVE  k \in Issued' /\ codes'[k] = codes[k]
<1>1. codes \in [Codes -> CodeRow \cup {None}] /\ k \in Codes /\ codes[k] # None
  BY DEF TypeOK, Issued
<1>2. ASSUME NEW r \in Requests, NEW j \in Codes, IssueCode(r, j) PROVE codes'[k] = codes[k]
  BY <1>1, <1>2 DEF IssueCode, StoreCode
<1>3. ASSUME NEW r \in Requests, Handle(r) PROVE codes'[k] = codes[k]
  <2>1. ~UNCHANGED codes => \E j \in Codes : IssueCode(r, j)
    BY <1>3 DEF Handle, CurrentUser, SendToLogin, Consented, TakePending, DenyPending,
       RefusePending, PutConsent, PutConsentError, PutCodeError, AskConsent
  <2> QED
    BY <1>2, <2>1
<1>4. World => codes'[k] = codes[k]
  BY DEF World, UpdateClient, SetUserDisabled, ExpirePending, Restart
<1>5. UNCHANGED vars => codes'[k] = codes[k]
  BY DEF vars
<1>6. codes'[k] = codes[k]
  BY <1>3, <1>4, <1>5 DEF Next, HandleAuthorize, HandleConsent
<1> QED
  BY <1>1, <1>6 DEF Issued

\* The permission of a page that is not "taken" is in no handler and in no code,
\* and that of a page that became a code is in that code alone.
PermissionsRead ==
  \A p \in Pages :
    /\ pages[p].state # "taken" => Answers(p) = {} /\ CodesOf(p) = {}
    /\ CodesOf(p) # {} => Answers(p) = {}
    /\ \A j, k \in CodesOf(p) : j = k

LEMMA OnePermission == AuthorizeInv => PermissionsRead
<1> SUFFICES ASSUME AuthorizeInv, NEW p \in Pages
             PROVE  /\ pages[p].state # "taken" => Answers(p) = {} /\ CodesOf(p) = {}
                    /\ CodesOf(p) # {} => Answers(p) = {}
                    /\ \A j, k \in CodesOf(p) : j = k
  BY DEF PermissionsRead
<1>0. AnswersAreTaken /\ PageAnsweredOnce /\ p # None
  BY NoneAssumption DEF AuthorizeInv, AnswersAreTaken
<1>1. ASSUME NEW r \in Answers(p) PROVE pages[p].state = "taken" /\ CodesOf(p) = {}
  <2>1. r \in Answering /\ reqs[r].page = p
    BY DEF Answers
  <2> QED
    BY <1>0, <2>1 DEF AnswersAreTaken, CodesOf
<1>2. ASSUME NEW k \in CodesOf(p)
      PROVE  pages[p].state = "taken" /\ \A j \in CodesOf(p) : j = k
  <2>1. k \in Issued /\ codes[k].page = p
    BY DEF CodesOf
  <2> QED
    BY <1>0, <2>1 DEF PageAnsweredOnce, CodesOf
<1> QED
  BY <1>1, <1>2

LEMMA FinalStep ==
  ASSUME TypeOK, PermissionsRead', [Next]_vars, NEW p \in Pages
  PROVE  /\ pages[p].state \in {"taken", "denied", "lost"} => pages'[p] = pages[p]
         /\ pages[p].state \in {"denied", "lost"} => Answers(p)' = {} /\ CodesOf(p)' = {}
         /\ CodesOf(p) # {} => Answers(p)' = {} /\ CodesOf(p)' = CodesOf(p)
         /\ \A k \in CodesOf(p) : codes'[k] = codes[k]
<1>1. pages[p].state \in {"taken", "denied", "lost"} => pages'[p] = pages[p]
  BY SettledStays
<1>2. pages'[p].state # "taken" => Answers(p)' = {} /\ CodesOf(p)' = {}
  BY DEF PermissionsRead
<1>3. CodesOf(p)' # {} => Answers(p)' = {}
  BY DEF PermissionsRead
<1>4. \A j, k \in CodesOf(p)' : j = k
  BY DEF PermissionsRead
<1>5. ASSUME NEW k \in CodesOf(p) PROVE k \in CodesOf(p)' /\ codes'[k] = codes[k]
  <2>1. k \in Issued /\ codes[k].page = p
    BY DEF CodesOf
  <2>2. k \in Issued' /\ codes'[k] = codes[k]
    BY <2>1, RowStays
  <2> QED
    BY <2>1, <2>2 DEF CodesOf
<1>6. CodesOf(p) # {} => CodesOf(p)' = CodesOf(p)
  BY <1>4, <1>5
<1> QED
  BY <1>1, <1>2, <1>3, <1>5, <1>6

\* An answer is final: no later submission and no other handler changes what became
\* of a page, or the code it became (handleConsent, issueCodeRedirect).
THEOREM AnswersAreFinal == Spec => AnswerIsFinal
<1>1. TypeOK /\ PermissionsRead' /\ [Next]_vars =>
        \A p \in Pages :
          /\ pages[p].state \in {"taken", "denied", "lost"} => pages'[p] = pages[p]
          /\ pages[p].state \in {"denied", "lost"} => Answers(p)' = {} /\ CodesOf(p)' = {}
          /\ CodesOf(p) # {} => Answers(p)' = {} /\ CodesOf(p)' = CodesOf(p)
          /\ \A k \in CodesOf(p) : codes'[k] = codes[k]
  BY FinalStep
<1> QED
  BY <1>1, Typed, Invariance, OnePermission, PTL DEF Spec, AnswerIsFinal

-----------------------------------------------------------------------------
(* The consent pages of ConsentPage: the invariant makes every step a move *)
(* of the slips, each of one page.                                         *)
PageMoves(p) ==
  Consent!Stays(p) \/ Consent!Show(p) \/ Consent!Allow(p) \/ Consent!Grant(p) \/ Consent!Tear(p)

\* Where the slip of a page is, read from the state.
SlipsRead ==
  \A p \in Pages :
    /\ pages[p].state = "unused" => SlipsOf(p) = {Consent!Blank}
    /\ pages[p].state = "pending" => SlipsOf(p) = {Consent!OnPage(pages[p].auth)}
    /\ \A r \in Answers(p) : SlipsOf(p) = {Consent!InAnswer(reqs[r].auth, reqs[r].user)}
    /\ \A k \in CodesOf(p) : SlipsOf(p) = {Consent!InCode(codes[k].auth, codes[k].user, k)}
    /\ pages[p].state \notin {"unused", "pending"} /\ Answers(p) = {} /\ CodesOf(p) = {}
         => SlipsOf(p) = {}

LEMMA OneSlip == AuthorizeInv => SlipsRead
<1> SUFFICES ASSUME AuthorizeInv, NEW p \in Pages
             PROVE  /\ pages[p].state = "unused" => SlipsOf(p) = {Consent!Blank}
                    /\ pages[p].state = "pending" => SlipsOf(p) = {Consent!OnPage(pages[p].auth)}
                    /\ \A r \in Answers(p) :
                         SlipsOf(p) = {Consent!InAnswer(reqs[r].auth, reqs[r].user)}
                    /\ \A k \in CodesOf(p) :
                         SlipsOf(p) = {Consent!InCode(codes[k].auth, codes[k].user, k)}
                    /\ pages[p].state \notin {"unused", "pending"} /\ Answers(p) = {}
                       /\ CodesOf(p) = {} => SlipsOf(p) = {}
  BY DEF SlipsRead
<1>1. ASSUME NEW r \in Answers(p)
      PROVE  pages[p].state = "taken" /\ Answers(p) = {r} /\ CodesOf(p) = {}
  BY DEF Answers, CodesOf, AuthorizeInv, AnswersAreTaken
<1>2. ASSUME NEW k \in CodesOf(p)
      PROVE  pages[p].state = "taken" /\ Answers(p) = {} /\ CodesOf(p) = {k}
  BY NoneAssumption DEF Answers, CodesOf, AuthorizeInv, AnswersAreTaken, PageAnsweredOnce
<1>3. CASE Answers(p) = {} /\ CodesOf(p) = {}
  <2>1. SlipsOf(p) = CASE pages[p].state = "unused" -> {[place |-> "pad"]}
                       [] pages[p].state = "pending" -> {[place |-> "page", offer |-> pages[p].auth]}
                       [] OTHER -> {}
    BY <1>3 DEF SlipsOf
  <2> QED
    BY <1>3, <2>1 DEF Consent!Blank, Consent!OnPage
<1>4. ASSUME NEW r \in Answers(p)
      PROVE  SlipsOf(p) = {Consent!InAnswer(reqs[r].auth, reqs[r].user)}
  <2>1. SlipsOf(p) = {[place |-> "answer", offer |-> reqs[q].auth, user |-> reqs[q].user] : q \in {r}}
    BY <1>1 DEF SlipsOf
  <2> QED
    BY <2>1 DEF Consent!InAnswer
<1>5. ASSUME NEW k \in CodesOf(p)
      PROVE  SlipsOf(p) = {Consent!InCode(codes[k].auth, codes[k].user, k)}
  <2>1. SlipsOf(p) = {[place |-> "code", offer |-> codes[m].auth, user |-> codes[m].user,
                       code |-> m] : m \in {k}}
    BY <1>2 DEF SlipsOf
  <2> QED
    BY <2>1 DEF Consent!InCode
<1>6. Answers(p) # {} \/ CodesOf(p) # {} => pages[p].state = "taken"
  BY <1>1, <1>2
<1> QED
  BY <1>3, <1>4, <1>5, <1>6

\* The moves of a slip, by what becomes of it.
LEMMA Moved ==
  ASSUME NEW p \in Pages
  PROVE  /\ SlipsOf(p)' = SlipsOf(p) => PageMoves(p)
         /\ \A from, to : SlipsOf(p) = {from} /\ SlipsOf(p)' = {to} => Consent!Moves(p, from, to)
         /\ \A slip : SlipsOf(p) = {slip} /\ slip.place \in {"page", "answer"} /\ SlipsOf(p)' = {}
              => PageMoves(p)
BY DEF PageMoves, Consent!Stays, Consent!Moves, Consent!Tear

\* A page nobody touches keeps its slip.
LEMMA SlipKept ==
  ASSUME NEW p \in Pages, pages'[p] = pages[p],
         Answers(p)' = Answers(p),
         \A r \in Answers(p) : reqs'[r].auth = reqs[r].auth /\ reqs'[r].user = reqs[r].user,
         CodesOf(p)' = CodesOf(p), \A k \in CodesOf(p) : codes'[k] = codes[k]
  PROVE  PageMoves(p)
<1>1. {[place |-> "answer", offer |-> reqs'[r].auth, user |-> reqs'[r].user] : r \in Answers(p)'}
        = {[place |-> "answer", offer |-> reqs[r].auth, user |-> reqs[r].user] : r \in Answers(p)}
  OBVIOUS
<1>2. {[place |-> "code", offer |-> codes'[k].auth, user |-> codes'[k].user, code |-> k] :
         k \in CodesOf(p)'}
        = {[place |-> "code", offer |-> codes[k].auth, user |-> codes[k].user, code |-> k] :
             k \in CodesOf(p)}
  OBVIOUS
<1>3. SlipsOf(p)' = SlipsOf(p)
  BY <1>1, <1>2 DEF SlipsOf
<1> QED
  BY <1>3, Moved

\* So does one whose answer is not in the hands of the handler that steps.
LEMMA NotInHand ==
  ASSUME NEW r \in Requests, \A q \in Requests : q # r => reqs'[q] = reqs[q],
         NEW p \in Pages, r \notin Answers(p), r \notin Answers(p)',
         pages'[p] = pages[p], codes' = codes
  PROVE  PageMoves(p)
<1>1. Answers(p)' = Answers(p) /\ \A q \in Answers(p) : reqs'[q] = reqs[q]
  BY DEF Answers, Answering, Granting
<1>2. CodesOf(p)' = CodesOf(p)
  BY DEF CodesOf, Issued
<1> QED
  BY <1>1, <1>2, SlipKept

\* Whoever takes a page has its slip; the others keep theirs.
LEMMA TakeMoves ==
  ASSUME AuthorizeInv, SlipsRead, SlipsRead', NEW r \in Requests, TakePending(r), NEW p \in Pages
  PROVE  PageMoves(p)
<1>1. TypeOK
  BY DEF AuthorizeInv
<1>2. reqs[r] \in Posting
  BY <1>1, Shapes DEF TakePending
<1>3. reqs[r].page \in Pages /\ reqs[r].user \in Users
  BY <1>2 DEF Posting
<1> DEFINE auth == pages[reqs[r].page].auth
<1>4. /\ reqs'[r].pc = "allow" /\ reqs'[r].user = reqs[r].user
      /\ reqs'[r].auth = auth /\ reqs'[r].page = reqs[r].page
      /\ \A q \in Requests : q # r => reqs'[q] = reqs[q]
  BY <1>1 DEF TakePending, Allows, TypeOK
<1>5. CASE p = reqs[r].page
  <2>1. r \in Answers(p)'
    BY <1>3, <1>4, <1>5, NoneAssumption DEF Answers, Answering, Granting
  <2>2. SlipsOf(p) = {Consent!OnPage(auth)}
    BY <1>5 DEF TakePending, SlipsRead
  <2>3. SlipsOf(p)' = {Consent!InAnswer(auth, reqs[r].user)}
    BY <1>4, <2>1 DEF SlipsRead
  <2>4. auth \in PendingAuth
    BY <1>1, <1>3, Carried DEF TakePending
  <2> QED
    BY <1>3, <2>2, <2>3, <2>4, Moved DEF PageMoves, Consent!Allow
<1>6. CASE p # reqs[r].page
  <2>1. r \notin Answers(p) /\ r \notin Answers(p)'
    BY <1>4, <1>6 DEF Answers
  <2>2. pages'[p] = pages[p] /\ codes' = codes
    BY <1>1, <1>6 DEF TakePending, TypeOK
  <2> QED
    BY <1>4, <2>1, <2>2, NotInHand
<1> QED
  BY <1>5, <1>6

\* A page denied or out of time is torn.
LEMMA TornOnPage ==
  ASSUME SlipsRead, SlipsRead', NEW p \in Pages, pages[p].state = "pending",
         pages'[p].state \notin {"unused", "pending"}, Answers(p)' = {}, CodesOf(p)' = {}
  PROVE  PageMoves(p)
<1>1. SlipsOf(p) = {Consent!OnPage(pages[p].auth)} /\ SlipsOf(p)' = {}
  BY DEF SlipsRead
<1>2. Consent!OnPage(pages[p].auth).place = "page"
  BY DEF Consent!OnPage
<1> QED
  BY <1>1, <1>2, Moved

\* So is the slip of an answer that ends without a code.
LEMMA TornInAnswer ==
  ASSUME SlipsRead, SlipsRead', NEW p \in Pages, NEW r \in Answers(p),
         pages'[p].state \notin {"unused", "pending"}, Answers(p)' = {}, CodesOf(p)' = {}
  PROVE  PageMoves(p)
<1>1. SlipsOf(p) = {Consent!InAnswer(reqs[r].auth, reqs[r].user)} /\ SlipsOf(p)' = {}
  BY DEF SlipsRead
<1>2. Consent!InAnswer(reqs[r].auth, reqs[r].user).place = "answer"
  BY DEF Consent!InAnswer
<1> QED
  BY <1>1, <1>2, Moved

\* What is with a page whose slip is on it, or in an answer.
LEMMA Alone ==
  ASSUME AuthorizeInv, NEW p \in Pages
  PROVE  /\ pages[p].state # "taken" => Answers(p) = {} /\ CodesOf(p) = {}
         /\ \A r \in Answers(p) : /\ Answers(p) = {r} /\ CodesOf(p) = {}
                                  /\ pages[p].state = "taken"
BY NoneAssumption DEF AuthorizeInv, AnswersAreTaken, PageAnsweredOnce, Answers, CodesOf

LEMMA DenyMoves ==
  ASSUME AuthorizeInv, SlipsRead, SlipsRead', NEW r \in Requests, DenyPending(r), NEW p \in Pages
  PROVE  PageMoves(p)
<1>1. TypeOK
  BY DEF AuthorizeInv
<1>2. /\ reqs'[r].pc = "idle" /\ reqs[r].pc = "take"
      /\ \A q \in Requests : q # r => reqs'[q] = reqs[q]
  BY <1>1, EndsLeaves DEF DenyPending
<1>3. r \notin Answers(p) /\ r \notin Answers(p)'
  BY <1>2 DEF Answers, Answering, Granting
<1>4. CASE p = reqs[r].page
  <2>1. pages[p].state = "pending" /\ pages'[p].state = "denied"
    BY <1>1, <1>4 DEF DenyPending, TypeOK
  <2>2. Answers(p) = {} /\ CodesOf(p) = {}
    BY <2>1, Alone
  <2>3. Answers(p)' = {}
    BY <1>2, <1>3, <2>2 DEF Answers, Answering, Granting
  <2>4. CodesOf(p)' = {}
    BY <2>2 DEF DenyPending, CodesOf, Issued
  <2> QED
    BY <2>1, <2>3, <2>4, TornOnPage
<1>5. CASE p # reqs[r].page
  <2>1. pages'[p] = pages[p] /\ codes' = codes
    BY <1>1, <1>5 DEF DenyPending, TypeOK
  <2> QED
    BY <1>2, <1>3, <2>1, NotInHand
<1> QED
  BY <1>4, <1>5

LEMMA AskMoves ==
  ASSUME AuthorizeInv, SlipsRead, SlipsRead', NEW r \in Requests, NEW o \in Pages,
         AskConsent(r, o), NEW p \in Pages
  PROVE  PageMoves(p)
<1>1. TypeOK
  BY DEF AuthorizeInv
<1>2. /\ reqs'[r].pc = "idle" /\ reqs[r].pc = "consented" /\ reqs[r].auth \in PendingAuth
      /\ \A q \in Requests : q # r => reqs'[q] = reqs[q]
  BY <1>1, EndsLeaves, Carried DEF AskConsent
<1>3. CASE p = o
  <2>1. pages'[p].state = "pending" /\ pages'[p].auth = reqs[r].auth
    BY <1>1, <1>3 DEF AskConsent, TypeOK
  <2>2. SlipsOf(p) = {Consent!Blank}
    BY <1>3 DEF AskConsent, SlipsRead
  <2>3. SlipsOf(p)' = {Consent!OnPage(reqs[r].auth)}
    BY <2>1 DEF SlipsRead
  <2> QED
    BY <1>2, <2>2, <2>3, Moved DEF PageMoves, Consent!Show
<1>4. CASE p # o
  <2>1. r \notin Answers(p) /\ r \notin Answers(p)'
    BY <1>2 DEF Answers, Answering, Granting
  <2>2. pages'[p] = pages[p] /\ codes' = codes
    BY <1>1, <1>4 DEF AskConsent, TypeOK
  <2> QED
    BY <1>2, <2>1, <2>2, NotInHand
<1> QED
  BY <1>3, <1>4

\* The answer to a page ends in a code, and then carries what the page showed.
LEMMA IssueMoves ==
  ASSUME AuthorizeInv, SlipsRead, SlipsRead', NEW r \in Requests, NEW k \in Codes,
         IssueCode(r, k), NEW p \in Pages
  PROVE  PageMoves(p)
<1>1. TypeOK
  BY DEF AuthorizeInv
<1>2. /\ reqs'[r].pc = "idle" /\ reqs[r].pc = "code" /\ pages' = pages
      /\ \A q \in Requests : q # r => reqs'[q] = reqs[q]
  BY <1>1, EndsLeaves DEF IssueCode
<1>3. /\ reqs[r].auth \in PendingAuth /\ reqs[r].user \in Users
      /\ reqs[r].page \in Pages \cup {None}
  BY <1>1, <1>2, Carried
<1>4. reqs[r] \in Asking \cup Allowing
  BY <1>1, <1>2, Shapes
<1> DEFINE row == [user |-> reqs[r].user, auth |-> reqs[r].auth, page |-> reqs[r].page]
<1>5. /\ codes[k] = None /\ codes'[k] = row
      /\ \A m \in Codes : m # k => codes'[m] = codes[m]
  BY <1>1 DEF IssueCode, StoreCode, TypeOK
<1>6. r \notin Answers(p)'
  BY <1>2 DEF Answers, Answering, Granting
<1>7. CASE r \in Answers(p)
  <2>1. reqs[r].page = p
    BY <1>7 DEF Answers
  <2>2. SlipsOf(p) = {Consent!InAnswer(reqs[r].auth, reqs[r].user)}
    BY <1>7 DEF SlipsRead
  <2>3. k \in Issued'
    <3>1. row \in CodeRow
      BY <1>3 DEF CodeRow
    <3> QED
      BY <1>5, <3>1, NoneAssumption DEF Issued
  <2>4. k \in CodesOf(p)'
    BY <1>5, <2>1, <2>3 DEF CodesOf
  <2>5. SlipsOf(p)' = {Consent!InCode(reqs[r].auth, reqs[r].user, k)}
    BY <1>5, <2>4 DEF SlipsRead
  <2> QED
    BY <1>3, <2>2, <2>5, Moved DEF PageMoves, Consent!Grant
<1>8. CASE r \notin Answers(p)
  <2>1. reqs[r].page # p
    BY <1>2, <1>8, NoneAssumption DEF Answers, Answering, Granting
  <2>2. Answers(p)' = Answers(p) /\ \A q \in Answers(p) : reqs'[q] = reqs[q]
    BY <1>2, <1>6, <1>8 DEF Answers, Answering, Granting
  <2>3. CodesOf(p)' = CodesOf(p) /\ \A m \in CodesOf(p) : codes'[m] = codes[m]
    BY <1>5, <2>1 DEF CodesOf, Issued
  <2> QED
    BY <1>2, <2>2, <2>3, SlipKept
<1> QED
  BY <1>7, <1>8

LEMMA CodeErrorMoves ==
  ASSUME AuthorizeInv, SlipsRead, SlipsRead', NEW r \in Requests, PutCodeError(r), NEW p \in Pages
  PROVE  PageMoves(p)
<1>1. TypeOK
  BY DEF AuthorizeInv
<1>2. reqs'[r].pc = "idle" /\ \A q \in Requests : q # r => reqs'[q] = reqs[q]
  BY <1>1, EndsLeaves DEF PutCodeError
<1>3. r \notin Answers(p)'
  BY <1>2 DEF Answers, Answering, Granting
<1>4. CASE r \in Answers(p)
  <2>1. pages[p].state = "taken" /\ Answers(p) = {r} /\ CodesOf(p) = {}
    BY <1>4, Alone
  <2>2. Answers(p)' = {} /\ CodesOf(p)' = {} /\ pages'[p].state = "taken"
    BY <1>2, <1>3, <2>1
    DEF PutCodeError, Answers, Answering, Granting, CodesOf, Issued
  <2> QED
    BY <1>4, <2>2, TornInAnswer
<1>5. CASE r \notin Answers(p)
  BY <1>2, <1>3, <1>5, NotInHand DEF PutCodeError
<1> QED
  BY <1>4, <1>5

\* The decision is stored, or not: the answer goes on.
LEMMA StoreMoves ==
  ASSUME AuthorizeInv, NEW r \in Requests, PutConsent(r) \/ PutConsentError(r), NEW p \in Pages
  PROVE  PageMoves(p)
<1>1. TypeOK
  BY DEF AuthorizeInv
<1>2. reqs[r].pc = "allow" /\ reqs[r] # Idle /\ Goes(r, "code")
  BY <1>1, Shapes DEF PutConsent, PutConsentError
<1>3. /\ reqs'[r].pc = "code" /\ reqs'[r].user = reqs[r].user
      /\ reqs'[r].page = reqs[r].page /\ reqs'[r].auth = reqs[r].auth
      /\ \A q \in Requests : q # r => reqs'[q] = reqs[q]
  BY <1>1, <1>2, GoesLeaves
<1>4. /\ Answers(p)' = Answers(p)
      /\ \A q \in Answers(p) : reqs'[q].auth = reqs[q].auth /\ reqs'[q].user = reqs[q].user
  BY <1>2, <1>3 DEF Answers, Answering, Granting
<1>5. pages' = pages /\ codes' = codes
  BY DEF PutConsent, PutConsentError
<1>6. CodesOf(p)' = CodesOf(p)
  BY <1>5 DEF CodesOf, Issued
<1> QED
  BY <1>4, <1>5, <1>6, SlipKept

LEMMA HandleMoves ==
  ASSUME AuthorizeInv, SlipsRead, SlipsRead', NEW r \in Requests, Handle(r), NEW p \in Pages
  PROVE  PageMoves(p)
<1>1. TypeOK
  BY DEF AuthorizeInv
<1>2. CASE CurrentUser(r)
  <2>1. reqs[r] # Idle
    BY <1>1, <1>2, Shapes DEF CurrentUser
  <2>2. /\ reqs'[r].pc \in {"consented", "take"} /\ reqs[r].pc \in {"user", "poster"}
        /\ \A q \in Requests : q # r => reqs'[q] = reqs[q]
    BY <1>1, <1>2, <2>1, GoesLeaves DEF CurrentUser
  <2>3. r \notin Answers(p) /\ r \notin Answers(p)'
    BY <2>2 DEF Answers, Answering, Granting
  <2> QED
    BY <1>2, <2>2, <2>3, NotInHand DEF CurrentUser
<1>3. CASE SendToLogin(r) \/ RefusePending(r)
  <2>1. /\ reqs'[r].pc = "idle" /\ reqs[r].pc \in {"user", "poster", "take"}
        /\ \A q \in Requests : q # r => reqs'[q] = reqs[q]
    BY <1>1, <1>3, EndsLeaves DEF SendToLogin, RefusePending
  <2>2. r \notin Answers(p) /\ r \notin Answers(p)'
    BY <2>1 DEF Answers, Answering, Granting
  <2> QED
    BY <1>3, <2>1, <2>2, NotInHand DEF SendToLogin, RefusePending
<1>4. CASE Consented(r)
  <2>1. reqs[r].page = None /\ reqs[r] # Idle
    BY <1>1, <1>4, Shapes DEF Consented, Asking
  <2>2. reqs'[r].page = None /\ \A q \in Requests : q # r => reqs'[q] = reqs[q]
    BY <1>1, <1>4, <2>1, GoesLeaves DEF Consented
  <2>3. r \notin Answers(p) /\ r \notin Answers(p)'
    BY <2>1, <2>2 DEF Answers, Answering
  <2> QED
    BY <1>4, <2>2, <2>3, NotInHand DEF Consented
<1>5. ASSUME NEW o \in Pages, AskConsent(r, o) PROVE PageMoves(p)
  BY <1>5, AskMoves
<1>6. ASSUME NEW k \in Codes, IssueCode(r, k) PROVE PageMoves(p)
  BY <1>6, IssueMoves
<1> QED
  BY <1>2, <1>3, <1>4, <1>5, <1>6, TakeMoves, DenyMoves, StoreMoves, CodeErrorMoves DEF Handle

\* A restart tears what is on a page or in an answer, of every page at once.
LEMMA RestartMoves ==
  ASSUME AuthorizeInv, SlipsRead, SlipsRead', Restart, NEW p \in Pages
  PROVE  PageMoves(p)
<1>1. Answers(p)' = {}
  BY DEF Restart, Answers, Answering, Granting, Idle
<1>2. CodesOf(p)' = CodesOf(p) /\ codes' = codes
  BY DEF Restart, CodesOf, Issued
<1>3. CASE pages[p] \in Pending
  <2>1. pages[p].state = "pending"
    BY <1>3 DEF Pending
  <2>2. pages'[p].state = "lost"
    BY <1>3 DEF Restart
  <2>3. CodesOf(p)' = {}
    BY <1>2, <2>1, Alone
  <2> QED
    BY <1>1, <2>1, <2>2, <2>3, TornOnPage
<1>4. CASE pages[p] \notin Pending
  <2>1. pages'[p] = pages[p]
    BY <1>4 DEF Restart
  <2>2. ASSUME NEW r \in Answers(p) PROVE PageMoves(p)
    <3>1. pages[p].state = "taken" /\ CodesOf(p) = {}
      BY Alone
    <3> QED
      BY <1>1, <1>2, <2>1, <3>1, TornInAnswer
  <2>3. CASE Answers(p) = {}
    BY <1>1, <1>2, <2>1, <2>3, SlipKept
  <2> QED
    BY <2>2, <2>3
<1> QED
  BY <1>3, <1>4

LEMMA WorldMoves ==
  ASSUME AuthorizeInv, SlipsRead, SlipsRead', World, NEW p \in Pages
  PROVE  PageMoves(p)
<1>1. TypeOK
  BY DEF AuthorizeInv
<1>2. ASSUME NEW c \in Clients, NEW uris \in Edits, UpdateClient(c, uris) PROVE PageMoves(p)
  BY <1>2, SlipKept DEF UpdateClient, Answers, Answering, Granting, CodesOf, Issued
<1>3. ASSUME NEW u \in Users, SetUserDisabled(u) PROVE PageMoves(p)
  <2>1. \A q \in Requests : reqs[q] = Idle => reqs'[q] = Idle
    BY <1>3 DEF SetUserDisabled
  <2>2. ASSUME NEW q \in Requests, reqs[q] \in Asking \cup Allowing
        PROVE  /\ reqs'[q].pc = reqs[q].pc /\ reqs'[q].page = reqs[q].page
               /\ reqs'[q].user = reqs[q].user /\ reqs'[q].auth = reqs[q].auth
    BY <1>3, <2>2 DEF SetUserDisabled, Asking, Allowing
  <2>3. ASSUME NEW q \in Requests, reqs[q] \in Posting
        PROVE  reqs'[q].pc = reqs[q].pc /\ reqs[q].pc \notin {"allow", "code"}
    BY <1>3, <2>3 DEF SetUserDisabled, Posting
  <2>4. Answers(p)' = Answers(p)
    BY <1>1, <2>1, <2>2, <2>3, Shapes DEF Answers, Answering, Granting
  <2>5. \A q \in Answers(p) : reqs'[q].auth = reqs[q].auth /\ reqs'[q].user = reqs[q].user
    BY <1>1, <2>2, Shapes DEF Answers, Answering, Granting
  <2> QED
    BY <1>3, <2>4, <2>5, SlipKept DEF SetUserDisabled, CodesOf, Issued
<1>4. ASSUME NEW o \in Pages, ExpirePending(o) PROVE PageMoves(p)
  <2>1. /\ Answers(p)' = Answers(p) /\ CodesOf(p)' = CodesOf(p)
        /\ reqs' = reqs /\ codes' = codes
    BY <1>4 DEF ExpirePending, Answers, Answering, Granting, CodesOf, Issued
  <2>2. CASE p = o
    <3>1. pages[p].state = "pending" /\ pages'[p].state = "lost"
      BY <1>1, <1>4, <2>2 DEF ExpirePending, TypeOK
    <3>2. Answers(p) = {} /\ CodesOf(p) = {}
      BY <3>1, Alone
    <3> QED
      BY <2>1, <3>1, <3>2, TornOnPage
  <2>3. CASE p # o
    <3>1. pages'[p] = pages[p]
      BY <1>1, <1>4, <2>3 DEF ExpirePending, TypeOK
    <3> QED
      BY <2>1, <3>1, SlipKept
  <2> QED
    BY <2>2, <2>3
<1> QED
  BY <1>2, <1>3, <1>4, RestartMoves DEF World

\* Every step of the handlers moves every slip as ConsentPage lets it move.
LEMMA StepMoves ==
  ASSUME AuthorizeInv, SlipsRead, SlipsRead', [Next]_vars, NEW p \in Pages
  PROVE  PageMoves(p)
<1>1. TypeOK
  BY DEF AuthorizeInv
<1>2. ASSUME NEW r \in Requests, NEW u \in Users, NEW c \in Clients, NEW uri \in URIs,
             NEW scopes \in SUBSET Scopes,
             HandleAuthorize(r, u, [client |-> c, uri |-> uri, scopes |-> scopes])
      PROVE  PageMoves(p)
  <2>1. /\ reqs'[r].pc = "user" /\ reqs[r].pc = "idle"
        /\ \A q \in Requests : q # r => reqs'[q] = reqs[q]
    BY <1>1, <1>2 DEF HandleAuthorize, TypeOK, Idle
  <2>2. r \notin Answers(p) /\ r \notin Answers(p)'
    BY <2>1 DEF Answers, Answering, Granting
  <2> QED
    BY <1>2, <2>1, <2>2, NotInHand DEF HandleAuthorize
<1>3. ASSUME NEW r \in Requests, NEW u \in Users, NEW o \in Pages, HandleConsent(r, u, o)
      PROVE  PageMoves(p)
  <2>1. /\ reqs'[r].pc = "poster" /\ reqs[r].pc = "idle"
        /\ \A q \in Requests : q # r => reqs'[q] = reqs[q]
    BY <1>1, <1>3 DEF HandleConsent, TypeOK, Idle
  <2>2. r \notin Answers(p) /\ r \notin Answers(p)'
    BY <2>1 DEF Answers, Answering, Granting
  <2> QED
    BY <1>3, <2>1, <2>2, NotInHand DEF HandleConsent
<1>4. CASE UNCHANGED vars
  BY <1>4, SlipKept DEF vars, Answers, Answering, Granting, CodesOf, Issued
<1> QED
  BY <1>2, <1>3, <1>4, HandleMoves, WorldMoves DEF Next

\* GET /authorize and POST /consent implement the abstract consent pages: what a
\* page shows is answered once, by one user, and ends in one code for that user
\* and exactly that, or in none.
THEOREM ConsentRefinement == Spec => ConsentProtocol
<1> DEFINE slipsBar == [p \in Pages |-> SlipsOf(p)]
<1>1. Init => Consent!Init
  <2> SUFFICES ASSUME Init, NEW p \in Pages PROVE SlipsOf(p) = {Consent!Blank}
    BY DEF Consent!Init
  <2>1. SlipsRead
    BY InitInv, OneSlip
  <2>2. pages[p].state = "unused"
    BY DEF Init
  <2> QED
    BY <2>1, <2>2 DEF SlipsRead
<1>2. SlipsRead /\ SlipsRead' /\ AuthorizeInv /\ [Next]_vars => [Consent!Next]_slipsBar
  BY StepMoves DEF Consent!Next, PageMoves
<1> QED
  BY <1>1, <1>2, Invariance, OneSlip, PTL DEF Spec, ConsentProtocol, Consent!Spec
=============================================================================
