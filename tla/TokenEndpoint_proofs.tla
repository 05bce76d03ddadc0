----------------------- MODULE TokenEndpoint_proofs ------------------------
(***************************************************************************)
(* Theorems about the token endpoint, for every number of requests,        *)
(* clients, codes, tokens and families, and any number of failures.        *)
(***************************************************************************)
EXTENDS TokenEndpoint, TLAPS

USE FamiliesAssumption, SourcesAssumption, NoRowAssumption, NatAssumption

(* The local variables a handler can have at each of its calls. *)
LEMMA LocalTypes ==
  ASSUME TypeOK, NEW r \in Requests
  PROVE  /\ reqs[r].pc = "take_code" => reqs[r] \in CodeRequest
         /\ reqs[r].pc = "take_refresh" => reqs[r] \in RefreshRequest
         /\ reqs[r].pc \in {"put_access", "put_refresh"} => reqs[r] \in Minting
         /\ reqs[r].pc = "respond" => reqs[r] \in Answering
         /\ reqs[r].pc \in {"revoke", "audit_revoke"} => reqs[r] \in Revoking
  BY DEF TypeOK, Idle, CodeRequest, RefreshRequest, Minting, Answering, Revoking

(* The store's writes keep the types of its tables. *)
LEMMA MarkUsedType ==
  ASSUME TypeOK, NEW k \in Codes, Redeemable(k)
  PROVE  MarkUsed(k) \in [Codes -> CodeRow \cup {NoRow}]
<1>1. codes[k] \in CodeRow
  BY DEF TypeOK, Redeemable
<1>2. [codes[k] EXCEPT !.used = TRUE] \in CodeRow
  BY <1>1 DEF CodeRow
<1>3. QED
  BY <1>2 DEF TypeOK, MarkUsed

LEMMA MarkRevokedType ==
  ASSUME TypeOK, NEW t \in RefreshTokens, Live(t)
  PROVE  MarkRevoked(t) \in [RefreshTokens -> RefreshRow \cup {NoRow}]
<1>1. refresh[t] \in RefreshRow
  BY DEF TypeOK, Live
<1>2. [refresh[t] EXCEPT !.revoked = TRUE] \in RefreshRow
  BY <1>1 DEF RefreshRow
<1>3. QED
  BY <1>2 DEF TypeOK, MarkRevoked

LEMMA FamilyRevokedType ==
  ASSUME TypeOK, NEW f
  PROVE  FamilyRevoked(f) \in [RefreshTokens -> RefreshRow \cup {NoRow}]
<1>1. ASSUME NEW t \in RefreshTokens, refresh[t] # NoRow
      PROVE  [refresh[t] EXCEPT !.revoked = TRUE] \in RefreshRow
  BY <1>1 DEF TypeOK, RefreshRow
<1>2. QED
  BY <1>1 DEF TypeOK, FamilyRevoked

LEMMA PutRefreshType ==
  ASSUME TypeOK, NEW m \in Minting, NEW t \in RefreshTokens, NEW f \in Families,
         PutRefresh(m, t, f)
  PROVE  refresh' \in [RefreshTokens -> RefreshRow \cup {NoRow}]
  BY DEF TypeOK, PutRefresh, Minting, RefreshRow

(***************************************************************************)
(* Every step keeps the types.                                             *)
(***************************************************************************)
LEMMA TypeStep == TypeOK /\ [Next]_vars => TypeOK'
<1> SUFFICES ASSUME TypeOK, [Next]_vars PROVE TypeOK'
  OBVIOUS
<1> USE DEF TypeOK, Goto, Fault
<1>1. CASE Tick
  BY <1>1 DEF Tick
<1>2. ASSUME NEW k \in Codes, NEW c \in Clients, NEW g \in Grants, NEW u \in Redirects,
             NEW v \in Verifiers, IssueCode(k, c, g, u, v)
      PROVE  TypeOK'
  BY <1>2 DEF IssueCode, CodeRow
<1>3. ASSUME NEW r \in Requests, Ask(r) PROVE TypeOK'
  BY <1>3 DEF Ask, AskWithCode, AskWithRefresh, CodeRequest, RefreshRequest
<1>4. ASSUME NEW r \in Requests, Handle(r) PROVE TypeOK'
  <2>1. CASE TakeCode(r)
    <3>1. reqs[r] \in CodeRequest /\ codes[reqs[r].code] \in CodeRow
      BY <2>1, LocalTypes DEF TakeCode, Redeemable, CodeRequest
    <3>2. codes' \in [Codes -> CodeRow \cup {NoRow}]
      BY <2>1, <3>1, MarkUsedType DEF TakeCode, CodeRequest
    <3>3. reqs'[r] \in {Idle} \cup Minting
      BY <2>1, <3>1 DEF TakeCode, CodeRequest, CodeRow, Minting, Sources
    <3>4. QED
      BY <2>1, <3>2, <3>3 DEF TakeCode
  <2>2. CASE RefuseCode(r)
    BY <2>2 DEF RefuseCode
  <2>3. CASE TakeRefresh(r)
    <3>1. reqs[r] \in RefreshRequest /\ refresh[reqs[r].token] \in RefreshRow
      BY <2>3, LocalTypes DEF TakeRefresh, Live, RefreshRequest
    <3>2. refresh' \in [RefreshTokens -> RefreshRow \cup {NoRow}]
      BY <2>3, <3>1, MarkRevokedType DEF TakeRefresh, RefreshRequest
    <3>3. reqs'[r] \in Minting \cup Revoking
      BY <2>3, <3>1 DEF TakeRefresh, RefreshRequest, RefreshRow, Minting, Revoking, Sources
    <3>4. QED
      BY <2>3, <3>2, <3>3 DEF TakeRefresh
  <2>4. CASE DetectReuse(r)
    BY <2>4, LocalTypes DEF DetectReuse, RefreshRequest, RefreshRow, Revoking
  <2>5. CASE RevokeFamily(r)
    BY <2>5, LocalTypes, FamilyRevokedType DEF RevokeFamily, Revoking
  <2>6. CASE AuditRevoke(r)
    BY <2>6, LocalTypes DEF AuditRevoke, AuditEvent, Revoking
  <2>7. CASE WriteAccess(r)
    BY <2>7, LocalTypes DEF WriteAccess, PutAccess, AccessRow, Minting, Answer, Answering
  <2>8. ASSUME NEW t \in RefreshTokens, NEW f \in Families, WriteRefresh(r, t, f)
        PROVE  TypeOK'
    BY <2>8, LocalTypes, PutRefreshType DEF WriteRefresh, Minting, Answer, Answering
  <2>9. CASE Respond(r)
    BY <2>9, LocalTypes DEF Respond, AuditEvent, Answering
  <2>10. QED
    BY <1>4, <2>1, <2>2, <2>3, <2>4, <2>5, <2>6, <2>7, <2>8, <2>9 DEF Handle
<1>5. ASSUME NEW r \in Requests, Fail(r) PROVE TypeOK'
  <2>1. CASE TakeCodeError(r)
    BY <2>1, LocalTypes, MarkUsedType DEF TakeCodeError, CodeRequest
  <2>2. CASE TakeRefreshError(r)
    <3>1. reqs[r] \in RefreshRequest
      BY <2>2, LocalTypes DEF TakeRefreshError
    <3>2. refresh' \in [RefreshTokens -> RefreshRow \cup {NoRow}]
      BY <2>2, <3>1, MarkRevokedType DEF TakeRefreshError, RefreshRequest
    <3>3. reqs'[r] \in {Idle} \cup Revoking
      BY <2>2, <3>1 DEF TakeRefreshError, RefreshRequest, RefreshRow, Revoking
    <3>4. QED
      BY <2>2, <3>2, <3>3 DEF TakeRefreshError
  <2>3. CASE RevokeFamilyError(r)
    BY <2>3, LocalTypes DEF RevokeFamilyError, Revoking
  <2>4. CASE WriteAccessError(r)
    BY <2>4, LocalTypes DEF WriteAccessError, PutAccess, AccessRow, Minting
  <2>5. ASSUME NEW t \in RefreshTokens, NEW f \in Families, WriteRefreshError(r, t, f)
        PROVE  TypeOK'
    BY <2>5, LocalTypes, PutRefreshType DEF WriteRefreshError
  <2>6. CASE LoseAnswer(r)
    BY <2>6 DEF LoseAnswer
  <2>7. QED
    BY <1>5, <2>1, <2>2, <2>3, <2>4, <2>5, <2>6 DEF Fail
<1>6. CASE Restart
  BY <1>6 DEF Restart
<1>7. CASE UNCHANGED vars
  BY <1>7 DEF vars
<1>8. QED
  BY <1>1, <1>2, <1>3, <1>4, <1>5, <1>6, <1>7 DEF Next

LEMMA TypeInit == Init => TypeOK
  BY DEF Init, TypeOK, Sources

(* Every variable, and every local variable of a handler, has its type. *)
THEOREM TypeCorrect == Spec => []TypeOK
  BY TypeInit, TypeStep, PTL DEF Spec

-----------------------------------------------------------------------------
(***************************************************************************)
(* The rows of the store only advance: a code is stored unused and then    *)
(* used, a refresh token is revoked; nothing else of a row ever changes.   *)
(***************************************************************************)
CodesAdvance ==
  \A k \in Codes :
    \/ codes'[k] = codes[k]
    \/ codes[k] = NoRow /\ codes'[k] \in CodeRow /\ ~codes'[k].used
    \/ codes[k] # NoRow /\ codes'[k] = [codes[k] EXCEPT !.used = TRUE]

TokensAdvance ==
  \A t \in RefreshTokens :
    \/ refresh'[t] = refresh[t]
    \/ refresh[t] # NoRow /\ refresh'[t] = [refresh[t] EXCEPT !.revoked = TRUE]

LEMMA TokensKeep ==
  ASSUME TypeOK, TokensAdvance, NEW t \in RefreshTokens
  PROVE  /\ (refresh'[t] # NoRow) <=> (refresh[t] # NoRow)
         /\ refresh[t] # NoRow =>
              /\ FamilyOf(t)' = FamilyOf(t)
              /\ refresh'[t].client = refresh[t].client
              /\ refresh'[t].grant = refresh[t].grant
              /\ refresh[t].revoked => refresh'[t].revoked
         /\ Live(t)' => Live(t)
<1>1. CASE refresh'[t] = refresh[t]
  BY <1>1 DEF Live, FamilyOf
<1>2. CASE refresh[t] # NoRow /\ refresh'[t] = [refresh[t] EXCEPT !.revoked = TRUE]
  <2>1. refresh[t] \in RefreshRow
    BY <1>2 DEF TypeOK
  <2>2. refresh'[t] \in RefreshRow
    BY <1>2, <2>1 DEF RefreshRow
  <2>3. QED
    BY <1>2, <2>1, <2>2 DEF RefreshRow, Live, FamilyOf
<1>3. QED
  BY <1>1, <1>2 DEF TokensAdvance

LEMMA CodesKeep ==
  ASSUME TypeOK, CodesAdvance, NEW k \in Codes
  PROVE  /\ codes[k] # NoRow =>
              /\ codes'[k] # NoRow
              /\ codes'[k].client = codes[k].client
              /\ codes'[k].grant = codes[k].grant
         /\ Spent(k) => Spent(k)'
<1>1. CASE codes'[k] = codes[k]
  BY <1>1 DEF Spent
<1>2. CASE codes[k] = NoRow
  BY <1>2 DEF Spent
<1>3. CASE codes[k] # NoRow /\ codes'[k] = [codes[k] EXCEPT !.used = TRUE]
  <2>1. codes[k] \in CodeRow
    BY <1>3 DEF TypeOK
  <2>2. codes'[k] \in CodeRow
    BY <1>3, <2>1 DEF CodeRow
  <2>3. QED
    BY <1>3, <2>1, <2>2 DEF CodeRow, Spent
<1>4. QED
  BY <1>1, <1>2, <1>3 DEF CodesAdvance

(* What a source was issued for outlives it, and it stays spent. *)
LEMMA SourcesKeep ==
  ASSUME TypeOK, TokensAdvance, CodesAdvance, NEW s \in Sources
  PROVE  /\ SourceSpent(s) => SourceSpent(s)'
         /\ SourceRow(s) # NoRow =>
              /\ SourceRow(s)' # NoRow
              /\ SourceRow(s)'.client = SourceRow(s).client
              /\ SourceRow(s)'.grant = SourceRow(s).grant
              /\ s \in RefreshTokens => FamilyOf(s)' = FamilyOf(s)
<1>1. CASE s \in Codes
  BY <1>1, CodesKeep DEF SourceSpent, SourceRow
<1>2. CASE s \notin Codes
  <2>1. s \in RefreshTokens
    BY <1>2 DEF Sources
  <2>2. QED
    BY <1>2, <2>1, TokensKeep DEF SourceSpent, SourceRow, FamilyOf
<1>3. QED
  BY <1>1, <1>2

LEMMA SpentHasRow ==
  ASSUME TypeOK, NEW s \in Sources, SourceSpent(s)
  PROVE  SourceRow(s) # NoRow
  BY DEF SourceSpent, SourceRow, Spent

(* The parts of the invariant that speak of the tables alone survive every advance. *)
LEMMA TablesStep ==
  ASSUME EndpointInv, TypeOK', TokensAdvance, CodesAdvance
  PROVE  /\ OneLiveTokenPerFamily'
         /\ UNCHANGED access => ChainKeepsGrant'
         /\ UNCHANGED minted => \A s \in Sources : minted'[s] > 0 => SourceSpent(s)'
<1>1. TypeOK
  BY DEF EndpointInv
<1>2. OneLiveTokenPerFamily'
  <2>1. ASSUME NEW t \in RefreshTokens, Live(t)' PROVE Live(t) /\ FamilyOf(t)' = FamilyOf(t)
    <3>1. Live(t)
      BY <1>1, <2>1, TokensKeep
    <3>2. refresh[t] # NoRow
      BY <3>1 DEF Live
    <3>3. QED
      BY <1>1, <3>1, <3>2, TokensKeep
  <2>2. QED
    BY <2>1 DEF EndpointInv, OneLiveTokenPerFamily
<1>3. ASSUME UNCHANGED access PROVE ChainKeepsGrant'
  <2>1. ASSUME NEW a \in access'
        PROVE  LET row == SourceRow(a.src)'
               IN  row # NoRow /\ a.client = row.client /\ a.grant = row.grant
    <3>1. a \in access /\ a.src \in Sources
      BY <1>1, <1>3, <2>1 DEF TypeOK, AccessRow
    <3>2. LET row == SourceRow(a.src)
          IN  row # NoRow /\ a.client = row.client /\ a.grant = row.grant
      BY <3>1 DEF EndpointInv, ChainKeepsGrant, SourceRow
    <3>3. QED
      BY <1>1, <3>1, <3>2, SourcesKeep
  <2>2. ASSUME NEW t \in RefreshTokens, NEW u \in RefreshTokens,
               refresh'[t] # NoRow, refresh'[u] # NoRow, FamilyOf(t)' = FamilyOf(u)'
        PROVE  /\ refresh'[t].client = refresh'[u].client
               /\ refresh'[t].grant = refresh'[u].grant
               /\ refresh'[t].grant \in Offline
    BY <1>1, <2>2, TokensKeep DEF EndpointInv, ChainKeepsGrant, FamilyOf
  <2>3. QED
    BY <2>1, <2>2 DEF ChainKeepsGrant, SourceRow
<1>4. ASSUME UNCHANGED minted, NEW s \in Sources, minted'[s] > 0 PROVE SourceSpent(s)'
  BY <1>1, <1>4, SourcesKeep DEF EndpointInv, MintedAreSpent
<1>5. QED
  BY <1>2, <1>3, <1>4

-----------------------------------------------------------------------------
(***************************************************************************)
(* What the steps of the endpoint do to the requests that mint.  First the *)
(* steps that start no minting: requests may stop, rows may advance.       *)
(***************************************************************************)
LEMMA MintersKeep ==
  ASSUME EndpointInv, TokensAdvance, CodesAdvance, NEW r \in Requests,
         MintingNow(r), reqs'[r] = reqs[r]
  PROVE  CarriesSource(reqs[r])'
<1>1. TypeOK /\ CarriesSource(reqs[r])
  BY DEF EndpointInv, MinterCarriesSource
<1>2. reqs[r].src \in Sources
  BY <1>1, LocalTypes DEF MintingNow, Minting
<1>3. SourceRow(reqs[r].src) # NoRow
  BY <1>1, <1>2, SpentHasRow DEF CarriesSource
<1>4. reqs[r].src \notin Codes => reqs[r].src \in RefreshTokens
  BY <1>2 DEF Sources
<1>5. QED
  BY <1>1, <1>2, <1>3, <1>4, SourcesKeep DEF CarriesSource

LEMMA NoNewMinter ==
  ASSUME EndpointInv, TypeOK', TokensAdvance, CodesAdvance, UNCHANGED <<access, minted>>,
         \A r \in Requests : MintingNow(r)' => reqs'[r] = reqs[r]
  PROVE  EndpointInv'
<1>1. TypeOK
  BY DEF EndpointInv
<1>2. \A r \in Requests : MintingNow(r)' => MintingNow(r)
  BY DEF MintingNow
<1>3. BatonInHand'
  <2> SUFFICES ASSUME NEW r \in Requests, NEW t \in RefreshTokens, Live(t)',
                      Rotating(r, FamilyOf(t))'
               PROVE  FALSE
    BY DEF BatonInHand
  <2>1. Live(t) /\ FamilyOf(t)' = FamilyOf(t)
    BY <1>1, TokensKeep DEF Live
  <2>2. Rotating(r, FamilyOf(t))
    BY <2>1 DEF Rotating, MintingNow
  <2>3. QED
    BY <2>1, <2>2 DEF EndpointInv, BatonInHand
<1>4. OneRotation'
  BY DEF EndpointInv, OneRotation, Rotating, MintingNow
<1>5. MinterCarriesSource'
  BY <1>2, MintersKeep DEF MinterCarriesSource
<1>6. OneMinter'
  BY <1>2 DEF EndpointInv, OneMinter
<1>7. MintedAreSpent' /\ SourceMintsOnce'
  BY TablesStep DEF EndpointInv, MintedAreSpent, SourceMintsOnce, MintingNow
<1>8. QED
  BY <1>3, <1>4, <1>5, <1>6, <1>7, TablesStep DEF EndpointInv

(***************************************************************************)
(* A take that succeeds: request r spends source s and mints from it.      *)
(***************************************************************************)
LEMMA NewMinter ==
  ASSUME EndpointInv, TypeOK', TokensAdvance, CodesAdvance, UNCHANGED <<access, minted>>,
         NEW r \in Requests, NEW s \in Sources,
         SourceRow(s) # NoRow, ~SourceSpent(s), SourceSpent(s)',
         \A q \in Requests \ {r} : reqs'[q] = reqs[q],
         reqs'[r].pc = "put_access", reqs'[r].src = s,
         reqs'[r].client = SourceRow(s).client,
         reqs'[r].grant = SourceRow(s).grant,
         IF s \in Codes
           THEN /\ reqs'[r].family = NoFamily
                /\ reqs'[r].withRefresh => reqs'[r].grant \in Offline
           ELSE reqs'[r].family = FamilyOf(s)
  PROVE  EndpointInv'
<1>1. TypeOK
  BY DEF EndpointInv
<1>2. ASSUME NEW q \in Requests, MintingNow(q)', q # r
      PROVE  /\ MintingNow(q) /\ reqs'[q] = reqs[q] /\ reqs[q].src # s
             /\ reqs[q].src \in Sources
  <2>1. MintingNow(q) /\ reqs'[q] = reqs[q]
    BY <1>2 DEF MintingNow
  <2>2. QED
    BY <1>1, <2>1, LocalTypes DEF EndpointInv, MinterCarriesSource, CarriesSource, MintingNow, Minting
<1>3. ASSUME NEW f \in Families, reqs'[r].family = f
      PROVE  s \in RefreshTokens /\ Live(s) /\ FamilyOf(s) = f /\ ~Live(s)'
  <2>1. s \notin Codes
    BY <1>3
  <2>2. s \in RefreshTokens
    BY <2>1 DEF Sources
  <2>3. QED
    BY <1>3, <2>1, <2>2 DEF SourceRow, SourceSpent, Live
<1>4. BatonInHand'
  <2> SUFFICES ASSUME NEW q \in Requests, NEW t \in RefreshTokens, Live(t)',
                      Rotating(q, FamilyOf(t))'
               PROVE  FALSE
    BY DEF BatonInHand
  <2>1. Live(t) /\ FamilyOf(t)' = FamilyOf(t) /\ FamilyOf(t) \in Families
    BY <1>1, TokensKeep DEF Live, TypeOK, FamilyOf, RefreshRow
  <2>2. CASE q = r
    <3>1. Live(s) /\ FamilyOf(s) = FamilyOf(t) /\ ~Live(s)' /\ s \in RefreshTokens
      BY <1>3, <2>1, <2>2 DEF Rotating
    <3>2. QED
      BY <2>1, <3>1 DEF EndpointInv, OneLiveTokenPerFamily
  <2>3. CASE q # r
    BY <2>1, <2>3 DEF EndpointInv, BatonInHand, Rotating
  <2>4. QED
    BY <2>2, <2>3
<1>5. OneRotation'
  <2> SUFFICES ASSUME NEW p \in Requests, NEW q \in Requests, NEW f \in Families,
                      Rotating(p, f)', Rotating(q, f)', p # q
               PROVE  FALSE
    BY DEF OneRotation
  <2>1. (p # r /\ Rotating(p, f)) \/ (q # r /\ Rotating(q, f))
    <3>1. CASE p # r
      BY <3>1 DEF Rotating
    <3>2. CASE p = r
      BY <3>2 DEF Rotating
    <3>3. QED
      BY <3>1, <3>2
  <2>2. CASE p = r \/ q = r
    BY <1>3, <2>1, <2>2 DEF EndpointInv, BatonInHand, Rotating
  <2>3. CASE p # r /\ q # r
    BY <2>3 DEF EndpointInv, OneRotation, Rotating
  <2>4. QED
    BY <2>2, <2>3
<1>6. MinterCarriesSource'
  <2> SUFFICES ASSUME NEW q \in Requests, MintingNow(q)'
               PROVE  CarriesSource(reqs[q])'
    BY DEF MinterCarriesSource
  <2>1. CASE q = r
    <3>1. s \notin Codes => s \in RefreshTokens
      BY DEF Sources
    <3>2. QED
      BY <1>1, <2>1, <3>1, SourcesKeep DEF CarriesSource
  <2>2. CASE q # r
    BY <1>2, <2>2, MintersKeep
  <2>3. QED
    BY <2>1, <2>2
<1>7. OneMinter'
  BY <1>2 DEF EndpointInv, OneMinter
<1>8. minted[s] = 0
  BY <1>1 DEF EndpointInv, MintedAreSpent, TypeOK
<1>9. MintedAreSpent' /\ SourceMintsOnce'
  BY <1>8, TablesStep DEF EndpointInv, MintedAreSpent, SourceMintsOnce
<1>10. QED
  BY <1>4, <1>5, <1>6, <1>7, <1>9, TablesStep DEF EndpointInv

-----------------------------------------------------------------------------
(***************************************************************************)
(* Storing the access token: request r goes on to its refresh token or     *)
(* stops.                                                                  *)
(***************************************************************************)
LEMMA AccessStep ==
  ASSUME EndpointInv, TypeOK', NEW r \in Requests,
         reqs[r].pc = "put_access", PutAccess(reqs[r]), UNCHANGED <<codes, refresh>>,
         \A q \in Requests \ {r} : reqs'[q] = reqs[q],
         MintingNow(r)' => /\ reqs[r].withRefresh
                           /\ reqs'[r] = [reqs[r] EXCEPT !.pc = "put_refresh"]
  PROVE  EndpointInv'
<1>1. TypeOK /\ MintingNow(r) /\ reqs[r] \in Minting /\ CarriesSource(reqs[r])
  BY LocalTypes DEF EndpointInv, MinterCarriesSource, MintingNow
<1>2. reqs[r].src \in Sources
  BY <1>1 DEF Minting
<1>3. MintingNow(r)' =>
        /\ reqs'[r].pc = "put_refresh"
        /\ reqs'[r].src = reqs[r].src /\ reqs'[r].client = reqs[r].client
        /\ reqs'[r].grant = reqs[r].grant /\ reqs'[r].family = reqs[r].family
        /\ reqs'[r].withRefresh
  BY <1>1 DEF Minting
<1>4. \A q \in Requests : MintingNow(q)' =>
        /\ MintingNow(q)
        /\ reqs'[q].src = reqs[q].src /\ reqs'[q].family = reqs[q].family
  BY <1>1, <1>3 DEF MintingNow
<1>5. \A q \in Requests : \A f : Rotating(q, f)' => Rotating(q, f)
  BY <1>4 DEF Rotating, MintingNow
<1>6. OneLiveTokenPerFamily' /\ BatonInHand' /\ OneRotation'
  BY <1>5
  DEF EndpointInv, OneLiveTokenPerFamily, BatonInHand, OneRotation, Live, FamilyOf
<1>7. MinterCarriesSource'
  <2> SUFFICES ASSUME NEW q \in Requests, MintingNow(q)' PROVE CarriesSource(reqs[q])'
    BY DEF MinterCarriesSource
  <2>1. CASE q = r
    BY <1>1, <1>3, <2>1 DEF CarriesSource, SourceSpent, SourceRow, Spent, FamilyOf
  <2>2. CASE q # r
    BY <1>4, <2>2
    DEF EndpointInv, MinterCarriesSource, CarriesSource, SourceSpent, SourceRow, Spent, FamilyOf
  <2>3. QED
    BY <2>1, <2>2
<1>8. OneMinter'
  BY <1>4 DEF EndpointInv, OneMinter
<1>9. minted[reqs[r].src] = 0
  BY DEF EndpointInv, MintedAreSpent
<1>10. minted'[reqs[r].src] = 1 /\ \A s \in Sources \ {reqs[r].src} : minted'[s] = minted[s]
  BY <1>1, <1>2, <1>9 DEF PutAccess, TypeOK
<1>11. SourceMintsOnce'
  BY <1>10 DEF EndpointInv, SourceMintsOnce
<1>12. ASSUME NEW s \in Sources, minted'[s] > 0 PROVE SourceSpent(s)'
  <2>1. SourceSpent(s)
    BY <1>1, <1>10, <1>12 DEF EndpointInv, MintedAreSpent, CarriesSource
  <2>2. QED
    BY <2>1 DEF SourceSpent, Spent
<1>13. ASSUME NEW q \in Requests, reqs'[q].pc = "put_access" PROVE minted'[reqs'[q].src] = 0
  <2>1. q # r /\ reqs[q].pc = "put_access" /\ reqs'[q] = reqs[q] /\ MintingNow(q)
    BY <1>3, <1>13 DEF MintingNow
  <2>2. reqs[q].src # reqs[r].src
    BY <1>1, <2>1 DEF EndpointInv, OneMinter
  <2>3. reqs[q].src \in Sources
    BY <1>1, <2>1, LocalTypes DEF Minting
  <2>4. QED
    BY <1>10, <2>1, <2>2, <2>3 DEF EndpointInv, MintedAreSpent
<1>14. MintedAreSpent'
  BY <1>12, <1>13 DEF MintedAreSpent
<1>15. ChainKeepsGrant'
  <2>1. LET row == SourceRow(reqs[r].src)
        IN  row # NoRow /\ reqs[r].client = row.client /\ reqs[r].grant = row.grant
    BY <1>1, <1>2, SpentHasRow DEF CarriesSource
  <2>2. ASSUME NEW a \in access'
        PROVE  LET row == SourceRow(a.src)
               IN  row # NoRow /\ a.client = row.client /\ a.grant = row.grant
    <3>1. CASE a \in access
      BY <3>1 DEF EndpointInv, ChainKeepsGrant, SourceRow
    <3>2. CASE a = [src |-> reqs[r].src, client |-> reqs[r].client, grant |-> reqs[r].grant]
      BY <2>1, <3>2
    <3>3. QED
      BY <3>1, <3>2 DEF PutAccess
  <2>3. QED
    BY <2>2 DEF EndpointInv, ChainKeepsGrant, SourceRow, FamilyOf
<1>16. QED
  BY <1>6, <1>7, <1>8, <1>11, <1>14, <1>15 DEF EndpointInv

(***************************************************************************)
(* Storing the refresh token: request r hands the baton to token t.        *)
(***************************************************************************)
LEMMA RefreshStep ==
  ASSUME EndpointInv, TypeOK', NEW r \in Requests,
         NEW t \in RefreshTokens, NEW f \in Families,
         reqs[r].pc = "put_refresh", PutRefresh(reqs[r], t, f),
         UNCHANGED <<codes, access, minted>>,
         \A q \in Requests \ {r} : reqs'[q] = reqs[q],
         ~MintingNow(r)'
  PROVE  EndpointInv'
<1>1. TypeOK /\ MintingNow(r) /\ reqs[r] \in Minting /\ CarriesSource(reqs[r])
  BY LocalTypes DEF EndpointInv, MinterCarriesSource, MintingNow
<1>2. /\ refresh[t] = NoRow
      /\ \A u \in RefreshTokens \ {t} : refresh'[u] = refresh[u]
      /\ refresh'[t] \in RefreshRow
      /\ refresh'[t].family = f /\ ~refresh'[t].revoked
      /\ refresh'[t].client = reqs[r].client /\ refresh'[t].grant = reqs[r].grant
  BY <1>1 DEF PutRefresh, TypeOK, Minting, RefreshRow
<1>3. \A q \in Requests : MintingNow(q)' => q # r /\ MintingNow(q) /\ reqs'[q] = reqs[q]
  BY DEF MintingNow
<1>4. \A q \in Requests : \A g : Rotating(q, g)' => q # r /\ Rotating(q, g)
  BY <1>3 DEF Rotating, MintingNow
<1>5. reqs[r].src # t
  BY <1>1, <1>2 DEF CarriesSource, SourceSpent
<1>6. \A s \in Sources \ {t} : /\ SourceSpent(s)' <=> SourceSpent(s)
                               /\ SourceRow(s)' = SourceRow(s)
  BY <1>2 DEF Sources, SourceSpent, SourceRow, Spent
<1>7. ~SourceSpent(t) /\ ~Live(t)
  BY <1>2 DEF SourceSpent, Live
(* The other tokens of family f are spent, and agree with the new one. *)
<1>8. ASSUME NEW u \in RefreshTokens, refresh[u] # NoRow, FamilyOf(u) = f
      PROVE  /\ reqs[r].src \in RefreshTokens /\ refresh[reqs[r].src] # NoRow
             /\ FamilyOf(reqs[r].src) = f /\ reqs[r].family = f
  <2>1. reqs[r].family = f
    BY <1>1, <1>8 DEF PutRefresh, FamilyFor, FamilyOf
  <2>2. reqs[r].src \in RefreshTokens \ Codes
    BY <1>1, <2>1 DEF CarriesSource, Minting, Sources
  <2>3. QED
    BY <1>1, <2>1, <2>2 DEF CarriesSource, SourceSpent
<1>9. \A u \in RefreshTokens : Live(u) => FamilyOf(u) # f
  BY <1>1, <1>8 DEF EndpointInv, BatonInHand, Rotating, Live
<1>10. OneLiveTokenPerFamily'
  BY <1>2, <1>9 DEF EndpointInv, OneLiveTokenPerFamily, Live, FamilyOf
<1>11. BatonInHand'
  <2> SUFFICES ASSUME NEW q \in Requests, NEW u \in RefreshTokens, Live(u)',
                      Rotating(q, FamilyOf(u))'
               PROVE  FALSE
    BY DEF BatonInHand
  <2>1. CASE u # t
    BY <1>2, <1>4, <2>1 DEF EndpointInv, BatonInHand, Live, FamilyOf
  <2>2. CASE u = t
    <3>1. q # r /\ Rotating(q, f)
      BY <1>2, <1>4, <2>2 DEF FamilyOf
    <3>2. reqs[q] \in Minting /\ CarriesSource(reqs[q]) /\ reqs[q].family = f
      BY <1>1, <3>1, LocalTypes DEF EndpointInv, MinterCarriesSource, MintingNow, Rotating
    <3>3. reqs[q].src \in RefreshTokens /\ refresh[reqs[q].src] # NoRow
          /\ FamilyOf(reqs[q].src) = f
      BY <3>2 DEF CarriesSource, SourceSpent, Minting, Sources
    <3>4. Rotating(r, f)
      BY <1>1, <1>8, <3>3 DEF Rotating, MintingNow
    <3>5. QED
      BY <3>1, <3>4 DEF EndpointInv, OneRotation
  <2>3. QED
    BY <2>1, <2>2
<1>12. OneRotation'
  BY <1>4 DEF EndpointInv, OneRotation
<1>13. ASSUME NEW q \in Requests, MintingNow(q)' PROVE CarriesSource(reqs[q])'
  <2>1. CarriesSource(reqs[q]) /\ reqs[q] \in Minting /\ reqs'[q] = reqs[q]
    BY <1>1, <1>3, <1>13, LocalTypes DEF EndpointInv, MinterCarriesSource, MintingNow
  <2>2. reqs[q].src \in Sources \ {t}
    BY <1>7, <2>1 DEF CarriesSource, Minting
  <2>3. reqs[q].src \notin Codes => FamilyOf(reqs[q].src)' = FamilyOf(reqs[q].src)
    BY <1>2, <2>1, <2>2 DEF Sources, FamilyOf
  <2>4. QED
    BY <1>6, <2>1, <2>2, <2>3 DEF CarriesSource
<1>14. OneMinter'
  BY <1>3 DEF EndpointInv, OneMinter
<1>15. MintedAreSpent' /\ SourceMintsOnce'
  <2>1. \A s \in Sources : minted[s] > 0 => SourceSpent(s)'
    BY <1>6, <1>7 DEF EndpointInv, MintedAreSpent
  <2>2. QED
    BY <1>3, <2>1 DEF EndpointInv, MintedAreSpent, SourceMintsOnce, MintingNow
<1>16. ChainKeepsGrant'
  <2>1. ASSUME NEW a \in access
        PROVE  LET row == SourceRow(a.src)'
               IN  row # NoRow /\ a.client = row.client /\ a.grant = row.grant
    <3>1. SourceRow(a.src) # NoRow /\ a.src \in Sources
      BY <1>1 DEF EndpointInv, ChainKeepsGrant, SourceRow, TypeOK, AccessRow
    <3>2. SourceRow(a.src)' = SourceRow(a.src)
      BY <1>2, <1>6, <3>1 DEF SourceRow
    <3>3. QED
      BY <3>1, <3>2 DEF EndpointInv, ChainKeepsGrant, SourceRow
  <2>2. reqs[r].grant \in Offline
    <3>1. CASE reqs[r].src \in Codes
      BY <1>1, <3>1 DEF CarriesSource
    <3>2. CASE reqs[r].src \notin Codes
      BY <1>1, <3>2
      DEF EndpointInv, ChainKeepsGrant, CarriesSource, SourceRow, SourceSpent, Minting, Sources
    <3>3. QED
      BY <3>1, <3>2
  <2>3. ASSUME NEW u \in RefreshTokens, refresh[u] # NoRow, FamilyOf(u) = f
        PROVE  refresh[u].client = reqs[r].client /\ refresh[u].grant = reqs[r].grant
    BY <1>1, <1>8, <2>3 DEF EndpointInv, ChainKeepsGrant, CarriesSource, SourceRow
  <2>4. QED
    BY <1>2, <2>1, <2>2, <2>3 DEF EndpointInv, ChainKeepsGrant, SourceRow, FamilyOf
<1>17. QED
  BY <1>10, <1>11, <1>12, <1>13, <1>14, <1>15, <1>16 DEF EndpointInv, MinterCarriesSource

-----------------------------------------------------------------------------
(***************************************************************************)
(* Every step keeps the invariant.                                         *)
(***************************************************************************)
LEMMA TakeCodeAdvances ==
  ASSUME TypeOK, NEW k \in Codes, Redeemable(k), codes' = MarkUsed(k)
  PROVE  CodesAdvance /\ Spent(k)' /\ ~Spent(k)
<1>1. codes[k] \in CodeRow /\ codes[k] # NoRow
  BY DEF TypeOK, Redeemable
<1>2. codes'[k] = [codes[k] EXCEPT !.used = TRUE] /\ codes'[k] \in CodeRow
  BY <1>1 DEF TypeOK, MarkUsed, CodeRow
<1>3. CodesAdvance
  BY <1>1, <1>2 DEF CodesAdvance, MarkUsed, TypeOK
<1>4. QED
  BY <1>1, <1>2, <1>3 DEF Spent, Redeemable, CodeRow

LEMMA TakeRefreshAdvances ==
  ASSUME TypeOK, NEW t \in RefreshTokens, Live(t), refresh' = MarkRevoked(t)
  PROVE  TokensAdvance /\ refresh'[t] # NoRow /\ refresh'[t].revoked
<1>1. refresh[t] \in RefreshRow /\ refresh[t] # NoRow
  BY DEF TypeOK, Live
<1>2. refresh'[t] = [refresh[t] EXCEPT !.revoked = TRUE] /\ refresh'[t] \in RefreshRow
  BY <1>1 DEF TypeOK, MarkRevoked, RefreshRow
<1>3. TokensAdvance
  BY <1>1, <1>2 DEF TokensAdvance, MarkRevoked, TypeOK
<1>4. QED
  BY <1>1, <1>2, <1>3 DEF RefreshRow

LEMMA HandleStep ==
  ASSUME EndpointInv, TypeOK', NEW r \in Requests, Handle(r)
  PROVE  EndpointInv'
<1>0. TypeOK
  BY DEF EndpointInv
<1>00. ASSUME NEW local, Goto(r, local)
       PROVE  reqs'[r] = local /\ \A q \in Requests \ {r} : reqs'[q] = reqs[q]
  BY <1>0, <1>00 DEF Goto, TypeOK
<1>1. CASE TakeCode(r)
  <2>0. PICK k \in Codes : k = reqs[r].code
    BY <1>0, <1>1, LocalTypes DEF TakeCode, CodeRequest
  <2>1. /\ reqs[r] \in CodeRequest /\ Redeemable(k)
        /\ codes[k] \in CodeRow /\ codes[k] # NoRow
    BY <1>0, <1>1, <2>0, LocalTypes DEF TakeCode, Redeemable, TypeOK
  <2>2. CodesAdvance /\ TokensAdvance /\ Spent(k)' /\ ~Spent(k)
    BY <1>0, <1>1, <2>0, <2>1, TakeCodeAdvances DEF TakeCode, TokensAdvance
  <2>3. CASE CodeChecks(reqs[r], codes[k])
    <3> DEFINE m == [pc |-> "put_access", src |-> k, client |-> reqs[r].client,
                     grant |-> codes[k].grant, family |-> NoFamily,
                     withRefresh |-> codes[k].grant \in Offline]
    <3>1. reqs'[r] = m /\ \A q \in Requests \ {r} : reqs'[q] = reqs[q]
      BY <1>00, <1>1, <2>0, <2>3 DEF TakeCode
    <3>2. m.client = codes[k].client
      BY <2>3 DEF CodeChecks
    <3>3. k \in Sources /\ SourceRow(k) = codes[k] /\ ~SourceSpent(k) /\ SourceSpent(k)'
      BY <2>1, <2>2 DEF Sources, SourceRow, SourceSpent
    <3>4. reqs'[r].withRefresh = (codes[k].grant \in Offline)
      BY <3>1
    <3>5. /\ reqs'[r].pc = "put_access" /\ reqs'[r].src = k
          /\ reqs'[r].client = SourceRow(k).client /\ reqs'[r].grant = SourceRow(k).grant
          /\ reqs'[r].family = NoFamily
      BY <3>1, <3>2, <3>3
    <3>6. reqs'[r].withRefresh => reqs'[r].grant \in Offline
      BY <3>3, <3>4, <3>5
    <3>7. QED
      BY <1>1, <2>1, <2>2, <3>1, <3>3, <3>5, <3>6, NewMinter DEF TakeCode
  <2>4. CASE ~CodeChecks(reqs[r], codes[k])
    <3>1. reqs'[r] = Idle /\ \A q \in Requests \ {r} : reqs'[q] = reqs[q]
      BY <1>00, <1>1, <2>0, <2>4 DEF TakeCode
    <3>2. QED
      BY <1>1, <2>2, <3>1, NoNewMinter DEF TakeCode, MintingNow, Idle
  <2>5. QED
    BY <2>3, <2>4
<1>2. CASE TakeRefresh(r)
  <2>0. PICK t \in RefreshTokens : t = reqs[r].token
    BY <1>0, <1>2, LocalTypes DEF TakeRefresh, RefreshRequest
  <2>1. /\ reqs[r] \in RefreshRequest /\ Live(t)
        /\ refresh[t] \in RefreshRow
    BY <1>0, <1>2, <2>0, LocalTypes DEF TakeRefresh, Live, TypeOK
  <2>2. CodesAdvance /\ TokensAdvance /\ refresh'[t] # NoRow /\ refresh'[t].revoked
    BY <1>0, <1>2, <2>0, <2>1, TakeRefreshAdvances DEF TakeRefresh, CodesAdvance
  <2>3. CASE RefreshChecks(reqs[r], refresh[t])
    <3> DEFINE m == [pc |-> "put_access", src |-> t, client |-> reqs[r].client,
                     grant |-> refresh[t].grant, family |-> refresh[t].family,
                     withRefresh |-> TRUE]
    <3>1. reqs'[r] = m /\ \A q \in Requests \ {r} : reqs'[q] = reqs[q]
      BY <1>00, <1>2, <2>0, <2>3 DEF TakeRefresh
    <3>2. m.client = refresh[t].client
      BY <2>3 DEF RefreshChecks
    <3>3. /\ t \in Sources /\ t \notin Codes
          /\ SourceRow(t) = refresh[t] /\ SourceRow(t) # NoRow
          /\ ~SourceSpent(t) /\ SourceSpent(t)'
      BY <2>1, <2>2 DEF Sources, SourceRow, SourceSpent, Live
    <3>4. QED
      BY <1>2, <2>1, <2>2, <3>1, <3>2, <3>3, NewMinter DEF TakeRefresh, FamilyOf
  <2>4. CASE ~RefreshChecks(reqs[r], refresh[t])
    <3>1. /\ reqs'[r] = [pc |-> "revoke", family |-> refresh[t].family]
          /\ \A q \in Requests \ {r} : reqs'[q] = reqs[q]
      BY <1>00, <1>2, <2>0, <2>4 DEF TakeRefresh
    <3>2. QED
      BY <1>2, <2>2, <3>1, NoNewMinter DEF TakeRefresh, MintingNow
  <2>5. QED
    BY <2>3, <2>4
<1>3. CASE RevokeFamily(r)
  <2>1. TokensAdvance /\ CodesAdvance
    BY <1>0, <1>3 DEF RevokeFamily, FamilyRevoked, TokensAdvance, CodesAdvance
  <2>2. reqs'[r].pc = "audit_revoke" /\ \A q \in Requests \ {r} : reqs'[q] = reqs[q]
    BY <1>0, <1>00, <1>3, LocalTypes DEF RevokeFamily, Revoking
  <2>3. QED
    BY <1>3, <2>1, <2>2, NoNewMinter DEF RevokeFamily, MintingNow
<1>4. CASE RefuseCode(r) \/ DetectReuse(r) \/ AuditRevoke(r) \/ Respond(r)
  <2>1. TokensAdvance /\ CodesAdvance /\ UNCHANGED <<access, minted>>
    BY <1>4
    DEF RefuseCode, DetectReuse, AuditRevoke, Respond, TokensAdvance, CodesAdvance
  <2>2. ~MintingNow(r)' /\ \A q \in Requests \ {r} : reqs'[q] = reqs[q]
    BY <1>00, <1>4
    DEF RefuseCode, DetectReuse, AuditRevoke, Respond, MintingNow, Idle
  <2>3. QED
    BY <2>1, <2>2, NoNewMinter
<1>5. CASE WriteAccess(r)
  <2>1. reqs[r] \in Minting
    BY <1>0, <1>5, LocalTypes DEF WriteAccess
  <2>2. /\ \A q \in Requests \ {r} : reqs'[q] = reqs[q]
        /\ MintingNow(r)' => /\ reqs[r].withRefresh
                             /\ reqs'[r] = [reqs[r] EXCEPT !.pc = "put_refresh"]
    BY <1>00, <1>5 DEF WriteAccess, Answer, MintingNow
  <2>3. QED
    BY <1>5, <2>2, AccessStep DEF WriteAccess
<1>6. ASSUME NEW t \in RefreshTokens, NEW f \in Families, WriteRefresh(r, t, f)
      PROVE  EndpointInv'
  <2>1. ~MintingNow(r)' /\ \A q \in Requests \ {r} : reqs'[q] = reqs[q]
    BY <1>00, <1>6 DEF WriteRefresh, Answer, MintingNow
  <2>2. QED
    BY <1>6, <2>1, RefreshStep DEF WriteRefresh
<1>7. QED
  BY <1>1, <1>2, <1>3, <1>4, <1>5, <1>6 DEF Handle

LEMMA FailStep ==
  ASSUME EndpointInv, TypeOK', NEW r \in Requests, Fail(r)
  PROVE  EndpointInv'
<1>0. TypeOK
  BY DEF EndpointInv
<1>00. ASSUME NEW local, Goto(r, local)
       PROVE  reqs'[r] = local /\ \A q \in Requests \ {r} : reqs'[q] = reqs[q]
  BY <1>0, <1>00 DEF Goto, TypeOK
<1>1. CASE TakeCodeError(r)
  <2>1. CodesAdvance /\ TokensAdvance
    BY <1>0, <1>1, LocalTypes, TakeCodeAdvances
    DEF TakeCodeError, CodeRequest, CodesAdvance, TokensAdvance
  <2>2. QED
    BY <1>00, <1>1, <2>1, NoNewMinter DEF TakeCodeError, MintingNow, Idle
<1>2. CASE TakeRefreshError(r)
  <2>1. CodesAdvance /\ TokensAdvance
    BY <1>0, <1>2, LocalTypes, TakeRefreshAdvances
    DEF TakeRefreshError, RefreshRequest, CodesAdvance, TokensAdvance
  <2>2. ~MintingNow(r)' /\ \A q \in Requests \ {r} : reqs'[q] = reqs[q]
    BY <1>00, <1>2 DEF TakeRefreshError, MintingNow, Idle
  <2>3. QED
    BY <1>2, <2>1, <2>2, NoNewMinter DEF TakeRefreshError
<1>3. CASE RevokeFamilyError(r) \/ LoseAnswer(r)
  <2>1. TokensAdvance /\ CodesAdvance /\ UNCHANGED <<access, minted>>
    BY <1>3 DEF RevokeFamilyError, LoseAnswer, TokensAdvance, CodesAdvance
  <2>2. ~MintingNow(r)' /\ \A q \in Requests \ {r} : reqs'[q] = reqs[q]
    BY <1>0, <1>00, <1>3, LocalTypes
    DEF RevokeFamilyError, LoseAnswer, MintingNow, Idle, Revoking
  <2>3. QED
    BY <2>1, <2>2, NoNewMinter
<1>4. CASE WriteAccessError(r)
  <2>1. ~MintingNow(r)' /\ \A q \in Requests \ {r} : reqs'[q] = reqs[q]
    BY <1>00, <1>4 DEF WriteAccessError, MintingNow, Idle
  <2>2. CASE UNCHANGED <<access, minted>>
    BY <1>4, <2>1, <2>2, NoNewMinter DEF WriteAccessError, TokensAdvance, CodesAdvance
  <2>3. CASE PutAccess(reqs[r])
    BY <1>4, <2>1, <2>3, AccessStep DEF WriteAccessError
  <2>4. QED
    BY <1>4, <2>2, <2>3 DEF WriteAccessError
<1>5. ASSUME NEW t \in RefreshTokens, NEW f \in Families, WriteRefreshError(r, t, f)
      PROVE  EndpointInv'
  <2>1. ~MintingNow(r)' /\ \A q \in Requests \ {r} : reqs'[q] = reqs[q]
    BY <1>00, <1>5 DEF WriteRefreshError, MintingNow, Idle
  <2>2. CASE UNCHANGED refresh
    BY <1>5, <2>1, <2>2, NoNewMinter DEF WriteRefreshError, TokensAdvance, CodesAdvance
  <2>3. CASE PutRefresh(reqs[r], t, f)
    BY <1>5, <2>1, <2>3, RefreshStep DEF WriteRefreshError
  <2>4. QED
    BY <1>5, <2>2, <2>3 DEF WriteRefreshError
<1>6. QED
  BY <1>1, <1>2, <1>3, <1>4, <1>5 DEF Fail

LEMMA InvStep == EndpointInv /\ [Next]_vars => EndpointInv'
<1> SUFFICES ASSUME EndpointInv, [Next]_vars PROVE EndpointInv'
  OBVIOUS
<1>0. TypeOK /\ TypeOK'
  BY TypeStep DEF EndpointInv
<1>1. CASE Tick
  BY <1>0, <1>1, NoNewMinter DEF Tick, TokensAdvance, CodesAdvance
<1>2. ASSUME NEW k \in Codes, NEW c \in Clients, NEW g \in Grants, NEW u \in Redirects,
             NEW v \in Verifiers, IssueCode(k, c, g, u, v)
      PROVE  EndpointInv'
  <2>1. CodesAdvance /\ TokensAdvance
    BY <1>0, <1>2 DEF IssueCode, TypeOK, CodeRow, CodesAdvance, TokensAdvance
  <2>2. QED
    BY <1>0, <1>2, <2>1, NoNewMinter DEF IssueCode
<1>3. ASSUME NEW r \in Requests, Ask(r) PROVE EndpointInv'
  BY <1>0, <1>3, NoNewMinter
  DEF Ask, AskWithCode, AskWithRefresh, Goto, TypeOK, MintingNow, TokensAdvance, CodesAdvance
<1>4. ASSUME NEW r \in Requests, Handle(r) PROVE EndpointInv'
  BY <1>0, <1>4, HandleStep
<1>5. ASSUME NEW r \in Requests, Fail(r) PROVE EndpointInv'
  BY <1>0, <1>5, FailStep
<1>6. CASE Restart
  BY <1>0, <1>6, NoNewMinter DEF Restart, MintingNow, Idle, TokensAdvance, CodesAdvance
<1>7. CASE UNCHANGED vars
  BY <1>0, <1>7, NoNewMinter DEF vars, TokensAdvance, CodesAdvance
<1>8. QED
  BY <1>1, <1>2, <1>3, <1>4, <1>5, <1>6, <1>7 DEF Next

LEMMA InvInit == Init => EndpointInv
<1> SUFFICES ASSUME Init PROVE EndpointInv
  OBVIOUS
<1>1. TypeOK
  BY TypeInit
<1>2. \A r \in Requests : \A f : ~MintingNow(r) /\ ~Rotating(r, f)
  BY DEF Init, Idle, MintingNow, Rotating
<1>3. QED
  BY <1>1, <1>2
  DEF Init, Idle, Sources, EndpointInv, OneLiveTokenPerFamily, BatonInHand, OneRotation,
      MinterCarriesSource, OneMinter, MintedAreSpent, SourceMintsOnce, ChainKeepsGrant, Live

-----------------------------------------------------------------------------
(***************************************************************************)
(* The inductive invariant holds in every reachable state.                 *)
(***************************************************************************)
THEOREM EndpointInvariant == Spec => []EndpointInv
  BY InvInit, InvStep, PTL DEF Spec

(***************************************************************************)
(* However many requests race and calls fail, a code or a refresh token is *)
(* exchanged for an access token at most once.                             *)
(***************************************************************************)
THEOREM SingleUse == Spec => []SourceMintsOnce
<1>1. EndpointInv => SourceMintsOnce
  BY DEF EndpointInv
<1>2. QED
  BY <1>1, EndpointInvariant, PTL

(* A refresh token family never branches. *)
THEOREM NoBranching == Spec => []OneLiveTokenPerFamily
<1>1. EndpointInv => OneLiveTokenPerFamily
  BY DEF EndpointInv
<1>2. QED
  BY <1>1, EndpointInvariant, PTL

(* What was granted is what every token of the chain carries. *)
THEOREM GrantIsKept == Spec => []ChainKeepsGrant
<1>1. EndpointInv => ChainKeepsGrant
  BY DEF EndpointInv
<1>2. QED
  BY <1>1, EndpointInvariant, PTL
=============================================================================
