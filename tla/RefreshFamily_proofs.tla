------------------------ MODULE RefreshFamily_proofs ------------------------
(***************************************************************************)
(* The token endpoint implements the abstract refresh token families: its  *)
(* inductive invariant makes every step a step of one family, the loss of  *)
(* several, or a stutter; and, while nothing fails, a family that is lost  *)
(* leaves its event in the audit trail.                                    *)
(***************************************************************************)
EXTENDS TokenEndpoint_proofs

Rotates(f) == \E r \in Requests : Rotating(r, f)

HasLive(f) == \E t \in RefreshTokens : Live(t) /\ FamilyOf(t) = f

stageBar == [f \in Families |-> FamilyStage(f)]
ownerBar == [f \in Families |-> FamilyOwner(f)]

LEMMA StageCases ==
  ASSUME NEW f \in Families
  PROVE  /\ Rotates(f) => FamilyStage(f) = "rotating"
         /\ ~Rotates(f) /\ HasLive(f) => FamilyStage(f) = "live"
         /\ ~Rotates(f) /\ ~HasLive(f) /\ Born(f) => FamilyStage(f) = "dead"
         /\ ~Rotates(f) /\ ~HasLive(f) /\ ~Born(f) => FamilyStage(f) = "unborn"
  BY DEF Rotates, HasLive, FamilyStage

(* The invariant, read as facts about one family. *)
LEMMA FamilyFacts ==
  ASSUME EndpointInv, NEW f \in Families
  PROVE  /\ HasLive(f) => Born(f) /\ ~Rotates(f)
         /\ Rotates(f) => Born(f)
<1>1. HasLive(f) => Born(f) /\ ~Rotates(f)
  BY DEF EndpointInv, BatonInHand, HasLive, Rotates, Born, Live
<1>2. ASSUME NEW r \in Requests, Rotating(r, f) PROVE Born(f)
  <2>1. reqs[r] \in Minting /\ CarriesSource(reqs[r]) /\ reqs[r].family = f
    BY <1>2, LocalTypes DEF EndpointInv, MinterCarriesSource, MintingNow, Rotating
  <2>2. reqs[r].src \in RefreshTokens \ Codes
    BY <2>1, FamiliesAssumption DEF CarriesSource, Minting, Sources
  <2>3. QED
    BY <2>1, <2>2 DEF CarriesSource, SourceSpent, Born
<1>3. QED
  BY <1>1, <1>2 DEF Rotates

LEMMA OwnersKeep ==
  ASSUME TypeOK, TokensAdvance, NEW f \in Families
  PROVE  Born(f)' = Born(f) /\ FamilyOwner(f)' = FamilyOwner(f)
<1>1. \A t \in RefreshTokens :
        /\ (refresh'[t] # NoRow) <=> (refresh[t] # NoRow)
        /\ refresh[t] # NoRow => FamilyOf(t)' = FamilyOf(t) /\ OwnerOf(t)' = OwnerOf(t)
  BY TokensKeep DEF OwnerOf
<1>2. Born(f)' = Born(f)
  BY <1>1 DEF Born
<1>3. FamilyOwner(f)' = FamilyOwner(f)
  BY <1>1 DEF FamilyOwner
<1>4. QED
  BY <1>2, <1>3

-----------------------------------------------------------------------------
(* Steps that leave every family where it is. *)
LEMMA Stutter ==
  ASSUME EndpointInv, TokensAdvance,
         \A f \in Families : Rotates(f)' = Rotates(f) /\ HasLive(f)' = HasLive(f)
  PROVE  UNCHANGED <<stageBar, ownerBar>>
<1>1. TypeOK
  BY DEF EndpointInv
<1>2. ASSUME NEW f \in Families PROVE FamilyStage(f)' = FamilyStage(f)
  <2>1. Born(f)' = Born(f) /\ Rotates(f)' = Rotates(f) /\ HasLive(f)' = HasLive(f)
    BY <1>1, OwnersKeep
  <2>2. QED
    BY <2>1 DEF FamilyStage, Rotates, HasLive
<1>3. \A f \in Families : FamilyOwner(f)' = FamilyOwner(f)
  BY <1>1, OwnersKeep
<1>4. QED
  BY <1>2, <1>3 DEF stageBar, ownerBar

(* Steps that move one family g. *)
LEMMA OneFamilyMoves ==
  ASSUME EndpointInv, TokensAdvance, NEW g \in Families, Born(g),
         \A f \in Families \ {g} : Rotates(f)' = Rotates(f) /\ HasLive(f)' = HasLive(f)
  PROVE  /\ ownerBar' = ownerBar
         /\ \A f \in Families \ {g} : FamilyStage(f)' = FamilyStage(f)
         /\ Rotates(g)' => FamilyStage(g)' = "rotating"
         /\ ~Rotates(g)' /\ ~HasLive(g)' => FamilyStage(g)' = "dead"
<1>1. TypeOK
  BY DEF EndpointInv
<1>2. ownerBar' = ownerBar
  BY <1>1, OwnersKeep DEF ownerBar
<1>3. ASSUME NEW f \in Families \ {g} PROVE FamilyStage(f)' = FamilyStage(f)
  <2>1. Born(f)' = Born(f) /\ Rotates(f)' = Rotates(f) /\ HasLive(f)' = HasLive(f)
    BY <1>1, OwnersKeep
  <2>2. QED
    BY <2>1 DEF FamilyStage, Rotates, HasLive
<1>4. Born(g)'
  BY <1>1, OwnersKeep
<1>5. Rotates(g)' => FamilyStage(g)' = "rotating"
  BY DEF FamilyStage, Rotates
<1>6. ~Rotates(g)' /\ ~HasLive(g)' => FamilyStage(g)' = "dead"
  BY <1>4 DEF FamilyStage, Rotates, HasLive
<1>7. QED
  BY <1>2, <1>3, <1>5, <1>6

LEMMA TakeStep ==
  ASSUME EndpointInv, TokensAdvance, NEW g \in Families, HasLive(g), Rotates(g)',
         \A f \in Families \ {g} : Rotates(f)' = Rotates(f) /\ HasLive(f)' = HasLive(f)
  PROVE  Family!Take(g)
<1>1. Born(g) /\ FamilyStage(g) = "live"
  BY FamilyFacts, StageCases
<1>2. QED
  BY <1>1, OneFamilyMoves DEF Family!Take, Family!Move, ownerBar

LEMMA RevokeStep ==
  ASSUME EndpointInv, TokensAdvance, NEW g \in Families,
         HasLive(g), ~Rotates(g)', ~HasLive(g)',
         \A f \in Families \ {g} : Rotates(f)' = Rotates(f) /\ HasLive(f)' = HasLive(f)
  PROVE  Family!Revoke(g)
<1>1. Born(g) /\ FamilyStage(g) = "live"
  BY FamilyFacts, StageCases
<1>2. QED
  BY <1>1, OneFamilyMoves DEF Family!Revoke, Family!Move, ownerBar

-----------------------------------------------------------------------------
(* The steps of the endpoint, by what they do to the families. *)
LEMMA Quiet ==
  ASSUME EndpointInv, UNCHANGED refresh,
         \A r \in Requests, f \in Families : Rotating(r, f)' <=> Rotating(r, f)
  PROVE  UNCHANGED <<stageBar, ownerBar>>
<1>1. \A f \in Families : Rotates(f)' = Rotates(f)
  BY DEF Rotates
<1>2. \A f \in Families : HasLive(f)' = HasLive(f)
  BY DEF HasLive, Live, FamilyOf
<1>3. QED
  BY <1>1, <1>2, Stutter DEF TokensAdvance

LEMMA Drop ==
  ASSUME EndpointInv, UNCHANGED refresh, NEW r \in Requests, MintingNow(r),
         ~MintingNow(r)', \A q \in Requests \ {r} : reqs'[q] = reqs[q]
  PROVE  \/ UNCHANGED <<stageBar, ownerBar>>
         \/ \E g \in Families : Family!Abandon({g})
<1>1. \A q \in Requests \ {r}, f \in Families : Rotating(q, f)' <=> Rotating(q, f)
  BY DEF Rotating
<1>2. \A f \in Families : ~Rotating(r, f)'
  BY DEF MintingNow, Rotating
<1>3. CASE reqs[r].family \notin Families
  BY <1>1, <1>2, <1>3, Quiet DEF Rotating
<1>4. CASE reqs[r].family \in Families
  <2>1. PICK g \in Families : Rotating(r, g)
    BY <1>4 DEF Rotating, MintingNow
  <2>2. Rotates(g) /\ Born(g) /\ ~HasLive(g) /\ FamilyStage(g) = "rotating"
    BY <2>1, FamilyFacts, StageCases DEF Rotates
  <2>3. ~Rotates(g)'
    BY <1>1, <1>2, <2>1 DEF Rotates, EndpointInv, OneRotation
  <2>4. \A f \in Families \ {g} : Rotates(f)' = Rotates(f)
    BY <1>1, <1>2, <2>1 DEF Rotates, Rotating
  <2>5. \A f \in Families : HasLive(f)' = HasLive(f)
    BY DEF HasLive, Live, FamilyOf
  <2>6. Family!Abandon({g})
    BY <2>2, <2>3, <2>4, <2>5, OneFamilyMoves DEF Family!Abandon, TokensAdvance, ownerBar
  <2>7. QED
    BY <2>6
<1>5. QED
  BY <1>3, <1>4

LEMMA Stop ==
  ASSUME EndpointInv, UNCHANGED refresh, \A r \in Requests : ~MintingNow(r)'
  PROVE  \/ UNCHANGED <<stageBar, ownerBar>>
         \/ \E S \in SUBSET Families : Family!Abandon(S)
<1> DEFINE S == {f \in Families : Rotates(f)}
<1>1. \A r \in Requests, f \in Families : ~Rotating(r, f)'
  BY DEF MintingNow, Rotating
<1>2. CASE \A f \in Families : ~Rotates(f)
  BY <1>1, <1>2, Quiet DEF Rotates
<1>3. CASE \E f \in Families : Rotates(f)
  <2>1. \A f \in S : FamilyStage(f) = "rotating" /\ FamilyStage(f)' = "dead"
    <3>1. ASSUME NEW f \in Families, Rotates(f)
          PROVE  FamilyStage(f) = "rotating" /\ FamilyStage(f)' = "dead"
      <4>1. FamilyStage(f) = "rotating" /\ Born(f) /\ ~HasLive(f)
        BY <3>1, FamilyFacts, StageCases
      <4>2. Born(f)' /\ ~HasLive(f)' /\ ~Rotates(f)'
        BY <1>1, <4>1 DEF Born, HasLive, Rotates, Live, FamilyOf
      <4>3. QED
        BY <4>1, <4>2 DEF FamilyStage, HasLive, Rotates
    <3>2. QED
      BY <3>1
  <2>2. \A f \in Families \ S : FamilyStage(f)' = FamilyStage(f)
    BY <1>1 DEF FamilyStage, Rotates, Live, FamilyOf, Born
  <2>3. ownerBar' = ownerBar
    BY DEF ownerBar, FamilyOwner, OwnerOf, FamilyOf
  <2>4. S \in SUBSET Families /\ S # {}
    BY <1>3
  <2>5. Family!Abandon(S)
    BY <2>1, <2>2, <2>3, <2>4 DEF Family!Abandon, ownerBar
  <2>6. QED
    BY <2>4, <2>5
<1>4. QED
  BY <1>2, <1>3

(* Token t is spent by request r, which rotates its family or gives it up. *)
LEMMA Spend ==
  ASSUME EndpointInv, NEW r \in Requests, NEW t \in RefreshTokens, Live(t),
         refresh' = MarkRevoked(t), ~MintingNow(r),
         \A q \in Requests \ {r} : reqs'[q] = reqs[q],
         MintingNow(r)' => reqs'[r].family = FamilyOf(t)
  PROVE  \E g \in Families : Family!Take(g) \/ Family!Revoke(g)
<1>1. TypeOK
  BY DEF EndpointInv
<1>2. TokensAdvance /\ refresh'[t].revoked
  BY <1>1, TakeRefreshAdvances
<1>3. PICK g \in Families : FamilyOf(t) = g
  BY <1>1 DEF TypeOK, RefreshRow, Live, FamilyOf
<1>4. HasLive(g) /\ ~Rotates(g)
  BY <1>3, FamilyFacts DEF HasLive
<1>5. \A u \in RefreshTokens \ {t} : refresh'[u] = refresh[u]
  BY <1>1 DEF MarkRevoked, TypeOK
<1>6. ~HasLive(g)'
  BY <1>2, <1>3, <1>5 DEF HasLive, EndpointInv, OneLiveTokenPerFamily, Live, FamilyOf
<1>7. \A f \in Families \ {g} : HasLive(f)' = HasLive(f)
  BY <1>2, <1>3, <1>5 DEF HasLive, Live, FamilyOf
<1>8. \A f \in Families \ {g} : Rotates(f)' = Rotates(f)
  BY <1>3 DEF Rotates, Rotating, MintingNow
<1>9. CASE Rotates(g)'
  BY <1>2, <1>4, <1>7, <1>8, <1>9, TakeStep
<1>10. CASE ~Rotates(g)'
  BY <1>2, <1>4, <1>6, <1>7, <1>8, <1>10, RevokeStep
<1>11. QED
  BY <1>9, <1>10

(* A whole family is revoked. *)
LEMMA Sweep ==
  ASSUME EndpointInv, NEW g \in Families, refresh' = FamilyRevoked(g),
         \A r \in Requests, f \in Families : Rotating(r, f)' <=> Rotating(r, f)
  PROVE  UNCHANGED <<stageBar, ownerBar>> \/ Family!Revoke(g)
<1>1. TypeOK
  BY DEF EndpointInv
<1>2. TokensAdvance
  BY <1>1 DEF FamilyRevoked, TokensAdvance
<1>3. ~HasLive(g)'
  <2>1. ASSUME NEW t \in RefreshTokens, Live(t)', FamilyOf(t)' = g PROVE FALSE
    <3>1. Live(t) /\ FamilyOf(t) = g
      BY <1>1, <1>2, <2>1, TokensKeep DEF Live
    <3>2. refresh[t] \in RefreshRow /\ refresh'[t] = [refresh[t] EXCEPT !.revoked = TRUE]
      BY <1>1, <3>1 DEF Live, FamilyOf, FamilyRevoked, TypeOK
    <3>3. QED
      BY <2>1, <3>2 DEF Live, RefreshRow
  <2>2. QED
    BY <2>1 DEF HasLive
<1>4. \A f \in Families \ {g} : HasLive(f)' = HasLive(f)
  BY <1>1 DEF HasLive, Live, FamilyOf, FamilyRevoked, TypeOK, RefreshRow
<1>5. \A f \in Families : Rotates(f)' = Rotates(f)
  BY DEF Rotates
<1>6. CASE HasLive(g)
  BY <1>2, <1>3, <1>4, <1>5, <1>6, FamilyFacts, RevokeStep
<1>7. CASE ~HasLive(g)
  <2>1. HasLive(g)' = HasLive(g)
    BY <1>3, <1>7 DEF HasLive
  <2>2. QED
    BY <1>2, <1>4, <1>5, <2>1, Stutter
<1>8. QED
  BY <1>6, <1>7

(* Request r stores the child t: its family opens, or gets its baton back. *)
LEMMA HandOver ==
  ASSUME EndpointInv, TypeOK', NEW r \in Requests, NEW t \in RefreshTokens,
         NEW f \in Families, reqs[r].pc = "put_refresh", PutRefresh(reqs[r], t, f),
         \A q \in Requests \ {r} : reqs'[q] = reqs[q], ~MintingNow(r)'
  PROVE  \/ \E o \in [client : Clients, grant : Offline] : Family!Mint(f, o)
         \/ Family!Return(f)
<1>1. TypeOK /\ MintingNow(r) /\ reqs[r] \in Minting /\ CarriesSource(reqs[r])
  BY LocalTypes DEF EndpointInv, MinterCarriesSource, MintingNow
<1>2. /\ refresh[t] = NoRow
      /\ \A u \in RefreshTokens \ {t} : refresh'[u] = refresh[u]
      /\ refresh'[t] \in RefreshRow
      /\ refresh'[t].family = f /\ ~refresh'[t].revoked
      /\ refresh'[t].client = reqs[r].client /\ refresh'[t].grant = reqs[r].grant
  BY <1>1, NoRowAssumption, NatAssumption DEF PutRefresh, TypeOK, Minting, RefreshRow
<1>3. refresh'[t] # NoRow
  BY <1>2, NoRowAssumption
<1>4. HasLive(f)'
  BY <1>2, <1>3 DEF HasLive, Live, FamilyOf
<1>5. reqs[r].family = f \/ (reqs[r].family = NoFamily /\ ~Born(f))
  BY <1>1 DEF PutRefresh, FamilyFor, Born, FamilyOf
<1>6. \A q \in Requests, g \in Families :
        Rotating(q, g)' <=> (q # r /\ Rotating(q, g))
  BY DEF Rotating, MintingNow
<1>7. ~Rotates(f)'
  <2>1. CASE reqs[r].family = f
    BY <1>1, <1>6, <2>1 DEF Rotates, EndpointInv, OneRotation, Rotating, MintingNow
  <2>2. CASE reqs[r].family # f
    BY <1>5, <1>6, <2>2, FamilyFacts DEF Rotates
  <2>3. QED
    BY <2>1, <2>2
<1>8. FamilyStage(f)' = "live"
  BY <1>4, <1>7 DEF FamilyStage, HasLive, Rotates
<1>9. ASSUME NEW g \in Families \ {f}
      PROVE  FamilyStage(g)' = FamilyStage(g) /\ FamilyOwner(g)' = FamilyOwner(g)
  <2>1. Rotates(g)' = Rotates(g)
    BY <1>5, <1>6, <1>9, FamiliesAssumption DEF Rotates, Rotating
  <2>2. HasLive(g)' = HasLive(g) /\ Born(g)' = Born(g)
    BY <1>2, <1>9 DEF HasLive, Born, Live, FamilyOf
  <2>3. FamilyOwner(g)' = FamilyOwner(g)
    BY <1>2, <1>9 DEF FamilyOwner, OwnerOf, FamilyOf
  <2>4. QED
    BY <2>1, <2>2, <2>3 DEF FamilyStage, Rotates, HasLive
<1> DEFINE o == [client |-> reqs[r].client, grant |-> reqs[r].grant]
<1>10. FamilyOwner(f)' = FamilyOwner(f) \cup {o}
  BY <1>2, <1>3 DEF FamilyOwner, OwnerOf, FamilyOf
<1>11. CASE reqs[r].family = f
  <2>1. reqs[r].src \in RefreshTokens \ Codes
    BY <1>1, <1>11, FamiliesAssumption DEF CarriesSource, Minting, Sources
  <2>2. refresh[reqs[r].src] # NoRow /\ FamilyOf(reqs[r].src) = f /\ OwnerOf(reqs[r].src) = o
    BY <1>1, <1>11, <2>1 DEF CarriesSource, SourceSpent, SourceRow, OwnerOf
  <2>3. FamilyOwner(f)' = FamilyOwner(f)
    BY <1>10, <2>1, <2>2 DEF FamilyOwner
  <2>4. FamilyStage(f) = "rotating"
    BY <1>1, <1>11, StageCases DEF Rotates, Rotating, MintingNow
  <2>5. Family!Return(f)
    BY <1>8, <1>9, <2>3, <2>4 DEF Family!Return, Family!Move
  <2>6. QED
    BY <2>5
<1>12. CASE reqs[r].family # f
  <2>1. reqs[r].family = NoFamily /\ ~Born(f)
    BY <1>5, <1>12
  <2>2. FamilyStage(f) = "unborn" /\ FamilyOwner(f) = {}
    BY <2>1, FamilyFacts, StageCases DEF FamilyOwner, Born
  <2>3. reqs[r].src \in Codes
    BY <1>1, <2>1, FamiliesAssumption
    DEF CarriesSource, SourceSpent, Minting, Sources, TypeOK, RefreshRow, FamilyOf
  <2>4. o \in [client : Clients, grant : Offline]
    BY <1>1, <2>3 DEF CarriesSource, Minting
  <2>5. FamilyOwner(f)' = {o}
    BY <1>10, <2>2
  <2>6. Family!Mint(f, o)
    BY <1>8, <1>9, <2>2, <2>5 DEF Family!Mint, Family!Move
  <2>7. QED
    BY <2>4, <2>6
<1>13. QED
  BY <1>11, <1>12

-----------------------------------------------------------------------------
(***************************************************************************)
(* Every step of the endpoint is a step of the abstract families or a      *)
(* stutter.                                                                *)
(***************************************************************************)
AbstractStep == Family!Next \/ UNCHANGED <<stageBar, ownerBar>>

LEMMA AbstractMoves ==
  /\ \A g \in Families : Family!Take(g) \/ Family!Revoke(g) \/ Family!Return(g) => Family!Next
  /\ \A g \in Families, o \in [client : Clients, grant : Offline] :
       Family!Mint(g, o) => Family!Next
  /\ \A S \in SUBSET Families : Family!Abandon(S) => Family!Next
  BY DEF Family!Next

LEMMA HandleSimulates ==
  ASSUME EndpointInv, TypeOK', NEW r \in Requests, Handle(r)
  PROVE  AbstractStep
<1>0. TypeOK
  BY DEF EndpointInv
<1>00. ASSUME NEW local, Goto(r, local)
       PROVE  reqs'[r] = local /\ \A q \in Requests \ {r} : reqs'[q] = reqs[q]
  BY <1>0, <1>00 DEF Goto, TypeOK
<1>1. CASE TakeCode(r)
  <2>1. \A f \in Families : ~Rotating(r, f) /\ ~Rotating(r, f)'
    BY <1>00, <1>1, FamiliesAssumption DEF TakeCode, Rotating, Idle
  <2>2. \A q \in Requests, f \in Families : Rotating(q, f)' <=> Rotating(q, f)
    BY <1>00, <1>1, <2>1 DEF TakeCode, Rotating
  <2>3. QED
    BY <1>1, <2>2, Quiet DEF TakeCode, AbstractStep
<1>2. CASE TakeRefresh(r)
  <2>1. PICK t \in RefreshTokens : t = reqs[r].token
    BY <1>0, <1>2, LocalTypes DEF TakeRefresh, RefreshRequest
  <2>2. /\ \A q \in Requests \ {r} : reqs'[q] = reqs[q]
        /\ MintingNow(r)' => reqs'[r].family = FamilyOf(t)
        /\ Live(t) /\ refresh' = MarkRevoked(t) /\ ~MintingNow(r)
    BY <1>00, <1>2, <2>1 DEF TakeRefresh, MintingNow, FamilyOf
  <2>3. QED
    BY <2>2, Spend, AbstractMoves DEF AbstractStep
<1>3. CASE RevokeFamily(r)
  <2>1. PICK g \in Families : g = reqs[r].family
    BY <1>0, <1>3, LocalTypes DEF RevokeFamily, Revoking
  <2>2. reqs[r] \in Revoking
    BY <1>0, <1>3, LocalTypes DEF RevokeFamily
  <2>3. reqs'[r].pc = "audit_revoke" /\ \A q \in Requests \ {r} : reqs'[q] = reqs[q]
    BY <1>00, <1>3, <2>2 DEF RevokeFamily, Revoking
  <2>4. \A q \in Requests, f \in Families : Rotating(q, f)' <=> Rotating(q, f)
    BY <1>3, <2>3 DEF RevokeFamily, Rotating
  <2>5. QED
    BY <1>3, <2>1, <2>4, Sweep, AbstractMoves DEF RevokeFamily, AbstractStep
<1>4. CASE RefuseCode(r) \/ DetectReuse(r) \/ AuditRevoke(r) \/ Respond(r)
  <2>1. ~MintingNow(r)' /\ \A q \in Requests \ {r} : reqs'[q] = reqs[q]
    BY <1>00, <1>4 DEF RefuseCode, DetectReuse, AuditRevoke, Respond, MintingNow, Idle
  <2>2. ~MintingNow(r) /\ UNCHANGED refresh
    BY <1>4 DEF RefuseCode, DetectReuse, AuditRevoke, Respond, MintingNow
  <2>3. \A q \in Requests, f \in Families : Rotating(q, f)' <=> Rotating(q, f)
    BY <2>1, <2>2 DEF MintingNow, Rotating
  <2>4. QED
    BY <2>2, <2>3, Quiet DEF AbstractStep
<1>5. CASE WriteAccess(r)
  <2>1. reqs[r] \in Minting /\ MintingNow(r) /\ UNCHANGED refresh
    BY <1>0, <1>5, LocalTypes DEF WriteAccess, MintingNow
  <2>2. CASE reqs[r].withRefresh
    <3>1. reqs'[r] = [reqs[r] EXCEPT !.pc = "put_refresh"]
          /\ \A q \in Requests \ {r} : reqs'[q] = reqs[q]
      BY <1>00, <1>5, <2>2 DEF WriteAccess
    <3>2. \A q \in Requests, f \in Families : Rotating(q, f)' <=> Rotating(q, f)
      BY <1>5, <2>1, <3>1 DEF WriteAccess, Minting, Rotating
    <3>3. QED
      BY <2>1, <3>2, Quiet DEF AbstractStep
  <2>3. CASE ~reqs[r].withRefresh
    <3>1. ~MintingNow(r)' /\ \A q \in Requests \ {r} : reqs'[q] = reqs[q]
      BY <1>00, <1>5, <2>3 DEF WriteAccess, Answer, MintingNow
    <3>2. QED
      BY <2>1, <3>1, Drop, AbstractMoves DEF AbstractStep
  <2>4. QED
    BY <2>2, <2>3
<1>6. ASSUME NEW t \in RefreshTokens, NEW f \in Families, WriteRefresh(r, t, f)
      PROVE  AbstractStep
  <2>1. ~MintingNow(r)' /\ \A q \in Requests \ {r} : reqs'[q] = reqs[q]
    BY <1>00, <1>6 DEF WriteRefresh, Answer, MintingNow
  <2>2. QED
    BY <1>6, <2>1, HandOver, AbstractMoves DEF WriteRefresh, AbstractStep
<1>7. QED
  BY <1>1, <1>2, <1>3, <1>4, <1>5, <1>6 DEF Handle

LEMMA FailSimulates ==
  ASSUME EndpointInv, TypeOK', NEW r \in Requests, Fail(r)
  PROVE  AbstractStep
<1>0. TypeOK
  BY DEF EndpointInv
<1>00. ASSUME NEW local, Goto(r, local)
       PROVE  reqs'[r] = local /\ \A q \in Requests \ {r} : reqs'[q] = reqs[q]
  BY <1>0, <1>00 DEF Goto, TypeOK
<1>1. ASSUME UNCHANGED refresh, ~MintingNow(r), ~MintingNow(r)',
             \A q \in Requests \ {r} : reqs'[q] = reqs[q]
      PROVE  AbstractStep
  <2>1. \A q \in Requests, f \in Families : Rotating(q, f)' <=> Rotating(q, f)
    BY <1>1 DEF MintingNow, Rotating
  <2>2. QED
    BY <1>1, <2>1, Quiet DEF AbstractStep
<1>2. CASE TakeCodeError(r)
  BY <1>00, <1>1, <1>2 DEF TakeCodeError, MintingNow, Idle
<1>3. CASE TakeRefreshError(r)
  <2>1. PICK t \in RefreshTokens : t = reqs[r].token
    BY <1>0, <1>3, LocalTypes DEF TakeRefreshError, RefreshRequest
  <2>2. ~MintingNow(r) /\ ~MintingNow(r)' /\ \A q \in Requests \ {r} : reqs'[q] = reqs[q]
    BY <1>00, <1>3 DEF TakeRefreshError, MintingNow, Idle
  <2>3. CASE UNCHANGED refresh
    BY <1>1, <2>2, <2>3
  <2>4. CASE Live(t) /\ refresh' = MarkRevoked(t)
    BY <2>2, <2>4, Spend, AbstractMoves DEF AbstractStep
  <2>5. QED
    BY <1>3, <2>1, <2>3, <2>4 DEF TakeRefreshError
<1>4. CASE RevokeFamilyError(r) \/ LoseAnswer(r)
  <2>1. ~MintingNow(r)' /\ \A q \in Requests \ {r} : reqs'[q] = reqs[q]
    BY <1>0, <1>00, <1>4, LocalTypes
    DEF RevokeFamilyError, LoseAnswer, MintingNow, Idle, Revoking
  <2>2. ~MintingNow(r) /\ UNCHANGED refresh
    BY <1>4 DEF RevokeFamilyError, LoseAnswer, MintingNow
  <2>3. QED
    BY <1>1, <2>1, <2>2
<1>5. CASE WriteAccessError(r)
  <2>1. /\ MintingNow(r) /\ UNCHANGED refresh
        /\ ~MintingNow(r)' /\ \A q \in Requests \ {r} : reqs'[q] = reqs[q]
    BY <1>00, <1>5 DEF WriteAccessError, MintingNow, Idle
  <2>2. QED
    BY <2>1, Drop, AbstractMoves DEF AbstractStep
<1>6. ASSUME NEW t \in RefreshTokens, NEW f \in Families, WriteRefreshError(r, t, f)
      PROVE  AbstractStep
  <2>1. /\ reqs[r].pc = "put_refresh" /\ MintingNow(r)
        /\ ~MintingNow(r)' /\ \A q \in Requests \ {r} : reqs'[q] = reqs[q]
    BY <1>00, <1>6 DEF WriteRefreshError, MintingNow, Idle
  <2>2. CASE UNCHANGED refresh
    BY <2>1, <2>2, Drop, AbstractMoves DEF AbstractStep
  <2>3. CASE PutRefresh(reqs[r], t, f)
    BY <2>1, <2>3, HandOver, AbstractMoves DEF AbstractStep
  <2>4. QED
    BY <1>6, <2>2, <2>3 DEF WriteRefreshError
<1>7. QED
  BY <1>2, <1>3, <1>4, <1>5, <1>6 DEF Fail

LEMMA StepSimulates == EndpointInv /\ TypeOK' /\ [Next]_vars => AbstractStep
<1> SUFFICES ASSUME EndpointInv, TypeOK', [Next]_vars PROVE AbstractStep
  OBVIOUS
<1>0. TypeOK
  BY DEF EndpointInv
<1>1. CASE UNCHANGED <<refresh, reqs>>
  BY <1>1, Quiet DEF Rotating, AbstractStep
<1>2. CASE Tick \/ UNCHANGED vars
  BY <1>1, <1>2 DEF Tick, vars
<1>3. ASSUME NEW k \in Codes, NEW c \in Clients, NEW g \in Grants, NEW u \in Redirects,
             NEW v \in Verifiers, IssueCode(k, c, g, u, v)
      PROVE  AbstractStep
  BY <1>1, <1>3 DEF IssueCode
<1>4. ASSUME NEW r \in Requests, Ask(r) PROVE AbstractStep
  <2>1. UNCHANGED refresh /\ reqs[r] = Idle /\ ~MintingNow(r)'
        /\ \A q \in Requests \ {r} : reqs'[q] = reqs[q]
    BY <1>0, <1>4 DEF Ask, AskWithCode, AskWithRefresh, Goto, TypeOK, MintingNow
  <2>2. \A q \in Requests, f \in Families : Rotating(q, f)' <=> Rotating(q, f)
    BY <2>1 DEF Idle, MintingNow, Rotating
  <2>3. QED
    BY <2>1, <2>2, Quiet DEF AbstractStep
<1>5. ASSUME NEW r \in Requests, Handle(r) PROVE AbstractStep
  BY <1>5, HandleSimulates
<1>6. ASSUME NEW r \in Requests, Fail(r) PROVE AbstractStep
  BY <1>6, FailSimulates
<1>7. CASE Restart
  BY <1>7, Stop, AbstractMoves DEF Restart, MintingNow, Idle, AbstractStep
<1>8. QED
  BY <1>2, <1>3, <1>4, <1>5, <1>6, <1>7 DEF Next

LEMMA InitSimulates == Init => Family!Init
<1> SUFFICES ASSUME Init PROVE Family!Init
  OBVIOUS
<1>1. \A f \in Families : FamilyStage(f) = "unborn"
  BY DEF Init, Idle, FamilyStage, Rotating, Live, Born
<1>2. \A f \in Families : FamilyOwner(f) = {}
  BY DEF Init, FamilyOwner
<1>3. QED
  BY <1>1, <1>2 DEF Family!Init

(***************************************************************************)
(* The token endpoint implements the abstract families: a family opens     *)
(* once, passes from one token to one child of the same client and grant,  *)
(* and never returns once it is dead.                                      *)
(***************************************************************************)
THEOREM FamilyRefinement == Spec => FamilyProtocol
<1>1. EndpointInv /\ TypeOK' /\ [Next]_vars => [Family!Next]_<<stageBar, ownerBar>>
  BY StepSimulates DEF AbstractStep
<1>2. EndpointInv => TypeOK
  BY DEF EndpointInv
<1>3. QED
  BY <1>1, <1>2, InitSimulates, EndpointInvariant, PTL
  DEF Spec, FamilyProtocol, Family!Spec, stageBar, ownerBar
-----------------------------------------------------------------------------
(***************************************************************************)
(* The trail of dead families.  While nothing fails, whoever holds the     *)
(* baton of a family hands it on or goes on to revoke it.                  *)
(***************************************************************************)
Revokes(r, f) == reqs[r].pc \in {"revoke", "audit_revoke"} /\ reqs[r].family = f

Audited(f) == [type |-> "revoke", family |-> f] \in audits

Accounted(f) == HasLive(f) \/ Rotates(f) \/ Audited(f) \/ \E r \in Requests : Revokes(r, f)

(* A rotation stores a child: only the last token of a code may be the last. *)
RotationsGoOn ==
  \A r \in Requests : MintingNow(r) /\ reqs[r].family # NoFamily => reqs[r].withRefresh

TrailInv == RotationsGoOn /\ \A f \in Families : Born(f) => Accounted(f)

(* What a step of one request does to the account of one family. *)
LEMMA AccountKept ==
  ASSUME NEW r \in Requests, \A q \in Requests \ {r} : reqs'[q] = reqs[q],
         audits \subseteq audits', NEW f \in Families, Accounted(f),
         HasLive(f) => HasLive(f)' \/ Rotating(r, f)' \/ Revokes(r, f)',
         Rotating(r, f) => Rotating(r, f)' \/ HasLive(f)',
         Revokes(r, f) => Revokes(r, f)' \/ Audited(f)'
  PROVE  Accounted(f)'
<1>1. CASE HasLive(f) \/ Audited(f)
  BY <1>1 DEF Accounted, Rotates, Audited
<1>2. ASSUME NEW q \in Requests, Rotating(q, f) PROVE Accounted(f)'
  BY <1>2 DEF Accounted, Rotates, Rotating
<1>3. ASSUME NEW q \in Requests, Revokes(q, f) PROVE Accounted(f)'
  BY <1>3 DEF Accounted, Revokes
<1> QED
  BY <1>1, <1>2, <1>3 DEF Accounted, Rotates

(* A step that touches no token, and at which no rotation ends. *)
LEMMA NoTokenTouched ==
  ASSUME TrailInv, NEW r \in Requests, \A q \in Requests \ {r} : reqs'[q] = reqs[q],
         audits \subseteq audits', UNCHANGED refresh,
         MintingNow(r)' /\ reqs'[r].family # NoFamily => reqs'[r].withRefresh,
         \A f \in Families : /\ Rotating(r, f) => Rotating(r, f)'
                             /\ Revokes(r, f) => Revokes(r, f)' \/ Audited(f)'
  PROVE  TrailInv'
<1>1. \A f \in Families : HasLive(f)' = HasLive(f) /\ Born(f)' = Born(f)
  BY DEF HasLive, Born, Live, FamilyOf
<1>2. \A f \in Families : Accounted(f) => Accounted(f)'
  BY <1>1, AccountKept
<1>3. RotationsGoOn'
  BY DEF TrailInv, RotationsGoOn, MintingNow
<1> QED
  BY <1>1, <1>2, <1>3 DEF TrailInv

LEMMA TakeTrail ==
  ASSUME EndpointInv, TrailInv, NEW r \in Requests, TakeRefresh(r)
  PROVE  TrailInv'
<1>0. TypeOK
  BY DEF EndpointInv
<1>1. PICK t \in RefreshTokens : t = reqs[r].token
  BY <1>0, LocalTypes DEF TakeRefresh, RefreshRequest
<1>2. TokensAdvance /\ Live(t) /\ refresh[t] \in RefreshRow
  BY <1>0, <1>1, TakeRefreshAdvances DEF TakeRefresh, Live, TypeOK
<1>3. \A q \in Requests \ {r} : reqs'[q] = reqs[q]
  BY <1>0 DEF TakeRefresh, Goto, TypeOK
<1>4. \/ /\ reqs'[r].pc = "put_access" /\ reqs'[r].family = FamilyOf(t) /\ reqs'[r].withRefresh
      \/ /\ reqs'[r].pc = "revoke" /\ reqs'[r].family = FamilyOf(t)
  BY <1>0, <1>1 DEF TakeRefresh, Goto, TypeOK, FamilyOf
<1>5. \A u \in RefreshTokens \ {t} : refresh'[u] = refresh[u]
  BY <1>0, <1>1 DEF TakeRefresh, MarkRevoked, TypeOK
<1>6. ASSUME NEW f \in Families, Accounted(f) PROVE Accounted(f)'
  <2>1. HasLive(f) => HasLive(f)' \/ Rotating(r, f)' \/ Revokes(r, f)'
    BY <1>4, <1>5 DEF HasLive, Live, FamilyOf, Rotating, Revokes
  <2>2. ~Rotating(r, f) /\ ~Revokes(r, f)
    BY DEF TakeRefresh, Rotating, Revokes
  <2> QED
    BY <1>3, <1>6, <2>1, <2>2, AccountKept DEF TakeRefresh
<1>7. \A f \in Families : Born(f)' = Born(f)
  BY <1>0, <1>2, OwnersKeep
<1>8. RotationsGoOn'
  BY <1>3, <1>4 DEF TrailInv, RotationsGoOn, MintingNow
<1> QED
  BY <1>6, <1>7, <1>8 DEF TrailInv

LEMMA RevokeTrail ==
  ASSUME EndpointInv, TrailInv, NEW r \in Requests, RevokeFamily(r)
  PROVE  TrailInv'
<1>0. TypeOK
  BY DEF EndpointInv
<1>1. PICK g \in Families : g = reqs[r].family
  BY <1>0, LocalTypes DEF RevokeFamily, Revoking
<1>2. reqs[r] \in Revoking
  BY <1>0, LocalTypes DEF RevokeFamily
<1>3. /\ reqs'[r].pc = "audit_revoke" /\ reqs'[r].family = g
      /\ \A q \in Requests \ {r} : reqs'[q] = reqs[q]
  BY <1>0, <1>1, <1>2 DEF RevokeFamily, Goto, TypeOK, Revoking
<1>4. TokensAdvance
  BY <1>0 DEF RevokeFamily, FamilyRevoked, TokensAdvance
<1>5. ASSUME NEW f \in Families, Accounted(f) PROVE Accounted(f)'
  <2>1. CASE f = g
    BY <1>3, <2>1 DEF Accounted, Revokes
  <2>2. CASE f # g
    <3>1. HasLive(f)' = HasLive(f)
      BY <1>0, <1>1, <2>2 DEF RevokeFamily, FamilyRevoked, HasLive, Live, FamilyOf, TypeOK, RefreshRow
    <3>2. ~Rotating(r, f) /\ ~Revokes(r, f)
      BY <1>1, <2>2 DEF RevokeFamily, Rotating, Revokes
    <3> QED
      BY <1>3, <1>5, <3>1, <3>2, AccountKept DEF RevokeFamily
  <2> QED
    BY <2>1, <2>2
<1>6. \A f \in Families : Born(f)' = Born(f)
  BY <1>0, <1>4, OwnersKeep
<1>7. RotationsGoOn'
  BY <1>3 DEF TrailInv, RotationsGoOn, MintingNow
<1> QED
  BY <1>5, <1>6, <1>7 DEF TrailInv

LEMMA WriteTrail ==
  ASSUME EndpointInv, TrailInv, NEW r \in Requests, NEW t \in RefreshTokens,
         NEW f \in Families, WriteRefresh(r, t, f)
  PROVE  TrailInv'
<1>0. TypeOK
  BY DEF EndpointInv
<1>1. /\ reqs'[r].pc = "respond" /\ \A q \in Requests \ {r} : reqs'[q] = reqs[q]
  BY <1>0 DEF WriteRefresh, Goto, Answer, TypeOK
<1>2. /\ refresh[t] = NoRow /\ \A u \in RefreshTokens \ {t} : refresh'[u] = refresh[u]
      /\ refresh'[t].family = f /\ ~refresh'[t].revoked
  BY <1>0 DEF WriteRefresh, PutRefresh, TypeOK
<1>3. refresh'[t] # NoRow
  <2>1. reqs[r] \in Minting
    BY <1>0, LocalTypes DEF WriteRefresh
  <2>2. refresh'[t] \in RefreshRow
    BY <1>0, <2>1, NatAssumption DEF WriteRefresh, PutRefresh, TypeOK, Minting, RefreshRow
  <2> QED
    BY <2>2, NoRowAssumption
<1>4. HasLive(f)'
  BY <1>2, <1>3 DEF HasLive, Live, FamilyOf
<1>5. ASSUME NEW g \in Families, g # f, Born(g)' PROVE Accounted(g)'
  <2>1. Born(g) /\ HasLive(g)' = HasLive(g)
    BY <1>2, <1>5 DEF Born, HasLive, Live, FamilyOf
  <2>2. ~Rotating(r, g)
    <3>1. reqs[r].family \in {f, NoFamily}
      BY DEF WriteRefresh, PutRefresh, FamilyFor
    <3> QED
      BY <1>5, <3>1, FamiliesAssumption DEF Rotating
  <2>3. ~Revokes(r, g) /\ Accounted(g)
    BY <2>1 DEF WriteRefresh, Revokes, TrailInv
  <2> QED
    BY <1>1, <2>1, <2>2, <2>3, AccountKept DEF WriteRefresh
<1>6. RotationsGoOn'
  BY <1>1 DEF TrailInv, RotationsGoOn, MintingNow
<1> QED
  BY <1>4, <1>5, <1>6 DEF TrailInv, Accounted

LEMMA HandleTrail ==
  ASSUME EndpointInv, TrailInv, NEW r \in Requests, Handle(r)
  PROVE  TrailInv'
<1>0. TypeOK
  BY DEF EndpointInv
<1>00. ASSUME NEW local, Goto(r, local)
       PROVE  reqs'[r] = local /\ \A q \in Requests \ {r} : reqs'[q] = reqs[q]
  BY <1>0, <1>00 DEF Goto, TypeOK
<1>1. CASE TakeCode(r)
  <2>1. \A f \in Families : ~Rotating(r, f) /\ ~Revokes(r, f)
    BY <1>1 DEF TakeCode, Rotating, Revokes
  <2>2. /\ MintingNow(r)' => reqs'[r].family = NoFamily
        /\ \A q \in Requests \ {r} : reqs'[q] = reqs[q]
    BY <1>00, <1>1 DEF TakeCode, MintingNow, Idle
  <2> QED
    BY <1>1, <2>1, <2>2, NoTokenTouched DEF TakeCode
<1>2. CASE TakeRefresh(r)
  BY <1>2, TakeTrail
<1>3. CASE RefuseCode(r) \/ DetectReuse(r) \/ Respond(r)
  <2>1. \A f \in Families : ~Rotating(r, f) /\ ~Revokes(r, f)
    BY <1>3 DEF RefuseCode, DetectReuse, Respond, Rotating, Revokes
  <2>2. ~MintingNow(r)' /\ \A q \in Requests \ {r} : reqs'[q] = reqs[q]
    BY <1>00, <1>3 DEF RefuseCode, DetectReuse, Respond, MintingNow, Idle
  <2>3. UNCHANGED refresh /\ audits \subseteq audits'
    BY <1>3 DEF RefuseCode, DetectReuse, Respond
  <2> QED
    BY <2>1, <2>2, <2>3, NoTokenTouched
<1>4. CASE RevokeFamily(r)
  BY <1>4, RevokeTrail
<1>5. CASE AuditRevoke(r)
  <2>1. ~MintingNow(r)' /\ \A q \in Requests \ {r} : reqs'[q] = reqs[q]
    BY <1>00, <1>5 DEF AuditRevoke, MintingNow, Idle
  <2>2. \A f \in Families : ~Rotating(r, f) /\ (Revokes(r, f) => Audited(f)')
    BY <1>5 DEF AuditRevoke, Rotating, Revokes, Audited
  <2> QED
    BY <1>5, <2>1, <2>2, NoTokenTouched DEF AuditRevoke
<1>6. CASE WriteAccess(r)
  <2>1. reqs[r] \in Minting /\ MintingNow(r)
    BY <1>0, <1>6, LocalTypes DEF WriteAccess, MintingNow
  <2>2. \A f \in Families : ~Revokes(r, f)
    BY <1>6 DEF WriteAccess, Revokes
  <2>3. CASE reqs[r].withRefresh
    <3>1. reqs'[r] = [reqs[r] EXCEPT !.pc = "put_refresh"]
          /\ \A q \in Requests \ {r} : reqs'[q] = reqs[q]
      BY <1>00, <1>6, <2>3 DEF WriteAccess
    <3>2. reqs'[r].withRefresh /\ \A f \in Families : Rotating(r, f) => Rotating(r, f)'
      BY <2>1, <2>3, <3>1 DEF Minting, Rotating
    <3> QED
      BY <1>6, <2>2, <3>1, <3>2, NoTokenTouched DEF WriteAccess
  <2>4. CASE ~reqs[r].withRefresh
    <3>1. ~MintingNow(r)' /\ \A q \in Requests \ {r} : reqs'[q] = reqs[q]
      BY <1>00, <1>6, <2>4 DEF WriteAccess, Answer, MintingNow
    <3>2. \A f \in Families : ~Rotating(r, f)
      BY <2>1, <2>4, FamiliesAssumption DEF TrailInv, RotationsGoOn, Rotating
    <3> QED
      BY <1>6, <2>2, <3>1, <3>2, NoTokenTouched DEF WriteAccess
  <2> QED
    BY <2>3, <2>4
<1>7. ASSUME NEW t \in RefreshTokens, NEW f \in Families, WriteRefresh(r, t, f)
      PROVE  TrailInv'
  BY <1>7, WriteTrail
<1> QED
  BY <1>1, <1>2, <1>3, <1>4, <1>5, <1>6, <1>7 DEF Handle

LEMMA TrailStep ==
  TypeOK' /\ EndpointInv /\ (faults = 0 => TrailInv) /\ [Next]_vars => (faults = 0 => TrailInv)'
<1> SUFFICES ASSUME EndpointInv, TypeOK', faults = 0 => TrailInv, [Next]_vars, faults' = 0
             PROVE  TrailInv'
  OBVIOUS
<1>0. TypeOK /\ faults \in Nat
  BY DEF EndpointInv, TypeOK
<1>00. ~Fault
  BY <1>0 DEF Fault
<1>1. ASSUME UNCHANGED faults, UNCHANGED <<refresh, reqs, audits>> PROVE TrailInv'
  BY <1>1 DEF TrailInv, RotationsGoOn, MintingNow, Accounted, HasLive, Rotates, Rotating,
              Revokes, Audited, Born, Live, FamilyOf
<1>2. CASE Tick \/ UNCHANGED vars
  BY <1>1, <1>2 DEF Tick, vars
<1>3. ASSUME NEW k \in Codes, NEW c \in Clients, NEW g \in Grants, NEW u \in Redirects,
             NEW v \in Verifiers, IssueCode(k, c, g, u, v)
      PROVE  TrailInv'
  BY <1>1, <1>3 DEF IssueCode
<1>4. ASSUME NEW r \in Requests, Ask(r) PROVE TrailInv'
  <2>1. /\ UNCHANGED <<refresh, audits, faults>> /\ reqs[r] = Idle /\ ~MintingNow(r)'
        /\ \A q \in Requests \ {r} : reqs'[q] = reqs[q]
    BY <1>0, <1>4 DEF Ask, AskWithCode, AskWithRefresh, Goto, TypeOK, MintingNow
  <2>2. \A f \in Families : ~Rotating(r, f) /\ ~Revokes(r, f)
    BY <2>1 DEF Idle, Rotating, Revokes
  <2> QED
    BY <2>1, <2>2, NoTokenTouched
<1>5. ASSUME NEW r \in Requests, Handle(r) PROVE TrailInv'
  <2>1. UNCHANGED faults
    BY <1>5 DEF Handle, TakeCode, RefuseCode, TakeRefresh, DetectReuse, RevokeFamily,
                AuditRevoke, WriteAccess, WriteRefresh, Respond
  <2> QED
    BY <1>5, <2>1, HandleTrail
<1>6. ASSUME NEW r \in Requests, Fail(r) PROVE TrailInv'
  BY <1>00, <1>6 DEF Fail, TakeCodeError, TakeRefreshError, RevokeFamilyError,
                     WriteAccessError, WriteRefreshError, LoseAnswer
<1>7. CASE Restart
  BY <1>00, <1>7 DEF Restart
<1> QED
  BY <1>2, <1>3, <1>4, <1>5, <1>6, <1>7 DEF Next

(***************************************************************************)
(* While nothing fails, a family that is lost has its event in the trail,  *)
(* or a request about to write it.                                         *)
(***************************************************************************)
THEOREM LossesAreAudited == Spec => []DeadFamilyIsAudited
<1>1. Init => (faults = 0 => TrailInv)
  BY DEF Init, Idle, TrailInv, RotationsGoOn, MintingNow, Born
<1>2. EndpointInv => TypeOK
  BY DEF EndpointInv
<1>3. (faults = 0 => TrailInv) => DeadFamilyIsAudited
  BY DEF TrailInv, Accounted, HasLive, Rotates, Audited, Revokes, DeadFamilyIsAudited, Dead
<1> QED
  BY <1>1, <1>2, <1>3, TrailStep, EndpointInvariant, PTL DEF Spec

-----------------------------------------------------------------------------
(***************************************************************************)
(* What a revocation achieves, where the code's comments promise more.     *)
(***************************************************************************)
(* Every write of the token table revokes rows, or adds one.               *)
LEMMA TokensStay ==
  ASSUME TypeOK, [Next]_vars
  PROVE  \/ TokensAdvance
         \/ \E t \in RefreshTokens :
              refresh[t] = NoRow /\ \A u \in RefreshTokens \ {t} : refresh'[u] = refresh[u]
<1> DEFINE Adds(t) ==
      refresh[t] = NoRow /\ \A u \in RefreshTokens \ {t} : refresh'[u] = refresh[u]
<1>1. CASE UNCHANGED refresh
  BY <1>1 DEF TokensAdvance
<1>2. ASSUME NEW r \in Requests, TakeRefresh(r) \/ TakeRefreshError(r) PROVE TokensAdvance
  <2>1. reqs[r].token \in RefreshTokens
    BY <1>2, LocalTypes DEF TakeRefresh, TakeRefreshError, RefreshRequest
  <2>2. UNCHANGED refresh \/ (Live(reqs[r].token) /\ refresh' = MarkRevoked(reqs[r].token))
    BY <1>2 DEF TakeRefresh, TakeRefreshError
  <2>3. QED
    BY <1>1, <2>1, <2>2, TakeRefreshAdvances DEF TokensAdvance
<1>3. ASSUME NEW r \in Requests, RevokeFamily(r) PROVE TokensAdvance
  BY <1>3 DEF RevokeFamily, FamilyRevoked, TokensAdvance
<1>4. ASSUME NEW m, NEW t \in RefreshTokens, NEW f \in Families, PutRefresh(m, t, f)
      PROVE  Adds(t)
  BY <1>4 DEF PutRefresh, TypeOK
<1>5. ASSUME NEW r \in Requests, Handle(r) PROVE TokensAdvance \/ \E t \in RefreshTokens : Adds(t)
  BY <1>1, <1>2, <1>3, <1>4, <1>5 DEF Handle, TakeCode, RefuseCode, DetectReuse, AuditRevoke,
     WriteAccess, WriteRefresh, Respond, TokensAdvance
<1>6. ASSUME NEW r \in Requests, Fail(r) PROVE TokensAdvance \/ \E t \in RefreshTokens : Adds(t)
  BY <1>1, <1>2, <1>4, <1>6 DEF Fail, TakeCodeError, RevokeFamilyError, WriteAccessError,
     WriteRefreshError, LoseAnswer, TokensAdvance
<1>7. ASSUME NEW r \in Requests, Ask(r) PROVE UNCHANGED refresh
  BY <1>7 DEF Ask, AskWithCode, AskWithRefresh
<1>8. CASE Tick \/ Restart \/ UNCHANGED vars
  BY <1>1, <1>8 DEF Tick, Restart, vars
<1>9. CASE \E k \in Codes, c \in Clients, g \in Grants, u \in Redirects, v \in Verifiers :
             IssueCode(k, c, g, u, v)
  BY <1>1, <1>9 DEF IssueCode
<1>10. QED
  BY <1>1, <1>5, <1>6, <1>7, <1>8, <1>9 DEF Next

LEMMA BornKept ==
  ASSUME TypeOK, [Next]_vars, NEW f \in Families, Born(f)
  PROVE  Born(f)'
<1>1. CASE TokensAdvance
  BY <1>1, OwnersKeep
<1>2. ASSUME NEW t \in RefreshTokens, refresh[t] = NoRow,
             \A u \in RefreshTokens \ {t} : refresh'[u] = refresh[u]
      PROVE  Born(f)'
  BY <1>2 DEF Born, FamilyOf
<1>3. QED
  BY <1>1, <1>2, TokensStay

(* A step of one request leaves the others where they are, but for a restart. *)
LEMMA OneRequestMoves ==
  ASSUME TypeOK, [Next]_vars, NEW r \in Requests, reqs'[r] # reqs[r]
  PROVE  Ask(r) \/ Handle(r) \/ Fail(r) \/ Restart
<1>1. ASSUME NEW q \in Requests, NEW local, Goto(q, local) PROVE q = r
  BY <1>1 DEF Goto, TypeOK
<1>2. ASSUME NEW q \in Requests, Ask(q) PROVE q = r
  BY <1>1, <1>2 DEF Ask, AskWithCode, AskWithRefresh
<1>3. ASSUME NEW q \in Requests, Handle(q) PROVE q = r
  <2>1. CASE TakeCode(q) \/ RefuseCode(q) \/ TakeRefresh(q) \/ DetectReuse(q)
    BY <1>1, <2>1 DEF TakeCode, RefuseCode, TakeRefresh, DetectReuse
  <2>2. CASE ~(TakeCode(q) \/ RefuseCode(q) \/ TakeRefresh(q) \/ DetectReuse(q))
    BY <1>1, <1>3, <2>2 DEF Handle, RevokeFamily, AuditRevoke, WriteAccess, WriteRefresh, Respond
  <2>3. QED
    BY <2>1, <2>2
<1>4. ASSUME NEW q \in Requests, Fail(q) PROVE q = r
  BY <1>1, <1>4 DEF Fail, TakeCodeError, TakeRefreshError, RevokeFamilyError, WriteAccessError,
     WriteRefreshError, LoseAnswer
<1>5. ~Tick /\ ~UNCHANGED vars
  BY DEF Tick, vars
<1>6. ASSUME NEW k \in Codes, NEW c \in Clients, NEW g \in Grants, NEW u \in Redirects,
             NEW v \in Verifiers, IssueCode(k, c, g, u, v)
      PROVE  FALSE
  BY <1>6 DEF IssueCode
<1>7. QED
  BY <1>2, <1>3, <1>4, <1>5, <1>6 DEF Next

LEMMA AskIsNew ==
  ASSUME TypeOK, NEW r \in Requests, Ask(r)
  PROVE  reqs[r] = Idle /\ reqs'[r].pc \in {"take_code", "take_refresh"}
<1>1. ASSUME NEW c \in Clients, NEW k \in Codes, NEW u \in Redirects, NEW v \in Verifiers,
             AskWithCode(r, c, k, u, v)
      PROVE  reqs[r] = Idle /\ reqs'[r].pc = "take_code"
  BY <1>1 DEF AskWithCode, Goto, TypeOK
<1>2. ASSUME NEW c \in Clients, NEW t \in RefreshTokens, AskWithRefresh(r, c, t)
      PROVE  reqs[r] = Idle /\ reqs'[r].pc = "take_refresh"
  BY <1>2 DEF AskWithRefresh, Goto, TypeOK
<1>3. QED
  BY <1>1, <1>2 DEF Ask

(* Whoever revokes a family has found a token of it.                       *)
RevokesAreBorn == \A r \in Requests, f \in Families : Revokes(r, f) => Born(f)

LEMMA RevokesFindAToken ==
  ASSUME TypeOK, RevokesAreBorn, [Next]_vars,
         NEW r \in Requests, NEW f \in Families, Revokes(r, f)'
  PROVE  Born(f)
<1>1. CASE reqs'[r] = reqs[r]
  BY <1>1 DEF Revokes, RevokesAreBorn
<1>2. CASE reqs'[r] # reqs[r]
  <2>0. ASSUME NEW local, Goto(r, local)
        PROVE  local.pc \in {"revoke", "audit_revoke"} /\ local.family = f
    BY <2>0 DEF Goto, Revokes, TypeOK
  <2>1. CASE TakeRefresh(r) \/ DetectReuse(r) \/ TakeRefreshError(r)
    <3>1. reqs[r].token \in RefreshTokens
      BY <2>1, LocalTypes DEF TakeRefresh, DetectReuse, TakeRefreshError, RefreshRequest
    <3>2. refresh[reqs[r].token] # NoRow /\ refresh[reqs[r].token].family = f
      BY <2>0, <2>1 DEF TakeRefresh, DetectReuse, TakeRefreshError, Live, Idle
    <3>3. QED
      BY <3>1, <3>2 DEF Born, FamilyOf
  <2>2. CASE RevokeFamily(r) \/ RevokeFamilyError(r)
    <3>1. reqs[r] \in Revoking /\ reqs[r].pc = "revoke"
      BY <2>2, LocalTypes DEF RevokeFamily, RevokeFamilyError
    <3>2. reqs[r].family = f
      BY <2>0, <2>2, <3>1 DEF RevokeFamily, RevokeFamilyError, Revoking
    <3>3. QED
      BY <3>1, <3>2 DEF Revokes, RevokesAreBorn
  <2>3. ASSUME Ask(r) PROVE FALSE
    <3>1. reqs'[r].pc \in {"take_code", "take_refresh"}
      BY <2>3, AskIsNew
    <3>2. QED
      BY <3>1 DEF Revokes
  <2>4. ASSUME TakeCode(r) \/ RefuseCode(r) \/ AuditRevoke(r) \/ Respond(r) PROVE FALSE
    BY <2>0, <2>4 DEF TakeCode, RefuseCode, AuditRevoke, Respond, Idle
  <2>5. ASSUME WriteAccess(r) PROVE FALSE
    <3>1. reqs[r] \in Minting
      BY <2>5, LocalTypes DEF WriteAccess
    <3>2. CASE reqs[r].withRefresh
      <4>1. reqs'[r] = [reqs[r] EXCEPT !.pc = "put_refresh"]
        BY <2>5, <3>2 DEF WriteAccess, Goto, TypeOK
      <4>2. reqs'[r].pc = "put_refresh"
        BY <3>1, <4>1 DEF Minting
      <4>3. QED
        BY <4>2 DEF Revokes
    <3>3. CASE ~reqs[r].withRefresh
      <4>1. reqs'[r] = Answer(reqs[r], NoRow)
        BY <2>5, <3>3 DEF WriteAccess, Goto, TypeOK
      <4>2. QED
        BY <4>1 DEF Revokes, Answer
    <3>4. QED
      BY <3>2, <3>3
  <2>6. ASSUME NEW t \in RefreshTokens, NEW g \in Families,
               WriteRefresh(r, t, g) \/ WriteRefreshError(r, t, g)
        PROVE  FALSE
    BY <2>0, <2>6 DEF WriteRefresh, WriteRefreshError, Answer, Idle
  <2>7. ASSUME TakeCodeError(r) \/ WriteAccessError(r) \/ LoseAnswer(r) PROVE FALSE
    BY <2>0, <2>7 DEF TakeCodeError, WriteAccessError, LoseAnswer, Idle
  <2>8. ASSUME Restart PROVE FALSE
    BY <2>8 DEF Restart, Revokes, Idle
  <2>9. QED
    BY <1>2, <2>1, <2>2, <2>3, <2>4, <2>5, <2>6, <2>7, <2>8, OneRequestMoves DEF Handle, Fail
<1>3. QED
  BY <1>1, <1>2

LEMMA RevokesAreBornStep == TypeOK /\ RevokesAreBorn /\ [Next]_vars => RevokesAreBorn'
  BY RevokesFindAToken, BornKept DEF RevokesAreBorn

(* A family that is dead stays dead: so the abstract families say.         *)
LEMMA DeadStaysDead ==
  ASSUME EndpointInv, TypeOK', [Next]_vars, NEW f \in Families, Dead(f)
  PROVE  Dead(f)'
<1>1. stageBar[f] = "dead"
  BY DEF Dead, FamilyStage, stageBar
<1>2. stageBar \in [Families -> {"unborn", "live", "rotating", "dead"}]
  BY DEF stageBar, FamilyStage
<1>3. stageBar'[f] = "dead"
  <2>1. CASE UNCHANGED <<stageBar, ownerBar>>
    BY <1>1, <2>1
  <2>2. CASE Family!Next
    <3>1. ASSUME NEW g \in Families, NEW from \in {"unborn", "live", "rotating"}, NEW to,
                 Family!Move(g, from, to)
          PROVE  stageBar'[f] = "dead"
      BY <1>1, <1>2, <3>1 DEF Family!Move, stageBar
    <3>2. ASSUME NEW S \in SUBSET Families, Family!Abandon(S) PROVE stageBar'[f] = "dead"
      BY <1>1, <3>2 DEF Family!Abandon, stageBar
    <3>3. QED
      BY <2>2, <3>1, <3>2 DEF Family!Next, Family!Mint, Family!Take, Family!Return, Family!Revoke
  <2>3. QED
    BY <2>1, <2>2, StepSimulates DEF AbstractStep
<1>4. QED
  BY <1>3 DEF Dead, FamilyStage, stageBar

(* A revocation that is done has taken every token the family had.         *)
LEMMA RevocationTakesAll ==
  ASSUME EndpointInv, RevokesAreBorn, [Next]_vars, NEW r \in Requests, NEW f \in Families,
         reqs[r].pc = "revoke", reqs[r].family = f, reqs'[r].pc # "revoke"
  PROVE  Dead(f)' \/ (\E s \in Requests : Rotating(s, f)) \/ faults' > faults
<1>1. TypeOK
  BY DEF EndpointInv
<1>2. faults \in Nat
  BY <1>1 DEF TypeOK
<1>3. Ask(r) \/ Handle(r) \/ Fail(r) \/ Restart
  BY <1>1, OneRequestMoves
<1>4. CASE Fail(r) \/ Restart
  BY <1>2, <1>4 DEF Fail, Restart, Fault, TakeCodeError, TakeRefreshError, RevokeFamilyError,
     WriteAccessError, WriteRefreshError, LoseAnswer
<1>5. ASSUME Ask(r) PROVE FALSE
  <2>1. reqs[r] = Idle
    BY <1>1, <1>5, AskIsNew
  <2>2. QED
    BY <2>1 DEF Idle
<1>6. ASSUME RevokeFamily(r), \A s \in Requests : ~Rotating(s, f) PROVE Dead(f)'
  <2>1. Born(f)'
    BY <1>1, BornKept DEF RevokesAreBorn, Revokes
  <2>2. ASSUME NEW t \in RefreshTokens, Live(t)' PROVE FamilyOf(t)' # f
    <3>1. CASE refresh[t] # NoRow /\ refresh[t].family = f
      <4>1. refresh'[t] = [refresh[t] EXCEPT !.revoked = TRUE] /\ refresh[t] \in RefreshRow
        BY <1>1, <1>6, <3>1 DEF RevokeFamily, FamilyRevoked, TypeOK
      <4>2. QED
        BY <2>2, <4>1 DEF Live, RefreshRow
    <3>2. CASE ~(refresh[t] # NoRow /\ refresh[t].family = f)
      <4>1. refresh'[t] = refresh[t]
        BY <1>6, <3>2 DEF RevokeFamily, FamilyRevoked
      <4>2. QED
        BY <2>2, <3>2, <4>1 DEF Live, FamilyOf
    <3>3. QED
      BY <3>1, <3>2
  <2>3. ASSUME NEW s \in Requests PROVE ~Rotating(s, f)'
    <3>1. CASE s # r
      BY <1>1, <1>6, <3>1 DEF RevokeFamily, Goto, TypeOK, Rotating
    <3>2. CASE s = r
      <4>1. reqs[r] \in Revoking
        BY <1>1, <1>6, LocalTypes DEF RevokeFamily
      <4>2. reqs'[r].pc = "audit_revoke"
        BY <1>1, <1>6, <4>1 DEF RevokeFamily, Goto, TypeOK, Revoking
      <4>3. QED
        BY <3>2, <4>2 DEF Rotating
    <3>3. QED
      BY <3>1, <3>2
  <2>4. QED
    BY <2>1, <2>2, <2>3 DEF Dead
<1>7. Handle(r) => RevokeFamily(r)
  BY DEF Handle, TakeCode, RefuseCode, TakeRefresh, DetectReuse, AuditRevoke, WriteAccess,
     WriteRefresh, Respond
<1>8. QED
  BY <1>3, <1>4, <1>5, <1>6, <1>7

(***************************************************************************)
(* A revocation that no failure stops leaves the family dead for good, or  *)
(* in the hands of a request that was rotating it: whatever else runs, the *)
(* one child of that rotation is all that can outlive it.                  *)
(***************************************************************************)
THEOREM RevocationHolds == Spec => RevocationIsForGood
<1>1. Init => RevokesAreBorn
  BY DEF Init, RevokesAreBorn, Revokes, Idle
<1>2. EndpointInv => TypeOK
  BY DEF EndpointInv
<1>3. EndpointInv /\ TypeOK' /\ RevokesAreBorn /\ [Next]_vars =>
        \A f \in Families :
          /\ Dead(f) => Dead(f)'
          /\ \A r \in Requests :
               reqs[r].pc = "revoke" /\ reqs[r].family = f /\ reqs'[r].pc # "revoke" =>
                 Dead(f)' \/ (\E s \in Requests : Rotating(s, f)) \/ faults' > faults
  BY DeadStaysDead, RevocationTakesAll
<1>4. QED
  BY <1>1, <1>2, <1>3, RevokesAreBornStep, EndpointInvariant, PTL DEF Spec, RevocationIsForGood

(***************************************************************************)
(* The family of a token that is good is never revoked for it, unless a    *)
(* store call failed at that very step.                                    *)
(***************************************************************************)
THEOREM OnlyErrorsRevokeBlamelessly == Spec => RevokedForCauseOrError
<1>1. ASSUME TypeOK, [Next]_vars, NEW r \in Requests,
             reqs[r].pc = "take_refresh", reqs'[r].pc = "revoke"
      PROVE  LET row == refresh[reqs[r].token]
             IN  row.revoked \/ ~RefreshChecks(reqs[r], row) \/ faults' > faults
  <2>1. Handle(r) \/ Fail(r)
    <3>1. Ask(r) \/ Handle(r) \/ Fail(r) \/ Restart
      BY <1>1, OneRequestMoves
    <3>2. ASSUME Ask(r) PROVE FALSE
      BY <1>1, <3>2, AskIsNew DEF Idle
    <3>3. ASSUME Restart PROVE FALSE
      BY <1>1, <3>3 DEF Restart, Idle
    <3>4. QED
      BY <3>1, <3>2, <3>3
  <2>2. ASSUME Fail(r) PROVE faults' > faults
    BY <1>1, <2>2 DEF TypeOK, Fail, Fault, TakeCodeError, TakeRefreshError, RevokeFamilyError,
       WriteAccessError, WriteRefreshError, LoseAnswer
  <2>3. CASE DetectReuse(r)
    BY <2>3 DEF DetectReuse, Live
  <2>4. CASE TakeRefresh(r)
    BY <1>1, <2>4 DEF TakeRefresh, Goto, TypeOK
  <2>5. Handle(r) => DetectReuse(r) \/ TakeRefresh(r)
    BY <1>1 DEF Handle, TakeCode, RefuseCode, RevokeFamily, AuditRevoke, WriteAccess,
       WriteRefresh, Respond
  <2>6. QED
    BY <2>1, <2>2, <2>3, <2>4, <2>5
<1>2. TypeOK /\ [Next]_vars =>
        \A r \in Requests :
          reqs[r].pc = "take_refresh" /\ reqs'[r].pc = "revoke" =>
            LET row == refresh[reqs[r].token]
            IN  row.revoked \/ ~RefreshChecks(reqs[r], row) \/ faults' > faults
  BY <1>1
<1>3. QED
  BY <1>2, TypeCorrect, PTL DEF Spec, RevokedForCauseOrError
=============================================================================
