------------------------- MODULE OrgTenancy_proofs --------------------------
(***************************************************************************)
(* Theorems about organizations, for every number of organizations, users, *)
(* sessions and requests, and any number of handlers that stop half way.   *)
(***************************************************************************)
EXTENDS OrgTenancy, FiniteSetTheorems, TLAPS

USE OwnerAssumption, NoneAssumption, FaultsAssumption

Claiming == {"list", "roles", "answered"}

(* What ClaimsAreCurrent says of one request, for any table of memberships. *)
Current(r, m) ==
  \A v \in r.views \cup ({r.primary} \ {None}) :
    m[v.org][Owner[r.sid]] = v.role \/ v \in r.lost

(* What the types say of a request in flight at each of its calls. *)
LEMMA LocalTypes ==
  ASSUME TypeOK, NEW q \in Requests
  PROVE  /\ reqs[q].pc = "add_owner" => reqs[q] \in CreateRequest
         /\ reqs[q].pc \in {"count", "write"} => reqs[q] \in ChangeRequest
         /\ reqs[q].pc \in {"session", "set_active"} => reqs[q] \in SwitchRequest
         /\ reqs[q].pc \in {"list", "roles", "answered"} => reqs[q] \in ClaimsRequest
  BY DEF TypeOK, Idle, CreateRequest, ChangeRequest, SwitchRequest, ClaimsRequest

(* A request, as SetRole leaves it. *)
LEMMA RememberType ==
  ASSUME TypeOK, NEW p \in Requests, NEW o \in Orgs, NEW u \in Users
  PROVE  /\ Remember(reqs[p], o, u) \in
              {Idle} \cup CreateRequest \cup ChangeRequest \cup SwitchRequest \cup ClaimsRequest
         /\ Remember(reqs[p], o, u).pc = reqs[p].pc
<1>1. CASE reqs[p].pc \in Claiming
  <2>1. reqs[p] \in ClaimsRequest
    BY <1>1, LocalTypes DEF Claiming
  <2>2. IsMember(u, o) => [org |-> o, role |-> members[o][u]] \in View
    BY DEF TypeOK, IsMember, RoleOrNone, View
  <2>3. QED
    BY <2>1, <2>2 DEF Remember, ClaimsRequest
<1>2. CASE reqs[p].pc \in {"count", "write"}
  BY <1>2, LocalTypes DEF Remember, ChangeRequest
<1>3. CASE reqs[p].pc \notin Claiming \cup {"count", "write"}
  BY <1>3 DEF Remember, Claiming, TypeOK
<1>4. QED
  BY <1>1, <1>2, <1>3

LEMMA FaultType == TypeOK /\ Fault => faults' \in 0..MaxFaults
  BY DEF TypeOK, Fault

(* Every step keeps the types. *)
LEMMA TypeStep == TypeOK /\ [Next]_vars => TypeOK'
<1> SUFFICES ASSUME TypeOK, [Next]_vars PROVE TypeOK'
  OBVIOUS
<1> USE DEF TypeOK, Becomes, Finish
<1>1. ASSUME NEW q \in Requests, NEW o \in Orgs, NEW u \in Users, Create(q, o, u)
      PROVE  TypeOK'
  <2>1. orgs' \in Seq(Orgs) /\ IsInjective(orgs')
    BY <1>1 DEF Create, Created, ToSet, IsInjective
  <2>2. QED
    BY <1>1, <2>1 DEF Create, CreateRequest
<1>2. ASSUME NEW q \in Requests, NEW o \in Orgs, NEW u \in Users, NEW role \in Roles,
             AddMember(q, o, u, role)
      PROVE  TypeOK'
  BY <1>2 DEF AddMember, AddOrganizationMember, RoleOrNone
<1>3. ASSUME NEW q \in Requests, NEW o \in Orgs, NEW u \in Users, NEW to \in RoleOrNone,
             ChangeMember(q, o, u, to)
      PROVE  TypeOK'
  BY <1>3 DEF ChangeMember, ChangeRequest
<1>4. ASSUME NEW q \in Requests, AddOwner(q) PROVE TypeOK'
  BY <1>4, LocalTypes DEF AddOwner, AddOrganizationMember, CreateRequest, RoleOrNone, Roles
<1>5. ASSUME NEW q \in Requests, CountOwners(q) PROVE TypeOK'
  <2>1. reqs[q] \in ChangeRequest
    BY <1>5, LocalTypes DEF CountOwners
  <2>2. [reqs[q] EXCEPT !.pc = "write"] \in ChangeRequest
    BY <2>1 DEF ChangeRequest
  <2>3. \E r \in {Idle} \cup ChangeRequest : reqs' = [reqs EXCEPT ![q] = r]
    BY <1>5, <2>2 DEF CountOwners
  <2>4. QED
    BY <1>5, <2>3 DEF CountOwners
<1>6. ASSUME NEW q \in Requests, WriteChange(q) PROVE TypeOK'
  <2>1. reqs[q] \in ChangeRequest
    BY <1>6, LocalTypes DEF WriteChange
  <2>2. PICK o \in Orgs, u \in Users, to \in RoleOrNone : SetRole(q, o, u, to)
    BY <1>6, <2>1 DEF WriteChange, ChangeRequest
  <2>3. members' \in [Orgs -> [Users -> RoleOrNone]]
    BY <2>2 DEF SetRole
  <2>4. reqs' \in [Requests -> {Idle} \cup CreateRequest \cup ChangeRequest
                               \cup SwitchRequest \cup ClaimsRequest]
    BY <2>2, RememberType DEF SetRole
  <2>5. QED
    BY <1>6, <2>3, <2>4 DEF WriteChange
<1>7. ASSUME NEW q \in Requests, NEW s \in Sids,
             Userinfo(q, s) \/ \E o \in Orgs : Switch(q, s, o)
      PROVE  TypeOK'
  BY <1>7 DEF Userinfo, Switch, ClaimsRequest, SwitchRequest
<1>8. ASSUME NEW q \in Requests, ReadSession(q) \/ SetSessionActiveOrg(q) PROVE TypeOK'
  <2>1. reqs[q] \in SwitchRequest
    BY <1>8, LocalTypes DEF ReadSession, SetSessionActiveOrg
  <2>2. CASE ReadSession(q)
    <3>1. [reqs[q] EXCEPT !.pc = "set_active"] \in SwitchRequest
      BY <2>1 DEF SwitchRequest
    <3>2. QED
      BY <2>2, <3>1 DEF ReadSession
  <2>3. CASE SetSessionActiveOrg(q)
    <3>1. active' \in [Sids -> Orgs \cup {None}]
      BY <2>1, <2>3 DEF SetSessionActiveOrg, SwitchRequest
    <3>2. QED
      BY <2>3, <3>1 DEF SetSessionActiveOrg
  <2>4. QED
    BY <1>8, <2>2, <2>3
<1>9. ASSUME NEW q \in Requests, ListOrganizations(q) PROVE TypeOK'
  <2>1. reqs[q] \in ClaimsRequest
    BY <1>9, LocalTypes DEF ListOrganizations
  <2>2. PICK todo \in SUBSET Orgs :
          Becomes(q, [reqs[q] EXCEPT !.pc = "roles", !.todo = todo])
    <3>1. Created \subseteq Orgs
      BY DEF Created, ToSet
    <3>2. QED
      BY <1>9, <3>1 DEF ListOrganizations
  <2>3. [reqs[q] EXCEPT !.pc = "roles", !.todo = todo] \in ClaimsRequest
    BY <2>1 DEF ClaimsRequest
  <2>4. QED
    BY <1>9, <2>2, <2>3 DEF ListOrganizations
<1>10. ASSUME NEW q \in Requests, ReadRole(q) PROVE TypeOK'
  <2>1. reqs[q] \in ClaimsRequest
    BY <1>10, LocalTypes DEF ReadRole
  <2>2. PICK o \in reqs[q].todo :
          LET role == members[o][Owner[reqs[q].sid]] IN
          Becomes(q, [reqs[q] EXCEPT
            !.todo = @ \ {o},
            !.views = IF role = "none" THEN @ ELSE @ \cup {[org |-> o, role |-> role]}])
    BY <1>10 DEF ReadRole
  <2>3. o \in Orgs /\ members[o][Owner[reqs[q].sid]] \in RoleOrNone
    BY <2>1, <2>2 DEF ClaimsRequest
  <2>4. PICK views \in SUBSET View :
          Becomes(q, [reqs[q] EXCEPT !.todo = @ \ {o}, !.views = views])
    <3>1. members[o][Owner[reqs[q].sid]] # "none"
            => [org |-> o, role |-> members[o][Owner[reqs[q].sid]]] \in View
      BY <2>3 DEF View, RoleOrNone
    <3>2. reqs[q].views \in SUBSET View
      BY <2>1 DEF ClaimsRequest
    <3>3. QED
      BY <2>2, <3>1, <3>2
  <2>5. [reqs[q] EXCEPT !.todo = @ \ {o}, !.views = views] \in ClaimsRequest
    BY <2>1, <2>4 DEF ClaimsRequest
  <2>6. QED
    BY <1>10, <2>4, <2>5 DEF ReadRole
<1>11. ASSUME NEW q \in Requests, Answer(q) \/ GetSessionError(q) PROVE TypeOK'
  <2>1. reqs[q] \in ClaimsRequest
    BY <1>11, LocalTypes DEF Answer, GetSessionError, AnswerOneOf
  <2>2. PICK v \in View \cup {None} :
          Becomes(q, [reqs[q] EXCEPT !.pc = "answered", !.primary = v])
    BY <1>11, <2>1
       DEF Answer, GetSessionError, AnswerOneOf, PrimaryOrg, Oldest, ClaimsRequest
  <2>3. reqs' \in [Requests -> {Idle} \cup CreateRequest \cup ChangeRequest
                               \cup SwitchRequest \cup ClaimsRequest]
    BY <2>1, <2>2 DEF ClaimsRequest
  <2>4. faults' \in 0..MaxFaults
    BY <1>11, FaultType DEF Answer, GetSessionError
  <2>5. QED
    BY <1>11, <2>3, <2>4 DEF Answer, GetSessionError, AnswerOneOf
<1>12. ASSUME NEW q \in Requests, Respond(q) \/ Abandon(q) PROVE TypeOK'
  BY <1>12 DEF Respond, Abandon, Fault
<1>13. ASSUME NEW q \in Requests, ReadRoleError(q) PROVE TypeOK'
  <2>1. reqs[q] \in ClaimsRequest
    BY <1>13, LocalTypes DEF ReadRoleError
  <2>2. PICK o \in reqs[q].todo : Becomes(q, [reqs[q] EXCEPT !.todo = @ \ {o}])
    BY <1>13 DEF ReadRoleError
  <2>3. [reqs[q] EXCEPT !.todo = @ \ {o}] \in ClaimsRequest
    BY <2>1 DEF ClaimsRequest
  <2>4. faults' \in 0..MaxFaults
    BY <1>13, FaultType DEF ReadRoleError
  <2>5. QED
    BY <1>13, <2>2, <2>3, <2>4 DEF ReadRoleError
<1>14. ASSUME NEW s \in Sids, EndSession(s) PROVE TypeOK'
  BY <1>14 DEF EndSession
<1>15. CASE UNCHANGED vars
  BY <1>15 DEF vars
<1>16. QED
  BY <1>1, <1>2, <1>3, <1>4, <1>5, <1>6, <1>7, <1>8, <1>9, <1>10, <1>11, <1>12, <1>13, <1>14,
     <1>15
     DEF Next, AdminStep, UserStep

(* The tables and the requests in flight keep their types. *)
THEOREM TypeCorrect == Spec => []TypeOK
<1>1. Init => TypeOK
  BY DEF Init, TypeOK, IsInjective, RoleOrNone
<1>2. QED
  BY <1>1, TypeStep, PTL DEF Spec

-----------------------------------------------------------------------------
(* A row that SetRole changes is remembered by who may have read it.       *)
LEMMA RememberCurrent ==
  ASSUME TypeOK, NEW p \in Requests, NEW o \in Orgs, NEW u \in Users, NEW role \in RoleOrNone,
         reqs[p].pc \in Claiming, Current(reqs[p], members)
  PROVE  Current(Remember(reqs[p], o, u),
                 IF IsMember(u, o) THEN [members EXCEPT ![o][u] = role] ELSE members)
<1> DEFINE m == IF IsMember(u, o) THEN [members EXCEPT ![o][u] = role] ELSE members
           r == Remember(reqs[p], o, u)
<1>1. reqs[p] \in ClaimsRequest
  BY LocalTypes DEF Claiming
<1>2. /\ r.sid = reqs[p].sid /\ r.views = reqs[p].views /\ r.primary = reqs[p].primary
      /\ reqs[p].lost \subseteq r.lost
      /\ Owner[reqs[p].sid] = u /\ IsMember(u, o)
           => [org |-> o, role |-> members[o][u]] \in r.lost
  BY <1>1 DEF Remember, ClaimsRequest, Claiming
<1>3. ASSUME NEW v \in r.views \cup ({r.primary} \ {None})
      PROVE  m[v.org][Owner[r.sid]] = v.role \/ v \in r.lost
  <2>1. v \in View /\ r.sid \in Sids
    BY <1>1, <1>2, <1>3 DEF ClaimsRequest
  <2>2. members[v.org][Owner[r.sid]] = v.role \/ v \in r.lost
    BY <1>2, <1>3 DEF Current
  <2>3. CASE v.org = o /\ Owner[r.sid] = u /\ IsMember(u, o)
    BY <1>2, <2>1, <2>2, <2>3 DEF View
  <2>4. CASE ~(v.org = o /\ Owner[r.sid] = u /\ IsMember(u, o))
    BY <2>1, <2>2, <2>4 DEF TypeOK, View
  <2>5. QED
    BY <2>3, <2>4
<1>4. QED
  BY <1>3 DEF Current

(* No step lets a claim go stale unnoticed.                                *)
LEMMA ClaimsStep == TypeOK /\ ClaimsAreCurrent /\ [Next]_vars => ClaimsAreCurrent'
<1> SUFFICES ASSUME TypeOK, ClaimsAreCurrent, [Next]_vars,
                    NEW p \in Requests, reqs'[p].pc \in Claiming
             PROVE  Current(reqs'[p], members')
  BY DEF ClaimsAreCurrent, Current, Claiming
<1>1. reqs[p].pc \in Claiming => reqs[p] \in ClaimsRequest /\ Current(reqs[p], members)
  BY LocalTypes DEF ClaimsAreCurrent, Current, Claiming
<1>2. CASE reqs'[p] = reqs[p] /\ members' = members
  BY <1>1, <1>2
<1>3. ASSUME NEW o \in Orgs, NEW u \in Users, NEW role \in RoleOrNone, NEW q \in Requests,
             reqs'[p] = reqs[p], AddOrganizationMember(o, u, role)
      PROVE  Current(reqs'[p], members')
  <2>1. ASSUME NEW v \in reqs[p].views \cup ({reqs[p].primary} \ {None})
        PROVE  members'[v.org][Owner[reqs[p].sid]] = v.role \/ v \in reqs[p].lost
    <3>1. v \in View /\ reqs[p].sid \in Sids
      BY <1>1, <1>3, <2>1 DEF ClaimsRequest
    <3>2. members[v.org][Owner[reqs[p].sid]] = v.role \/ v \in reqs[p].lost
      BY <1>1, <1>3, <2>1 DEF Current
    <3>3. v.role # "none"
      BY <3>1 DEF View, Roles
    <3>4. QED
      BY <1>3, <3>1, <3>2, <3>3 DEF AddOrganizationMember, IsMember, TypeOK, View
  <2>2. QED
    BY <1>3, <2>1 DEF Current
<1> USE DEF Becomes, Finish, Idle, Claiming
<1>4. ASSUME NEW q \in Requests, NEW o \in Orgs, NEW u \in Users,
             \/ Create(q, o, u)
             \/ \E role \in Roles : AddMember(q, o, u, role)
             \/ \E to \in RoleOrNone : ChangeMember(q, o, u, to)
      PROVE  Current(reqs'[p], members')
  <2>1. CASE Create(q, o, u)
    BY <1>2, <2>1 DEF Create, TypeOK
  <2>2. ASSUME NEW role \in Roles, AddMember(q, o, u, role) PROVE Current(reqs'[p], members')
    BY <1>3, <2>2 DEF AddMember, RoleOrNone
  <2>3. ASSUME NEW to \in RoleOrNone, ChangeMember(q, o, u, to)
        PROVE  Current(reqs'[p], members')
    BY <1>2, <2>3 DEF ChangeMember, TypeOK
  <2>4. QED
    BY <1>4, <2>1, <2>2, <2>3
<1>5. ASSUME NEW q \in Requests, AddOwner(q) PROVE Current(reqs'[p], members')
  <2>1. reqs[q] \in CreateRequest /\ "owner" \in RoleOrNone
    BY <1>5, LocalTypes DEF AddOwner, RoleOrNone, Roles
  <2>2. p # q
    BY <1>5 DEF AddOwner, TypeOK
  <2>3. QED
    BY <1>3, <1>5, <2>1, <2>2 DEF AddOwner, CreateRequest, TypeOK
<1>6. ASSUME NEW q \in Requests,
             CountOwners(q) \/ ReadSession(q) \/ SetSessionActiveOrg(q)
      PROVE  Current(reqs'[p], members')
  <2>1. p # q
    <3>1. reqs[q].pc = "count" => reqs[q] \in ChangeRequest
      BY LocalTypes
    <3>2. reqs[q].pc = "session" => reqs[q] \in SwitchRequest
      BY LocalTypes
    <3>3. QED
      BY <1>6, <3>1, <3>2
         DEF CountOwners, ReadSession, SetSessionActiveOrg, TypeOK, ChangeRequest, SwitchRequest
  <2>2. QED
    BY <1>2, <1>6, <2>1 DEF CountOwners, ReadSession, SetSessionActiveOrg, TypeOK
<1>7. ASSUME NEW q \in Requests, WriteChange(q) PROVE Current(reqs'[p], members')
  <2>1. reqs[q] \in ChangeRequest
    BY <1>7, LocalTypes DEF WriteChange
  <2>2. PICK o \in Orgs, u \in Users, to \in RoleOrNone : SetRole(q, o, u, to)
    BY <1>7, <2>1 DEF WriteChange, ChangeRequest
  <2>3. reqs'[p] = Remember(reqs[p], o, u)
    BY <2>2 DEF SetRole
  <2>4. reqs[p].pc \in Claiming
    BY <2>3, RememberType
  <2>5. QED
    BY <1>1, <2>2, <2>3, <2>4, RememberCurrent DEF SetRole
<1>8. ASSUME NEW q \in Requests, NEW s \in Sids,
             Userinfo(q, s) \/ \E o \in Orgs : Switch(q, s, o)
      PROVE  Current(reqs'[p], members')
  BY <1>2, <1>8 DEF Userinfo, Switch, TypeOK, Current
<1>9. ASSUME NEW q \in Requests, ListOrganizations(q) \/ ReadRoleError(q)
      PROVE  Current(reqs'[p], members')
  <2>1. reqs[q] \in ClaimsRequest
    BY <1>9, LocalTypes DEF ListOrganizations, ReadRoleError
  <2>2. PICK pc \in Claiming, todo \in SUBSET Orgs :
          Becomes(q, [reqs[q] EXCEPT !.pc = pc, !.todo = todo])
    <3>1. CASE ListOrganizations(q)
      <4>1. {o \in Created : IsMember(Owner[reqs[q].sid], o)} \in SUBSET Orgs
        BY DEF Created, ToSet, TypeOK
      <4>2. "roles" \in Claiming
        OBVIOUS
      <4>3. QED
        BY <3>1, <4>1, <4>2 DEF ListOrganizations
    <3>2. CASE ReadRoleError(q)
      <4>1. PICK o \in reqs[q].todo : Becomes(q, [reqs[q] EXCEPT !.todo = @ \ {o}])
        BY <3>2 DEF ReadRoleError
      <4>2. [reqs[q] EXCEPT !.todo = @ \ {o}]
              = [reqs[q] EXCEPT !.pc = reqs[q].pc, !.todo = reqs[q].todo \ {o}]
        BY <2>1 DEF ClaimsRequest
      <4>3. QED
        BY <2>1, <4>1, <4>2 DEF ClaimsRequest
    <3>3. QED
      BY <1>9, <3>1, <3>2
  <2>3. /\ reqs'[q].sid = reqs[q].sid /\ reqs'[q].views = reqs[q].views
        /\ reqs'[q].primary = reqs[q].primary /\ reqs'[q].lost = reqs[q].lost
        /\ members' = members /\ reqs[q].pc \in Claiming
        /\ p # q => reqs'[p] = reqs[p]
    BY <1>9, <2>1, <2>2 DEF ListOrganizations, ReadRoleError, ClaimsRequest, TypeOK
  <2>4. QED
    BY <1>1, <1>2, <2>3 DEF Current
<1>10. ASSUME NEW q \in Requests, ReadRole(q) PROVE Current(reqs'[p], members')
  <2>1. reqs[q] \in ClaimsRequest
    BY <1>10, LocalTypes DEF ReadRole
  <2>2. PICK o \in reqs[q].todo :
          LET role == members[o][Owner[reqs[q].sid]] IN
          Becomes(q, [reqs[q] EXCEPT
            !.todo = @ \ {o},
            !.views = IF role = "none" THEN @ ELSE @ \cup {[org |-> o, role |-> role]}])
    BY <1>10 DEF ReadRole
  <2>3. /\ reqs'[q].sid = reqs[q].sid
        /\ reqs'[q].views \subseteq
             reqs[q].views \cup {[org |-> o, role |-> members[o][Owner[reqs[q].sid]]]}
        /\ reqs'[q].primary = reqs[q].primary /\ reqs'[q].lost = reqs[q].lost
        /\ members' = members /\ reqs[q].pc \in Claiming
        /\ p # q => reqs'[p] = reqs[p]
    BY <1>10, <2>1, <2>2 DEF ReadRole, ClaimsRequest, TypeOK
  <2>4. ASSUME NEW v \in reqs'[q].views \cup ({reqs'[q].primary} \ {None})
        PROVE  members[v.org][Owner[reqs[q].sid]] = v.role
                 \/ (p = q => v \in reqs[q].lost)
    BY <1>1, <2>3, <2>4 DEF Current
  <2>5. QED
    BY <1>2, <2>3, <2>4 DEF Current
<1>11. ASSUME NEW q \in Requests, Answer(q) \/ GetSessionError(q)
       PROVE  Current(reqs'[p], members')
  <2>1. reqs[q] \in ClaimsRequest
    BY <1>11, LocalTypes DEF Answer, GetSessionError, AnswerOneOf
  <2>2. PICK v \in reqs[q].views \cup {None} :
          Becomes(q, [reqs[q] EXCEPT !.pc = "answered", !.primary = v])
    BY <1>11, <2>1 DEF Answer, GetSessionError, AnswerOneOf, PrimaryOrg, Oldest
  <2>3. /\ reqs'[q].sid = reqs[q].sid /\ reqs'[q].views = reqs[q].views
        /\ reqs'[q].primary = v /\ reqs'[q].lost = reqs[q].lost
        /\ members' = members /\ reqs[q].pc \in Claiming
        /\ p # q => reqs'[p] = reqs[p]
    BY <1>11, <2>1, <2>2 DEF Answer, GetSessionError, AnswerOneOf, ClaimsRequest, TypeOK
  <2>4. CASE p # q
    BY <1>2, <2>3, <2>4
  <2>5. CASE p = q
    <3>1. \A x \in reqs[q].views : members[x.org][Owner[reqs[q].sid]] = x.role
                                     \/ x \in reqs[q].lost
      BY <1>1, <2>3, <2>5 DEF Current
    <3>2. reqs'[q].views \cup ({reqs'[q].primary} \ {None}) = reqs[q].views
      BY <2>2, <2>3
    <3>3. QED
      BY <2>3, <2>5, <3>1, <3>2 DEF Current
  <2>6. QED
    BY <2>4, <2>5
<1>12. ASSUME NEW q \in Requests, Respond(q) \/ Abandon(q)
       PROVE  Current(reqs'[p], members')
  BY <1>2, <1>12 DEF Respond, Abandon, TypeOK
<1>13. ASSUME NEW s \in Sids, EndSession(s) PROVE Current(reqs'[p], members')
  BY <1>2, <1>13 DEF EndSession
<1>14. CASE UNCHANGED vars
  BY <1>2, <1>14 DEF vars
<1>15. QED
  BY <1>4, <1>5, <1>6, <1>7, <1>8, <1>9, <1>10, <1>11, <1>12, <1>13, <1>14
     DEF Next, AdminStep, UserStep

(* /userinfo never claims a role, nor an active organization, that the     *)
(* user lost before the request came in (MembershipViews, PrimaryOrg).     *)
THEOREM ClaimsCorrect == Spec => []ClaimsAreCurrent
<1>1. Init => ClaimsAreCurrent
  BY DEF Init, ClaimsAreCurrent, Idle
<1>2. QED
  BY <1>1, TypeCorrect, ClaimsStep, PTL DEF Spec

-----------------------------------------------------------------------------
\* What a change of a member knows until it is overtaken: the member is still
\* there, and if it takes an owner away there is another one.
KnowsAnotherOwner ==
  \A q \in Requests :
    reqs[q].pc \in {"count", "write"} /\ ~reqs[q].raced =>
      LET r == reqs[q] IN
      /\ IsMember(r.user, r.org)
      /\ r.pc = "write" /\ r.user \in Owners(r.org) /\ r.to # "owner"
           => \E v \in Owners(r.org) : v # r.user

(* KnowsAnotherOwner, of one request and for any table of memberships.     *)
Safe(r, m) ==
  /\ m[r.org][r.user] # "none"
  /\ r.pc = "write" /\ m[r.org][r.user] = "owner" /\ r.to # "owner"
       => \E v \in Users : m[r.org][v] = "owner" /\ v # r.user

(* Who counts more than one owner knows another than the one at hand.      *)
LEMMA AnotherOwner ==
  ASSUME NEW o \in Orgs, NEW u \in Users, ~(Cardinality(Owners(o)) <= 1)
  PROVE  \E v \in Users : members[o][v] = "owner" /\ v # u
<1> SUFFICES ASSUME Owners(o) \subseteq {u} PROVE FALSE
  BY DEF Owners
<1>1. IsFiniteSet({u}) /\ Cardinality({u}) = 1
  BY FS_Singleton
<1>2. Cardinality(Owners(o)) <= Cardinality({u})
  BY <1>1, FS_Subset
<1>3. QED
  BY <1>1, <1>2

(* A change that overtakes no request of the organization leaves what it   *)
(* knows; one that does marks it.                                          *)
LEMMA KnowsStep == TypeOK /\ KnowsAnotherOwner /\ [Next]_vars => KnowsAnotherOwner'
<1> SUFFICES ASSUME TypeOK, KnowsAnotherOwner, [Next]_vars, NEW p \in Requests,
                    reqs'[p].pc \in {"count", "write"}, ~reqs'[p].raced
             PROVE  Safe(reqs'[p], members')
  BY DEF KnowsAnotherOwner, Safe, IsMember, Owners
<1>1. reqs[p].pc \in {"count", "write"} => reqs[p] \in ChangeRequest
  BY LocalTypes
<1>2. reqs[p].pc \in {"count", "write"} /\ ~reqs[p].raced => Safe(reqs[p], members)
  <2>1. SUFFICES ASSUME reqs[p].pc \in {"count", "write"}, ~reqs[p].raced
                 PROVE  Safe(reqs[p], members)
    OBVIOUS
  <2>2. reqs[p].user \in Users /\ reqs[p].org \in Orgs
    BY <1>1, <2>1 DEF ChangeRequest
  <2>3. QED
    BY <2>1, <2>2 DEF KnowsAnotherOwner, Safe, IsMember, Owners
<1>3. CASE reqs'[p] = reqs[p] /\ members' = members
  BY <1>2, <1>3
<1>4. ASSUME NEW o \in Orgs, NEW u \in Users, NEW role \in RoleOrNone,
             reqs'[p] = reqs[p], AddOrganizationMember(o, u, role)
      PROVE  Safe(reqs'[p], members')
  <2>1. reqs[p].user \in Users /\ reqs[p].org \in Orgs /\ Safe(reqs[p], members)
    BY <1>1, <1>2, <1>4 DEF ChangeRequest
  <2>2. \A x \in Orgs, v \in Users :
          members[x][v] # "none" => members'[x][v] = members[x][v]
    BY <1>4 DEF AddOrganizationMember, IsMember, TypeOK
  <2>3. QED
    BY <1>4, <2>1, <2>2 DEF Safe
<1> USE DEF Becomes, Finish, Idle
<1>5. ASSUME NEW q \in Requests, NEW o \in Orgs, NEW u \in Users, Create(q, o, u)
      PROVE  Safe(reqs'[p], members')
  BY <1>3, <1>5 DEF Create, TypeOK
<1>6. ASSUME NEW q \in Requests, NEW o \in Orgs, NEW u \in Users, NEW role \in Roles,
             AddMember(q, o, u, role)
      PROVE  Safe(reqs'[p], members')
  BY <1>4, <1>6 DEF AddMember, RoleOrNone
<1>7. ASSUME NEW q \in Requests, NEW o \in Orgs, NEW u \in Users, NEW to \in RoleOrNone,
             ChangeMember(q, o, u, to)
      PROVE  Safe(reqs'[p], members')
  <2>1. CASE p = q
    BY <1>7, <2>1 DEF ChangeMember, IsMember, Safe, TypeOK
  <2>2. CASE p # q
    BY <1>3, <1>7, <2>2 DEF ChangeMember, TypeOK
  <2>3. QED
    BY <2>1, <2>2
<1>8. ASSUME NEW q \in Requests, AddOwner(q) PROVE Safe(reqs'[p], members')
  <2>1. reqs[q] \in CreateRequest /\ "owner" \in RoleOrNone
    BY <1>8, LocalTypes DEF AddOwner, RoleOrNone, Roles
  <2>2. p # q
    BY <1>8 DEF AddOwner, TypeOK
  <2>3. QED
    BY <1>4, <1>8, <2>1, <2>2 DEF AddOwner, CreateRequest, TypeOK
<1>9. ASSUME NEW q \in Requests, CountOwners(q) PROVE Safe(reqs'[p], members')
  <2>1. reqs[q] \in ChangeRequest
    BY <1>9, LocalTypes DEF CountOwners
  <2>2. CASE p = q
    <3>1. ~(Cardinality(Owners(reqs[q].org)) <= 1)
      BY <1>9, <2>1, <2>2 DEF CountOwners, TypeOK
    <3>2. /\ reqs'[q].org = reqs[q].org /\ reqs'[q].user = reqs[q].user
          /\ reqs'[q].raced = reqs[q].raced /\ members' = members
      BY <1>9, <2>1, <3>1 DEF CountOwners, ChangeRequest, TypeOK
    <3>3. reqs[q].org \in Orgs /\ reqs[q].user \in Users
      BY <2>1 DEF ChangeRequest
    <3>4. Safe(reqs[q], members)
      BY <1>2, <1>9, <2>2, <3>2 DEF CountOwners
    <3>5. \E v \in Users : members[reqs[q].org][v] = "owner" /\ v # reqs[q].user
      BY <3>1, <3>3, AnotherOwner
    <3>6. QED
      BY <2>2, <3>2, <3>4, <3>5 DEF Safe
  <2>3. CASE p # q
    BY <1>3, <1>9, <2>3 DEF CountOwners, TypeOK
  <2>4. QED
    BY <2>2, <2>3
<1>10. ASSUME NEW q \in Requests, WriteChange(q) PROVE Safe(reqs'[p], members')
  <2>1. reqs[q] \in ChangeRequest
    BY <1>10, LocalTypes DEF WriteChange
  <2>2. PICK o \in Orgs, u \in Users, to \in RoleOrNone : SetRole(q, o, u, to)
    BY <1>10, <2>1 DEF WriteChange, ChangeRequest
  <2>3. reqs'[p] = Remember(reqs[p], o, u) /\ p # q
    BY <2>2 DEF SetRole
  <2>4. reqs[p] \in ChangeRequest
    BY <1>1, <2>3, RememberType
  <2>5. reqs'[p] = reqs[p] /\ ~(reqs[p].org = o /\ IsMember(u, o))
    BY <2>3, <2>4 DEF Remember, ChangeRequest
  <2>6. Safe(reqs[p], members) /\ reqs[p].org \in Orgs
    BY <1>2, <2>4, <2>5 DEF ChangeRequest
  <2>7. members'[reqs[p].org] = members[reqs[p].org]
    BY <2>2, <2>5, <2>6 DEF SetRole, TypeOK
  <2>8. QED
    BY <2>5, <2>6, <2>7 DEF Safe
<1>11. ASSUME NEW q \in Requests,
              \/ \E s \in Sids : Userinfo(q, s) \/ \E o \in Orgs : Switch(q, s, o)
              \/ ReadSession(q) \/ SetSessionActiveOrg(q)
       PROVE  Safe(reqs'[p], members')
  <2>1. reqs[q].pc = "session" => reqs[q] \in SwitchRequest
    BY LocalTypes
  <2>2. p # q
    BY <1>11, <2>1
       DEF Userinfo, Switch, ReadSession, SetSessionActiveOrg, TypeOK, SwitchRequest
  <2>3. QED
    BY <1>3, <1>11, <2>2 DEF Userinfo, Switch, ReadSession, SetSessionActiveOrg, TypeOK
<1>12. ASSUME NEW q \in Requests,
              \/ ListOrganizations(q) \/ ReadRole(q) \/ ReadRoleError(q)
              \/ Answer(q) \/ GetSessionError(q)
       PROVE  Safe(reqs'[p], members')
  <2>1. reqs[q] \in ClaimsRequest
    BY <1>12, LocalTypes
       DEF ListOrganizations, ReadRole, ReadRoleError, Answer, GetSessionError, AnswerOneOf
  <2>2. members' = members /\ (p # q => reqs'[p] = reqs[p])
    BY <1>12
       DEF ListOrganizations, ReadRole, ReadRoleError, Answer, GetSessionError, AnswerOneOf, TypeOK
  <2>3. reqs'[q].pc \in Claiming
    <3>1. CASE ListOrganizations(q)
      BY <2>1, <3>1 DEF ListOrganizations, TypeOK, ClaimsRequest, Claiming
    <3>2. CASE ReadRole(q)
      BY <2>1, <3>2 DEF ReadRole, TypeOK, ClaimsRequest, Claiming
    <3>3. CASE ReadRoleError(q)
      BY <2>1, <3>3 DEF ReadRoleError, TypeOK, ClaimsRequest, Claiming
    <3>4. CASE Answer(q) \/ GetSessionError(q)
      <4>1. PICK v : Becomes(q, [reqs[q] EXCEPT !.pc = "answered", !.primary = v])
        BY <3>4 DEF Answer, GetSessionError, AnswerOneOf
      <4>2. QED
        BY <2>1, <4>1 DEF TypeOK, ClaimsRequest, Claiming
    <3>5. QED
      BY <1>12, <3>1, <3>2, <3>3, <3>4
  <2>4. QED
    BY <1>3, <2>2, <2>3 DEF Claiming
<1>13. ASSUME NEW q \in Requests, Respond(q) \/ Abandon(q) PROVE Safe(reqs'[p], members')
  BY <1>3, <1>13 DEF Respond, Abandon, TypeOK
<1>14. ASSUME NEW s \in Sids, EndSession(s) PROVE Safe(reqs'[p], members')
  BY <1>3, <1>14 DEF EndSession
<1>15. CASE UNCHANGED vars
  BY <1>3, <1>15 DEF vars
<1>16. QED
  BY <1>5, <1>6, <1>7, <1>8, <1>9, <1>10, <1>11, <1>12, <1>13, <1>14, <1>15
     DEF Next, AdminStep, UserStep

(* The members of an organization change in three places only.             *)
LEMMA OwnersKept ==
  ASSUME TypeOK, [Next]_vars, NEW o \in Orgs, Owners(o) # {}, Owners(o)' = {}
  PROVE  \E q \in Requests : WriteChange(q)
<1> SUFFICES ASSUME \A q \in Requests : ~WriteChange(q) PROVE FALSE
  OBVIOUS
<1>1. PICK v \in Users : members[o][v] = "owner"
  BY DEF Owners
<1>2. members'[o][v] # "owner"
  BY DEF Owners
<1>3. ASSUME NEW x, NEW u, NEW role, AddOrganizationMember(x, u, role) PROVE FALSE
  BY <1>1, <1>2, <1>3 DEF AddOrganizationMember, IsMember, TypeOK
<1>4. members' = members
  <2>1. ASSUME NEW q \in Requests, AdminStep(q) PROVE members' = members
    BY <1>3, <2>1 DEF AdminStep, Create, AddMember, ChangeMember, AddOwner, CountOwners
  <2>2. ASSUME NEW q \in Requests,
               UserStep(q) \/ ReadRoleError(q) \/ GetSessionError(q) \/ Abandon(q)
        PROVE  members' = members
    BY <2>2
       DEF UserStep, Userinfo, Switch, ReadSession, SetSessionActiveOrg, ListOrganizations,
           ReadRole, ReadRoleError, Answer, GetSessionError, AnswerOneOf, Respond, Abandon
  <2>3. CASE UNCHANGED vars
    BY <2>3 DEF vars
  <2>4. ASSUME NEW s \in Sids, EndSession(s) PROVE members' = members
    BY <2>4 DEF EndSession
  <2>5. QED
    BY <2>1, <2>2, <2>3, <2>4 DEF Next
<1>5. QED
  BY <1>1, <1>2, <1>4

(* The last owner of an organization goes only when two changes of its     *)
(* members overlap: alone, the count in front of the write is enough.      *)
THEOREM OwnersAreKept == Spec => LastOwnerGoesOnlyInARace
<1>1. Init => KnowsAnotherOwner
  BY DEF Init, KnowsAnotherOwner, Idle
<1>2. ASSUME TypeOK, KnowsAnotherOwner, [Next]_vars,
             NEW o \in Orgs, Owners(o) # {}, Owners(o)' = {}
      PROVE  \E q \in Requests : reqs[q].pc = "write" /\ reqs[q].org = o /\ reqs[q].raced
  <2>1. PICK q \in Requests : WriteChange(q)
    BY <1>2, OwnersKept
  <2>2. reqs[q] \in ChangeRequest
    BY <1>2, <2>1, LocalTypes DEF WriteChange
  <2>3. PICK x \in Orgs, u \in Users, to \in RoleOrNone :
          /\ x = reqs[q].org /\ u = reqs[q].user /\ to = reqs[q].to
          /\ SetRole(q, x, u, to)
    BY <2>1, <2>2 DEF WriteChange, ChangeRequest
  <2>4. PICK v \in Users : members[o][v] = "owner" /\ members'[o][v] # "owner"
    BY <1>2 DEF Owners
  <2>5. x = o /\ v = u /\ to # "owner"
    BY <1>2, <2>3, <2>4 DEF SetRole, TypeOK
  <2>6. ASSUME ~reqs[q].raced PROVE FALSE
    <3>1. PICK w \in Owners(o) : w # u
      <4>1. /\ reqs[q].pc = "write" /\ reqs[q].org = o /\ reqs[q].user = u
            /\ reqs[q].to # "owner" /\ u \in Owners(o)
        BY <2>1, <2>3, <2>4, <2>5 DEF WriteChange, Owners
      <4>2. QED
        BY <1>2, <2>6, <4>1 DEF KnowsAnotherOwner
    <3>2. members'[o][w] = "owner"
      BY <1>2, <2>3, <2>5, <3>1 DEF SetRole, Owners, TypeOK
    <3>3. QED
      BY <1>2, <3>1, <3>2 DEF Owners
  <2>7. QED
    BY <2>1, <2>3, <2>5, <2>6 DEF WriteChange
<1>3. TypeOK /\ KnowsAnotherOwner /\ [Next]_vars =>
        [\A o \in Orgs : Owners(o) # {} /\ Owners(o)' = {} =>
           \E q \in Requests : reqs[q].pc = "write" /\ reqs[q].org = o /\ reqs[q].raced]_vars
  BY <1>2
<1>4. QED
  BY <1>1, <1>3, TypeCorrect, KnowsStep, PTL DEF Spec, LastOwnerGoesOnlyInARace
=============================================================================
