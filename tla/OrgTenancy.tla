----------------------------- MODULE OrgTenancy -----------------------------
(***************************************************************************)
(* Organizations: their members, the organization that is active in a      *)
(* session, and the claims /userinfo makes of both.  Handlers read the     *)
(* store one call at a time and hold nothing between the calls: an admin   *)
(* who demotes or removes an owner counts the owners first, a user who     *)
(* switches is checked for membership first, and the claims are put        *)
(* together from one read per organization.                                *)
(***************************************************************************)
EXTENDS Naturals, FiniteSets, Sequences, SequencesExt

CONSTANTS
  Orgs,       \* organization ids
  Users,
  Sids,       \* sessions at the provider
  Owner,      \* the user of each session
  Requests,   \* requests that may be in flight at a time
  None,
  MaxFaults   \* bound: store calls that err, handlers that stop half way

ASSUME OwnerAssumption == Owner \in [Sids -> Users]
ASSUME UsersAssumption == IsFiniteSet(Users)
ASSUME NoneAssumption == None \notin Orgs
ASSUME FaultsAssumption == MaxFaults \in Nat

VARIABLES
  orgs,     \* table organizations, in the order of created_at
  members,  \* table organization_memberships: the role of each user, or "none"
  active,   \* column active_org_id of each session
  ended,    \* the sessions that are gone
  reqs,     \* requests in flight, with the local variables of their handlers
  faults    \* failures so far

vars == <<orgs, members, active, ended, reqs, faults>>

Roles == {"member", "owner"}
RoleOrNone == Roles \cup {"none"}
View == [org : Orgs, role : Roles]

Idle == [pc |-> "idle"]
CreateRequest == [pc : {"add_owner"}, org : Orgs, user : Users]
\* raced is history: a member of the organization was changed since the request
\* read the role.
ChangeRequest == [pc : {"count", "write"}, org : Orgs, user : Users, to : RoleOrNone,
                  raced : BOOLEAN]
SwitchRequest == [pc : {"session", "set_active"}, org : Orgs, sid : Sids]
\* views is what the claims say so far; lost is history: the roles the user
\* lost, anywhere, since the request began.
ClaimsRequest == [pc : {"list", "roles", "answered"}, sid : Sids, todo : SUBSET Orgs,
                  views : SUBSET View, primary : View \cup {None}, lost : SUBSET View]

\* Types of the tables and of the requests in flight.
TypeOK ==
  /\ orgs \in Seq(Orgs) /\ IsInjective(orgs)
  /\ members \in [Orgs -> [Users -> RoleOrNone]]
  /\ active \in [Sids -> Orgs \cup {None}]
  /\ ended \subseteq Sids
  /\ reqs \in [Requests -> {Idle} \cup CreateRequest \cup ChangeRequest
                           \cup SwitchRequest \cup ClaimsRequest]
  /\ faults \in 0..MaxFaults

Init ==
  /\ orgs = <<>>
  /\ members = [o \in Orgs |-> [u \in Users |-> "none"]]
  /\ active = [s \in Sids |-> None]
  /\ ended = {}
  /\ reqs = [q \in Requests |-> Idle]
  /\ faults = 0

-----------------------------------------------------------------------------
Created == ToSet(orgs)

(* ORDER BY created_at. *)
Before(o, p) ==
  \E i, j \in DOMAIN orgs : i < j /\ orgs[i] = o /\ orgs[j] = p

Becomes(q, r) == reqs' = [reqs EXCEPT ![q] = r]

Finish(q) == Becomes(q, Idle)

Owners(o) == {u \in Users : members[o][u] = "owner"}

IsMember(u, o) == members[o][u] # "none"

(* A row of another user with the same key is a conflict, and changes nothing. *)
AddOrganizationMember(o, u, role) ==
  members' = IF IsMember(u, o) THEN members ELSE [members EXCEPT ![o][u] = role]

(* A request for the user's claims remembers the role he loses, and another  *)
(* change of the organization that it has been overtaken.                    *)
Remember(r, o, u) ==
  IF r.pc \in {"list", "roles", "answered"} /\ Owner[r.sid] = u /\ IsMember(u, o)
    THEN [r EXCEPT !.lost = @ \cup {[org |-> o, role |-> members[o][u]]}]
  ELSE IF r.pc \in {"count", "write"} /\ r.org = o /\ IsMember(u, o)
    THEN [r EXCEPT !.raced = TRUE]
  ELSE r

(* UPDATE or DELETE of a row, if it is there. *)
SetRole(q, o, u, role) ==
  /\ members' = IF IsMember(u, o) THEN [members EXCEPT ![o][u] = role] ELSE members
  /\ reqs' = [p \in Requests |-> IF p = q THEN Idle ELSE Remember(reqs[p], o, u)]

-----------------------------------------------------------------------------
(***************************************************************************)
(* An organization is created by a user with a bearer token, or by an      *)
(* admin for a user; its owner is added by a second statement.             *)
(***************************************************************************)
Create(q, o, u) ==
  /\ reqs[q] = Idle
  /\ o \notin Created
  /\ orgs' = Append(orgs, o)
  /\ Becomes(q, [pc |-> "add_owner", org |-> o, user |-> u])
  /\ UNCHANGED <<members, active, ended, faults>>

AddOwner(q) ==
  /\ reqs[q].pc = "add_owner"
  /\ AddOrganizationMember(reqs[q].org, reqs[q].user, "owner")
  /\ Finish(q)
  /\ UNCHANGED <<orgs, active, ended, faults>>

-----------------------------------------------------------------------------
(***************************************************************************)
(* The admin API.  A role "none" stands for removal.                       *)
(***************************************************************************)
(* Defect: the role is stored as it came, when it was left out too. *)
AddMemberRaw(q, o, u, role) ==
  /\ reqs[q] = Idle
  /\ o \in Created
  /\ AddOrganizationMember(o, u, IF role = "member" THEN "" ELSE role)
  /\ UNCHANGED <<orgs, active, ended, reqs, faults>>

AddMember(q, o, u, role) ==
  /\ reqs[q] = Idle
  /\ o \in Created
  /\ AddOrganizationMember(o, u, role)
  /\ UNCHANGED <<orgs, active, ended, reqs, faults>>

(* Only who is an owner now, and would not be afterwards, has the owners     *)
(* counted.                                                                  *)
ChangeMember(q, o, u, to) ==
  /\ reqs[q] = Idle
  /\ IsMember(u, o)
  /\ Becomes(q, [pc |-> IF members[o][u] = "owner" /\ to # "owner" THEN "count" ELSE "write",
                 org |-> o, user |-> u, to |-> to, raced |-> FALSE])
  /\ UNCHANGED <<orgs, members, active, ended, faults>>

(* Defect: the last owner counts as one too many. *)
CountOwnersOffByOne(q) ==
  /\ reqs[q].pc = "count"
  /\ Becomes(q, IF Cardinality(Owners(reqs[q].org)) < 1
                  THEN Idle ELSE [reqs[q] EXCEPT !.pc = "write"])
  /\ UNCHANGED <<orgs, members, active, ended, faults>>

CountOwners(q) ==
  /\ reqs[q].pc = "count"
  /\ Becomes(q, IF Cardinality(Owners(reqs[q].org)) <= 1
                  THEN Idle ELSE [reqs[q] EXCEPT !.pc = "write"])
  /\ UNCHANGED <<orgs, members, active, ended, faults>>

WriteChange(q) ==
  /\ reqs[q].pc = "write"
  /\ SetRole(q, reqs[q].org, reqs[q].user, reqs[q].to)
  /\ UNCHANGED <<orgs, active, ended, faults>>

-----------------------------------------------------------------------------
(***************************************************************************)
(* A user switches the active organization of a session: by its cookie, or *)
(* with a token that names its sid (and then the session is read first).   *)
(***************************************************************************)
Switch(q, s, o) ==
  /\ reqs[q] = Idle
  /\ IsMember(Owner[s], o)
  /\ \E pc \in {"session", "set_active"} :
       /\ pc = "set_active" => s \notin ended
       /\ Becomes(q, [pc |-> pc, org |-> o, sid |-> s])
  /\ UNCHANGED <<orgs, members, active, ended, faults>>

ReadSession(q) ==
  /\ reqs[q].pc = "session"
  /\ Becomes(q, IF reqs[q].sid \in ended THEN Idle ELSE [reqs[q] EXCEPT !.pc = "set_active"])
  /\ UNCHANGED <<orgs, members, active, ended, faults>>

SetSessionActiveOrg(q) ==
  /\ reqs[q].pc = "set_active"
  /\ active' = IF reqs[q].sid \in ended
                 THEN active ELSE [active EXCEPT ![reqs[q].sid] = reqs[q].org]
  /\ Finish(q)
  /\ UNCHANGED <<orgs, members, ended, faults>>

(* The user logs out; access tokens of the session stay good. *)
EndSession(s) ==
  /\ s \notin ended
  /\ ended' = ended \cup {s}
  /\ UNCHANGED <<orgs, members, active, reqs, faults>>

-----------------------------------------------------------------------------
(***************************************************************************)
(* /userinfo with scope org.                                               *)
(***************************************************************************)
Userinfo(q, s) ==
  /\ reqs[q] = Idle
  /\ Becomes(q, [pc |-> "list", sid |-> s, todo |-> {}, views |-> {},
                 primary |-> None, lost |-> {}])
  /\ UNCHANGED <<orgs, members, active, ended, faults>>

ListOrganizations(q) ==
  /\ reqs[q].pc = "list"
  /\ Becomes(q, [reqs[q] EXCEPT
       !.pc = "roles", !.todo = {o \in Created : IsMember(Owner[reqs[q].sid], o)}])
  /\ UNCHANGED <<orgs, members, active, ended, faults>>

(* One membership after the other, the oldest organization first; one that  *)
(* is gone by now is skipped.                                               *)
ReadRole(q) ==
  /\ reqs[q].pc = "roles"
  /\ \E o \in reqs[q].todo :
       LET role == members[o][Owner[reqs[q].sid]] IN
       /\ \A x \in reqs[q].todo : ~Before(x, o)
       /\ Becomes(q, [reqs[q] EXCEPT
            !.todo = @ \ {o},
            !.views = IF role = "none" THEN @ ELSE @ \cup {[org |-> o, role |-> role]}])
  /\ UNCHANGED <<orgs, members, active, ended, faults>>

Oldest(views) == {v \in views : \A x \in views : ~Before(x.org, v.org)}

(* Defect: the active organization of the session is taken at its word. *)
PrimaryOrgUnchecked(views, s) ==
  IF s \notin ended /\ active[s] # None
    THEN {[org |-> active[s], role |-> v.role] : v \in views}
    ELSE Oldest(views)

(* The active organization, if the user is still seen as a member of it, and *)
(* the oldest one if not.                                                    *)
PrimaryOrg(views, s) ==
  LET current == {v \in views : s \notin ended /\ v.org = active[s]} IN
  IF current # {} THEN current ELSE Oldest(views)

(* With no membership there are no claims. *)
AnswerOneOf(q, views) ==
  /\ reqs[q].pc = "roles" /\ reqs[q].todo = {}
  /\ \E v \in IF reqs[q].views = {} THEN {None} ELSE views :
       Becomes(q, [reqs[q] EXCEPT !.pc = "answered", !.primary = v])
  /\ UNCHANGED <<orgs, members, active, ended>>

Answer(q) ==
  /\ AnswerOneOf(q, PrimaryOrg(reqs[q].views, reqs[q].sid))
  /\ UNCHANGED faults

Respond(q) ==
  /\ reqs[q].pc = "answered"
  /\ Finish(q)
  /\ UNCHANGED <<orgs, members, active, ended, faults>>

-----------------------------------------------------------------------------
Fault ==
  /\ faults < MaxFaults
  /\ faults' = faults + 1

(* A membership that cannot be read is skipped as if it were gone. *)
ReadRoleError(q) ==
  /\ reqs[q].pc = "roles"
  /\ \E o \in reqs[q].todo :
       /\ \A x \in reqs[q].todo : ~Before(x, o)
       /\ Becomes(q, [reqs[q] EXCEPT !.todo = @ \ {o}])
  /\ Fault
  /\ UNCHANGED <<orgs, members, active, ended>>

(* With a session that cannot be read the oldest organization is active. *)
GetSessionError(q) == AnswerOneOf(q, Oldest(reqs[q].views)) /\ Fault

(* Another store call errs, or the client disconnects, and the handler stops there. *)
Abandon(q) ==
  /\ reqs[q] # Idle /\ reqs[q].pc # "answered"
  /\ Fault
  /\ Finish(q)
  /\ UNCHANGED <<orgs, members, active, ended>>

AdminStep(q) ==
  \/ \E o \in Orgs, u \in Users :
        \/ Create(q, o, u)
        \/ \E role \in Roles : AddMember(q, o, u, role)
        \/ \E to \in RoleOrNone : ChangeMember(q, o, u, to)
  \/ AddOwner(q) \/ CountOwners(q) \/ WriteChange(q)

UserStep(q) ==
  \/ \E s \in Sids : Userinfo(q, s) \/ \E o \in Orgs : Switch(q, s, o)
  \/ ReadSession(q) \/ SetSessionActiveOrg(q)
  \/ ListOrganizations(q) \/ ReadRole(q) \/ Answer(q) \/ Respond(q)

Next ==
  \/ \E q \in Requests :
        \/ AdminStep(q) \/ UserStep(q)
        \/ ReadRoleError(q) \/ GetSessionError(q) \/ Abandon(q)
  \/ \E s \in Sids : EndSession(s)

Spec == Init /\ [][Next]_vars

-----------------------------------------------------------------------------
\* Every role /userinfo claims, and the active one of them, is one the user has
\* or lost only after the request came in: a membership that was removed or
\* changed before is never claimed, whatever the session says is active
\* (MembershipViews, PrimaryOrg).
ClaimsAreCurrent ==
  \A q \in Requests : reqs[q].pc \in {"list", "roles", "answered"} =>
    LET r == reqs[q]
        claimed == r.views \cup ({r.primary} \ {None}) IN
    \A v \in claimed : members[v.org][Owner[r.sid]] = v.role \/ v \in r.lost

\* A request takes the last owner away only if another one changed a member of
\* the organization since it read the role (handleAdminUpdateOrganizationMember,
\* handleAdminRemoveOrganizationMember).
LastOwnerGoesOnlyInARace ==
  [][\A o \in Orgs : Owners(o) # {} /\ Owners(o)' = {} =>
       \E q \in Requests : reqs[q].pc = "write" /\ reqs[q].org = o /\ reqs[q].raced]_vars

\* No request takes the last owner away: "last owner remove want 403"
\* (web/admin_test.go:311), "cannot demote the last owner" (admin_orgs.go:267).
LastOwnerStays ==
  [][\A o \in Orgs : Owners(o) # {} => Owners(o)' # {}]_vars
=============================================================================
