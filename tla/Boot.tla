-------------------------------- MODULE Boot --------------------------------
(***************************************************************************)
(* The server from its start until it serves: it brings the schema of the  *)
(* database up to date, script by script, then inserts or updates the      *)
(* clients, the user and the organization its environment names.  A script *)
(* and the record that it ran are two transactions, a client is read and   *)
(* then written, the organization and its owner are two writes; several    *)
(* replicas may start together, one may start while another serves and an  *)
(* admin edits clients, and any may stop at any point.  An error in all of *)
(* this ends the process, which is started again.                          *)
(*                                                                         *)
(* Scripts are numbered in the order of their names.                       *)
(***************************************************************************)
EXTENDS ClientRegistry

CONSTANTS
  Replicas,    \* processes
  Last,        \* number of scripts
  Idempotent,  \* the scripts that may run again (ADD COLUMN IF NOT EXISTS)
  Seeds,       \* clients of the environment
  SeedURI,     \* the redirect URI of each
  SeedLabel    \* its name, and the logout URIs derived from the redirect URI

Scripts == 1..Last

ASSUME ScriptsAssumption == Last \in Nat /\ Idempotent \subseteq Scripts
ASSUME SeedsAssumption ==
  /\ Seeds \subseteq Clients
  /\ SeedURI \in [Seeds -> URIs] /\ SeedLabel \in [Seeds -> Labels]

VARIABLES
  applied,   \* the scripts whose statements took effect
  versions,  \* table schema_migrations
  user,      \* the demo user is there
  orgs,      \* number of organizations, which are named by it
  owned,     \* those the demo user owns
  procs,     \* the replicas
  halted     \* history: scripts after which their runner stopped

schema == <<applied, versions>>
tenants == <<user, orgs, owned>>
vars == <<registry, faults, schema, tenants, procs, halted>>

Down == [pc |-> "down"]
\* skipped is history: the look for the user's organization failed.
Serving(skipped) == [pc |-> "serving", skipped |-> skipped]
Migrating == [pc : {"check", "script", "record"}, script : Scripts]
\* todo: clients still to be seeded.
Seeding == [pc : {"seed", "user", "org"}, todo : SUBSET Seeds]
\* raced is history: the row has changed since it was read.
Upserting == [pc : {"create"}, todo : SUBSET Seeds, client : Seeds]
             \cup
             [pc : {"update"}, todo : SUBSET Seeds, client : Seeds,
              redirects : SUBSET URIs, raced : BOOLEAN]
Owning == [pc : {"owner"}, org : 1..orgs]

Places == {Down} \cup {Serving(skipped) : skipped \in BOOLEAN}
          \cup Migrating \cup Seeding \cup Upserting \cup Owning

\* Types of the database and of the replicas.
TypeOK ==
  /\ RegistryTypeOK
  /\ applied \subseteq Scripts /\ versions \subseteq Scripts
  /\ user \in BOOLEAN
  /\ orgs \in Nat /\ owned \subseteq 1..orgs
  /\ procs \in [Replicas -> Places]
  /\ halted \subseteq Scripts

\* The database is empty, or an earlier release has left it.
Init ==
  /\ RegistryInit
  /\ \E n \in 0..Last : applied = 1..n /\ versions = 1..n
  /\ user = FALSE
  /\ orgs = 0 /\ owned = {}
  /\ procs = [r \in Replicas |-> Down]
  /\ halted = {}

-----------------------------------------------------------------------------
Becomes(r, state) == procs' = [procs EXCEPT ![r] = state]

(* log.Fatal *)
Exits(r) == Becomes(r, Down)

Unhurt == UNCHANGED <<faults, halted>>

AtScript(k) ==
  IF k <= Last THEN [pc |-> "check", script |-> k] ELSE [pc |-> "seed", todo |-> Seeds]

Start(r) ==
  /\ procs[r] = Down
  /\ Becomes(r, AtScript(1))
  /\ Unhurt /\ UNCHANGED <<registry, schema, tenants>>

-----------------------------------------------------------------------------
(***************************************************************************)
(* The schema                                                              *)
(***************************************************************************)
CheckScript(r) ==
  LET k == procs[r].script IN
  /\ procs[r].pc = "check"
  /\ Becomes(r, IF k \in versions THEN AtScript(k + 1)
                ELSE [pc |-> "script", script |-> k])
  /\ Unhurt /\ UNCHANGED <<registry, schema, tenants>>

(* A lookup that fails finds nothing. *)
CheckScriptError(r) ==
  /\ procs[r].pc = "check"
  /\ Fault
  /\ Becomes(r, [pc |-> "script", script |-> procs[r].script])
  /\ UNCHANGED <<registry, schema, tenants, halted>>

(* Defect: the next script is run although this one failed. *)
RunScriptAnyway(r) ==
  LET k == procs[r].script IN
  /\ procs[r].pc = "script"
  /\ IF k \in applied \ Idempotent
       THEN Becomes(r, AtScript(k + 1)) /\ UNCHANGED applied
       ELSE Becomes(r, [pc |-> "record", script |-> k]) /\ applied' = applied \cup {k}
  /\ Unhurt /\ UNCHANGED <<registry, versions, tenants>>

(* Defect: no transaction, a script that fails keeps what it has done. *)
RunScriptUnguarded(r) ==
  LET k == procs[r].script IN
  /\ procs[r].pc = "script"
  /\ applied' = applied \cup {k}
  /\ IF k \in applied \ Idempotent THEN Exits(r)
     ELSE Becomes(r, [pc |-> "record", script |-> k]) \/ Exits(r)
  /\ Unhurt /\ UNCHANGED <<registry, versions, tenants>>

(* BEGIN; ...; COMMIT.  A table or column that is there already is an error. *)
RunScript(r) ==
  LET k == procs[r].script IN
  /\ procs[r].pc = "script"
  /\ IF k \in applied \ Idempotent
       THEN Exits(r) /\ UNCHANGED applied
       ELSE Becomes(r, [pc |-> "record", script |-> k]) /\ applied' = applied \cup {k}
  /\ Unhurt /\ UNCHANGED <<registry, versions, tenants>>

(* Recorded by another replica meanwhile: the key is there, an error. *)
RecordVersion(r) ==
  LET k == procs[r].script IN
  /\ procs[r].pc = "record"
  /\ IF k \in versions
       THEN Exits(r) /\ UNCHANGED versions
       ELSE Becomes(r, AtScript(k + 1)) /\ versions' = versions \cup {k}
  /\ Unhurt /\ UNCHANGED <<registry, applied, tenants>>

-----------------------------------------------------------------------------
(***************************************************************************)
(* The seeds                                                               *)
(***************************************************************************)
SeedRow(c) ==
  [type |-> "public", secret |-> None, redirects |-> {SeedURI[c]}, label |-> SeedLabel[c]]

AfterSeed(todo) == [pc |-> IF todo = {} THEN "user" ELSE "seed", todo |-> todo]

(* Defect: the URI of the environment replaces those the client has. *)
UnionOfNew(row, c) == {SeedURI[c]}

unionExact(row, c) == row.redirects \cup {SeedURI[c]}

(* No client to seed, or the next one is read.                               *)
ReadSeed(r) ==
  /\ procs[r].pc = "seed"
  /\ IF procs[r].todo = {} THEN Becomes(r, AfterSeed({}))
     ELSE \E c \in procs[r].todo :
       LET todo == procs[r].todo \ {c}  row == clients[c] IN
       IF ~Exists(c)
         THEN Becomes(r, [pc |-> "create", todo |-> todo, client |-> c])
       ELSE IF row = Patched(row, unionExact(row, c), SeedLabel[c])
         THEN Becomes(r, AfterSeed(todo))
       ELSE Becomes(r, [pc |-> "update", todo |-> todo, client |-> c,
                        redirects |-> unionExact(row, c), raced |-> FALSE])
  /\ Unhurt /\ UNCHANGED <<registry, schema, tenants>>

(* Created by another replica meanwhile: a conflict, which is not forgiven. *)
CreateSeed(r) ==
  LET c == procs[r].client IN
  /\ procs[r].pc = "create"
  /\ IF Exists(c)
       THEN Exits(r) /\ UNCHANGED clients
       ELSE Becomes(r, AfterSeed(procs[r].todo)) /\ clients' = [clients EXCEPT ![c] = SeedRow(c)]
  /\ Unhurt /\ UNCHANGED <<reqs, drawn, told, lost, replaced, schema, tenants>>

(* Who is about to write what it read of a client that is changed meanwhile. *)
Overtaken(p) ==
  IF procs[p].pc = "update" /\ clients'[procs[p].client] # clients[procs[p].client]
    THEN [procs[p] EXCEPT !.raced = TRUE] ELSE procs[p]

(* The redirect URIs are written as they were read, and the label anew. *)
UpdateSeed(r) ==
  LET c == procs[r].client  todo == procs[r].todo IN
  /\ procs[r].pc = "update"
  /\ clients' = [clients EXCEPT ![c] = Patched(@, procs[r].redirects, SeedLabel[c])]
  /\ procs' = [p \in Replicas |-> IF p = r THEN AfterSeed(todo) ELSE Overtaken(p)]
  /\ Unhurt /\ UNCHANGED <<reqs, drawn, told, lost, replaced, schema, tenants>>

(* Defect: a user that is there already ends the process. *)
SeedUserOnce(r) ==
  /\ procs[r].pc = "user"
  /\ user' = TRUE
  /\ IF user THEN Exits(r) ELSE Becomes(r, [pc |-> "org", todo |-> {}])
  /\ Unhurt /\ UNCHANGED <<registry, schema, orgs, owned>>

(* A user that is there already is fine. *)
SeedUser(r) ==
  /\ procs[r].pc = "user"
  /\ user' = TRUE
  /\ Becomes(r, [pc |-> "org", todo |-> {}])
  /\ Unhurt /\ UNCHANGED <<registry, schema, orgs, owned>>

(* Defect: an organization of nobody will do. *)
SeedOrganizationOfAnyone(r) ==
  /\ procs[r].pc = "org"
  /\ IF orgs # 0
       THEN Becomes(r, Serving(FALSE)) /\ UNCHANGED orgs
       ELSE Becomes(r, [pc |-> "owner", org |-> orgs + 1]) /\ orgs' = orgs + 1
  /\ Unhurt /\ UNCHANGED <<registry, schema, user, owned>>

(* Made when the user belongs to none. *)
SeedOrganization(r) ==
  /\ procs[r].pc = "org"
  /\ IF owned # {}
       THEN Becomes(r, Serving(FALSE)) /\ UNCHANGED orgs
       ELSE Becomes(r, [pc |-> "owner", org |-> orgs + 1]) /\ orgs' = orgs + 1
  /\ Unhurt /\ UNCHANGED <<registry, schema, user, owned>>

(* A user that cannot be looked up needs no organization. *)
SkipOrganization(r) ==
  /\ procs[r].pc = "org"
  /\ Fault
  /\ Becomes(r, Serving(TRUE))
  /\ UNCHANGED <<registry, schema, tenants, halted>>

SeedOwner(r) ==
  /\ procs[r].pc = "owner"
  /\ owned' = owned \cup {procs[r].org}
  /\ Becomes(r, Serving(FALSE))
  /\ Unhurt /\ UNCHANGED <<registry, schema, user, orgs>>

-----------------------------------------------------------------------------
(***************************************************************************)
(* Admins, and what goes wrong                                             *)
(***************************************************************************)
Serves(r) == procs[r].pc = "serving"

(* The admin API of a server that serves. *)
Administer ==
  /\ \E r \in Replicas : Serves(r)
  /\ AdminStep \/ HandlerStep
  /\ procs' = [p \in Replicas |-> Overtaken(p)]
  /\ UNCHANGED <<schema, tenants, halted>>

(* The process stops, or another store call of its start fails, with effect *)
(* or without.  The handlers of a server that served go with it.               *)
Crash(r) ==
  /\ procs[r] # Down
  /\ Fault
  /\ Exits(r)
  /\ halted' = IF procs[r].pc = "record" THEN halted \cup {procs[r].script} ELSE halted
  /\ \E those \in SUBSET {a \in Admins : reqs[a] # Idle} :
       /\ IF \E p \in Replicas \ {r} : Serves(p)
            THEN ~Serves(r) => those = {}
            ELSE those = {a \in Admins : reqs[a] # Idle}
       /\ Fail(those)
  /\ UNCHANGED <<clients, drawn, told, replaced, schema, tenants>>

-----------------------------------------------------------------------------
Boots(r) ==
  \/ Start(r) \/ CheckScript(r) \/ RunScript(r) \/ RecordVersion(r)
  \/ ReadSeed(r) \/ CreateSeed(r) \/ UpdateSeed(r)
  \/ SeedUser(r) \/ SeedOrganization(r) \/ SeedOwner(r)

Next == Administer \/ \E r \in Replicas : Boots(r) \/ CheckScriptError(r) \/ SkipOrganization(r) \/ Crash(r)

Spec == Init /\ [][Next]_vars

\* A process that has ended is started again, and one that starts goes on.
FairSpec == Spec /\ \A r \in Replicas : WF_vars(Boots(r))

-----------------------------------------------------------------------------
\* A script took effect, has no record, may not run again, and nobody is about to
\* record it: every start from now on ends at it.
Stuck ==
  \E k \in applied \ (versions \cup Idempotent) :
    \A r \in Replicas : procs[r].pc = "record" => procs[r].script # k

\* Scripts take effect in order, each is recorded before the next one runs, and
\* what is recorded took effect, whoever starts at the same time and stops where
\* (migrate).
SchemaInOrder ==
  \E n \in 0..Last : versions = 1..n /\ applied \in {1..n, 1..(n + 1)}

\* A server that serves has the schema of its release, its clients, its user and
\* an organization of that user, unless the user could not be looked up, whatever
\* other replicas did to them meanwhile.
ServesWhenReady ==
  \A r \in Replicas : Serves(r) =>
    /\ versions = Scripts
    /\ \A c \in Seeds : Exists(c)
    /\ user
    /\ ~procs[r].skipped => owned # {}

\* Only a process that stops between a script and its record can block the
\* start for good (migrate.go:44): replicas that race for a script cannot.
StuckOnlyByAHalt == Stuck => halted \ versions # {}

\* A seed takes no redirect URI from a client, and adds its own, unless an admin
\* or another replica changed the client since it was read (upsertPublicClient).
SeedsDropNoURI ==
  [][\A r \in Replicas :
       /\ procs[r].pc = "update" /\ ~procs[r].raced
       /\ procs'[r].pc \in {"seed", "user"}
       => LET c == procs[r].client IN
          clients[c].redirects \cup {SeedURI[c]} \subseteq clients'[c].redirects]_vars

\* Every replica serves in the end, once nothing stops any more, unless the
\* schema is stuck.
ReplicasServe == <>[]Stuck \/ \A r \in Replicas : <>[]Serves(r)

-----------------------------------------------------------------------------
Migrates(r) == procs[r].pc \in {"check", "script", "record"}
Upserts(r) == procs[r].pc \in {"create", "update"}
Records(r, k) == procs[r].pc = "record" /\ procs[r].script = k

(* Where a replica is says how far the schema must be.                       *)
MigratesInOrder ==
  /\ SchemaInOrder
  /\ \A r \in Replicas :
       /\ Migrates(r) => 1..(procs[r].script - 1) \subseteq versions
       /\ procs[r].pc = "record" => procs[r].script \in applied
       /\ ~Migrates(r) /\ procs[r] # Down => versions = Scripts

(* A script without its record has a replica about to record it, or had one. *)
HalvesAccounted ==
  \A k \in applied \ versions : k \in halted \/ \E r \in Replicas : Records(r, k)

(* Where a replica is says what is there.                                    *)
SeedInOrder(r) ==
  /\ procs[r].pc = "seed" => \A c \in Seeds \ procs[r].todo : Exists(c)
  /\ Upserts(r) => \A c \in Seeds \ (procs[r].todo \cup {procs[r].client}) : Exists(c)
  /\ procs[r].pc \in {"user", "org", "owner", "serving"} => \A c \in Seeds : Exists(c)
  /\ procs[r].pc \in {"org", "owner", "serving"} => user
  /\ procs[r].pc = "serving" /\ ~procs[r].skipped => owned # {}

SeedsInOrder == \A r \in Replicas : SeedInOrder(r)

(* What a replica is about to write is what it read, unless it is marked.    *)
ReadsAreCurrent ==
  \A r \in Replicas : procs[r].pc = "update" =>
    LET c == procs[r].client IN
    /\ Exists(c)
    /\ ~procs[r].raced => procs[r].redirects = unionExact(clients[c], c)

\* Between any two steps of any number of replicas and admins: the schema grows in
\* order, what a replica has passed is there, a script without a record is
\* accounted for, and no secret is in two places.
BootInv ==
  /\ TypeOK
  /\ RegistryInv
  /\ MigratesInOrder /\ HalvesAccounted /\ SeedsInOrder /\ ReadsAreCurrent
=============================================================================
