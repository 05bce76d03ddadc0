--------------------------- MODULE ClientRegistry ---------------------------
(***************************************************************************)
(* The clients an admin registers, edits and gives new secrets, over       *)
(* /admin/api/clients.  An edit is one statement; a rotation reads the     *)
(* client, draws a secret, stores its hash, and only then tells it, once:  *)
(* two rotations, or a rotation that fails half way, can leave the client  *)
(* with a secret other than the one its admin holds.                       *)
(*                                                                         *)
(* A secret stands for its hash, and is numbered as it is drawn.  label   *)
(* stands for the name and the logout URIs of a client, which are written  *)
(* together with its redirect URIs.                                        *)
(***************************************************************************)
EXTENDS Naturals

CONSTANTS
  Admins,    \* handlers of the admin API, each used over and over
  Clients,   \* client ids
  URIs,      \* redirect URIs that parse
  Rejected,  \* entries that do not: no scheme, a fragment, a blocked scheme
  Blank,     \* an entry of white space
  Labels,    \* names and logout URIs
  None,      \* no row, no secret
  MaxDrawn,  \* bound: secrets drawn
  MaxFaults  \* bound: failures of all kinds in one behaviour

ASSUME EntriesAssumption == URIs \cap Rejected = {} /\ Blank \notin URIs \cup Rejected
ASSUME BoundsAssumption == MaxDrawn \in Nat /\ MaxFaults \in Nat
ASSUME NoneAssumption ==
  /\ None \notin Nat
  /\ None \notin [type : {"public", "confidential"}, secret : Nat \cup {None},
                 redirects : SUBSET URIs, label : Labels]

VARIABLES
  clients,   \* table clients
  reqs,      \* the handlers that have a secret to store or to tell
  faults,    \* failures so far
  drawn,     \* number of secrets drawn
  told,      \* history: the secrets told to an admin
  lost,      \* history: those whose answer failed
  replaced   \* history: those that were in force and are no longer

registry == <<clients, reqs, drawn, told, lost, replaced>>

Secrets == 1..drawn
Entries == URIs \cup Rejected \cup {Blank}

Row ==
  [type : {"public"}, secret : {None}, redirects : SUBSET URIs, label : Labels]
  \cup
  [type : {"confidential"}, secret : Secrets, redirects : SUBSET URIs, label : Labels]

Idle == [pc |-> "idle"]
\* beaten is history: another rotation was stored after this one.
Telling == [pc : {"store"}, client : Clients, secret : Secrets, beaten : {FALSE}]
           \cup [pc : {"answer"}, client : Clients, secret : Secrets, beaten : BOOLEAN]

RegistryTypeOK ==
  /\ clients \in [Clients -> Row \cup {None}]
  /\ reqs \in [Admins -> {Idle} \cup Telling]
  /\ faults \in 0..MaxFaults
  /\ drawn \in 0..MaxDrawn
  /\ told \subseteq Secrets /\ lost \subseteq Secrets /\ replaced \subseteq Secrets

RegistryInit ==
  /\ clients = [c \in Clients |-> None]
  /\ reqs = [a \in Admins |-> Idle]
  /\ faults = 0
  /\ drawn = 0 /\ told = {} /\ lost = {} /\ replaced = {}

-----------------------------------------------------------------------------
Fault ==
  /\ faults < MaxFaults
  /\ faults' = faults + 1

Draw ==
  /\ drawn < MaxDrawn
  /\ drawn' = drawn + 1

NoFault == UNCHANGED faults

Exists(c) == clients[c] # None

(* Defect: entries that do not parse are stored as well. *)
NormalizeRedirectsUnparsed(entries) == entries \ {Blank}

(* What is left of a list of redirect URIs.  The list is refused when an     *)
(* entry does not parse, or nothing is left: then nothing is returned here.  *)
normalizeRedirects(entries) ==
  IF entries \cap Rejected = {} THEN entries \ {Blank} ELSE {}

(* Secret presented at /token; None is no secret. *)
authenticateClient(c, secret) ==
  Exists(c) /\ clients[c].secret = secret

(* Defect: the row is replaced as a whole, with what a new client gets. *)
PatchedToPublic(row, uris, label) ==
  [type |-> "public", secret |-> None, redirects |-> uris, label |-> label]

(* What UpdateClient writes: the type and the secret stay. *)
Patched(row, uris, label) == [row EXCEPT !.redirects = uris, !.label = label]

-----------------------------------------------------------------------------
(* Refused when the id is taken. *)
CreatePublic(c, entries, label) ==
  LET uris == normalizeRedirects(entries) IN
  /\ uris # {}
  /\ ~Exists(c)
  /\ clients' = [clients EXCEPT ![c] =
       [type |-> "public", secret |-> None, redirects |-> uris, label |-> label]]
  /\ NoFault /\ UNCHANGED <<reqs, drawn, told, lost, replaced>>

(* Defect: the secret of a new client is not in the answer. *)
CreateConfidentialUntold(a, c, entries, label) ==
  LET uris == normalizeRedirects(entries) IN
  /\ uris # {}
  /\ ~Exists(c)
  /\ Draw
  /\ clients' = [clients EXCEPT ![c] =
       [type |-> "confidential", secret |-> drawn', redirects |-> uris, label |-> label]]
  /\ NoFault /\ UNCHANGED <<reqs, told, lost, replaced>>

CreateConfidential(a, c, entries, label) ==
  LET uris == normalizeRedirects(entries) IN
  /\ reqs[a] = Idle
  /\ uris # {}
  /\ ~Exists(c)
  /\ Draw
  /\ clients' = [clients EXCEPT ![c] =
       [type |-> "confidential", secret |-> drawn', redirects |-> uris, label |-> label]]
  /\ reqs' = [reqs EXCEPT ![a] =
       [pc |-> "answer", client |-> c, secret |-> drawn', beaten |-> FALSE]]
  /\ NoFault /\ UNCHANGED <<told, lost, replaced>>

UpdateClient(c, entries, label) ==
  LET uris == normalizeRedirects(entries) IN
  /\ uris # {}
  /\ Exists(c)
  /\ clients' = [clients EXCEPT ![c] = Patched(@, uris, label)]
  /\ NoFault /\ UNCHANGED <<reqs, drawn, told, lost, replaced>>

(* Defect: the client may be a public one. *)
RotateAnyClient(a, c) ==
  /\ reqs[a] = Idle
  /\ Exists(c)
  /\ Draw
  /\ reqs' = [reqs EXCEPT ![a] =
       [pc |-> "store", client |-> c, secret |-> drawn', beaten |-> FALSE]]
  /\ NoFault /\ UNCHANGED <<clients, told, lost, replaced>>

(* The client is read, and refused if public. *)
RotateSecret(a, c) ==
  /\ reqs[a] = Idle
  /\ Exists(c) /\ clients[c].type = "confidential"
  /\ Draw
  /\ reqs' = [reqs EXCEPT ![a] =
       [pc |-> "store", client |-> c, secret |-> drawn', beaten |-> FALSE]]
  /\ NoFault /\ UNCHANGED <<clients, told, lost, replaced>>

SetClientSecret(c, secret) ==
  /\ clients' = [clients EXCEPT ![c].secret = secret]
  /\ replaced' = replaced \cup ({clients[c].secret} \ {secret})

StoreSecret(a) ==
  /\ reqs[a].pc = "store"
  /\ SetClientSecret(reqs[a].client, reqs[a].secret)
  /\ reqs' = [b \in Admins |->
       IF b = a THEN [reqs[a] EXCEPT !.pc = "answer"]
       ELSE IF reqs[b].pc = "answer" /\ reqs[b].client = reqs[a].client
         THEN [reqs[b] EXCEPT !.beaten = TRUE] ELSE reqs[b]]
  /\ NoFault /\ UNCHANGED <<drawn, told, lost>>

(* The admins of these handlers get an error, or no answer.                  *)
Fail(those) ==
  /\ reqs' = [a \in Admins |-> IF a \in those THEN Idle ELSE reqs[a]]
  /\ lost' = lost \cup {reqs[a].secret : a \in those}

StoreSecretError(a) ==
  /\ reqs[a].pc = "store"
  /\ Fault
  /\ Fail({a})
  /\ UNCHANGED <<clients, drawn, told, replaced>>

Answer(a) ==
  /\ reqs[a].pc = "answer"
  /\ told' = told \cup {reqs[a].secret}
  /\ reqs' = [reqs EXCEPT ![a] = Idle]
  /\ NoFault /\ UNCHANGED <<clients, drawn, lost, replaced>>

(* Defect: the secret is stored once more when its answer fails. *)
LoseAnswerRetried(a) ==
  /\ reqs[a].pc = "answer"
  /\ Fault
  /\ SetClientSecret(reqs[a].client, reqs[a].secret)
  /\ UNCHANGED <<reqs, drawn, told, lost>>

(* Stored, but the store answers with an error, the admin has gone or the    *)
(* process stops.                                                            *)
LoseAnswer(a) ==
  /\ reqs[a].pc = "answer"
  /\ Fault
  /\ Fail({a})
  /\ UNCHANGED <<clients, drawn, told, replaced>>

-----------------------------------------------------------------------------
(* What an admin may do, at a server that serves. *)
AdminStep ==
  \/ \E c \in Clients, entries \in SUBSET Entries, label \in Labels :
        \/ CreatePublic(c, entries, label)
        \/ UpdateClient(c, entries, label)
        \/ \E a \in Admins : CreateConfidential(a, c, entries, label)
  \/ \E a \in Admins, c \in Clients : RotateSecret(a, c)

HandlerStep ==
  \E a \in Admins : StoreSecret(a) \/ Answer(a) \/ StoreSecretError(a) \/ LoseAnswer(a)

-----------------------------------------------------------------------------
\* A secret that was replaced is never accepted again: of two rotations, and
\* edits and failures between them, none brings it back (handleAdminRotateSecret,
\* UpdateClient, authenticateClient).
ReplacedSecretsAreRefused ==
  \A c \in Clients, secret \in replaced : ~authenticateClient(c, secret)

\* A client accepts a secret its admin was told, or is about to be: one nobody
\* knows is left in force only by an answer that failed.
SecretsInForceAreKnown ==
  \A c \in Clients : Exists(c) /\ clients[c].type = "confidential" =>
    \/ clients[c].secret \in told \cup lost
    \/ \E a \in Admins : reqs[a].pc = "answer" /\ reqs[a].secret = clients[c].secret

\* The secret an answer tells is the one in force, but for those beaten by
\* another rotation of the client (admin.go:258): whatever is edited meanwhile,
\* exactly the last one stored works.
AnswersWork ==
  \A a \in Admins : reqs[a].pc = "answer" =>
    (authenticateClient(reqs[a].client, reqs[a].secret) <=> ~reqs[a].beaten)

(* A secret that is still to be stored is new to everyone, and so no two     *)
(* clients share one.                                                        *)
SecretsApart ==
  /\ \A c, d \in Clients :
       /\ Exists(c) /\ Exists(d) /\ c # d
       /\ clients[c].type = "confidential" /\ clients[d].type = "confidential"
       => clients[c].secret # clients[d].secret
  /\ \A a \in Admins : reqs[a].pc = "store" =>
       /\ Exists(reqs[a].client) /\ clients[reqs[a].client].type = "confidential"
       /\ reqs[a].secret \notin replaced
       /\ \A c \in Clients : ~authenticateClient(c, reqs[a].secret)
       /\ \A b \in Admins : reqs[b] # Idle /\ b # a => reqs[b].secret # reqs[a].secret
  /\ \A a \in Admins : reqs[a].pc = "answer" => Exists(reqs[a].client)

RegistryInv ==
  SecretsApart /\ ReplacedSecretsAreRefused /\ SecretsInForceAreKnown /\ AnswersWork
=============================================================================
