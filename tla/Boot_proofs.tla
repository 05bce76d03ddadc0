----------------------------- MODULE Boot_proofs -----------------------------
(***************************************************************************)
(* Theorems about Boot and the client registry it extends: types, the      *)
(* order of the schema, what a server that serves has, and the secrets.    *)
(* The registry comes first: a step of it is one of an admin, or a seed    *)
(* that is written, or handlers that fail.                                 *)
(***************************************************************************)
EXTENDS Boot, TLAPS

-----------------------------------------------------------------------------
(* Types of the registry.                                                  *)

\* What a row and a handler are made of.
LEMMA Rows ==
  ASSUME RegistryTypeOK, NEW c \in Clients, Exists(c)
  PROVE  /\ clients[c] \in Row
         /\ clients[c].type \in {"public", "confidential"}
         /\ clients[c].redirects \in SUBSET URIs /\ clients[c].label \in Labels
         /\ clients[c].type = "confidential" => clients[c].secret \in Secrets
         /\ clients[c].type = "public" => clients[c].secret = None
<1>1. clients[c] \in Row
  BY DEF RegistryTypeOK, Exists
<1> QED
  BY <1>1 DEF Row

\* A row is not the lack of one.
LEMMA RowsAreRows ==
  ASSUME drawn \in Nat, NEW row \in Row
  PROVE  row # None
<1>1. Secrets \subseteq Nat
  BY DEF Secrets
<1>2. row \in [type : {"public", "confidential"}, secret : Nat \cup {None},
               redirects : SUBSET URIs, label : Labels]
  BY <1>1 DEF Row
<1> QED
  BY <1>2, NoneAssumption

\* A handler that is not idle.
LEMMA Tellers ==
  ASSUME RegistryTypeOK, NEW a \in Admins
  PROVE  /\ reqs[a] = Idle <=> reqs[a].pc = "idle"
         /\ reqs[a] # Idle =>
              /\ reqs[a] \in Telling
              /\ reqs[a].pc \in {"store", "answer"}
              /\ reqs[a].client \in Clients /\ reqs[a].secret \in Secrets
              /\ reqs[a].beaten \in BOOLEAN
         /\ reqs[a].pc = "store" => reqs[a].beaten = FALSE
<1>1. reqs[a] \in {Idle} \cup Telling /\ Idle.pc = "idle"
  BY DEF RegistryTypeOK, Idle
<1>2. ASSUME reqs[a] \in Telling
      PROVE  /\ reqs[a].pc \in {"store", "answer"}
             /\ reqs[a].client \in Clients /\ reqs[a].secret \in Secrets
             /\ reqs[a].beaten \in BOOLEAN
             /\ reqs[a].pc = "store" => reqs[a].beaten = FALSE
  BY <1>2 DEF Telling
<1> QED
  BY <1>1, <1>2

\* Secrets are only added.
LEMMA Drawing ==
  ASSUME drawn \in Nat, drawn' \in Nat, drawn <= drawn'
  PROVE  Secrets \subseteq Secrets' /\ Row \subseteq Row' /\ Telling \subseteq Telling'
<1>1. Secrets \subseteq Secrets'
  BY DEF Secrets
<1> QED
  BY <1>1 DEF Row, Telling

LEMMA Drawn ==
  ASSUME RegistryTypeOK, Draw
  PROVE  /\ drawn \in Nat /\ drawn' \in 0..MaxDrawn /\ drawn <= drawn'
         /\ drawn' \in Secrets' /\ drawn' \notin Secrets
         /\ Secrets \subseteq Secrets' /\ Row \subseteq Row' /\ Telling \subseteq Telling'
<1>1. drawn \in Nat /\ drawn' = drawn + 1 /\ drawn' \in 0..MaxDrawn
  BY BoundsAssumption DEF RegistryTypeOK, Draw
<1>2. drawn' \in Secrets' /\ drawn' \notin Secrets
  BY <1>1 DEF Secrets
<1>3. drawn <= drawn'
  BY <1>1
<1> QED
  BY <1>1, <1>2, <1>3, Drawing

LEMMA FaultTyped ==
  ASSUME RegistryTypeOK, Fault \/ NoFault
  PROVE  faults' \in 0..MaxFaults
BY BoundsAssumption DEF RegistryTypeOK, Fault, NoFault

\* What normalizeRedirects leaves are URIs that parse.
LEMMA Normalized ==
  ASSUME NEW entries \in SUBSET Entries
  PROVE  normalizeRedirects(entries) \in SUBSET URIs
BY DEF normalizeRedirects, Entries

LEMMA CreatePublicTyped ==
  ASSUME RegistryTypeOK, NEW c \in Clients, NEW entries \in SUBSET Entries, NEW label \in Labels,
         CreatePublic(c, entries, label)
  PROVE  RegistryTypeOK'
<1>1. [type |-> "public", secret |-> None, redirects |-> normalizeRedirects(entries),
       label |-> label] \in Row
  BY Normalized DEF Row
<1>2. Row' = Row /\ Secrets' = Secrets /\ Telling' = Telling
  BY DEF CreatePublic, Row, Secrets, Telling
<1>3. clients' \in [Clients -> Row \cup {None}]
  BY <1>1 DEF CreatePublic, RegistryTypeOK
<1> QED
  BY <1>2, <1>3, FaultTyped DEF CreatePublic, RegistryTypeOK

LEMMA CreateConfidentialTyped ==
  ASSUME RegistryTypeOK, NEW a \in Admins, NEW c \in Clients, NEW entries \in SUBSET Entries,
         NEW label \in Labels, CreateConfidential(a, c, entries, label)
  PROVE  RegistryTypeOK'
<1>1. Draw
  BY DEF CreateConfidential
<1>2. [type |-> "confidential", secret |-> drawn', redirects |-> normalizeRedirects(entries),
       label |-> label] \in Row'
  BY <1>1, Drawn, Normalized DEF Row
<1>3. clients' \in [Clients -> Row' \cup {None}]
  BY <1>1, <1>2, Drawn DEF CreateConfidential, RegistryTypeOK
<1>4. [pc |-> "answer", client |-> c, secret |-> drawn', beaten |-> FALSE] \in Telling'
  BY <1>1, Drawn DEF Telling
<1>5. reqs' \in [Admins -> {Idle} \cup Telling']
  BY <1>1, <1>4, Drawn DEF CreateConfidential, RegistryTypeOK
<1> QED
  BY <1>1, <1>3, <1>5, Drawn, FaultTyped DEF CreateConfidential, RegistryTypeOK

\* An edit leaves a row of the same type with the same secret.
LEMMA PatchedRow ==
  ASSUME NEW row \in Row, NEW uris \in SUBSET URIs, NEW label \in Labels
  PROVE  /\ Patched(row, uris, label) \in Row
         /\ Patched(row, uris, label).type = row.type
         /\ Patched(row, uris, label).secret = row.secret
         /\ Patched(row, uris, label).redirects = uris
         /\ Patched(row, uris, label).label = label
BY DEF Patched, Row

LEMMA UpdateClientTyped ==
  ASSUME RegistryTypeOK, NEW c \in Clients, NEW entries \in SUBSET Entries, NEW label \in Labels,
         UpdateClient(c, entries, label)
  PROVE  RegistryTypeOK'
<1>1. Patched(clients[c], normalizeRedirects(entries), label) \in Row
  BY Normalized, PatchedRow, Rows DEF UpdateClient
<1>2. Row' = Row /\ Secrets' = Secrets /\ Telling' = Telling
  BY DEF UpdateClient, Row, Secrets, Telling
<1>3. clients' \in [Clients -> Row \cup {None}]
  BY <1>1 DEF UpdateClient, RegistryTypeOK
<1> QED
  BY <1>2, <1>3, FaultTyped DEF UpdateClient, RegistryTypeOK

LEMMA RotateSecretTyped ==
  ASSUME RegistryTypeOK, NEW a \in Admins, NEW c \in Clients, RotateSecret(a, c)
  PROVE  RegistryTypeOK'
<1>1. Draw
  BY DEF RotateSecret
<1>2. [pc |-> "store", client |-> c, secret |-> drawn', beaten |-> FALSE] \in Telling'
  BY <1>1, Drawn DEF Telling
<1>3. reqs' \in [Admins -> {Idle} \cup Telling']
  BY <1>1, <1>2, Drawn DEF RotateSecret, RegistryTypeOK
<1>4. clients' \in [Clients -> Row' \cup {None}]
  BY <1>1, Drawn DEF RotateSecret, RegistryTypeOK
<1> QED
  BY <1>1, <1>3, <1>4, Drawn, FaultTyped DEF RotateSecret, RegistryTypeOK

\* The row after a rotation.
LEMMA RotatedRow ==
  ASSUME NEW row \in Row, row.type = "confidential", NEW secret \in Secrets
  PROVE  /\ [row EXCEPT !.secret = secret] \in Row
         /\ [row EXCEPT !.secret = secret].type = "confidential"
         /\ [row EXCEPT !.secret = secret].secret = secret
         /\ [row EXCEPT !.secret = secret].redirects = row.redirects
BY DEF Row

LEMMA StoreSecretTyped ==
  ASSUME RegistryTypeOK, SecretsApart, NEW a \in Admins, StoreSecret(a)
  PROVE  RegistryTypeOK'
<1> DEFINE c == reqs[a].client  s == reqs[a].secret
<1>1. reqs[a] \in Telling /\ c \in Clients /\ s \in Secrets
  BY Tellers DEF StoreSecret
<1>2. Exists(c) /\ clients[c].type = "confidential"
  BY DEF StoreSecret, SecretsApart
<1>3. [clients[c] EXCEPT !.secret = s] \in Row /\ clients[c].secret \in Secrets
  BY <1>1, <1>2, Rows, RotatedRow
<1>4. clients' \in [Clients -> Row \cup {None}]
  BY <1>1, <1>3 DEF StoreSecret, SetClientSecret, RegistryTypeOK
<1>5. replaced' \subseteq Secrets
  BY <1>3 DEF StoreSecret, SetClientSecret, RegistryTypeOK
<1>6. [reqs[a] EXCEPT !.pc = "answer"] \in Telling
  BY <1>1 DEF Telling
<1>7. ASSUME NEW b \in Admins, reqs[b].pc = "answer"
      PROVE  [reqs[b] EXCEPT !.beaten = TRUE] \in Telling
  <2>1. reqs[b] \in Telling
    BY <1>7, Tellers
  <2> QED
    BY <1>7, <2>1 DEF Telling
<1>8. reqs' \in [Admins -> {Idle} \cup Telling]
  BY <1>6, <1>7 DEF StoreSecret, RegistryTypeOK
<1>9. Row' = Row /\ Secrets' = Secrets /\ Telling' = Telling
  BY DEF StoreSecret, Row, Secrets, Telling
<1> QED
  BY <1>4, <1>5, <1>8, <1>9, FaultTyped DEF StoreSecret, RegistryTypeOK

LEMMA AnswerTyped ==
  ASSUME RegistryTypeOK, NEW a \in Admins, Answer(a)
  PROVE  RegistryTypeOK'
<1>1. reqs[a].secret \in Secrets
  BY Tellers DEF Answer
<1>2. Row' = Row /\ Secrets' = Secrets /\ Telling' = Telling
  BY DEF Answer, Row, Secrets, Telling
<1> QED
  BY <1>1, <1>2, FaultTyped DEF Answer, RegistryTypeOK

\* Handlers fail: alone, with a store call, or with the server.
LEMMA FailTyped ==
  ASSUME RegistryTypeOK, NEW those \in SUBSET Admins, \A a \in those : reqs[a] # Idle,
         Fail(those), Fault, UNCHANGED <<clients, drawn, told, replaced>>
  PROVE  RegistryTypeOK'
<1>1. \A a \in those : reqs[a].secret \in Secrets
  BY Tellers
<1>2. Row' = Row /\ Secrets' = Secrets /\ Telling' = Telling
  BY DEF Row, Secrets, Telling
<1>3. reqs' \in [Admins -> {Idle} \cup Telling]
  BY DEF Fail, RegistryTypeOK
<1>4. lost' \subseteq Secrets
  BY <1>1 DEF Fail, RegistryTypeOK
<1> QED
  BY <1>2, <1>3, <1>4, FaultTyped DEF RegistryTypeOK

\* A seed is written, or nothing happens.
LEMMA SeedTyped ==
  ASSUME RegistryTypeOK, clients' \in [Clients -> Row \cup {None}],
         faults' \in 0..MaxFaults, UNCHANGED <<reqs, drawn, told, lost, replaced>>
  PROVE  RegistryTypeOK'
<1>1. Row' = Row /\ Secrets' = Secrets /\ Telling' = Telling
  BY DEF Row, Secrets, Telling
<1> QED
  BY <1>1 DEF RegistryTypeOK

\* What admins and their handlers do keeps the types.
LEMMA AdministerTyped ==
  ASSUME RegistryTypeOK, SecretsApart, AdminStep \/ HandlerStep
  PROVE  RegistryTypeOK'
<1>1. ASSUME NEW a \in Admins, StoreSecretError(a) PROVE RegistryTypeOK'
  <2>1. reqs[a] # Idle
    BY <1>1, Tellers DEF StoreSecretError
  <2> QED
    BY <1>1, <2>1, FailTyped DEF StoreSecretError
<1>2. ASSUME NEW a \in Admins, LoseAnswer(a) PROVE RegistryTypeOK'
  <2>1. reqs[a] # Idle
    BY <1>2, Tellers DEF LoseAnswer
  <2> QED
    BY <1>2, <2>1, FailTyped DEF LoseAnswer
<1> QED
  BY <1>1, <1>2, CreatePublicTyped, CreateConfidentialTyped, UpdateClientTyped,
     RotateSecretTyped, StoreSecretTyped, AnswerTyped DEF AdminStep, HandlerStep

-----------------------------------------------------------------------------
(* Secrets.                                                                *)

\* Nothing is rotated: rows stay, with their type and secret, new ones have no
\* secret, and some handlers stop.
LEMMA SecretsKept ==
  ASSUME RegistryTypeOK, RegistryInv,
         \A c \in Clients : Exists(c) =>
           /\ clients'[c] # None
           /\ clients'[c].type = clients[c].type /\ clients'[c].secret = clients[c].secret,
         \A c \in Clients : ~Exists(c) /\ clients'[c] # None =>
           clients'[c].type = "public" /\ clients'[c].secret = None,
         \A a \in Admins : reqs'[a] = Idle \/ reqs'[a] = reqs[a],
         \A a \in Admins : reqs[a] # Idle /\ reqs'[a] = Idle =>
           reqs[a].secret \in told' \cup lost',
         told \subseteq told', lost \subseteq lost', replaced' = replaced
  PROVE  RegistryInv'
<1>1. Idle.pc = "idle"
  BY DEF Idle
<1>2. replaced \subseteq Nat /\ None \notin Nat
  BY NoneAssumption DEF RegistryTypeOK, Secrets
<1>3. \A a \in Admins : reqs[a] # Idle => reqs[a].secret \in Nat /\ reqs[a].client \in Clients
  <2>1. Secrets \subseteq Nat
    BY DEF Secrets, RegistryTypeOK
  <2> QED
    BY <2>1, Tellers
<1>4. SecretsApart'
  <2>1. ASSUME NEW c \in Clients, NEW d \in Clients, clients'[c] # None, clients'[d] # None, c # d,
               clients'[c].type = "confidential", clients'[d].type = "confidential"
        PROVE  clients'[c].secret # clients'[d].secret
    <3>1. Exists(c) /\ Exists(d)
      BY <2>1
    <3> QED
      BY <2>1, <3>1 DEF RegistryInv, SecretsApart
  <2>2. ASSUME NEW a \in Admins, reqs'[a].pc = "store"
        PROVE  /\ clients'[reqs'[a].client] # None /\ clients'[reqs'[a].client].type = "confidential"
               /\ reqs'[a].secret \notin replaced'
               /\ \A c \in Clients : ~(clients'[c] # None /\ clients'[c].secret = reqs'[a].secret)
               /\ \A b \in Admins : reqs'[b] # Idle /\ b # a => reqs'[b].secret # reqs'[a].secret
    <3>1. reqs'[a] = reqs[a] /\ reqs[a] # Idle
      BY <1>1, <2>2
    <3>2. /\ Exists(reqs[a].client) /\ clients[reqs[a].client].type = "confidential"
          /\ reqs[a].secret \notin replaced
          /\ \A c \in Clients : ~(Exists(c) /\ clients[c].secret = reqs[a].secret)
          /\ \A b \in Admins : reqs[b] # Idle /\ b # a => reqs[b].secret # reqs[a].secret
      BY <2>2, <3>1 DEF RegistryInv, SecretsApart, authenticateClient
    <3> QED
      BY <1>2, <1>3, <3>1, <3>2 DEF Exists
  <2>3. \A a \in Admins : reqs'[a].pc = "answer" => clients'[reqs'[a].client] # None
    BY <1>1, <1>3 DEF RegistryInv, SecretsApart
  <2> QED
    BY <2>1, <2>2, <2>3 DEF SecretsApart, authenticateClient, Exists
<1>5. ReplacedSecretsAreRefused'
  <2>1. ASSUME NEW c \in Clients, NEW s \in replaced', clients'[c] # None, clients'[c].secret = s
        PROVE  FALSE
    BY <1>2, <2>1 DEF RegistryInv, ReplacedSecretsAreRefused, authenticateClient
  <2> QED
    BY <2>1 DEF ReplacedSecretsAreRefused, authenticateClient, Exists
<1>6. SecretsInForceAreKnown'
  <2>1. ASSUME NEW c \in Clients, clients'[c] # None, clients'[c].type = "confidential"
        PROVE  \/ clients'[c].secret \in told' \cup lost'
               \/ \E a \in Admins : reqs'[a].pc = "answer" /\ reqs'[a].secret = clients'[c].secret
    <3>1. /\ Exists(c) /\ clients[c].type = "confidential"
          /\ clients'[c].secret = clients[c].secret
      BY <2>1
    <3>2. CASE clients[c].secret \in told \cup lost
      BY <3>1, <3>2
    <3>3. CASE \E a \in Admins : reqs[a].pc = "answer" /\ reqs[a].secret = clients[c].secret
      BY <1>1, <3>1, <3>3
    <3> QED
      BY <3>1, <3>2, <3>3 DEF RegistryInv, SecretsInForceAreKnown
  <2> QED
    BY <2>1 DEF SecretsInForceAreKnown, Exists
<1>7. AnswersWork'
  <2>1. ASSUME NEW a \in Admins, reqs'[a].pc = "answer"
        PROVE  (clients'[reqs'[a].client] # None /\ clients'[reqs'[a].client].secret = reqs'[a].secret)
               <=> ~reqs'[a].beaten
    <3>1. reqs'[a] = reqs[a] /\ reqs[a] # Idle /\ reqs[a].client \in Clients
      BY <1>1, <1>3, <2>1
    <3>2. Exists(reqs[a].client)
      BY <2>1, <3>1 DEF RegistryInv, SecretsApart
    <3> QED
      BY <2>1, <3>1, <3>2 DEF RegistryInv, AnswersWork, authenticateClient
  <2> QED
    BY <2>1 DEF AnswersWork, authenticateClient, Exists
<1> QED
  BY <1>4, <1>5, <1>6, <1>7 DEF RegistryInv

LEMMA CreatePublicKeeps ==
  ASSUME RegistryTypeOK, RegistryInv, NEW c \in Clients, NEW entries \in SUBSET Entries,
         NEW label \in Labels, CreatePublic(c, entries, label)
  PROVE  RegistryInv'
<1> DEFINE row == [type |-> "public", secret |-> None,
                   redirects |-> normalizeRedirects(entries), label |-> label]
<1>1. /\ clients'[c] = row /\ clients[c] = None
      /\ \A d \in Clients : d # c => clients'[d] = clients[d]
  BY DEF CreatePublic, RegistryTypeOK, Exists
<1> HIDE DEF row
<1>2. row.type = "public" /\ row.secret = None
  BY DEF row
<1>3. UNCHANGED <<reqs, told, lost, replaced>>
  BY DEF CreatePublic
<1> QED
  BY <1>1, <1>2, <1>3, SecretsKept DEF Exists

LEMMA UpdateClientKeeps ==
  ASSUME RegistryTypeOK, RegistryInv, NEW c \in Clients, NEW entries \in SUBSET Entries,
         NEW label \in Labels, UpdateClient(c, entries, label)
  PROVE  RegistryInv'
<1> DEFINE row == Patched(clients[c], normalizeRedirects(entries), label)
<1>1. /\ clients'[c] = row /\ Exists(c)
      /\ \A d \in Clients : d # c => clients'[d] = clients[d]
  BY DEF UpdateClient, RegistryTypeOK
<1>2. row \in Row /\ row.type = clients[c].type /\ row.secret = clients[c].secret
  BY <1>1, Rows, Normalized, PatchedRow
<1>3. row # None
  BY <1>2, RowsAreRows DEF RegistryTypeOK
<1> HIDE DEF row
<1>4. UNCHANGED <<reqs, told, lost, replaced>>
  BY DEF UpdateClient
<1> QED
  BY <1>1, <1>2, <1>3, <1>4, SecretsKept DEF Exists

LEMMA AnswerKeeps ==
  ASSUME RegistryTypeOK, RegistryInv, NEW a \in Admins, Answer(a)
  PROVE  RegistryInv'
<1>1. reqs'[a] = Idle /\ \A b \in Admins : b # a => reqs'[b] = reqs[b]
  BY DEF Answer, RegistryTypeOK
<1>2. reqs[a].secret \in told' /\ told \subseteq told'
  BY DEF Answer
<1>3. UNCHANGED <<clients, lost, replaced>>
  BY DEF Answer
<1> QED
  BY <1>1, <1>2, <1>3, SecretsKept DEF Exists

LEMMA FailKeeps ==
  ASSUME RegistryTypeOK, RegistryInv, NEW those \in SUBSET Admins,
         Fail(those), UNCHANGED <<clients, drawn, told, replaced>>
  PROVE  RegistryInv'
<1>1. \A b \in Admins : reqs'[b] = IF b \in those THEN Idle ELSE reqs[b]
  BY DEF Fail
<1>2. lost \subseteq lost' /\ \A b \in those : reqs[b].secret \in lost'
  BY DEF Fail
<1> QED
  BY <1>1, <1>2, SecretsKept DEF Exists

\* A secret that has just been drawn is nobody's.
LEMMA Fresh ==
  ASSUME RegistryTypeOK, Draw
  PROVE  /\ drawn' \notin replaced \cup told \cup lost
         /\ \A c \in Clients : Exists(c) => clients[c].secret # drawn'
         /\ \A a \in Admins : reqs[a] # Idle => reqs[a].secret # drawn'
<1>1. drawn' \notin Secrets /\ drawn' \in Nat
  BY Drawn
<1>2. drawn' # None
  BY <1>1, NoneAssumption
<1>3. drawn' \notin replaced \cup told \cup lost
  BY <1>1 DEF RegistryTypeOK
<1>4. \A c \in Clients : Exists(c) => clients[c].secret # drawn'
  BY <1>1, <1>2, Rows
<1>5. \A a \in Admins : reqs[a] # Idle => reqs[a].secret # drawn'
  BY <1>1, Tellers
<1> QED
  BY <1>3, <1>4, <1>5

LEMMA CreateConfidentialKeeps ==
  ASSUME RegistryTypeOK, RegistryInv, NEW a \in Admins, NEW c \in Clients,
         NEW entries \in SUBSET Entries, NEW label \in Labels,
         CreateConfidential(a, c, entries, label)
  PROVE  RegistryInv'
<1> DEFINE row == [type |-> "confidential", secret |-> drawn',
                   redirects |-> normalizeRedirects(entries), label |-> label]
           x == [pc |-> "answer", client |-> c, secret |-> drawn', beaten |-> FALSE]
<1>1. Draw
  BY DEF CreateConfidential
<1>2. /\ clients'[c] = row /\ clients[c] = None
      /\ \A d \in Clients : d # c => clients'[d] = clients[d]
      /\ reqs'[a] = x /\ reqs[a] = Idle
      /\ \A b \in Admins : b # a => reqs'[b] = reqs[b]
      /\ UNCHANGED <<told, lost, replaced>>
  BY DEF CreateConfidential, RegistryTypeOK, Exists
<1>3. row \in Row'
  BY <1>1, Drawn, Normalized DEF Row
<1>4. clients'[c] # None /\ clients'[c].type = "confidential" /\ clients'[c].secret = drawn'
  <2>1. RegistryTypeOK'
    BY CreateConfidentialTyped
  <2>2. drawn' \in Nat
    BY <1>1, Drawn
  <2>3. \A s \in Secrets' : s \in Nat
    BY <2>2 DEF Secrets
  <2>4. row \in [type : {"public", "confidential"}, secret : Nat \cup {None},
                 redirects : SUBSET URIs, label : Labels]
    BY <1>3, <2>3 DEF Row
  <2> QED
    BY <1>2, <2>4, NoneAssumption
<1>5. /\ reqs'[a].pc = "answer" /\ reqs'[a].client = c /\ reqs'[a].secret = drawn'
      /\ reqs'[a].beaten = FALSE
  BY <1>2
<1> HIDE DEF row, x
<1>6. \A b \in Admins : reqs[b].pc \in {"store", "answer"} =>
        b # a /\ reqs[b] # Idle /\ reqs[b].client # c /\ reqs[b].client \in Clients
  BY <1>2, Tellers DEF RegistryInv, SecretsApart, Exists
<1>7. SecretsApart'
  <2>1. ASSUME NEW d \in Clients, NEW e \in Clients, clients'[d] # None, clients'[e] # None,
               d # e, clients'[d].type = "confidential", clients'[e].type = "confidential"
        PROVE  clients'[d].secret # clients'[e].secret
    BY <1>1, <1>2, <1>4, <2>1, Fresh DEF RegistryInv, SecretsApart, Exists
  <2>2. ASSUME NEW b \in Admins, reqs'[b].pc = "store"
        PROVE  /\ clients'[reqs'[b].client] # None /\ clients'[reqs'[b].client].type = "confidential"
               /\ reqs'[b].secret \notin replaced'
               /\ \A d \in Clients : ~(clients'[d] # None /\ clients'[d].secret = reqs'[b].secret)
               /\ \A o \in Admins : reqs'[o] # Idle /\ o # b => reqs'[o].secret # reqs'[b].secret
    <3>1. b # a /\ reqs'[b] = reqs[b] /\ reqs[b] # Idle /\ reqs[b].client # c
          /\ reqs[b].client \in Clients
      BY <1>2, <1>5, <1>6, <2>2
    <3>2. /\ Exists(reqs[b].client) /\ clients[reqs[b].client].type = "confidential"
          /\ reqs[b].secret \notin replaced
          /\ \A d \in Clients : ~(Exists(d) /\ clients[d].secret = reqs[b].secret)
          /\ \A o \in Admins : reqs[o] # Idle /\ o # b => reqs[o].secret # reqs[b].secret
      BY <2>2, <3>1 DEF RegistryInv, SecretsApart, authenticateClient
    <3>3. reqs[b].secret # drawn'
      BY <1>1, <3>1, Fresh
    <3> QED
      BY <1>2, <1>4, <1>5, <3>1, <3>2, <3>3 DEF Exists
  <2>3. \A b \in Admins : reqs'[b].pc = "answer" => clients'[reqs'[b].client] # None
    BY <1>2, <1>4, <1>5, <1>6 DEF RegistryInv, SecretsApart, Exists
  <2> QED
    BY <2>1, <2>2, <2>3 DEF SecretsApart, authenticateClient, Exists
<1>8. ReplacedSecretsAreRefused'
  <2>1. ASSUME NEW d \in Clients, NEW s \in replaced', clients'[d] # None, clients'[d].secret = s
        PROVE  FALSE
    BY <1>1, <1>2, <1>4, <2>1, Fresh
    DEF RegistryInv, ReplacedSecretsAreRefused, authenticateClient, Exists
  <2> QED
    BY <2>1 DEF ReplacedSecretsAreRefused, authenticateClient, Exists
<1>9. SecretsInForceAreKnown'
  <2>1. ASSUME NEW d \in Clients, clients'[d] # None, clients'[d].type = "confidential"
        PROVE  \/ clients'[d].secret \in told' \cup lost'
               \/ \E b \in Admins : reqs'[b].pc = "answer" /\ reqs'[b].secret = clients'[d].secret
    <3>1. CASE d = c
      BY <1>4, <1>5, <3>1
    <3>2. CASE d # c
      BY <1>2, <1>6, <2>1, <3>2 DEF RegistryInv, SecretsInForceAreKnown, Exists
    <3> QED
      BY <3>1, <3>2
  <2> QED
    BY <2>1 DEF SecretsInForceAreKnown, Exists
<1>10. AnswersWork'
  <2>1. ASSUME NEW b \in Admins, reqs'[b].pc = "answer"
        PROVE  (clients'[reqs'[b].client] # None /\ clients'[reqs'[b].client].secret = reqs'[b].secret)
               <=> ~reqs'[b].beaten
    <3>1. CASE b = a
      BY <1>4, <1>5, <3>1
    <3>2. CASE b # a
      BY <1>2, <1>6, <2>1, <3>2 DEF RegistryInv, AnswersWork, authenticateClient, Exists
    <3> QED
      BY <3>1, <3>2
  <2> QED
    BY <2>1 DEF AnswersWork, authenticateClient, Exists
<1> QED
  BY <1>7, <1>8, <1>9, <1>10 DEF RegistryInv

LEMMA RotateSecretKeeps ==
  ASSUME RegistryTypeOK, RegistryInv, NEW a \in Admins, NEW c \in Clients, RotateSecret(a, c)
  PROVE  RegistryInv'
<1> DEFINE x == [pc |-> "store", client |-> c, secret |-> drawn', beaten |-> FALSE]
<1>1. Draw
  BY DEF RotateSecret
<1>2. /\ reqs'[a] = x /\ reqs[a] = Idle
      /\ \A b \in Admins : b # a => reqs'[b] = reqs[b]
      /\ UNCHANGED <<clients, told, lost, replaced>>
      /\ Exists(c) /\ clients[c].type = "confidential"
  BY DEF RotateSecret, RegistryTypeOK
<1>3. reqs'[a].pc = "store" /\ reqs'[a].client = c /\ reqs'[a].secret = drawn'
  BY <1>2
<1> HIDE DEF x
<1>4. \A b \in Admins : b # a \/ reqs[b].pc = "idle"
  BY <1>2 DEF Idle
<1>5. SecretsApart'
  <2>1. ASSUME NEW b \in Admins, reqs'[b].pc = "store"
        PROVE  /\ clients'[reqs'[b].client] # None /\ clients'[reqs'[b].client].type = "confidential"
               /\ reqs'[b].secret \notin replaced'
               /\ \A d \in Clients : ~(clients'[d] # None /\ clients'[d].secret = reqs'[b].secret)
               /\ \A o \in Admins : reqs'[o] # Idle /\ o # b => reqs'[o].secret # reqs'[b].secret
    <3>1. CASE b = a
      BY <1>1, <1>2, <1>3, <3>1, Fresh DEF Exists
    <3>2. CASE b # a
      <4>1. reqs'[b] = reqs[b] /\ reqs[b] # Idle
        BY <1>2, <2>1, <3>2 DEF Idle
      <4>2. /\ Exists(reqs[b].client) /\ clients[reqs[b].client].type = "confidential"
            /\ reqs[b].secret \notin replaced
            /\ \A d \in Clients : ~(Exists(d) /\ clients[d].secret = reqs[b].secret)
            /\ \A o \in Admins : reqs[o] # Idle /\ o # b => reqs[o].secret # reqs[b].secret
        BY <2>1, <4>1 DEF RegistryInv, SecretsApart, authenticateClient
      <4>3. reqs[b].secret # drawn'
        BY <1>1, <4>1, Fresh
      <4> QED
        BY <1>2, <1>3, <4>1, <4>2, <4>3 DEF Exists
    <3> QED
      BY <3>1, <3>2
  <2>2. \A b \in Admins : reqs'[b].pc = "answer" => clients'[reqs'[b].client] # None
    BY <1>2, <1>3 DEF RegistryInv, SecretsApart, Exists
  <2>3. \A d, e \in Clients :
          /\ clients'[d] # None /\ clients'[e] # None /\ d # e
          /\ clients'[d].type = "confidential" /\ clients'[e].type = "confidential"
          => clients'[d].secret # clients'[e].secret
    BY <1>2 DEF RegistryInv, SecretsApart, Exists
  <2> QED
    BY <2>1, <2>2, <2>3 DEF SecretsApart, authenticateClient, Exists
<1>6. ReplacedSecretsAreRefused'
  BY <1>2 DEF RegistryInv, ReplacedSecretsAreRefused, authenticateClient, Exists
<1>7. SecretsInForceAreKnown'
  <2>1. ASSUME NEW d \in Clients, clients'[d] # None, clients'[d].type = "confidential"
        PROVE  \/ clients'[d].secret \in told' \cup lost'
               \/ \E b \in Admins : reqs'[b].pc = "answer" /\ reqs'[b].secret = clients'[d].secret
    BY <1>2, <1>4, <2>1 DEF RegistryInv, SecretsInForceAreKnown, Exists
  <2> QED
    BY <2>1 DEF SecretsInForceAreKnown, Exists
<1>8. AnswersWork'
  <2>1. ASSUME NEW b \in Admins, reqs'[b].pc = "answer"
        PROVE  (clients'[reqs'[b].client] # None /\ clients'[reqs'[b].client].secret = reqs'[b].secret)
               <=> ~reqs'[b].beaten
    BY <1>2, <1>3, <2>1 DEF RegistryInv, AnswersWork, authenticateClient, Exists
  <2> QED
    BY <2>1 DEF AnswersWork, authenticateClient, Exists
<1> QED
  BY <1>5, <1>6, <1>7, <1>8 DEF RegistryInv

LEMMA StoreSecretKeeps ==
  ASSUME RegistryTypeOK, RegistryInv, NEW a \in Admins, StoreSecret(a)
  PROVE  RegistryInv'
<1> DEFINE c == reqs[a].client  s == reqs[a].secret  old == clients[c].secret
           row == [clients[c] EXCEPT !.secret = s]
<1>1. /\ reqs[a] # Idle /\ reqs[a] \in Telling /\ reqs[a].pc = "store" /\ reqs[a].beaten = FALSE
      /\ c \in Clients /\ s \in Secrets
  BY Tellers DEF StoreSecret
<1>2. /\ Exists(c) /\ clients[c].type = "confidential" /\ s \notin replaced
      /\ \A d \in Clients : Exists(d) => clients[d].secret # s
      /\ \A b \in Admins : reqs[b] # Idle /\ b # a => reqs[b].secret # s
  BY <1>1 DEF RegistryInv, SecretsApart, authenticateClient
<1>3. row \in Row /\ row.type = "confidential" /\ row.secret = s
  BY <1>1, <1>2, Rows, RotatedRow
<1>4. row # None
  BY <1>3, RowsAreRows DEF RegistryTypeOK
<1>5. clients'[c] = row /\ \A d \in Clients : d # c => clients'[d] = clients[d]
  BY <1>1 DEF StoreSecret, SetClientSecret, RegistryTypeOK
<1>6. replaced' = replaced \cup {old} /\ UNCHANGED <<told, lost>>
  BY <1>1, <1>2 DEF StoreSecret, SetClientSecret
<1>7. /\ reqs'[a].pc = "answer" /\ reqs'[a].client = c /\ reqs'[a].secret = s
      /\ reqs'[a].beaten = FALSE
  <2>1. reqs'[a] = [reqs[a] EXCEPT !.pc = "answer"]
    BY DEF StoreSecret
  <2> QED
    BY <1>1, <2>1 DEF Telling
<1>8. ASSUME NEW b \in Admins, b # a
      PROVE  /\ reqs'[b] # Idle => reqs[b] # Idle
             /\ reqs[b].pc # "answer" => reqs'[b] = reqs[b]
             /\ reqs[b] # Idle => /\ reqs'[b].pc = reqs[b].pc /\ reqs'[b].client = reqs[b].client
                                  /\ reqs'[b].secret = reqs[b].secret
             /\ reqs[b].pc = "answer" /\ reqs[b].client = c => reqs'[b].beaten = TRUE
             /\ reqs[b].client # c => reqs'[b] = reqs[b]
  <2>1. reqs'[b] = IF reqs[b].pc = "answer" /\ reqs[b].client = c
                     THEN [reqs[b] EXCEPT !.beaten = TRUE] ELSE reqs[b]
    BY <1>8 DEF StoreSecret
  <2>2. reqs[b] # Idle => reqs[b] \in Telling
    BY Tellers
  <2>3. reqs[b].pc = "answer" => reqs[b] # Idle
    BY DEF Idle
  <2> QED
    BY <2>1, <2>2, <2>3 DEF Telling
<1> HIDE DEF row
<1>9. \A b \in Admins : reqs'[b].pc = "store" => b # a /\ reqs[b].pc = "store" /\ reqs[b] # Idle
                                                 /\ reqs'[b] = reqs[b]
  <2>1. Idle.pc = "idle"
    BY DEF Idle
  <2> QED
    BY <1>7, <1>8, <2>1
<1>10. \A b \in Admins : reqs'[b].pc = "answer" =>
         b = a \/ (/\ reqs[b].pc = "answer" /\ reqs[b] # Idle
                   /\ reqs'[b].client = reqs[b].client /\ reqs'[b].secret = reqs[b].secret)
  <2>1. Idle.pc = "idle"
    BY DEF Idle
  <2> QED
    BY <1>8, <2>1
<1> HIDE DEF c, s, old
<1>11. s # old
  BY <1>1, <1>2 DEF old
<1>12. SecretsApart'
  <2>1. ASSUME NEW d \in Clients, NEW e \in Clients, clients'[d] # None, clients'[e] # None,
               d # e, clients'[d].type = "confidential", clients'[e].type = "confidential"
        PROVE  clients'[d].secret # clients'[e].secret
    BY <1>2, <1>3, <1>5, <2>1 DEF RegistryInv, SecretsApart, Exists
  <2>2. ASSUME NEW b \in Admins, reqs'[b].pc = "store"
        PROVE  /\ clients'[reqs'[b].client] # None /\ clients'[reqs'[b].client].type = "confidential"
               /\ reqs'[b].secret \notin replaced'
               /\ \A d \in Clients : ~(clients'[d] # None /\ clients'[d].secret = reqs'[b].secret)
               /\ \A o \in Admins : reqs'[o] # Idle /\ o # b => reqs'[o].secret # reqs'[b].secret
    <3>1. b # a /\ reqs[b].pc = "store" /\ reqs[b] # Idle /\ reqs'[b] = reqs[b]
      BY <1>9, <2>2
    <3>2. /\ Exists(reqs[b].client) /\ clients[reqs[b].client].type = "confidential"
          /\ reqs[b].secret \notin replaced
          /\ \A d \in Clients : ~(Exists(d) /\ clients[d].secret = reqs[b].secret)
          /\ \A o \in Admins : reqs[o] # Idle /\ o # b => reqs[o].secret # reqs[b].secret
      BY <3>1 DEF RegistryInv, SecretsApart, authenticateClient
    <3>3. reqs[b].secret # s /\ reqs[b].secret # old
      BY <1>1, <1>2, <3>1, <3>2 DEF old
    <3>4. reqs[b].client \in Clients
      BY <3>1, Tellers
    <3>5. clients'[reqs'[b].client] # None /\ clients'[reqs'[b].client].type = "confidential"
      BY <1>3, <1>4, <1>5, <3>1, <3>2, <3>4 DEF Exists
    <3>6. \A d \in Clients : ~(clients'[d] # None /\ clients'[d].secret = reqs'[b].secret)
      BY <1>3, <1>5, <3>1, <3>2, <3>3 DEF Exists
    <3>7. \A o \in Admins : reqs'[o] # Idle /\ o # b => reqs'[o].secret # reqs'[b].secret
      BY <1>7, <1>8, <3>1, <3>2, <3>3
    <3> QED
      BY <1>6, <3>1, <3>2, <3>3, <3>5, <3>6, <3>7
  <2>3. \A b \in Admins : reqs'[b].pc = "answer" => clients'[reqs'[b].client] # None
    <3>1. ASSUME NEW b \in Admins, reqs'[b].pc = "answer", b # a
          PROVE  clients'[reqs'[b].client] # None
      <4>1. reqs[b].pc = "answer" /\ reqs[b].client \in Clients /\ reqs'[b].client = reqs[b].client
        BY <1>10, <3>1, Tellers
      <4>2. Exists(reqs[b].client)
        BY <4>1 DEF RegistryInv, SecretsApart
      <4> QED
        BY <1>4, <1>5, <4>1, <4>2 DEF Exists
    <3> QED
      BY <1>4, <1>5, <1>7, <3>1
  <2> QED
    BY <2>1, <2>2, <2>3 DEF SecretsApart, authenticateClient, Exists
<1>13. ReplacedSecretsAreRefused'
  <2>1. ASSUME NEW d \in Clients, NEW t \in replaced', clients'[d] # None, clients'[d].secret = t
        PROVE  FALSE
    <3>1. CASE d = c
      BY <1>2, <1>3, <1>5, <1>6, <1>11, <2>1, <3>1
    <3>2. CASE d # c
      <4>1. clients'[d] = clients[d] /\ Exists(d)
        BY <1>5, <2>1, <3>2 DEF Exists
      <4>2. clients[d].secret \notin replaced
        BY <4>1 DEF RegistryInv, ReplacedSecretsAreRefused, authenticateClient
      <4>3. clients[d].secret # old
        <5>1. CASE clients[d].type = "confidential"
          BY <1>1, <1>2, <3>2, <4>1, <5>1 DEF RegistryInv, SecretsApart, old
        <5>2. CASE clients[d].type # "confidential"
          <6>1. clients[d].secret = None
            BY <4>1, <5>2, Rows
          <6>2. old \in Nat
            BY <1>1, <1>2, Rows DEF old, Secrets, RegistryTypeOK
          <6> QED
            BY <6>1, <6>2, NoneAssumption
        <5> QED
          BY <5>1, <5>2
      <4> QED
        BY <1>6, <2>1, <4>1, <4>2, <4>3
    <3> QED
      BY <3>1, <3>2
  <2> QED
    BY <2>1 DEF ReplacedSecretsAreRefused, authenticateClient, Exists
<1>14. SecretsInForceAreKnown'
  <2>1. ASSUME NEW d \in Clients, clients'[d] # None, clients'[d].type = "confidential"
        PROVE  \/ clients'[d].secret \in told' \cup lost'
               \/ \E b \in Admins : reqs'[b].pc = "answer" /\ reqs'[b].secret = clients'[d].secret
    <3>1. CASE d = c
      BY <1>3, <1>5, <1>7, <3>1
    <3>2. CASE d # c
      <4>1. \/ clients[d].secret \in told \cup lost
            \/ \E b \in Admins : reqs[b].pc = "answer" /\ reqs[b].secret = clients[d].secret
        BY <1>5, <2>1, <3>2 DEF RegistryInv, SecretsInForceAreKnown, Exists
      <4>2. \A b \in Admins : reqs[b].pc = "answer" =>
              reqs'[b].pc = "answer" /\ reqs'[b].secret = reqs[b].secret
        BY <1>1, <1>7, <1>8 DEF Idle
      <4> QED
        BY <1>5, <1>6, <3>2, <4>1, <4>2
    <3> QED
      BY <3>1, <3>2
  <2> QED
    BY <2>1 DEF SecretsInForceAreKnown, Exists
<1>15. AnswersWork'
  <2>1. ASSUME NEW b \in Admins, reqs'[b].pc = "answer"
        PROVE  (clients'[reqs'[b].client] # None /\ clients'[reqs'[b].client].secret = reqs'[b].secret)
               <=> ~reqs'[b].beaten
    <3>1. CASE b = a
      BY <1>3, <1>4, <1>5, <1>7, <3>1
    <3>2. CASE b # a
      <4>1. /\ reqs[b].pc = "answer" /\ reqs[b] # Idle
            /\ reqs'[b].client = reqs[b].client /\ reqs'[b].secret = reqs[b].secret
        BY <1>10, <2>1, <3>2
      <4>2. CASE reqs[b].client = c
        <5>1. reqs'[b].beaten = TRUE
          BY <1>8, <3>2, <4>1, <4>2
        <5>2. reqs[b].secret # s
          BY <1>2, <3>2, <4>1
        <5> QED
          BY <1>3, <1>5, <4>1, <4>2, <5>1, <5>2
      <4>3. CASE reqs[b].client # c
        <5>1. reqs'[b] = reqs[b] /\ reqs[b].client \in Clients
          BY <1>8, <3>2, <4>1, <4>3, Tellers
        <5>2. clients'[reqs[b].client] = clients[reqs[b].client]
          BY <1>5, <4>3, <5>1
        <5> QED
          BY <4>1, <5>1, <5>2 DEF RegistryInv, AnswersWork, authenticateClient, Exists
      <4> QED
        BY <4>2, <4>3
    <3> QED
      BY <3>1, <3>2
  <2> QED
    BY <2>1 DEF AnswersWork, authenticateClient, Exists
<1> QED
  BY <1>12, <1>13, <1>14, <1>15 DEF RegistryInv

\* What admins and their handlers do keeps secrets apart and known.
LEMMA AdministerKeeps ==
  ASSUME RegistryTypeOK, RegistryInv, AdminStep \/ HandlerStep
  PROVE  RegistryInv'
<1>1. ASSUME NEW a \in Admins, StoreSecretError(a) \/ LoseAnswer(a) PROVE RegistryInv'
  BY <1>1, FailKeeps DEF StoreSecretError, LoseAnswer
<1> QED
  BY <1>1, CreatePublicKeeps, CreateConfidentialKeeps, UpdateClientKeeps, RotateSecretKeeps,
     StoreSecretKeeps, AnswerKeeps DEF AdminStep, HandlerStep

-----------------------------------------------------------------------------
(* Types of the replicas.                                                  *)

\* What a replica is, by where it stands.
LEMMA Standing ==
  ASSUME TypeOK, NEW r \in Replicas
  PROVE  /\ procs[r] = Down <=> procs[r].pc = "down"
         /\ Migrates(r) => procs[r] \in Migrating /\ procs[r].script \in Scripts
         /\ procs[r].pc \in {"seed", "user", "org"} =>
              procs[r] \in Seeding /\ procs[r].todo \in SUBSET Seeds
         /\ Upserts(r) => /\ procs[r] \in Upserting
                          /\ procs[r].todo \in SUBSET Seeds /\ procs[r].client \in Seeds
         /\ procs[r].pc = "update" => /\ procs[r].redirects \in SUBSET URIs
                                      /\ procs[r].raced \in BOOLEAN
         /\ procs[r].pc = "owner" => procs[r] \in Owning /\ procs[r].org \in 1..orgs
         /\ procs[r].pc = "serving" => procs[r].skipped \in BOOLEAN
         /\ procs[r].pc \in {"down", "check", "script", "record", "seed", "user", "org",
                             "create", "update", "owner", "serving"}
<1>1. procs[r] \in Places
  BY DEF TypeOK
<1>2. CASE procs[r] = Down
  BY <1>2 DEF Down, Migrates, Upserts
<1>3. ASSUME NEW skipped \in BOOLEAN, procs[r] = Serving(skipped)
      PROVE  procs[r].pc = "serving" /\ procs[r].skipped \in BOOLEAN
  BY <1>3 DEF Serving
<1>4. CASE procs[r] \in Migrating
  BY <1>4 DEF Migrating, Migrates, Upserts, Down
<1>5. CASE procs[r] \in Seeding
  BY <1>5 DEF Seeding, Migrates, Upserts, Down
<1>6. CASE procs[r] \in Upserting
  BY <1>6 DEF Upserting, Migrates, Upserts, Down
<1>7. CASE procs[r] \in Owning
  BY <1>7 DEF Owning, Migrates, Upserts, Down
<1>8. CASE \E skipped \in BOOLEAN : procs[r] = Serving(skipped)
  BY <1>3, <1>8 DEF Migrates, Upserts, Down
<1> QED
  BY <1>1, <1>2, <1>4, <1>5, <1>6, <1>7, <1>8 DEF Places

\* Places are only added, as organizations are.
LEMMA PlacesGrow ==
  ASSUME orgs \in Nat, orgs' \in Nat, orgs <= orgs'
  PROVE  Places \subseteq Places'
<1>1. Owning \subseteq Owning'
  BY DEF Owning
<1> QED
  BY <1>1 DEF Places

LEMMA BecomesTyped ==
  ASSUME TypeOK, NEW r \in Replicas, NEW x, Becomes(r, x), orgs' \in Nat, orgs <= orgs', x \in Places'
  PROVE  procs' \in [Replicas -> Places']
BY PlacesGrow DEF TypeOK, Becomes

\* A replica is next at a script, or done with them.
LEMMA AtScripts ==
  ASSUME NEW k \in 1..(Last + 1)
  PROVE  AtScript(k) \in Migrating \cup Seeding
<1>1. CASE k <= Last
  <2>1. k \in Scripts
    BY <1>1, ScriptsAssumption DEF Scripts
  <2> QED
    BY <1>1, <2>1 DEF AtScript, Migrating
<1>2. CASE ~(k <= Last)
  BY <1>2 DEF AtScript, Seeding
<1> QED
  BY <1>1, <1>2

\* A replica that is overtaken stays where it is.
LEMMA Overtaking ==
  ASSUME TypeOK, NEW p \in Replicas
  PROVE  /\ Overtaken(p) \in Places
         /\ Overtaken(p) = procs[p]
            \/ (procs[p].pc = "update" /\ Overtaken(p) = [procs[p] EXCEPT !.raced = TRUE])
<1>1. CASE procs[p].pc = "update"
  <2>1. procs[p] \in Upserting
    BY <1>1, Standing DEF Upserts
  <2>2. [procs[p] EXCEPT !.raced = TRUE] \in Upserting
    BY <1>1, <2>1 DEF Upserting
  <2> QED
    BY <1>1, <2>1, <2>2 DEF Overtaken, Places
<1>2. CASE procs[p].pc # "update"
  BY <1>2 DEF Overtaken, TypeOK
<1> QED
  BY <1>1, <1>2

\* The registry is left alone.
LEMMA RegistryStill ==
  ASSUME RegistryTypeOK, UNCHANGED registry, UNCHANGED faults \/ Fault
  PROVE  RegistryTypeOK'
<1>1. UNCHANGED <<reqs, drawn, told, lost, replaced, clients>>
  BY DEF registry
<1>2. faults' \in 0..MaxFaults
  BY FaultTyped DEF NoFault
<1> QED
  BY <1>1, <1>2, SeedTyped DEF RegistryTypeOK

\* A replica goes on with nothing but itself changed, and perhaps the schema.
LEMMA MovesTyped ==
  ASSUME TypeOK, NEW r \in Replicas, NEW x \in Places, Becomes(r, x),
         UNCHANGED registry, UNCHANGED faults \/ Fault,
         UNCHANGED tenants, halted' \subseteq Scripts,
         applied' \subseteq Scripts, versions' \subseteq Scripts
  PROVE  TypeOK'
<1>1. RegistryTypeOK'
  BY RegistryStill DEF TypeOK
<1>2. orgs' = orgs /\ orgs \in Nat
  BY DEF tenants, TypeOK
<1>3. Places' = Places
  BY <1>2 DEF Places, Owning
<1>4. procs' \in [Replicas -> Places']
  BY <1>3 DEF Becomes, TypeOK
<1> QED
  BY <1>1, <1>4 DEF TypeOK, tenants

LEMMA InitTyped == Init => TypeOK
<1> SUFFICES ASSUME Init PROVE TypeOK
  OBVIOUS
<1>1. RegistryTypeOK
  BY BoundsAssumption DEF Init, RegistryInit, RegistryTypeOK, Secrets
<1>2. PICK n \in 0..Last : applied = 1..n /\ versions = 1..n
  BY DEF Init
<1>3. applied \subseteq Scripts /\ versions \subseteq Scripts
  BY <1>2, ScriptsAssumption DEF Scripts
<1>4. procs \in [Replicas -> Places]
  BY DEF Init, Places
<1> QED
  BY <1>1, <1>3, <1>4 DEF Init, TypeOK

\* Each step of a start keeps the types.
LEMMA BootsTyped ==
  ASSUME TypeOK, ReadsAreCurrent, NEW r \in Replicas, Boots(r)
  PROVE  TypeOK'
<1>1. CASE Start(r)
  <2>1. AtScript(1) \in Places
    BY AtScripts, ScriptsAssumption DEF Places
  <2> QED
    BY <1>1, <2>1, MovesTyped DEF Start, Unhurt, schema, TypeOK
<1>2. CASE CheckScript(r)
  <2>1. procs[r].script \in Scripts
    BY <1>2, Standing DEF CheckScript, Migrates
  <2>2. procs[r].script + 1 \in 1..(Last + 1)
    BY <2>1, ScriptsAssumption DEF Scripts
  <2>3. AtScript(procs[r].script + 1) \in Places
    BY <2>2, AtScripts DEF Places
  <2>4. [pc |-> "script", script |-> procs[r].script] \in Places
    BY <2>1 DEF Places, Migrating
  <2> QED
    BY <1>2, <2>3, <2>4, MovesTyped DEF CheckScript, Unhurt, schema, TypeOK
<1>3. CASE RunScript(r)
  <2>1. procs[r].script \in Scripts
    BY <1>3, Standing DEF RunScript, Migrates
  <2>2. [pc |-> "record", script |-> procs[r].script] \in Places /\ Down \in Places
    BY <2>1 DEF Places, Migrating
  <2>3. applied' \subseteq Scripts
    BY <1>3, <2>1 DEF RunScript, TypeOK
  <2> QED
    BY <1>3, <2>2, <2>3, MovesTyped DEF RunScript, Exits, Unhurt, TypeOK
<1>4. CASE RecordVersion(r)
  <2>1. procs[r].script \in Scripts
    BY <1>4, Standing DEF RecordVersion, Migrates
  <2>2. procs[r].script + 1 \in 1..(Last + 1)
    BY <2>1, ScriptsAssumption DEF Scripts
  <2>3. AtScript(procs[r].script + 1) \in Places /\ Down \in Places
    BY <2>2, AtScripts DEF Places
  <2>4. versions' \subseteq Scripts
    BY <1>4, <2>1 DEF RecordVersion, TypeOK
  <2> QED
    BY <1>4, <2>3, <2>4, MovesTyped DEF RecordVersion, Exits, Unhurt, TypeOK
<1>5. CASE ReadSeed(r)
  <2>1. procs[r].todo \in SUBSET Seeds
    BY <1>5, Standing DEF ReadSeed
  <2>2. \A todo \in SUBSET Seeds : AfterSeed(todo) \in Places
    BY DEF AfterSeed, Places, Seeding
  <2>3. PICK x : Becomes(r, x) /\
          \/ \E todo \in SUBSET Seeds : x = AfterSeed(todo)
          \/ \E c \in Seeds, todo \in SUBSET Seeds :
               x = [pc |-> "create", todo |-> todo, client |-> c]
          \/ \E c \in Seeds, todo \in SUBSET Seeds :
               /\ Exists(c)
               /\ x = [pc |-> "update", todo |-> todo, client |-> c,
                       redirects |-> unionExact(clients[c], c), raced |-> FALSE]
    <3>1. CASE procs[r].todo = {}
      BY <1>5, <3>1 DEF ReadSeed
    <3>2. CASE procs[r].todo # {}
      <4>1. PICK c \in procs[r].todo :
              IF ~Exists(c)
                THEN Becomes(r, [pc |-> "create", todo |-> procs[r].todo \ {c}, client |-> c])
              ELSE IF clients[c] = Patched(clients[c], unionExact(clients[c], c), SeedLabel[c])
                THEN Becomes(r, AfterSeed(procs[r].todo \ {c}))
              ELSE Becomes(r, [pc |-> "update", todo |-> procs[r].todo \ {c}, client |-> c,
                               redirects |-> unionExact(clients[c], c), raced |-> FALSE])
        BY <1>5, <3>2 DEF ReadSeed
      <4>2. c \in Seeds /\ procs[r].todo \ {c} \in SUBSET Seeds
        BY <2>1, <4>1
      <4> QED
        BY <4>1, <4>2
    <3> QED
      BY <3>1, <3>2
  <2>4. \A c \in Seeds : Exists(c) => unionExact(clients[c], c) \in SUBSET URIs
    BY Rows, SeedsAssumption DEF unionExact, TypeOK
  <2>5. x \in Places
    <3>1. CASE \E todo \in SUBSET Seeds : x = AfterSeed(todo)
      BY <2>2, <3>1
    <3>2. CASE \E c \in Seeds, todo \in SUBSET Seeds :
                 x = [pc |-> "create", todo |-> todo, client |-> c]
      BY <3>2 DEF Places, Upserting
    <3>3. ASSUME NEW c \in Seeds, NEW todo \in SUBSET Seeds, Exists(c),
                 x = [pc |-> "update", todo |-> todo, client |-> c,
                      redirects |-> unionExact(clients[c], c), raced |-> FALSE]
          PROVE  x \in Places
      <4>1. unionExact(clients[c], c) \in SUBSET URIs
        BY <2>4, <3>3
      <4>2. x \in Upserting
        BY <3>3, <4>1 DEF Upserting
      <4> QED
        BY <4>2 DEF Places
    <3> QED
      BY <2>3, <3>1, <3>2, <3>3
  <2> QED
    BY <1>5, <2>3, <2>5, MovesTyped DEF ReadSeed, Unhurt, schema, TypeOK
<1>6. CASE CreateSeed(r)
  <2> DEFINE c == procs[r].client
  <2>1. c \in Seeds /\ procs[r].todo \in SUBSET Seeds
    BY <1>6, Standing DEF CreateSeed, Upserts
  <2>2. AfterSeed(procs[r].todo) \in Places /\ Down \in Places
    BY <2>1 DEF AfterSeed, Places, Seeding
  <2>3. SeedRow(c) \in Row
    BY <2>1, SeedsAssumption DEF SeedRow, Row
  <2>4. clients' \in [Clients -> Row \cup {None}]
    BY <1>6, <2>3 DEF CreateSeed, TypeOK, RegistryTypeOK
  <2>5. RegistryTypeOK'
    BY <1>6, <2>4, SeedTyped DEF CreateSeed, Unhurt, TypeOK, RegistryTypeOK
  <2>6. Places' = Places
    BY <1>6 DEF CreateSeed, tenants, Places, Owning
  <2>7. procs' \in [Replicas -> Places']
    BY <1>6, <2>2, <2>6 DEF CreateSeed, Exits, Becomes, TypeOK
  <2> QED
    BY <1>6, <2>5, <2>7 DEF CreateSeed, Unhurt, schema, tenants, TypeOK
<1>7. CASE UpdateSeed(r)
  <2> DEFINE c == procs[r].client
  <2>1. c \in Seeds /\ procs[r].todo \in SUBSET Seeds /\ procs[r].redirects \in SUBSET URIs
    BY <1>7, Standing DEF UpdateSeed, Upserts
  <2>2. AfterSeed(procs[r].todo) \in Places
    BY <2>1 DEF AfterSeed, Places, Seeding
  <2>3. clients[c] \in Row
    BY <1>7, <2>1, Rows, SeedsAssumption DEF UpdateSeed, ReadsAreCurrent, TypeOK
  <2>4. Patched(clients[c], procs[r].redirects, SeedLabel[c]) \in Row
    BY <2>1, <2>3, PatchedRow, SeedsAssumption
  <2>5. clients' \in [Clients -> Row \cup {None}]
    BY <1>7, <2>4 DEF UpdateSeed, TypeOK, RegistryTypeOK
  <2>6. RegistryTypeOK'
    BY <1>7, <2>5, SeedTyped DEF UpdateSeed, Unhurt, TypeOK, RegistryTypeOK
  <2>7. Places' = Places
    BY <1>7 DEF UpdateSeed, tenants, Places, Owning
  <2>8. procs' \in [Replicas -> Places']
    BY <1>7, <2>2, <2>7, Overtaking DEF UpdateSeed
  <2> QED
    BY <1>7, <2>6, <2>8 DEF UpdateSeed, Unhurt, schema, tenants, TypeOK
<1>8. CASE SeedUser(r)
  <2>1. [pc |-> "org", todo |-> {}] \in Places
    BY DEF Places, Seeding
  <2>2. RegistryTypeOK'
    BY <1>8, RegistryStill DEF SeedUser, Unhurt, TypeOK
  <2>3. Places' = Places
    BY <1>8 DEF SeedUser, Places, Owning
  <2>4. procs' \in [Replicas -> Places']
    BY <1>8, <2>1, <2>3 DEF SeedUser, Becomes, TypeOK
  <2> QED
    BY <1>8, <2>2, <2>4 DEF SeedUser, Unhurt, schema, TypeOK
<1>9. CASE SeedOrganization(r)
  <2>1. Serving(FALSE) \in Places'
    BY DEF Places
  <2>2. RegistryTypeOK'
    BY <1>9, RegistryStill DEF SeedOrganization, Unhurt, TypeOK
  <2>3. orgs \in Nat /\ orgs' \in Nat /\ orgs <= orgs'
    <3>1. orgs \in Nat /\ (orgs' = orgs \/ orgs' = orgs + 1)
      BY <1>9 DEF SeedOrganization, TypeOK
    <3> QED
      BY <3>1
  <2>4. owned' \subseteq 1..orgs'
    BY <1>9, <2>3 DEF SeedOrganization, TypeOK
  <2>5. orgs' = orgs + 1 => [pc |-> "owner", org |-> orgs + 1] \in Places'
    BY <2>3 DEF Places, Owning
  <2>6. procs' \in [Replicas -> Places']
    <3>1. CASE owned # {}
      BY <1>9, <2>1, <2>3, <3>1, BecomesTyped DEF SeedOrganization
    <3>2. CASE owned = {}
      BY <1>9, <2>3, <2>5, <3>2, BecomesTyped DEF SeedOrganization
    <3> QED
      BY <3>1, <3>2
  <2> QED
    BY <1>9, <2>2, <2>3, <2>4, <2>6 DEF SeedOrganization, Unhurt, schema, TypeOK
<1>10. CASE SeedOwner(r)
  <2>1. procs[r].org \in 1..orgs
    BY <1>10, Standing DEF SeedOwner
  <2>2. RegistryTypeOK'
    BY <1>10, RegistryStill DEF SeedOwner, Unhurt, TypeOK
  <2>3. Places' = Places /\ Serving(FALSE) \in Places
    BY <1>10 DEF SeedOwner, Places, Owning
  <2>4. procs' \in [Replicas -> Places']
    BY <1>10, <2>3 DEF SeedOwner, Becomes, TypeOK
  <2> QED
    BY <1>10, <2>1, <2>2, <2>4 DEF SeedOwner, Unhurt, schema, TypeOK
<1> QED
  BY <1>1, <1>2, <1>3, <1>4, <1>5, <1>6, <1>7, <1>8, <1>9, <1>10 DEF Boots

\* So do the failures, and so does the admin API.
LEMMA OthersTyped ==
  ASSUME TypeOK, RegistryInv,
         Administer \/ \E r \in Replicas : CheckScriptError(r) \/ SkipOrganization(r) \/ Crash(r)
  PROVE  TypeOK'
<1>1. CASE Administer
  <2>1. RegistryTypeOK'
    BY <1>1, AdministerTyped DEF Administer, TypeOK, RegistryInv
  <2>2. Places' = Places
    BY <1>1 DEF Administer, tenants, Places, Owning
  <2>3. procs' \in [Replicas -> Places']
    BY <1>1, <2>2, Overtaking DEF Administer
  <2> QED
    BY <1>1, <2>1, <2>3 DEF Administer, schema, tenants, TypeOK
<1>2. ASSUME NEW r \in Replicas, CheckScriptError(r) PROVE TypeOK'
  <2>1. [pc |-> "script", script |-> procs[r].script] \in Places
    BY <1>2, Standing DEF CheckScriptError, Migrates, Places, Migrating
  <2> QED
    BY <1>2, <2>1, MovesTyped DEF CheckScriptError, schema, TypeOK
<1>3. ASSUME NEW r \in Replicas, SkipOrganization(r) PROVE TypeOK'
  <2>1. Serving(TRUE) \in Places
    BY DEF Places
  <2> QED
    BY <1>3, <2>1, MovesTyped DEF SkipOrganization, schema, TypeOK
<1>4. ASSUME NEW r \in Replicas, Crash(r) PROVE TypeOK'
  <2>1. PICK those \in SUBSET {a \in Admins : reqs[a] # Idle} : Fail(those)
    BY <1>4 DEF Crash
  <2>2. RegistryTypeOK'
    BY <1>4, <2>1, FailTyped DEF Crash, TypeOK
  <2>3. Places' = Places /\ Down \in Places
    BY <1>4 DEF Crash, tenants, Places, Owning
  <2>4. procs' \in [Replicas -> Places']
    BY <1>4, <2>3 DEF Crash, Exits, Becomes, TypeOK
  <2>5. halted' \subseteq Scripts
    BY <1>4, Standing DEF Crash, Migrates, TypeOK
  <2> QED
    BY <1>4, <2>2, <2>4, <2>5 DEF Crash, schema, tenants, TypeOK
<1> QED
  BY <1>1, <1>2, <1>3, <1>4

\* A client that is there stays.
LEMMA AdministerStays ==
  ASSUME RegistryTypeOK, RegistryInv, AdminStep \/ HandlerStep
  PROVE  \A d \in Clients : Exists(d) => clients'[d] # None
<1>1. ASSUME NEW c \in Clients, NEW entries \in SUBSET Entries, NEW label \in Labels,
             CreatePublic(c, entries, label)
      PROVE  \A d \in Clients : Exists(d) => clients'[d] # None
  BY <1>1 DEF CreatePublic, RegistryTypeOK, Exists
<1>2. ASSUME NEW c \in Clients, NEW entries \in SUBSET Entries, NEW label \in Labels,
             UpdateClient(c, entries, label)
      PROVE  \A d \in Clients : Exists(d) => clients'[d] # None
  <2>1. Patched(clients[c], normalizeRedirects(entries), label) # None
    BY <1>2, Rows, Normalized, PatchedRow, RowsAreRows DEF UpdateClient, RegistryTypeOK
  <2> QED
    BY <1>2, <2>1 DEF UpdateClient, RegistryTypeOK, Exists
<1>3. ASSUME NEW a \in Admins, NEW c \in Clients, NEW entries \in SUBSET Entries,
             NEW label \in Labels, CreateConfidential(a, c, entries, label)
      PROVE  \A d \in Clients : Exists(d) => clients'[d] # None
  BY <1>3 DEF CreateConfidential, RegistryTypeOK, Exists
<1>4. ASSUME NEW a \in Admins, StoreSecret(a)
      PROVE  \A d \in Clients : Exists(d) => clients'[d] # None
  <2> DEFINE c == reqs[a].client
  <2>1. c \in Clients /\ reqs[a].secret \in Secrets
    BY <1>4, Tellers DEF StoreSecret
  <2>2. Exists(c) /\ clients[c].type = "confidential"
    BY <1>4 DEF StoreSecret, RegistryInv, SecretsApart
  <2>3. [clients[c] EXCEPT !.secret = reqs[a].secret] # None
    BY <2>1, <2>2, Rows, RotatedRow, RowsAreRows DEF RegistryTypeOK
  <2> QED
    BY <1>4, <2>1, <2>3 DEF StoreSecret, SetClientSecret, RegistryTypeOK, Exists
<1>5. ASSUME UNCHANGED clients
      PROVE  \A d \in Clients : Exists(d) => clients'[d] # None
  BY <1>5 DEF Exists
<1> QED
  BY <1>1, <1>2, <1>3, <1>4, <1>5
  DEF AdminStep, HandlerStep, RotateSecret, Answer, StoreSecretError, LoseAnswer

-----------------------------------------------------------------------------
(* The schema.                                                             *)

\* A replica that becomes something, and the others.
LEMMA Becoming ==
  ASSUME TypeOK, NEW r \in Replicas, NEW x, Becomes(r, x)
  PROVE  procs'[r] = x /\ \A p \in Replicas : p # r => procs'[p] = procs[p]
BY DEF TypeOK, Becomes

\* The next script has those before it recorded; after the last all are.
LEMMA NextScript ==
  ASSUME TypeOK, NEW k \in 1..(Last + 1), NEW done, 1..(k - 1) \subseteq done, done \subseteq Scripts
  PROVE  \/ AtScript(k).pc = "check" /\ AtScript(k).script = k /\ k \in Scripts
         \/ AtScript(k).pc = "seed" /\ AtScript(k).todo = Seeds /\ done = Scripts
<1>1. CASE k <= Last
  BY <1>1, ScriptsAssumption DEF AtScript, Scripts
<1>2. CASE ~(k <= Last)
  <2>1. k = Last + 1
    BY <1>2, ScriptsAssumption
  <2>2. k - 1 = Last
    BY <2>1, ScriptsAssumption
  <2>3. done = Scripts
    BY <2>2 DEF Scripts
  <2> QED
    BY <1>2, <2>3 DEF AtScript
<1> QED
  BY <1>1, <1>2

\* It is enough that nothing is run or recorded, and no replica goes past a script.
LEMMA MigratesKept ==
  ASSUME TypeOK, MigratesInOrder, UNCHANGED schema,
         \A r \in Replicas :
           /\ Migrates(r)' =>
                \/ Migrates(r) /\ procs'[r].script = procs[r].script
                   /\ (procs'[r].pc = "record" => procs[r].pc = "record")
                \/ procs'[r].pc # "record" /\ 1..(procs'[r].script - 1) \subseteq versions
           /\ ~Migrates(r)' /\ procs'[r] # Down =>
                (~Migrates(r) /\ procs[r] # Down) \/ versions = Scripts
  PROVE  MigratesInOrder'
BY DEF MigratesInOrder, SchemaInOrder, schema, Migrates

\* A start goes through the scripts in order.
LEMMA BootsInOrder ==
  ASSUME TypeOK, MigratesInOrder, NEW r \in Replicas, Boots(r)
  PROVE  MigratesInOrder'
<1>1. PICK n \in 0..Last : versions = 1..n /\ applied \in {1..n, 1..(n + 1)}
  BY DEF MigratesInOrder, SchemaInOrder
<1>2. applied \subseteq Scripts /\ versions \subseteq Scripts /\ Last \in Nat
  BY ScriptsAssumption DEF TypeOK
<1>3. CASE Start(r)
  <2>1. \/ AtScript(1).pc = "check" /\ AtScript(1).script = 1
        \/ AtScript(1).pc = "seed" /\ versions = Scripts
    <3>1. 1 \in 1..(Last + 1) /\ 1..(1 - 1) \subseteq versions
      BY <1>2
    <3> QED
      BY <1>2, <3>1, NextScript
  <2>2. procs'[r] = AtScript(1) /\ \A p \in Replicas : p # r => procs'[p] = procs[p]
    BY <1>3, Becoming DEF Start
  <2>3. UNCHANGED schema
    BY <1>3 DEF Start
  <2> QED
    BY <2>1, <2>2, <2>3, MigratesKept DEF Migrates
<1>4. CASE CheckScript(r)
  <2> DEFINE k == procs[r].script
  <2>1. k \in Scripts /\ 1..(k - 1) \subseteq versions
    BY <1>4, Standing DEF CheckScript, Migrates, MigratesInOrder
  <2>2. UNCHANGED schema
    BY <1>4 DEF CheckScript
  <2>3. CASE k \in versions
    <3>1. k + 1 \in 1..(Last + 1) /\ 1..((k + 1) - 1) \subseteq versions
      BY <1>2, <2>1, <2>3 DEF Scripts
    <3>2. \/ AtScript(k + 1).pc = "check" /\ AtScript(k + 1).script = k + 1
          \/ AtScript(k + 1).pc = "seed" /\ versions = Scripts
      BY <1>2, <3>1, NextScript
    <3>3. procs'[r] = AtScript(k + 1) /\ \A p \in Replicas : p # r => procs'[p] = procs[p]
      BY <1>4, <2>3, Becoming DEF CheckScript
    <3> QED
      BY <2>2, <3>1, <3>2, <3>3, MigratesKept DEF Migrates
  <2>4. CASE k \notin versions
    <3>1. /\ procs'[r] = [pc |-> "script", script |-> k]
          /\ \A p \in Replicas : p # r => procs'[p] = procs[p]
      BY <1>4, <2>4, Becoming DEF CheckScript
    <3> QED
      BY <2>1, <2>2, <3>1, MigratesKept DEF Migrates
  <2> QED
    BY <2>3, <2>4
<1>5. CASE RunScript(r)
  <2> DEFINE k == procs[r].script
  <2>1. k \in Scripts /\ 1..(k - 1) \subseteq versions
    BY <1>5, Standing DEF RunScript, Migrates, MigratesInOrder
  <2>2. CASE k \in applied \ Idempotent
    <3>1. procs'[r] = Down /\ \A p \in Replicas : p # r => procs'[p] = procs[p]
      BY <1>5, <2>2, Becoming DEF RunScript, Exits
    <3>2. UNCHANGED schema
      BY <1>5, <2>2 DEF RunScript, schema
    <3> QED
      BY <3>1, <3>2, MigratesKept DEF Migrates, Down
  <2>3. CASE k \notin applied \ Idempotent
    <3>1. /\ procs'[r] = [pc |-> "record", script |-> k]
          /\ \A p \in Replicas : p # r => procs'[p] = procs[p]
      BY <1>5, <2>3, Becoming DEF RunScript
    <3>2. applied' = applied \cup {k} /\ versions' = versions
      BY <1>5, <2>3 DEF RunScript
    <3>3. k <= n + 1
      <4>1. CASE k = 1
        BY <1>1, <4>1
      <4>2. CASE k # 1
        <5>1. k - 1 \in 1..(k - 1)
          BY <2>1, <4>2 DEF Scripts
        <5>2. k - 1 \in 1..n
          BY <1>1, <2>1, <5>1
        <5> QED
          BY <2>1, <5>2 DEF Scripts
      <4> QED
        BY <4>1, <4>2
    <3>4. k \in Nat \ {0}
      BY <2>1 DEF Scripts
    <3>5. applied' \in {1..n, 1..(n + 1)}
      BY <1>1, <3>2, <3>3, <3>4
    <3>6. SchemaInOrder'
      BY <1>1, <3>2, <3>5 DEF SchemaInOrder
    <3> QED
      BY <2>1, <3>1, <3>2, <3>6 DEF MigratesInOrder, Migrates
  <2> QED
    BY <2>2, <2>3
<1>6. CASE RecordVersion(r)
  <2> DEFINE k == procs[r].script
  <2>1. k \in Scripts /\ 1..(k - 1) \subseteq versions /\ k \in applied
    BY <1>6, Standing DEF RecordVersion, Migrates, MigratesInOrder
  <2>2. CASE k \in versions
    <3>1. procs'[r] = Down /\ \A p \in Replicas : p # r => procs'[p] = procs[p]
      BY <1>6, <2>2, Becoming DEF RecordVersion, Exits
    <3>2. UNCHANGED schema
      BY <1>6, <2>2 DEF RecordVersion, schema
    <3> QED
      BY <3>1, <3>2, MigratesKept DEF Migrates, Down
  <2>3. CASE k \notin versions
    <3>1. versions' = versions \cup {k} /\ applied' = applied
      BY <1>6, <2>3 DEF RecordVersion
    <3>2. k = n + 1 /\ applied = 1..(n + 1)
      BY <1>1, <2>1, <2>3 DEF Scripts
    <3>3. versions' = 1..(n + 1) /\ n + 1 \in 0..Last
      BY <1>1, <1>2, <2>1, <3>1, <3>2 DEF Scripts
    <3>4. SchemaInOrder'
      BY <3>1, <3>2, <3>3 DEF SchemaInOrder
    <3>5. k + 1 \in 1..(Last + 1) /\ 1..((k + 1) - 1) \subseteq versions' /\ versions' \subseteq Scripts
      BY <1>2, <2>1, <3>1, <3>2, <3>3 DEF Scripts
    <3>6. \/ AtScript(k + 1).pc = "check" /\ AtScript(k + 1).script = k + 1
          \/ AtScript(k + 1).pc = "seed" /\ versions' = Scripts
      BY <3>5, NextScript
    <3>7. procs'[r] = AtScript(k + 1) /\ \A p \in Replicas : p # r => procs'[p] = procs[p]
      BY <1>6, <2>3, Becoming DEF RecordVersion
    <3>8. versions = Scripts => versions' = Scripts
      BY <3>1, <3>5
    <3> QED
      BY <3>1, <3>4, <3>5, <3>6, <3>7, <3>8 DEF MigratesInOrder, Migrates
  <2> QED
    BY <2>2, <2>3
<1>7. CASE ReadSeed(r) \/ CreateSeed(r) \/ SeedUser(r) \/ SeedOrganization(r) \/ SeedOwner(r)
  <2>1. ~Migrates(r) /\ procs[r] # Down
    BY <1>7, Standing DEF ReadSeed, CreateSeed, SeedUser, SeedOrganization, SeedOwner, Migrates
  <2>2. PICK x : Becomes(r, x)
    BY <1>7 DEF ReadSeed, CreateSeed, SeedUser, SeedOrganization, SeedOwner, Exits
  <2>3. procs'[r] = x /\ \A p \in Replicas : p # r => procs'[p] = procs[p]
    BY <2>2, Becoming
  <2>4. versions = Scripts
    BY <2>1 DEF MigratesInOrder
  <2>5. UNCHANGED schema
    BY <1>7 DEF ReadSeed, CreateSeed, SeedUser, SeedOrganization, SeedOwner
  <2>6. ~Migrates(r)'
    BY <1>7, <2>3 DEF ReadSeed, CreateSeed, SeedUser, SeedOrganization, SeedOwner, Exits, Becomes,
                      Migrates, AfterSeed, Down, Serving, TypeOK
  <2> QED
    BY <2>1, <2>3, <2>4, <2>5, <2>6, MigratesKept DEF Migrates
<1>8. CASE UpdateSeed(r)
  <2>1. ~Migrates(r) /\ procs[r] # Down
    BY <1>8, Standing DEF UpdateSeed, Migrates
  <2>2. \A p \in Replicas : p # r => procs'[p] = Overtaken(p)
    BY <1>8 DEF UpdateSeed
  <2>3. \A p \in Replicas : p # r =>
          \/ procs'[p] = procs[p]
          \/ /\ procs[p].pc = "update" /\ procs[p] # Down /\ procs'[p].pc = "update"
    <3>1. ASSUME NEW p \in Replicas, procs[p].pc = "update"
          PROVE  [procs[p] EXCEPT !.raced = TRUE].pc = "update" /\ procs[p] # Down
      BY <3>1, Standing DEF Upserting, Upserts
    <3> QED
      BY <2>2, <3>1, Overtaking
  <2>4. procs'[r].pc \in {"seed", "user"}
    BY <1>8 DEF UpdateSeed, AfterSeed
  <2>5. UNCHANGED schema
    BY <1>8 DEF UpdateSeed
  <2> QED
    BY <2>1, <2>3, <2>4, <2>5, MigratesKept DEF Migrates
<1> QED
  BY <1>3, <1>4, <1>5, <1>6, <1>7, <1>8 DEF Boots

\* A replica that is overtaken still writes what it was about to.
LEMMA OvertakenIsMarked ==
  ASSUME TypeOK, NEW p \in Replicas, procs'[p] = Overtaken(p)
  PROVE  \/ /\ procs'[p] = procs[p]
            /\ procs[p].pc = "update" => clients'[procs[p].client] = clients[procs[p].client]
         \/ /\ procs[p].pc = "update" /\ procs'[p].pc = "update"
            /\ procs'[p].client = procs[p].client /\ procs'[p].todo = procs[p].todo
            /\ procs'[p].raced /\ procs[p] # Down
<1>1. CASE procs[p].pc = "update" /\ clients'[procs[p].client] # clients[procs[p].client]
  <2>1. procs[p] \in Upserting /\ procs[p] # Down
    BY <1>1, Standing DEF Upserts
  <2>2. procs'[p] = [procs[p] EXCEPT !.raced = TRUE]
    BY <1>1 DEF Overtaken
  <2>3. procs[p] \in [pc : {"update"}, todo : SUBSET Seeds, client : Seeds,
                      redirects : SUBSET URIs, raced : BOOLEAN]
    BY <1>1, <2>1 DEF Upserting
  <2> QED
    BY <2>1, <2>2, <2>3
<1>2. CASE ~(procs[p].pc = "update" /\ clients'[procs[p].client] # clients[procs[p].client])
  BY <1>2 DEF Overtaken
<1> QED
  BY <1>1, <1>2

\* Nor does anything else change the schema.
LEMMA OthersInOrder ==
  ASSUME TypeOK, MigratesInOrder,
         Administer \/ \E r \in Replicas : CheckScriptError(r) \/ SkipOrganization(r) \/ Crash(r)
  PROVE  MigratesInOrder'
<1>1. CASE Administer
  <2>1. \A p \in Replicas : procs'[p] = Overtaken(p)
    BY <1>1 DEF Administer
  <2>2. UNCHANGED schema
    BY <1>1 DEF Administer
  <2> QED
    BY <2>1, <2>2, OvertakenIsMarked, MigratesKept DEF Migrates
<1>2. ASSUME NEW r \in Replicas, CheckScriptError(r) PROVE MigratesInOrder'
  <2>1. /\ procs'[r] = [pc |-> "script", script |-> procs[r].script]
        /\ \A p \in Replicas : p # r => procs'[p] = procs[p]
    BY <1>2, Becoming DEF CheckScriptError
  <2>2. UNCHANGED schema /\ Migrates(r)
    BY <1>2 DEF CheckScriptError, Migrates
  <2> QED
    BY <2>1, <2>2, MigratesKept DEF Migrates
<1>3. ASSUME NEW r \in Replicas, SkipOrganization(r) PROVE MigratesInOrder'
  <2>1. procs'[r] = Serving(TRUE) /\ \A p \in Replicas : p # r => procs'[p] = procs[p]
    BY <1>3, Becoming DEF SkipOrganization
  <2>2. UNCHANGED schema /\ ~Migrates(r) /\ procs[r] # Down
    BY <1>3, Standing DEF SkipOrganization, Migrates
  <2> QED
    BY <2>1, <2>2, MigratesKept DEF Migrates, Serving
<1>4. ASSUME NEW r \in Replicas, Crash(r) PROVE MigratesInOrder'
  <2>1. procs'[r] = Down /\ \A p \in Replicas : p # r => procs'[p] = procs[p]
    BY <1>4, Becoming DEF Crash, Exits
  <2>2. UNCHANGED schema
    BY <1>4 DEF Crash
  <2> QED
    BY <2>1, <2>2, MigratesKept DEF Migrates, Down
<1> QED
  BY <1>1, <1>2, <1>3, <1>4

-----------------------------------------------------------------------------
(* Scripts without a record.                                               *)

\* It is enough that the schema stays, and whoever was about to record a script is
\* so still or has halted.
LEMMA HalvesKept ==
  ASSUME HalvesAccounted, UNCHANGED schema, halted \subseteq halted',
         \A r \in Replicas : procs[r].pc = "record" =>
           \/ procs'[r].pc = "record" /\ procs'[r].script = procs[r].script
           \/ procs[r].script \in halted'
           \/ procs[r].script \in versions
  PROVE  HalvesAccounted'
BY DEF HalvesAccounted, Records, schema

\* Who runs a script is about to record it; only a halt comes between.
LEMMA HalvesStep ==
  ASSUME TypeOK, HalvesAccounted, Next
  PROVE  HalvesAccounted'
<1>1. CASE Administer
  <2>1. \A p \in Replicas : procs'[p] = Overtaken(p)
    BY <1>1 DEF Administer
  <2>2. UNCHANGED schema /\ halted' = halted
    BY <1>1 DEF Administer
  <2> QED
    BY <2>1, <2>2, OvertakenIsMarked, HalvesKept
<1>2. ASSUME NEW r \in Replicas, RunScript(r) PROVE HalvesAccounted'
  <2> DEFINE k == procs[r].script
  <2>1. CASE k \in applied \ Idempotent
    <3>1. procs'[r] = Down /\ \A p \in Replicas : p # r => procs'[p] = procs[p]
      BY <1>2, <2>1, Becoming DEF RunScript, Exits
    <3>2. UNCHANGED schema /\ halted' = halted /\ procs[r].pc # "record"
      BY <1>2, <2>1 DEF RunScript, schema, Unhurt
    <3> QED
      BY <3>1, <3>2, HalvesKept
  <2>2. CASE k \notin applied \ Idempotent
    <3>1. /\ procs'[r] = [pc |-> "record", script |-> k]
          /\ \A p \in Replicas : p # r => procs'[p] = procs[p]
      BY <1>2, <2>2, Becoming DEF RunScript
    <3>2. /\ applied' = applied \cup {k} /\ versions' = versions /\ halted' = halted
          /\ procs[r].pc # "record"
      BY <1>2, <2>2 DEF RunScript, Unhurt
    <3> QED
      BY <3>1, <3>2 DEF HalvesAccounted, Records
  <2> QED
    BY <2>1, <2>2
<1>3. ASSUME NEW r \in Replicas, RecordVersion(r) PROVE HalvesAccounted'
  <2> DEFINE k == procs[r].script
  <2>1. CASE k \in versions
    <3>1. procs'[r] = Down /\ \A p \in Replicas : p # r => procs'[p] = procs[p]
      BY <1>3, <2>1, Becoming DEF RecordVersion, Exits
    <3>2. UNCHANGED schema /\ halted' = halted
      BY <1>3, <2>1 DEF RecordVersion, schema, Unhurt
    <3> QED
      BY <2>1, <3>1, <3>2, HalvesKept
  <2>2. CASE k \notin versions
    <3>1. \A p \in Replicas : p # r => procs'[p] = procs[p]
      BY <1>3, <2>2, Becoming DEF RecordVersion
    <3>2. applied' = applied /\ versions' = versions \cup {k} /\ halted' = halted
      BY <1>3, <2>2 DEF RecordVersion, Unhurt
    <3> QED
      BY <3>1, <3>2 DEF HalvesAccounted, Records
  <2> QED
    BY <2>1, <2>2
<1>4. ASSUME NEW r \in Replicas, NEW x, Becomes(r, x), procs[r].pc # "record",
             UNCHANGED schema, halted' = halted
      PROVE  HalvesAccounted'
  BY <1>4, Becoming, HalvesKept
<1>5. ASSUME NEW r \in Replicas, UpdateSeed(r) PROVE HalvesAccounted'
  <2>1. \A p \in Replicas : p # r => procs'[p] = Overtaken(p)
    BY <1>5 DEF UpdateSeed
  <2>2. UNCHANGED schema /\ halted' = halted /\ procs[r].pc # "record"
    BY <1>5 DEF UpdateSeed, Unhurt
  <2> QED
    BY <2>1, <2>2, OvertakenIsMarked, HalvesKept
<1>6. ASSUME NEW r \in Replicas, Crash(r) PROVE HalvesAccounted'
  <2>1. procs'[r] = Down /\ \A p \in Replicas : p # r => procs'[p] = procs[p]
    BY <1>6, Becoming DEF Crash, Exits
  <2>2. /\ UNCHANGED schema /\ halted \subseteq halted'
        /\ procs[r].pc = "record" => procs[r].script \in halted'
    BY <1>6 DEF Crash
  <2> QED
    BY <2>1, <2>2, HalvesKept
<1>7. ASSUME NEW r \in Replicas, Start(r) \/ CheckScript(r) \/ CheckScriptError(r)
      PROVE  HalvesAccounted'
  <2>1. procs[r].pc # "record"
    BY <1>7 DEF Start, CheckScript, CheckScriptError, Down
  <2>2. UNCHANGED schema /\ halted' = halted /\ \E x : Becomes(r, x)
    BY <1>7 DEF Start, CheckScript, CheckScriptError, Unhurt
  <2> QED
    BY <1>4, <2>1, <2>2
<1>8. ASSUME NEW r \in Replicas,
             \/ ReadSeed(r) \/ CreateSeed(r) \/ SeedUser(r)
             \/ SeedOrganization(r) \/ SkipOrganization(r) \/ SeedOwner(r)
      PROVE  HalvesAccounted'
  <2>1. procs[r].pc # "record"
    BY <1>8 DEF ReadSeed, CreateSeed, SeedUser, SeedOrganization, SkipOrganization, SeedOwner
  <2>2. UNCHANGED schema /\ halted' = halted
    BY <1>8 DEF ReadSeed, CreateSeed, SeedUser, SeedOrganization, SkipOrganization, SeedOwner, Unhurt
  <2>3. \E x : Becomes(r, x)
    BY <1>8 DEF ReadSeed, CreateSeed, SeedUser, SeedOrganization, SkipOrganization, SeedOwner, Exits
  <2> QED
    BY <1>4, <2>1, <2>2, <2>3
<1> QED
  BY <1>1, <1>2, <1>3, <1>5, <1>6, <1>7, <1>8 DEF Next, Boots

-----------------------------------------------------------------------------
(* The seeds.                                                              *)

\* It is enough that nothing is taken away, and that each replica stays where it
\* is or is where all it passed is there.
LEMMA SeedsKept ==
  ASSUME TypeOK, SeedsInOrder, user => user', owned \subseteq owned',
         \A c \in Clients : Exists(c) => clients'[c] # None,
         \A p \in Replicas :
           \/ procs'[p] = procs[p]
           \/ /\ procs[p].pc = "update" /\ procs'[p].pc = "update"
              /\ procs'[p].client = procs[p].client /\ procs'[p].todo = procs[p].todo
           \/ SeedInOrder(p)'
  PROVE  SeedsInOrder'
<1> SUFFICES ASSUME NEW p \in Replicas PROVE SeedInOrder(p)'
  BY DEF SeedsInOrder
<1>1. SeedInOrder(p)
  BY DEF SeedsInOrder
<1>2. \A c \in Seeds : Exists(c) => Exists(c)'
  BY SeedsAssumption DEF Exists
<1>3. CASE procs'[p] = procs[p]
  BY <1>1, <1>2, <1>3 DEF SeedInOrder, Upserts
<1>4. CASE /\ procs[p].pc = "update" /\ procs'[p].pc = "update"
           /\ procs'[p].client = procs[p].client /\ procs'[p].todo = procs[p].todo
  BY <1>1, <1>2, <1>4 DEF SeedInOrder, Upserts
<1> QED
  BY <1>3, <1>4

\* What a seed writes is a client.
LEMMA SeedsStay ==
  ASSUME TypeOK, ReadsAreCurrent, NEW r \in Replicas, CreateSeed(r) \/ UpdateSeed(r)
  PROVE  /\ \A c \in Clients : Exists(c) => clients'[c] # None
         /\ clients'[procs[r].client] # None
<1> DEFINE c == procs[r].client
<1>1. /\ c \in Seeds /\ c \in Clients /\ clients \in [Clients -> Row \cup {None}]
      /\ drawn \in Nat
  BY Standing, SeedsAssumption DEF CreateSeed, UpdateSeed, Upserts, TypeOK, RegistryTypeOK
<1>2. CASE CreateSeed(r)
  <2>1. SeedRow(c) # None
    <3>1. SeedRow(c) \in Row
      BY <1>1, SeedsAssumption DEF SeedRow, Row
    <3> QED
      BY <1>1, <3>1, RowsAreRows
  <2> QED
    BY <1>1, <1>2, <2>1 DEF CreateSeed, Exists
<1>3. CASE UpdateSeed(r)
  <2>1. clients[c] \in Row
    BY <1>1, <1>3, Rows DEF UpdateSeed, ReadsAreCurrent, TypeOK
  <2>2. procs[r].redirects \in SUBSET URIs
    BY <1>3, Standing DEF UpdateSeed
  <2>3. Patched(clients[c], procs[r].redirects, SeedLabel[c]) \in Row
    BY <1>1, <2>1, <2>2, PatchedRow, SeedsAssumption
  <2>4. Patched(clients[c], procs[r].redirects, SeedLabel[c]) # None
    BY <1>1, <2>3, RowsAreRows
  <2> QED
    BY <1>1, <1>3, <2>4 DEF UpdateSeed, Exists
<1> QED
  BY <1>2, <1>3

\* After a client that is there, those that are to be seeded are left.
LEMMA AfterSeeds ==
  ASSUME NEW r \in Replicas, NEW todo \in SUBSET Seeds, procs'[r] = AfterSeed(todo),
         \A c \in Seeds \ todo : clients'[c] # None
  PROVE  SeedInOrder(r)'
<1>1. CASE todo = {}
  <2>1. procs'[r] = [pc |-> "user", todo |-> {}]
    BY <1>1 DEF AfterSeed
  <2>2. \A c \in Seeds : clients'[c] # None
    BY <1>1
  <2> QED
    BY <2>1, <2>2 DEF SeedInOrder, Upserts, Exists
<1>2. CASE todo # {}
  <2>1. procs'[r] = [pc |-> "seed", todo |-> todo]
    BY <1>2 DEF AfterSeed
  <2> QED
    BY <2>1 DEF SeedInOrder, Upserts, Exists
<1> QED
  BY <1>1, <1>2

\* A replica that ends or is still at the scripts has passed nothing.
LEMMA NothingPassed ==
  ASSUME NEW r \in Replicas, procs'[r].pc \in {"down", "check", "script", "record"}
  PROVE  SeedInOrder(r)'
BY DEF SeedInOrder, Upserts

\* The seeds are gone through in order, whoever else writes them.
LEMMA SeedsStep ==
  ASSUME TypeOK, RegistryInv, SeedsInOrder, ReadsAreCurrent, Next
  PROVE  SeedsInOrder'
<1>1. CASE Administer
  <2>1. \A p \in Replicas : procs'[p] = Overtaken(p)
    BY <1>1 DEF Administer
  <2>2. \A c \in Clients : Exists(c) => clients'[c] # None
    BY <1>1, AdministerStays DEF Administer, TypeOK
  <2>3. user' = user /\ owned' = owned
    BY <1>1 DEF Administer, tenants
  <2> QED
    BY <2>1, <2>2, <2>3, OvertakenIsMarked, SeedsKept
<1>2. ASSUME NEW r \in Replicas, NEW x, Becomes(r, x), SeedInOrder(r)',
             user => user', owned \subseteq owned',
             \A c \in Clients : Exists(c) => clients'[c] # None
      PROVE  SeedsInOrder'
  BY <1>2, Becoming, SeedsKept
<1>3. ASSUME NEW r \in Replicas,
             Start(r) \/ CheckScript(r) \/ CheckScriptError(r) \/ RunScript(r) \/ RecordVersion(r)
      PROVE  SeedsInOrder'
  <2>1. \/ Becomes(r, AtScript(1)) \/ Becomes(r, AtScript(procs[r].script + 1)) \/ Becomes(r, Down)
        \/ Becomes(r, [pc |-> "script", script |-> procs[r].script])
        \/ Becomes(r, [pc |-> "record", script |-> procs[r].script])
    BY <1>3 DEF Start, CheckScript, CheckScriptError, RunScript, RecordVersion, Exits
  <2>2. PICK x : /\ Becomes(r, x)
                 /\ \/ x.pc \in {"down", "check", "script", "record"}
                    \/ x = [pc |-> "seed", todo |-> Seeds]
    BY <2>1 DEF AtScript, Down
  <2>3. procs'[r] = x
    BY <2>2, Becoming
  <2>4. SeedInOrder(r)'
    <3>1. CASE x = [pc |-> "seed", todo |-> Seeds]
      BY <2>3, <3>1 DEF SeedInOrder, Upserts
    <3>2. CASE x.pc \in {"down", "check", "script", "record"}
      BY <2>3, <3>2, NothingPassed
    <3> QED
      BY <2>2, <3>1, <3>2
  <2>5. user' = user /\ owned' = owned /\ clients' = clients
    BY <1>3 DEF Start, CheckScript, CheckScriptError, RunScript, RecordVersion, tenants, registry
  <2> QED
    BY <1>2, <2>2, <2>4, <2>5 DEF Exists
<1>4. ASSUME NEW r \in Replicas, ReadSeed(r) PROVE SeedsInOrder'
  <2>1. procs[r].pc = "seed" /\ procs[r].todo \in SUBSET Seeds /\ clients' = clients
    BY <1>4, Standing DEF ReadSeed, registry
  <2>2. \A c \in Seeds \ procs[r].todo : Exists(c)
    BY <2>1 DEF SeedsInOrder, SeedInOrder
  <2>3. user' = user /\ owned' = owned
    BY <1>4 DEF ReadSeed, tenants
  <2>4. CASE procs[r].todo = {}
    <3>1. Becomes(r, AfterSeed({}))
      BY <1>4, <2>4 DEF ReadSeed
    <3>2. SeedInOrder(r)'
      BY <2>1, <2>2, <2>4, <3>1, Becoming, AfterSeeds DEF Exists
    <3> QED
      BY <1>2, <2>1, <2>3, <3>1, <3>2 DEF Exists
  <2>5. CASE procs[r].todo # {}
    <3>1. PICK c \in procs[r].todo :
            \/ Becomes(r, [pc |-> "create", todo |-> procs[r].todo \ {c}, client |-> c])
            \/ Exists(c) /\ Becomes(r, AfterSeed(procs[r].todo \ {c}))
            \/ Becomes(r, [pc |-> "update", todo |-> procs[r].todo \ {c}, client |-> c,
                           redirects |-> unionExact(clients[c], c), raced |-> FALSE])
      BY <1>4, <2>5 DEF ReadSeed
    <3>2. \A d \in Seeds \ ((procs[r].todo \ {c}) \cup {c}) : Exists(d)
      BY <2>2
    <3>3. CASE Becomes(r, [pc |-> "create", todo |-> procs[r].todo \ {c}, client |-> c])
      <4>1. procs'[r] = [pc |-> "create", todo |-> procs[r].todo \ {c}, client |-> c]
        BY <3>3, Becoming
      <4>2. SeedInOrder(r)'
        BY <2>1, <3>2, <4>1 DEF SeedInOrder, Upserts, Exists
      <4> QED
        BY <1>2, <2>1, <2>3, <3>3, <4>2 DEF Exists
    <3>4. CASE Exists(c) /\ Becomes(r, AfterSeed(procs[r].todo \ {c}))
      <4>1. procs'[r] = AfterSeed(procs[r].todo \ {c})
        BY <3>4, Becoming
      <4>2. \A d \in Seeds \ (procs[r].todo \ {c}) : clients'[d] # None
        BY <2>1, <2>2, <3>4 DEF Exists
      <4>3. SeedInOrder(r)'
        BY <2>1, <4>1, <4>2, AfterSeeds
      <4> QED
        BY <1>2, <2>1, <2>3, <3>4, <4>3 DEF Exists
    <3>5. CASE Becomes(r, [pc |-> "update", todo |-> procs[r].todo \ {c}, client |-> c,
                           redirects |-> unionExact(clients[c], c), raced |-> FALSE])
      <4>1. procs'[r] = [pc |-> "update", todo |-> procs[r].todo \ {c}, client |-> c,
                         redirects |-> unionExact(clients[c], c), raced |-> FALSE]
        BY <3>5, Becoming
      <4>2. SeedInOrder(r)'
        BY <2>1, <3>2, <4>1 DEF SeedInOrder, Upserts, Exists
      <4> QED
        BY <1>2, <2>1, <2>3, <3>5, <4>2 DEF Exists
    <3> QED
      BY <3>1, <3>3, <3>4, <3>5
  <2> QED
    BY <2>4, <2>5
<1>5. ASSUME NEW r \in Replicas, CreateSeed(r) PROVE SeedsInOrder'
  <2>1. procs[r].todo \in SUBSET Seeds /\ Upserts(r)
    BY <1>5, Standing DEF CreateSeed, Upserts
  <2>2. \A d \in Seeds \ (procs[r].todo \cup {procs[r].client}) : Exists(d)
    BY <2>1 DEF SeedsInOrder, SeedInOrder
  <2>3. user' = user /\ owned' = owned
    BY <1>5 DEF CreateSeed, tenants
  <2>4. \A d \in Seeds \ procs[r].todo : clients'[d] # None
    BY <1>5, <2>2, SeedsStay, SeedsAssumption
  <2>5. CASE Exists(procs[r].client)
    <3>1. procs'[r] = Down /\ Becomes(r, Down)
      BY <1>5, <2>5, Becoming DEF CreateSeed, Exits
    <3>2. SeedInOrder(r)'
      BY <3>1, NothingPassed DEF Down
    <3> QED
      BY <1>2, <1>5, <2>3, <3>1, <3>2, SeedsStay
  <2>6. CASE ~Exists(procs[r].client)
    <3>1. procs'[r] = AfterSeed(procs[r].todo) /\ Becomes(r, AfterSeed(procs[r].todo))
      BY <1>5, <2>6, Becoming DEF CreateSeed
    <3>2. SeedInOrder(r)'
      BY <2>1, <2>4, <3>1, AfterSeeds
    <3> QED
      BY <1>2, <1>5, <2>3, <3>1, <3>2, SeedsStay
  <2> QED
    BY <2>5, <2>6
<1>6. ASSUME NEW r \in Replicas, UpdateSeed(r) PROVE SeedsInOrder'
  <2>1. procs[r].todo \in SUBSET Seeds /\ Upserts(r)
    BY <1>6, Standing DEF UpdateSeed, Upserts
  <2>2. \A d \in Seeds \ (procs[r].todo \cup {procs[r].client}) : Exists(d)
    BY <2>1 DEF SeedsInOrder, SeedInOrder
  <2>3. user' = user /\ owned' = owned
    BY <1>6 DEF UpdateSeed, tenants
  <2>4. \A d \in Seeds \ procs[r].todo : clients'[d] # None
    BY <1>6, <2>2, SeedsStay, SeedsAssumption
  <2>5. procs'[r] = AfterSeed(procs[r].todo) /\ \A p \in Replicas : p # r => procs'[p] = Overtaken(p)
    BY <1>6 DEF UpdateSeed
  <2>6. SeedInOrder(r)'
    BY <2>1, <2>4, <2>5, AfterSeeds
  <2> QED
    BY <1>6, <2>3, <2>5, <2>6, SeedsStay, OvertakenIsMarked, SeedsKept
<1>7. ASSUME NEW r \in Replicas,
             SeedUser(r) \/ SeedOrganization(r) \/ SkipOrganization(r) \/ SeedOwner(r)
      PROVE  SeedsInOrder'
  <2>1. \A c \in Seeds : Exists(c)
    BY <1>7 DEF SeedUser, SeedOrganization, SkipOrganization, SeedOwner, SeedsInOrder, SeedInOrder
  <2>2. clients' = clients /\ owned \subseteq owned' /\ user'
    <3>1. clients' = clients /\ owned \subseteq owned'
      BY <1>7 DEF SeedUser, SeedOrganization, SkipOrganization, SeedOwner, registry, tenants
    <3>2. ~SeedUser(r) => user /\ user' = user
      BY <1>7 DEF SeedOrganization, SkipOrganization, SeedOwner, SeedsInOrder, SeedInOrder, tenants
    <3>3. SeedUser(r) => user'
      BY DEF SeedUser
    <3> QED
      BY <3>1, <3>2, <3>3
  <2>3. CASE SeedUser(r)
    <3>1. procs'[r] = [pc |-> "org", todo |-> {}] /\ Becomes(r, [pc |-> "org", todo |-> {}])
      BY <2>3, Becoming DEF SeedUser
    <3>2. SeedInOrder(r)'
      BY <2>1, <2>2, <3>1 DEF SeedInOrder, Upserts, Exists
    <3> QED
      BY <1>2, <2>2, <3>1, <3>2 DEF Exists
  <2>4. CASE SeedOrganization(r)
    <3>1. CASE owned # {}
      <4>1. procs'[r] = Serving(FALSE) /\ Becomes(r, Serving(FALSE))
        BY <2>4, <3>1, Becoming DEF SeedOrganization
      <4>2. SeedInOrder(r)'
        BY <2>1, <2>2, <3>1, <4>1 DEF SeedInOrder, Upserts, Exists, Serving
      <4> QED
        BY <1>2, <2>2, <4>1, <4>2 DEF Exists
    <3>2. CASE owned = {}
      <4>1. /\ procs'[r] = [pc |-> "owner", org |-> orgs + 1]
            /\ Becomes(r, [pc |-> "owner", org |-> orgs + 1])
        BY <2>4, <3>2, Becoming DEF SeedOrganization
      <4>2. SeedInOrder(r)'
        BY <2>1, <2>2, <4>1 DEF SeedInOrder, Upserts, Exists
      <4> QED
        BY <1>2, <2>2, <4>1, <4>2 DEF Exists
    <3> QED
      BY <3>1, <3>2
  <2>5. CASE SkipOrganization(r)
    <3>1. procs'[r] = Serving(TRUE) /\ Becomes(r, Serving(TRUE))
      BY <2>5, Becoming DEF SkipOrganization
    <3>2. SeedInOrder(r)'
      BY <2>1, <2>2, <3>1 DEF SeedInOrder, Upserts, Exists, Serving
    <3> QED
      BY <1>2, <2>2, <3>1, <3>2 DEF Exists
  <2>6. CASE SeedOwner(r)
    <3>1. procs'[r] = Serving(FALSE) /\ Becomes(r, Serving(FALSE))
      BY <2>6, Becoming DEF SeedOwner
    <3>2. owned' # {}
      BY <2>6 DEF SeedOwner
    <3>3. SeedInOrder(r)'
      BY <2>1, <2>2, <3>1, <3>2 DEF SeedInOrder, Upserts, Exists, Serving
    <3> QED
      BY <1>2, <2>2, <3>1, <3>3 DEF Exists
  <2> QED
    BY <1>7, <2>3, <2>4, <2>5, <2>6
<1>8. ASSUME NEW r \in Replicas, Crash(r) PROVE SeedsInOrder'
  <2>1. procs'[r] = Down /\ Becomes(r, Down)
    BY <1>8, Becoming DEF Crash, Exits
  <2>2. SeedInOrder(r)'
    BY <2>1, NothingPassed DEF Down
  <2>3. user' = user /\ owned' = owned /\ clients' = clients
    BY <1>8 DEF Crash, tenants
  <2> QED
    BY <1>2, <2>1, <2>2, <2>3 DEF Exists
<1> QED
  BY <1>1, <1>3, <1>4, <1>5, <1>6, <1>7, <1>8 DEF Next, Boots

-----------------------------------------------------------------------------
(* What a replica read of a client.                                        *)

\* It is enough that each replica that is about to write either was so before, and
\* is marked or finds the client unchanged, or has just read it.
LEMMA ReadsKept ==
  ASSUME TypeOK, ReadsAreCurrent,
         \A c \in Clients : Exists(c) => clients'[c] # None,
         \A p \in Replicas : procs'[p].pc = "update" =>
           \/ /\ procs'[p] = procs[p]
              /\ clients'[procs[p].client] = clients[procs[p].client]
           \/ /\ procs[p].pc = "update" /\ procs'[p].client = procs[p].client
              /\ procs'[p].raced
           \/ LET c == procs'[p].client IN
              /\ clients'[c] # None
              /\ procs'[p].redirects = clients'[c].redirects \cup {SeedURI[c]}
  PROVE  ReadsAreCurrent'
<1> SUFFICES ASSUME NEW p \in Replicas, procs'[p].pc = "update"
             PROVE  LET c == procs'[p].client IN
                    /\ clients'[c] # None
                    /\ ~procs'[p].raced =>
                         procs'[p].redirects = clients'[c].redirects \cup {SeedURI[c]}
  BY DEF ReadsAreCurrent, unionExact, Exists
<1>1. CASE /\ procs'[p] = procs[p]
           /\ clients'[procs[p].client] = clients[procs[p].client]
  BY <1>1 DEF ReadsAreCurrent, unionExact, Exists
<1>2. CASE procs[p].pc = "update" /\ procs'[p].client = procs[p].client /\ procs'[p].raced
  <2>1. procs[p].client \in Clients /\ Exists(procs[p].client)
    BY <1>2, Standing, SeedsAssumption DEF ReadsAreCurrent, Upserts
  <2> QED
    BY <1>2, <2>1
<1> QED
  BY <1>1, <1>2

\* Writers mark each other, and the admin API marks them all.
LEMMA ReadsStep ==
  ASSUME TypeOK, RegistryInv, ReadsAreCurrent, Next
  PROVE  ReadsAreCurrent'
<1>1. CASE Administer
  <2>1. \A p \in Replicas : procs'[p] = Overtaken(p)
    BY <1>1 DEF Administer
  <2>2. \A c \in Clients : Exists(c) => clients'[c] # None
    BY <1>1, AdministerStays DEF Administer, TypeOK
  <2> QED
    BY <2>1, <2>2, OvertakenIsMarked, ReadsKept
<1>2. ASSUME NEW r \in Replicas, UpdateSeed(r) PROVE ReadsAreCurrent'
  <2>1. procs'[r] = AfterSeed(procs[r].todo) /\ \A p \in Replicas : p # r => procs'[p] = Overtaken(p)
    BY <1>2 DEF UpdateSeed
  <2>2. procs'[r].pc # "update"
    BY <2>1 DEF AfterSeed
  <2> QED
    BY <1>2, <2>1, <2>2, SeedsStay, OvertakenIsMarked, ReadsKept
<1>3. ASSUME NEW r \in Replicas, CreateSeed(r) PROVE ReadsAreCurrent'
  <2> DEFINE c == procs[r].client
  <2>1. c \in Seeds
    BY <1>3, Standing DEF CreateSeed, Upserts
  <2>2. PICK x : Becomes(r, x) /\ x.pc # "update"
    BY <1>3 DEF CreateSeed, Exits, Down, AfterSeed
  <2>3. procs'[r] = x /\ \A p \in Replicas : p # r => procs'[p] = procs[p]
    BY <2>2, Becoming
  <2>4. \A p \in Replicas : procs[p].pc = "update" => Exists(procs[p].client)
    BY DEF ReadsAreCurrent
  <2>5. \A d \in Clients : Exists(d) => clients'[d] = clients[d]
    BY <1>3, <2>1, SeedsAssumption DEF CreateSeed, TypeOK, RegistryTypeOK
  <2>6. \A p \in Replicas : procs[p].pc = "update" => procs[p].client \in Clients
    BY Standing, SeedsAssumption DEF Upserts
  <2> QED
    BY <1>3, <2>2, <2>3, <2>4, <2>5, <2>6, SeedsStay, ReadsKept
<1>4. ASSUME NEW r \in Replicas, ReadSeed(r) PROVE ReadsAreCurrent'
  <2>1. clients' = clients
    BY <1>4 DEF ReadSeed, registry
  <2>2. PICK x : /\ Becomes(r, x)
                 /\ x.pc = "update" =>
                      /\ clients[x.client] # None
                      /\ x.redirects = clients[x.client].redirects \cup {SeedURI[x.client]}
    <3>1. CASE procs[r].todo = {}
      BY <1>4, <3>1 DEF ReadSeed, AfterSeed
    <3>2. CASE procs[r].todo # {}
      <4>1. PICK c \in procs[r].todo :
            \/ Becomes(r, [pc |-> "create", todo |-> procs[r].todo \ {c}, client |-> c])
            \/ Becomes(r, AfterSeed(procs[r].todo \ {c}))
            \/ Exists(c) /\
               Becomes(r, [pc |-> "update", todo |-> procs[r].todo \ {c}, client |-> c,
                           redirects |-> unionExact(clients[c], c), raced |-> FALSE])
        BY <1>4, <3>2 DEF ReadSeed
      <4> QED
        BY <4>1 DEF AfterSeed, unionExact, Exists
    <3> QED
      BY <3>1, <3>2
  <2>3. procs'[r] = x /\ \A p \in Replicas : p # r => procs'[p] = procs[p]
    BY <2>2, Becoming
  <2> QED
    BY <2>1, <2>2, <2>3, ReadsKept DEF Exists
<1>5. ASSUME NEW r \in Replicas, NEW x, Becomes(r, x), x.pc # "update", clients' = clients
      PROVE  ReadsAreCurrent'
  <2>1. procs'[r] = x /\ \A p \in Replicas : p # r => procs'[p] = procs[p]
    BY <1>5, Becoming
  <2> QED
    BY <1>5, <2>1, ReadsKept DEF Exists
<1>6. ASSUME NEW r \in Replicas,
             \/ Start(r) \/ CheckScript(r) \/ CheckScriptError(r) \/ RunScript(r)
             \/ RecordVersion(r) \/ Crash(r)
      PROVE  ReadsAreCurrent'
  <2>1. clients' = clients
    BY <1>6 DEF Start, CheckScript, CheckScriptError, RunScript, RecordVersion, Crash, registry
  <2>2. \/ Becomes(r, AtScript(1)) \/ Becomes(r, AtScript(procs[r].script + 1)) \/ Becomes(r, Down)
        \/ Becomes(r, [pc |-> "script", script |-> procs[r].script])
        \/ Becomes(r, [pc |-> "record", script |-> procs[r].script])
    BY <1>6 DEF Start, CheckScript, CheckScriptError, RunScript, RecordVersion, Crash, Exits
  <2>3. \E x : Becomes(r, x) /\ x.pc # "update"
    BY <2>2 DEF AtScript, Down
  <2> QED
    BY <1>5, <2>1, <2>3
<1>7. ASSUME NEW r \in Replicas,
             SeedUser(r) \/ SeedOrganization(r) \/ SkipOrganization(r) \/ SeedOwner(r)
      PROVE  ReadsAreCurrent'
  <2>1. clients' = clients
    BY <1>7 DEF SeedUser, SeedOrganization, SkipOrganization, SeedOwner, registry
  <2>2. \E x : Becomes(r, x) /\ x.pc # "update"
    BY <1>7 DEF SeedUser, SeedOrganization, SkipOrganization, SeedOwner, Serving
  <2> QED
    BY <1>5, <2>1, <2>2
<1> QED
  BY <1>1, <1>2, <1>3, <1>4, <1>6, <1>7 DEF Next, Boots

-----------------------------------------------------------------------------
(* The registry, while replicas start.                                     *)

\* Starts draw no secret: the clients they create are public, and those they
\* write keep their type and their secret.
LEMMA RegistryStep ==
  ASSUME TypeOK, RegistryInv, ReadsAreCurrent, Next
  PROVE  RegistryInv'
<1>0. RegistryTypeOK
  BY DEF TypeOK
<1>1. CASE Administer
  BY <1>0, <1>1, AdministerKeeps DEF Administer
<1>2. CASE UNCHANGED registry
  <2>1. UNCHANGED <<clients, reqs, told, lost, replaced>>
    BY <1>2 DEF registry
  <2> QED
    BY <1>0, <2>1, SecretsKept DEF Exists
<1>3. ASSUME NEW r \in Replicas, CreateSeed(r) \/ UpdateSeed(r) PROVE RegistryInv'
  <2> DEFINE c == procs[r].client
  <2>1. c \in Clients /\ clients \in [Clients -> Row \cup {None}]
    BY <1>3, Standing, SeedsAssumption DEF CreateSeed, UpdateSeed, Upserts, TypeOK, RegistryTypeOK
  <2>2. UNCHANGED <<reqs, told, lost, replaced>>
    BY <1>3 DEF CreateSeed, UpdateSeed
  <2>3. \A d \in Clients : Exists(d) => clients'[d] # None
    BY <1>3, SeedsStay
  <2>4. CASE CreateSeed(r)
    <3>1. clients' = clients \/ (~Exists(c) /\ clients' = [clients EXCEPT ![c] = SeedRow(c)])
      BY <2>4 DEF CreateSeed
    <3>2. SeedRow(c).type = "public" /\ SeedRow(c).secret = None
      BY DEF SeedRow
    <3>3. /\ \A d \in Clients : Exists(d) => clients'[d] = clients[d]
          /\ \A d \in Clients : ~Exists(d) => clients'[d] = clients[d] \/ clients'[d] = SeedRow(c)
      BY <2>1, <3>1
    <3> QED
      BY <1>0, <2>2, <2>3, <3>2, <3>3, SecretsKept DEF Exists
  <2>5. CASE UpdateSeed(r)
    <3>1. /\ clients' = [clients EXCEPT
                           ![c] = Patched(clients[c], procs[r].redirects, SeedLabel[c])]
          /\ Exists(c)
      BY <2>5 DEF UpdateSeed, ReadsAreCurrent
    <3>2. clients[c] \in Row /\ c \in Seeds /\ procs[r].redirects \in SUBSET URIs
      BY <1>0, <2>1, <2>5, <3>1, Rows, Standing DEF UpdateSeed, Upserts
    <3>3. /\ Patched(clients[c], procs[r].redirects, SeedLabel[c]).type = clients[c].type
          /\ Patched(clients[c], procs[r].redirects, SeedLabel[c]).secret = clients[c].secret
      BY <3>2, PatchedRow, SeedsAssumption
    <3>4. \A d \in Clients : d # c => clients'[d] = clients[d]
      BY <2>1, <3>1
    <3>5. clients'[c].type = clients[c].type /\ clients'[c].secret = clients[c].secret
      BY <2>1, <3>1, <3>3
    <3> QED
      BY <1>0, <2>2, <2>3, <3>1, <3>4, <3>5, SecretsKept DEF Exists
  <2> QED
    BY <1>3, <2>4, <2>5
<1>4. ASSUME NEW r \in Replicas, Crash(r) PROVE RegistryInv'
  <2>1. PICK those \in SUBSET {a \in Admins : reqs[a] # Idle} : Fail(those)
    BY <1>4 DEF Crash
  <2> QED
    BY <1>0, <1>4, <2>1, FailKeeps DEF Crash
<1> QED
  BY <1>1, <1>2, <1>3, <1>4
  DEF Next, Boots, Start, CheckScript, CheckScriptError, RunScript, RecordVersion, ReadSeed,
      SeedUser, SeedOrganization, SkipOrganization, SeedOwner

-----------------------------------------------------------------------------
(* Theorems.                                                               *)

\* No replica runs, and what an earlier release left is complete.
LEMMA InitOrdered == Init => BootInv
<1> SUFFICES ASSUME Init PROVE BootInv
  OBVIOUS
<1>1. TypeOK
  BY InitTyped
<1>2. \A c \in Clients : ~Exists(c)
  BY DEF Init, RegistryInit, Exists
<1>3. \A a \in Admins : reqs[a].pc = "idle"
  BY DEF Init, RegistryInit, Idle
<1>4. replaced = {}
  BY DEF Init, RegistryInit
<1>5. RegistryInv
  BY <1>2, <1>3, <1>4
  DEF RegistryInv, SecretsApart, ReplacedSecretsAreRefused, SecretsInForceAreKnown, AnswersWork
<1>6. PICK n \in 0..Last : applied = 1..n /\ versions = 1..n
  BY DEF Init
<1>7. \A r \in Replicas : procs[r] = Down /\ procs[r].pc = "down"
  BY DEF Init, Down
<1>8. MigratesInOrder
  BY <1>6, <1>7 DEF MigratesInOrder, SchemaInOrder, Migrates
<1>9. HalvesAccounted
  BY <1>6 DEF HalvesAccounted
<1>10. SeedsInOrder /\ ReadsAreCurrent
  BY <1>7 DEF SeedsInOrder, SeedInOrder, ReadsAreCurrent, Upserts
<1> QED
  BY <1>1, <1>5, <1>8, <1>9, <1>10 DEF BootInv

\* Nothing happens.
LEMMA Stutters ==
  ASSUME BootInv, UNCHANGED vars
  PROVE  BootInv'
<1>1. UNCHANGED <<clients, reqs, faults, drawn, told, lost, replaced, applied, versions, user, orgs,
                  owned, procs, halted>>
  BY DEF vars, registry, schema, tenants
<1>2. TypeOK'
  BY <1>1 DEF BootInv, TypeOK, RegistryTypeOK, Row, Secrets, Telling, Places, Owning
<1>3. RegistryInv'
  BY <1>1 DEF BootInv, RegistryInv, SecretsApart, ReplacedSecretsAreRefused, Exists,
              SecretsInForceAreKnown, AnswersWork, authenticateClient
<1>4. MigratesInOrder' /\ HalvesAccounted'
  BY <1>1 DEF BootInv, MigratesInOrder, SchemaInOrder, HalvesAccounted, Migrates, Records
<1>5. SeedsInOrder' /\ ReadsAreCurrent'
  BY <1>1 DEF BootInv, SeedsInOrder, SeedInOrder, ReadsAreCurrent, Upserts, Exists, unionExact
<1> QED
  BY <1>2, <1>3, <1>4, <1>5 DEF BootInv

\* Whatever replicas, admins and failures do next, order is kept.
LEMMA StepOrdered ==
  ASSUME BootInv, Next
  PROVE  BootInv'
<1>1. TypeOK'
  BY BootsTyped, OthersTyped DEF BootInv, Next
<1>2. MigratesInOrder'
  BY BootsInOrder, OthersInOrder DEF BootInv, Next
<1> QED
  BY <1>1, <1>2, RegistryStep, HalvesStep, SeedsStep, ReadsStep DEF BootInv

\* Any number of replicas that start, stop and start again, scripts, clients and
\* admins (migrate, handleAdminRotateSecret, upsertPublicClient): the schema grows
\* in order, what a replica has passed is there, a script without a record is
\* accounted for, and the secrets of clients stay apart.
THEOREM Invariance == Spec => []BootInv
<1>1. BootInv /\ [Next]_vars => BootInv'
  BY StepOrdered, Stutters
<1> QED
  BY <1>1, InitOrdered, PTL DEF Spec

\* The database and the replicas keep their types (Migrate, applyDemoSeed, Client).
THEOREM Typed == Spec => []TypeOK
<1>1. BootInv => TypeOK
  BY DEF BootInv
<1> QED
  BY <1>1, Invariance, PTL

\* Scripts take effect and are recorded one after the other, whoever starts at the
\* same time and stops where (migrate.go, Migrate).
THEOREM InOrder == Spec => []SchemaInOrder
<1>1. BootInv => SchemaInOrder
  BY DEF BootInv, MigratesInOrder
<1> QED
  BY <1>1, Invariance, PTL

\* Replicas that race for a script cannot block the start for good: whoever ran it
\* is about to record it, unless it was stopped between the two (migrate.go:44).
THEOREM OnlyAHaltBlocks == Spec => []StuckOnlyByAHalt
<1>1. BootInv => StuckOnlyByAHalt
  <2> SUFFICES ASSUME BootInv, Stuck PROVE halted \ versions # {}
    BY DEF StuckOnlyByAHalt
  <2>1. PICK k \in applied \ (versions \cup Idempotent) :
          \A r \in Replicas : procs[r].pc = "record" => procs[r].script # k
    BY DEF Stuck
  <2>2. k \in halted
    BY <2>1 DEF BootInv, HalvesAccounted, Records
  <2> QED
    BY <2>1, <2>2
<1> QED
  BY <1>1, Invariance, PTL

\* A server that answers has the whole schema, the clients, the user and, but for a
\* failed lookup, the organization of its environment (main.go, seed.Apply).
THEOREM Ready == Spec => []ServesWhenReady
<1>1. BootInv => ServesWhenReady
  <2> SUFFICES ASSUME BootInv, NEW r \in Replicas, procs[r].pc = "serving"
               PROVE  /\ versions = Scripts
                      /\ \A c \in Seeds : Exists(c)
                      /\ user
                      /\ ~procs[r].skipped => owned # {}
    BY DEF ServesWhenReady, Serves
  <2>1. versions = Scripts
    BY Standing DEF BootInv, MigratesInOrder, Migrates
  <2> QED
    BY <2>1 DEF BootInv, SeedsInOrder, SeedInOrder
<1> QED
  BY <1>1, Invariance, PTL

\* No rotation, edit, seed or failure brings a replaced secret back (admin.go:258,
\* authenticateClient).
THEOREM ReplacedStayRefused == Spec => []ReplacedSecretsAreRefused
<1>1. BootInv => ReplacedSecretsAreRefused
  BY DEF BootInv, RegistryInv
<1> QED
  BY <1>1, Invariance, PTL

\* A secret in force was told to an admin, is about to be, or its answer failed
\* (handleAdminCreateClient, handleAdminRotateSecret).
THEOREM InForceAreKnown == Spec => []SecretsInForceAreKnown
<1>1. BootInv => SecretsInForceAreKnown
  BY DEF BootInv, RegistryInv
<1> QED
  BY <1>1, Invariance, PTL

\* Of any number of rotations of a client that race, the last one stored answers
\* with the secret that works (admin.go:258).
THEOREM LastAnswerWorks == Spec => []AnswersWork
<1>1. BootInv => AnswersWork
  BY DEF BootInv, RegistryInv
<1> QED
  BY <1>1, Invariance, PTL

\* Only the write of a client is a step of its seed, and what it writes is what the
\* client has and one more, unless another write came between (seed.go:182).
THEOREM NoURILost == Spec => SeedsDropNoURI
<1> DEFINE Loss(r) ==
      /\ procs[r].pc = "update" /\ ~procs[r].raced
      /\ procs'[r].pc \in {"seed", "user"}
      => LET c == procs[r].client IN
         clients[c].redirects \cup {SeedURI[c]} \subseteq clients'[c].redirects
<1>1. ASSUME BootInv, Next, NEW r \in Replicas,
             procs[r].pc = "update", ~procs[r].raced, procs'[r].pc \in {"seed", "user"}
      PROVE  LET c == procs[r].client IN
             clients[c].redirects \cup {SeedURI[c]} \subseteq clients'[c].redirects
  <2> DEFINE c == procs[r].client
  <2>1. TypeOK /\ ReadsAreCurrent
    BY <1>1 DEF BootInv
  <2>2. c \in Seeds /\ c \in Clients /\ Exists(c)
    BY <1>1, <2>1, Standing, SeedsAssumption DEF Upserts, ReadsAreCurrent
  <2>3. procs[r].redirects = clients[c].redirects \cup {SeedURI[c]}
    BY <1>1, <2>1 DEF ReadsAreCurrent, unionExact
  <2>4. CASE UpdateSeed(r)
    <3>1. clients[c] \in Row /\ procs[r].redirects \in SUBSET URIs
      BY <1>1, <2>1, <2>2, Rows, Standing DEF TypeOK
    <3>2. clients'[c] = Patched(clients[c], procs[r].redirects, SeedLabel[c])
      BY <2>1, <2>2, <2>4 DEF UpdateSeed, TypeOK, RegistryTypeOK
    <3>3. clients'[c].redirects = procs[r].redirects
      BY <2>2, <3>1, <3>2, PatchedRow, SeedsAssumption
    <3> QED
      BY <2>3, <3>3
  <2>5. CASE procs'[r] = procs[r] \/ procs'[r].pc = "update" \/ procs'[r] = Down
    BY <1>1, <2>5 DEF Down
  <2>6. CASE Administer
    <3>1. procs'[r] = Overtaken(r)
      BY <2>6 DEF Administer
    <3> QED
      BY <2>1, <2>5, <3>1, OvertakenIsMarked
  <2>7. ASSUME NEW p \in Replicas, Boots(p) \/ CheckScriptError(p) \/ SkipOrganization(p) \/ Crash(p)
        PROVE  clients[c].redirects \cup {SeedURI[c]} \subseteq clients'[c].redirects
    <3>1. CASE p = r
      <4>1. UpdateSeed(r) \/ Crash(r)
        <5>1. ~Start(r)
          BY <1>1 DEF Start, Down
        <5>2. ~CheckScript(r) /\ ~CheckScriptError(r) /\ ~RunScript(r) /\ ~RecordVersion(r)
          BY <1>1 DEF CheckScript, CheckScriptError, RunScript, RecordVersion
        <5>3. ~ReadSeed(r) /\ ~CreateSeed(r) /\ ~SeedUser(r)
          BY <1>1 DEF ReadSeed, CreateSeed, SeedUser
        <5>4. ~SeedOrganization(r) /\ ~SkipOrganization(r) /\ ~SeedOwner(r)
          BY <1>1 DEF SeedOrganization, SkipOrganization, SeedOwner
        <5> QED
          BY <2>7, <3>1, <5>1, <5>2, <5>3, <5>4 DEF Boots
      <4>2. CASE Crash(r)
        <5>1. procs'[r] = Down
          BY <2>1, <4>2, Becoming DEF Crash, Exits
        <5> QED
          BY <2>5, <5>1
      <4> QED
        BY <2>4, <4>1, <4>2
    <3>2. CASE p # r
      <4>1. procs'[r] = procs[r] \/ procs'[r] = Overtaken(r)
        <5>1. CASE UpdateSeed(p)
          BY <3>2, <5>1 DEF UpdateSeed
        <5>2. CASE \E x : Becomes(p, x)
          BY <2>1, <3>2, <5>2, Becoming
        <5> QED
          BY <2>7, <5>1, <5>2
          DEF Boots, Start, CheckScript, CheckScriptError, RunScript, RecordVersion, ReadSeed, CreateSeed,
              SeedUser, SeedOrganization, SkipOrganization, SeedOwner, Crash, Exits
      <4> QED
        BY <2>1, <2>5, <4>1, OvertakenIsMarked
    <3> QED
      BY <3>1, <3>2
  <2> QED
    BY <1>1, <2>2, <2>6, <2>7 DEF Next
<1>2. ASSUME UNCHANGED vars, NEW r \in Replicas,
             procs[r].pc = "update", procs'[r].pc \in {"seed", "user"}
      PROVE  FALSE
  BY <1>2 DEF vars
<1>3. BootInv /\ [Next]_vars => [\A r \in Replicas : Loss(r)]_vars
  BY <1>1, <1>2
<1> QED
  BY <1>3, Invariance, PTL DEF Spec, SeedsDropNoURI

=============================================================================
