------------------------ MODULE LoginThrottle_proofs ------------------------
(***************************************************************************)
(* Theorems about the limiter of POST /login, for every limit and window,  *)
(* any number of requests, and any number handled at a time.               *)
(***************************************************************************)
EXTENDS LoginThrottle, FiniteSetTheorems, TLAPS

USE RequestsAssumption, LimitAssumption, BoundsAssumption

(* What the types say of a request that is being handled.                  *)
LEMMA BusyTypes ==
  ASSUME TypeOK, NEW q \in Busy
  PROVE  q \in Requests /\ reqs[q] \in Handling /\ <<reqs[q].addr, reqs[q].email>> \in Keys
  BY DEF TypeOK, Busy, Idle, Handling, Answered, Keys

(* A request that goes from one call to the next, or is answered.          *)
LEMMA GoesType ==
  ASSUME TypeOK, NEW q \in Busy,
         NEW pc \in {"verify", "failure", "success", "session", "wrong", "in", "error"},
         Goes(q, pc)
  PROVE  reqs' \in [Requests -> {Idle} \cup Handling \cup Answered]
<1>1. reqs[q] \in Handling /\ q \in Requests
  BY BusyTypes
<1>2. [reqs[q] EXCEPT !.pc = pc] \in Handling \cup Answered
  BY <1>1 DEF Handling, Answered
<1>3. QED
  BY <1>1, <1>2 DEF TypeOK, Goes

(* Every step keeps the types. *)
LEMMA TypeStep == TypeOK /\ [Next]_vars => TypeOK'
<1> SUFFICES ASSUME TypeOK, [Next]_vars PROVE TypeOK'
  OBVIOUS
<1>1. ASSUME NEW q \in Requests, NEW addr \in Addresses, NEW email \in Emails,
             Login(q, addr, email)
      PROVE  TypeOK'
  <2>1. prune(loginKey(addr, email)) \in SUBSET Requests
    BY DEF TypeOK, prune, loginKey, Keys
  <2>2. reqs' \in [Requests -> {Idle} \cup Handling \cup Answered]
    BY <1>1 DEF Login, TypeOK, Handling, Answered
  <2>3. QED
    BY <1>1, <2>1, <2>2 DEF Login, TypeOK
<1>2. ASSUME NEW q \in Requests, Authenticate(q) PROVE TypeOK'
  BY <1>2, GoesType DEF Authenticate, TypeOK, Busy
<1>3. ASSUME NEW q \in Requests, Failure(q) PROVE TypeOK'
  <2>1. q \in Busy
    BY <1>3 DEF Failure, Busy
  <2>2. prune(loginKey(reqs[q].addr, reqs[q].email)) \cup {q} \in SUBSET Requests
    BY <2>1, BusyTypes DEF TypeOK, prune, loginKey
  <2>3. QED
    BY <1>3, <2>1, <2>2, GoesType DEF Failure, TypeOK
<1>4. ASSUME NEW q \in Requests, Success(q) PROVE TypeOK'
  BY <1>4, GoesType DEF Success, TypeOK, Busy
<1>5. ASSUME NEW q \in Requests, StartSession(q) PROVE TypeOK'
  BY <1>5, GoesType DEF StartSession, TypeOK, Busy
<1>6. ASSUME NEW q \in Requests, PutSessionError(q) PROVE TypeOK'
  BY <1>6, GoesType DEF PutSessionError, Fault, TypeOK, Busy
<1>7. ASSUME NEW email \in Emails, SetUserDisabled(email) PROVE TypeOK'
  <2>1. ASSUME NEW q \in Busy PROVE [reqs[q] EXCEPT !.served = TRUE] \in Handling
    BY <2>1, BusyTypes DEF Handling
  <2>2. QED
    BY <1>7, <2>1 DEF SetUserDisabled, TypeOK
<1>8. CASE Tick
  <2>1. ASSUME NEW q \in Requests, reqs[q].pc = "wrong", reqs[q].age < Window
        PROVE  [reqs[q] EXCEPT !.age = @ + 1] \in Answered
    BY <2>1 DEF TypeOK, Idle, Handling, Answered
  <2>2. QED
    BY <1>8, <2>1 DEF Tick, TypeOK
<1>9. ASSUME NEW q \in Requests, Again(q) PROVE TypeOK'
  BY <1>9 DEF Again, TypeOK
<1>10. CASE Restart
  BY <1>10 DEF Restart, Fault, TypeOK
<1>11. CASE UNCHANGED vars
  BY <1>11 DEF vars, TypeOK
<1>12. QED
  BY <1>1, <1>2, <1>3, <1>4, <1>5, <1>6, <1>7, <1>8, <1>9, <1>10, <1>11 DEF Next, Handle

(* Every step keeps a failure in the limiter with its key.                 *)
LEMMA HitsStep == TypeOK /\ HitsAreFailures /\ [Next]_vars => HitsAreFailures'
<1> SUFFICES ASSUME TypeOK, HitsAreFailures, [Next]_vars,
                    NEW k \in Keys, NEW p \in hits'[k]
             PROVE  reqs'[p].pc = "wrong" /\ <<reqs'[p].addr, reqs'[p].email>> = k
  BY DEF HitsAreFailures
<1>1. p \in hits[k] =>
        p \in Requests /\ reqs[p].pc = "wrong" /\ <<reqs[p].addr, reqs[p].email>> = k
  BY DEF HitsAreFailures, TypeOK
<1>2. CASE p \in hits[k] /\ reqs'[p] = reqs[p]
  BY <1>1, <1>2
<1>3. ASSUME NEW q \in Requests, NEW addr \in Addresses, NEW email \in Emails,
             Login(q, addr, email)
      PROVE  reqs'[p].pc = "wrong" /\ <<reqs'[p].addr, reqs'[p].email>> = k
  <2>1. p \in hits[k]
    BY <1>3 DEF Login, TypeOK, prune
  <2>2. p # q
    BY <1>1, <1>3, <2>1 DEF Login, Idle
  <2>3. QED
    BY <1>1, <1>2, <1>3, <2>1, <2>2 DEF Login, TypeOK
<1>4. ASSUME NEW q \in Requests,
             Authenticate(q) \/ Success(q) \/ StartSession(q) \/ PutSessionError(q)
      PROVE  reqs'[p].pc = "wrong" /\ <<reqs'[p].addr, reqs'[p].email>> = k
  <2>1. p \in hits[k]
    BY <1>4 DEF Authenticate, Success, StartSession, PutSessionError, TypeOK, loginKey
  <2>2. p # q
    BY <1>1, <1>4, <2>1 DEF Authenticate, Success, StartSession, PutSessionError
  <2>3. QED
    BY <1>1, <1>2, <1>4, <2>1, <2>2
       DEF Authenticate, Success, StartSession, PutSessionError, Goes, TypeOK
<1>5. ASSUME NEW q \in Requests, Failure(q)
      PROVE  reqs'[p].pc = "wrong" /\ <<reqs'[p].addr, reqs'[p].email>> = k
  <2>1. q \in Busy /\ reqs[q] \in Handling
    BY <1>5, BusyTypes DEF Failure, Busy
  <2>2. CASE p \in hits[k]
    <3>1. p # q
      BY <1>1, <1>5, <2>2 DEF Failure
    <3>2. QED
      BY <1>1, <1>2, <1>5, <2>2, <3>1 DEF Failure, Goes, TypeOK
  <2>3. CASE p \notin hits[k]
    <3>1. p = q /\ k = <<reqs[q].addr, reqs[q].email>>
      BY <1>5, <2>3 DEF Failure, TypeOK, prune, loginKey
    <3>2. reqs'[q] = [reqs[q] EXCEPT !.pc = "wrong"]
      BY <1>5 DEF Failure, Goes, TypeOK
    <3>3. QED
      BY <2>1, <3>1, <3>2 DEF Handling
  <2>4. QED
    BY <2>2, <2>3
<1>6. ASSUME NEW email \in Emails, SetUserDisabled(email)
      PROVE  reqs'[p].pc = "wrong" /\ <<reqs'[p].addr, reqs'[p].email>> = k
  BY <1>1, <1>2, <1>6 DEF SetUserDisabled, Busy
<1>7. CASE Tick
  <2>1. p \in hits[k] /\ reqs[p] \in Answered
    BY <1>1, <1>7 DEF Tick, TypeOK, Idle, Handling
  <2>2. reqs'[p] = reqs[p] \/ reqs'[p] = [reqs[p] EXCEPT !.age = @ + 1]
    BY <1>1, <1>7, <2>1 DEF Tick
  <2>3. QED
    BY <1>1, <2>1, <2>2 DEF Answered
<1>8. ASSUME NEW q \in Requests, Again(q)
      PROVE  reqs'[p].pc = "wrong" /\ <<reqs'[p].addr, reqs'[p].email>> = k
  BY <1>1, <1>2, <1>8 DEF Again, TypeOK
<1>9. CASE Restart
  BY <1>9 DEF Restart
<1>10. CASE UNCHANGED vars
  BY <1>2, <1>10 DEF vars
<1>11. QED
  BY <1>3, <1>4, <1>5, <1>6, <1>7, <1>8, <1>9, <1>10 DEF Next, Handle

-----------------------------------------------------------------------------
(* Where no guess is added, the number of guesses does not grow.           *)
LEMMA FewerGuesses ==
  ASSUME NEW k \in Keys, Guesses(k)' \subseteq Guesses(k),
         Cardinality(Guesses(k)) <= Max - 1 + MaxInFlight
  PROVE  Cardinality(Guesses(k)') <= Max - 1 + MaxInFlight
<1>1. IsFiniteSet(Guesses(k))
  BY FS_Subset DEF Guesses
<1>2. /\ Cardinality(Guesses(k)) \in Nat
      /\ Cardinality(Guesses(k)') \in Nat
      /\ Cardinality(Guesses(k)') <= Cardinality(Guesses(k))
  BY <1>1, FS_Subset, FS_CardinalityType
<1>3. QED
  BY <1>2

(* A guess is let in when the failures of its key are below the limit and  *)
(* there is room for it.                                                   *)
LEMMA OneMoreGuess ==
  ASSUME TypeOK, NEW q \in Requests, NEW k \in Keys, NEW G,
         Cardinality(Busy) < MaxInFlight, ~Limited(k),
         G \subseteq prune(k) \cup (Busy \cup {q})
  PROVE  Cardinality(G) <= Max - 1 + MaxInFlight
<1>1. /\ IsFiniteSet(prune(k)) /\ Cardinality(prune(k)) \in Nat
      /\ IsFiniteSet(Busy) /\ Cardinality(Busy) \in Nat
  <2>1. prune(k) \subseteq Requests /\ Busy \subseteq Requests
    BY DEF TypeOK, prune, Busy
  <2>2. QED
    BY <2>1, FS_Subset, FS_CardinalityType
<1>2. /\ IsFiniteSet(Busy \cup {q}) /\ Cardinality(Busy \cup {q}) \in Nat
      /\ Cardinality(Busy \cup {q}) <= Cardinality(Busy) + 1
  <2>1. /\ IsFiniteSet(Busy \cup {q})
        /\ \/ q \in Busy /\ Cardinality(Busy \cup {q}) = Cardinality(Busy)
           \/ Cardinality(Busy \cup {q}) = Cardinality(Busy) + 1
    BY <1>1, FS_AddElement
  <2>2. QED
    BY <1>1, <2>1
<1>3. Cardinality(prune(k)) <= Max - 1
  BY <1>1 DEF Limited
<1>4. /\ IsFiniteSet(prune(k) \cup (Busy \cup {q}))
      /\ Cardinality(prune(k) \cup (Busy \cup {q}))
           <= Cardinality(prune(k)) + Cardinality(Busy \cup {q})
  <2>1. IsFiniteSet(prune(k) \cap (Busy \cup {q}))
    BY <1>1, FS_Subset
  <2>2. Cardinality(prune(k) \cap (Busy \cup {q})) \in Nat
    BY <2>1, FS_CardinalityType
  <2>3. Cardinality(prune(k) \cup (Busy \cup {q}))
          = Cardinality(prune(k)) + Cardinality(Busy \cup {q})
              - Cardinality(prune(k) \cap (Busy \cup {q}))
    BY <1>1, <1>2, FS_Union
  <2>4. QED
    BY <1>1, <1>2, <2>2, <2>3, FS_Union
<1>5. Cardinality(G) \in Nat /\ Cardinality(G) <= Cardinality(prune(k) \cup (Busy \cup {q}))
  BY <1>4, FS_Subset, FS_CardinalityType
<1>6. Cardinality(prune(k) \cup (Busy \cup {q})) \in Nat
  BY <1>4, FS_CardinalityType
<1>7. QED
  BY <1>1, <1>2, <1>3, <1>4, <1>5, <1>6

(* Every step keeps the guesses on a key within their bound. *)
LEMMA OvershootStep ==
  TypeOK /\ HitsAreFailures /\ OvershootIsBounded /\ [Next]_vars => OvershootIsBounded'
<1> SUFFICES ASSUME TypeOK, HitsAreFailures, OvershootIsBounded, [Next]_vars,
                    NEW k \in Keys
             PROVE  Cardinality(Guesses(k)') <= Max - 1 + MaxInFlight
  BY DEF OvershootIsBounded
<1>1. Guesses(k)' \subseteq Guesses(k) =>
        Cardinality(Guesses(k)') <= Max - 1 + MaxInFlight
  BY FewerGuesses DEF OvershootIsBounded
<1>2. ASSUME NEW q \in Requests, NEW addr \in Addresses, NEW email \in Emails,
             Login(q, addr, email)
      PROVE  Cardinality(Guesses(k)') <= Max - 1 + MaxInFlight
  <2>1. /\ reqs[q] = Idle /\ q \notin Busy
        /\ reqs'[q] = [pc |-> IF Limited(loginKey(addr, email)) THEN "refused" ELSE "verify",
                       addr |-> addr, email |-> email, age |-> 0, served |-> email \in enabled]
        /\ \A p \in Requests \ {q} : reqs'[p] = reqs[p]
    BY <1>2 DEF Login, TypeOK, Busy, Idle
  <2>2. hits'[k] \subseteq hits[k] /\ q \notin hits[k]
    BY <1>2, <2>1 DEF Login, TypeOK, prune, HitsAreFailures, Idle
  <2>3. CASE k = loginKey(addr, email) /\ ~Limited(k)
    <3>1. Guesses(k)' \subseteq prune(k) \cup (Busy \cup {q})
      BY <2>1, <2>2 DEF Guesses, Busy, prune
    <3>2. Cardinality(Busy) < MaxInFlight
      BY <1>2 DEF Login
    <3>3. QED
      BY <2>3, <3>1, <3>2, OneMoreGuess
  <2>4. CASE ~(k = loginKey(addr, email) /\ ~Limited(k))
    <3>1. q \notin Guesses(k)'
      BY <2>1, <2>2, <2>4 DEF Guesses, Busy, loginKey
    <3>2. QED
      BY <1>1, <2>1, <2>2, <3>1 DEF Guesses, Busy
  <2>5. QED
    BY <2>3, <2>4
<1>3. ASSUME NEW q \in Requests, NEW pc \in {"failure", "success", "session", "in", "error"},
             q \in Busy, Goes(q, pc), \A j \in Keys : hits'[j] \subseteq hits[j]
      PROVE  Cardinality(Guesses(k)') <= Max - 1 + MaxInFlight
  <2>1. reqs[q] \in Handling
    BY <1>3, BusyTypes
  <2>2. /\ reqs'[q].addr = reqs[q].addr /\ reqs'[q].email = reqs[q].email
        /\ reqs'[q].age = reqs[q].age /\ reqs'[q].pc = pc
        /\ \A p \in Requests \ {q} : reqs'[p] = reqs[p]
    BY <1>3, <2>1 DEF Goes, TypeOK, Handling
  <2>3. QED
    BY <1>1, <1>3, <2>2 DEF Guesses, Busy
<1>4. ASSUME NEW q \in Requests,
             Authenticate(q) \/ Success(q) \/ StartSession(q) \/ PutSessionError(q)
      PROVE  Cardinality(Guesses(k)') <= Max - 1 + MaxInFlight
  <2>1. q \in Busy /\ \A j \in Keys : hits'[j] \subseteq hits[j]
    BY <1>4 DEF Authenticate, Success, StartSession, PutSessionError, Busy, TypeOK
  <2>2. QED
    BY <1>3, <1>4, <2>1 DEF Authenticate, Success, StartSession, PutSessionError
<1>5. ASSUME NEW q \in Requests, Failure(q)
      PROVE  Cardinality(Guesses(k)') <= Max - 1 + MaxInFlight
  <2>1. q \in Busy /\ reqs[q] \in Handling
    BY <1>5, BusyTypes DEF Failure, Busy
  <2>2. /\ reqs'[q].addr = reqs[q].addr /\ reqs'[q].email = reqs[q].email
        /\ \A p \in Requests \ {q} : reqs'[p] = reqs[p]
    BY <1>5, <2>1 DEF Failure, Goes, TypeOK, Handling
  <2>3. hits'[k] \subseteq hits[k] \cup {q}
    BY <1>5 DEF Failure, TypeOK, prune
  <2>4. QED
    BY <1>1, <2>1, <2>2, <2>3 DEF Guesses, Busy, Handling
<1>6. ASSUME NEW email \in Emails, SetUserDisabled(email)
      PROVE  Cardinality(Guesses(k)') <= Max - 1 + MaxInFlight
  <2>1. ASSUME NEW p \in Requests
        PROVE  /\ reqs'[p].pc = reqs[p].pc
               /\ reqs[p] # Idle => /\ reqs'[p].addr = reqs[p].addr
                                    /\ reqs'[p].email = reqs[p].email
                                    /\ reqs'[p].age = reqs[p].age
    BY <1>6, BusyTypes DEF SetUserDisabled, Handling
  <2>2. QED
    BY <1>1, <1>6, <2>1 DEF SetUserDisabled, Guesses, Busy, Idle
<1>7. CASE Tick
  <2>1. ASSUME NEW p \in Requests
        PROVE  \/ reqs'[p] = reqs[p]
               \/ /\ reqs[p] \in Answered
                  /\ reqs'[p] = [reqs[p] EXCEPT !.age = @ + 1]
    BY <1>7 DEF Tick, TypeOK, Idle, Handling
  <2>2. ASSUME NEW p \in Requests, reqs'[p] # reqs[p]
        PROVE  /\ reqs'[p].pc = reqs[p].pc /\ reqs'[p].addr = reqs[p].addr
               /\ reqs'[p].email = reqs[p].email /\ reqs[p].age \in Nat
               /\ reqs'[p].age = reqs[p].age + 1
    <3>1. reqs[p] \in Answered /\ reqs'[p] = [reqs[p] EXCEPT !.age = @ + 1]
      BY <2>1, <2>2
    <3>2. reqs[p].age \in 0..Window
      BY <3>1 DEF Answered
    <3>3. QED
      BY <3>1, <3>2 DEF Answered
  <2>3. ASSUME NEW p \in Requests, reqs'[p].age < Window, reqs'[p] # reqs[p]
        PROVE  reqs[p].age < Window
    BY <2>2, <2>3
  <2>4. QED
    BY <1>1, <1>7, <2>2, <2>3 DEF Tick, Guesses, Busy
<1>8. ASSUME NEW q \in Requests, Again(q)
      PROVE  Cardinality(Guesses(k)') <= Max - 1 + MaxInFlight
  BY <1>1, <1>8 DEF Again, TypeOK, Guesses, Busy, Idle
<1>9. CASE Restart
  <2>1. \A p \in Requests : reqs'[p].pc \notin {"verify", "failure", "success", "session"}
    BY <1>9 DEF Restart, Busy, Idle
  <2>2. Guesses(k)' \subseteq {}
    BY <1>9, <2>1 DEF Restart, Guesses, Busy
  <2>3. QED
    BY <1>1, <2>2
<1>10. CASE UNCHANGED vars
  BY <1>1, <1>10 DEF vars, Guesses, Busy
<1>11. QED
  BY <1>2, <1>4, <1>5, <1>6, <1>7, <1>8, <1>9, <1>10 DEF Next, Handle

(* In the beginning nobody has guessed. *)
LEMMA InitInv == Init => ThrottleInv
<1> SUFFICES ASSUME Init PROVE ThrottleInv
  OBVIOUS
<1>1. TypeOK /\ HitsAreFailures
  BY DEF Init, TypeOK, HitsAreFailures
<1>2. ASSUME NEW k \in Keys PROVE Cardinality(Guesses(k)) <= Max - 1 + MaxInFlight
  <2>1. Guesses(k) = {}
    BY DEF Init, Guesses, Idle
  <2>2. QED
    BY <2>1, FS_EmptySet
<1>3. QED
  BY <1>1, <1>2 DEF ThrottleInv, OvershootIsBounded

-----------------------------------------------------------------------------
(* However the requests of an address for an account overlap (the handler   *)
(* asks the limiter before the password is verified and reports to it       *)
(* after), the failures counted in a window stay within the limit and the   *)
(* other requests handled at a time.                                        *)
THEOREM ThrottleInvariant == Spec => []ThrottleInv
<1>1. ThrottleInv /\ [Next]_vars => ThrottleInv'
  BY TypeStep, HitsStep, OvershootStep DEF ThrottleInv
<1>2. QED
  BY InitInv, <1>1, PTL DEF Spec

(* While its password is verified, a request for an enabled account has     *)
(* seen it enabled; what Authenticate needs.                                *)
ServedWhileEnabled ==
  \A q \in Busy : reqs[q].email \in enabled => reqs[q].served

ServedInv == ServedWhileEnabled /\ DisabledIsKeptOut

LEMMA ServedStep == TypeOK /\ ServedInv /\ [Next]_vars => ServedInv'
<1> SUFFICES ASSUME TypeOK, ServedInv, [Next]_vars PROVE ServedInv'
  OBVIOUS
<1> DEFINE Fine(p) == /\ p \in Busy' /\ reqs'[p].email \in enabled' => reqs'[p].served
                      /\ reqs'[p].pc \in {"success", "session", "in"} => reqs'[p].served
<1>1. SUFFICES ASSUME NEW p \in Requests PROVE Fine(p)
  BY DEF ServedInv, ServedWhileEnabled, DisabledIsKeptOut, Busy
<1>2. CASE reqs'[p] = reqs[p] /\ enabled' = enabled
  BY <1>2 DEF ServedInv, ServedWhileEnabled, DisabledIsKeptOut, Busy
<1>3. ASSUME NEW q \in Requests, NEW addr \in Addresses, NEW email \in Emails,
             Login(q, addr, email)
      PROVE  Fine(p)
  <2>1. CASE p = q
    BY <1>3, <2>1 DEF Login, TypeOK
  <2>2. CASE p # q
    BY <1>2, <1>3, <2>2 DEF Login, TypeOK
  <2>3. QED
    BY <2>1, <2>2
<1>4. ASSUME NEW q \in Requests, NEW pc \in {"failure", "success", "session", "wrong", "in", "error"},
             q \in Busy, Goes(q, pc), enabled' = enabled,
             pc \in {"success", "session", "in"} => reqs[q].served
      PROVE  Fine(p)
  <2>1. CASE p = q
    <3>1. reqs'[q] = [reqs[q] EXCEPT !.pc = pc] /\ reqs[q] \in Handling
      BY <1>4, BusyTypes DEF Goes, TypeOK
    <3>2. /\ reqs'[q].pc = pc /\ reqs'[q].email = reqs[q].email
          /\ reqs'[q].served = reqs[q].served
      BY <3>1 DEF Handling
    <3>3. QED
      BY <1>4, <2>1, <3>2 DEF ServedInv, ServedWhileEnabled
  <2>2. CASE p # q
    BY <1>2, <1>4, <2>2 DEF Goes, TypeOK
  <2>3. QED
    BY <2>1, <2>2
<1>5. ASSUME NEW q \in Requests, Handle(q) PROVE Fine(p)
  <2>1. q \in Busy /\ enabled' = enabled
    BY <1>5 DEF Handle, Authenticate, Failure, Success, StartSession, PutSessionError, Busy
  <2>2. reqs[q].pc \in {"success", "session"} => reqs[q].served
    BY DEF ServedInv, DisabledIsKeptOut
  <2>3. reqs[q].email \in enabled => reqs[q].served
    BY <2>1 DEF ServedInv, ServedWhileEnabled
  <2>4. QED
    BY <1>4, <1>5, <2>1, <2>2, <2>3
       DEF Handle, Authenticate, Failure, Success, StartSession, PutSessionError
<1>6. ASSUME NEW email \in Emails, SetUserDisabled(email) PROVE Fine(p)
  <2>1. CASE p \in Busy /\ reqs[p].email = email /\ email \notin enabled
    <3>1. reqs'[p] = [reqs[p] EXCEPT !.served = TRUE] /\ reqs[p] \in Handling
      BY <1>6, <2>1, BusyTypes DEF SetUserDisabled
    <3>2. QED
      BY <3>1 DEF Handling
  <2>2. CASE ~(p \in Busy /\ reqs[p].email = email /\ email \notin enabled)
    <3>1. reqs'[p] = reqs[p]
      BY <1>6, <2>2 DEF SetUserDisabled
    <3>2. p \in Busy /\ reqs[p].email \in enabled' => reqs[p].email \in enabled
      BY <1>6, <2>2 DEF SetUserDisabled
    <3>3. QED
      BY <3>1, <3>2 DEF ServedInv, ServedWhileEnabled, DisabledIsKeptOut, Busy
  <2>3. QED
    BY <2>1, <2>2
<1>7. CASE Tick
  <2>1. CASE reqs'[p] # reqs[p]
    <3>1. reqs[p] \in Answered /\ reqs[p].pc = "wrong"
          /\ reqs'[p] = [reqs[p] EXCEPT !.age = @ + 1]
      BY <1>7, <2>1 DEF Tick, TypeOK, Idle, Handling
    <3>2. reqs'[p].pc = "wrong"
      BY <3>1 DEF Answered
    <3>3. QED
      BY <3>2 DEF Busy
  <2>2. QED
    BY <1>2, <1>7, <2>1 DEF Tick
<1>8. ASSUME NEW q \in Requests, Again(q) PROVE Fine(p)
  BY <1>2, <1>8 DEF Again, TypeOK, Busy, Idle
<1>9. CASE Restart
  BY <1>2, <1>9 DEF Restart, Busy, Idle
<1>10. CASE UNCHANGED vars
  BY <1>2, <1>10 DEF vars
<1>11. QED
  BY <1>3, <1>5, <1>6, <1>7, <1>8, <1>9, <1>10 DEF Next

(* An account that is disabled before a login begins never gets a session   *)
(* from it, whatever an admin does meanwhile.                               *)
THEOREM DisabledStaysOut == Spec => []DisabledIsKeptOut
<1>1. Init => ServedInv
  BY DEF Init, ServedInv, ServedWhileEnabled, DisabledIsKeptOut, Busy, Idle
<1>2. ThrottleInv /\ ServedInv /\ [Next]_vars => ServedInv'
  BY ServedStep DEF ThrottleInv
<1>3. ServedInv => DisabledIsKeptOut
  BY DEF ServedInv
<1>4. QED
  BY <1>1, <1>2, <1>3, ThrottleInvariant, PTL DEF Spec

-----------------------------------------------------------------------------
(* Nothing but the limiter, asked at the start of a login, refuses one.    *)
LEMMA OnlyLoginRefuses ==
  ASSUME TypeOK, [Next]_vars, NEW q \in Requests,
         reqs[q].pc # "refused", reqs'[q].pc = "refused"
  PROVE  \E addr \in Addresses, email \in Emails : Login(q, addr, email)
<1>1. ASSUME NEW p \in Requests, NEW pc \in {"failure", "success", "session", "wrong", "in", "error"},
             p \in Busy, Goes(p, pc)
      PROVE  FALSE
  <2>1. reqs'[p] = [reqs[p] EXCEPT !.pc = pc] /\ reqs[p] \in Handling
    BY <1>1, BusyTypes DEF Goes, TypeOK
  <2>2. reqs'[p].pc = pc
    BY <2>1 DEF Handling
  <2>3. QED
    BY <1>1, <2>2 DEF Goes, TypeOK
<1>2. ASSUME NEW p \in Requests, Handle(p) PROVE FALSE
  <2>1. p \in Busy
    BY <1>2 DEF Handle, Authenticate, Failure, Success, StartSession, PutSessionError, Busy
  <2>2. QED
    BY <1>1, <1>2, <2>1
       DEF Handle, Authenticate, Failure, Success, StartSession, PutSessionError
<1>3. ASSUME NEW p \in Requests, Again(p) PROVE FALSE
  BY <1>3 DEF Again, TypeOK, Idle
<1>4. ASSUME NEW email \in Emails, SetUserDisabled(email) PROVE FALSE
  <2>1. reqs'[q] = [reqs[q] EXCEPT !.served = TRUE] /\ reqs[q] \in Handling
    BY <1>4, BusyTypes DEF SetUserDisabled
  <2>2. QED
    BY <2>1 DEF Handling
<1>5. CASE Tick
  <2>1. reqs[q] \in Answered /\ reqs'[q] = [reqs[q] EXCEPT !.age = @ + 1]
    BY <1>5 DEF Tick, TypeOK, Idle, Handling
  <2>2. QED
    BY <2>1 DEF Answered
<1>6. CASE Restart
  BY <1>6 DEF Restart, Idle
<1>7. ASSUME NEW p \in Requests, NEW addr \in Addresses, NEW email \in Emails, Login(p, addr, email)
      PROVE  p = q
  BY <1>7 DEF Login, TypeOK
<1>8. QED
  BY <1>2, <1>3, <1>4, <1>5, <1>6, <1>7 DEF Next, vars

(* Whoever is refused is refused for wrong answers to that address and      *)
(* e-mail within the window: what the limiter counts is what failed.        *)
LEMMA RefusedStep ==
  ASSUME TypeOK, HitsAreFailures, [Next]_vars, NEW q \in Requests,
         reqs[q].pc # "refused", reqs'[q].pc = "refused"
  PROVE  Cardinality({p \in Requests : /\ reqs[p].pc = "wrong" /\ reqs[p].age < Window
                                       /\ reqs[p].addr = reqs'[q].addr
                                       /\ reqs[p].email = reqs'[q].email}) >= Max
<1> DEFINE Own(addr, email) ==
      {p \in Requests : /\ reqs[p].pc = "wrong" /\ reqs[p].age < Window
                        /\ reqs[p].addr = addr /\ reqs[p].email = email}
<1>1. PICK addr \in Addresses, email \in Emails : Login(q, addr, email)
  BY OnlyLoginRefuses
<1>2. /\ reqs'[q].addr = addr /\ reqs'[q].email = email
      /\ Limited(loginKey(addr, email))
  BY <1>1 DEF Login, TypeOK
<1>3. prune(loginKey(addr, email)) \subseteq Own(addr, email)
  BY DEF prune, loginKey, Keys, HitsAreFailures, TypeOK
<1>4. IsFiniteSet(Own(addr, email))
  BY FS_Subset
<1>5. /\ Cardinality(prune(loginKey(addr, email))) \in Nat
      /\ Cardinality(Own(addr, email)) \in Nat
      /\ Cardinality(prune(loginKey(addr, email))) <= Cardinality(Own(addr, email))
  BY <1>3, <1>4, FS_Subset, FS_CardinalityType
<1>6. Cardinality(Own(addr, email)) >= Max
  BY <1>2, <1>5 DEF Limited
<1>7. QED
  BY <1>2, <1>6

(* A request is refused only for failures of its own address and e-mail      *)
(* within the window (limiter.go: one attacker cannot freeze every account). *)
THEOREM RefusedForOwn == Spec => RefusedForOwnFailures
<1>1. ThrottleInv /\ [Next]_vars =>
        \A q \in Requests : reqs[q].pc # "refused" /\ reqs'[q].pc = "refused" =>
          Cardinality({p \in Requests : /\ reqs[p].pc = "wrong" /\ reqs[p].age < Window
                                        /\ reqs[p].addr = reqs'[q].addr
                                        /\ reqs[p].email = reqs'[q].email}) >= Max
  BY RefusedStep DEF ThrottleInv
<1>2. QED
  BY <1>1, ThrottleInvariant, PTL DEF Spec, RefusedForOwnFailures
=============================================================================
