---------------------------- MODULE LoginThrottle ----------------------------
(***************************************************************************)
(* POST /login and the limiter that slows password guessing.  A request    *)
(* asks the limiter, then verifies the password, then reports a failure or *)
(* a success to the limiter: the limiter has a mutex, the handler has none *)
(* and requests for the same address and e-mail overlap.  Meanwhile time   *)
(* passes, an admin disables and enables accounts, and the process, which  *)
(* has the failures in memory, restarts.                                   *)
(*                                                                         *)
(* A failure is named by the request that failed and has an age, counted   *)
(* up to Window, from which on it is too old to matter.                    *)
(***************************************************************************)
EXTENDS Naturals, FiniteSets

CONSTANTS
  Requests,     \* login requests; one whose failure is forgotten may come again
  Addresses,    \* client addresses
  Emails,       \* one account each
  Max,          \* failures allowed inside a window
  Window,       \* length of the window, in ticks
  MaxInFlight,  \* bound: requests handled at a time
  MaxFaults     \* bound: sessions that cannot be stored, and restarts

ASSUME RequestsAssumption == IsFiniteSet(Requests)
ASSUME LimitAssumption == Max \in Nat \ {0} /\ Window \in Nat \ {0}
ASSUME BoundsAssumption == MaxInFlight \in Nat \ {0} /\ MaxFaults \in Nat

VARIABLES
  hits,     \* the limiter's failures, by key
  reqs,     \* requests in flight and answered
  enabled,  \* column disabled of the users, negated
  faults    \* failures so far

vars == <<hits, reqs, enabled, faults>>

Keys == Addresses \X Emails

Idle == [pc |-> "idle"]
\* age: ticks since the failure; served is history: the account was enabled at
\* some moment since the request came in.
Handling == [pc : {"verify", "failure", "success", "session"},
             addr : Addresses, email : Emails, age : {0}, served : BOOLEAN]
Answered == [pc : {"refused", "wrong", "in", "error"},
             addr : Addresses, email : Emails, age : 0..Window, served : BOOLEAN]

\* Types of the limiter, the requests and the accounts.
TypeOK ==
  /\ hits \in [Keys -> SUBSET Requests]
  /\ reqs \in [Requests -> {Idle} \cup Handling \cup Answered]
  /\ enabled \subseteq Emails
  /\ faults \in 0..MaxFaults

Init ==
  /\ hits = [k \in Keys |-> {}]
  /\ reqs = [q \in Requests |-> Idle]
  /\ enabled = Emails
  /\ faults = 0

-----------------------------------------------------------------------------
Goes(q, pc) == reqs' = [reqs EXCEPT ![q].pc = pc]

Fault ==
  /\ faults < MaxFaults
  /\ faults' = faults + 1

Busy == {q \in Requests : reqs[q].pc \in {"verify", "failure", "success", "session"}}

(* Defect: the address of the client does not count. *)
LoginKeyOfEmail(addr, email) == <<CHOOSE a \in Addresses : TRUE, email>>

loginKey(addr, email) == <<addr, email>>

(* Defect: failures never grow old. *)
PruneNothing(k) == hits[k]

(* The failures inside the window that ends now. *)
prune(k) == {q \in hits[k] : reqs[q].age < Window}

(* Defect: one failure too many. *)
LimitedOffByOne(k) == Cardinality(prune(k)) > Max

Limited(k) == Cardinality(prune(k)) >= Max

-----------------------------------------------------------------------------
Login(q, addr, email) ==
  LET k == loginKey(addr, email) IN
  /\ reqs[q] = Idle
  /\ Cardinality(Busy) < MaxInFlight
  /\ hits' = [hits EXCEPT ![k] = prune(k)]
  /\ reqs' = [reqs EXCEPT ![q] =
       [pc |-> IF Limited(k) THEN "refused" ELSE "verify",
        addr |-> addr, email |-> email, age |-> 0, served |-> email \in enabled]]
  /\ UNCHANGED <<enabled, faults>>

(* Defect: the password is verified and the account not looked at. *)
AuthenticatePasswordOnly(q) ==
  /\ reqs[q].pc = "verify"
  /\ Goes(q, "success") \/ Goes(q, "failure")
  /\ UNCHANGED <<hits, enabled, faults>>

(* A failure is a wrong password, an account that is disabled, or one that   *)
(* cannot be read just now.                                                  *)
Authenticate(q) ==
  /\ reqs[q].pc = "verify"
  /\ (reqs[q].email \in enabled /\ Goes(q, "success")) \/ Goes(q, "failure")
  /\ UNCHANGED <<hits, enabled, faults>>

Failure(q) ==
  LET k == loginKey(reqs[q].addr, reqs[q].email) IN
  /\ reqs[q].pc = "failure"
  /\ hits' = [hits EXCEPT ![k] = prune(k) \cup {q}]
  /\ Goes(q, "wrong")
  /\ UNCHANGED <<enabled, faults>>

Success(q) ==
  /\ reqs[q].pc = "success"
  /\ hits' = [hits EXCEPT ![loginKey(reqs[q].addr, reqs[q].email)] = {}]
  /\ Goes(q, "session")
  /\ UNCHANGED <<enabled, faults>>

StartSession(q) ==
  /\ reqs[q].pc = "session"
  /\ Goes(q, "in")
  /\ UNCHANGED <<hits, enabled, faults>>

-----------------------------------------------------------------------------
(* An admin disables the account, or enables it. *)
SetUserDisabled(email) ==
  /\ enabled' = IF email \in enabled THEN enabled \ {email} ELSE enabled \cup {email}
  /\ reqs' = [q \in Requests |->
       IF q \in Busy /\ reqs[q].email = email /\ email \notin enabled
         THEN [reqs[q] EXCEPT !.served = TRUE] ELSE reqs[q]]
  /\ UNCHANGED <<hits, faults>>

Tick ==
  /\ reqs' = [q \in Requests |->
       IF reqs[q].pc = "wrong" /\ reqs[q].age < Window
         THEN [reqs[q] EXCEPT !.age = @ + 1] ELSE reqs[q]]
  /\ UNCHANGED <<hits, enabled, faults>>

(* The request is answered, and no failure of it is kept: another may come. *)
Again(q) ==
  /\ reqs[q].pc \in {"refused", "wrong", "in", "error"}
  /\ \A k \in Keys : q \notin hits[k]
  /\ reqs' = [reqs EXCEPT ![q] = Idle]
  /\ UNCHANGED <<hits, enabled, faults>>

PutSessionError(q) ==
  /\ reqs[q].pc = "session"
  /\ Fault
  /\ Goes(q, "error")
  /\ UNCHANGED <<hits, enabled>>

Restart ==
  /\ Fault
  /\ hits' = [k \in Keys |-> {}]
  /\ reqs' = [q \in Requests |-> IF q \in Busy THEN Idle ELSE reqs[q]]
  /\ UNCHANGED enabled

-----------------------------------------------------------------------------
Handle(q) ==
  \/ Authenticate(q) \/ Failure(q) \/ Success(q) \/ StartSession(q)
  \/ PutSessionError(q)

Next ==
  \/ \E q \in Requests :
        \/ \E addr \in Addresses, email \in Emails : Login(q, addr, email)
        \/ Handle(q) \/ Again(q)
  \/ \E email \in Emails : SetUserDisabled(email)
  \/ Tick \/ Restart

Spec == Init /\ [][Next]_vars

\* Handlers run to their end and the clock goes on.
FairSpec == Spec /\ WF_vars(Tick) /\ \A q \in Requests : WF_vars(Handle(q))

-----------------------------------------------------------------------------
\* The failures kept are those of wrong answers to their key.
HitsAreFailures ==
  \A k \in Keys : \A q \in hits[k] :
    reqs[q].pc = "wrong" /\ <<reqs[q].addr, reqs[q].email>> = k

\* Passwords that failed on a key within the window, or may be about to.
Guesses(k) ==
  {q \in Requests : /\ reqs[q].pc # "idle" /\ <<reqs[q].addr, reqs[q].email>> = k
                    /\ \/ q \in hits[k] /\ reqs[q].age < Window
                       \/ q \in Busy}

\* However requests overlap, the failures counted on a key within a window,
\* with those still under way, exceed the limit by no more than the other
\* requests handled at a time: a guess is let in only below the limit
\* (handleLogin, Limited, Failure).
OvershootIsBounded ==
  \A k \in Keys : Cardinality(Guesses(k)) <= Max - 1 + MaxInFlight

\* The inductive invariant behind it.
ThrottleInv == TypeOK /\ HitsAreFailures /\ OvershootIsBounded

\* A request is refused only for failures of its own address and e-mail within
\* the window: "one attacker cannot freeze every account" (limiter.go:2).
RefusedForOwnFailures ==
  [][\A q \in Requests : reqs[q].pc # "refused" /\ reqs'[q].pc = "refused" =>
       Cardinality({p \in Requests : /\ reqs[p].pc = "wrong" /\ reqs[p].age < Window
                                     /\ reqs[p].addr = reqs'[q].addr
                                     /\ reqs[p].email = reqs'[q].email}) >= Max]_vars

\* Who logs in has an account that was enabled at some moment of the login
\* (Authenticate): one disabled before it never gets a session.
DisabledIsKeptOut ==
  \A q \in Requests : reqs[q].pc \in {"success", "session", "in"} => reqs[q].served

\* No key is limited for ever, whoever keeps guessing: "without locking a user
\* out forever" (limiter.go:1).
NobodyIsLockedOut == \A k \in Keys : []<>~Limited(k)
=============================================================================
