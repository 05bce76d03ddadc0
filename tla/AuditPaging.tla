----------------------------- MODULE AuditPaging -----------------------------
(***************************************************************************)
(* The audit log and the admin page that lists it, newest event first, a   *)
(* page at a time.  A link to the next page names the last event of this   *)
(* one, its cursor; between two pages handlers append events, and their    *)
(* time is that of the server that made them, taken before they are        *)
(* stored: events come in any order.                                       *)
(*                                                                         *)
(* There are two stores: one is a slice in the memory of the server, which *)
(* is sorted for each page, the other a table, which is queried.           *)
(***************************************************************************)
EXTENDS Naturals, Sequences, FiniteSets

CONSTANTS
  Times,         \* what the clocks of servers show
  Ids,           \* ULIDs, which are ordered
  DefaultLimit,  \* events on a page, when the request does not say
  MaxLimit,      \* most events on a page
  Limits,        \* what requests ask for
  None,          \* no limit, no cursor
  MaxFaults      \* bound: failures of all kinds in one behaviour

ASSUME StampsAssumption == Times \subseteq Nat /\ Ids \subseteq Nat
ASSUME LimitsAssumption ==
  /\ DefaultLimit \in Nat \ {0} /\ MaxLimit \in Nat \ {0}
  /\ Limits \subseteq Nat \cup {None}
ASSUME NoneAssumption == None \notin Nat
ASSUME FaultsAssumption == MaxFaults \in Nat

VARIABLES
  store,   \* "memory" or "postgres"
  events,  \* the log
  after,   \* cursor of the next page of the admin, None when there is no link
  pages,   \* history: the pages the admin has seen since the first one
  before,  \* history: the log when the first page was asked for
  broken,  \* history: a page was refused
  made,    \* history: events ever made
  faults   \* failures so far

walk == <<after, pages, before, broken>>
vars == <<store, events, walk, made, faults>>

Event == [at : Times, id : Ids]

Cursors == Ids \cup {None}

Shown == UNION {pages[i] : i \in DOMAIN pages}

\* Types of the log and of the admin's walk through it.
TypeOK ==
  /\ store \in {"memory", "postgres"}
  /\ events \subseteq made /\ made \subseteq Event /\ IsFiniteSet(made)
  /\ after \in Cursors
  /\ pages \in Seq(SUBSET made)
  /\ before \subseteq made
  /\ broken \in BOOLEAN
  /\ faults \in 0..MaxFaults

Init ==
  /\ store \in {"memory", "postgres"}
  /\ events = {} /\ made = {}
  /\ after = None /\ pages = <<>> /\ before = {} /\ broken = FALSE
  /\ faults = 0

-----------------------------------------------------------------------------
(* ORDER BY at DESC, id DESC *)
Newer(e, f) == e.at > f.at \/ (e.at = f.at /\ e.id > f.id)

(* Number of those that come before e, its place in the sorted list.         *)
Rank(those, e) == Cardinality({f \in those : Newer(f, e)})

(* LIMIT n *)
Top(those, n) == {e \in those : Rank(those, e) < n}

Oldest(those) == CHOOSE e \in those : \A f \in those : f = e \/ Newer(f, e)

Known(cursor) == \E e \in events : e.id = cursor

EventOf(cursor) == CHOOSE e \in events : e.id = cursor

clampAuditLimit(limit) ==
  IF limit = 0 THEN DefaultLimit ELSE IF limit > MaxLimit THEN MaxLimit ELSE limit

Page(items, next) == [items |-> items, next |-> next]

(* Defect: events of the cursor's own time are left out. *)
OlderByTime(cursor) ==
  IF cursor = None THEN events ELSE {e \in events : e.at < EventOf(cursor).at}

(* WHERE (at, id) < (SELECT at, id ... WHERE id = cursor) *)
Older(cursor) ==
  IF cursor = None THEN events ELSE {e \in events : Newer(EventOf(cursor), e)}

(* Defect: the link names the first event that is not on this page. *)
ListTableSkips(limit, cursor) ==
  LET rows == Top(Older(cursor), limit + 1) IN
  IF Cardinality(rows) > limit
    THEN Page(Top(Older(cursor), limit), Oldest(rows).id) ELSE Page(rows, None)

(* One row more than fits tells whether there is a next page.                *)
ListTable(limit, cursor) ==
  LET rows == Top(Older(cursor), limit + 1)
      items == Top(Older(cursor), limit)
  IN  IF Cardinality(rows) > limit THEN Page(items, Oldest(items).id) ELSE Page(rows, None)

(* Defect: the page begins with the event the last one ended with. *)
StartAt(cursor) == IF cursor = None THEN 0 ELSE Rank(events, EventOf(cursor))

(* The place after the cursor in the sorted slice, which begins at 0. *)
Start(cursor) == IF cursor = None THEN 0 ELSE Rank(events, EventOf(cursor)) + 1

(* Defect: a link to an empty page when the last one is full. *)
ListSliceEndless(limit, cursor) ==
  LET start == Start(cursor)  end == start + limit
      items == {e \in events : Rank(events, e) \in start..(end - 1)}
  IN  IF end <= Cardinality(events) /\ items # {}
        THEN Page(items, Oldest(items).id) ELSE Page(items, None)

ListSlice(limit, cursor) ==
  LET start == Start(cursor)  end == start + limit
      items == {e \in events : Rank(events, e) \in start..(end - 1)}
  IN  IF end < Cardinality(events) THEN Page(items, Oldest(items).id) ELSE Page(items, None)

ListAudits(limit, cursor) ==
  IF store = "memory" THEN ListSlice(clampAuditLimit(limit), cursor)
  ELSE ListTable(clampAuditLimit(limit), cursor)

-----------------------------------------------------------------------------
Fault ==
  /\ faults < MaxFaults
  /\ faults' = faults + 1

(* Ids are drawn once, and each event is stored once, if at all. *)
New(e) == e \in Event /\ \A f \in made : f.id # e.id

(* A handler stores an event; one that could not be stored is only logged. *)
AppendAudit(e) ==
  /\ New(e)
  /\ events' = events \cup {e}
  /\ made' = made \cup {e}
  /\ UNCHANGED <<store, walk, faults>>

(* Only the table can refuse it, or store it and not say so. *)
AppendAuditError(e) ==
  /\ store = "postgres"
  /\ New(e)
  /\ Fault
  /\ made' = made \cup {e}
  /\ events' \in {events, events \cup {e}}
  /\ UNCHANGED <<store, walk>>

(* Defect: so does the database. *)
RestartForgets ==
  /\ Fault
  /\ events' = {}
  /\ UNCHANGED <<store, walk, made>>

(* The server restarts; the slice is gone, the page in the browser stays. *)
Restart ==
  /\ Fault
  /\ events' = IF store = "memory" THEN {} ELSE events
  /\ UNCHANGED <<store, walk, made>>

(* What a request may ask for: a limit below 1 is refused.                   *)
LimitOf(asked) == IF asked = None THEN DefaultLimit ELSE asked

(* The list without a cursor: the newest events. *)
ListNewest(asked) ==
  LET page == ListAudits(LimitOf(asked), None) IN
  /\ asked # 0
  /\ pages' = <<page.items>> /\ after' = page.next
  /\ before' = events /\ broken' = FALSE
  /\ UNCHANGED <<store, events, made, faults>>

(* The link to the next page.  A cursor that is not found is an error, and   *)
(* there is no link on it.                                                   *)
ListNext(asked) ==
  LET page == ListAudits(LimitOf(asked), after) IN
  /\ asked # 0
  /\ after # None
  /\ IF Known(after)
       THEN pages' = Append(pages, page.items) /\ after' = page.next /\ UNCHANGED broken
       ELSE after' = None /\ broken' = TRUE /\ UNCHANGED pages
  /\ UNCHANGED <<store, events, before, made, faults>>

Next ==
  \/ \E e \in Event : AppendAudit(e) \/ AppendAuditError(e)
  \/ Restart
  \/ \E asked \in Limits : ListNewest(asked) \/ ListNext(asked)

Spec == Init /\ [][Next]_vars

-----------------------------------------------------------------------------
\* Newest first, over all the pages of a walk and whatever is appended between
\* them, with the times of events out of order or the same: so none is shown twice
\* (ListAudits; the admin UI says so, audits/page.tsx:22).
ShownInOrder ==
  \A i, j \in DOMAIN pages : i < j =>
    \A e \in pages[i], f \in pages[j] : Newer(e, f)

\* The page without a link to a next one ends a walk that has shown every event
\* that was stored when it began, however full the pages were.
WalkShowsAll ==
  pages # <<>> /\ after = None /\ ~broken => before \subseteq Shown

\* A link to a next page works, unless the server has lost its slice meanwhile.
LinksWork == broken => store = "memory" /\ faults > 0

\* The slice and the table give the same page for the same log, cursor and limit,
\* as the tests of both stores expect of a few (storetest/repos.go:212).
StoresAgree ==
  \A limit \in 1..MaxLimit, cursor \in Cursors :
    cursor = None \/ Known(cursor) => ListSlice(limit, cursor) = ListTable(limit, cursor)

-----------------------------------------------------------------------------
IdsApart == \A e, f \in made : e.id = f.id => e = f

(* The cursor is the oldest event shown.  As long as it is in the log, so is *)
(* all the walk has to show, and what has not been shown is older.           *)
CursorIsOldest ==
  after # None =>
    \E c \in Shown :
      /\ c.id = after
      /\ \A e \in Shown : e = c \/ Newer(e, c)
      /\ c \in events => \A e \in before : e \in events /\ (e \in Shown \/ Newer(c, e))
      /\ c \in events \/ (store = "memory" /\ faults > 0)

\* Whatever is appended and fails between pages, the cursor parts what was shown
\* from what was not.
PagingInv ==
  /\ TypeOK
  /\ IdsApart /\ CursorIsOldest
  /\ ShownInOrder /\ WalkShowsAll /\ LinksWork
=============================================================================
