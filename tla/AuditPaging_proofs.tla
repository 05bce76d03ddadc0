------------------------- MODULE AuditPaging_proofs -------------------------
(***************************************************************************)
(* Theorems about AuditPaging: what the two stores answer, which is the    *)
(* same, and what a walk through the pages shows.                          *)
(***************************************************************************)
EXTENDS AuditPaging, FiniteSetTheorems, TLAPS

-----------------------------------------------------------------------------
(* The order of events.                                                    *)

\* Newer is a strict and total order.
LEMMA NewerOrders ==
  ASSUME NEW e \in Event, NEW f \in Event, NEW g \in Event
  PROVE  /\ ~Newer(e, e)
         /\ ~(Newer(e, f) /\ Newer(f, e))
         /\ Newer(e, f) /\ Newer(f, g) => Newer(e, g)
         /\ e = f \/ Newer(e, f) \/ Newer(f, e)
<1>1. e.at \in Nat /\ e.id \in Nat /\ f.at \in Nat /\ f.id \in Nat /\ g.at \in Nat /\ g.id \in Nat
  BY StampsAssumption DEF Event
<1>2. e.at = f.at /\ e.id = f.id => e = f
  BY DEF Event
<1> QED
  BY <1>1, <1>2 DEF Newer

\* There is a newest event among finitely many.
LEMMA NewestThere ==
  ASSUME NEW S \in SUBSET Event, IsFiniteSet(S), S # {}
  PROVE  \E e \in S : \A f \in S : ~Newer(f, e)
<1> DEFINE Before(e) == {f \in S : Newer(f, e)}
           T == {Before(e) : e \in S}
<1>1. IsWellFoundedOn(StrictSubsetOrdering(S), SUBSET S)
  BY FS_StrictSubsetOrderingWellFounded, FS_FiniteSubsetsOfFinite
<1>2. T \subseteq SUBSET S /\ T # {}
  OBVIOUS
<1>3. PICK x \in T : \A y \in T : <<y, x>> \notin StrictSubsetOrdering(S)
  BY <1>1, <1>2, WFMin
<1>4. PICK e \in S : x = Before(e)
  BY <1>3
<1>5. ASSUME NEW f \in S, Newer(f, e) PROVE FALSE
  <2>1. Before(f) \subseteq Before(e)
    BY <1>5, NewerOrders
  <2>2. f \in Before(e) /\ f \notin Before(f)
    BY <1>5, NewerOrders
  <2>3. <<Before(f), Before(e)>> \in StrictSubsetOrdering(S)
    BY <2>1, <2>2 DEF StrictSubsetOrdering
  <2> QED
    BY <1>3, <1>4, <2>3
<1> QED
  BY <1>5

\* And an oldest one, which is where a page ends.
LEMMA OldestThere ==
  ASSUME NEW S \in SUBSET Event, IsFiniteSet(S), S # {}
  PROVE  Oldest(S) \in S /\ \A f \in S : f = Oldest(S) \/ Newer(f, Oldest(S))
<1> DEFINE After(e) == {f \in S : Newer(e, f)}
           T == {After(e) : e \in S}
<1>1. IsWellFoundedOn(StrictSubsetOrdering(S), SUBSET S)
  BY FS_StrictSubsetOrderingWellFounded, FS_FiniteSubsetsOfFinite
<1>2. T \subseteq SUBSET S /\ T # {}
  OBVIOUS
<1>3. PICK x \in T : \A y \in T : <<y, x>> \notin StrictSubsetOrdering(S)
  BY <1>1, <1>2, WFMin
<1>4. PICK e \in S : x = After(e)
  BY <1>3
<1>5. ASSUME NEW f \in S, Newer(e, f) PROVE FALSE
  <2>1. After(f) \subseteq After(e)
    BY <1>5, NewerOrders
  <2>2. f \in After(e) /\ f \notin After(f)
    BY <1>5, NewerOrders
  <2>3. <<After(f), After(e)>> \in StrictSubsetOrdering(S)
    BY <2>1, <2>2 DEF StrictSubsetOrdering
  <2> QED
    BY <1>3, <1>4, <2>3
<1>6. \A f \in S : f = e \/ Newer(f, e)
  BY <1>5, NewerOrders
<1> QED
  BY <1>6 DEF Oldest

-----------------------------------------------------------------------------
(* Ranks.                                                                  *)

\* The place of an event in the sorted list.
LEMMA Ranks ==
  ASSUME NEW S \in SUBSET Event, IsFiniteSet(S), NEW e \in Event
  PROVE  /\ Rank(S, e) \in Nat /\ Cardinality(S) \in Nat
         /\ e \in S => Rank(S, e) < Cardinality(S)
         /\ \A f \in S : Newer(f, e) => Rank(S, f) < Rank(S, e)
<1> DEFINE Before(f) == {g \in S : Newer(g, f)}
<1>1. \A f : IsFiniteSet(Before(f)) /\ Cardinality(Before(f)) \in Nat
  BY FS_Subset, FS_CardinalityType
<1>2. Cardinality(S) \in Nat
  BY FS_CardinalityType
<1>3. ASSUME NEW f \in S, NEW U \in SUBSET S, f \in U, Before(f) \subseteq U
      PROVE  Cardinality(Before(f)) < Cardinality(U)
  <2>1. IsFiniteSet(U) /\ Cardinality(U) \in Nat
    BY <1>3, FS_Subset, FS_CardinalityType
  <2>2. Cardinality(Before(f)) <= Cardinality(U)
    BY <1>3, <2>1, FS_Subset
  <2>3. f \notin Before(f)
    BY NewerOrders
  <2>4. Before(f) # U
    BY <1>3, <2>3
  <2>5. Cardinality(Before(f)) # Cardinality(U)
    BY <1>3, <2>1, <2>4, FS_Subset
  <2> QED
    BY <1>1, <2>1, <2>2, <2>5
<1>4. e \in S => Cardinality(Before(e)) < Cardinality(S)
  BY <1>3
<1>5. ASSUME NEW f \in S, Newer(f, e) PROVE Cardinality(Before(f)) < Cardinality(Before(e))
  <2>1. Before(f) \subseteq Before(e) /\ f \in Before(e)
    BY <1>5, NewerOrders
  <2> QED
    BY <1>3, <2>1
<1> QED
  BY <1>1, <1>2, <1>4, <1>5 DEF Rank

\* A query that gets fewer rows than it may has got all there are.
LEMMA TopIsAll ==
  ASSUME NEW S \in SUBSET Event, IsFiniteSet(S), NEW n \in Nat, Cardinality(Top(S, n)) < n
  PROVE  Top(S, n) = S
<1> SUFFICES ASSUME S \ Top(S, n) # {} PROVE FALSE
  BY DEF Top
<1>1. PICK e \in S \ Top(S, n) : \A f \in S \ Top(S, n) : ~Newer(f, e)
  BY NewestThere, FS_Subset
<1>2. {f \in S : Newer(f, e)} \in SUBSET Top(S, n)
  BY <1>1
<1>3. IsFiniteSet(Top(S, n)) /\ Cardinality(Top(S, n)) \in Nat
  BY FS_Subset, FS_CardinalityType DEF Top
<1>4. Rank(S, e) <= Cardinality(Top(S, n))
  BY <1>2, <1>3, FS_Subset DEF Rank
<1>5. Rank(S, e) < n
  BY <1>3, <1>4, Ranks
<1> QED
  BY <1>1, <1>5 DEF Top

\* The newest rows: whatever is newer than one of them is one.
LEMMA TopCloses ==
  ASSUME NEW S \in SUBSET Event, IsFiniteSet(S), NEW n \in Nat,
         NEW e \in Top(S, n), NEW f \in S, Newer(f, e)
  PROVE  f \in Top(S, n)
<1>1. Rank(S, f) < Rank(S, e) /\ Rank(S, f) \in Nat /\ Rank(S, e) \in Nat
  BY Ranks DEF Top
<1> QED
  BY <1>1 DEF Top

\* One row more than fits is there when more are.
LEMMA OneRowMore ==
  ASSUME NEW S \in SUBSET Event, IsFiniteSet(S), NEW n \in Nat
  PROVE  /\ Cardinality(Top(S, n + 1)) > n <=> Cardinality(S) > n
         /\ Cardinality(Top(S, n + 1)) <= n => Top(S, n + 1) = S /\ Top(S, n) = S
<1>1. Top(S, n + 1) \in SUBSET S /\ Cardinality(S) \in Nat
  BY FS_CardinalityType DEF Top
<1>2. Cardinality(Top(S, n + 1)) \in Nat /\ Cardinality(Top(S, n + 1)) <= Cardinality(S)
  BY <1>1, FS_Subset, FS_CardinalityType
<1>3. Cardinality(Top(S, n + 1)) <= n => Top(S, n + 1) = S
  BY <1>2, TopIsAll
<1>4. Cardinality(S) <= n => Top(S, n) = S
  BY <1>1, Ranks DEF Top
<1> QED
  BY <1>1, <1>2, <1>3, <1>4

-----------------------------------------------------------------------------
(* What the stores answer.                                                 *)

(* A log of finitely many events with an id each, and a cursor in it.        *)
Log == events \in SUBSET Event /\ IsFiniteSet(events) /\ \A e, f \in events : e.id = f.id => e = f

Found(cursor) == cursor = None \/ Known(cursor)

(* The page has the newest of those, and its link, if any, parts it from the *)
(* others.                                                                   *)
Parts(page, those) ==
  /\ page.items \subseteq those
  /\ page.next = None => page.items = those
  /\ page.next # None =>
       \E n \in page.items :
         /\ n.id = page.next
         /\ \A e \in page.items : e = n \/ Newer(e, n)
         /\ \A e \in those : e \in page.items \/ Newer(n, e)

\* The event of a cursor.
LEMMA Cursor ==
  ASSUME Log, NEW cursor, Known(cursor)
  PROVE  /\ EventOf(cursor) \in events /\ EventOf(cursor).id = cursor
         /\ \A e \in events : e.id = cursor => e = EventOf(cursor)
BY DEF Log, Known, EventOf

\* What is older than the cursor is in the log.
LEMMA OlderInLog ==
  ASSUME Log, NEW cursor, Found(cursor)
  PROVE  Older(cursor) \in SUBSET Event /\ IsFiniteSet(Older(cursor)) /\ Older(cursor) \subseteq events
<1>1. Older(cursor) \subseteq events
  BY DEF Older
<1> QED
  BY <1>1, FS_Subset DEF Log

\* A page of the table is what is newest among what is older than the cursor.
LEMMA TableParts ==
  ASSUME Log, NEW cursor, Found(cursor), NEW limit \in Nat \ {0}
  PROVE  Parts(ListTable(limit, cursor), Older(cursor))
<1> DEFINE S == Older(cursor)
           rows == Top(S, limit + 1)
           items == Top(S, limit)
           n == Oldest(items)
<1>1. S \in SUBSET Event /\ IsFiniteSet(S)
  BY OlderInLog
<1>2. CASE Cardinality(rows) > limit
  <2>1. ListTable(limit, cursor) = Page(items, n.id)
    BY <1>2 DEF ListTable
  <2>2. S # {}
    <3>1. Cardinality(S) > limit
      BY <1>1, <1>2, OneRowMore
    <3> QED
      BY <3>1, FS_EmptySet
  <2>3. PICK e \in S : \A f \in S : ~Newer(f, e)
    BY <1>1, <2>2, NewestThere
  <2>4. Rank(S, e) = 0
    <3>1. {f \in S : Newer(f, e)} = {}
      BY <2>3
    <3> QED
      BY <3>1, FS_EmptySet DEF Rank
  <2>5. items \in SUBSET S /\ items \in SUBSET Event /\ IsFiniteSet(items)
    BY <1>1, FS_Subset DEF Top
  <2>6. e \in items
    BY <2>4 DEF Top
  <2>7. n \in items /\ \A f \in items : f = n \/ Newer(f, n)
    BY <2>5, <2>6, OldestThere
  <2>8. n.id # None
    BY <2>5, <2>7, StampsAssumption, NoneAssumption DEF Event
  <2>9. \A f \in S : f \in items \/ Newer(n, f)
    BY <1>1, <2>5, <2>7, NewerOrders, TopCloses
  <2> QED
    BY <2>1, <2>5, <2>7, <2>8, <2>9 DEF Parts, Page
<1>3. CASE ~(Cardinality(rows) > limit)
  <2>1. rows = S
    <3>1. Cardinality(rows) \in Nat
      BY <1>1, FS_Subset, FS_CardinalityType DEF Top
    <3> QED
      BY <1>1, <1>3, <3>1, OneRowMore
  <2>2. ListTable(limit, cursor) = Page(S, None)
    BY <1>3, <2>1 DEF ListTable
  <2> QED
    BY <2>2 DEF Parts, Page
<1> QED
  BY <1>2, <1>3

\* The slice gives the same page.
LEMMA SliceIsTable ==
  ASSUME Log, NEW cursor, Found(cursor), NEW limit \in Nat \ {0}
  PROVE  ListSlice(limit, cursor) = ListTable(limit, cursor)
<1> DEFINE S == Older(cursor)
           c == EventOf(cursor)
           start == Start(cursor)
           N == {e \in events : Newer(e, c)}
           Ranked(e) == {f \in events : Newer(f, e)}
<1>1. S \in SUBSET Event /\ IsFiniteSet(S) /\ S \subseteq events
  BY OlderInLog
<1>2. events \in SUBSET Event /\ IsFiniteSet(events)
  BY DEF Log
<1>3. /\ start \in Nat /\ Cardinality(events) = start + Cardinality(S)
      /\ \A e \in S : Rank(events, e) = start + Rank(S, e)
      /\ \A e \in events \ S : Rank(events, e) < start
  <2>1. CASE cursor = None
    <3>1. S = events /\ start = 0
      BY <2>1 DEF Older, Start
    <3> QED
      BY <1>2, <3>1, Ranks, FS_CardinalityType
  <2>2. CASE cursor # None
    <3>1. c \in events /\ start = Rank(events, c) + 1 /\ S = {e \in events : Newer(c, e)}
      BY <2>2, Cursor DEF Found, Start, Older
    <3>2. /\ IsFiniteSet(N) /\ Cardinality(N) \in Nat /\ Cardinality(N) = Rank(events, c)
          /\ c \notin N
      BY <1>2, <3>1, FS_Subset, FS_CardinalityType, NewerOrders DEF Rank
    <3>3. IsFiniteSet(N \cup {c}) /\ Cardinality(N \cup {c}) = start
      BY <3>1, <3>2, FS_AddElement
    <3>4. ASSUME NEW D \in SUBSET S
          PROVE  Cardinality((N \cup {c}) \cup D) = start + Cardinality(D)
      <4>1. IsFiniteSet(D) /\ Cardinality(D) \in Nat
        BY <1>1, FS_Subset, FS_CardinalityType
      <4>2. (N \cup {c}) \cap D = {}
        BY <1>2, <3>1, NewerOrders
      <4>3. Cardinality((N \cup {c}) \cap D) = 0
        BY <4>2, FS_EmptySet
      <4>4. Cardinality((N \cup {c}) \cup D) = start + Cardinality(D) - 0
        BY <3>3, <4>1, <4>3, FS_Union
      <4> QED
        BY <3>2, <3>3, <4>1, <4>4
    <3>5. events = (N \cup {c}) \cup S
      BY <1>2, <3>1, NewerOrders
    <3>6. ASSUME NEW e \in S PROVE Rank(events, e) = start + Rank(S, e)
      <4>1. Ranked(e) = (N \cup {c}) \cup {f \in S : Newer(f, e)}
        BY <1>2, <3>1, <3>6, NewerOrders
      <4> QED
        BY <3>4, <4>1 DEF Rank
    <3>7. ASSUME NEW e \in events \ S PROVE Rank(events, e) < start
      <4>1. e = c \/ Newer(e, c)
        BY <1>2, <3>1, <3>7, NewerOrders
      <4>2. Rank(events, e) <= Rank(events, c) /\ Rank(events, e) \in Nat
        BY <1>2, <3>1, <4>1, Ranks
      <4> QED
        BY <3>1, <3>2, <4>2
    <3>8. Cardinality(events) = start + Cardinality(S)
      BY <3>4, <3>5
    <3> QED
      BY <3>1, <3>2, <3>6, <3>7, <3>8
  <2> QED
    BY <2>1, <2>2
<1>4. {e \in events : Rank(events, e) \in start..((start + limit) - 1)} = Top(S, limit)
  <2>1. \A e \in events : Rank(events, e) \in Nat
    BY <1>2, Ranks
  <2>2. \A e \in S : Rank(S, e) \in Nat
    BY <1>1, Ranks
  <2> QED
    BY <1>1, <1>3, <2>1, <2>2 DEF Top
<1>5. Cardinality(S) \in Nat
  BY <1>1, FS_CardinalityType
<1>6. start + limit < Cardinality(events) <=> Cardinality(Top(S, limit + 1)) > limit
  BY <1>1, <1>3, <1>5, OneRowMore
<1>7. ~(Cardinality(Top(S, limit + 1)) > limit) => Top(S, limit + 1) = Top(S, limit)
  <2>1. Cardinality(Top(S, limit + 1)) \in Nat
    BY <1>1, FS_Subset, FS_CardinalityType DEF Top
  <2> QED
    BY <1>1, <2>1, OneRowMore
<1> QED
  BY <1>4, <1>6, <1>7 DEF ListSlice, ListTable

\* Any page the stores answer with parts what it lists from what it does not.
LEMMA AuditsPart ==
  ASSUME Log, NEW cursor, Found(cursor), NEW asked \in Limits, asked # 0
  PROVE  Parts(ListAudits(LimitOf(asked), cursor), Older(cursor))
<1>1. clampAuditLimit(LimitOf(asked)) \in Nat \ {0}
  BY LimitsAssumption DEF clampAuditLimit, LimitOf
<1> QED
  BY <1>1, TableParts, SliceIsTable DEF ListAudits

-----------------------------------------------------------------------------
(* The walk.                                                               *)

\* The log of a walk is one.
LEMMA LogOfWalk ==
  ASSUME TypeOK, IdsApart
  PROVE  Log
BY FS_Subset DEF TypeOK, IdsApart, Log

\* Events are only made.
LEMMA MadeTyped ==
  ASSUME TypeOK, NEW e \in Event, made' = made \cup {e}
  PROVE  /\ made' \subseteq Event /\ IsFiniteSet(made') /\ SUBSET made \subseteq SUBSET made'
         /\ pages \in Seq(SUBSET made')
<1>1. IsFiniteSet(made')
  BY FS_AddElement DEF TypeOK
<1>2. pages \in Seq(SUBSET made')
  BY DEF TypeOK
<1> QED
  BY <1>1, <1>2 DEF TypeOK

\* An event that is appended changes nothing of a walk, nor does a restart.
LEMMA WalkKept ==
  ASSUME PagingInv, UNCHANGED walk, store' = store, faults \in Nat, faults' \in Nat, faults' >= faults,
         \/ events \subseteq events' /\ events' \cap made = events
         \/ events' = {} /\ store = "memory" /\ faults' > 0,
         TypeOK', IdsApart'
  PROVE  PagingInv'
<1>1. UNCHANGED <<after, pages, before, broken>> /\ UNCHANGED Shown
  BY DEF walk, Shown
<1>2. ShownInOrder'
  BY <1>1 DEF PagingInv, ShownInOrder
<1>3. WalkShowsAll'
  BY <1>1 DEF PagingInv, WalkShowsAll
<1>4. LinksWork'
  BY <1>1 DEF PagingInv, LinksWork
<1>5. CursorIsOldest'
  <2> SUFFICES ASSUME after # None
               PROVE  \E c \in Shown :
                        /\ c.id = after
                        /\ \A e \in Shown : e = c \/ Newer(e, c)
                        /\ c \in events' => \A e \in before : e \in events' /\ (e \in Shown \/ Newer(c, e))
                        /\ c \in events' \/ (store = "memory" /\ faults' > 0)
    BY <1>1 DEF CursorIsOldest
  <2>1. PICK c \in Shown :
          /\ c.id = after
          /\ \A e \in Shown : e = c \/ Newer(e, c)
          /\ c \in events => \A e \in before : e \in events /\ (e \in Shown \/ Newer(c, e))
          /\ c \in events \/ (store = "memory" /\ faults > 0)
    BY DEF PagingInv, CursorIsOldest
  <2>2. c \in made
    BY <2>1 DEF PagingInv, TypeOK, Shown
  <2> QED
    BY <2>1, <2>2
<1> QED
  BY <1>2, <1>3, <1>4, <1>5 DEF PagingInv

\* An event is appended, or fails to be.
LEMMA AppendStep ==
  ASSUME PagingInv, NEW e \in Event, AppendAudit(e) \/ AppendAuditError(e)
  PROVE  PagingInv'
<1>1. TypeOK /\ IdsApart /\ New(e)
  BY DEF PagingInv, AppendAudit, AppendAuditError
<1>2. made' = made \cup {e} /\ (events' = events \/ events' = events \cup {e})
  BY DEF AppendAudit, AppendAuditError
<1>3. e \notin made
  BY <1>1 DEF New
<1>4. /\ faults \in Nat /\ faults' \in Nat /\ faults' >= faults /\ faults' \in 0..MaxFaults
  BY <1>1, FaultsAssumption DEF AppendAudit, AppendAuditError, Fault, TypeOK
<1>5. UNCHANGED <<store, after, pages, before, broken>> /\ UNCHANGED walk
  BY DEF AppendAudit, AppendAuditError, walk
<1>6. TypeOK'
  BY <1>1, <1>2, <1>4, <1>5, MadeTyped DEF TypeOK, Cursors
<1>7. IdsApart'
  BY <1>1, <1>2 DEF IdsApart, New
<1>8. events \subseteq events' /\ events' \cap made = events
  BY <1>1, <1>2, <1>3 DEF TypeOK
<1> QED
  BY <1>4, <1>5, <1>6, <1>7, <1>8, WalkKept

\* A restart loses the slice at most.
LEMMA RestartStep ==
  ASSUME PagingInv, Restart
  PROVE  PagingInv'
<1>1. TypeOK /\ IdsApart
  BY DEF PagingInv
<1>2. UNCHANGED <<store, after, pages, before, broken, made>> /\ UNCHANGED walk
  BY DEF Restart, walk
<1>3. faults \in Nat /\ faults' \in Nat /\ faults' > 0 /\ faults' >= faults /\ faults' \in 0..MaxFaults
  BY <1>1, FaultsAssumption DEF Restart, Fault, TypeOK
<1>4. \/ events' = events
      \/ events' = {} /\ store = "memory"
  BY DEF Restart
<1>5. TypeOK' /\ IdsApart'
  BY <1>1, <1>2, <1>3, <1>4 DEF TypeOK, IdsApart, Cursors
<1>6. events' \cap made = events \/ (events' = {} /\ store = "memory")
  BY <1>1, <1>4 DEF TypeOK
<1> QED
  BY <1>1, <1>2, <1>3, <1>4, <1>5, <1>6, WalkKept DEF TypeOK

\* A walk begins.
LEMMA NewestStep ==
  ASSUME PagingInv, NEW asked \in Limits, ListNewest(asked)
  PROVE  PagingInv'
<1> DEFINE page == ListAudits(LimitOf(asked), None)
<1>1. TypeOK /\ IdsApart /\ Log
  BY LogOfWalk DEF PagingInv
<1>2. Parts(page, events)
  BY <1>1, AuditsPart DEF ListNewest, Found, Older
<1>3. /\ pages' = <<page.items>> /\ after' = page.next /\ before' = events /\ broken' = FALSE
      /\ UNCHANGED <<store, events, made, faults>>
  BY DEF ListNewest
<1>4. page.items \subseteq events
  BY <1>2 DEF Parts
<1>5. DOMAIN pages' = {1} /\ pages'[1] = page.items
  BY <1>3
<1>6. Shown' = page.items
  BY <1>5 DEF Shown
<1>7. page.next \in Cursors
  <2>1. \A n \in page.items : n.id \in Ids
    BY <1>1, <1>4 DEF TypeOK, Event
  <2> QED
    BY <1>2, <2>1 DEF Parts, Cursors
<1>8. TypeOK'
  <2>1. page.items \in SUBSET made
    BY <1>1, <1>4 DEF TypeOK
  <2>2. pages' \in Seq(SUBSET made)
    BY <1>3, <2>1
  <2>3. before' \subseteq made /\ after' \in Cursors /\ broken' \in BOOLEAN
    BY <1>1, <1>3, <1>7 DEF TypeOK
  <2> QED
    BY <1>1, <1>3, <2>2, <2>3 DEF TypeOK, Cursors
<1>9. IdsApart'
  BY <1>1, <1>3 DEF IdsApart
<1>10. CursorIsOldest'
  BY <1>2, <1>3, <1>4, <1>6 DEF Parts, CursorIsOldest
<1>11. ShownInOrder'
  BY <1>5 DEF ShownInOrder
<1>12. WalkShowsAll' /\ LinksWork'
  BY <1>2, <1>3, <1>6 DEF Parts, WalkShowsAll, LinksWork
<1> QED
  BY <1>8, <1>9, <1>10, <1>11, <1>12 DEF PagingInv

\* The walk goes on: the next page is older than all that was shown, and what it
\* leaves out is older still.
LEMMA NextStep ==
  ASSUME PagingInv, NEW asked \in Limits, ListNext(asked)
  PROVE  PagingInv'
<1> DEFINE page == ListAudits(LimitOf(asked), after)
<1>1. TypeOK /\ IdsApart /\ Log /\ after # None
  BY LogOfWalk DEF PagingInv, ListNext
<1>2. UNCHANGED <<store, events, before, made, faults>>
  BY DEF ListNext
<1>3. PICK c \in Shown :
        /\ c.id = after
        /\ \A e \in Shown : e = c \/ Newer(e, c)
        /\ c \in events => \A e \in before : e \in events /\ (e \in Shown \/ Newer(c, e))
        /\ c \in events \/ (store = "memory" /\ faults > 0)
  BY <1>1 DEF PagingInv, CursorIsOldest
<1>4. c \in made /\ Shown \subseteq made /\ made \subseteq Event /\ before \subseteq made
  BY <1>1 DEF TypeOK, Shown
<1>5. CASE ~Known(after)
  <2>1. after' = None /\ broken' = TRUE /\ pages' = pages
    BY <1>5 DEF ListNext
  <2>2. c \notin events
    BY <1>3, <1>5 DEF Known
  <2>3. TypeOK' /\ IdsApart' /\ ShownInOrder'
    BY <1>1, <1>2, <2>1 DEF PagingInv, TypeOK, Cursors, IdsApart, ShownInOrder
  <2>4. WalkShowsAll' /\ CursorIsOldest' /\ LinksWork'
    BY <1>2, <1>3, <2>1, <2>2 DEF WalkShowsAll, CursorIsOldest, LinksWork
  <2> QED
    BY <2>3, <2>4 DEF PagingInv
<1>6. CASE Known(after)
  <2>1. pages' = Append(pages, page.items) /\ after' = page.next /\ broken' = broken
    BY <1>6 DEF ListNext
  <2>2. c = EventOf(after) /\ c \in events
    <3>1. EventOf(after) \in events /\ EventOf(after).id = after
      BY <1>1, <1>6, Cursor
    <3> QED
      BY <1>1, <1>3, <1>4, <3>1 DEF TypeOK, IdsApart
  <2> DEFINE S == {e \in events : Newer(c, e)}
  <2>3. Parts(page, S)
    BY <1>1, <1>6, <2>2, AuditsPart DEF ListNext, Found, Older
  <2>4. page.items \subseteq S /\ page.items \subseteq made
    BY <1>1, <2>3 DEF Parts, TypeOK
  <2>5. /\ pages \in Seq(SUBSET made) /\ Len(pages) \in Nat
        /\ DOMAIN pages = 1..Len(pages) /\ DOMAIN pages' = 1..(Len(pages) + 1)
        /\ \A i \in 1..Len(pages) : pages'[i] = pages[i]
        /\ pages'[Len(pages) + 1] = page.items
        /\ pages' \in Seq(SUBSET made)
    BY <1>1, <2>1, <2>4 DEF TypeOK
  <2>6. Shown' = Shown \cup page.items
    <3>1. \A i \in DOMAIN pages' : i \in DOMAIN pages \/ i = Len(pages) + 1
      BY <2>5
    <3> QED
      BY <2>5, <3>1 DEF Shown
  <2>7. \A e \in Shown, f \in S : Newer(e, f)
    <3>1. S \subseteq Event /\ Shown \subseteq Event
      BY <1>1, <1>4 DEF TypeOK
    <3> QED
      BY <1>3, <3>1, NewerOrders
  <2>8. page.next \in Cursors
    <3>1. \A n \in page.items : n.id \in Ids
      BY <1>4, <2>4 DEF Event
    <3> QED
      BY <2>3, <3>1 DEF Parts, Cursors
  <2>9. TypeOK' /\ IdsApart'
    BY <1>1, <1>2, <2>1, <2>5, <2>8 DEF TypeOK, Cursors, IdsApart
  <2>10. ShownInOrder'
    <3> SUFFICES ASSUME NEW i \in DOMAIN pages', NEW j \in DOMAIN pages', i < j,
                        NEW e \in pages'[i], NEW f \in pages'[j]
                 PROVE  Newer(e, f)
      BY DEF ShownInOrder
    <3>1. i \in DOMAIN pages /\ e \in pages[i] /\ e \in Shown
      BY <2>5 DEF Shown
    <3>2. CASE j \in DOMAIN pages
      BY <2>5, <3>1, <3>2 DEF PagingInv, ShownInOrder
    <3>3. CASE j = Len(pages) + 1
      BY <2>4, <2>5, <2>7, <3>1, <3>3
    <3> QED
      BY <2>5, <3>2, <3>3
  <2>11. \A e \in before : e \in Shown \/ e \in S
    BY <1>3, <2>2
  <2>12. CursorIsOldest'
    <3> SUFFICES ASSUME page.next # None PROVE CursorIsOldest'
      BY <2>1 DEF CursorIsOldest
    <3>1. PICK n \in page.items :
            /\ n.id = page.next
            /\ \A e \in page.items : e = n \/ Newer(e, n)
            /\ \A e \in S : e \in page.items \/ Newer(n, e)
      BY <2>3 DEF Parts
    <3>2. \A e \in Shown' : e = n \/ Newer(e, n)
      BY <2>4, <2>6, <2>7, <3>1
    <3>3. \A e \in before : e \in events /\ (e \in Shown' \/ Newer(n, e))
      BY <1>3, <2>2, <2>6, <2>11, <3>1
    <3>4. n \in events /\ n \in Shown'
      BY <2>4, <2>6
    <3> QED
      BY <1>2, <2>1, <3>1, <3>2, <3>3, <3>4 DEF CursorIsOldest
  <2>13. WalkShowsAll' /\ LinksWork'
    BY <1>2, <2>1, <2>3, <2>6, <2>11 DEF Parts, PagingInv, WalkShowsAll, LinksWork
  <2> QED
    BY <2>9, <2>10, <2>12, <2>13 DEF PagingInv
<1> QED
  BY <1>5, <1>6

-----------------------------------------------------------------------------
(* Theorems.                                                               *)

\* Whatever handlers append between two pages, the cursor parts what was shown
\* from what was not (handleAdminListAudits, ListAudits).
THEOREM Invariance == Spec => []PagingInv
<1>1. Init => PagingInv
  <2> SUFFICES ASSUME Init PROVE PagingInv
    OBVIOUS
  <2>1. TypeOK
    <3>1. IsFiniteSet(made) /\ made = {} /\ events = {}
      BY FS_EmptySet DEF Init
    <3>2. pages \in Seq(SUBSET made)
      BY DEF Init
    <3>3. faults \in 0..MaxFaults
      BY FaultsAssumption DEF Init
    <3> QED
      BY <3>1, <3>2, <3>3 DEF Init, TypeOK, Cursors
  <2> QED
    BY <2>1 DEF Init, PagingInv, IdsApart, CursorIsOldest, ShownInOrder, WalkShowsAll, LinksWork
<1>2. PagingInv /\ [Next]_vars => PagingInv'
  <2>1. ASSUME PagingInv, UNCHANGED vars PROVE PagingInv'
    BY <2>1 DEF vars, walk, PagingInv, TypeOK, Cursors, IdsApart, CursorIsOldest, Shown, ShownInOrder,
                WalkShowsAll, LinksWork
  <2> QED
    BY <2>1, AppendStep, RestartStep, NewestStep, NextStep DEF Next
<1> QED
  BY <1>1, <1>2, PTL DEF Spec

\* The log and the walk keep their types (AuditEvent, AuditPage).
THEOREM Typed == Spec => []TypeOK
<1>1. PagingInv => TypeOK
  BY DEF PagingInv
<1> QED
  BY <1>1, Invariance, PTL

\* No event is shown twice or after an older one, for any number of events, times
\* and pages (ListAudits).
THEOREM InOrder == Spec => []ShownInOrder
<1>1. PagingInv => ShownInOrder
  BY DEF PagingInv
<1> QED
  BY <1>1, Invariance, PTL

\* A walk that comes to a page without a link has shown all that was there when it
\* began (ListAudits).
THEOREM ShowsAll == Spec => []WalkShowsAll
<1>1. PagingInv => WalkShowsAll
  BY DEF PagingInv
<1> QED
  BY <1>1, Invariance, PTL

\* A link is refused only after the memory store was lost (handleAdminListAudits).
THEOREM OnlyALostLogBreaks == Spec => []LinksWork
<1>1. PagingInv => LinksWork
  BY DEF PagingInv
<1> QED
  BY <1>1, Invariance, PTL

\* The two stores answer alike, for every log, cursor and limit (memory/store.go:336,
\* postgres/store.go:412).
THEOREM Alike == Spec => []StoresAgree
<1>1. PagingInv => StoresAgree
  BY LogOfWalk, SliceIsTable DEF PagingInv, StoresAgree, Found
<1> QED
  BY <1>1, Invariance, PTL
=============================================================================
