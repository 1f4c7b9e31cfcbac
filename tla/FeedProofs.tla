----------------------------- MODULE FeedProofs -----------------------------
(***************************************************************************)
(* The properties of Feed for any users, events, days and limits, any size *)
(* of batches and any number of edits and failures.                        *)
(***************************************************************************)
EXTENDS Feed, FiniteSetTheorems, WellFoundedInduction, TLAPS

USE FeedAssumption

-----------------------------------------------------------------------------
(* Pages.                                                                   *)

\* A set of numbers that is not empty has a least one.
LEMMA LeastNumber ==
    ASSUME NEW T \in SUBSET Nat, T # {}
    PROVE  \E m \in T : \A n \in T : m <= n
<1> DEFINE R == StrictSubsetOrdering(Nat)
           F == {0 .. m : m \in T}
<1>1. F \subseteq FiniteSubsetsOf(Nat) /\ F # {}
  <2>1. \A m \in T : IsFiniteSet(0 .. m) /\ 0 .. m \subseteq Nat
    BY FS_Interval
  <2> QED BY <2>1 DEF FiniteSubsetsOf
<1>R. IsWellFoundedOn(R, FiniteSubsetsOf(Nat))
  BY FS_StrictSubsetOrderingWellFounded
<1> HIDE DEF R, F
<1>2. PICK U \in F : \A V \in F : ~(<<V, U>> \in R)
  BY <1>1, <1>R, WFMin
<1>3. PICK m \in T : U = 0 .. m
  BY DEF F
<1>4. ASSUME NEW n \in T, n < m PROVE FALSE
  <2>1. /\ 0 .. n \subseteq 0 .. m /\ m \in 0 .. m /\ m \notin 0 .. n
        /\ 0 .. n \subseteq Nat /\ 0 .. m \subseteq Nat
    BY <1>4
  <2>2. <<0 .. n, 0 .. m>> \in R
    BY <2>1 DEF R, StrictSubsetOrdering
  <2>3. 0 .. n \in F
    BY DEF F
  <2> QED BY <1>2, <1>3, <2>2, <2>3
<1>5. \A n \in T : n \in Nat /\ m \in Nat /\ ~(n < m)
  BY <1>4
<1> QED BY <1>5

LEMMA LastAtIsLeast ==
    ASSUME NEW P, P # {}, \A p \in P : p.at \in Nat
    PROVE  /\ \E p \in P : LastAt(P) = p.at
           /\ \A p \in P : LastAt(P) <= p.at
<1> DEFINE T == {p.at : p \in P}
<1>0. T \in SUBSET Nat /\ T # {}
  OBVIOUS
<1> HIDE DEF T
<1>1. PICK m \in T : \A n \in T : m <= n
  BY <1>0, LeastNumber
<1>2. \E p \in P : \A s \in P : p.at <= s.at
  BY <1>1 DEF T
<1> QED BY <1>2 DEF LastAt

LEMMA NewestFacts ==
    ASSUME NEW S, IsFiniteSet(S), NEW n \in Nat, NEW P \in Newest(S, n)
    PROVE  /\ P \subseteq S /\ IsFiniteSet(P) /\ Cardinality(P) \in Nat
           /\ Cardinality(P) <= n
           /\ Cardinality(P) < n => P = S
           /\ P = {} /\ n # 0 => S = {}
           /\ \A p \in P, s \in S \ P : p.at >= s.at
<1>1. /\ P \in SUBSET S /\ Cardinality(P) = SizeUpTo(S, n)
      /\ \A p \in P, s \in S \ P : p.at >= s.at
  BY DEF Newest
<1>2. IsFiniteSet(P) /\ (Cardinality(S) = Cardinality(P) => S = P)
  BY <1>1, FS_Subset
<1>3. Cardinality(P) \in Nat /\ Cardinality(S) \in Nat
  BY <1>2, FS_CardinalityType
<1>4. P = {} => Cardinality(P) = 0
  BY FS_EmptySet
<1> QED BY <1>1, <1>2, <1>3, <1>4 DEF SizeUpTo

\* Two sets whose ids are told apart by created_at.
LEMMA DisjointUnion ==
    ASSUME NEW S, NEW T, IsFiniteSet(S), IsFiniteSet(T), S \cap T = {}
    PROVE  /\ IsFiniteSet(S \cup T)
           /\ Cardinality(S \cup T) = Cardinality(S) + Cardinality(T)
<1>1. Cardinality(S) \in Nat /\ Cardinality(T) \in Nat
  BY FS_CardinalityType
<1>2. Cardinality(S \cap T) = 0
  BY FS_EmptySet
<1>3. /\ IsFiniteSet(S \cup T)
      /\ Cardinality(S \cup T) = Cardinality(S) + Cardinality(T) - Cardinality(S \cap T)
  BY FS_Union
<1> QED BY <1>1, <1>2, <1>3

\* Every row has an id of its own.
Distinct(P) == \A x, y \in P : x.id = y.id => x = y

LEMMA DistinctIds ==
    ASSUME NEW P, IsFiniteSet(P), Distinct(P)
    PROVE  Cardinality(Ids(P)) = Cardinality(P)
<1> DEFINE f == [x \in P |-> x.id]
<1>1. f \in [P -> Ids(P)] /\ IsInjective(f)
  BY DEF IsInjective, Distinct, Ids
<1>2. \A t \in Ids(P) : \E x \in P : f[x] = t
  BY DEF Ids
<1>3. f \in Bijection(P, Ids(P))
  BY <1>1, <1>2 DEF Bijection, Injection, Surjection
<1> HIDE DEF f
<1>4. ExistsBijection(P, Ids(P))
  BY <1>3 DEF ExistsBijection
<1> QED BY <1>4, FS_Bijection

-----------------------------------------------------------------------------
(* Types.                                                                   *)

\* A row as read, and the event's row now.
Stored(x) ==
    /\ x \in Item /\ table[x.id] # NoRow
    /\ table[x.id].at = x.at /\ table[x.id].author = x.author

LEMMA FoundFacts ==
    ASSUME TypeOK, NEW cursor \in Nat
    PROVE  /\ IsFiniteSet(Found(me, cursor))
           /\ Distinct(Found(me, cursor))
           /\ \A x \in Found(me, cursor) :
                 /\ Stored(x) /\ Exists(x.id) /\ Matches(me, table[x.id])
                 /\ BeforeCursor(cursor, x.at) /\ x.at # 0
                 /\ x.start = table[x.id].start /\ x.end = table[x.id].end
           /\ \A e \in Events : /\ Exists(e) /\ Matches(me, table[e])
                                /\ BeforeCursor(cursor, table[e].at)
                                => \E x \in Found(me, cursor) : x.id = e
<1> DEFINE E == {x \in Events : /\ Exists(x) /\ Matches(me, table[x])
                                /\ BeforeCursor(cursor, table[x].at)}
           f == [e \in E |-> [id |-> e, author |-> table[e].author, at |-> table[e].at,
                              start |-> table[e].start, end |-> table[e].end]]
           T == Found(me, cursor)
<1>1. \A e \in E : table[e] \in Row /\ f[e] \in T /\ f[e].id = e
  BY DEF TypeOK, Exists, Found
<1>2. \A x \in T : \E e \in E : f[e] = x
  BY DEF Found
<1>3. \A x \in T : /\ x.id \in E /\ x = f[x.id]
  BY <1>1, <1>2
<1>4. IsFiniteSet(T)
  <2>1. IsFiniteSet(E)
    BY FS_Subset
  <2>2. f \in [E -> T]
    BY <1>1
  <2> HIDE DEF f, E, T
  <2>3. f \in Surjection(E, T)
    BY <1>2, <2>2 DEF Surjection
  <2> QED BY <2>1, <2>3, FS_Surjection
<1>5. \A x \in T : /\ x \in Item /\ Exists(x.id) /\ Matches(me, table[x.id])
                   /\ BeforeCursor(cursor, x.at) /\ x.at # 0
                   /\ x.at = table[x.id].at /\ x.author = table[x.id].author
                   /\ x.start = table[x.id].start /\ x.end = table[x.id].end
  <2> SUFFICES ASSUME NEW x \in T
               PROVE  /\ x \in Item /\ Exists(x.id) /\ Matches(me, table[x.id])
                      /\ BeforeCursor(cursor, x.at) /\ x.at # 0
                      /\ x.at = table[x.id].at /\ x.author = table[x.id].author
                      /\ x.start = table[x.id].start /\ x.end = table[x.id].end
    OBVIOUS
  <2>0. PICK e \in E : x = f[e]
    BY <1>2
  <2>1. x = [id |-> e, author |-> table[e].author, at |-> table[e].at,
             start |-> table[e].start, end |-> table[e].end]
    BY <2>0
  <2>2. e \in Events /\ table[e] \in Row
    BY <1>1
  <2>3. x \in Item /\ x.at # 0
    BY <2>1, <2>2 DEF Item, Row
  <2> QED BY <2>1, <2>3
<1>6. Distinct(T)
  BY <1>3 DEF Distinct
<1>7. \A e \in E : \E x \in T : x.id = e
  BY <1>1
<1> QED BY <1>4, <1>5, <1>6, <1>7 DEF Stored, Exists

\* Batches and pages.
LEMMA NewestFound ==
    ASSUME TypeOK, NEW cursor \in Nat, NEW n \in Nat, NEW P \in Newest(Found(me, cursor), n)
    PROVE  /\ P \subseteq Found(me, cursor) /\ IsFiniteSet(P) /\ Cardinality(P) \in Nat
           /\ Cardinality(P) <= n
           /\ Cardinality(P) < n => P = Found(me, cursor)
           /\ \A p \in P, s \in Found(me, cursor) \ P : p.at >= s.at
BY FoundFacts, NewestFacts

LEMMA LastAtType ==
    ASSUME NEW P \in SUBSET Item, P # {}
    PROVE  /\ LastAt(P) \in Nat /\ \A p \in P : LastAt(P) <= p.at
           /\ \E p \in P : LastAt(P) = p.at
<1>1. \A p \in P : p.at \in Nat
  BY DEF Item
<1> QED BY <1>1, LastAtIsLeast

\* What an edit leaves alone.
Grows ==
    /\ UNCHANGED <<me, shown, faults>>
    /\ \A e \in Events : table[e] # NoRow =>
          /\ table'[e] # NoRow
          /\ table'[e].at = table[e].at /\ table'[e].author = table[e].author
    /\ profiles' \subseteq profiles /\ today <= today'
    /\ listed' = IF Reading THEN listed \cup Listed(table', me.mode) ELSE listed
    /\ heard' = IF Reading THEN heard \cup follows' ELSE heard
    /\ steady' = {e \in steady : Steady(e, table', follows', profiles', today', me.mode)}

LEMMA EditedGrows ==
    ASSUME TypeOK, NEW t \in [Events -> Row \cup {NoRow}], NEW f \in SUBSET Users,
           NEW p \in SUBSET profiles, NEW day \in Int, today <= day,
           clock' \in Nat \ {0}, Edited(t, f, p, day),
           \A e \in Events : table[e] # NoRow =>
              t[e] # NoRow /\ t[e].at = table[e].at /\ t[e].author = table[e].author
    PROVE  TypeOK' /\ Grows
<1>1. /\ table' = t /\ follows' = f /\ profiles' = p /\ today' = day
      /\ UNCHANGED <<me, shown, faults>> /\ edits' \in 0 .. MaxEdits
  BY DEF Edited, TypeOK
<1>2. listed' \subseteq Events /\ heard' \subseteq Users /\ steady' \subseteq Events
  BY DEF Edited, TypeOK, Listed
<1>3. TypeOK'
  BY <1>1, <1>2 DEF TypeOK
<1>4. Grows
  BY <1>1 DEF Edited, Grows
<1> QED BY <1>3, <1>4

LEMMA EditGrows ==
    ASSUME TypeOK, Edit
    PROVE  TypeOK' /\ Grows
<1>0. /\ table \in [Events -> Row \cup {NoRow}] /\ follows \in SUBSET Users
      /\ profiles \in SUBSET Users /\ today \in Int /\ clock \in Nat \ {0} /\ today <= today
  BY DEF TypeOK
<1>1. ASSUME NEW e \in Events, NEW row \in Row, table[e] # NoRow,
             row.at = table[e].at, row.author = table[e].author,
             Edited([table EXCEPT ![e] = row], follows, profiles, today), UNCHANGED clock
      PROVE  TypeOK' /\ Grows
  <2> DEFINE t == [table EXCEPT ![e] = row]
  <2>1. /\ t \in [Events -> Row \cup {NoRow}]
        /\ \A x \in Events : table[x] # NoRow =>
              t[x] # NoRow /\ t[x].at = table[x].at /\ t[x].author = table[x].author
    BY <1>0, <1>1
  <2> HIDE DEF t
  <2>2. Edited(t, follows, profiles, today)
    BY <1>1 DEF t
  <2> QED BY <1>0, <1>1, <2>1, <2>2, EditedGrows
<1>2. CASE InsertEvent
  <2>1. PICK e \in Events, u \in Users, at \in 1 .. clock + 1, day \in Days :
          /\ table[e] = NoRow /\ clock' = IF at > clock THEN at ELSE clock
          /\ Edited([table EXCEPT ![e] = [author |-> u, at |-> at, visible |-> TRUE,
                                          start |-> day, end |-> NoDay, gone |-> FALSE]],
                    follows, profiles, today)
    BY <1>2 DEF InsertEvent
  <2> DEFINE row == [author |-> u, at |-> at, visible |-> TRUE, start |-> day, end |-> NoDay,
                     gone |-> FALSE]
             t == [table EXCEPT ![e] = row]
  <2>2. at \in Nat \ {0} /\ clock' \in Nat \ {0} /\ row \in Row
    BY <1>0, <2>1 DEF Row, Dates
  <2> HIDE DEF row
  <2>3. /\ t \in [Events -> Row \cup {NoRow}]
        /\ \A x \in Events : table[x] # NoRow =>
              t[x] # NoRow /\ t[x].at = table[x].at /\ t[x].author = table[x].author
    BY <1>0, <2>1, <2>2
  <2>4. Edited(t, follows, profiles, today)
    BY <2>1 DEF row
  <2> HIDE DEF t
  <2> QED BY <1>0, <2>1, <2>2, <2>3, <2>4, EditedGrows
<1>3. CASE EditEvent
  <2>1. PICK e \in Events, v \in BOOLEAN, s \in Dates, d \in Dates :
          /\ Exists(e) /\ UNCHANGED clock
          /\ Edited([table EXCEPT ![e] = [@ EXCEPT !.visible = v, !.start = s, !.end = d]],
                    follows, profiles, today)
    BY <1>3 DEF EditEvent
  <2> DEFINE row == [table[e] EXCEPT !.visible = v, !.start = s, !.end = d]
  <2>2. table[e] # NoRow /\ table[e] \in Row
    BY <1>0, <2>1 DEF Exists
  <2>3. row \in Row /\ row.at = table[e].at /\ row.author = table[e].author
    BY <2>2 DEF Row
  <2>5. Edited([table EXCEPT ![e] = row], follows, profiles, today)
    BY <2>1
  <2> HIDE DEF row
  <2> QED BY <1>1, <2>1, <2>2, <2>3, <2>5
<1>4. CASE DeleteEvent
  <2>1. PICK e \in Events : /\ Exists(e) /\ UNCHANGED clock
                            /\ Edited([table EXCEPT ![e].gone = TRUE], follows, profiles, today)
    BY <1>4 DEF DeleteEvent
  <2> DEFINE row == [table[e] EXCEPT !.gone = TRUE]
  <2>2. table[e] # NoRow /\ table[e] \in Row
    BY <1>0, <2>1 DEF Exists
  <2>3. row \in Row /\ row.at = table[e].at /\ row.author = table[e].author
    BY <2>2 DEF Row
  <2>4. Edited([table EXCEPT ![e] = row], follows, profiles, today)
    BY <2>1
  <2> HIDE DEF row
  <2> QED BY <1>1, <2>1, <2>2, <2>3, <2>4
<1>5. CASE ChangeFollow
  <2>1. PICK f \in SUBSET Users : Edited(table, f, profiles, today) /\ UNCHANGED clock
    BY <1>0, <1>5 DEF ChangeFollow
  <2> QED BY <1>0, <2>1, EditedGrows
<1>6. CASE LoseProfile
  <2>1. PICK u \in profiles : Edited(table, follows, profiles \ {u}, today) /\ UNCHANGED clock
    BY <1>6 DEF LoseProfile
  <2>2. profiles \ {u} \in SUBSET profiles
    OBVIOUS
  <2> QED BY <1>0, <2>1, <2>2, EditedGrows
<1>7. CASE NewDay
  <2>1. Edited(table, follows, profiles, today + 1) /\ UNCHANGED clock
    BY <1>7 DEF NewDay
  <2>2. profiles \in SUBSET profiles /\ today + 1 \in Int /\ today <= today + 1
    BY <1>0
  <2> QED BY <1>0, <2>1, <2>2, EditedGrows
<1> QED BY <1>2, <1>3, <1>4, <1>5, <1>6, <1>7 DEF Edit

\* A response, field by field.
LEMMA ReplyFacts ==
    ASSUME TypeOK, NEW rows, NEW items \in SUBSET Item, NEW more \in BOOLEAN,
           Reply(rows, items, more)
    PROVE  /\ me' \in Reader
           /\ me'.pc = IF ~more THEN "done" ELSE IF items = {} THEN "dead" ELSE "more"
           /\ me'.cursor = IF more /\ items # {} THEN LastAt(items) ELSE me.cursor
           /\ me'.mode = me.mode /\ me'.limit = me.limit /\ me'.target = me.target
           /\ me'.got = {}
           /\ shown' \in Seq(SUBSET Item) /\ Len(shown') = Len(shown) + 1
           /\ shown'[Len(shown) + 1] = items
           /\ \A i \in 1 .. Len(shown) : shown'[i] = shown[i]
           /\ UNCHANGED <<table, follows, profiles, clock, today, listed, heard, steady,
                          edits, faults>>
<1> DEFINE cursor == IF more /\ items # {} THEN LastAt(items) ELSE me.cursor
           pc == IF ~more THEN "done" ELSE IF items = {} THEN "dead" ELSE "more"
<1>1. cursor \in Nat
  BY LastAtType DEF TypeOK, Reader
<1>2. pc \in {"done", "dead", "more"}
  OBVIOUS
<1>3. me' = [me EXCEPT !.got = {}, !.more = FALSE, !.followed = {}, !.page = NoCursor,
                       !.pc = pc, !.cursor = cursor]
  BY DEF Reply, Goes, CursorAfter
<1> HIDE DEF cursor, pc
<1>4. me' = [pc |-> pc, mode |-> me.mode, target |-> me.target, limit |-> me.limit,
             cursor |-> cursor, followed |-> {}, page |-> NoCursor, today |-> me.today,
             got |-> {}, more |-> FALSE]
  BY <1>3 DEF TypeOK, Reader
<1>5. me.mode \in Modes /\ me.target \in Users /\ me.limit \in 1 .. MaxLimit /\ me.today \in Int
  BY DEF TypeOK, Reader
<1>6. me' \in Reader
  BY <1>1, <1>2, <1>4, <1>5 DEF Reader, NoCursor
<1>7. /\ shown' = Append(shown, items) /\ shown \in Seq(SUBSET Item)
      /\ UNCHANGED <<table, follows, profiles, clock, today, listed, heard, steady, edits, faults>>
  BY DEF Reply, NoFault, tables, TypeOK
<1>8. /\ shown' \in Seq(SUBSET Item) /\ Len(shown') = Len(shown) + 1
      /\ shown'[Len(shown) + 1] = items
      /\ \A i \in 1 .. Len(shown) : shown'[i] = shown[i]
  BY <1>7
<1> QED BY <1>4, <1>6, <1>7, <1>8 DEF cursor, pc

LEMMA ReplyTypes ==
    ASSUME TypeOK, NEW rows, NEW items \in SUBSET Item, NEW more \in BOOLEAN,
           Reply(rows, items, more)
    PROVE  TypeOK'
<1>1. /\ me' \in Reader /\ shown' \in Seq(SUBSET Item)
      /\ UNCHANGED <<table, follows, profiles, clock, today, listed, heard, steady, edits, faults>>
  BY ReplyFacts
<1> QED BY <1>1 DEF TypeOK

LEMMA ContinueTypes ==
    ASSUME TypeOK, NEW r \in Reader, Continue(r)
    PROVE  /\ TypeOK' /\ me' = r
           /\ UNCHANGED <<table, follows, profiles, clock, today, shown, listed, heard, steady,
                          edits, faults>>
BY DEF Continue, Goes, NoFault, tables, TypeOK

\* The steps of a request change these fields.
LEMMA ReaderTypes ==
    ASSUME NEW r \in Reader
    PROVE  /\ [r EXCEPT !.pc = "events"] \in Reader
           /\ \A P \in SUBSET Item : [r EXCEPT !.got = P] \in Reader
           /\ \A P \in SUBSET Item, more \in BOOLEAN :
                 [r EXCEPT !.pc = "profiles", !.got = P, !.more = more] \in Reader
           /\ \A page \in Nat : [r EXCEPT !.page = page] \in Reader
<1>1. ASSUME NEW q \in Reader, NEW P \in SUBSET Item PROVE [q EXCEPT !.got = P] \in Reader
  BY DEF Reader
<1>2. ASSUME NEW q \in Reader, NEW b \in BOOLEAN PROVE [q EXCEPT !.more = b] \in Reader
  BY DEF Reader
<1>3. ASSUME NEW q \in Reader, NEW n \in Nat PROVE [q EXCEPT !.page = n] \in Reader
  BY DEF Reader
<1>4. ASSUME NEW q \in Reader, NEW pc \in {"events", "profiles"} PROVE [q EXCEPT !.pc = pc] \in Reader
  BY DEF Reader
<1>5. ASSUME NEW P \in SUBSET Item, NEW more \in BOOLEAN
      PROVE [r EXCEPT !.pc = "profiles", !.got = P, !.more = more] \in Reader
  <2>1. [r EXCEPT !.pc = "profiles"] \in Reader
    BY <1>4
  <2>2. [r EXCEPT !.pc = "profiles", !.got = P] \in Reader
    BY <2>1, <1>1
  <2> QED BY <2>2, <1>2
<1> QED BY <1>1, <1>3, <1>4, <1>5

LEMMA WithRowsTypes ==
    ASSUME TypeOK, NEW rows \in SUBSET Item, WithRows(rows)
    PROVE  TypeOK'
<1> DEFINE more == Cardinality(rows) > me.limit
<1>1. PICK kept \in Newest(rows, me.limit) :
        \/ Reply(rows, kept, more)
        \/ Continue([me EXCEPT !.pc = "profiles", !.got = kept, !.more = more])
  BY DEF WithRows, Trimmed
<1>2. kept \in SUBSET Item /\ more \in BOOLEAN /\ me \in Reader
  BY DEF Newest, TypeOK
<1> HIDE DEF more
<1>3. [me EXCEPT !.pc = "profiles", !.got = kept, !.more = more] \in Reader
  BY <1>2, ReaderTypes
<1> QED BY <1>1, <1>2, <1>3, ReplyTypes, ContinueTypes

\* The page under way and the next, when a batch is full and one page is not.
LEMMA NextBatchFacts ==
    ASSUME TypeOK, NEW page \in Newest(Found(me, me.page), Batch), ~(Cardinality(page) < Batch),
           NEW rows \in SUBSET Item
    PROVE  /\ page # {} /\ page \in SUBSET Item
           /\ [NextBatch(me, page) EXCEPT !.got = rows] \in Reader
<1>1. me \in Reader /\ me.page \in Nat
  BY DEF TypeOK, Reader
<1>2. page \in SUBSET Item
  BY <1>1, FoundFacts, NewestFound DEF Stored
<1>3. page # {}
  BY FS_EmptySet
<1>4. LastAt(page) \in Nat
  BY <1>2, <1>3, LastAtType
<1>5. NextBatch(me, page) \in Reader
  BY <1>1, <1>4, ReaderTypes DEF NextBatch
<1> QED BY <1>2, <1>3, <1>5, ReaderTypes

LEMMA ArriveTypes ==
    ASSUME TypeOK, NEW r \in Reader, Arrive(r), steady' \subseteq Events, shown' = shown
    PROVE  TypeOK'
<1>1. /\ me' = [r EXCEPT !.pc = FirstQuery(r.mode, r.target), !.page = r.cursor,
                         !.got = {}, !.followed = {}, !.more = FALSE]
      /\ listed' \subseteq Events /\ heard' \subseteq Users
      /\ UNCHANGED <<table, follows, profiles, clock, today, edits, faults>>
  BY DEF Arrive, Goes, Listed, NoFault, tables, TypeOK
<1>2. FirstQuery(r.mode, r.target) \in {"follows", "check", "events"}
  BY DEF FirstQuery
<1>3. today \in Int
  BY DEF TypeOK
<1>4. me' \in Reader
  BY <1>1, <1>2, <1>3 DEF Reader
<1> QED BY <1>1, <1>4 DEF TypeOK

LEMMA TypeStep ==
    ASSUME TypeOK, [Next]_vars
    PROVE  TypeOK'
<1>0. /\ me \in Reader /\ me.cursor \in Nat /\ me.page \in Nat /\ me.limit \in 1 .. MaxLimit
      /\ me.got \in SUBSET Item
  BY DEF TypeOK, Reader
<1>1. CASE OpenList
  <2>1. PICK mode \in Modes, limit \in Limits, target \in Users :
          /\ Arrive([me EXCEPT !.mode = mode, !.target = target, !.limit = CapLimit(limit)])
          /\ steady' \subseteq Events /\ shown' = shown
    BY <1>1 DEF OpenList
  <2>2. CapLimit(limit) \in 1 .. MaxLimit
    BY DEF CapLimit
  <2>3. [me EXCEPT !.mode = mode, !.target = target, !.limit = CapLimit(limit)] \in Reader
    BY <1>0, <2>2 DEF Reader
  <2> QED BY <2>1, <2>3, ArriveTypes
<1>2. CASE Scroll
  BY <1>0, <1>2, ArriveTypes DEF Scroll, TypeOK
<1>3. CASE ReadFollows
  <2>1. follows \in SUBSET Users
    BY DEF TypeOK
  <2>2. CASE follows = {}
    BY <1>3, <2>2, ReplyTypes DEF ReadFollows
  <2>3. CASE follows # {}
    <3>1. [me EXCEPT !.pc = "events", !.followed = follows, !.today = today] \in Reader
      BY <1>0, <2>1 DEF TypeOK, Reader
    <3> QED BY <1>3, <2>3, <3>1, ContinueTypes DEF ReadFollows
  <2> QED BY <2>2, <2>3
<1>4. CASE CheckFollow
  <2>1. CASE me.target \notin follows
    BY <1>4, <2>1, ReplyTypes DEF CheckFollow
  <2>2. CASE me.target \in follows
    BY <1>0, <1>4, <2>2, ReaderTypes, ContinueTypes DEF CheckFollow
  <2> QED BY <2>1, <2>2
<1>5. CASE ReadEvents
  <2>1. PICK rows \in Newest(Found(me, me.cursor), me.limit + 1) : WithRows(rows)
    BY <1>5 DEF ReadEvents
  <2>2. rows \in SUBSET Item
    BY <1>0, <2>1, FoundFacts DEF Newest, Stored
  <2> QED BY <2>1, <2>2, WithRowsTypes
<1>6. CASE ReadBatch
  <2>0. PICK page \in Newest(Found(me, me.page), Batch) : \E rows \in Collect(page) :
          IF Cardinality(rows) > me.limit \/ Cardinality(page) < Batch THEN WithRows(rows)
          ELSE Continue([NextBatch(me, page) EXCEPT !.got = rows])
    BY <1>6 DEF ReadBatch
  <2>1. PICK rows \in Collect(page) :
          IF Cardinality(rows) > me.limit \/ Cardinality(page) < Batch THEN WithRows(rows)
          ELSE Continue([NextBatch(me, page) EXCEPT !.got = rows])
    BY <2>0
  <2>2. page \in SUBSET Item
    BY <1>0, FoundFacts DEF Newest, Stored
  <2>3. rows \in SUBSET Item
    BY <1>0, <2>2 DEF Collect, Newest
  <2>4. CASE Cardinality(rows) > me.limit \/ Cardinality(page) < Batch
    BY <2>1, <2>3, <2>4, WithRowsTypes
  <2>5. CASE ~(Cardinality(rows) > me.limit \/ Cardinality(page) < Batch)
    BY <2>1, <2>3, <2>5, NextBatchFacts, ContinueTypes
  <2> QED BY <2>4, <2>5
<1>7. CASE ReadUpcoming
  <2>1. PICK rows \in SUBSET Found(me, NoCursor), items \in SUBSET Found(me, NoCursor) :
          Reply(rows, items, FALSE)
    BY <1>7 DEF ReadUpcoming, Soonest
  <2>2. items \in SUBSET Item
    BY FoundFacts DEF Stored, NoCursor
  <2> QED BY <2>1, <2>2, ReplyTypes
<1>8. CASE ReadProfiles
  <2>1. {row \in me.got : row.author \in profiles} \in SUBSET Item /\ me.more \in BOOLEAN
    BY <1>0 DEF Reader
  <2> QED BY <1>8, <2>1, ReplyTypes DEF ReadProfiles
<1>9. CASE Fail
  <2>1. me' \in Reader
    BY <1>0, <1>9 DEF Fail, Reader, NoCursor
  <2> QED BY <1>9, <2>1 DEF Fail, tables, TypeOK
<1>10. CASE Edit
  BY <1>10, EditGrows
<1>11. CASE UNCHANGED vars
  BY <1>11 DEF vars, tables, TypeOK
<1> QED BY <1>1, <1>2, <1>3, <1>4, <1>5, <1>6, <1>7, <1>8, <1>9, <1>10, <1>11 DEF Next, Read

LEMMA InitTypes == Init => TypeOK
<1> SUFFICES ASSUME Init PROVE TypeOK
  OBVIOUS
<1>1. table \in [Events -> Row \cup {NoRow}]
  BY DEF Init
<1>2. \A e \in Events : table[e] # NoRow => table[e].at \in Nat \ {0}
  BY <1>1 DEF Row
<1>3. clock \in Nat \ {0} /\ today \in Int
  BY <1>2 DEF Init
<1>4. me \in Reader
  BY DEF Init, NewReader, Reader, Modes, NoCursor
<1>5. shown \in Seq(SUBSET Item)
  BY DEF Init
<1> QED BY <1>1, <1>3, <1>4, <1>5 DEF Init, TypeOK

\* Every variable keeps its type.
THEOREM TypesHold == Spec => []TypeOK
<1>1. TypeOK /\ [Next]_vars => TypeOK'
  BY TypeStep
<1> QED BY <1>1, InitTypes, PTL DEF Spec

-----------------------------------------------------------------------------
(* The invariant.                                                           *)

InShown(e) == \E i \in DOMAIN shown : e \in Ids(shown[i])

\* Pages have rows of events there were, and no event twice.
PagesApart ==
    /\ \A i \in DOMAIN shown : /\ IsFiniteSet(shown[i]) /\ Distinct(shown[i])
                               /\ \A x \in shown[i] : Stored(x)
    /\ \A i, j \in DOMAIN shown : i # j => Ids(shown[i]) \cap Ids(shown[j]) = {}

\* A scroll that goes on has shown what is not before its cursor.
CursorBehind ==
    /\ me.pc = "idle" => shown = <<>> /\ me.cursor = NoCursor /\ steady = {}
    /\ me.mode = "profile" => me.cursor = NoCursor /\ (me.pc # "done" => shown = <<>>)
    /\ me.pc \notin {"done", "dead"} =>
          \A i \in DOMAIN shown : \A x \in shown[i] : me.cursor # NoCursor /\ x.at >= me.cursor

\* The steady events are shown, or still to come.
SteadyToCome ==
    /\ \A e \in steady : Steady(e, table, follows, profiles, today, me.mode)
    /\ me.mode # "profile" =>
          \A e \in steady : /\ me.pc = "done" => InShown(e)
                            /\ me.pc \notin {"done", "dead"} =>
                                  InShown(e) \/ BeforeCursor(me.cursor, table[e].at)
    /\ me.pc = "dead" => profiles # Users

\* The pages of a scroll that goes on are full.
FullSoFar ==
    \A i \in DOMAIN shown :
        IF me.mode = "profile"
        THEN me.target # Viewer => Cardinality(shown[i]) <= MaxItems
        ELSE /\ Cardinality(shown[i]) <= me.limit
             /\ profiles = Users /\ (i < Len(shown) \/ me.pc \notin {"done", "dead"})
                => Cardinality(shown[i]) = me.limit

\* What a request may show.
MayShow(x) == x.id \in listed /\ (x.author \in heard \/ OwnList(me.mode, x.author))

\* Rows that were read for the page after the cursor.
Gathered(P) ==
    /\ P \in SUBSET Item /\ IsFiniteSet(P) /\ Distinct(P)
    /\ \A x \in P : Stored(x) /\ BeforeCursor(me.cursor, x.at) /\ MayShow(x)

\* A steady event is shown, among these rows, or after all of them.
Reached(P, more) ==
    \A e \in steady : \/ InShown(e) \/ e \in Ids(P)
                      \/ more /\ \A x \in P : x.at > table[e].at

\* The request under way, with the local variables r.
RequestOK(r) ==
    /\ Listed(table, r.mode) \subseteq listed /\ follows \subseteq heard
    /\ r.followed \subseteq heard
    /\ r.pc = "events" /\ r.mode = "feed" => r.today <= today
    /\ r.pc = "check" => r.mode = "profile"
    /\ r.pc \in {"follows", "profiles"} => r.mode \in {"feed", "past"}
    /\ r.pc = "events" /\ r.mode = "profile" => r.target \in heard \cup {Viewer}
    /\ (r.pc \in {"follows", "check"} \/ (r.mode # "feed" /\ r.pc # "profiles"))
       => r.got = {} /\ r.page = r.cursor
    /\ Gathered(r.got) /\ Cardinality(r.got) <= r.limit
    /\ r.page # r.cursor => r.page # NoCursor /\ BeforeCursor(r.cursor, r.page)
    /\ r.pc = "events" =>
          /\ \A x \in r.got : r.page # NoCursor /\ x.at >= r.page
          /\ r.mode \in {"feed", "past"} => \A e \in steady : table[e].author \in r.followed
          /\ r.mode # "profile" =>
                \A e \in steady : InShown(e) \/ e \in Ids(r.got) \/ BeforeCursor(r.page, table[e].at)
    /\ r.pc = "profiles" =>
          /\ r.got # {} /\ (r.more => Cardinality(r.got) = r.limit)
          /\ Reached(r.got, r.more)

FeedInv ==
    /\ TypeOK /\ PagesApart /\ CursorBehind /\ SteadyToCome /\ FullSoFar
    /\ Reading => RequestOK(me)

\* What a response has to be.
Answer(items, more) ==
    /\ Gathered(items)
    /\ IF me.mode = "profile"
       THEN ~more /\ (me.target # Viewer => Cardinality(items) <= MaxItems)
       ELSE /\ Cardinality(items) <= me.limit /\ Reached(items, more)
            /\ more /\ profiles = Users => Cardinality(items) = me.limit
    /\ more /\ items = {} => profiles # Users

\* The step of the property.
NewPageMayBeShown == shown' # shown => \A row \in shown'[Len(shown')] : MayShow(row)

-----------------------------------------------------------------------------
(* The steps.                                                               *)

LEMMA AnswerInv ==
    ASSUME FeedInv, Reading, NEW rows, NEW items, NEW more \in BOOLEAN,
           Answer(items, more), Reply(rows, items, more)
    PROVE  FeedInv' /\ NewPageMayBeShown
<1>0. /\ TypeOK /\ PagesApart /\ CursorBehind /\ SteadyToCome /\ FullSoFar
      /\ me.pc \in {"follows", "check", "events", "profiles"}
      /\ me \in Reader /\ profiles \subseteq Users
  BY DEF FeedInv, Reading, TypeOK
<1>1. items \in SUBSET Item /\ Gathered(items)
  BY DEF Answer, Gathered
<1>2. /\ me' \in Reader
      /\ me'.pc = IF ~more THEN "done" ELSE IF items = {} THEN "dead" ELSE "more"
      /\ me'.cursor = IF more /\ items # {} THEN LastAt(items) ELSE me.cursor
      /\ me'.mode = me.mode /\ me'.limit = me.limit /\ me'.target = me.target
      /\ me'.got = {}
      /\ shown' \in Seq(SUBSET Item) /\ Len(shown') = Len(shown) + 1
      /\ shown'[Len(shown) + 1] = items
      /\ \A i \in 1 .. Len(shown) : shown'[i] = shown[i]
      /\ UNCHANGED <<table, follows, profiles, clock, today, listed, heard, steady,
                     edits, faults>>
  <2>1. TypeOK /\ items \in SUBSET Item
    BY <1>0, <1>1
  <2> QED BY <2>1, ReplyFacts
<1> DEFINE n == Len(shown)
<1>n. /\ shown' \in Seq(SUBSET Item) /\ Len(shown') = n + 1 /\ shown'[n + 1] = items
      /\ \A i \in 1 .. n : shown'[i] = shown[i]
  BY <1>2
<1>3. n \in Nat /\ DOMAIN shown = 1 .. n /\ DOMAIN shown' = 1 .. n + 1
  BY <1>0, <1>2 DEF TypeOK
<1>4. TypeOK'
  BY <1>0, <1>1, ReplyTypes
<1>5. \A x : Stored(x)' <=> Stored(x)
  BY <1>2 DEF Stored
<1>6. \A e : /\ InShown(e) => InShown(e)'
             /\ e \in Ids(items) => InShown(e)'
  BY <1>n, <1>3 DEF InShown
<1> HIDE DEF n
<1>7. ASSUME NEW i \in 1 .. n PROVE Ids(shown[i]) \cap Ids(items) = {}
  <2>1. SUFFICES ASSUME NEW x \in shown[i], NEW y \in items, x.id = y.id PROVE FALSE
    BY DEF Ids
  <2>2. Stored(x) /\ Stored(y) /\ BeforeCursor(me.cursor, y.at)
    BY <1>0, <1>1, <1>3 DEF PagesApart, Gathered
  <2>3. me.cursor # NoCursor /\ x.at >= me.cursor
    BY <1>0, <1>3 DEF CursorBehind
  <2>4. x.at = y.at /\ x.at \in Nat /\ me.cursor \in Nat
    BY <1>0, <2>1, <2>2 DEF Stored, Item, Reader
  <2> QED BY <2>2, <2>3, <2>4 DEF BeforeCursor
<1>8. PagesApart'
  <2>1. ASSUME NEW i \in 1 .. n + 1
        PROVE  IsFiniteSet(shown'[i]) /\ Distinct(shown'[i]) /\ \A x \in shown'[i] : Stored(x)'
    <3>1. CASE i = n + 1
      BY <1>1, <1>n, <1>5, <3>1 DEF Gathered
    <3>2. CASE i # n + 1
      <4>1. i \in 1 .. n
        BY <1>3, <3>2
      <4> QED BY <1>0, <1>n, <1>3, <1>5, <4>1 DEF PagesApart
    <3> QED BY <3>1, <3>2
  <2>2. ASSUME NEW i \in 1 .. n + 1, NEW j \in 1 .. n + 1, i # j
        PROVE  Ids(shown'[i]) \cap Ids(shown'[j]) = {}
    <3>1. \A k \in 1 .. n + 1 : k # n + 1 => k \in 1 .. n
      BY <1>3
    <3>2. CASE i = n + 1
      BY <1>n, <1>7, <2>2, <3>1, <3>2
    <3>3. CASE j = n + 1
      BY <1>n, <1>7, <2>2, <3>1, <3>3
    <3>4. CASE i # n + 1 /\ j # n + 1
      BY <1>0, <1>n, <1>3, <2>2, <3>1, <3>4 DEF PagesApart
    <3> QED BY <3>2, <3>3, <3>4
  <2> QED BY <1>3, <2>1, <2>2 DEF PagesApart, Ids, Distinct
<1>9. CursorBehind'
  <2>1. me'.pc \in {"done", "dead", "more"}
    BY <1>2
  <2>2. me.mode = "profile" => me'.pc = "done" /\ me'.cursor = NoCursor
    BY <1>0, <1>2 DEF Answer, CursorBehind
  <2>3. ASSUME me'.pc = "more", NEW i \in 1 .. n + 1, NEW x \in shown'[i]
        PROVE  me'.cursor # NoCursor /\ x.at >= me'.cursor
    <3>1. more /\ items # {}
      BY <1>2, <2>3
    <3>2. /\ me'.cursor \in Nat /\ \A p \in items : me'.cursor <= p.at /\ p.at \in Nat
          /\ \E p \in items : me'.cursor = p.at
      BY <1>1, <1>2, <3>1, LastAtType DEF Item
    <3>3. PICK p \in items : me'.cursor = p.at
      BY <3>2
    <3>4. /\ Stored(p) /\ BeforeCursor(me.cursor, p.at) /\ me.cursor \in Nat
      BY <1>0, <1>1 DEF Gathered, Reader
    <3>5. me'.cursor # NoCursor
      <4>1. table[p.id] \in Row /\ table[p.id].at = p.at
        BY <1>0, <3>4 DEF TypeOK, Stored, Item
      <4> QED BY <3>3, <4>1 DEF Row, NoCursor
    <3>6. CASE i = n + 1
      BY <1>n, <2>3, <3>2, <3>5, <3>6
    <3>7. CASE i # n + 1
      <4>1. i \in 1 .. n /\ x \in shown[i]
        BY <1>n, <1>3, <2>3, <3>7
      <4>2. me.cursor # NoCursor /\ x.at >= me.cursor /\ x.at \in Nat
        BY <1>0, <1>3, <4>1 DEF CursorBehind, PagesApart, Stored, Item
      <4> QED BY <3>2, <3>3, <3>4, <3>5, <4>2 DEF BeforeCursor
    <3> QED BY <3>6, <3>7
  <2> QED BY <1>2, <1>n, <1>3, <2>1, <2>2, <2>3 DEF CursorBehind
<1>10. SteadyToCome'
  <2>1. \A e \in steady' : Steady(e, table', follows', profiles', today', me'.mode)
    BY <1>0, <1>2 DEF SteadyToCome
  <2>2. me'.pc = "dead" => profiles' # Users
    BY <1>2 DEF Answer
  <2>3. ASSUME me.mode # "profile", NEW e \in steady, ~InShown(e)'
        PROVE  me'.pc # "done" /\ (me'.pc = "more" => BeforeCursor(me'.cursor, table'[e].at))
    <3>1. more /\ \A x \in items : x.at > table[e].at
      BY <1>6, <2>3 DEF Answer, Reached
    <3>2. items # {} => \E p \in items : LastAt(items) = p.at
      BY <1>1, LastAtType
    <3> QED BY <1>2, <3>1, <3>2 DEF BeforeCursor
  <2>4. me'.pc \in {"done", "dead", "more"}
    BY <1>2
  <2> QED BY <1>2, <2>1, <2>2, <2>3, <2>4 DEF SteadyToCome
<1>11. FullSoFar'
  <2>1. ASSUME NEW i \in 1 .. n + 1
        PROVE  IF me'.mode = "profile"
               THEN me'.target # Viewer => Cardinality(shown'[i]) <= MaxItems
               ELSE /\ Cardinality(shown'[i]) <= me'.limit
                    /\ profiles' = Users /\ (i < n + 1 \/ me'.pc \notin {"done", "dead"})
                       => Cardinality(shown'[i]) = me'.limit
    <3>1. CASE i = n + 1
      <4>1. i < n + 1 \/ me'.pc \notin {"done", "dead"} => more
        BY <1>2, <1>3, <3>1
      <4> QED BY <1>2, <1>n, <3>1, <4>1 DEF Answer
    <3>2. CASE i # n + 1
      <4>1. i \in 1 .. n
        BY <1>3, <3>2
      <4>2. shown'[i] = shown[i]
        BY <1>n, <4>1
      <4> QED BY <1>0, <1>2, <1>n, <1>3, <4>1, <4>2 DEF FullSoFar
    <3> QED BY <3>1, <3>2
  <2> QED BY <1>2, <1>n, <1>3, <2>1 DEF FullSoFar
<1>12. ~Reading'
  BY <1>2 DEF Reading
<1>13. NewPageMayBeShown
  BY <1>1, <1>2 DEF Gathered, NewPageMayBeShown
<1> QED BY <1>4, <1>8, <1>9, <1>10, <1>11, <1>12, <1>13 DEF FeedInv

\* A query moves the request on; the rest stays.
LEMMA ContinueInv ==
    ASSUME FeedInv, Reading, NEW r \in Reader, Continue(r), RequestOK(r),
           r.pc \in {"events", "profiles"}, r.mode = me.mode, r.target = me.target,
           r.limit = me.limit, r.cursor = me.cursor
    PROVE  FeedInv' /\ NewPageMayBeShown
<1>0. /\ TypeOK /\ PagesApart /\ CursorBehind /\ SteadyToCome /\ FullSoFar
      /\ me.pc \in {"follows", "check", "events", "profiles"}
  BY DEF FeedInv, Reading
<1>1. /\ TypeOK' /\ me' = r
      /\ UNCHANGED <<table, follows, profiles, clock, today, shown, listed, heard, steady,
                     edits, faults>>
  BY <1>0, ContinueTypes
<1>2. /\ \A x : (Stored(x)' <=> Stored(x)) /\ (MayShow(x)' <=> MayShow(x))
      /\ \A e : InShown(e)' <=> InShown(e)
  BY <1>1 DEF Stored, MayShow, InShown
<1>3. PagesApart'
  BY <1>0, <1>1, <1>2 DEF PagesApart
<1>4. CursorBehind'
  BY <1>0, <1>1 DEF CursorBehind
<1>5. SteadyToCome'
  BY <1>0, <1>1, <1>2 DEF SteadyToCome
<1>6. FullSoFar'
  BY <1>0, <1>1 DEF FullSoFar
<1>7. \A P : (Gathered(P)' <=> Gathered(P))
  BY <1>1, <1>2 DEF Gathered
<1>8. \A P, more : (Reached(P, more)' <=> Reached(P, more))
  BY <1>1, <1>2 DEF Reached
<1>9. RequestOK(me)'
  BY <1>1, <1>2, <1>7, <1>8 DEF RequestOK
<1>10. NewPageMayBeShown
  BY <1>1 DEF NewPageMayBeShown
<1> QED BY <1>1, <1>3, <1>4, <1>5, <1>6, <1>9, <1>10 DEF FeedInv

\* No other event was created when a steady one was.
LEMMA SteadyIsAlone ==
    ASSUME SteadyToCome, NEW e \in steady, NEW x, Stored(x), x.id # e
    PROVE  x.at # table[e].at
BY DEF SteadyToCome, Steady, Stored, Item

\* What is kept of the rows that were read.
LEMMA TrimFacts ==
    ASSUME TypeOK, SteadyToCome, NEW rows, Gathered(rows),
           Reached(rows, Cardinality(rows) > me.limit), NEW kept \in Newest(rows, me.limit)
    PROVE  /\ Gathered(kept) /\ Cardinality(kept) <= me.limit
           /\ Cardinality(rows) > me.limit => Cardinality(kept) = me.limit /\ kept # {}
           /\ Reached(kept, Cardinality(rows) > me.limit)
<1>0. me.limit \in 1 .. MaxLimit /\ MaxLimit \in Nat /\ rows \in SUBSET Item /\ IsFiniteSet(rows)
  BY DEF TypeOK, Reader, Gathered
<1>1. /\ kept \subseteq rows /\ IsFiniteSet(kept) /\ Cardinality(kept) \in Nat
      /\ Cardinality(kept) <= me.limit
      /\ Cardinality(kept) < me.limit => kept = rows
      /\ \A p \in kept, s \in rows \ kept : p.at >= s.at
  BY <1>0, NewestFacts
<1>2. Cardinality(rows) \in Nat /\ Cardinality({}) = 0
  BY <1>0, FS_CardinalityType, FS_EmptySet
<1>3. Gathered(kept)
  BY <1>0, <1>1 DEF Gathered, Distinct
<1>4. Cardinality(rows) > me.limit => Cardinality(kept) = me.limit /\ kept # {}
  BY <1>0, <1>1, <1>2
<1>5. ~(Cardinality(rows) > me.limit) => kept = rows
  <2>1. HAVE ~(Cardinality(rows) > me.limit)
  <2>2. Cardinality(kept) = Cardinality(rows)
    BY <1>0, <1>1, <1>2, <2>1 DEF Newest, SizeUpTo
  <2> QED BY <1>0, <1>1, <2>2, FS_Subset
<1>6. ASSUME NEW e \in steady, ~InShown(e), e \notin Ids(kept)
      PROVE  Cardinality(rows) > me.limit /\ \A x \in kept : x.at > table[e].at
  <2>1. CASE e \in Ids(rows)
    <3>1. PICK s \in rows : s.id = e
      BY <2>1 DEF Ids
    <3>2. s \notin kept /\ Cardinality(rows) > me.limit
      BY <1>5, <1>6, <3>1 DEF Ids
    <3>3. ASSUME NEW x \in kept PROVE x.at > table[e].at
      <4>1. x \in rows /\ x.id # e /\ Stored(x) /\ Stored(s)
        BY <1>1, <1>6 DEF Ids, Gathered
      <4>2. x.at # table[e].at
        BY <4>1, SteadyIsAlone
      <4>3. s.at = table[e].at /\ s.at \in Nat /\ x.at \in Nat
        BY <3>1, <4>1 DEF Stored, Item
      <4> QED BY <1>1, <3>1, <3>2, <4>2, <4>3
    <3> QED BY <3>2, <3>3
  <2>2. CASE e \notin Ids(rows)
    BY <1>1, <1>6, <2>2 DEF Reached
  <2> QED BY <2>1, <2>2
<1> QED BY <1>1, <1>3, <1>4, <1>6 DEF Reached

LEMMA WithRowsInv ==
    ASSUME FeedInv, me.pc = "events", me.mode # "profile", NEW rows, Gathered(rows),
           Reached(rows, Cardinality(rows) > me.limit), WithRows(rows)
    PROVE  FeedInv' /\ NewPageMayBeShown
<1> DEFINE more == Cardinality(rows) > me.limit
<1>0. TypeOK /\ SteadyToCome /\ Reading /\ RequestOK(me) /\ me \in Reader
  BY DEF FeedInv, Reading, TypeOK
<1>1. PICK kept \in Newest(rows, me.limit) :
        IF me.mode = "mine" \/ kept = {} THEN Reply(rows, kept, more)
        ELSE Continue([me EXCEPT !.pc = "profiles", !.got = kept, !.more = more])
  BY DEF WithRows, Trimmed
<1>2. /\ Gathered(kept) /\ Cardinality(kept) <= me.limit
      /\ more => Cardinality(kept) = me.limit /\ kept # {}
      /\ Reached(kept, more) /\ more \in BOOLEAN
  BY <1>0, TrimFacts
<1> HIDE DEF more
<1>3. CASE me.mode = "mine" \/ kept = {}
  <2>1. Answer(kept, more)
    BY <1>2 DEF Answer
  <2> QED BY <1>0, <1>1, <1>2, <1>3, <2>1, AnswerInv
<1>4. CASE ~(me.mode = "mine" \/ kept = {})
  <2> DEFINE r == [me EXCEPT !.pc = "profiles", !.got = kept, !.more = more]
  <2>1. kept \in SUBSET Item
    BY <1>2 DEF Gathered
  <2>2. r \in Reader
    BY <1>0, <1>2, <2>1, ReaderTypes
  <2>3. /\ r.pc = "profiles" /\ r.got = kept /\ r.more = more /\ r.mode = me.mode
        /\ r.target = me.target /\ r.limit = me.limit /\ r.cursor = me.cursor
        /\ r.followed = me.followed /\ r.page = me.page /\ r.today = me.today
    BY <1>0 DEF Reader
  <2>4. Continue(r)
    BY <1>1, <1>4
  <2> HIDE DEF r
  <2>5. r.mode \in {"feed", "past"}
    BY <1>0, <1>4, <2>3 DEF Reader, Modes
  <2>6. RequestOK(r)
    BY <1>0, <1>2, <1>4, <2>3, <2>5 DEF RequestOK
  <2> QED BY <1>0, <2>2, <2>3, <2>4, <2>6, ContinueInv
<1> QED BY <1>3, <1>4

\* What a query finds may be shown.
LEMMA FoundGathered ==
    ASSUME FeedInv, me.pc = "events", NEW cursor \in Nat,
           cursor # me.cursor => cursor # NoCursor /\ BeforeCursor(me.cursor, cursor),
           NEW P \in SUBSET Found(me, cursor)
    PROVE  Gathered(P)
<1>0. TypeOK /\ RequestOK(me) /\ me \in Reader /\ me.cursor \in Nat
  BY DEF FeedInv, Reading, TypeOK, Reader
<1>1. /\ IsFiniteSet(Found(me, cursor)) /\ Distinct(Found(me, cursor))
      /\ \A x \in Found(me, cursor) : /\ Stored(x) /\ Exists(x.id) /\ Matches(me, table[x.id])
                                      /\ BeforeCursor(cursor, x.at)
  BY <1>0, FoundFacts
<1>2. IsFiniteSet(P) /\ Distinct(P)
  BY <1>1, FS_Subset DEF Distinct
<1>3. ASSUME NEW x \in P
      PROVE  x \in Item /\ Stored(x) /\ BeforeCursor(me.cursor, x.at) /\ MayShow(x)
  <2>1. /\ Stored(x) /\ Exists(x.id) /\ Matches(me, table[x.id]) /\ BeforeCursor(cursor, x.at)
        /\ x \in Item /\ x.at \in Nat /\ x.id \in Events
    BY <1>1 DEF Stored, Item
  <2>2. BeforeCursor(me.cursor, x.at)
    BY <1>0, <2>1 DEF BeforeCursor, NoCursor
  <2>3. table[x.id].visible \/ OwnList(me.mode, table[x.id].author)
    BY <2>1 DEF Matches, OwnList
  <2>4. x.id \in listed
    BY <1>0, <2>1, <2>3 DEF RequestOK, Listed, Exists
  <2>5. x.author \in heard \/ OwnList(me.mode, x.author)
    BY <1>0, <2>1 DEF RequestOK, Matches, OwnList, Stored
  <2> QED BY <2>1, <2>2, <2>4, <2>5 DEF MayShow
<1> QED BY <1>2, <1>3 DEF Gathered

LEMMA UpcomingEarlier ==
    ASSUME NEW row, NEW start \in Dates, NEW end \in Dates, row.start = start, row.end = end,
           NEW day \in Int, NEW d \in Int, d <= day, Upcoming(row, day)
    PROVE  Upcoming(row, d)
<1>1. start \in Int \/ start = NoDay
  BY DEF Dates
<1>2. end \in Int \/ end = NoDay
  BY DEF Dates
<1>3. (end # NoDay /\ end >= day) \/ (start # NoDay /\ start >= day)
  BY DEF Upcoming, SortDay
<1>4. (end # NoDay /\ end >= d) \/ (start # NoDay /\ start >= d)
  BY <1>1, <1>2, <1>3
<1> QED BY <1>4 DEF Upcoming, SortDay

\* The queries ask for the steady events.
LEMMA SteadyFound ==
    ASSUME FeedInv, me.pc = "events", me.mode # "profile", NEW e \in steady,
           NEW cursor \in Nat, BeforeCursor(cursor, table[e].at)
    PROVE  \E x \in Found(me, cursor) : /\ x.id = e /\ Stored(x)
                                        /\ me.mode = "feed" => Upcoming(x, me.today)
<1>0. /\ TypeOK /\ RequestOK(me) /\ SteadyToCome /\ me \in Reader /\ e \in Events
      /\ today \in Int /\ me.today \in Int
  BY DEF FeedInv, Reading, TypeOK, Reader
<1>1. /\ e \in Listed(table, me.mode)
      /\ table[e].author \in (IF me.mode = "mine" THEN {Viewer} ELSE follows \cap profiles)
      /\ me.mode = "feed" => Upcoming(table[e], today)
  BY <1>0 DEF SteadyToCome, Steady
<1>2. Exists(e) /\ (table[e].visible \/ OwnList(me.mode, table[e].author))
  BY <1>1 DEF Listed, Exists
<1>3. Matches(me, table[e])
  <2>1. CASE me.mode = "mine"
    BY <1>1, <2>1 DEF Matches
  <2>2. CASE me.mode \in {"feed", "past"}
    BY <1>0, <1>2, <2>2 DEF Matches, OwnList, RequestOK
  <2> QED BY <1>0, <2>1, <2>2 DEF Reader, Modes
<1>4. PICK x \in Found(me, cursor) : x.id = e
  BY <1>0, <1>2, <1>3, FoundFacts
<1>5. Stored(x) /\ x.start = table[e].start /\ x.end = table[e].end /\ x \in Item
  BY <1>0, <1>4, FoundFacts DEF Stored
<1>6. me.mode = "feed" => Upcoming(x, me.today)
  <2>1. HAVE me.mode = "feed"
  <2>2. Upcoming(x, today)
    BY <1>1, <1>5, <2>1 DEF Upcoming, SortDay
  <2>3. x.start \in Dates /\ x.end \in Dates /\ me.today <= today
    BY <1>0, <1>5, <2>1 DEF Item, RequestOK
  <2> QED BY <1>0, <2>2, <2>3, UpcomingEarlier
<1> QED BY <1>4, <1>5, <1>6

LEMMA ReadEventsInv ==
    ASSUME FeedInv, ReadEvents
    PROVE  FeedInv' /\ NewPageMayBeShown
<1>0. /\ TypeOK /\ RequestOK(me) /\ SteadyToCome /\ me \in Reader
      /\ me.pc = "events" /\ me.mode \in {"past", "mine"}
      /\ me.cursor \in Nat /\ me.limit \in Nat
  BY DEF FeedInv, Reading, TypeOK, Reader, ReadEvents
<1>1. PICK rows \in Newest(Found(me, me.cursor), me.limit + 1) : WithRows(rows)
  BY DEF ReadEvents
<1>2. /\ rows \subseteq Found(me, me.cursor) /\ Cardinality(rows) \in Nat
      /\ Cardinality(rows) <= me.limit + 1
      /\ Cardinality(rows) < me.limit + 1 => rows = Found(me, me.cursor)
      /\ \A p \in rows, s \in Found(me, me.cursor) \ rows : p.at >= s.at
  BY <1>0, <1>1, NewestFound
<1>3. Gathered(rows)
  BY <1>0, <1>2, FoundGathered
<1>4. ASSUME NEW e \in steady, ~InShown(e), e \notin Ids(rows)
      PROVE  Cardinality(rows) > me.limit /\ \A x \in rows : x.at > table[e].at
  <2>1. BeforeCursor(me.cursor, table[e].at)
    BY <1>0, <1>4 DEF RequestOK, Ids
  <2>2. PICK s \in Found(me, me.cursor) : s.id = e /\ Stored(s)
    BY <1>0, <2>1, SteadyFound
  <2>3. s \notin rows
    BY <1>4, <2>2 DEF Ids
  <2>4. Cardinality(rows) > me.limit
    BY <1>0, <1>2, <2>2, <2>3
  <2>5. ASSUME NEW x \in rows PROVE x.at > table[e].at
    <3>1. Stored(x) /\ x.id # e
      BY <1>3, <1>4 DEF Gathered, Ids
    <3>2. x.at # table[e].at
      BY <1>0, <3>1, SteadyIsAlone
    <3>3. x.at >= s.at /\ s.at = table[e].at /\ s.at \in Nat /\ x.at \in Nat
      BY <1>2, <2>2, <2>3, <3>1 DEF Stored, Item
    <3> QED BY <3>2, <3>3
  <2> QED BY <2>4, <2>5
<1>5. Reached(rows, Cardinality(rows) > me.limit)
  BY <1>4 DEF Reached
<1> QED BY <1>0, <1>1, <1>3, <1>5, WithRowsInv

\* What the batches have collected, after one more.
LEMMA CollectFacts ==
    ASSUME FeedInv, me.pc = "events", me.mode = "feed",
           NEW page \in Newest(Found(me, me.page), Batch), NEW rows \in Collect(page)
    PROVE  /\ Gathered(rows) /\ Cardinality(rows) \in Nat
           /\ \A x \in rows : x \in page \/ x \in me.got
           /\ \A x \in page : BeforeCursor(me.page, x.at)
           /\ \A e \in steady :
                 \/ InShown(e) \/ e \in Ids(rows)
                 \/ /\ \A x \in page : x.at > table[e].at
                    /\ BeforeCursor(me.page, table[e].at)
                    /\ Cardinality(page) < Batch => Cardinality(rows) > me.limit
                 \/ /\ Cardinality(rows) > me.limit
                    /\ \A x \in rows : x.at > table[e].at
<1> DEFINE S == {row \in page : Upcoming(row, me.today)}
           k == me.limit + 1 - Cardinality(me.got)
<1>0. /\ TypeOK /\ RequestOK(me) /\ SteadyToCome /\ me \in Reader
      /\ me.cursor \in Nat /\ me.limit \in Nat /\ me.page \in Nat
  BY DEF FeedInv, Reading, TypeOK, Reader
<1>1. /\ page \subseteq Found(me, me.page) /\ IsFiniteSet(page) /\ Cardinality(page) \in Nat
      /\ Cardinality(page) < Batch => page = Found(me, me.page)
      /\ \A p \in page, s \in Found(me, me.page) \ page : p.at >= s.at
  BY <1>0, NewestFound
<1>2. \A x \in page : BeforeCursor(me.page, x.at) /\ Stored(x) /\ x.at \in Nat
  BY <1>0, <1>1, FoundFacts DEF Stored, Item
<1>3. /\ Gathered(me.got) /\ IsFiniteSet(me.got) /\ Cardinality(me.got) \in Nat
      /\ Cardinality(me.got) <= me.limit
      /\ \A x \in me.got : me.page # NoCursor /\ x.at >= me.page /\ Stored(x) /\ x.at \in Nat
  <2>1. Gathered(me.got) /\ IsFiniteSet(me.got) /\ \A x \in me.got : Stored(x) /\ x.at \in Nat
    BY <1>0 DEF RequestOK, Gathered, Stored, Item
  <2> QED BY <1>0, <2>1, FS_CardinalityType DEF RequestOK
<1>4. PICK new \in Newest(S, k) : rows = me.got \cup new
  BY DEF Collect
<1>5. k \in Nat /\ k > 0
  BY <1>0, <1>3
<1>6. IsFiniteSet(S)
  BY <1>1, FS_Subset
<1>7. /\ new \subseteq S /\ IsFiniteSet(new) /\ Cardinality(new) \in Nat
      /\ Cardinality(new) < k => new = S
      /\ \A p \in new, s \in S \ new : p.at >= s.at
  <2> HIDE DEF S, k
  <2> QED BY <1>4, <1>5, <1>6, NewestFacts
<1>8. new \subseteq page
  BY <1>7
<1>9. \A x \in me.got, y \in page : x.at > y.at /\ x.id # y.id
  <2> SUFFICES ASSUME NEW x \in me.got, NEW y \in page PROVE x.at > y.at /\ x.id # y.id
    OBVIOUS
  <2>1. me.page # NoCursor /\ x.at >= me.page /\ y.at < me.page /\ x.at \in Nat /\ y.at \in Nat
    BY <1>2, <1>3 DEF BeforeCursor
  <2>2. x.at = table[x.id].at /\ y.at = table[y.id].at
    BY <1>2, <1>3 DEF Stored
  <2> QED BY <1>0, <2>1, <2>2
<1>10. /\ IsFiniteSet(rows) /\ Cardinality(rows) = Cardinality(me.got) + Cardinality(new)
  <2>1. me.got \cap new = {}
    BY <1>8, <1>9
  <2> QED BY <1>3, <1>4, <1>7, <2>1, DisjointUnion
<1>11. Gathered(page)
  BY <1>0, <1>1, FoundGathered DEF RequestOK
<1>12. Gathered(rows)
  <2>1. Distinct(rows)
    BY <1>3, <1>4, <1>8, <1>9, <1>11 DEF Gathered, Distinct
  <2> QED BY <1>3, <1>4, <1>8, <1>10, <1>11, <2>1 DEF Gathered
<1>13. Cardinality(rows) <= me.limit => new = S
  BY <1>0, <1>3, <1>5, <1>7, <1>10
<1>14. ASSUME NEW e \in steady, ~InShown(e), e \notin Ids(rows)
       PROVE  \/ /\ \A x \in page : x.at > table[e].at
                 /\ BeforeCursor(me.page, table[e].at)
                 /\ Cardinality(page) < Batch => Cardinality(rows) > me.limit
              \/ /\ Cardinality(rows) > me.limit
                 /\ \A x \in rows : x.at > table[e].at
  <2>1. BeforeCursor(me.page, table[e].at)
    BY <1>0, <1>4, <1>14 DEF RequestOK, Ids
  <2>2. PICK s \in Found(me, me.page) : s.id = e /\ Stored(s) /\ Upcoming(s, me.today)
    BY <1>0, <2>1, SteadyFound
  <2>3. s.at = table[e].at /\ s.at \in Nat
    BY <2>2 DEF Stored, Item
  <2>4. s \notin new
    BY <1>4, <1>14, <2>2 DEF Ids
  <2>5. CASE s \in page
    <3>1. s \in S \ new
      BY <2>2, <2>4, <2>5
    <3>2. Cardinality(rows) > me.limit
      BY <1>0, <1>3, <1>7, <1>10, <1>13, <3>1
    <3>3. ASSUME NEW x \in rows PROVE x.at > table[e].at
      <4>1. CASE x \in me.got
        BY <1>9, <2>3, <2>5, <4>1
      <4>2. CASE x \in new
        <5>1. x.at >= s.at /\ Stored(x) /\ x.id # e /\ x.at \in Nat
          BY <1>2, <1>7, <1>8, <1>14, <3>1, <4>2 DEF Ids
        <5>2. x.at # table[e].at
          BY <1>0, <5>1, SteadyIsAlone
        <5> QED BY <2>3, <5>1, <5>2
      <4> QED BY <1>4, <4>1, <4>2
    <3> QED BY <3>2, <3>3
  <2>6. CASE s \notin page
    <3>1. ~(Cardinality(page) < Batch)
      BY <1>1, <2>2, <2>6
    <3>2. ASSUME NEW x \in page PROVE x.at > table[e].at
      <4>1. x.at >= s.at /\ Stored(x) /\ x.at \in Nat
        BY <1>1, <1>2, <2>2, <2>6
      <4>2. x.id # e
        BY <1>0, <1>1, <2>2, <2>6, FoundFacts DEF Distinct
      <4>3. x.at # table[e].at
        BY <1>0, <4>1, <4>2, SteadyIsAlone
      <4> QED BY <2>3, <4>1, <4>3
    <3> QED BY <2>1, <3>1, <3>2
  <2> QED BY <2>5, <2>6
<1>15. /\ \A x \in rows : x \in page \/ x \in me.got
       /\ \A x \in page : BeforeCursor(me.page, x.at)
       /\ Cardinality(rows) \in Nat
  BY <1>2, <1>3, <1>4, <1>7, <1>8, <1>10
<1> HIDE DEF S, k
<1> QED BY <1>12, <1>14, <1>15

LEMMA ReadBatchInv ==
    ASSUME FeedInv, ReadBatch
    PROVE  FeedInv' /\ NewPageMayBeShown
<1>0. /\ TypeOK /\ RequestOK(me) /\ SteadyToCome /\ me \in Reader /\ Reading
      /\ me.pc = "events" /\ me.mode = "feed"
      /\ me.cursor \in Nat /\ me.limit \in Nat /\ me.page \in Nat
  <2>1. me.pc = "events" /\ me.mode = "feed" /\ Reading
    BY DEF Reading, ReadBatch
  <2>2. TypeOK /\ RequestOK(me) /\ SteadyToCome /\ me \in Reader
    BY <2>1 DEF FeedInv, TypeOK
  <2> QED BY <2>1, <2>2 DEF Reader
<1>1. PICK page \in Newest(Found(me, me.page), Batch) : \E rows \in Collect(page) :
        IF Cardinality(rows) > me.limit \/ Cardinality(page) < Batch THEN WithRows(rows)
        ELSE Continue([NextBatch(me, page) EXCEPT !.got = rows])
  BY DEF ReadBatch
<1>2. PICK rows \in Collect(page) :
        IF Cardinality(rows) > me.limit \/ Cardinality(page) < Batch THEN WithRows(rows)
        ELSE Continue([NextBatch(me, page) EXCEPT !.got = rows])
  BY <1>1
<1>3. /\ Gathered(rows) /\ Cardinality(rows) \in Nat
      /\ \A x \in rows : x \in page \/ x \in me.got
      /\ \A x \in page : BeforeCursor(me.page, x.at)
      /\ \A e \in steady :
            \/ InShown(e) \/ e \in Ids(rows)
            \/ /\ \A x \in page : x.at > table[e].at
               /\ BeforeCursor(me.page, table[e].at)
               /\ Cardinality(page) < Batch => Cardinality(rows) > me.limit
            \/ /\ Cardinality(rows) > me.limit
               /\ \A x \in rows : x.at > table[e].at
  BY <1>0, CollectFacts
<1>4. \A x \in me.got : me.page # NoCursor /\ x.at >= me.page /\ x.at \in Nat
  BY <1>0 DEF RequestOK, Gathered, Item
<1>5. CASE Cardinality(rows) > me.limit \/ Cardinality(page) < Batch
  <2>1. ASSUME NEW e \in steady, ~InShown(e), e \notin Ids(rows)
        PROVE  Cardinality(rows) > me.limit /\ \A x \in rows : x.at > table[e].at
    <3>1. CASE /\ \A x \in page : x.at > table[e].at
               /\ BeforeCursor(me.page, table[e].at)
               /\ Cardinality(page) < Batch => Cardinality(rows) > me.limit
      <4>1. table[e].at \in Nat
        <5>1. e \in Events /\ table[e] # NoRow /\ table[e] \in Row \cup {NoRow}
          BY <1>0 DEF SteadyToCome, Steady, Listed, TypeOK
        <5> QED BY <5>1 DEF Row
      <4>2. ASSUME NEW x \in me.got PROVE x.at > table[e].at
        BY <1>0, <1>4, <3>1, <4>1 DEF BeforeCursor
      <4> QED BY <1>3, <1>5, <3>1, <4>2
    <3> QED BY <1>3, <2>1, <3>1
  <2>2. Reached(rows, Cardinality(rows) > me.limit)
    BY <2>1 DEF Reached
  <2>3. WithRows(rows)
    BY <1>2, <1>5
  <2> QED BY <1>0, <1>3, <2>2, <2>3, WithRowsInv
<1>6. CASE ~(Cardinality(rows) > me.limit \/ Cardinality(page) < Batch)
  <2> DEFINE r == [NextBatch(me, page) EXCEPT !.got = rows]
             last == LastAt(page)
  <2>1. rows \in SUBSET Item
    BY <1>3 DEF Gathered
  <2>2. page # {} /\ page \in SUBSET Item /\ r \in Reader
    BY <1>0, <1>6, <2>1, NextBatchFacts
  <2>3. /\ r.pc = "events" /\ r.got = rows /\ r.page = last /\ r.mode = me.mode
        /\ r.target = me.target /\ r.limit = me.limit /\ r.cursor = me.cursor
        /\ r.followed = me.followed /\ r.today = me.today
    BY <1>0 DEF Reader, NextBatch
  <2>4. Continue(r)
    BY <1>2, <1>6
  <2>5. last \in Nat /\ (\A p \in page : last <= p.at /\ p.at \in Nat) /\ \E p \in page : last = p.at
    BY <2>2, LastAtType DEF Item
  <2> HIDE DEF r, last
  <2>6. last # NoCursor
    <3>1. \A p \in Found(me, me.page) : p.at # 0
      BY <1>0, FoundFacts
    <3> QED BY <2>5, <3>1 DEF Newest, NoCursor
  <2>7. BeforeCursor(me.page, last)
    BY <1>3, <2>5
  <2>8. BeforeCursor(me.cursor, last)
    <3>1. CASE me.page = me.cursor
      BY <2>7, <3>1
    <3>2. CASE me.page # me.cursor
      BY <1>0, <2>5, <2>7, <3>2 DEF RequestOK, BeforeCursor
    <3> QED BY <3>1, <3>2
  <2>9. ASSUME NEW x \in rows PROVE x.at >= last
    <3>1. CASE x \in page
      BY <2>5, <3>1
    <3>2. CASE x \in me.got
      BY <1>0, <1>4, <2>5, <2>7, <3>2 DEF BeforeCursor
    <3> QED BY <1>3, <3>1, <3>2
  <2>10. ASSUME NEW e \in steady, ~InShown(e), e \notin Ids(rows)
         PROVE  BeforeCursor(last, table[e].at)
    <3>1. \A x \in page : x.at > table[e].at
      BY <1>0, <1>3, <1>6, <2>10
    <3> QED BY <2>5, <3>1 DEF BeforeCursor
  <2>11. RequestOK(r)
    BY <1>0, <1>3, <1>6, <2>3, <2>6, <2>8, <2>9, <2>10 DEF RequestOK
  <2> QED BY <1>0, <2>2, <2>3, <2>4, <2>11, ContinueInv
<1> QED BY <1>5, <1>6

LEMMA ReadUpcomingInv ==
    ASSUME FeedInv, ReadUpcoming
    PROVE  FeedInv' /\ NewPageMayBeShown
<1> DEFINE found == Found(me, NoCursor)
           Parsed(rows) == {row \in rows : Upcoming(row, today)}
<1>0. /\ TypeOK /\ CursorBehind /\ Reading /\ me.pc = "events" /\ me.mode = "profile"
      /\ me.cursor = NoCursor /\ NoCursor \in Nat
  BY DEF FeedInv, Reading, CursorBehind, ReadUpcoming, NoCursor
<1>1. PICK rows \in SUBSET found :
        \E items \in Soonest(Parsed(rows), IF me.target = Viewer THEN Cardinality(Parsed(rows))
                                           ELSE MaxItems, today) :
           Reply(rows, items, FALSE)
  BY DEF ReadUpcoming
<1>2. PICK items \in Soonest(Parsed(rows), IF me.target = Viewer THEN Cardinality(Parsed(rows))
                                           ELSE MaxItems, today) :
           Reply(rows, items, FALSE)
  BY <1>1
<1>3. /\ items \subseteq Parsed(rows)
      /\ me.target # Viewer => Cardinality(items) = SizeUpTo(Parsed(rows), MaxItems)
  BY DEF Soonest
<1>4. IsFiniteSet(Parsed(rows))
  <2>1. IsFiniteSet(found)
    BY <1>0, FoundFacts
  <2>2. Parsed(rows) \subseteq found
    OBVIOUS
  <2> QED BY <2>1, <2>2, FS_Subset
<1>5. items \in SUBSET found
  BY <1>3
<1> HIDE DEF Parsed
<1>6. me.target # Viewer => Cardinality(items) <= MaxItems
  <2>1. Cardinality(Parsed(rows)) \in Nat
    BY <1>4, FS_CardinalityType
  <2> QED BY <1>3, <2>1 DEF SizeUpTo
<1>7. Gathered(items)
  BY <1>0, <1>5, FoundGathered
<1>8. Answer(items, FALSE)
  BY <1>0, <1>6, <1>7 DEF Answer
<1> QED BY <1>0, <1>2, <1>8, AnswerInv

LEMMA ReadProfilesInv ==
    ASSUME FeedInv, ReadProfiles
    PROVE  FeedInv' /\ NewPageMayBeShown
<1> DEFINE items == {row \in me.got : row.author \in profiles}
<1>0. /\ TypeOK /\ RequestOK(me) /\ SteadyToCome /\ Reading /\ me.pc = "profiles"
      /\ me.mode \in {"feed", "past"} /\ me.more \in BOOLEAN /\ me.limit \in Nat
      /\ Gathered(me.got) /\ IsFiniteSet(me.got) /\ me.got \in SUBSET Item
  BY DEF FeedInv, Reading, TypeOK, Reader, ReadProfiles, RequestOK, Gathered
<1>1. Reply(me.got, items, me.more)
  BY DEF ReadProfiles
<1>2. /\ items \subseteq me.got /\ IsFiniteSet(items)
      /\ Cardinality(items) <= Cardinality(me.got)
      /\ Cardinality(items) \in Nat /\ Cardinality(me.got) \in Nat
  <2>1. items \subseteq me.got
    OBVIOUS
  <2> HIDE DEF items
  <2> QED BY <1>0, <2>1, FS_Subset, FS_CardinalityType
<1>3. profiles = Users => items = me.got
  BY <1>0 DEF Item
<1>4. Gathered(items)
  BY <1>0, <1>2 DEF Gathered, Distinct
<1>5. ASSUME NEW e \in steady, ~InShown(e), e \notin Ids(items)
      PROVE  me.more /\ \A x \in items : x.at > table[e].at
  <2>1. ASSUME NEW x \in me.got, x.id = e PROVE FALSE
    <3>1. x.author \in profiles
      BY <1>0, <2>1 DEF SteadyToCome, Steady, Gathered, Stored
    <3> QED BY <1>5, <2>1, <3>1 DEF Ids
  <2>2. e \notin Ids(me.got)
    BY <2>1 DEF Ids
  <2>3. me.more /\ \A x \in me.got : x.at > table[e].at
    BY <1>0, <1>5, <2>2 DEF RequestOK, Reached
  <2> QED BY <2>3
<1>6. Reached(items, me.more)
  BY <1>5 DEF Reached
<1>7. /\ Cardinality(items) <= me.limit /\ (items = {} => profiles # Users)
      /\ me.more /\ profiles = Users => Cardinality(items) = me.limit
  <2>1. /\ me.got # {} /\ Cardinality(me.got) <= me.limit
        /\ me.more => Cardinality(me.got) = me.limit
    BY <1>0 DEF RequestOK
  <2> HIDE DEF items
  <2> QED BY <1>0, <1>2, <1>3, <2>1
<1> HIDE DEF items
<1>8. Answer(items, me.more)
  BY <1>0, <1>4, <1>6, <1>7 DEF Answer
<1> QED BY <1>0, <1>1, <1>8, AnswerInv

LEMMA NothingGathered ==
    Gathered({}) /\ Cardinality({}) = 0
BY FS_EmptySet DEF Gathered, Distinct

LEMMA ReadFollowsInv ==
    ASSUME FeedInv, ReadFollows
    PROVE  FeedInv' /\ NewPageMayBeShown
<1>0. /\ TypeOK /\ RequestOK(me) /\ SteadyToCome /\ Reading /\ me \in Reader /\ me.pc = "follows"
      /\ me.mode \in {"feed", "past"} /\ me.limit \in Nat /\ follows \in SUBSET Users
  BY DEF FeedInv, Reading, TypeOK, Reader, ReadFollows, RequestOK
<1>1. CASE follows = {}
  <2>1. steady = {}
    BY <1>0, <1>1 DEF SteadyToCome, Steady
  <2>2. Answer({}, FALSE)
    BY <1>0, <2>1, NothingGathered DEF Answer, Reached
  <2> QED BY <1>0, <1>1, <2>2, AnswerInv DEF ReadFollows
<1>2. CASE follows # {}
  <2> DEFINE r == [me EXCEPT !.pc = "events", !.followed = follows, !.today = today]
  <2>1. Continue(r)
    BY <1>2 DEF ReadFollows
  <2>2. r \in Reader /\ today \in Int
    BY <1>0 DEF TypeOK, Reader
  <2>3. /\ r.pc = "events" /\ r.got = me.got /\ r.page = me.page /\ r.mode = me.mode
        /\ r.target = me.target /\ r.limit = me.limit /\ r.cursor = me.cursor
        /\ r.followed = follows /\ r.today = today
    BY <1>0 DEF Reader
  <2> HIDE DEF r
  <2>4. /\ \A e \in steady : table[e].author \in follows
        /\ \A e \in steady : InShown(e) \/ BeforeCursor(me.cursor, table[e].at)
    BY <1>0 DEF SteadyToCome, Steady, FeedInv
  <2>5. RequestOK(r)
    BY <1>0, <2>2, <2>3, <2>4 DEF RequestOK
  <2> QED BY <1>0, <2>1, <2>2, <2>3, <2>5, ContinueInv
<1> QED BY <1>1, <1>2

LEMMA CheckFollowInv ==
    ASSUME FeedInv, CheckFollow
    PROVE  FeedInv' /\ NewPageMayBeShown
<1>0. /\ TypeOK /\ RequestOK(me) /\ Reading /\ me \in Reader /\ me.pc = "check"
      /\ me.mode = "profile" /\ follows \in SUBSET Users
  BY DEF FeedInv, Reading, TypeOK, CheckFollow, RequestOK
<1>1. CASE me.target \notin follows
  <2>1. Answer({}, FALSE)
    BY <1>0, NothingGathered DEF Answer
  <2> QED BY <1>0, <1>1, <2>1, AnswerInv DEF CheckFollow
<1>2. CASE me.target \in follows
  <2> DEFINE r == [me EXCEPT !.pc = "events"]
  <2>1. Continue(r)
    BY <1>2 DEF CheckFollow
  <2>2. r \in Reader
    BY <1>0, ReaderTypes
  <2>3. /\ r.pc = "events" /\ r.got = me.got /\ r.page = me.page /\ r.mode = me.mode
        /\ r.target = me.target /\ r.limit = me.limit /\ r.cursor = me.cursor
        /\ r.followed = me.followed /\ r.today = me.today
    BY <1>0 DEF Reader
  <2> HIDE DEF r
  <2>4. RequestOK(r)
    BY <1>0, <1>2, <2>3 DEF RequestOK
  <2> QED BY <1>0, <2>1, <2>2, <2>3, <2>4, ContinueInv
<1> QED BY <1>1, <1>2

\* A request begins; what was shown stays.
LEMMA ArriveInv ==
    ASSUME FeedInv, NEW r \in Reader, Arrive(r), UNCHANGED shown,
           steady' \subseteq {e \in Events : Steady(e, table, follows, profiles, today, r.mode)},
           r.cursor = me.cursor, me.pc \notin {"done", "dead"},
           shown # <<>> => r.mode = me.mode /\ r.target = me.target /\ r.limit = me.limit,
           r.mode = "profile" => r.cursor = NoCursor /\ shown = <<>>,
           r.mode # "profile" =>
              \A e \in steady' : InShown(e) \/ BeforeCursor(r.cursor, table[e].at)
    PROVE  FeedInv'
<1>0. /\ TypeOK /\ PagesApart /\ CursorBehind /\ FullSoFar /\ shown \in Seq(SUBSET Item)
      /\ today \in Int /\ r.limit \in Nat /\ r.cursor \in Nat
  BY DEF FeedInv, TypeOK, Reader
<1>1. /\ me' = [r EXCEPT !.pc = FirstQuery(r.mode, r.target), !.page = r.cursor,
                         !.got = {}, !.followed = {}, !.more = FALSE]
      /\ listed' = Listed(table, r.mode) /\ heard' = follows
      /\ UNCHANGED <<table, follows, profiles, clock, today, edits, faults, shown>>
  BY DEF Arrive, Goes, NoFault, tables
<1>2. /\ me'.pc = FirstQuery(r.mode, r.target) /\ me'.page = r.cursor /\ me'.got = {}
      /\ me'.followed = {} /\ me'.mode = r.mode /\ me'.target = r.target
      /\ me'.limit = r.limit /\ me'.cursor = r.cursor
  BY <1>1 DEF Reader
<1>3. TypeOK'
  BY <1>0, ArriveTypes
<1>4. \A x : Stored(x)' <=> Stored(x)
  BY <1>1 DEF Stored
<1>5. \A e : InShown(e)' <=> InShown(e)
  BY <1>1 DEF InShown
<1>6. PagesApart'
  BY <1>0, <1>1, <1>4 DEF PagesApart
<1>7. /\ me'.pc \in {"follows", "check", "events"}
      /\ me'.pc = "check" => r.mode = "profile"
      /\ me'.pc = "follows" <=> r.mode \in {"feed", "past"}
      /\ me'.pc = "events" /\ r.mode = "profile" => r.target = Viewer
  BY <1>2 DEF FirstQuery, Reader, Modes
<1>8. CursorBehind'
  BY <1>0, <1>1, <1>2, <1>7 DEF CursorBehind
<1>9. SteadyToCome'
  BY <1>1, <1>2, <1>5, <1>7 DEF SteadyToCome
<1>10. FullSoFar'
  BY <1>0, <1>1, <1>2, <1>7 DEF FullSoFar
<1>11. Gathered({})'
  BY FS_EmptySet DEF Gathered, Distinct
<1>12. RequestOK(me)'
  <2>1. Cardinality({}) = 0
    BY <1>0, NothingGathered
  <2>2. ASSUME me'.pc = "events"
        PROVE  /\ r.mode \notin {"feed", "past"}
               /\ r.mode # "profile" =>
                     \A e \in steady' : InShown(e)' \/ BeforeCursor(me'.page, table'[e].at)
    BY <1>1, <1>2, <1>5, <1>7, <2>2
  <2>3. /\ Listed(table', me'.mode) \subseteq listed' /\ follows' \subseteq heard'
        /\ me'.followed \subseteq heard' /\ me'.got = {} /\ me'.page = me'.cursor
        /\ Cardinality(me'.got) <= me'.limit
    BY <1>0, <1>1, <1>2, <2>1
  <2>4. Gathered(me.got)'
    BY <1>2, <1>11 DEF Gathered
  <2> QED BY <1>2, <1>7, <2>2, <2>3, <2>4 DEF RequestOK
<1> QED BY <1>3, <1>6, <1>8, <1>9, <1>10, <1>12 DEF FeedInv

LEMMA OpenListInv ==
    ASSUME FeedInv, OpenList
    PROVE  FeedInv' /\ NewPageMayBeShown
<1>0. /\ CursorBehind /\ me \in Reader /\ me.pc = "idle" /\ shown = <<>> /\ me.cursor = NoCursor
      /\ shown' = shown
  BY DEF FeedInv, TypeOK, OpenList, CursorBehind
<1>1. PICK mode \in Modes, limit \in Limits, target \in Users :
        /\ Arrive([me EXCEPT !.mode = mode, !.target = target, !.limit = CapLimit(limit)])
        /\ steady' = {e \in Events : Steady(e, table, follows, profiles, today, mode)}
  BY DEF OpenList
<1> DEFINE r == [me EXCEPT !.mode = mode, !.target = target, !.limit = CapLimit(limit)]
<1>2. CapLimit(limit) \in 1 .. MaxLimit
  BY DEF CapLimit
<1>3. r \in Reader /\ r.cursor = NoCursor /\ r.mode = mode
  BY <1>0, <1>2 DEF Reader
<1> HIDE DEF r
<1>4. FeedInv'
  <2>1. Arrive(r) /\ steady' \subseteq {e \in Events : Steady(e, table, follows, profiles, today, r.mode)}
    BY <1>1, <1>3 DEF r
  <2> QED BY <1>0, <1>3, <2>1, ArriveInv DEF BeforeCursor
<1> QED BY <1>0, <1>4 DEF NewPageMayBeShown

LEMMA ScrollInv ==
    ASSUME FeedInv, Scroll
    PROVE  FeedInv' /\ NewPageMayBeShown
<1>0. /\ TypeOK /\ CursorBehind /\ SteadyToCome /\ me \in Reader /\ me.pc = "more"
      /\ shown' = shown /\ steady' = steady /\ Arrive(me) /\ steady \subseteq Events
  BY DEF FeedInv, TypeOK, Scroll
<1>1. /\ steady' \subseteq {e \in Events : Steady(e, table, follows, profiles, today, me.mode)}
      /\ me.mode = "profile" => me.cursor = NoCursor /\ shown = <<>>
      /\ me.mode # "profile" =>
            \A e \in steady' : InShown(e) \/ BeforeCursor(me.cursor, table[e].at)
  BY <1>0 DEF CursorBehind, SteadyToCome
<1>2. FeedInv'
  BY <1>0, <1>1, ArriveInv
<1> QED BY <1>0, <1>2 DEF NewPageMayBeShown

\* A failed request leaves the scroll where it was.
LEMMA FailInv ==
    ASSUME FeedInv, Fail
    PROVE  FeedInv' /\ NewPageMayBeShown
<1>0. /\ TypeOK /\ PagesApart /\ CursorBehind /\ SteadyToCome /\ FullSoFar
      /\ me.pc \in {"follows", "check", "events", "profiles"} /\ me \in Reader
  BY DEF FeedInv, Reading, TypeOK, Fail
<1>1. TypeOK'
  BY <1>0, TypeStep DEF Next
<1>2. /\ me'.pc = "more" /\ me'.mode = me.mode /\ me'.target = me.target
      /\ me'.limit = me.limit /\ me'.cursor = me.cursor
      /\ UNCHANGED <<table, follows, profiles, clock, today, shown, listed, heard, steady>>
  BY <1>0 DEF Fail, tables, Reader
<1>3. \A x : Stored(x)' <=> Stored(x)
  BY <1>2 DEF Stored
<1>4. \A e : InShown(e)' <=> InShown(e)
  BY <1>2 DEF InShown
<1>5. PagesApart'
  BY <1>0, <1>2, <1>3 DEF PagesApart
<1>6. CursorBehind'
  BY <1>0, <1>2 DEF CursorBehind
<1>7. SteadyToCome'
  BY <1>0, <1>2, <1>4 DEF SteadyToCome
<1>8. FullSoFar'
  BY <1>0, <1>2 DEF FullSoFar
<1> QED BY <1>1, <1>2, <1>5, <1>6, <1>7, <1>8 DEF FeedInv, Reading, NewPageMayBeShown

\* Others can only take from what is steady.
LEMMA EditInv ==
    ASSUME FeedInv, Grows, TypeOK'
    PROVE  FeedInv' /\ NewPageMayBeShown
<1>0. /\ TypeOK /\ PagesApart /\ CursorBehind /\ SteadyToCome /\ FullSoFar
      /\ me \in Reader /\ profiles \subseteq Users /\ today \in Int /\ today' \in Int
      /\ Reading => RequestOK(me)
  BY DEF FeedInv, TypeOK
<1>1. /\ UNCHANGED <<me, shown, faults>>
      /\ profiles' \subseteq profiles /\ today <= today'
      /\ listed \subseteq listed' /\ heard \subseteq heard'
      /\ Reading => Listed(table', me.mode) \subseteq listed' /\ follows' \subseteq heard'
      /\ steady' \subseteq steady
      /\ \A e \in steady' : Steady(e, table', follows', profiles', today', me.mode)
  BY DEF Grows
<1>2. \A x : (Stored(x) => Stored(x)') /\ (MayShow(x) => MayShow(x)')
  BY <1>1 DEF Grows, Stored, MayShow, Item
<1>3. \A e : InShown(e)' <=> InShown(e)
  BY <1>1 DEF InShown
<1>4. \A e \in steady : table'[e].at = table[e].at /\ table'[e].author = table[e].author
  BY <1>0 DEF SteadyToCome, Steady, Listed, Grows
<1>5. PagesApart'
  BY <1>0, <1>1, <1>2 DEF PagesApart
<1>6. CursorBehind'
  BY <1>0, <1>1 DEF CursorBehind
<1>7. SteadyToCome'
  BY <1>0, <1>1, <1>3, <1>4 DEF SteadyToCome
<1>8. FullSoFar'
  <2>1. profiles' = Users => profiles = Users
    BY <1>0, <1>1
  <2> QED BY <1>0, <1>1, <2>1 DEF FullSoFar
<1>9. Reading' => RequestOK(me)'
  <2>1. HAVE Reading'
  <2>2. Reading /\ RequestOK(me)
    BY <1>0, <1>1, <2>1 DEF Reading
  <2>3. Gathered(me.got)'
    BY <1>1, <1>2, <2>2 DEF RequestOK, Gathered
  <2>4. Reached(me.got, me.more) => Reached(me.got, me.more)'
    BY <1>1, <1>3, <1>4 DEF Reached
  <2>5. me.pc = "events" /\ me.mode = "feed" => me.today <= today'
    BY <1>0, <1>1, <2>2 DEF RequestOK, Reader
  <2> QED BY <1>1, <1>3, <1>4, <2>2, <2>3, <2>4, <2>5 DEF RequestOK
<1>10. NewPageMayBeShown
  BY <1>1 DEF NewPageMayBeShown
<1> QED BY <1>5, <1>6, <1>7, <1>8, <1>9, <1>10 DEF FeedInv

LEMMA StepInv ==
    ASSUME FeedInv, [Next]_vars
    PROVE  FeedInv' /\ NewPageMayBeShown
<1>1. TypeOK /\ TypeOK'
  BY TypeStep DEF FeedInv
<1>2. CASE OpenList
  BY <1>2, OpenListInv
<1>3. CASE Scroll
  BY <1>3, ScrollInv
<1>4. CASE ReadFollows
  BY <1>4, ReadFollowsInv
<1>5. CASE CheckFollow
  BY <1>5, CheckFollowInv
<1>6. CASE ReadEvents
  BY <1>6, ReadEventsInv
<1>7. CASE ReadBatch
  BY <1>7, ReadBatchInv
<1>8. CASE ReadUpcoming
  BY <1>8, ReadUpcomingInv
<1>9. CASE ReadProfiles
  BY <1>9, ReadProfilesInv
<1>10. CASE Fail
  BY <1>10, FailInv
<1>11. CASE Edit
  BY <1>1, <1>11, EditGrows, EditInv
<1>12. CASE UNCHANGED vars
  <2>1. UNCHANGED <<table, follows, profiles, clock, today, me, shown, listed, heard, steady,
                    edits, faults>>
    BY <1>12 DEF vars, tables
  <2> QED BY <1>1, <2>1 DEF FeedInv, PagesApart, CursorBehind, SteadyToCome, FullSoFar, Reading,
               RequestOK, Gathered, Reached, InShown, Stored, MayShow, NewPageMayBeShown
<1> QED BY <1>2, <1>3, <1>4, <1>5, <1>6, <1>7, <1>8, <1>9, <1>10, <1>11, <1>12 DEF Next, Read

LEMMA InitInv == Init => FeedInv
<1> SUFFICES ASSUME Init PROVE FeedInv
  OBVIOUS
<1>1. TypeOK
  BY InitTypes
<1>2. /\ me = NewReader /\ shown = <<>> /\ steady = {} /\ DOMAIN shown = {}
  BY DEF Init
<1>3. me.pc = "idle" /\ me.mode = "feed" /\ me.cursor = NoCursor
  BY <1>2 DEF NewReader
<1> QED BY <1>1, <1>2, <1>3 DEF FeedInv, PagesApart, CursorBehind, SteadyToCome, FullSoFar, Reading

LEMMA FeedInvHolds == Spec => []FeedInv
<1>1. FeedInv /\ [Next]_vars => FeedInv'
  BY StepInv
<1> QED BY <1>1, InitInv, PTL DEF Spec

-----------------------------------------------------------------------------
(* The properties.                                                          *)

\* No scroll shows an event twice: what a page adds is strictly before the
\* cursor, and what was shown is not.
THEOREM NoRepeatsHolds == Spec => []NoRepeats
<1>1. FeedInv => NoRepeats
  <2> SUFFICES ASSUME FeedInv PROVE NoRepeats
    OBVIOUS
  <2>1. ASSUME NEW i \in DOMAIN shown
        PROVE  Cardinality(Ids(shown[i])) = Cardinality(shown[i])
    BY DistinctIds DEF FeedInv, PagesApart
  <2> QED BY <2>1 DEF FeedInv, PagesApart, NoRepeats
<1> QED BY <1>1, FeedInvHolds, PTL

\* A scroll that is told there is no more has shown every event that could be
\* seen all along and shares its created_at with no other.
THEOREM FinishedScrollIsCompleteHolds == Spec => []FinishedScrollIsComplete
<1>1. FeedInv => FinishedScrollIsComplete
  BY DEF FeedInv, SteadyToCome, InShown, FinishedScrollIsComplete
<1> QED BY <1>1, FeedInvHolds, PTL

\* Pages are full before the last one, as long as every author has a profile,
\* and never too long.
THEOREM PagesAreFullHolds == Spec => []PagesAreFull
<1>1. FeedInv => PagesAreFull
  <2> SUFFICES ASSUME FeedInv PROVE PagesAreFull
    OBVIOUS
  <2> QED BY DEF FeedInv, FullSoFar, PagesAreFull
<1> QED BY <1>1, FeedInvHolds, PTL

\* Every event of a page was visible in the feed at some moment of the request,
\* and its author followed at some moment; or it is the viewer's own, in a list
\* of the viewer's.
THEOREM ShowsOnlyWhatMayBeSeenHolds == Spec => ShowsOnlyWhatMayBeSeen
<1>1. FeedInv /\ [Next]_vars =>
         [shown' # shown => \A row \in shown'[Len(shown')] :
             row.id \in listed /\ (row.author \in heard \/ OwnList(me.mode, row.author))]_vars
  BY StepInv DEF NewPageMayBeShown, MayShow
<1> QED BY <1>1, FeedInvHolds, PTL DEF Spec, ShowsOnlyWhatMayBeSeen

-----------------------------------------------------------------------------
(* Requests end: the part of it that does not need fairness.                *)

\* What a request has still to do: its queries from the last backwards, where
\* the batches after the first are told apart by their page_cursor.
StageLeft(r) ==
    CASE r.pc \in {"follows", "check"}           -> 4
      [] r.pc = "events" /\ r.page = NoCursor    -> 3
      [] r.pc = "events" /\ r.page # NoCursor    -> 2
      [] r.pc = "profiles"                       -> 1
      [] OTHER                                   -> 0

PageLeft(r) == IF r.pc = "events" THEN r.page ELSE 0

Nearer(n, r) ==
    \/ StageLeft(n) < StageLeft(r)
    \/ StageLeft(n) = StageLeft(r) /\ PageLeft(n) < PageLeft(r)

\* There is no coming nearer for ever: of any requests one is the nearest.
THEOREM NoEndlessReading ==
    \A T \in SUBSET Reader : T # {} => \E r \in T : \A n \in T : ~Nearer(n, r)
<1> SUFFICES ASSUME NEW T \in SUBSET Reader, T # {}
             PROVE  \E r \in T : \A n \in T : ~Nearer(n, r)
  OBVIOUS
<1>1. \A r \in T : StageLeft(r) \in Nat /\ PageLeft(r) \in Nat
  BY DEF StageLeft, PageLeft, Reader
<1> DEFINE N1 == {StageLeft(r) : r \in T}
<1>2. PICK a \in N1 : \A b \in N1 : a <= b
  <2>1. N1 \in SUBSET Nat /\ N1 # {}
    BY <1>1
  <2> HIDE DEF N1
  <2> QED BY <2>1, LeastNumber
<1> DEFINE N2 == {PageLeft(r) : r \in {x \in T : StageLeft(x) = a}}
<1>3. PICK b \in N2 : \A c \in N2 : b <= c
  <2>1. N2 \in SUBSET Nat /\ N2 # {}
    BY <1>1, <1>2
  <2> HIDE DEF N2
  <2> QED BY <2>1, LeastNumber
<1>4. PICK r \in T : StageLeft(r) = a /\ PageLeft(r) = b
  BY <1>3
<1>5. ASSUME NEW n \in T PROVE ~Nearer(n, r)
  <2>1. a <= StageLeft(n)
    BY <1>2
  <2>2. StageLeft(n) = a => b <= PageLeft(n)
    BY <1>3
  <2> QED BY <1>1, <1>4, <2>1, <2>2 DEF Nearer
<1> QED BY <1>4, <1>5

LEMMA ReplyEnds ==
    ASSUME TypeOK, Reading, NEW rows, NEW items, NEW more, Reply(rows, items, more)
    PROVE  Nearer(me', me)
<1>1. me'.pc \in {"done", "dead", "more"}
  BY DEF Reply, Goes, TypeOK, Reader
<1>2. StageLeft(me') = 0 /\ StageLeft(me) \in {1, 2, 3, 4}
  BY <1>1 DEF Reading, StageLeft
<1> QED BY <1>2 DEF Nearer

LEMMA WithRowsNearer ==
    ASSUME TypeOK, me.pc = "events", NEW rows, WithRows(rows)
    PROVE  Nearer(me', me)
<1>1. PICK kept, more : \/ Reply(rows, kept, more)
                        \/ Continue([me EXCEPT !.pc = "profiles", !.got = kept, !.more = more])
  BY DEF WithRows
<1>2. CASE Reply(rows, kept, more)
  BY <1>2, ReplyEnds DEF Reading
<1>3. CASE Continue([me EXCEPT !.pc = "profiles", !.got = kept, !.more = more])
  <2>1. me'.pc = "profiles"
    BY <1>3 DEF Continue, Goes, TypeOK, Reader
  <2>2. StageLeft(me') = 1 /\ StageLeft(me) \in {2, 3}
    BY <2>1 DEF StageLeft
  <2> QED BY <2>2 DEF Nearer
<1> QED BY <1>1, <1>2, <1>3

LEMMA ReadNearer ==
    ASSUME TypeOK, Read \/ Fail
    PROVE  Nearer(me', me)
<1>0. me \in Reader /\ me.page \in Nat
  BY DEF TypeOK, Reader
<1>1. ASSUME me.pc \in {"follows", "check"}, me'.pc = "events"
      PROVE  Nearer(me', me)
  BY <1>1 DEF Nearer, StageLeft
<1>2. CASE ReadFollows
  <2>1. CASE follows = {}
    BY <1>2, <2>1, ReplyEnds DEF ReadFollows, Reading
  <2>2. CASE follows # {}
    BY <1>0, <1>1, <1>2, <2>2 DEF ReadFollows, Continue, Goes, Reader
  <2> QED BY <2>1, <2>2
<1>3. CASE CheckFollow
  <2>1. CASE me.target \notin follows
    BY <1>3, <2>1, ReplyEnds DEF CheckFollow, Reading
  <2>2. CASE me.target \in follows
    BY <1>0, <1>1, <1>3, <2>2 DEF CheckFollow, Continue, Goes, Reader
  <2> QED BY <2>1, <2>2
<1>4. CASE ReadEvents
  BY <1>4, WithRowsNearer DEF ReadEvents
<1>5. CASE ReadBatch
  <2>1. PICK page \in Newest(Found(me, me.page), Batch) : \E rows \in Collect(page) :
          IF Cardinality(rows) > me.limit \/ Cardinality(page) < Batch THEN WithRows(rows)
          ELSE Continue([NextBatch(me, page) EXCEPT !.got = rows])
    BY <1>5 DEF ReadBatch
  <2>2. PICK rows \in Collect(page) :
          IF Cardinality(rows) > me.limit \/ Cardinality(page) < Batch THEN WithRows(rows)
          ELSE Continue([NextBatch(me, page) EXCEPT !.got = rows])
    BY <2>1
  <2>3. me.pc = "events"
    BY <1>5 DEF ReadBatch
  <2>4. CASE Cardinality(rows) > me.limit \/ Cardinality(page) < Batch
    BY <2>2, <2>3, <2>4, WithRowsNearer
  <2>5. CASE ~(Cardinality(rows) > me.limit \/ Cardinality(page) < Batch)
    <3>1. page # {} /\ page \in SUBSET Item
      BY <2>5, NextBatchFacts
    <3>2. PICK p \in page : LastAt(page) = p.at
      BY <3>1, LastAtType
    <3>3. p \in Found(me, me.page)
      BY DEF Newest
    <3>4. BeforeCursor(me.page, p.at) /\ p.at # 0 /\ p.at \in Nat
      BY <1>0, <3>3, FoundFacts DEF Stored, Item
    <3>5. me'.pc = "events" /\ me'.page = p.at
      BY <1>0, <2>2, <2>3, <2>5, <3>2 DEF Continue, Goes, NextBatch, Reader
    <3> QED BY <1>0, <2>3, <3>4, <3>5 DEF Nearer, StageLeft, PageLeft, BeforeCursor, NoCursor
  <2> QED BY <2>4, <2>5
<1>6. CASE ReadUpcoming
  BY <1>6, ReplyEnds DEF ReadUpcoming, Reading
<1>7. CASE ReadProfiles
  BY <1>7, ReplyEnds DEF ReadProfiles, Reading
<1>8. CASE Fail
  <2>1. me'.pc = "more" /\ Reading
    BY <1>0, <1>8 DEF Fail, Reader
  <2>2. StageLeft(me') = 0 /\ StageLeft(me) \in {1, 2, 3, 4}
    BY <2>1 DEF Reading, StageLeft
  <2> QED BY <2>2 DEF Nearer
<1> QED BY <1>2, <1>3, <1>4, <1>5, <1>6, <1>7, <1>8 DEF Read

\* Every query of a request, and nothing else, takes it nearer to its response.
QueriesCount ==
    /\ Read \/ Fail => Nearer(me', me)
    /\ Reading /\ me' # me => Read \/ Fail

\* Collecting batches comes to an end however many events there are and are
\* inserted: every query of a request, and nothing else, takes it nearer to its
\* response, because each batch begins before all the rows of the one before.
THEOREM QueriesRunOut == Spec => [][QueriesCount]_vars
<1>1. TypeOK /\ [Next]_vars => [QueriesCount]_vars
  <2> SUFFICES ASSUME TypeOK, Next PROVE QueriesCount
    BY DEF vars
  <2>1. Read \/ Fail => Nearer(me', me)
    BY ReadNearer
  <2>2. ASSUME Reading, me' # me PROVE Read \/ Fail
    <3>1. ~OpenList /\ ~Scroll
      BY <2>2 DEF Reading, OpenList, Scroll
    <3>2. Edit => me' = me
      BY EditGrows DEF Grows
    <3> QED BY <2>2, <3>1, <3>2 DEF Next
  <2> QED BY <2>1, <2>2 DEF QueriesCount
<1> QED BY <1>1, TypesHold, PTL DEF Spec

\* Induction over the naturals, for a set: a least number outside it has no predecessor.
LEMMA Reaches ==
    ASSUME NEW S, 0 \in S, \A n \in Nat : n \in S => n + 1 \in S
    PROVE  Nat \subseteq S
<1> DEFINE T == {n \in Nat : n \notin S}
<1>1. CASE T # {}
  <2>1. PICK x \in T : \A y \in T : x <= y
    BY <1>1, LeastNumber
  <2>2. x # 0 /\ x \in Nat
    OBVIOUS
  <2>3. x - 1 \in Nat /\ x - 1 \notin T
    BY <2>1, <2>2
  <2> QED BY <2>2, <2>3
<1> QED BY <1>1

Orders(R, S) ==
    /\ \A x, y \in S : <<x, y>> \in R \/ <<y, x>> \in R
    /\ \A x, y, z \in S : <<x, y>> \in R /\ <<y, z>> \in R => <<x, z>> \in R

\* In a total order any part of a finite set has a first element...
LEMMA OneIsFirst ==
    ASSUME NEW S, IsFiniteSet(S), NEW R, Orders(R, S)
    PROVE  \A T \in SUBSET S : T # {} => \E x \in T : \A y \in T : <<x, y>> \in R
<1> DEFINE Sizes == {k \in Nat : \A T \in SUBSET S : T # {} /\ Cardinality(T) = k =>
                                     \E x \in T : \A y \in T : <<x, y>> \in R}
<1>0. \A T \in SUBSET S : IsFiniteSet(T) /\ Cardinality(T) \in Nat
  BY FS_Subset, FS_CardinalityType
<1>1. 0 \in Sizes
  BY <1>0, FS_EmptySet
<1>2. ASSUME NEW k \in Nat, k \in Sizes PROVE k + 1 \in Sizes
  <2> SUFFICES ASSUME NEW T \in SUBSET S, T # {}, Cardinality(T) = k + 1
               PROVE  \E x \in T : \A y \in T : <<x, y>> \in R
    OBVIOUS
  <2>1. PICK z \in T : TRUE
    OBVIOUS
  <2> DEFINE U == T \ {z}
  <2>2. U \in SUBSET S /\ Cardinality(U) = k
    <3>1. IsFiniteSet(T)
      BY <1>0
    <3>2. Cardinality(U) = Cardinality(T) - 1
      BY <2>1, <3>1, FS_RemoveElement
    <3> QED BY <3>2
  <2>3. CASE U = {}
    <3>1. T = {z} /\ <<z, z>> \in R
      BY <2>1, <2>3 DEF Orders
    <3> QED BY <3>1
  <2>4. CASE U # {}
    <3>1. PICK x \in U : \A y \in U : <<x, y>> \in R
      BY <1>2, <2>2, <2>4
    <3>2. CASE <<x, z>> \in R
      <4>1. \A y \in T : <<x, y>> \in R
        BY <3>1, <3>2
      <4> QED BY <4>1
    <3>3. CASE <<x, z>> \notin R
      <4>1. <<z, x>> \in R /\ <<z, z>> \in R
        BY <3>1, <3>3 DEF Orders
      <4>2. \A y \in T : y # z => <<x, y>> \in R
        BY <3>1
      <4>3. \A y \in T : <<z, y>> \in R
        BY <3>1, <4>1, <4>2 DEF Orders
      <4> QED BY <4>3
    <3> QED BY <3>2, <3>3
  <2> QED BY <2>3, <2>4
<1> HIDE DEF Sizes
<1>3. Nat \subseteq Sizes
  BY <1>1, <1>2, Reaches
<1>4. ASSUME NEW T \in SUBSET S, T # {}
      PROVE  \E x \in T : \A y \in T : <<x, y>> \in R
  <2>1. Cardinality(T) \in Sizes
    BY <1>0, <1>3
  <2> QED BY <1>4, <2>1 DEF Sizes
<1> QED BY <1>4

\* ...and the set has a first n of them.
LEMMA FirstExist ==
    ASSUME NEW S, IsFiniteSet(S), NEW R, Orders(R, S), NEW n \in Nat
    PROVE  \E P \in SUBSET S : /\ Cardinality(P) = SizeUpTo(S, n)
                               /\ \A p \in P, s \in S \ P : <<p, s>> \in R
<1> DEFINE Firsts(k) == {P \in SUBSET S : Cardinality(P) = k /\ \A p \in P, s \in S \ P : <<p, s>> \in R}
           Sizes == {k \in Nat : k <= Cardinality(S) => Firsts(k) # {}}
<1>0. Cardinality(S) \in Nat /\ \A T \in SUBSET S : IsFiniteSet(T) /\ Cardinality(T) \in Nat
  BY FS_Subset, FS_CardinalityType
<1>r. \A T \in SUBSET S : T # {} => \E x \in T : \A y \in T : <<x, y>> \in R
  BY OneIsFirst
<1>1. 0 \in Sizes
  <2>1. {} \in Firsts(0)
    BY FS_EmptySet
  <2> QED BY <2>1
<1>2. ASSUME NEW k \in Nat, k \in Sizes PROVE k + 1 \in Sizes
  <2> SUFFICES ASSUME k + 1 <= Cardinality(S) PROVE Firsts(k + 1) # {}
    OBVIOUS
  <2>1. PICK P \in Firsts(k) : TRUE
    BY <1>0, <1>2
  <2>2. /\ P \in SUBSET S /\ IsFiniteSet(P) /\ Cardinality(P) = k
        /\ \A p \in P, s \in S \ P : <<p, s>> \in R
    BY <1>0, <2>1
  <2>3. S \ P # {}
    <3>1. P # S
      BY <1>0, <2>2
    <3> QED BY <2>2, <3>1
  <2>4. PICK x \in S \ P : \A y \in S \ P : <<x, y>> \in R
    <3>1. S \ P \in SUBSET S
      OBVIOUS
    <3> QED BY <1>r, <2>3, <3>1
  <2> DEFINE Q == P \cup {x}
  <2>5. Q \in SUBSET S /\ Cardinality(Q) = k + 1
    <3>1. Cardinality(Q) = Cardinality(P) + 1
      BY <2>2, <2>4, FS_AddElement
    <3> QED BY <2>2, <2>4, <3>1
  <2>6. \A p \in Q, s \in S \ Q : <<p, s>> \in R
    BY <2>2, <2>4
  <2> HIDE DEF Q
  <2>7. Q \in Firsts(k + 1)
    BY <2>5, <2>6
  <2> QED BY <2>7
<1> HIDE DEF Sizes
<1>3. Nat \subseteq Sizes
  BY <1>1, <1>2, Reaches
<1>4. SizeUpTo(S, n) \in Nat /\ SizeUpTo(S, n) <= Cardinality(S)
  BY <1>0 DEF SizeUpTo
<1>5. Firsts(SizeUpTo(S, n)) # {}
  BY <1>3, <1>4 DEF Sizes
<1> QED BY <1>5

\* ORDER BY ... LIMIT always has an answer.
LEMMA NewestExist ==
    ASSUME NEW S \in SUBSET Item, IsFiniteSet(S), NEW n \in Nat
    PROVE  Newest(S, n) # {}
<1> DEFINE R == {w \in S \X S : w[1].at >= w[2].at}
<1>1. \A x \in S : x.at \in Nat
  BY DEF Item
<1>2. \A x, y \in S : <<x, y>> \in R <=> x.at >= y.at
  OBVIOUS
<1> HIDE DEF R
<1>3. PICK P \in SUBSET S : /\ Cardinality(P) = SizeUpTo(S, n)
                            /\ \A p \in P, s \in S \ P : <<p, s>> \in R
  <2>1. ASSUME NEW x \in S, NEW y \in S PROVE <<x, y>> \in R \/ <<y, x>> \in R
    BY <1>1, <1>2
  <2>2. ASSUME NEW x \in S, NEW y \in S, NEW z \in S, <<x, y>> \in R, <<y, z>> \in R
        PROVE  <<x, z>> \in R
    <3>1. x.at >= y.at /\ y.at >= z.at
      BY <1>2, <2>2
    <3> QED BY <1>1, <1>2, <3>1
  <2>3. Orders(R, S)
    BY <2>1, <2>2 DEF Orders
  <2> QED BY <2>3, FirstExist
<1>4. P \in Newest(S, n)
  BY <1>2, <1>3 DEF Newest
<1> QED BY <1>4

LEMMA SoonestExist ==
    ASSUME NEW S \in SUBSET Item, IsFiniteSet(S), NEW n \in Nat, NEW day \in Int,
           \A x \in S : Upcoming(x, day)
    PROVE  Soonest(S, n, day) # {}
<1> DEFINE R == {w \in S \X S : \/ SortDay(w[1], day) < SortDay(w[2], day)
                                \/ /\ SortDay(w[1], day) = SortDay(w[2], day)
                                   /\ w[1].at <= w[2].at}
<1>1. \A x \in S : x.at \in Nat /\ SortDay(x, day) \in Int
  <2> TAKE x \in S
  <2>1. x.at \in Nat /\ x.start \in Dates /\ x.end \in Dates
    BY DEF Item
  <2>2. SortDay(x, day) # NoDay
    BY DEF Upcoming
  <2>3. SortDay(x, day) \in {x.start, x.end, NoDay}
    BY DEF SortDay
  <2> QED BY <2>1, <2>2, <2>3 DEF Dates
<1>2. \A x, y \in S : <<x, y>> \in R <=> \/ SortDay(x, day) < SortDay(y, day)
                                         \/ SortDay(x, day) = SortDay(y, day) /\ x.at <= y.at
  OBVIOUS
<1> HIDE DEF R
<1>3. PICK P \in SUBSET S : /\ Cardinality(P) = SizeUpTo(S, n)
                            /\ \A p \in P, s \in S \ P : <<p, s>> \in R
  <2>1. ASSUME NEW x \in S, NEW y \in S PROVE <<x, y>> \in R \/ <<y, x>> \in R
    BY <1>1, <1>2
  <2>2. ASSUME NEW x \in S, NEW y \in S, NEW z \in S, <<x, y>> \in R, <<y, z>> \in R
        PROVE  <<x, z>> \in R
    <3>1. /\ \/ SortDay(x, day) < SortDay(y, day)
             \/ SortDay(x, day) = SortDay(y, day) /\ x.at <= y.at
          /\ \/ SortDay(y, day) < SortDay(z, day)
             \/ SortDay(y, day) = SortDay(z, day) /\ y.at <= z.at
      BY <1>2, <2>2
    <3> QED BY <1>1, <1>2, <3>1
  <2>3. Orders(R, S)
    BY <2>1, <2>2 DEF Orders
  <2> QED BY <2>3, FirstExist
<1>4. P \in Soonest(S, n, day)
  BY <1>2, <1>3 DEF Soonest
<1> QED BY <1>4

\* Every choice that the query under way leaves to the database exists.
HasAnswer ==
    /\ me.pc = "events" /\ me.mode \in {"past", "mine"} =>
          /\ Newest(Found(me, me.cursor), me.limit + 1) # {}
          /\ \A rows \in Newest(Found(me, me.cursor), me.limit + 1) : Trimmed(rows) # {}
    /\ me.pc = "events" /\ me.mode = "feed" =>
          /\ Newest(Found(me, me.page), Batch) # {}
          /\ \A page \in Newest(Found(me, me.page), Batch) :
                Collect(page) # {} /\ \A rows \in Collect(page) : Trimmed(rows) # {}
    /\ me.pc = "events" /\ me.mode = "profile" =>
          LET found == Found(me, NoCursor) IN
          \E rows \in {P \in SUBSET found : Cardinality(P) = SizeUpTo(found, FetchCap)} :
             LET parsed == {row \in rows : Upcoming(row, today)} IN
             Soonest(parsed, IF me.target = Viewer THEN Cardinality(parsed) ELSE MaxItems,
                     today) # {}

\* A request is never stuck: the rows, batches and pages its next query is to
\* give exist, and it never collects more than the page and one row, so that
\* the number of rows still wanted is a number.
THEOREM ReadingIsNeverStuck == Spec => []HasAnswer
<1>1. FeedInv => HasAnswer
  <2> SUFFICES ASSUME FeedInv PROVE HasAnswer
    OBVIOUS
  <2>0. /\ TypeOK /\ me \in Reader /\ me.cursor \in Nat /\ me.page \in Nat
        /\ me.limit \in Nat /\ today \in Int /\ NoCursor \in Nat
    BY DEF FeedInv, TypeOK, Reader, NoCursor
  <2>1. ASSUME NEW cursor \in Nat
        PROVE  Found(me, cursor) \in SUBSET Item /\ IsFiniteSet(Found(me, cursor))
    BY <2>0, FoundFacts DEF Stored
  <2>2. CASE me.pc = "events" /\ me.mode \in {"past", "mine"}
    <3> DEFINE found == Found(me, me.cursor)
    <3>1. found \in SUBSET Item /\ IsFiniteSet(found)
      BY <2>0, <2>1
    <3> HIDE DEF found
    <3>2. Newest(found, me.limit + 1) # {}
      BY <2>0, <3>1, NewestExist
    <3>3. ASSUME NEW rows \in Newest(found, me.limit + 1) PROVE Trimmed(rows) # {}
      <4>1. rows \in SUBSET Item /\ IsFiniteSet(rows)
        BY <3>1, FS_Subset DEF Newest
      <4> QED BY <2>0, <4>1, NewestExist DEF Trimmed
    <3> QED BY <2>2, <3>2, <3>3 DEF HasAnswer, found
  <2>3. CASE me.pc = "events" /\ me.mode = "feed"
    <3> DEFINE found == Found(me, me.page)
    <3>1. found \in SUBSET Item /\ IsFiniteSet(found)
      BY <2>0, <2>1
    <3>2. me.got \in SUBSET Item /\ IsFiniteSet(me.got) /\ Cardinality(me.got) <= me.limit
      BY <2>3 DEF FeedInv, Reading, RequestOK, Gathered
    <3>3. Cardinality(me.got) \in Nat
      BY <3>2, FS_CardinalityType
    <3> HIDE DEF found
    <3>4. Newest(found, Batch) # {}
      BY <3>1, NewestExist
    <3>5. ASSUME NEW page \in Newest(found, Batch)
          PROVE  Collect(page) # {} /\ \A rows \in Collect(page) : Trimmed(rows) # {}
      <4> DEFINE S == {row \in page : Upcoming(row, me.today)}
                 k == me.limit + 1 - Cardinality(me.got)
      <4>1. S \in SUBSET Item /\ IsFiniteSet(S)
        <5>1. page \in SUBSET found /\ IsFiniteSet(page)
          BY <3>1, FS_Subset DEF Newest
        <5> QED BY <3>1, <5>1, FS_Subset
      <4>2. k \in Nat
        BY <2>0, <3>2, <3>3
      <4>3. Collect(page) = {me.got \cup new : new \in Newest(S, k)}
        BY DEF Collect
      <4> HIDE DEF S, k
      <4>4. Newest(S, k) # {}
        BY <4>1, <4>2, NewestExist
      <4>5. ASSUME NEW rows \in Collect(page) PROVE Trimmed(rows) # {}
        <5>1. PICK new \in Newest(S, k) : rows = me.got \cup new
          BY <4>3
        <5>2. new \in SUBSET Item /\ IsFiniteSet(new)
          BY <4>1, FS_Subset DEF Newest
        <5>3. rows \in SUBSET Item /\ IsFiniteSet(rows)
          BY <3>2, <5>1, <5>2, FS_Union
        <5> QED BY <2>0, <5>3, NewestExist DEF Trimmed
      <4>6. Collect(page) # {}
        <5>1. PICK new \in Newest(S, k) : TRUE
          BY <4>4
        <5>2. me.got \cup new \in Collect(page)
          BY <4>3
        <5> QED BY <5>2
      <4> QED BY <4>5, <4>6
    <3> QED BY <2>3, <3>4, <3>5 DEF HasAnswer, found
  <2>4. CASE me.pc = "events" /\ me.mode = "profile"
    <3> DEFINE found == Found(me, NoCursor)
    <3>1. found \in SUBSET Item /\ IsFiniteSet(found)
      BY <2>0, <2>1
    <3> HIDE DEF found
    <3>2. PICK rows \in Newest(found, FetchCap) : TRUE
      BY <3>1, NewestExist
    <3>3. rows \in SUBSET found /\ Cardinality(rows) = SizeUpTo(found, FetchCap)
      BY DEF Newest
    <3> DEFINE parsed == {row \in rows : Upcoming(row, today)}
               n == IF me.target = Viewer THEN Cardinality(parsed) ELSE MaxItems
    <3>4. /\ parsed \in SUBSET Item /\ IsFiniteSet(parsed) /\ n \in Nat
          /\ \A x \in parsed : Upcoming(x, today)
      <4>1. parsed \in SUBSET found
        BY <3>3
      <4>2. IsFiniteSet(parsed)
        BY <3>1, <4>1, FS_Subset
      <4> QED BY <3>1, <4>1, <4>2, FS_CardinalityType
    <3>5. Soonest(parsed, n, today) # {}
      <4> HIDE DEF parsed, n
      <4> QED BY <2>0, <3>4, SoonestExist
    <3> QED BY <2>4, <3>3, <3>5 DEF HasAnswer, found
  <2> QED BY <2>2, <2>3, <2>4 DEF HasAnswer
<1> QED BY <1>1, FeedInvHolds, PTL

=============================================================================
