---------------------------- MODULE TasksPageProofs ----------------------------
(***************************************************************************)
(* What the tasks page promises for any number of tasks, members' changes, *)
(* requests in flight and any page size: the query behind it, the list on  *)
(* the screen, and edits that do not overwrite one another.                *)
(***************************************************************************)
EXTENDS TasksPage, FiniteSetTheorems, SequenceTheorems, WellFoundedInduction, TLAPS

(* While nothing is in doubt the page has one load in flight, and it is    *)
(* for the page and, once the form is at rest, the filter it stands at.    *)
LoadsCurrent ==
    ~doubt => \A c \in Calls : Listing(c) =>
        /\ \A d \in Calls : Listing(d) => d = c
        /\ call[c].page = page
        /\ ~typed => call[c].filter = filter

PageInv == TypeOK /\ LoadsCurrent /\ LatestShown

-----------------------------------------------------------------------------
(* The number of elements of S from i on. *)
Above(S, i) == {j \in S : j >= i}

(* A set of tasks can be listed newest first, each of them once: task i    *)
(* takes the place that Above(S, i) counts.                                *)
LEMMA Descending ==
    ASSUME NEW S \in SUBSET Ids
    PROVE  /\ Cardinality(S) \in 0..MaxTasks
           /\ \E s \in [1..Cardinality(S) -> S] : NewestFirst(s)
<1> USE TasksPageAssumption
<1> DEFINE n    == Cardinality(S)
           rank == [i \in S |-> Cardinality(Above(S, i))]
<1>0. \A i \in S : i \in Nat
  BY DEF Ids
<1>1. IsFiniteSet(S) /\ n \in 0..MaxTasks
  <2>1. IsFiniteSet(Ids) /\ Cardinality(Ids) = MaxTasks
    BY FS_Interval DEF Ids
  <2>2. IsFiniteSet(S) /\ Cardinality(S) <= MaxTasks
    BY <2>1, FS_Subset
  <2> QED
    BY <2>2, FS_CardinalityType
<1>2. ASSUME NEW i \in S
      PROVE  /\ IsFiniteSet(Above(S, i)) /\ i \in Above(S, i)
             /\ rank[i] = Cardinality(Above(S, i)) /\ rank[i] \in 1..n
  <2>1. Above(S, i) \subseteq S /\ i \in Above(S, i)
    BY DEF Above, Ids
  <2>2. IsFiniteSet(Above(S, i)) /\ Cardinality(Above(S, i)) <= n
    BY <1>1, <2>1, FS_Subset
  <2>3. Cardinality(Above(S, i)) \in Nat /\ Cardinality(Above(S, i)) # 0
    BY <2>1, <2>2, FS_CardinalityType, FS_EmptySet
  <2> QED
    BY <1>1, <2>1, <2>2, <2>3
<1>3. ASSUME NEW i \in S, NEW j \in S, i < j PROVE rank[j] < rank[i]
  <2>1. Above(S, j) \subseteq Above(S, i) /\ i \notin Above(S, j)
    <3>1. i \in Nat /\ j \in Nat /\ i < j
      BY <1>0, <1>3
    <3>2. ~(i >= j) /\ \A k \in Nat : k >= j => k >= i
      BY <3>1
    <3>3. i \notin Above(S, j)
      BY <3>2 DEF Above
    <3>4. ASSUME NEW k \in Above(S, j) PROVE k \in Above(S, i)
      BY <1>0, <3>2 DEF Above
    <3> QED
      BY <3>3, <3>4
  <2>2. Above(S, j) # Above(S, i)
    BY <1>2, <2>1
  <2>3. Cardinality(Above(S, j)) <= Cardinality(Above(S, i))
        /\ Cardinality(Above(S, j)) # Cardinality(Above(S, i))
    BY <1>2, <2>1, <2>2, FS_Subset
  <2> QED
    BY <1>1, <1>2, <2>3
<1> HIDE DEF rank
<1>4. rank \in Surjection(S, 1..n)
  <2>1. rank \in [S -> 1..n]
    BY <1>2 DEF rank
  <2>2. \A i, j \in S : rank[i] = rank[j] => i = j
    <3> SUFFICES ASSUME NEW i \in S, NEW j \in S, i # j PROVE rank[i] # rank[j]
      OBVIOUS
    <3>1. i < j \/ j < i
      BY DEF Ids
    <3>2. rank[i] \in Nat /\ rank[j] \in Nat
      BY <1>1, <1>2
    <3> QED
      BY <1>3, <3>1, <3>2
  <2>3. rank \in Injection(S, 1..n)
    BY <2>1, <2>2 DEF Injection, IsInjective
  <2>4. IsFiniteSet(1..n) /\ Cardinality(1..n) = n
    BY <1>1, FS_Interval
  <2> QED
    BY <2>3, <2>4, FS_Injection
<1>5. \A k \in 1..n : \E i \in S : rank[i] = k
  BY <1>4 DEF Surjection
<1> DEFINE s == [k \in 1..n |-> CHOOSE i \in S : rank[i] = k]
<1>6. s \in [1..n -> S] /\ \A k \in 1..n : rank[s[k]] = k
  BY <1>5
<1>7. NewestFirst(s)
  <2> SUFFICES ASSUME NEW k \in 1..n, NEW l \in 1..n, k < l PROVE s[k] > s[l]
    BY <1>6 DEF NewestFirst
  <2>1. s[k] \in S /\ s[l] \in S /\ rank[s[k]] = k /\ rank[s[l]] = l
    BY <1>6
  <2> HIDE DEF s
  <2>2. ~(s[k] < s[l]) /\ s[k] # s[l]
    BY <1>1, <1>3, <2>1
  <2> QED
    <3>1. s[k] \in Nat /\ s[l] \in Nat
      BY <1>0, <2>1
    <3> QED
      BY <2>2, <3>1
<1> QED
  BY <1>1, <1>6, <1>7

(* The query's answer lists the tasks that it finds, each of them, and     *)
(* newest first.                                                           *)
LEMMA MatchingLists ==
    ASSUME NEW f
    PROVE  /\ Matching(f) \in Seq(Found(f)) /\ Len(Matching(f)) \in 0..MaxTasks
           /\ Found(f) \subseteq Ids /\ \A i \in Found(f) : task[i].live
           /\ NewestFirst(Matching(f))
           /\ \A i \in Found(f) : \E k \in DOMAIN Matching(f) : Matching(f)[k] = i
<1> USE TasksPageAssumption
<1>1. Found(f) \in SUBSET Ids /\ \A i \in Found(f) : task[i].live
  BY DEF Found
<1> DEFINE n == Cardinality(Found(f))
           s == Matching(f)
<1>2. n \in 0..MaxTasks /\ \E t \in [1..n -> Found(f)] : NewestFirst(t)
  BY <1>1, Descending
<1>3. s \in [1..n -> Found(f)] /\ NewestFirst(s)
  BY <1>2 DEF Matching
<1>4. \A i \in Found(f) : \E k \in 1..n : s[k] = i
  <2> HIDE DEF s
  <2>1. IsFiniteSet(Ids) /\ IsFiniteSet(1..n) /\ Cardinality(1..n) = n
    BY <1>2, FS_Interval DEF Ids
  <2>2. IsFiniteSet(Found(f))
    BY <1>1, <2>1, FS_Subset
  <2>3. ASSUME NEW i \in 1..n, NEW j \in 1..n, i # j PROVE s[i] # s[j]
    <3>1. i \in Nat /\ j \in Nat
      BY <1>2
    <3>2. i < j \/ j < i
      BY <2>3, <3>1
    <3>3. s[i] > s[j] \/ s[j] > s[i]
      BY <1>3, <3>2 DEF NewestFirst
    <3>4. s[i] \in Nat /\ s[j] \in Nat
      BY <1>1, <1>3 DEF Ids
    <3> QED
      BY <3>3, <3>4
  <2>4. s \in Injection(1..n, Found(f))
    BY <1>3, <2>3 DEF Injection, IsInjective
  <2>5. s \in Surjection(1..n, Found(f))
    BY <2>1, <2>2, <2>4, FS_Injection
  <2> QED
    BY <2>5 DEF Surjection
<1> HIDE DEF n
<1>5. DOMAIN Matching(f) = 1..n
  BY <1>3
<1>6. Matching(f) \in Seq(Found(f)) /\ Len(Matching(f)) \in 0..MaxTasks
  BY <1>2, <1>3
<1> QED
  BY <1>1, <1>3, <1>4, <1>5, <1>6

(* A page holds PageSize of the items at most. *)
LEMMA SliceOfItems ==
    ASSUME NEW S, NEW s \in Seq(S), NEW p \in Nat \ {0}
    PROVE  Slice(s, p) \in Seq(S) /\ Len(Slice(s, p)) \in 0..PageSize
<1> USE TasksPageAssumption
<1> DEFINE m == (p - 1) * PageSize
           n == IF p * PageSize < Len(s) THEN p * PageSize ELSE Len(s)
<1>1. m \in Nat /\ p * PageSize = m + PageSize
  <2>1. p - 1 \in Nat /\ PageSize \in Nat
    OBVIOUS
  <2> QED
    BY <2>1
<1>2. n \in Nat /\ n <= m + PageSize /\ n <= Len(s)
  BY <1>1
<1>3. Slice(s, p) = SubSeq(s, m + 1, n)
  BY DEF Slice
<1> HIDE DEF m, n
<1>4. CASE m + 1 <= n
  <2>1. \A k \in 1..(n - (m + 1) + 1) : s[(m + 1) + k - 1] \in S
    BY <1>1, <1>2, <1>4
  <2> QED
    BY <1>1, <1>2, <1>3, <1>4, <2>1
<1>5. CASE ~(m + 1 <= n)
  BY <1>1, <1>2, <1>3, <1>5
<1> QED
  BY <1>4, <1>5

-----------------------------------------------------------------------------
(* What a slot holds, by its kind and phase. *)
LEMMA Slots ==
    ASSUME TypeOK, NEW c \in Calls
    PROVE  /\ Listing(c) => call[c] \in Loads
           /\ call[c].kind \in Changes /\ call[c].phase = "sent" => call[c] \in Bodies
           /\ call[c].kind \in Changes => call[c] # Idle /\ ~Listing(c)
           /\ call[c] = Idle => ~Listing(c)
<1>1. call[c] \in {Idle} \cup Loads \cup Bodies \cup Answered
  BY DEF TypeOK
<1> QED
  BY <1>1 DEF Listing, Idle, Loads, Bodies, Answered, Changes

(* What the body of a change says. *)
LEMMA BodyFields ==
    ASSUME NEW b \in Bodies
    PROVE  /\ b.kind \in Changes
           /\ b.kind = "create" => b.title \in Titles
           /\ b.kind = "remove" => b.id \in Ids
           /\ b.kind = "toggle" => b.id \in Ids /\ b.done \in BOOLEAN
                                   /\ DOMAIN b = {"kind", "phase", "id", "done"}
           /\ b.kind = "title" => b.id \in Ids /\ b.title \in Titles
                                  /\ DOMAIN b = {"kind", "phase", "id", "title"}
BY DEF Bodies, Changes

(* Tasks are created in order, patched and removed.                        *)
Backend ==
    /\ created' \in 0..MaxTasks /\ created <= created'
    /\ task' \in [Ids -> [live : BOOLEAN, done : BOOLEAN, title : Titles]]
    /\ \A i \in Ids : task'[i].live => i <= created'

LEMMA PatchMeans ==
    ASSUME TypeOK, NEW i \in Ids, NEW b, PatchRow(i, b), "live" \notin DOMAIN b,
           "done" \in DOMAIN b => b.done \in BOOLEAN,
           "title" \in DOMAIN b => b.title \in Titles
    PROVE  /\ Backend
           /\ "done" \notin DOMAIN b => \A j \in Ids : task'[j].done = task[j].done
           /\ "title" \notin DOMAIN b => \A j \in Ids : task'[j].title = task[j].title
<1> DEFINE row == [f \in DOMAIN task[i] |-> IF f \in DOMAIN b THEN b[f] ELSE task[i][f]]
<1>1. task' = [task EXCEPT ![i] = row] /\ created' = created
  BY DEF PatchRow
<1>2. task[i] \in [live : BOOLEAN, done : BOOLEAN, title : Titles]
  BY DEF TypeOK
<1>3. DOMAIN task[i] = {"live", "done", "title"}
  BY <1>2
<1>4. /\ row.live = task[i].live
      /\ row.done = IF "done" \in DOMAIN b THEN b.done ELSE task[i].done
      /\ row.title = IF "title" \in DOMAIN b THEN b.title ELSE task[i].title
  BY <1>3
<1>5. row \in [live : BOOLEAN, done : BOOLEAN, title : Titles]
  <2>1. row = [live |-> row.live, done |-> row.done, title |-> row.title]
    BY <1>3
  <2>2. row.live \in BOOLEAN /\ row.done \in BOOLEAN /\ row.title \in Titles
    BY <1>2, <1>4
  <2> HIDE DEF row
  <2> QED
    BY <2>1, <2>2
<1> HIDE DEF row
<1>6. created \in Nat /\ created <= created
  BY TasksPageAssumption DEF TypeOK
<1> QED
  BY <1>1, <1>4, <1>5, <1>6 DEF TypeOK, Backend

LEMMA BackendStep ==
    ASSUME TypeOK, [Next]_vars PROVE Backend
<1> USE TasksPageAssumption
<1>1. CASE UNCHANGED server
  BY <1>1 DEF server, TypeOK, Backend
<1>2. ASSUME NEW t \in Titles, CreateRow(t) PROVE Backend
  <2>1. created + 1 \in Ids /\ created + 1 <= MaxTasks
    BY <1>2 DEF CreateRow, Ids, TypeOK
  <2>2. \A i \in Ids : i <= created => i <= created + 1
    BY DEF Ids, TypeOK
  <2> QED
    BY <1>2, <2>1, <2>2 DEF CreateRow, TypeOK, Backend
<1>3. DefaultTitle \in Titles
  BY DEF DefaultTitle
<1>4. ASSUME NEW i \in Ids, RemoveRow(i) PROVE Backend
  <2>1. NoTask \in [live : BOOLEAN, done : BOOLEAN, title : Titles] /\ ~NoTask.live
    BY <1>3 DEF NoTask
  <2> QED
    BY <1>4, <2>1 DEF RemoveRow, TypeOK, Backend
<1>5. ASSUME NEW c \in Calls, Applied(c) PROVE Backend
  <2>1. PICK b : b = call[c]
    OBVIOUS
  <2>2. b \in Bodies
    BY <1>5, <2>1, Slots DEF Applied
  <2>3. CASE b.kind = "create"
    BY <1>2, <1>5, <2>1, <2>2, <2>3, BodyFields DEF Applied
  <2>4. CASE b.kind = "remove"
    BY <1>4, <1>5, <2>1, <2>2, <2>4, BodyFields DEF Applied
  <2>5. CASE b.kind \in {"toggle", "title"}
    <3>1. PatchRow(b.id, b)
      BY <1>5, <2>1, <2>5 DEF Applied
    <3> QED
      BY <2>2, <2>5, <3>1, BodyFields, PatchMeans
  <2> QED
    BY <2>2, <2>3, <2>4, <2>5, BodyFields DEF Changes
<1>6. CASE OtherMember
  <2>1. ASSUME NEW i \in Ids, PatchRow(i, [done |-> ~task[i].done]) PROVE Backend
    <3>1. PICK b : b = [done |-> ~task[i].done]
      OBVIOUS
    <3>2. DOMAIN b = {"done"} /\ b.done \in BOOLEAN
      BY <3>1 DEF TypeOK
    <3> QED
      BY <2>1, <3>1, <3>2, PatchMeans
  <2> QED
    BY <1>2, <1>3, <1>4, <1>6, <2>1 DEF OtherMember
<1> QED
  BY <1>1, <1>5, <1>6 DEF Next, User, Open, ToggleDone, SaveTitle, RemoveTask, GoToPage, AddTask,
     Send, Type, StartEdit, CancelEdit, Progress, ReadItems, ListArrives, ListFails, Debounced,
     ChangeArrives, ChangeFails, vars

-----------------------------------------------------------------------------
(* What has been read stays a list of created tasks. *)
LEMMA ListsGrow ==
    ASSUME TypeOK, Backend
    PROVE  Lists \subseteq Lists' /\ Results \subseteq Results' /\ Loads \subseteq Loads'
<1> USE TasksPageAssumption
<1>1. Rows \subseteq Rows'
  BY DEF Rows, TypeOK, Backend
<1>2. Lists \subseteq Lists'
  BY <1>1 DEF Lists
<1> QED
  BY <1>2 DEF Results, Loads

(* A slot is filled or emptied. *)
Slot == {Idle} \cup Loads \cup Bodies \cup Answered

LEMMA SlotSet ==
    ASSUME TypeOK, Backend, NEW c \in Calls, NEW r \in Slot', call' = [call EXCEPT ![c] = r]
    PROVE  /\ call' \in [Calls -> Slot'] /\ call'[c] = r
           /\ \A d \in Calls \ {c} : call'[d] = call[d] /\ (Listing(d)' <=> Listing(d))
<1>1. call \in [Calls -> Slot']
  BY ListsGrow DEF TypeOK, Slot
<1> QED
  BY <1>1 DEF Listing

(* A load is for the page given and the form as it stands. *)
LEMMA LoadSends ==
    ASSUME TypeOK, Backend, NEW c \in Calls, NEW p \in Nat \ {0}, Load(c, p)
    PROVE  /\ call' \in [Calls -> Slot']
           /\ Listing(c)' /\ call'[c].page = p /\ call'[c].filter = filter
           /\ \A d \in Calls \ {c} : call'[d] = call[d] /\ (Listing(d)' <=> Listing(d))
           /\ page' = p /\ loading' = TRUE /\ doubt' \in BOOLEAN
           /\ doubt' <=> \E d \in Calls \ {c} : Listing(d)
<1> DEFINE r == [kind |-> "list", phase |-> "sent", page |-> p, filter |-> filter, items |-> <<>>]
<1>1. <<>> \in Lists
  BY TasksPageAssumption DEF Lists
<1>2. r \in Loads
  BY <1>1 DEF Loads, TypeOK
<1>3. r \in Slot' /\ r.kind = "list" /\ r.page = p /\ r.filter = filter
  BY <1>2, ListsGrow DEF Slot
<1>4. call' = [call EXCEPT ![c] = r]
  BY DEF Load
<1> HIDE DEF r
<1>5. call' \in [Calls -> Slot'] /\ call'[c] = r
      /\ \A d \in Calls \ {c} : call'[d] = call[d] /\ (Listing(d)' <=> Listing(d))
  BY <1>3, <1>4, SlotSet
<1> QED
  BY <1>3, <1>5 DEF Load, Listing

(* A slot without a load is emptied or filled with a change. *)
LEMMA ChangeSends ==
    ASSUME TypeOK, Backend, NEW c \in Calls, NEW r \in {Idle} \cup Bodies \cup Answered,
           call' = [call EXCEPT ![c] = r], ~Listing(c)
    PROVE  /\ call' \in [Calls -> Slot']
           /\ \A d \in Calls : /\ Listing(d)' <=> Listing(d)
                               /\ Listing(d) => call'[d] = call[d]
<1>1. r \in Slot' /\ r.kind # "list"
  BY DEF Slot, Idle, Bodies, Answered, Changes
<1> QED
  BY <1>1, SlotSet DEF Listing

(* The rows that the backend has read. *)
LEMMA ReadMeans ==
    ASSUME TypeOK, Backend, NEW c \in Calls, ReadItems(c)
    PROVE  /\ call' \in [Calls -> Slot']
           /\ \A d \in Calls : /\ Listing(d)' <=> Listing(d)
                               /\ Listing(d) => call'[d].page = call[d].page
                                                /\ call'[d].filter = call[d].filter
<1> DEFINE ids   == Slice(Matching(call[c].filter), call[c].page)
           items == [k \in DOMAIN ids |-> Row(ids[k])]
           r     == [call[c] EXCEPT !.items = items, !.phase = "read"]
<1> USE TasksPageAssumption
<1>1. call[c] \in Loads
  BY Slots DEF ReadItems
<1>2. PICK f \in Filters, p \in Nat \ {0} : f = call[c].filter /\ p = call[c].page
  BY <1>1 DEF Loads
<1>3. /\ Matching(f) \in Seq(Found(f))
      /\ Found(f) \subseteq Ids /\ \A i \in Found(f) : task[i].live
  BY MatchingLists
<1>4. ids \in Seq(Found(f)) /\ Len(ids) \in 0..PageSize
  BY <1>2, <1>3, SliceOfItems
<1>5. \A i \in Found(f) : Row(i) \in Rows
  BY <1>3 DEF Row, Rows, Ids, TypeOK
<1>6. items \in Lists
  <2> HIDE DEF ids
  <2>1. DOMAIN ids = 1..Len(ids) /\ \A k \in DOMAIN ids : ids[k] \in Found(f)
    BY <1>4
  <2>2. \A k \in DOMAIN ids : Row(ids[k]) \in Rows
    BY <1>5, <2>1
  <2>3. items \in [1..Len(ids) -> Rows]
    BY <2>1, <2>2
  <2>4. items \in Seq(Rows) /\ Len(items) = Len(ids)
    BY <1>4, <2>3
  <2> QED
    BY <1>4, <2>4 DEF Lists
<1>7. call' = [call EXCEPT ![c] = r]
  BY DEF ReadItems
<1> HIDE DEF items
<1>8. r \in Loads /\ r.kind = "list" /\ r.page = call[c].page /\ r.filter = call[c].filter
  BY <1>1, <1>6 DEF Loads
<1> HIDE DEF r
<1>9. r \in Slot'
  BY <1>8, ListsGrow DEF Slot
<1>10. call' \in [Calls -> Slot'] /\ call'[c] = r
       /\ \A d \in Calls \ {c} : call'[d] = call[d] /\ (Listing(d)' <=> Listing(d))
  BY <1>7, <1>9, SlotSet
<1> QED
  BY <1>8, <1>10 DEF Listing, ReadItems

(* An answer, or a failure, ends the load. *)
LEMMA LoadEnds ==
    ASSUME TypeOK, Backend, NEW c \in Calls, Listing(c), call' = [call EXCEPT ![c] = Idle]
    PROVE  /\ call' \in [Calls -> Slot'] /\ ~Listing(c)'
           /\ \A d \in Calls \ {c} : call'[d] = call[d] /\ (Listing(d)' <=> Listing(d))
BY SlotSet DEF Slot, Listing, Idle

-----------------------------------------------------------------------------
LEMMA UsesStep == ASSUME TypeOK, [Next]_vars PROVE uses' \in 0..MaxUses
BY TasksPageAssumption DEF TypeOK, Next, Progress, vars

LEMMA Editable ==
    ASSUME TypeOK, Backend
    PROVE  /\ {0, editing} \subseteq {0} \cup 1..created'
           /\ \A e \in Rows : e.id \in 1..created' /\ e.id \in Ids /\ e.done \in BOOLEAN
           /\ Shown => Items \subseteq Rows
<1> USE TasksPageAssumption
<1>1. created \in 0..MaxTasks /\ created' \in 0..MaxTasks /\ created <= created'
  BY DEF TypeOK, Backend
<1>2. Shown => Items \subseteq Rows
  BY DEF Shown, Items, TypeOK, Results, Lists
<1>3. 1..created \subseteq 1..created' /\ 1..created \subseteq Ids
  BY <1>1 DEF Ids
<1> QED
  BY <1>2, <1>3 DEF TypeOK, Rows

(* The parts of the state that are typed here. *)
Typed ==
    /\ page' \in Nat \ {0} /\ filter' \in Filters /\ editing' \in {0} \cup 1..created'
    /\ typed' \in BOOLEAN /\ loading' \in BOOLEAN /\ doubt' \in BOOLEAN
    /\ result' \in {None} \cup Results'
    /\ call' \in [Calls -> Slot']

Kept == Typed /\ LoadsCurrent' /\ LatestShown'

(* A load is begun: alone it is for what the page now stands at, and       *)
(* overlapping another it leaves a doubt.                                  *)
LEMMA LoadKeeps ==
    ASSUME PageInv, Backend, NEW c \in Calls, NEW p \in Nat \ {0}, Load(c, p),
           UNCHANGED <<filter, result, editing>>, typed' \in {typed, FALSE}
    PROVE  Kept
<1>1. TypeOK
  BY DEF PageInv
<1>2. /\ call' \in [Calls -> Slot']
      /\ Listing(c)' /\ call'[c].page = p /\ call'[c].filter = filter
      /\ \A d \in Calls \ {c} : Listing(d)' <=> Listing(d)
      /\ page' = p /\ loading' = TRUE /\ doubt' \in BOOLEAN
      /\ doubt' <=> \E d \in Calls \ {c} : Listing(d)
  BY <1>1, LoadSends
<1>3. LoadsCurrent'
  BY <1>2 DEF LoadsCurrent
<1>4. LatestShown'
  BY <1>2 DEF LatestShown
<1>5. Typed
  BY <1>1, <1>2, ListsGrow, Editable DEF TypeOK, Typed
<1> QED
  BY <1>3, <1>4, <1>5 DEF Kept

(* The loads in flight and what they are for stay as they are. *)
LEMMA QuietKeeps ==
    ASSUME PageInv, Backend, call' \in [Calls -> Slot'],
           \A d \in Calls : /\ Listing(d)' <=> Listing(d)
                            /\ Listing(d) => call'[d].page = call[d].page
                                             /\ call'[d].filter = call[d].filter,
           UNCHANGED <<page, result, loading, doubt>>,
           UNCHANGED <<filter, typed>> \/ (filter' \in Filters /\ typed' = TRUE),
           editing' \in {0} \cup 1..created'
    PROVE  Kept
<1>1. TypeOK /\ LoadsCurrent /\ LatestShown
  BY DEF PageInv
<1>2. LoadsCurrent'
  BY <1>1 DEF LoadsCurrent
<1>3. LatestShown'
  BY <1>1 DEF LatestShown
<1>4. Typed
  BY <1>1, ListsGrow DEF TypeOK, Typed
<1> QED
  BY <1>2, <1>3, <1>4 DEF Kept

(* What the user and the other members do. *)
LEMMA UserKeeps ==
    ASSUME PageInv, Backend, NEW c \in Calls, User(c) PROVE Kept
<1> USE TasksPageAssumption
<1>1. TypeOK
  BY DEF PageInv
<1>2. 1 \in Nat \ {0} /\ page \in Nat \ {0}
  BY <1>1 DEF TypeOK
<1>3. ASSUME NEW r \in Bodies, call[c] = Idle, call' = [call EXCEPT ![c] = r],
             UNCHANGED <<page, filter, typed, result, loading, doubt>>, editing' \in {editing, 0}
      PROVE  Kept
  <2>1. /\ call' \in [Calls -> Slot']
        /\ \A d \in Calls : /\ Listing(d)' <=> Listing(d)
                            /\ Listing(d) => call'[d] = call[d]
    BY <1>1, <1>3, ChangeSends, Slots
  <2>2. editing' \in {0} \cup 1..created'
    BY <1>1, <1>3, Editable
  <2> QED
    BY <1>3, <2>1, <2>2, QuietKeeps
<1>4. CASE Open(c)
  BY <1>2, <1>4, LoadKeeps DEF Open
<1>5. ASSUME NEW p \in Ids, GoToPage(c, p) PROVE Kept
  <2>1. p \in Nat \ {0}
    BY DEF Ids
  <2> QED
    BY <1>5, <2>1, LoadKeeps DEF GoToPage
<1>6. ASSUME NEW t \in Titles, AddTask(c, t) PROVE Kept
  <2> DEFINE r == [kind |-> "create", phase |-> "sent", title |-> t]
  <2>1. r \in Bodies
    BY DEF Bodies
  <2>2. /\ call[c] = Idle /\ call' = [call EXCEPT ![c] = r]
        /\ UNCHANGED <<page, filter, typed, result, loading, doubt, editing>>
    BY <1>6 DEF AddTask, Send, view
  <2> HIDE DEF r
  <2> QED
    BY <1>3, <2>1, <2>2
<1>7. CASE ToggleDone(c)
  <2>1. PICK x \in Rows : Send(c, [kind |-> "toggle", phase |-> "sent", id |-> x.id, done |-> ~x.done])
    BY <1>1, <1>7, Editable DEF ToggleDone
  <2> DEFINE r == [kind |-> "toggle", phase |-> "sent", id |-> x.id, done |-> ~x.done]
  <2>2. r \in Bodies
    BY <1>1, Editable DEF Bodies
  <2>3. /\ call[c] = Idle /\ call' = [call EXCEPT ![c] = r]
        /\ UNCHANGED <<page, filter, typed, result, loading, doubt, editing>>
    BY <2>1 DEF Send, view
  <2> HIDE DEF r
  <2> QED
    BY <1>3, <2>2, <2>3
<1>8. CASE SaveTitle(c)
  <2>1. PICK x \in Rows, t \in Titles :
            /\ Left(x) /\ call[c] = Idle
            /\ call' = [call EXCEPT ![c] = [kind |-> "title", phase |-> "sent", id |-> x.id,
                                            title |-> t]]
    BY <1>1, <1>8, Editable DEF SaveTitle
  <2> DEFINE r == [kind |-> "title", phase |-> "sent", id |-> x.id, title |-> t]
  <2>2. r \in Bodies
    BY <1>1, Editable DEF Bodies
  <2>3. /\ call[c] = Idle /\ call' = [call EXCEPT ![c] = r]
        /\ UNCHANGED <<page, filter, typed, result, loading, doubt>> /\ editing' = 0
    BY <1>8, <2>1 DEF SaveTitle, Left
  <2> HIDE DEF r
  <2> QED
    BY <1>3, <2>2, <2>3
<1>9. CASE RemoveTask(c)
  <2>1. PICK x \in Rows : Send(c, [kind |-> "remove", phase |-> "sent", id |-> x.id])
    BY <1>1, <1>9, Editable DEF RemoveTask
  <2> DEFINE r == [kind |-> "remove", phase |-> "sent", id |-> x.id]
  <2>2. r \in Bodies
    BY <1>1, Editable DEF Bodies
  <2>3. /\ call[c] = Idle /\ call' = [call EXCEPT ![c] = r]
        /\ UNCHANGED <<page, filter, typed, result, loading, doubt, editing>>
    BY <2>1 DEF Send, view
  <2> HIDE DEF r
  <2> QED
    BY <1>3, <2>2, <2>3
<1> QED
  BY <1>4, <1>5, <1>6, <1>7, <1>8, <1>9 DEF User

(* What the requests of the page come to. *)
LEMMA RequestKeeps ==
    ASSUME PageInv, Backend, NEW c \in Calls,
           \/ Progress(c) \/ Debounced(c) \/ Applied(c) \/ ChangeArrives(c) \/ ChangeFails(c)
    PROVE  Kept
<1> USE TasksPageAssumption
<1>1. TypeOK /\ LoadsCurrent /\ LatestShown
  BY DEF PageInv
<1>2. 1 \in Nat \ {0} /\ page \in Nat \ {0} /\ editing \in {0} \cup 1..created'
  BY <1>1, Editable DEF TypeOK
<1>3. CASE ReadItems(c)
  <2>1. UNCHANGED view
    BY <1>3 DEF ReadItems
  <2> QED
    BY <1>1, <1>2, <1>3, <2>1, ReadMeans, QuietKeeps DEF view
<1>4. CASE ListArrives(c)
  <2>1. /\ Listing(c) /\ call' = [call EXCEPT ![c] = Idle] /\ loading' = FALSE
        /\ UNCHANGED <<page, filter, typed, editing, doubt>>
        /\ result' = [page |-> call[c].page, filter |-> call[c].filter,
                      items |-> call[c].items, total |-> Len(Matching(call[c].filter))]
    BY <1>4 DEF ListArrives
  <2>2. call[c] \in Loads
    BY <1>1, <2>1, Slots
  <2>3. result' \in Results
    <3>1. Len(Matching(call[c].filter)) \in 0..MaxTasks
      BY MatchingLists
    <3> QED
      BY <2>1, <2>2, <3>1 DEF Loads, Results
  <2>4. /\ call' \in [Calls -> Slot'] /\ ~Listing(c)'
        /\ \A d \in Calls \ {c} : call'[d] = call[d] /\ (Listing(d)' <=> Listing(d))
    BY <1>1, <2>1, LoadEnds
  <2>5. LoadsCurrent'
    BY <1>1, <2>1, <2>4 DEF LoadsCurrent
  <2>6. LatestShown'
    <3>1. result'.page = call[c].page /\ result'.filter = call[c].filter
      BY <2>1
    <3> QED
      BY <1>1, <2>1, <3>1 DEF LoadsCurrent, LatestShown
  <2>7. Typed
    BY <1>1, <1>2, <2>1, <2>3, <2>4, ListsGrow DEF TypeOK, Typed
  <2> QED
    BY <2>5, <2>6, <2>7 DEF Kept
<1>5. CASE ListFails(c)
  <2>1. /\ Listing(c) /\ call' = [call EXCEPT ![c] = Idle] /\ loading' = FALSE /\ doubt' = TRUE
        /\ UNCHANGED <<page, filter, typed, result, editing>>
    BY <1>5 DEF ListFails
  <2>2. call' \in [Calls -> Slot']
    BY <1>1, <2>1, LoadEnds
  <2>3. Typed
    BY <1>1, <1>2, <2>1, <2>2, ListsGrow DEF TypeOK, Typed
  <2> QED
    BY <2>1, <2>3 DEF Kept, LoadsCurrent, LatestShown
<1>6. CASE Debounced(c)
  BY <1>2, <1>6, LoadKeeps DEF Debounced
<1>7. CASE ChangeArrives(c)
  <2>1. PICK p \in Nat \ {0} : Load(c, p)
    BY <1>2, <1>7 DEF ChangeArrives
  <2> QED
    BY <1>7, <2>1, LoadKeeps DEF ChangeArrives
<1>8. CASE Applied(c) \/ ChangeFails(c)
  <2>1. call[c].kind \in Changes /\ UNCHANGED view /\ ~Listing(c)
    BY <1>1, <1>8, Slots DEF Applied, ChangeFails
  <2>2. PICK r \in {Idle} \cup Answered : call' = [call EXCEPT ![c] = r]
    <3>1. [kind |-> call[c].kind, phase |-> "back"] \in Answered
      BY <2>1 DEF Answered
    <3>2. \/ call' = [call EXCEPT ![c] = [kind |-> call[c].kind, phase |-> "back"]]
          \/ call' = [call EXCEPT ![c] = Idle]
      BY <1>8 DEF Applied, ChangeFails
    <3> QED
      BY <3>1, <3>2
  <2>3. /\ call' \in [Calls -> Slot']
        /\ \A d \in Calls : /\ Listing(d)' <=> Listing(d)
                            /\ Listing(d) => call'[d] = call[d]
    BY <1>1, <2>1, <2>2, ChangeSends
  <2> QED
    BY <1>2, <2>1, <2>3, QuietKeeps DEF view
<1> QED
  BY <1>3, <1>4, <1>5, <1>6, <1>7, <1>8 DEF Progress

(* A step without a request: the form, the inputs, the other members.      *)
LEMMA FormKeeps ==
    ASSUME PageInv, Backend, UNCHANGED call,
           UNCHANGED <<page, result, loading, doubt>>,
           UNCHANGED <<filter, typed>> \/ (filter' \in Filters /\ typed' = TRUE),
           editing' \in {editing, 0} \/ (Shown /\ \E x \in Items : editing' = x.id)
    PROVE  Kept
<1>1. TypeOK
  BY DEF PageInv
<1>2. call' \in [Calls -> Slot']
  BY <1>1, ListsGrow DEF TypeOK, Slot
<1>3. editing' \in {0} \cup 1..created'
  BY <1>1, Editable
<1> QED
  BY <1>2, <1>3, QuietKeeps DEF Listing

LEMMA PageStep == ASSUME PageInv, [Next]_vars PROVE PageInv'
<1>1. Backend /\ uses' \in 0..MaxUses
  BY BackendStep, UsesStep DEF PageInv
<1>2. Kept
  <2>1. CASE UNCHANGED vars
    BY <1>1, <2>1, FormKeeps DEF vars, view
  <2>2. ASSUME NEW f \in Filters, Type(f) PROVE Kept
    BY <1>1, <2>2, FormKeeps DEF Type
  <2>3. CASE StartEdit
    BY <1>1, <2>3, FormKeeps DEF StartEdit
  <2>4. CASE CancelEdit
    BY <1>1, <2>4, FormKeeps DEF CancelEdit, Left
  <2>5. CASE OtherMember
    BY <1>1, <2>5, FormKeeps DEF OtherMember, view
  <2> QED
    BY <1>1, <2>1, <2>2, <2>3, <2>4, <2>5, UserKeeps, RequestKeeps DEF Next
<1>3. TypeOK'
  BY <1>1, <1>2 DEF Kept, Typed, Backend, TypeOK, Slot
<1> QED
  BY <1>2, <1>3 DEF Kept, PageInv

LEMMA PageStart == Init => PageInv
<1> SUFFICES ASSUME Init PROVE PageInv
  OBVIOUS
<1> USE TasksPageAssumption
<1>1. \A c \in Calls : call[c] = Idle /\ ~Listing(c)
  BY DEF Init, Listing, Idle
<1>2. TypeOK
  <2>1. NoTask \in [live : BOOLEAN, done : BOOLEAN, title : Titles] /\ ~NoTask.live
    BY DEF NoTask, DefaultTitle
  <2>2. 0 \in 0..MaxTasks /\ 0 \in 0..MaxUses /\ 1 \in Nat \ {0}
    OBVIOUS
  <2>3. task \in [Ids -> [live : BOOLEAN, done : BOOLEAN, title : Titles]]
        /\ \A i \in Ids : ~task[i].live
    BY <2>1 DEF Init
  <2>4. call \in [Calls -> {Idle} \cup Loads \cup Bodies \cup Answered]
    BY DEF Init
  <2> QED
    BY <2>2, <2>3, <2>4 DEF Init, TypeOK
<1>3. LoadsCurrent /\ LatestShown
  BY <1>1 DEF Init, LoadsCurrent, LatestShown
<1> QED
  BY <1>2, <1>3 DEF PageInv

LEMMA PageInvariant == Spec => []PageInv
BY PageStart, PageStep, PTL DEF Spec

(* The tasks, the list on the screen, the task being edited and what the   *)
(* requests carry keep their shape: a page holds at most PAGE_SIZE rows,   *)
(* of tasks that were created, whoever changes them meanwhile.             *)
THEOREM TypeCorrect == Spec => []TypeOK
BY PageInvariant, PTL DEF PageInv

(* load(): at rest, the list on the screen is of the page and the filter   *)
(* that the component stands at.                                           *)
THEOREM LatestIsShown == Spec => []LatestShown
BY PageInvariant, PTL DEF PageInv

-----------------------------------------------------------------------------
(* saveTitle and toggleDone: the bodies name the one field that was edited,*)
(* and PATCH leaves the other as the members have made it.                 *)
THEOREM EditsAreKept == Spec => EditsKeepApart
<1> DEFINE Apart(c, i) ==
        /\ call[c].kind = "title" /\ call'[c] # call[c] => task'[i].done = task[i].done
        /\ call[c].kind = "toggle" /\ call'[c] # call[c] => task'[i].title = task[i].title
<1>1. ASSUME TypeOK, [Next]_vars, NEW c \in Calls, NEW i \in Ids PROVE Apart(c, i)
  <2>1. CASE UNCHANGED task
    BY <2>1
  <2>2. CASE OtherMember
    BY <2>2 DEF OtherMember
  <2>3. ASSUME NEW d \in Calls, Applied(d) PROVE Apart(c, i)
    <3>1. call' = [call EXCEPT ![d] = [kind |-> call[d].kind, phase |-> "back"]]
      BY <2>3 DEF Applied
    <3>2. CASE c # d
      <4>1. call'[c] = call[c]
        BY <1>1, <3>1, <3>2 DEF TypeOK
      <4> QED
        BY <4>1
    <3>3. CASE c = d /\ call[c].kind \in {"title", "toggle"}
      <4>1. PICK b : b = call[c]
        OBVIOUS
      <4>2. b \in Bodies /\ b.kind \in {"title", "toggle"} /\ PatchRow(b.id, b)
        BY <1>1, <2>3, <3>3, <4>1, Slots DEF Applied
      <4>3. /\ b.id \in Ids /\ "live" \notin DOMAIN b
            /\ "done" \in DOMAIN b => b.done \in BOOLEAN
            /\ "title" \in DOMAIN b => b.title \in Titles
            /\ b.kind = "title" => "done" \notin DOMAIN b
            /\ b.kind = "toggle" => "title" \notin DOMAIN b
        BY <4>2, BodyFields
      <4>4. /\ b.kind = "title" => \A j \in Ids : task'[j].done = task[j].done
            /\ b.kind = "toggle" => \A j \in Ids : task'[j].title = task[j].title
        BY <1>1, <4>2, <4>3, PatchMeans
      <4> QED
        BY <4>1, <4>4
    <3>4. CASE c = d /\ call[c].kind \notin {"title", "toggle"}
      BY <3>4
    <3> QED
      BY <3>2, <3>3, <3>4
  <2>4. UNCHANGED task \/ OtherMember \/ \E d \in Calls : Applied(d)
    BY <1>1 DEF Next, User, Open, ToggleDone, SaveTitle, RemoveTask, GoToPage, AddTask, Send,
       Type, StartEdit, CancelEdit, Progress, ReadItems, ListArrives, ListFails, Debounced,
       ChangeArrives, ChangeFails, vars, server
  <2> QED
    BY <2>1, <2>2, <2>3, <2>4
<1>2. TypeOK /\ [Next]_vars => [\A c \in Calls : \A i \in Ids : Apart(c, i)]_vars
  BY <1>1
<1> QED
  BY <1>2, TypeCorrect, PTL DEF Spec, EditsKeepApart

-----------------------------------------------------------------------------
(* Induction over the numbers, as a set of them that has a least one: the  *)
(* library's theorem that < is well-founded, without an operator for the   *)
(* property.                                                               *)
LEMMA LeastNat == ASSUME NEW T \in SUBSET Nat, T # {} PROVE \E n \in T : \A m \in T : n <= m
<1> DEFINE R == {ss \in Nat \X Nat : ss[1] < ss[2]}
<1>1. IsWellFoundedOn(R, Nat)
  BY NatLessThanWellFounded DEF OpToRel
<1>2. IsWellFoundedOn(R, Nat) => \E n \in T : \A m \in T : ~(<<m, n>> \in R)
  <2> HIDE DEF R
  <2> QED
    BY WFMin
<1>3. PICK n \in T : \A m \in T : ~(<<m, n>> \in R)
  BY <1>1, <1>2
<1>4. \A m \in T : m \in Nat /\ ~(m < n)
  BY <1>3
<1> QED
  BY <1>4

(* There are pages for all the items. *)
LEMMA PagesEnough ==
    ASSUME NEW n \in Nat
    PROVE  PagesOf(n) \in Nat \ {0} /\ n <= PagesOf(n) * PageSize
<1> USE TasksPageAssumption
<1>1. CASE n = 0
  BY <1>1 DEF PagesOf
<1>2. CASE n # 0
  <2> DEFINE q == (n + PageSize - 1) \div PageSize
  <2>1. q \in Int /\ q * PageSize <= n + PageSize - 1 /\ n + PageSize - 1 < (q + 1) * PageSize
    OBVIOUS
  <2>2. PagesOf(n) = q
    BY <1>2 DEF PagesOf
  <2> HIDE DEF q
  <2>3. (q + 1) * PageSize = q * PageSize + PageSize
    BY <2>1
  <2>4. n <= q * PageSize
    <3>1. q * PageSize \in Int
      BY <2>1
    <3> QED
      BY <2>1, <2>3, <3>1
  <2>5. q > 0
    <3>1. CASE q <= 0
      <4>1. q * PageSize <= 0
        BY <2>1, <3>1
      <4> QED
        BY <1>2, <2>4, <4>1, <2>1
    <3> QED
      BY <2>1, <3>1
  <2> QED
    BY <2>1, <2>2, <2>4, <2>5
<1> QED
  BY <1>1, <1>2

(* What a cut divides fits together again. *)
LEMMA SubSeqJoin ==
    ASSUME NEW S, NEW s \in Seq(S), NEW a \in 0..Len(s), NEW b \in a..Len(s)
    PROVE  SubSeq(s, 1, a) \o SubSeq(s, a + 1, b) = SubSeq(s, 1, b)
<1>1. /\ SubSeq(s, 1, a) \in Seq(S) /\ Len(SubSeq(s, 1, a)) = a
      /\ SubSeq(s, a + 1, b) \in Seq(S) /\ Len(SubSeq(s, a + 1, b)) = b - a
      /\ SubSeq(s, 1, b) \in Seq(S) /\ Len(SubSeq(s, 1, b)) = b
  OBVIOUS
<1> QED
  BY <1>1

(* FlattenSeq appends one sequence after the other: any g that does has    *)
(* its values.                                                             *)
LEMMA FlattenMeans ==
    ASSUME NEW Q, NEW q \in Seq(Q), q # <<>>, NEW g,
           \A i \in 1..Len(q) : g[i] = IF i = 1 THEN q[i] ELSE g[i - 1] \o q[i]
    PROVE  FlattenSeq(q) = g[Len(q)]
<1> DEFINE N == Len(q)
           f == [i \in 1..N |-> g[i]]
<1> DEFINE h == CHOOSE h : h = [i \in 1..Len(q) |-> IF i = 1 THEN q[i] ELSE h[i - 1] \o q[i]]
<1>0. N \in Nat \ {0} /\ N \in 1..N
  OBVIOUS
<1> HIDE DEF N
<1>1. FlattenSeq(q) = h[N]
  BY <1>0 DEF FlattenSeq, N
<1>2. h = [i \in 1..N |-> IF i = 1 THEN q[i] ELSE h[i - 1] \o q[i]]
  <2>1. f = [i \in 1..N |-> IF i = 1 THEN q[i] ELSE f[i - 1] \o q[i]]
    <3>1. \A i \in 1..N : f[i] = IF i = 1 THEN q[i] ELSE f[i - 1] \o q[i]
      BY <1>0 DEF N
    <3> QED
      BY <3>1
  <2> HIDE DEF f
  <2> QED
    BY <2>1 DEF N
<1> HIDE DEF h
<1>3. \A i \in 1..N : h[i] = g[i]
  <2> DEFINE T == {i \in 1..N : h[i] # g[i]}
  <2> SUFFICES ASSUME T # {} PROVE FALSE
    OBVIOUS
  <2>1. T \in SUBSET Nat /\ \A i \in 1..N : i \in T <=> h[i] # g[i]
    OBVIOUS
  <2>2. T \subseteq 1..N
    OBVIOUS
  <2> HIDE DEF T
  <2>3. PICK n \in T : \A m \in T : n <= m
    BY <2>1, LeastNat
  <2>4. n \in 1..N /\ h[n] # g[n]
    BY <2>1, <2>2
  <2>5. CASE n = 1
    BY <1>2, <2>4, <2>5 DEF N
  <2>6. CASE n # 1
    <3>1. n - 1 \in 1..N /\ ~(n <= n - 1)
      BY <1>0, <2>4, <2>6
    <3>2. h[n - 1] = g[n - 1]
      BY <2>1, <2>3, <3>1
    <3>3. h[n] = h[n - 1] \o q[n] /\ g[n] = g[n - 1] \o q[n]
      BY <1>2, <2>4, <2>6 DEF N
    <3> QED
      BY <2>4, <3>2, <3>3
  <2> QED
    BY <2>5, <2>6
<1> QED
  BY <1>0, <1>1, <1>3 DEF N

(* The pages of the pager, one after the other, are the items.             *)
LEMMA PagesJoin ==
    ASSUME NEW S, NEW s \in Seq(S)
    PROVE  FlattenSeq([p \in 1..PagesOf(Len(s)) |-> Slice(s, p)]) = s
<1> USE TasksPageAssumption
<1> DEFINE n == Len(s)
           N == PagesOf(n)
           Upto(i) == IF i * PageSize < n THEN i * PageSize ELSE n
           q == [p \in 1..N |-> Slice(s, p)]
           g == [i \in 1..N |-> SubSeq(s, 1, Upto(i))]
<1>1. n \in Nat /\ N \in Nat \ {0} /\ n <= N * PageSize
  BY PagesEnough
<1>2. \A i \in 0..N : i * PageSize \in Nat /\ Upto(i) \in 0..n
  <2> SUFFICES ASSUME NEW i \in 0..N PROVE i * PageSize \in Nat /\ Upto(i) \in 0..n
    OBVIOUS
  <2>1. i \in Nat /\ PageSize \in Nat
    BY <1>1
  <2>2. i * PageSize \in Nat
    BY <2>1
  <2> QED
    BY <1>1, <2>2
<1> HIDE DEF N
<1>3. g[1] = q[1]
  <2>1. (1 - 1) * PageSize + 1 = 1 /\ 1 \in 1..N
    BY <1>1
  <2> QED
    BY <2>1 DEF Slice
<1>4. ASSUME NEW i \in 1..N, i # 1 PROVE g[i] = g[i - 1] \o q[i]
  <2> DEFINE a == (i - 1) * PageSize
             b == Upto(i)
  <2>1. i - 1 \in 1..N /\ i - 1 \in 0..N /\ i \in 0..N
    BY <1>1, <1>4
  <2>2. a \in Nat /\ i * PageSize = a + PageSize /\ b \in 0..n /\ (a < n => a <= b)
    <3>1. i * PageSize = a + PageSize
      BY <1>4
    <3>2. a \in Nat /\ b \in 0..n
      BY <1>2, <2>1
    <3> QED
      BY <1>1, <3>1, <3>2
  <2>3. /\ g[i] = SubSeq(s, 1, b) /\ q[i] = SubSeq(s, a + 1, b)
        /\ g[i - 1] = SubSeq(s, 1, IF a < n THEN a ELSE n)
    BY <2>1 DEF Slice
  <2>4. a >= n => b = n
    BY <1>1, <2>2
  <2> HIDE DEF a, b, q, g
  <2>5. CASE a < n
    <3>1. a \in 0..Len(s) /\ b \in a..Len(s)
      BY <1>1, <2>2, <2>5
    <3> QED
      BY <2>3, <2>5, <3>1, SubSeqJoin
  <2>6. CASE ~(a < n)
    <3>1. b = n /\ n \in 0..Len(s) /\ g[i - 1] = SubSeq(s, 1, n)
      BY <1>1, <2>2, <2>3, <2>4, <2>6
    <3>2. q[i] = <<>>
      BY <1>1, <2>2, <2>3, <2>6, <3>1, SubSeqEmpty
    <3>3. g[i - 1] \in Seq(S)
      BY <3>1
    <3>4. g[i - 1] \o <<>> = g[i - 1]
      BY <3>3
    <3> QED
      BY <2>3, <3>1, <3>2, <3>4
  <2> QED
    BY <2>5, <2>6
<1>5. \A i \in 1..N : g[i] = IF i = 1 THEN q[i] ELSE g[i - 1] \o q[i]
  BY <1>3, <1>4
<1>6. q \in Seq(Seq(S)) /\ Len(q) = N /\ q # <<>>
  <2>1. \A i \in 1..N : q[i] \in Seq(S)
    BY <1>1, SliceOfItems
  <2>2. q \in [1..N -> Seq(S)]
    BY <2>1
  <2> HIDE DEF q
  <2>3. q \in Seq(Seq(S)) /\ Len(q) = N
    BY <1>1, <2>2
  <2> QED
    BY <1>1, <2>3
<1>7. g[N] = s
  <2>1. Upto(N) = n /\ N \in 1..N
    BY <1>1
  <2>2. g[N] = SubSeq(s, 1, n)
    BY <2>1
  <2> QED
    BY <2>2, SubSeqFull
<1> HIDE DEF g, q
<1>8. FlattenSeq(q) = s
  BY <1>1, <1>5, <1>6, <1>7, FlattenMeans
<1> QED
  BY <1>8 DEF q, N

(* findAll and totalPages: whatever the members do, the pages that the     *)
(* pager counts hold every matching task, once and newest first.           *)
THEOREM PagesCoverAll == Spec => []PagesCover
<1>1. TypeOK => PagesCover
  <2> SUFFICES ASSUME NEW f \in Filters
               PROVE  FlattenSeq([p \in 1..PagesOf(Len(Matching(f))) |-> Slice(Matching(f), p)])
                        = Matching(f)
    BY DEF PagesCover
  <2> QED
    BY MatchingLists, PagesJoin
<1> QED
  BY <1>1, TypeCorrect, PTL
=============================================================================
