------------------------------- MODULE TasksPage -------------------------------
(***************************************************************************)
(* The tasks page: TasksComponent with its page, filter form and shown     *)
(* result, and the requests it has in flight, against the tasks of one     *)
(* organization, which other members change at the same time.  Answers may *)
(* overtake one another, and any request may fail.                         *)
(*                                                                         *)
(* Tasks are numbered in the order of their creation.  The backend reads   *)
(* the items of a page and the total in two statements, as                 *)
(* TasksService.findAll does.                                              *)
(***************************************************************************)
EXTENDS Naturals, Sequences, SequencesExt

CONSTANTS
    MaxTasks,  \* bound on the tasks created
    MaxUses,   \* bound on what the user and the other members do
    PageSize,  \* PAGE_SIZE
    Titles,    \* the titles a task can have
    Filters,   \* settings of the filter form in use
    Calls,     \* slots for requests of the page in flight
    None       \* no result

ASSUME TasksPageAssumption ==
    /\ MaxTasks \in Nat /\ MaxUses \in Nat /\ PageSize \in Nat \ {0}
    /\ Filters \subseteq {"all", "open", "done"} /\ "all" \in Filters
    /\ Titles # {}

VARIABLES
    created,  \* tasks created so far
    task,     \* task[i]: whether i is there, whether it is done, its title
    page,     \* page()
    filter,   \* filterForm
    typed,    \* the form has changed and debounceTime has not passed
    result,   \* result(), and the query it answers
    loading,  \* loading()
    editing,  \* editingId(), 0 for none
    call,     \* call[c]: a request of the page
    doubt,    \* the last load overlapped another, or it failed
    uses      \* how often the user or another member did something

server == <<created, task>>
view   == <<page, filter, typed, result, loading, editing, doubt>>
vars   == <<server, view, call, uses>>

Ids  == 1..MaxTasks
Idle == [kind |-> "idle"]

Changes == {"create", "toggle", "title", "remove"}

DefaultTitle == CHOOSE t \in Titles : TRUE

(* A task that has not been created, or is no more. *)
NoTask == [live |-> FALSE, done |-> FALSE, title |-> DefaultTitle]

Init ==
    /\ created = 0
    /\ task    = [i \in Ids |-> NoTask]
    /\ page    = 1
    /\ filter  = "all"
    /\ typed   = FALSE
    /\ result  = None
    /\ loading = FALSE
    /\ editing = 0
    /\ call    = [c \in Calls |-> Idle]
    /\ doubt   = FALSE
    /\ uses    = 0

-----------------------------------------------------------------------------
(* The backend's query: where, orderBy createdAt desc, skip and take.      *)
Found(f) ==
    {i \in Ids : /\ task[i].live
                 /\ f = "done" => task[i].done
                 /\ f = "open" => ~task[i].done}

NewestFirst(s) == \A i, j \in DOMAIN s : i < j => s[i] > s[j]

Matching(f) ==
    CHOOSE s \in [1..Cardinality(Found(f)) -> Found(f)] : NewestFirst(s)

(* Faulty: pages are counted from 0. *)
Slice_FromZero(s, p) ==
    SubSeq(s, p * PageSize + 1,
           IF (p + 1) * PageSize < Len(s) THEN (p + 1) * PageSize ELSE Len(s))

(* Page p of the tasks in s. *)
Slice(s, p) ==
    SubSeq(s, (p - 1) * PageSize + 1,
           IF p * PageSize < Len(s) THEN p * PageSize ELSE Len(s))

(* Math.max(1, Math.ceil(total / pageSize)) *)
PagesOf(total) == IF total = 0 THEN 1 ELSE (total + PageSize - 1) \div PageSize

TotalPages == IF result = None THEN 1 ELSE PagesOf(result.total)

(* A row of the list, without its title. *)
Row(i) == [id |-> i, done |-> task[i].done]

-----------------------------------------------------------------------------
Listing(c) == call[c].kind = "list"

(* load(): ask for the page p as the filter form stands.  The request goes *)
(* into slot c.                                                            *)
Load(c, p) ==
    /\ call' = [call EXCEPT ![c] = [kind |-> "list", phase |-> "sent", page |-> p,
                                    filter |-> filter, items |-> <<>>]]
    /\ page'    = p
    /\ loading' = TRUE
    /\ doubt'   = \E d \in Calls \ {c} : Listing(d)

(* ngOnInit *)
Open(c) ==
    /\ result = None
    /\ \A d \in Calls : call[d] = Idle
    /\ Load(c, 1)
    /\ UNCHANGED <<server, filter, typed, result, editing>>

(* The user changes the filter form. *)
Type(f) ==
    /\ f # filter
    /\ filter' = f
    /\ typed'  = TRUE
    /\ UNCHANGED <<server, page, result, loading, editing, doubt, call>>

(* 300 ms without another change. *)
Debounced(c) ==
    /\ typed
    /\ call[c] = Idle
    /\ typed' = FALSE
    /\ Load(c, 1)
    /\ UNCHANGED <<server, filter, result, editing>>

(* The list and its pager are on the screen. *)
Shown == ~loading /\ result # None /\ result.items # <<>>

(* Faulty: the page is set and not loaded. *)
GoToPage_NotLoaded(c, p) ==
    /\ Shown
    /\ p \in {result.page - 1, result.page + 1}
    /\ 1 <= p /\ p <= TotalPages
    /\ page' = p
    /\ UNCHANGED <<server, filter, typed, result, loading, editing, doubt, call>>

GoToPage(c, p) ==
    /\ Shown
    /\ p \in {result.page - 1, result.page + 1}
    /\ 1 <= p /\ p <= TotalPages
    /\ call[c] = Idle
    /\ Load(c, p)
    /\ UNCHANGED <<server, filter, typed, result, editing>>

(* POST, PATCH and DELETE requests of addTask, toggleDone, saveTitle and   *)
(* remove, the last three for a task as it is shown.                       *)
Send(c, body) ==
    /\ call[c] = Idle
    /\ call' = [call EXCEPT ![c] = body]
    /\ UNCHANGED <<server, view>>

AddTask(c, t) == Send(c, [kind |-> "create", phase |-> "sent", title |-> t])

Items == {result.items[k] : k \in DOMAIN result.items}

ToggleDone(c) ==
    Shown /\ \E x \in Items :
        Send(c, [kind |-> "toggle", phase |-> "sent", id |-> x.id, done |-> ~x.done])

(* A click on a title; a load meanwhile leaves editingId as it is, even    *)
(* when the task is no longer in the list.                                 *)
StartEdit ==
    /\ Shown
    /\ \E x \in Items : x.id # editing /\ editing' = x.id
    /\ UNCHANGED <<server, page, filter, typed, result, loading, doubt, call>>

(* The input of the task being edited has been left. *)
Left(x) == x.id = editing /\ editing' = 0

(* Faulty: the whole task is sent, as it was shown. *)
SaveTitle_WholeTask(c) ==
    /\ Shown /\ \E x \in Items : Left(x) /\ call[c] = Idle /\ \E t \in Titles :
          call' = [call EXCEPT ![c] = [kind |-> "title", phase |-> "sent", id |-> x.id,
                                       title |-> t, done |-> x.done]]
    /\ UNCHANGED <<server, page, filter, typed, result, loading, doubt>>

(* The page sends no title equal to the one shown, here it may.            *)
SaveTitle(c) ==
    /\ Shown /\ \E x \in Items : Left(x) /\ call[c] = Idle /\ \E t \in Titles :
          call' = [call EXCEPT ![c] = [kind |-> "title", phase |-> "sent", id |-> x.id,
                                       title |-> t]]
    /\ UNCHANGED <<server, page, filter, typed, result, loading, doubt>>

(* It was left empty, or as it was. *)
CancelEdit ==
    /\ Shown /\ \E x \in Items : Left(x)
    /\ UNCHANGED <<server, page, filter, typed, result, loading, doubt, call>>

RemoveTask(c) ==
    Shown /\ \E x \in Items : Send(c, [kind |-> "remove", phase |-> "sent", id |-> x.id])

-----------------------------------------------------------------------------
(* The backend: creation, PATCH of the fields in the body, deletion.       *)
CreateRow(t) ==
    /\ created < MaxTasks
    /\ created' = created + 1
    /\ task' = [task EXCEPT ![created + 1] = [live |-> TRUE, done |-> FALSE, title |-> t]]

(* Faulty: everything the client sends goes into the row. *)
PatchRow_NotWhitelisted(i, body) ==
    /\ task[i].live
    /\ task' = [task EXCEPT ![i] = body @@ @]
    /\ UNCHANGED created

PatchRow(i, body) ==
    /\ task[i].live
    /\ task' = [task EXCEPT ![i] = [f \in DOMAIN @ |->
                                     IF f \in DOMAIN body THEN body[f] ELSE @[f]]]
    /\ UNCHANGED created

RemoveRow(i) ==
    /\ task[i].live
    /\ task' = [task EXCEPT ![i] = NoTask]
    /\ UNCHANGED created

(* A change asked for by the page is committed. *)
Applied(c) ==
    /\ call[c].kind \in Changes
    /\ call[c].phase = "sent"
    /\ CASE call[c].kind = "create" -> CreateRow(call[c].title)
         [] call[c].kind = "remove" -> RemoveRow(call[c].id)
         [] OTHER                   -> PatchRow(call[c].id, call[c])
    /\ call' = [call EXCEPT ![c] = [kind |-> @.kind, phase |-> "back"]]
    /\ UNCHANGED view

(* findMany of findAll. *)
ReadItems(c) ==
    /\ Listing(c)
    /\ call[c].phase = "sent"
    /\ LET ids == Slice(Matching(call[c].filter), call[c].page)
       IN  call' = [call EXCEPT ![c] =
                      [@ EXCEPT !.items = [k \in DOMAIN ids |-> Row(ids[k])],
                                !.phase = "read"]]
    /\ UNCHANGED <<server, view>>

(* Another member of the organization. *)
OtherMember ==
    /\ \/ CreateRow(DefaultTitle)
       \/ \E i \in Ids : RemoveRow(i) \/ PatchRow(i, [done |-> ~task[i].done])
    /\ UNCHANGED <<view, call>>

-----------------------------------------------------------------------------
(* count of findAll, and next of load(): the answer is shown, whichever    *)
(* load it is of.  Tasks that change while the answer is on its way are    *)
(* those that change right after it.                                       *)
ListArrives(c) ==
    /\ Listing(c)
    /\ call[c].phase = "read"
    /\ result' = [page |-> call[c].page, filter |-> call[c].filter, items |-> call[c].items,
                  total |-> Len(Matching(call[c].filter))]
    /\ loading' = FALSE
    /\ call' = [call EXCEPT ![c] = Idle]
    /\ UNCHANGED <<server, page, filter, typed, editing, doubt>>

(* Faulty: no error handler. *)
ListFails_Unhandled(c) ==
    /\ Listing(c)
    /\ doubt' = TRUE
    /\ call'  = [call EXCEPT ![c] = Idle]
    /\ UNCHANGED <<server, page, filter, typed, result, loading, editing>>

(* error of load(), at any time: what was shown stays. *)
ListFails(c) ==
    /\ Listing(c)
    /\ loading' = FALSE
    /\ doubt'   = TRUE
    /\ call'    = [call EXCEPT ![c] = Idle]
    /\ UNCHANGED <<server, page, filter, typed, result, editing>>

(* A change was answered: load again, from page 1 after a creation.        *)
ChangeArrives(c) ==
    /\ call[c].kind \in Changes
    /\ call[c].phase = "back"
    /\ Load(c, IF call[c].kind = "create" THEN 1 ELSE page)
    /\ UNCHANGED <<server, filter, typed, result, editing>>

(* A change is refused, or its answer is lost: nobody handles the error. *)
ChangeFails(c) ==
    /\ call[c].kind \in Changes
    /\ call' = [call EXCEPT ![c] = Idle]
    /\ UNCHANGED <<server, view>>

-----------------------------------------------------------------------------
User(c) ==
    \/ Open(c) \/ ToggleDone(c) \/ SaveTitle(c) \/ RemoveTask(c)
    \/ \E p \in Ids : GoToPage(c, p)
    \/ \E t \in Titles : AddTask(c, t)

(* A list request that is answered, one way or the other. *)
Progress(c) ==
    (ReadItems(c) \/ ListArrives(c) \/ ListFails(c)) /\ UNCHANGED uses

Next ==
    \/ /\ uses < MaxUses
       /\ uses' = uses + 1
       /\ \/ \E c \in Calls : User(c)
          \/ \E f \in Filters : Type(f)
          \/ StartEdit \/ CancelEdit \/ OtherMember
    \/ \E c \in Calls :
          \/ Progress(c)
          \/ /\ Debounced(c) \/ Applied(c) \/ ChangeArrives(c) \/ ChangeFails(c)
             /\ UNCHANGED uses

Spec == Init /\ [][Next]_vars

(* Requests are answered or fail. *)
FairSpec == Spec /\ \A c \in Calls : WF_vars(Progress(c))

-----------------------------------------------------------------------------
(* A row on the screen, and the answers and requests of the page. *)
Rows == [id : 1..created, done : BOOLEAN]

Lists == {s \in Seq(Rows) : Len(s) <= PageSize}

Results == [page : Nat \ {0}, filter : Filters, items : Lists, total : 0..MaxTasks]

Loads == [kind : {"list"}, phase : {"sent", "read"}, page : Nat \ {0},
          filter : Filters, items : Lists]

Bodies ==
    [kind : {"create"}, phase : {"sent"}, title : Titles]
    \cup [kind : {"toggle"}, phase : {"sent"}, id : Ids, done : BOOLEAN]
    \cup [kind : {"title"}, phase : {"sent"}, id : Ids, title : Titles]
    \cup [kind : {"remove"}, phase : {"sent"}, id : Ids]

Answered == [kind : Changes, phase : {"back"}]

TypeOK ==
    /\ created \in 0..MaxTasks
    /\ task \in [Ids -> [live : BOOLEAN, done : BOOLEAN, title : Titles]]
    /\ \A i \in Ids : task[i].live => i <= created
    /\ page \in Nat \ {0}
    /\ filter \in Filters
    /\ editing \in {0} \cup 1..created
    /\ typed \in BOOLEAN /\ loading \in BOOLEAN /\ doubt \in BOOLEAN
    /\ result \in {None} \cup Results
    /\ call \in [Calls -> {Idle} \cup Loads \cup Bodies \cup Answered]
    /\ uses \in 0..MaxUses

(* The pages that the pager counts are the matching tasks, each once and   *)
(* newest first.                                                           *)
PagesCover ==
    \A f \in Filters :
        LET s == Matching(f)
        IN  FlattenSeq([p \in 1..PagesOf(Len(s)) |-> Slice(s, p)]) = s

(* Once nothing is loading and the form is at rest, the list on the screen *)
(* is of the page and the filter that the component stands at, unless      *)
(* loads overlapped or the last one failed.                                *)
LatestShown ==
    /\ ~typed /\ ~doubt /\ result # None
    /\ \A c \in Calls : ~Listing(c)
    => result.page = page /\ result.filter = filter

(* Two members who edit one task keep each other's work: saving a title,   *)
(* however old the list it was edited in, leaves done as it is, and the    *)
(* other way round.                                                        *)
EditsKeepApart ==
    [][\A c \in Calls : \A i \in Ids :
          /\ call[c].kind = "title" /\ call'[c] # call[c]
             => task'[i].done = task[i].done
          /\ call[c].kind = "toggle" /\ call'[c] # call[c]
             => task'[i].title = task[i].title]_vars

(* The page does not stay at "Cargando" for ever.                          *)
LoadingEnds == loading ~> ~loading
=============================================================================
