# tenanthub in TLA+

tenanthub is a multi-tenant task manager: a NestJS backend over PostgreSQL with
row-level security per organization, and an Angular client. This directory
models the parts of it whose correctness depends on the order in which
statements, requests and answers happen, checks them with TLC on small
instances, and proves every safety result of theirs for all instances with TLAPS.

Run a model with `tlc -workers 2 -config X.cfg MCModule`, check the proofs of a
component with `tlapm XProofs.tla`, where X is `RoleChange`, `Sessions`, `Access`,
`Onboarding`, `SessionClient`, `Pages`, `TenantRequests` or `TasksPage`. `PROJECT.json` maps
every definition to the source lines it stands for, every run to its properties,
every property to a plausible bug that breaks it, and every hazard of the code to
the properties that would show it.

## The system

### Inventory

| component | state it keeps | operations | what must hold |
|---|---|---|---|
| Role changes (`organizations/memberships.*`) | `memberships.role`, row locks of open transactions | PATCH /memberships/:id | an organization keeps an admin; a decision is not made on a count that has gone stale; the audit log agrees; every request is answered, deadlocks included |
| Login, refresh, logout (`auth/auth.service.ts`, the `auth_*` SQL functions) | `refresh_tokens`, `audit_log` | POST /auth/login, /refresh, /logout | a token is exchanged once; a session is one chain of tokens; logging out ends it; no login without its audit row |
| Registration and invitations (`auth.service.ts`, `organizations/invitations.*`) | `organizations`, `users`, `memberships`, `invitations` | POST /auth/register, /organizations/invitations, /auth/invitations/:token/accept | whoever is a member was invited or founded the organization; tokens are for members, with a role they were given; nothing half-registered |
| Tenant isolation (`common/tenant/*`, RLS policies) | the transaction and `app.current_org` of each pooled connection, the client in AsyncLocalStorage | TenantGuard, TenantInterceptor, TenantContextService | no request is shown or changes another organization's rows; no connection keeps a declaration |
| Tasks API (`tasks/*`) | `tasks` | list, create, update, delete, export | requests add up to one-step operations of the token's organization; a deletion and its audit row are inseparable |
| Audit log (`common/audit/*`) | `audit_log` | write in the request's transaction, write across tenants, list | a row exactly when the act is committed |
| Claims and guards (`auth.service.ts`, `common/tenant/tenant.guard.ts`, `common/roles`, `common/plan`, `organizations/organization.*`) | the role and plan copied into access tokens, `organizations.plan` | signing, TenantGuard, RolesGuard, PlanGuard, PATCH /organizations/plan | a role or a plan that has ended is used no longer than the times in the configuration allow |
| Client session (`core/auth/*` of the frontend) | two localStorage entries shared by tabs, a signal and `refreshInFlight` per tab | login, refresh, logout, the HTTP interceptor | one refresh for many 401s; a logout lasts; a session is given up only when it is over; every request ends |
| Tasks page (`features/tasks`) | page, filter form, shown result, loading | load, paginate, filter, create, toggle, rename, remove | the list shown is of the page and filter chosen; edits of different fields do not undo each other; loading ends |
| Routes, sign-in pages, dashboard, members, audit log (`app.routes.ts`, `core/auth/auth.guard.ts`, `has-role.directive.ts`, `features/*`) | the route on its way, the component on the screen with its signals, requests of components gone | navigation, sign-in, plan change, role change, paging, logout | nobody without a token stays on a guarded page; a page shows what it was asked for; spinners stop |
| Prisma service, DTO validation, health, seed, deployment, CI, templates | - | - | - |

### How they interact

A page of the client calls the API through `authInterceptor`, which adds the
access token of the tab and refreshes it after a 401. In the backend
`TenantGuard` verifies the token and puts its claims on the request; `RolesGuard`
and `PlanGuard` decide on those claims, not on the tables; `TenantInterceptor`
opens one transaction, declares the organization in it, and keeps the client in
AsyncLocalStorage; the service's statements and `AuditInterceptor`'s row run in
that transaction, and the answer leaves after its commit. The public `/auth`
routes have no such transaction: each calls `SECURITY DEFINER` functions one
after another, and each of them commits by itself. Everything meets in
PostgreSQL at READ COMMITTED.

### What is hard in it

- Statements of two transactions interleave at READ COMMITTED: every statement
  sees what is committed when *it* starts, `SELECT ... FOR UPDATE` chooses rows by
  a snapshot older than the locks it ends up with.
- The public routes are chains of separately committed statements with a bcrypt
  call in between; the process may die, or another request may run, between any
  two.
- Claims in tokens are copies of roles and plans that may have changed since.
- Pooled connections and one Node process are shared by all organizations.
- Tabs share localStorage and nothing else; answers to a page overtake one
  another.

`PROJECT.json` lists each of these as hazards at the line where it bites.

## Modules

| module | models | composes or refines |
|---|---|---|
| `AdminRoster` | what memberships promise: one-step role changes that leave an admin | abstract |
| `RoleChange` | `MembershipsService.updateRole` inside `TenantInterceptor`'s transaction, with `AuditInterceptor` | implements `AdminRoster` until a waiting `FOR UPDATE` is overtaken by a new admin |
| `RoleChangeProofs` | theorems about `RoleChange` | |
| `SessionChain` | what rotation promises of one login: a chain of tokens, one usable at a time | abstract |
| `Sessions` | login, refresh and logout over `refresh_tokens` | implements `SessionChain` |
| `SessionsProofs` | theorems about `Sessions` | |
| `Access` | claims from the tables through signature, guards and handlers, with ages | role changes of `RoleChange` as one step; sign-ins of `Sessions` and acceptances of `Onboarding` as two |
| `AccessProofs` | theorems about `Access` | |
| `Onboarding` | registration, invitation, acceptance, with `RolesGuard` | role changes of `RoleChange` as one step, logins and refreshes of `Sessions` as two |
| `OnboardingProofs` | theorems about `Onboarding` | |
| `SessionClient` | the client's tabs, the interceptor and the dashboard's refresh | with the backend's half of a refresh, as in `Sessions` |
| `SessionClientProofs` | theorems about `SessionClient` | |
| `Pages` | router, route guard and every page but the tasks page, with their requests | refreshes of `SessionClient` as one step |
| `PagesProofs` | theorems about `Pages` | |
| `TaskStore` | what the tasks API promises: one-step operations on tasks, each of one organization for good | abstract |
| `TenantRequests` | guard, transaction, context, row-level security, `TasksService`, audit, on pooled connections | implements `TaskStore` |
| `TenantRequestsProofs` | theorems about `TenantRequests` | |
| `TasksPage` | the tasks page over overlapping requests | with `findAll`'s two statements |
| `TasksPageProofs` | theorems about `TasksPage` | |
| `MC*` | instances: symmetry sets | |

### How state and actions correspond to the code

**RoleChange.** `role` is the committed table; a written role becomes visible with
`Commit` (the row is held from `UpdateRow` on, `lock`). `LockAdmins` is the start of
the transaction and the snapshot of the `FOR UPDATE`; `LockRow` takes its rows one
at a time and in any order, there being no ORDER BY; a row that has stopped
matching while it was waited for stays locked, as PostgreSQL leaves it; a row that
started to match after the snapshot is not locked. `ReadTarget`, `CountAdmins`,
`LastAdmin`, `NotFound`, `UpdateRow` and `WriteAudit` are the statements after it.
`Abort` is any failure, `DeadlockVictim` PostgreSQL's deadlock detector. `Join` is
an accepted invitation, which takes no lock of a row that exists. `seen` and
`trail` are kept for the properties: what was counted, and the last audit row.

`overtaken` is a history, set when somebody becomes an admin while a request waits
in its `FOR UPDATE`: from then on the rows locked need not be the admins' any more.

**Sessions.** One action per statement that commits by itself. The consuming
function is two steps, its plain `SELECT` and its `UPDATE ... WHERE id`, because at
READ COMMITTED another refresh runs between them. `exchanges`, `root`, `over` and
`raced` are histories: no action reads them. A session is `raced` once its client has
shown a usable token to two requests at once, a logout counting as one; what
`SessionChain` promises is promised of the others, which share the table, the slots
and the crashes with it. `phase` and `usable` of `SessionChain` are read off the rows
and the requests: a session is *changing* between the commit of a consumption and
the insertion of the next token, and *ended* if the request dies there.

**Access.** `role` and `plan` are the tables; a copy of both goes from `signing` (read
for a login, a refresh or an acceptance) to `tokens` (signed: `exp` counts from here)
to `calls` (admitted by the guards, transaction open). There is no clock: every copy
has an age, `Tick` ages all of them and waits for what has met its deadline. `away[u]`
and `gone` are the ticks since `u` was an admin and since the organization was on
pro, capped at `Window`, so the state space is finite without a bound on time.
`SignDelay` stands for bcrypt and the audit write, `RequestDelay` for Prisma's five
seconds, `Ttl` for `JWT_EXPIRES_IN`. `AcceptInvitation` signs the invitation's role as
the code does; `again` remembers who got a role that way without the membership, and
`demoted` who was demoted and has neither been made an admin nor been invited since.

**Onboarding.** `auth_register` is one step: its inserts are one transaction, and
unique indexes decide races. `auth_accept_invitation` is two: its `SELECT`, and its
`INSERT ... ON CONFLICT DO NOTHING` with the `UPDATE`, which does not ask again
whether the invitation is open. `AdminCalls` is `RolesGuard`: any token with the
admin role, whatever the membership is now. `ChangeRole` may demote anyone, the last
admin too: whether it should is `RoleChange`'s subject, and races do pass the rule.
`granted` is a history: the roles somebody has been given.

**SessionClient.** A pair of tokens is its number, 0 is none. `refreshInFlight`
holds a cold observable: `inFlight[b]` is the token it has captured, and each
`Subscribe` sends a request of its own. `Find` and `Rotate` are the backend's two
steps. Users act and the network loses requests and answers at any time; the history
`rough` records that two refreshes were on their way at once, that the user did not
wait for what was, or that something was lost, and each property names what it needs
to be absent. Requests may overlap as they like: only their refreshes are `rough`.

**Pages.** `nav` is the navigation under way: `authGuard` is asked when it starts
(`Guard`), the chunk arrives later (`Activate`), and in between anything may happen.
`view` is the component on the screen, `asked` what it stands at and `shown` what it
has got: an email and the one whose organizations are offered on the login page, a
version of the members or of the plan, a page number of the audit log. A request of
a component that has been left keeps running (`home` is FALSE) and still stores its
tokens and navigates, for no subscription of these pages is cancelled. A change
committed to the roles or the plan is a tick of `now`, and what is read or signed
carries the `now` it is of. `Renew` and `GiveUp` are the interceptor's two ends; of
their interleavings within a refresh `SessionClient` speaks. A registration signs in
with either role, like the other two forms: its organization is a new one. `broken` is
a history of the failures that no page recovers from (a chunk, the refresh after a
plan change, a late 401 of the previous session that ends a sign-in). `view.doubt` is
one of what the code leaves open: lookups that overlap on the login page, lists that
overlap or a list that fails on the members page, and a token pair that arrives on the
dashboard for a sign-in or a refresh of a page left behind. It lasts until the next
lookup or list that is alone, the dashboard's own refresh, or the next page; late pairs
on any other page raise none.

**TenantRequests.** `tx[c]` is what connection `c` has declared and written without
committing; `Visible` is the `USING` clause, the guards of `Create` and `WriteAudit`
are `WITH CHECK`. `store[r]` is what `getClient()` returns, which `Begin` sets as
`runWithClient` does. `TxTimeout` closes a transaction whose handler still runs;
`Late` is what the handler then meets. Updating several fields or one is the same
write here; `Patches` says to which states a PATCH sets a task.

**TasksPage.** Tasks are numbered by creation, so `ORDER BY createdAt DESC` lists what
`Found` selects `NewestFirst`: `Matching` is the only such list. Its page and the count
are read at two moments (`ReadItems`, and the count merged with the arrival of the answer);
a request may fail at any time (`ListFails`, `ChangeFails`); `doubt` is a history,
set when loads overlap or fail. A PATCH writes the fields in its body. `editing` survives
the reloads that take its input off the screen, as `editingId` does.

## Runs and what they show

| run | instance | shows |
|---|---|---|
| role | 3 users, 2 requests and invitations of either role, liveness | `AdminKept`, `Serialized` and `RosterSpec` (implements `AdminRoster`) until overtaken; `CountedStay`, `AuditAgrees` and an answer for every request always, deadlocks included |
| role_last_admin | the same | **violated** `HasAdmin`: see findings |
| sessions | 5 tokens, 2 requests, 2 logins | `UnracedExchangedOnce`, `LogoutEnds`, `ChainSpec` (implements `SessionChain`) for sessions not raced; `LoginsAudited` for all |
| sessions_exchange | 2 refreshes of one token | **violated** `ExchangedOnce`: see findings |
| access | 2 users, tokens of 2 ticks, 1 tick to sign and 1 to answer, 3 copies at once, leftover admin invitations | `AdminWindow`, `ProWindow`: what has ended is not used beyond `Window` |
| access_demoted | the same | **violated** `DemotedWithinWindow`: see findings |
| onboarding | 2 organizations, 2 people, 2 invitations, 2 requests, demotions | `MembersEntitled`, `SessionsOfMembers` |
| client | 2 tabs, 2 requests, 2 pairs, lossy network, impatient user, liveness | `NoStaleRefresh`, `EveryCallEnds` always; `StaysLoggedOut`, `LogoutLeavesNothing`, `GivesUpDeadOnly` as far as `rough` allows |
| client_single_refresh | 1 tab, 2 requests | **violated** `SingleRefresh`: see findings |
| pages | 2 emails, 2 requests, 2 changes, 5 acts of the user or another admin, liveness | `GuardHolds`; `ShowsWhatIsAsked`: the audit log always, the other pages unless in `doubt`; `BusyEnds` |
| tenant_requests | 2 organizations, 2 tasks, 2 requests, 2 connections, liveness | `Isolation` of what is shown, `OwnWritesOnly` of what is written, `ContextEnds`, `AnswersKept`, `StoreSpec` (implements `TaskStore`), `EveryRequestEnds` |
| tasks_page | 2 tasks on pages of one, 2 requests, 5 acts of users, liveness | `PagesCover`, `LatestShown`, `EditsKeepApart`, `LoadingEnds` |

`TypeOK` is checked once per module.

**Why the bounds are enough.** For the safety properties the theorems below answer
that, for they hold for every value of the constants, the bounds among them; the runs show that the cases happen, and are all there
is for liveness. The races here are between two requests, with a third
party that changes what they have read. Two slots are the least that interleave.
Three users let two be demoted with one left to protect, and the third be promoted
meanwhile. Five tokens are two logins with refreshes after them, or one chain of
five, next to a raced session or a crashed one. In access, a token outlives two
ticks, so that a role can end before it is signed, while it is held and while its
call runs; three copies are a refresh, a token and a call, enough for a demotion by
one admin of another who has a token and an invitation. Two tabs are what sharing
localStorage takes; two pairs are a session and the refresh that renews it, or one
after it (the proof of `LogoutIsComplete` showed that three tell more, see below; the
safety properties were checked with three as well). Two organizations and two connections are what a leak takes, and a
connection passes between them any number of times, for no counter bounds that run.
In pages two requests are enough for a late answer of a page left behind to meet the
first of the page that is there, and five acts for a plan change, a navigation, a
sign-in and what follows. `MaxUses` bounds the acts of the user and of other members
together; in tasks_page five are enough for a creation, a page turn, a filter and
two edits. Its pages hold one task, so that two tasks turn a page; a last page that is
not full is a matter of `PagesCoverAll`, whose page size is any. `OutOfPairs` and `OutOfIds` end a request that would need an id beyond the
bound. Symmetry is used in safety runs only.

**Deadlock.** TLC checks it everywhere but in tasks_page and pages, where the bounded
users may simply stop.

**Fairness.** RoleChange: strong fairness of each request's next statement (the event
loop runs it; PostgreSQL queues the waiters of a row, so one that keeps being freed
comes to each of them) and weak fairness of the deadlock detector; none of aborts,
so requests are not "answered" by failing. TenantRequests: weak fairness of what a
handler does by itself, strong fairness of taking a connection or a contested row
(the pool and row locks are first come, first served); no timeout is needed for
`EveryRequestEnds`. SessionClient, TasksPage and Pages: requests are answered or
fail, and the callback runs, and in Pages a chunk loads or fails; nothing is assumed
of users, loss or expiry.

## Proofs

| theorem | states, for every value of the constants |
|---|---|
| `RoleChangeProofs!TypeCorrect`, `CountsStayTrue` | types; a count made under locks does not go stale |
| `RoleChangeProofs!AdminRemains`, `ChangesSerialized`, `RosterImplemented` | any mix of promotions, demotions and acceptances: until overtaken, an admin remains, one request decides at a time, and the transactions implement `AdminRoster` |
| `SessionsProofs!TypeCorrect` | types |
| `SessionsProofs!ExchangesOnce`, `LogoutEndsForGood`, `ImplementsChain` | sessions not raced, among any that are: single exchange, lasting logout, and every step implements `SessionChain` |
| `RoleChangeProofs!TrailAgrees` | a committed role and its audit row agree, without conditions |
| `SessionsProofs!EveryLoginAudited` | no more sessions opened by a user than `auth.login` rows of theirs |
| `AccessProofs!TypeCorrect` | deadlines are kept: no copy or call is older than it may be |
| `AccessProofs!AdminWithinWindow`, `ProWithinWindow` | any durations: the windows of the access run |
| `TenantRequestsProofs!TypeCorrect`, `TenantsIsolated`, `ContextEndsHolds` | types; nobody is shown another organization's tasks; a free connection has no declaration |
| `TenantRequestsProofs!OnlyOwnersWrite` | tasks and audit rows change by commits only, each those of the organization in its request's token |
| `TenantRequestsProofs!DeletionsRecorded`, `ImplementsTaskStore` | an answered deletion is recorded once; the pipeline implements `TaskStore`, crashes and timeouts included |
| `OnboardingProofs!TypeCorrect`, `MembersHaveReasons`, `TokensForMembers` | types; memberships and their reasons are the same, so organizations have their founder; tokens are members' |
| `SessionClientProofs!TypeCorrect`, `NothingReplayed` | types; no refresh is replayed after it was settled |
| `SessionClientProofs!LogoutStays`, `LogoutIsComplete`, `OnlyDeadSessionsDropped` | as far as `rough` allows: a logout lasts and leaves nothing usable, and only dead sessions are given up |
| `PagesProofs!TypeCorrect`, `StrangersKeptOut`, `PagesShowWhatTheyAsk` | types; the route guard; what a page shows once its loads have ended: the audit log always, the other pages unless in `doubt` |
| `TasksPageProofs!TypeCorrect`, `LatestIsShown`, `EditsAreKept`, `PagesCoverAll` | types; the list is of the query chosen; edits of different fields stay apart; the pages joined are the matching tasks |

Every safety property that a passing run checks is stated by one of these. Each
inductive invariant below was checked by TLC on the instance of its run before it was
proved, and so were those of its parts that are not properties themselves.

**RoleChange, always.** `CountedStay` is not inductive: one has to know that a
request past its `UPDATE` holds the row of its target until it ends. `Bookkeeping`
adds this; the step that matters is another request's `Commit`, whose target is then
not a row this one holds.

**RoleChange, until overtaken.** As long as nobody became an admin during a wait,
every row that is an admin now is in the snapshot of every request that waits, so a
request past its `FOR UPDATE` holds the rows of *all* present admins (`CalmInv`). As an
organization has an admin, two such requests would hold the same row: that is
`Serialized` (lemma `OneDecides`). What the decided request counted therefore still
stands when it commits, which gives `AdminKept` (`CommitLeavesAdmin`) and maps its commit
to one `AdminRoster!Change`, an acceptance to `AdminRoster!Join`, every other step to a
stutter. The finding role_last_admin is why the condition cannot be dropped.

**Sessions.** In a session that is not raced a token in a request's hands is in no
other's, so between the `SELECT` and the `UPDATE` of the consuming function nobody
else revokes or exchanges it. `ChainInv` counts a token as usable if it is live, or has
expired under a refresh that found it live, and says: it was never exchanged; a
request about to rotate holds one; a session has at most one usable token or one
request about to issue its next, never both (`TipAlone`, `HeirAlone`); a logged-out session
has neither. For `ImplementsChain`, lemmas `NoneTouched` and `OneTouched` reduce a step to
the session it is about: the others' images do not change, and for that one each
statement is the step of `SessionChain` named in `ChainNextStep`. A request shown a
usable token that another request has is `Fork`.

**Access.** The invariants add up deadlines along the way of a copy: an admin's claims
in `signing` are of somebody who was an admin at most their age ago; in `tokens`, at
most `SignDelay` and their age; a call's caller at most `SignDelay`, the age its token
may reach below `Ttl`, and the age of the call. `RoleAgesStep` and `PlanAgesStep` show
that each step, and `Tick` in particular, keeps these sums; who accepted an
invitation without effect is outside of the first by `again`, of the second nobody is.

**Audit rows.** `AuditAgrees` needs types only: `Commit` writes role and row together.
`LoginsAudited` is not inductive: a login that has written its row and not yet issued
its token is owed a session. `Paid` counts it (`Waiting`) with the sessions opened; an
audit row pays for one of either, a crash gives one up, a refresh opens none.

**TenantRequests.** `Holding` says whose a transaction is: its connection is held by one
request, declared for that request's organization, and the `getClient()` of no other; an
unheld one is blank, which is `ContextEnds`. `Content` says what may be in it at each
phase, down to the one version written and its one audit row, and `RowLocks` that no
two transactions hold versions of one task. So a commit is exactly one step of
`TaskStore` (`CommitMeans`), for what the transaction has read still stands, and any
other step none (`OnlyCommits`). `TaskStore` says that a change is of the organization the
task belongs to, and not whose request made it: that is `OwnWritesOnly`, from the same
lemmas, for what is committed is visible under the declaration made for the request
(`CommitOwn`). `Isolation` follows from `ShownOwn` because a committed
task never changes its organization (`OwnersStay`).

**Onboarding.** Nothing is ever taken back (`Growth`: accounts, memberships, granted
roles, what a sent invitation says), so what a request has read between two statements
remains true (`CallsTrue`), and each statement has to answer only for the row it writes.
`MembersEntitled` is an equivalence: its second half is why `ON CONFLICT DO NOTHING`
may leave a row alone and mark the invitation accepted all the same.

**SessionClient.** While `rough` is empty there is one refresh at most, it carries the
token in localStorage, and every token the backend would still exchange is that one,
is on its way back in the only answer, or is on its way out in a logout (`Orderly`). This
proof was a finding about the model. `LogoutLeavesNothing` used to allow overlapping
refreshes, and with two pairs TLC agreed: the third pair that tells the difference
could not be issued. It is false: two requests that get a 401 each send a refresh with
the same captured token; if both have selected it before either revokes it (finding
sessions_exchange), both get a pair, one is stored and the other lives on past the
logout. The property now asks for `rough` to be empty; in return an overlap is one of
refreshes alone, no longer of any two requests. TLC has checked it with three pairs.

**Pages.** A request at home belongs to the component on the screen (`HomesRight`), which
ties every answer to the page that will show it. Per page the invariant says what the
requests under way will bring: `AuditLoads`, `RolesPast` and `PlanFollowed` in any case,
`Offers`, `ListsFresh` and `TokenFollows` unless in `doubt`. The former are what gets a page
out of doubt: its next lone list, or the refresh after its own plan change, is as new as
what the user has done. Most
steps leave those requests alone and are dealt with together (`Untouched`). `GuardHolds`
needs `NavGuarded`: whatever removes the token also turns the navigation under way to
the login page.

**TasksPage.** `LatestShown` needs only that the load under way, if any, is the only one
and is for the query the page stands at (`LoadsCurrent`). `PagesCover` is about
`findAll` and `totalPages` for every number of tasks and page size: a set of tasks has
one listing newest first (`Descending`, which gives each task the place that counts the
newer ones), and the slices that the pager counts join to it (`PagesJoin`). The joining
is the recursive function behind the community modules' `FlattenSeq`; it is unfolded
along the least number at which it would differ (`LeastNat`, from the library's theorem that
`<` is well-founded on the numbers), since the induction theorems cannot be used here.

What stays with TLC is liveness: `EveryRequestEnds` of `RoleChange` and of
`TenantRequests`, `EveryCallEnds`, `BusyEnds` and `LoadingEnds`, which need fairness and
ENABLED; and the runs that expect a violation, whose counterexamples are their point.
No module that is proved about reaches a RECURSIVE operator. The only assumptions are
the named ASSUMEs on constants, which every run evaluates.

## Findings

- **role_last_admin** (`memberships.service.ts:26`). The rows locked are those of a
  snapshot. While a demotion waits, others may promote and demote until the locked
  rows are no longer the admins; it and a newer demotion then hold different rows,
  count each other's target and leave no admin. The README promises the contrary
  "nem mesmo sob duas requisições concorrentes".
- **sessions_exchange** (`sprint5 migration:133`). The `UPDATE` of the consuming
  function does not ask `revoked_at IS NULL` again: two refreshes that have both
  selected the token both get a pair, against "a token can only ever be exchanged
  once".
- **access_demoted** (`sprint5 migration:105`). Accepting an invitation does nothing to
  an existing membership (`ON CONFLICT DO NOTHING`) but answers with the invitation's
  role, which goes into the token: somebody demoted who accepts an admin invitation
  sent earlier is an admin to the guards again, for a token's lifetime counted
from the acceptance (in the trace: invited, demoted, accepted, and let in as an admin
`Window` after the demotion), against "esa
  persona conserva su rol viejo en el JWT hasta que expira (15 min) o hasta su próximo
  refresh" (docs/threat-model.md:72-74). `AdminWindow` and its theorem leave out exactly
  the people in `again`.
- **client_single_refresh** (`auth.interceptor.ts:38`). The shared observable is
  cold: each request that fails with 401 sends a refresh of its own, against "N
  requests failing with 401 at once trigger a single refresh call".

Noticed while modelling and visible in the definitions, without a run of their own:
two racing acceptances of one invitation both succeed (docs/threat-model.md:148-149
has it used once; harmless to memberships, as `MembersEntitled` shows); the account
an acceptance creates is committed alone (`auth.service.ts:175`); an answer to a refresh that was on its way when the user
logged out logs the user in again (frontend `auth.service.ts:67`), which is why
`StaysLoggedOut` asks for a patient user; two refreshes of one tab that overlap in
the backend leave a usable refresh token behind the next logout, which is why
`LogoutLeavesNothing` asks for none that overlap; on the login page a late 401 of an earlier
session ends the one that a sign-in has just begun and leaves its button disabled, and
so does, on the dashboard, a failed refresh after a plan change (`BusyEnds` names
both); an error of the audit log is never cleared, which hides its pager until the
page is opened again; items and total of a list are two statements and may disagree.

## Not modelled, and why

Password hashing and the JWT signature (libraries; that hashing takes time is a step
of its own); validation of bodies (models take valid ones); formatting, search text,
the slug derived from a name in the registration form and the one filled in for a
single organization; the text of the CSV export (who may have it is in `Access`);
absolute time (expiry is an event that may happen at any time, or an age in
`Access`); deployment, seed, tests, styling. `PROJECT.json` has the reason per component.

## Plan

1. *Done*: every component above, each with its proofs; the refinements of
   `AdminRoster`, `SessionChain` and `TaskStore`.
2. *Left to model*: the loads of `TasksPage` that overlap, where the page promises
   nothing today; several organizations of one person in `Pages`.
3. *Next proofs*, in order: what one component assumes of another as one step (a role
   change in `Access` and `Onboarding`, a refresh in `Pages`), stated as refinements of
   the detailed modules; how far `AdminKept` reaches after an overtaken `FOR UPDATE`;
   lemmas that several proof modules state alike (slots of requests), once.
