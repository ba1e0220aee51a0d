------------------------------ MODULE CursorList ------------------------------
(* A list page: the server's keyset pagination, the store feature that pages   *)
(* through it (withCursorList), the stores built on it, and the page with its  *)
(* infinite scroll.                                                            *)
(*                                                                             *)
(* A row is identified by a number, which is also its rank in the id order that*)
(* breaks ties.  It has a creation rank that never changes and a name that an  *)
(* edit may change: the two columns a list is sorted by.  A request is sent    *)
(* (the store reads its cursor, sort and filters then), answered (the server   *)
(* reads its table) and delivered (the store writes the answer) in three steps,*)
(* and any other request, write or push may come in between.                   *)
EXTENDS Integers, FiniteSets, Sequences

CONSTANTS
  Rows,        \* ids, ordered: a set of integers
  Initial,     \* the rows that exist at the start
  CreatedAt,   \* [Rows -> Int], ties allowed
  NamedAs,     \* [Rows -> Int], the names at the start
  Names,       \* the names an edit may give
  Limit,       \* rows of one page
  Sorts,       \* the orders the page is put in: pairs of a column and a direction
  Stores,      \* the stores to run: a subset of DOMAIN StoreWrites
  MaxLoads,    \* bound on first-page loads
  MaxChanges   \* bound on changes of the server's table

ASSUME CursorListAssumption ==
  /\ Rows \subseteq Int /\ IsFiniteSet(Rows) /\ Initial \subseteq Rows
  /\ Names \subseteq Int /\ CreatedAt \in [Rows -> Int] /\ NamedAs \in [Rows -> Names]
  /\ Limit \in Nat \ {0}
  /\ Sorts \subseteq {"createdAt", "name"} \X {"asc", "desc"}

\* What each store writes to the list when an operation of its page succeeds:
\* setEntity adds or replaces, addEntity only adds, updateEntity only replaces,
\* removeEntity removes; "flip" is the users' deletion, which depends on the filter.
UsersWrites         == [update |-> "set", delete |-> "flip", restore |-> "set", read |-> "set"]
RolesWrites         == [create |-> "set", update |-> "set", delete |-> "remove"]
FlagsWrites         == [create |-> "set", update |-> "set", delete |-> "remove"]
ActionsWrites       == [create |-> "add", update |-> "update", delete |-> "remove"]
ResourcesWrites     == [update |-> "update"]       \* a restore changes a row's fields too
SubscriptionsWrites == [update |-> "update"]       \* a cancellation
InvoicesWrites      == [update |-> "update"]       \* a refund
SettingsWrites      == [op \in {} |-> "set"]       \* the buyer's invoices are only read

StoreWrites ==
  [users |-> UsersWrites, roles |-> RolesWrites, flags |-> FlagsWrites,
   actions |-> ActionsWrites, resources |-> ResourcesWrites,
   subscriptions |-> SubscriptionsWrites, invoices |-> InvoicesWrites, settings |-> SettingsWrites]

VARIABLES
  store,       \* the store this page uses
  table,       \* [Rows -> [exists, deleted, name]]
  changes,     \* how often the table changed
  open,        \* the page is on screen
  query,       \* sortBy, sortOrder and the includeDeleted filter
  shown,       \* the ids of the entity collection
  loading, isLoadingMore, nextCursor, hasMore, sequence, working,
  pages,    \* page requests in flight
  writes,      \* operations of the page in flight
  others,      \* loadSettings' six other requests are in flight (BillingStore)
  news,        \* a user_crud event is on its way
  fresh,       \* ghost: the first page of the current sequence is on screen
  steady       \* ghost: rows neither changed nor written singly since it was read

tableVars  == <<table, changes>>
pagingVars == <<loading, isLoadingMore, nextCursor, hasMore, sequence>>
listGhosts == <<fresh, steady>>
listVars == <<store, table, changes, open, query, shown, loading, isLoadingMore, nextCursor,
              hasMore, sequence, working, pages, writes, others, news, fresh, steady>>

NoCursor == [value |-> 0, id |-> 0, none |-> TRUE]
NoAnswer == [data |-> {}, nextCursor |-> NoCursor, hasMore |-> FALSE, ready |-> FALSE]
Billing  == {"subscriptions", "invoices"}
AnyName  == 0     \* no filter on the row's fields
Queries  == [sortBy : {"createdAt", "name"}, sortOrder : {"asc", "desc"},
             includeDeleted : BOOLEAN, named : Names \cup {AnyName}]
------------------------------------------------------------------------------
\* Server: (sortColumn, id) tuples, one row read beyond the page.

Value(q, r) == IF q.sortBy = "createdAt" THEN CreatedAt[r] ELSE table[r].name

Precedes(q, v, i, w, j) ==
  LET Less(a, b, c, d) == a < c \/ (a = c /\ b < d)
  IN  IF q.sortOrder = "asc" THEN Less(v, i, w, j) ELSE Less(w, j, v, i)

\* The filters of the users search narrow the set by fields of the row.
UserFilters(q, r) == q.named # AnyName => table[r].name = q.named

Matching(q) ==
  {r \in Rows : table[r].exists /\ (table[r].deleted => q.includeDeleted) /\ UserFilters(q, r)}

After(q, cursor) ==
  {r \in Matching(q) : cursor = NoCursor \/ Precedes(q, cursor.value, cursor.id, Value(q, r), r)}

Taken(q, cursor, n) ==
  LET rest == After(q, cursor)
  IN  {r \in rest : Cardinality({x \in rest : Precedes(q, Value(q, x), x, Value(q, r), r)}) < n}

\* The cursor names the last row of a page's data.
CursorOf(q, data) ==
  LET last == CHOOSE r \in data : \A x \in data \ {r} : Precedes(q, Value(q, x), x, Value(q, r), r)
  IN  [value |-> Value(q, last), id |-> last, none |-> FALSE]

\* Mutant: the cursor is taken from the row read beyond the page.
PageFromPeeked(q, cursor) ==
  LET results == Taken(q, cursor, Limit + 1)
      more    == Cardinality(results) > Limit
  IN  [data |-> Taken(q, cursor, Limit), hasMore |-> more, ready |-> TRUE,
       nextCursor |-> IF more THEN CursorOf(q, results) ELSE NoCursor]

Page(q, cursor) ==
  LET results == Taken(q, cursor, Limit + 1)
      data    == Taken(q, cursor, Limit)
      more    == Cardinality(results) > Limit
  IN  [data |-> data, hasMore |-> more, ready |-> TRUE,
       nextCursor |-> IF more THEN CursorOf(q, data) ELSE NoCursor]

\* The mock server's cursorPaginate: sort everything, find the first row past
\* the cursor, take one row more than the page.
Sorted(q) ==
  LET all == Matching(q)
      Rank(r) == 1 + Cardinality({x \in all : Precedes(q, Value(q, x), x, Value(q, r), r)})
  IN  [i \in 1 .. Cardinality(all) |-> CHOOSE r \in all : Rank(r) = i]

MockPage(q, cursor) ==
  LET sorted == Sorted(q)
      Past(i) == cursor = NoCursor \/ Precedes(q, cursor.value, cursor.id, Value(q, sorted[i]), sorted[i])
      past    == {i \in DOMAIN sorted : Past(i)}
      start   == IF past = {} THEN Len(sorted) + 1 ELSE CHOOSE i \in past : \A j \in past : i <= j
      more    == Len(sorted) - start >= Limit
      data    == {sorted[i] : i \in start .. IF more THEN start + Limit - 1 ELSE Len(sorted)}
  IN  [data |-> data, hasMore |-> more, ready |-> TRUE,
       nextCursor |-> IF more THEN CursorOf(q, data) ELSE NoCursor]
------------------------------------------------------------------------------
ListInit ==
  /\ store \in Stores
  /\ table = [r \in Rows |-> [exists |-> r \in Initial, deleted |-> FALSE, name |-> NamedAs[r]]]
  /\ query = [sortBy |-> "createdAt", sortOrder |-> "desc", includeDeleted |-> FALSE, named |-> AnyName]
  /\ changes = 0 /\ sequence = 0
  /\ shown = {} /\ pages = {} /\ writes = {} /\ steady = {}
  /\ nextCursor = NoCursor
  /\ open = FALSE /\ loading = FALSE /\ isLoadingMore = FALSE /\ hasMore = FALSE
  /\ working = FALSE /\ others = FALSE /\ news = FALSE /\ fresh = FALSE

Request(kind, q, cursor, token) ==
  [kind |-> kind, query |-> q, cursor |-> cursor, token |-> token, answer |-> NoAnswer]

\* loadFirstPage with the query q the caller has just patched.
StartFirstPage(q) ==
  /\ sequence < MaxLoads
  /\ sequence' = sequence + 1
  /\ loading' = TRUE
  /\ pages' = pages \cup {Request("first", q, NoCursor, sequence + 1)}
  /\ fresh' = FALSE

\* ngOnInit: every page loads its first page; the billing settings start six
\* other requests with it under the store's one loading flag.
Open ==
  /\ ~open
  /\ open' = TRUE
  /\ StartFirstPage(query)
  /\ others' = (others \/ store = "settings")
  /\ UNCHANGED <<store, tableVars, query, shown, isLoadingMore, nextCursor, hasMore,
                 working, writes, news, steady>>

\* Leaving the page: takeUntilDestroyed drops what the page subscribed to; the
\* stores' own promises (page loads, the billing mutations) go on.
Leave ==
  /\ open
  /\ open' = FALSE
  /\ writes' = IF store \in Billing THEN writes ELSE {w \in writes : w.op = "read"}
  /\ news' = FALSE
  /\ UNCHANGED <<store, tableVars, query, shown, pagingVars, working, pages, others, listGhosts>>

\* sortData: setSorting drops the cursor, then the first page is loaded.
Sort(by, order) ==
  /\ open /\ store = "users"
  /\ <<by, order>> # <<query.sortBy, query.sortOrder>>
  /\ query' = [query EXCEPT !.sortBy = by, !.sortOrder = order]
  /\ nextCursor' = NoCursor
  /\ hasMore' = FALSE
  /\ StartFirstPage(query')
  /\ UNCHANGED <<store, tableVars, open, shown, isLoadingMore, working, writes, others, news, steady>>

\* onSubmit and resetForm: the filters, then the first page.
Filter(named, deleted) ==
  /\ open /\ store = "users"
  /\ <<named, deleted>> # <<query.named, query.includeDeleted>>
  /\ query' = [query EXCEPT !.named = named, !.includeDeleted = deleted]
  /\ StartFirstPage(query')
  /\ UNCHANGED <<store, tableVars, open, shown, isLoadingMore, nextCursor, hasMore,
                 working, writes, others, news, steady>>

\* Another first-page load: a user_crud event on the users page, refreshInvoices
\* after a plan change or a purchase on the billing settings.
ReloadPage ==
  /\ open
  /\ news \/ store = "settings"
  /\ news' = FALSE
  /\ StartFirstPage(query)
  /\ UNCHANGED <<store, tableVars, open, query, shown, isLoadingMore, nextCursor, hasMore,
                 working, writes, others, steady>>

\* The sentinel emits when a page exists and nothing loads, and so does loadNextPage.
LoadMore ==
  /\ open /\ hasMore /\ ~loading /\ ~isLoadingMore
  /\ nextCursor # NoCursor
  /\ isLoadingMore' = TRUE
  /\ pages' = pages \cup {Request("next", query, nextCursor, sequence)}
  /\ UNCHANGED <<store, tableVars, open, query, shown, loading, nextCursor, hasMore, sequence,
                 working, writes, others, news, listGhosts>>

\* The server answers; the page a current first-page request reads starts the
\* rows' time of being steady.
Answer(m) ==
  /\ ~m.answer.ready
  /\ pages' = (pages \ {m}) \cup {[m EXCEPT !.answer = Page(m.query, m.cursor)]}
  /\ steady' = IF m.kind = "first" /\ m.token = sequence THEN Rows ELSE steady
  /\ UNCHANGED <<store, tableVars, open, query, shown, pagingVars, working, writes, others, news, fresh>>

Current(m) == m.token = sequence

\* An answer of the current sequence is written: a first page replaces the
\* collection, a next page is added to it.
WritePage(m) ==
  /\ shown' = IF m.kind = "first" THEN m.answer.data ELSE shown \cup m.answer.data
  /\ nextCursor' = m.answer.nextCursor
  /\ hasMore' = m.answer.hasMore
  /\ fresh' = (fresh \/ m.kind = "first")

Settle(m) ==
  /\ loading' = (loading /\ ~(Current(m) /\ m.kind = "first"))
  /\ isLoadingMore' = (isLoadingMore /\ ~(Current(m) /\ m.kind = "next"))

Deliver(m) ==
  /\ m.answer.ready
  /\ pages' = pages \ {m}
  /\ Settle(m)
  /\ IF Current(m) THEN WritePage(m) ELSE UNCHANGED <<shown, nextCursor, hasMore, fresh>>
  /\ UNCHANGED <<store, tableVars, open, query, sequence, working, writes, others, news, steady>>

\* A request that fails is reported and changes nothing but its flag.
Fail(m) ==
  /\ pages' = pages \ {m}
  /\ Settle(m)
  /\ UNCHANGED <<store, tableVars, open, query, shown, nextCursor, hasMore, sequence, working,
                 writes, others, news, listGhosts>>

\* loadSettings: its other requests have settled, whatever each returned.
SettingsSettle ==
  /\ others
  /\ others' = FALSE
  /\ loading' = FALSE
  /\ UNCHANGED <<store, tableVars, open, query, shown, isLoadingMore, nextCursor, hasMore,
                 sequence, working, pages, writes, news, listGhosts>>
------------------------------------------------------------------------------
\* Operations on a row.  Users are soft-deleted, everything else is removed.

Applies(op, r) ==
  CASE op = "create"  -> ~table[r].exists
    [] op = "restore" -> table[r].exists /\ table[r].deleted
    [] OTHER          -> table[r].exists /\ ~table[r].deleted

Applied(op, r, name) ==
  CASE op = "create"  -> [exists |-> TRUE, deleted |-> FALSE, name |-> name]
    [] op = "update"  -> [table[r] EXCEPT !.name = name]
    [] op = "restore" -> [table[r] EXCEPT !.deleted = FALSE]
    [] op = "delete"  -> IF store = "users" THEN [table[r] EXCEPT !.deleted = TRUE]
                                            ELSE [table[r] EXCEPT !.exists = FALSE]
    [] OTHER          -> table[r]

\* The names an operation may leave a row with: an update changes it.
GivenNames(op, r) ==
  CASE op = "create" -> Names
    [] op = "update" -> Names \ {table[r].name}
    [] OTHER         -> {table[r].name}

Change(op, r, name) ==
  /\ Applies(op, r)
  /\ changes' = IF op = "read" THEN changes ELSE changes + 1
  /\ table' = [table EXCEPT ![r] = Applied(op, r, name)]
  /\ steady' = IF op = "read" THEN steady ELSE steady \ {r}
  /\ news' = (news \/ (store = "users" /\ op # "read" /\ open))

\* The page starts an operation; reading one user is the detail page's, whose
\* answer arrives in the same store.
StartWrite(op, r) ==
  /\ IF op = "read" THEN ~open ELSE open
  /\ IF op \in {"read", "create"} THEN TRUE ELSE r \in shown
  /\ store \in Billing => ~working
  /\ changes < MaxChanges
  /\ writes = {}
  /\ writes' = {[op |-> op, row |-> r, done |-> FALSE]}
  /\ working' = (store \in Billing)
  /\ UNCHANGED <<store, tableVars, open, query, shown, pagingVars, pages, others, news, listGhosts>>

Execute(w, name) ==
  /\ ~w.done
  /\ Change(w.op, w.row, name)
  /\ writes' = (writes \ {w}) \cup {[w EXCEPT !.done = TRUE]}
  /\ UNCHANGED <<store, open, query, shown, pagingVars, working, pages, others, fresh>>

\* The operation is refused or its answer lost: an error is shown, nothing else.
Refuse(w) ==
  /\ writes' = writes \ {w}
  /\ working' = FALSE
  /\ UNCHANGED <<store, tableVars, open, query, shown, pagingVars, pages, others, news, listGhosts>>

Patched(patch, r) ==
  CASE patch = "set" -> shown \cup {r}
    [] patch = "add" -> shown \cup {r}
    [] patch = "remove" -> shown \ {r}
    [] patch = "flip" -> IF query.includeDeleted THEN shown ELSE shown \ {r}
    [] OTHER -> shown

Land(w) ==
  /\ w.done
  /\ writes' = writes \ {w}
  /\ working' = FALSE
  /\ shown' = Patched(StoreWrites[store][w.op], w.row)
  /\ steady' = steady \ {w.row}
  /\ UNCHANGED <<store, tableVars, open, query, pagingVars, pages, others, news, fresh>>

\* Another administrator, or the billing run, changes the table.
Elsewhere(op, r, name) ==
  /\ changes < MaxChanges
  /\ Change(op, r, name)
  /\ UNCHANGED <<store, open, query, shown, pagingVars, working, pages, writes, others, fresh>>

ListNext ==
  \/ Open
  \/ Leave
  \/ \E s \in Sorts : Sort(s[1], s[2])
  \/ \E named \in Names \cup {AnyName}, deleted \in BOOLEAN : Filter(named, deleted)
  \/ ReloadPage
  \/ LoadMore
  \/ \E m \in pages : Answer(m)
  \/ \E m \in pages : Deliver(m)
  \/ \E m \in pages : Fail(m)
  \/ SettingsSettle
  \/ \E op \in DOMAIN StoreWrites[store], r \in Rows : StartWrite(op, r)
  \/ \E w \in writes : \E name \in GivenNames(w.op, w.row) : Execute(w, name)
  \/ \E w \in writes : Refuse(w)
  \/ \E w \in writes : Land(w)
  \/ \E op \in {"create", "update", "delete"}, r \in Rows :
       \E name \in GivenNames(op, r) : Elsewhere(op, r, name)

ListSpec == ListInit /\ [][ListNext]_listVars
------------------------------------------------------------------------------
ListTypeOK ==
  /\ query \in Queries
  /\ shown \subseteq Rows
  /\ steady \subseteq Rows
  /\ hasMore <=> nextCursor # NoCursor
  /\ \A m \in pages : m.token \in 1 .. sequence

ReadToItsEnd == fresh /\ ~hasMore /\ \A m \in pages : ~Current(m)
Complete     == steady \cap Matching(query) \subseteq shown

\* A list read to its end shows every row that matched and stayed as it was
\* since its first page was read: keyset paging skips none, whatever rows come,
\* go and move meanwhile (applyKeysetPagination, loadNextPage's cursor).
\* The invoices of the billing settings are excepted: that list and the settings
\* clear one loading flag, and a page can be asked for too early.
NothingSkipped == (store # "settings" /\ ReadToItsEnd) => Complete

\* The rows on screen are those the current sort and filters ask for: an answer
\* to an abandoned query is never written over a later one.
OnlyAskedFor == (store # "settings" /\ fresh) => shown \cap steady \subseteq Matching(query)

\* The mock server the client is tested against pages as the server does,
\* whatever cursor a page request carries (cursorPaginate, applyKeysetPagination).
MockPagesAgree ==
  \A m \in pages : ~m.answer.ready => MockPage(m.query, m.cursor) = Page(m.query, m.cursor)

=============================================================================
