# hyllis.no in TLA+

hyllis.no is a personal library on the web: scan the barcode of a book, and it
is looked up and put on your shelf. One Go program serves HTML with htmx;
PostgreSQL keeps the books, Redis caches lookups, Supabase keeps the accounts.
This directory holds TLA+ modules that model the program, the configurations
that check them with TLC, and proofs checked by TLAPS. Paths below are relative
to `src/`.

    tlc -config Shelf.cfg MCShelf.tla      # check a model
    tlapm ShelfProofs.tla                  # check the proofs

## 1. The system

| part | source | state it keeps | operations |
|---|---|---|---|
| saving, editing, removing | `internal/server/handlers.go` | none of its own; locals of a request | `scanSubmit`, `confirmSubmit`, `manualSubmit`, `saveBook`, `ownedByISBN`, `bookUpdate`, `bookDelete` |
| CSV import, export | `internal/server/csv.go` | locals of a request | `libraryImport`, `libraryExport`, parsing |
| repositories, schema | `internal/db`, `migrations` | tables `users`, `books`, `library_entries` | one SQL statement each |
| ISBN lookup | `internal/lookup` | cache keys `isbn:<isbn13>`, without expiry | `Service.Resolve` over four providers |
| session | `internal/auth`, login and logout handlers | two cookies in the browser; sessions at Supabase | `Middleware`, `SetSession`, `ClearSession`, sign in, sign out |
| listing and search | `handlers.go`, `internal/fuzzy` | none | `filterBooks`, `sortBooks`, paging, `fuzzy.Match` |
| in-memory repositories | `internal/{book,library,user}/memory.go` | maps behind a mutex | as the repositories |
| startup | `main.go`, `internal/db/migrate.go` | migration lock row, applied migrations | `RunMigrations`, shutdown |
| scan page | `internal/web/static/js/scanner.js`, `templates/pages/scan.html` | `scanning` flag, camera, requests under way, the result panel | decode, submit, resume, form, add button |
| library page | `templates/partials/library-list.html`, `search-results.html` | the form, the search under way, the grid and its button | type, load more |
| response middleware, templates | `internal/server/middleware.go`, `internal/web` | none across requests | headers, gzip, rendering |

**How they interact.** `net/http` runs one goroutine for each request. There is
no transaction in the program and no lock but the mutexes of the in-memory
repositories: requests meet in the database alone, one auto-committed statement
at a time, so between any two repository calls of a handler every other request
may take any number of steps. What keeps the data right is the schema
(`books.isbn` UNIQUE, `(user_id, book_id)` UNIQUE, two foreign keys) together
with what `saveBook` does when a statement runs into it. `Resolve` starts a
goroutine for each provider and joins them with a `WaitGroup`. The session
lives in the browser: each request carries the cookies of the moment it was
sent, and its answer may set new ones whenever it happens to arrive.

**What is hard, and what should hold.**

- *Concurrent additions* (two tabs, a scan and an import, two users): one copy
  per user and ISBN, one books row per ISBN, an answer that tells the truth, no
  error that nobody caused.
- *Check, then act*: `bookUpdate` and `bookDelete` check the owner in one
  statement and write in another; a scan decides "not owned" seconds before it
  saves. Nobody's copy but the owner's changes; nothing deleted comes back.
- *Partial failure*: a books row without its entry, a lost reply to an insert, a
  login without profile, a row in the middle of an import. A retry repairs it;
  the numbers reported add up.
- *Parallel lookup*: the slice of outcomes is read only after the last write;
  providers rank by configuration and not by speed; the cache never mixes ISBNs.
- *Cookies out of order*: never the tokens of two users at once, never another
  user's library, and no login lost but for a reason that can be named.
- *Startup of several machines*: migrations exclude each other, run once and in
  order, whoever dies where; a machine that serves has its schema.
- *Paging under change*: pages cut by offset skip or repeat no more rows than
  were added or removed; what was typed last is what is shown in the end, or the
  user is told that it is not.
- *Scanner and answers*: one lookup of the camera at a time, no late answer, no
  book added unasked, and scanning goes on after every failure.
- *CSV*: an export can be imported again and gives the same books; an edition is one book whichever of its
  two numbers it comes with; every row of a file is accounted for.
- *Two sets of repositories*: what is tested in memory is what PostgreSQL does,
  but where PostgreSQL refuses.

`PROJECT.json` lists each hazard at its line with the properties about it.

## 2. Modules

| module | models | size of the code |
|---|---|---|
| `AbstractShelf` | what the library promises: a shelf on which additions, edits and removals are atomic | specification |
| `Shelf` | every request that writes, statement by statement | handlers, import loop, repositories, schema |
| `MCShelf` | instances for TLC | |
| `ShelfProofs` | theorems about `Shelf`, the last of them that it implements `AbstractShelf` | |
| `LookupChain` | what `Resolve` promises: a cache, and a chain that tries providers in order | specification |
| `Lookup`, `MCLookup`, `LookupProofs` | `Service.Resolve`, many at once over one cache | `internal/lookup` |
| `Session`, `MCSession`, `SessionProofs` | one browser, its cookies, Supabase | `internal/auth`, login, logout, home |
| `Startup`, `MCStartup`, `StartupProofs` | machines that start, migrate, serve and stop | `main.go`, `migrate.go`, `pool.go` |
| `Text`, `Fuzzy`, `Csv` | texts, typo-tolerant matching, CSV files, as operators | `internal/fuzzy`, `csv.go` |
| `FuzzyProofs` | theorems about `levenshtein` and the words of a text | |
| `Library`, `MCLibrary`, `LibraryProofs` | the library page, with imports and exports; uses `Fuzzy` and `Csv` | handlers, `csv.go`, templates |
| `Scanner`, `MCScanner`, `ScannerProofs` | the scan page and its requests | `scanner.js`, `scan.html` |
| `Backends`, `MCBackends`, `BackendsProofs` | PostgreSQL and memory side by side | `db`, `memory.go`, schema |

Names follow the source. Operators whose comment begins with "Mutant:" are
wrong variants of the definition below them. They are not used by any
specification; each one is a plausible bug that at least one property catches.

### Shelf

`pc[r]` names the next repository call of request `r`; one action is that call
with all the code up to the next one.

| label | call | actions |
|---|---|---|
| `owned_book`, `owned_entry` | `ownedByISBN` | `OwnedBookFound`, `OwnedBookMissing`, `OwnedEntryFound`, `OwnedEntryMissing` |
| `resolve` | `lookup.Resolve` | `ResolveHit`, `ResolveMiss` |
| `create` | `books.Create` | `InsertBook`, `BookExists`, `Unstorable` |
| `getbook` | `books.GetByISBN` after the duplicate error | `FetchBook` |
| `link` | `library.Create` | `InsertEntry`, `EntryExists`, `NoProfile`, `Unstorable` |
| `getentry` | `library.GetByUserAndBook` | `FetchEntry`, `EntryVanished` |
| `upd_read`, `upd_write` | `bookUpdate` | `UpdateRead`, `CheckFails`, `UpdateWrite`, `UpdateFails` |
| `del_read`, `del_write` | `bookDelete` | `DeleteRead`, `CheckFails`, `DeleteWrite`, `DeleteFails` |

The statements of the requests in `Faulty` may also fail without effect (`SaveFault`
and the `Fails` actions) or take effect and fail (`InsertBookLost`, `InsertEntryLost`,
the second disjunct of the writes). `RowDone` is the end of `saveBook`: it
counts the row, and an import goes on with the next whatever the result is. The
lookup is a nondeterministic answer here; module `Lookup` says which one. A book
is its ISBN and an opaque `meta`, told apart only by whether title and author
are there (`Complete`) and whether PostgreSQL stores it. `Refused` are the data
and the details that it does not store: numbers beyond int4, a source that
`books_source_check` (migration 000006) does not know, which `confirmSubmit` takes
from the form unread, and texts with a NUL or with bytes that are no UTF-8. The
variable `met` is a history: the entry a request ran into, or read in order to
write it.

### Lookup

One action for each cache call, for each turn of the loop (`wg.Add`, `go`), for
each goroutine's store into its slot and its deferred `wg.Done`, and for what
follows `wg.Wait`. A book is represented by the provider it comes from;
`Catalogue` says which provider has which ISBN. `Redis = FALSE` is the
`NoopCache`.

### Session

`Send` copies the jar into the request; `Receive` applies an answer, in any
order or never; `CloseBrowser` drops the access cookie, which has no MaxAge;
`AccessExpires` and `CookieExpires` are time. The server's actions are the paths
through `verifyOrRefresh` and through the login, logout and home handlers.
Supabase is external and modelled from the calls made to it: it issues pairs of
tokens, revokes sessions, and accepts a refresh token once or, if it is in
`Reuse`, repeatedly (GoTrue's reuse interval makes both real). Whether a
verification fails depends on the token and the time, or, for requests in
`Faulty`, on nothing at all.

### Startup

`pc[m]` names the next call of machine `m`: `connect`, `init`, `lock`, `status`,
`mark`, `up`, `unlock` in `newDB` and `RunMigrations`, `services` for what `main`
builds afterwards, then `serving`, `draining` and `closing`. `lock` is the row of
`bun_migration_locks`, which outlives the machine that inserted it. Bun's
migrator is external: it marks a migration as applied before it runs it, the
default of `NewMigrator`. `Kill` is a crash, or a signal before
`signal.NotifyContext` is in place: nothing deferred runs. `ShutdownTimeout` is
the exit after ten seconds of `Shutdown`.

### Library

`shelf` is what `ListByUser` returns, newest first; `Found` is `filterBooks`
followed by `sortBooks`, `PageOf` and `HasNext` are `searchData`. The browser's
side is the form (`typed`, `asked`, `again`) and the grid (`shown`, `page`,
`cards`, `more`, `loading`): a form sends one request at a time and afterwards the
last change made meanwhile; a button that is no longer on the page swallows its
answer; both are htmx's defaults. `userRows` may lose any books (`Without(lost)`), and
`ListByUser` may fail, which the handler shows as an empty library. An answer may
have an error status or get lost (`SearchLost`, `MoreLost`): the grid stays, and
`app.js` shows a message (`toast`). `scroll` is an observer: what was added,
removed or lost since page 1 was loaded. A text is a
sequence of characters, of which the code tells the classes in `Text` apart.
`levenshtein` fills its table row by row, each row from left to right, as the
two loops do; only the reuse of two slices for all rows is left out, and `OneEdit`
says without any table what a typo is.
`Text!Listing` puts a set in order by counting, for each place, what comes before
it; filters (`Kept`) and stable sorts (`SortedBy`) are both listings of places.
In `Csv`, `Cells` are what a row has in the columns a field may be called, and
`FirstFilled` is the first of them that yields something, as `field` and the loop
over the ISBN columns do in `parseImportCSV`. What the CSV reader does to a cell is
`AsRead`: a line break of two characters, as forms send it, becomes one. `WithRecord`
is one turn of `libraryImport`'s loop: the author an empty one is replaced with, and
the book in front of the others unless it is there. `Valid` says what the forms let through; that what an import
lets through is valid too is proved.

### Scanner

`Decode` is `onScanSuccess` with `submitCode`, `Settle` its `finally`. `Serve` is
the answer of the server, `Receive` its arrival, `Lost` the failure of either.
html5-qrcode calls back before the promise of `start()` resolves (`CameraRuns`
before `Started`), and `beforeunload` stops the camera of a page that may stay. A
form of the result panel sends one request at a time; the form an answer puts in
its place has not sent any (`form` in a request).

### Backends

Each request goes to both stores, `pg` and `mem`; `said` is what each answered.
Accounts come, go and change their emails at Supabase, which knows nothing of
the `users` rows. Ids of books are left out: in memory the id is the ISBN.
`Arrives` is what reaches a statement of what a request brings. Nothing does of
what PostgreSQL refuses (`Refused`). A text with a NUL or with bytes that are no
UTF-8 (`Garbled`), such as a file in Latin-1 has, is either refused or stored
without these characters: how bun quotes a text is external, and both outcomes
are modelled. The memory takes all of it as it is.

## 3. What TLC checks

| run | instance | states | properties |
|---|---|---|---|
| `shelf` | 2 users, 1 ISBN, 3 requests of any kind, 2 of them with faults; data and notes that are refused | 527,705 | `IInv`, `OneCopyPerUser`, `AnswersAreTrue`, `EveryCopyAnnouncedOnce`, `OnlyOwnerChanges`, `NoResurrection`, `FailureHasACause`, `ImplementsShelf` |
| `shelf_import` | 1 user, 2 ISBNs, 2 requests, files of up to five rows, faults | 171,535 | `ImportAccountsForEveryRow`, `EveryRequestAnswered` |
| `lookup_faults` | 3 providers, 2 resolvers, faults | 539,212 | `IInv`, `JoinedBeforeRead`, `ImplementsChain`, `WorseDataHasACause` |
| `lookup_best` | the same, 3 ISBNs, no faults | 56,155 | `BestDataWins`, `EveryResolveReturns` |
| `session` | 2 users, 3 grants, 2 of which may be used again, 3 requests, one with faults | 192,738 | `IInv`, `JarOneGrant`, `ServedAsCarried`, `LoginEndsForAReason` |
| `startup_deploy` | an old version, a new one, one machine without database; faults and kills | 24,576 | `IInv`, `OneMigrator`, `AtMostOnce`, `ServesMigrated`, `AbandonedForGood`, `EveryPhaseEnds` |
| `library` | 3 queries, 2 books, one from a form and a file of three rows, pages of two books, 2 changes of the library, faults | 244,608 | `ChangesBoundErrors`, `QuietScrollIsExact`, `SearchKeepsPromise`, `ExportComesBack`, `RowsAddUp`, `OneCopyPerEdition`, `GridCatchesUp` |
| `scanner` | a known and an unknown book, 3 requests, faults | 44,670 | `OneLookupAtATime`, `NeverSilentlyAdds`, `NoLateCameraAnswer`, `ScannerComesBack` |
| `backends` | 2 accounts, 2 emails, 2 books, one of them a seed book; a work that is refused, a garbled text | 501,042 | `PartOnlyWhereUnfit`, `StaysShutOut` |

Three more runs (`shelf_skipped`, `session_logout`, `session_home`) end in a
counterexample; they are the findings of section 6.

**What the counts allow.** Some properties name an exception because the code has
it, and say that there is no other.

- `FailureHasACause` allows a save to fail when the entry it ran into is removed
  between the duplicate error and the select, although `saveBook`'s comment
  promises the existing entry "instead of erroring", and an edit when the entry it
  has read is. It has to be that entry (`met`), gone at the moment of the failure,
  and removed by a request of the same user; a removal at another time or of
  another copy excuses nothing. The other causes are data PostgreSQL does not
  store and a login whose profile upsert failed.
- `WorseDataHasACause` allows an entry of the cache to get worse in a resolve
  during which a better provider failed, although the comments call cached data
  practically immutable.
- `LoginEndsForAReason` names what may end the login the jar stands for (`Reason`):
  an answer to a login or logout; an answer to a request sent without a token of
  this login, so that a late answer to a page of before clears a fresh login; a
  failing call to Supabase; a logout that has revoked the session; and two pages
  that presented the same one-use token. The last is the race of `middleware.go:54`,
  and it does cost logins: what the property says of it is that nothing less than
  a second page with the very same token does. The one other end is that the
  cookies run out or were dropped.
- `SearchKeepsPromise` allows words with letters of two bytes to find more than the
  comments of `fuzzy` promise, never less.
- `GridCatchesUp` allows the grid to stay with an older search if the last answer was
  lost or had an error status, and then the message of `app.js` is shown.
- `ExportComesBack` compares a library with what the import of its export, loop
  included, makes of an empty one: the same books in the reverse order, with
  "Ukjent forfatter" where there was no author, and each text unchanged that can
  survive (`Survives` names the others: white space at the ends, line breaks of a
  form, an apostrophe before a formula character). It takes the editions not to be
  in the store yet, as one that is there keeps its own texts, and leaves out the
  source of a book, which becomes "manual".
- `PartOnlyWhereUnfit` allows the two stores to part at a save or an edit of what
  does not fit a table as it is (`Unfit`) and at a login with a stale email, and
  then PostgreSQL fails or answers the same.

**Bounds.** The sets of users, ISBNs, ids, requests, grants, resolvers, machines,
queries and books are finite in an instance. Guards bound three things: requests
under way on one machine (`MaxBusy`), requests sent from the scan page
(`MaxSent`) and changes of the library while one grid is scrolled (`MaxChanges`).
A request is handled once (a retry is another request), a resolver calls
`Resolve` again and again, a machine starts again and again. Three requests are
enough for the races of `Shelf`: two that meet in the same statements, and one
that removes what they rely on; two of them may fail, the third shows what
others' failures do to it. Two users share one books row. With three entry ids
each of three requests can add a copy. The file of `shelf_import` has one edition
twice, a row out of range, one with notes that are refused after the book was
stored, and one that is unusable, so that every way through the loop is taken
and all three counters move. Three of the four providers suffice to have
one before, one at and one after the winner. In `Session` two logins and a
refresh need three grants, and a mixed-up jar shows in the third request. A
deploy needs an old binary with one migration and a new one with three, so that
one machine's unapplied migrations are a prefix of the other's and one can be
interrupted with others after it. Pages of two books
make the two books to begin with end exactly at the end of a page, and a third
the first of the next; two changes are enough to repeat a card and to skip
another. The file has an edition of the library by its other number, a row that
cannot be read, a third edition, notes with the line break of a form and one
character too many. Three requests from the
scan page are one for each of its senders. In `Backends` one account is
deleted, or changes its email, and the other comes by it. The limit `MaxRows`
is reached by the file and by exports, `MaxNotes` exceeded by the notes of a
row; `MaxPage` is not met, as it would take 10,000 pages.

**Symmetry** is used in runs without liveness only (`shelf`, `shelf_skipped`,
`lookup_faults`, the three of `Session`, `backends`), over sets whose members
nothing in the module tells apart: requests and grants are permuted within
`Faulty` or `Reuse` and within the rest. Isbns and providers that a catalogue, a
file or `Seeds` names are not permuted.

**Deadlock** is checked for `Shelf`, which has a `Finished` step, and for
`Lookup`, `Startup`, `Library` and `Scanner`, where something can always happen.
In `Session` requests and in `Backends` accounts are used once, so the models may
end, and those configurations say `CHECK_DEADLOCK FALSE`.

**Fairness.** `Shelf!FairSpec` asks for weak fairness of each request that has
arrived: Go schedules its goroutine, and PostgreSQL answers each statement, if
need be with an error. The code sets no statement timeout, so this relies on
the database and is not enforced by the program. It is not assumed that requests
arrive. `Lookup!FairSpec` asks the same of the resolver and of each goroutine;
there the providers' HTTP clients give up after five seconds.
`Startup!FairSpec` asks it of what `main` does by itself, the timer of the
shutdown included; nothing has to fail, to start or to be killed, and no request
has to end. `Library!FairSpec` asks that a search under way is answered, or that the
browser finds that it will not be; `GridCatchesUp` is about users who stop typing. `Scanner!FairSpec` asks that
`start()` settles and that every request settles, with an answer or an error, as
an `XMLHttpRequest` does. `Session` claims no liveness: its HTTP client has no
timeout at all.

**The abstract shelf.** `ImplementsShelf` says that the statement-by-statement
system looks as if every addition, edit and removal were atomic. A copy on the
abstract shelf is an entry with its book's ISBN; an addition happens at the insert
into `library_entries`, where the answer "added" is settled as well; an answer
"existing" is settled at a moment when the asker has a copy. Books rows, the
order of statements and the locals disappear.

**The abstract lookup.** `ImplementsChain` says the same of `Resolve`: goroutines,
counter and slice disappear, and what is left is the cache, the chain of providers
and the cache again, as the comments on `Resolve` and its package promise. The
chain runs in a single step (`Pick` or `GiveUp`), which is the one after
`wg.Wait`. Of what providers do it shows their failures alone (`Break`), because
they decide the answer, and before the chain runs: a provider may fail after a
worse one has answered, and the worse answer wins all the same.

## 4. What is proved

For every value of the constants, from the assumptions named in each module
(`None` and the two cookie markers are not among the data; `Default` is a valid
detail; files consist of rows, and a file, its rows and its cells are sequences;
what is typed into the search field is a text, a sequence of characters;
`Catalogue` is a function of the providers; each machine's binary has a number of
migrations; the books that forms add are as the handlers' checks require,
`Valid`; all books together fit on the 10,000 pages of 24 that can be asked for;
the library to begin with has no ISBN twice; subsets are subsets). TLC evaluates
each of these assumptions for the instances.

| theorem | says |
|---|---|
| `ShelfProofs!InvariantHolds`, `TypeCorrect` | `IInv` and `TypeOK` hold throughout |
| `ShelfProofs!OneCopy` | no user ever has two copies of an ISBN |
| `ShelfProofs!TrueAnswers` | the copy an answer links to is the asker's and of the right ISBN, or has gone |
| `ShelfProofs!CheckedOwner` | the owner check still holds when the write runs |
| `ShelfProofs!OwnerOnly` | a copy changes or goes only by its owner's own update or delete of it |
| `ShelfProofs!DeletedStays` | a deleted copy stays deleted |
| `ShelfProofs!AnnouncedOnce` | each copy ever stored was announced as added once, or a reply was lost for it |
| `ShelfProofs!EveryRowCounted` | added, existing, failed and unusable rows make up an imported file |
| `ShelfProofs!FailuresExplained` | a save or an edit fails for a fault, refused data, a missing profile, or the removal of the very copy it has in hand |
| `ShelfProofs!Refines` | `Shelf` implements `AbstractShelf`, with all its faults and lost replies |
| `LookupProofs!InvariantHolds`, `TypeCorrect` | `IInv`; the WaitGroup counter never goes negative |
| `LookupProofs!Joined` | the slice is read after the last goroutine has ended |
| `LookupProofs!Priority`, `Genuine` | the hit of the first provider wins; ISBNs never mix |
| `LookupProofs!NoWorseWithoutFault` | only a provider's failure lets worse data into the cache |
| `LookupProofs!Refines` | `Lookup` implements `LookupChain`: callers see a chain tried in order |
| `LookupProofs!BestWins` | without failures the result is the best provider's, cache or none |
| `SessionProofs!InvariantHolds`, `TypeCorrect` | `IInv` and `TypeOK` |
| `SessionProofs!OneGrant`, `ServedOwn` | the cookies are of one login, and pages show the library of its user |
| `SessionProofs!LoginsEndForAReason` | an answer ends a login only for one of the five reasons |
| `StartupProofs!InvariantHolds`, `TypeCorrect` | `IInv` and `TypeOK`, for any number of machines, versions and restarts |
| `StartupProofs!Exclusive`, `Once`, `Ordered` | one machine migrates at a time; no migration runs twice; they run in order |
| `StartupProofs!SchemaReady` | a machine that serves has its schema, but for interrupted migrations |
| `StartupProofs!LockNeverRecovers` | a dead machine's lock keeps every later start out |
| `ScannerProofs!InvariantHolds`, `TypeCorrect` | `IInv` and `TypeOK`, for any number of requests |
| `ScannerProofs!OneLookup`, `AskedFor`, `LastDecoded` | the three safety properties of the scan page |
| `BackendsProofs!InvariantHolds`, `TypeCorrect` | `IInv` and `TypeOK` |
| `BackendsProofs!OnlyUnfitParts` | only data that does not fit a table as it is, or a stale email, makes the stores part |
| `BackendsProofs!ShutOutForGood` | who registers with a deleted account's email never gets a profile or a book |
| `LibraryProofs!InvariantHolds`, `TypeCorrect` | `IInv` and `TypeOK`, for any library, queries, page size, files and changes |
| `LibraryProofs!ErrorsBounded` | paging by offset repeats and leaves out no more books than were added and removed meanwhile |
| `LibraryProofs!QuietScrollExact` | without changes the pages are the matches in order, with a button exactly while some are left |
| `LibraryProofs!RowsCounted` | every row of a file is in one of the import's numbers |
| `LibraryProofs!ExportRoundTrip` | importing the export of any library into an empty one gives each book once, in the reverse order, with the texts that can survive |
| `LibraryProofs!EditionOnce` | where check digits are right (`GenuineNumbers`), no edition is twice on the shelf |
| `FuzzyProofs!DistanceCountsEdits` | up to two, `levenshtein` is the number of edits between two words, for any words |
| `LibraryProofs!SearchFinds` | what is promised is found, and of words in one-byte letters nothing else |

**The inductive invariants.** `OneCopyPerUser` alone is not inductive: a request
about to insert its entry holds a book id from an earlier statement, and only if
that id is still the row of the ISBN does the UNIQUE constraint on
`(user_id, book_id)` say anything about ISBNs. So `Shelf!IInv` adds what each
handler's locals say about the tables (`Holding`) and that both constraints and
the foreign keys hold. The proof has one lemma for each group of actions; all
steps leave the tables as `Grows` allows, which is enough for the locals of the
requests that do not move (`Bystander`), and each action is left with its own.
`Lookup!IInv` says that the counter is the number of unfinished goroutines and
that a finished one has filled its slot; `BestInv` adds, for the runs without
failures, that a slot says what its provider has and the cache holds nothing but
the best. The refinement needs besides that the cache is empty without Redis
(`Emptied`), as the chain knows of no other reason to miss than a failure or an
empty entry; that the hits of a resolver that has waited are the providers the
chain would get an answer from (`HitsAnswer`) follows from `IInv`.
`Session!IInv` says that whatever a request carries is part of one
grant Supabase has issued. The argument is the same: Supabase only adds grants
and revocations, which disturbs no other request. For `LoginsEndForAReason` it
says why each thing that can end a login came about: a page is sent to log in for
a reason (`ClearedForAReason`), a used token was presented by a page that has been
answered (`SpentByAPage`), and a revoked session was logged out of or had a token
presented twice (`RevokedForAReason`). None of these is undone by a step
(`CausesStay`), so the reason still holds when the answer arrives.

The action properties of `Shelf` rest on `Effects`: of all steps only two inserts,
the update and the delete touch the tables. That an update is by the copy's owner is
`CheckedOwnerStillHolds`, seen from the write. The refinement takes from `IInv`
that a row's entries are the copies of its ISBN (`HasIsLinked`), so that the
UNIQUE constraints on ids mean at the abstract level "at most one copy of an
ISBN"; a books row inserted or read is a stutter, an answer is a step.

`Startup!IInv` says of the database that the recorded migrations are a prefix and
that each has run, was interrupted or is the one being run; of each machine
(`Stage`) what it has read that must stay true. It does stay true because only the
machine between Lock and Unlock records migrations, and there is one
(`OneMigrator`), so that no other machine's stage speaks of what changed. Without
"recorded is a prefix" a machine of an older version could find nothing to do
and serve without a migration of its own. `AbandonedForGood` needs `IInv` for the
machines that hold no lock and can therefore not record anything.
`Scanner!IInv` adds when the camera can have sent anything: not before `start()`
has resolved, and then only its last barcode; and that a request which will add
its book was asked to, which has to hold before the server sees it.
`Backends!IInv` says that a session implies a profile in memory, and an entry in
PostgreSQL its user. `OnlyUnfitParts` goes over the requests: from equal stores
each gives equal answers and equal stores, unless what it brings is unfit or the
email is stale.

`Library!IInv` makes the bound on the errors of paging inductive. What counts is
not the cards alone but also what the pages to come will do: `Twice` adds to the
repeated cards those that are behind the end of the last page and will come
again; `Missed` are the lasting matches ahead of it that are not among the cards
and will not come. Books that come or go, one at a time or several that cannot be read,
move that end by as many (`Squeeze`), so each count grows by as many at most, and
loading a page turns what was to come into cards without changing either. In a library nobody changes both are
zero and more holds, which is `Exact`. The proof rests on facts about `Listing`: it
lists a set in its order, so that sorting keeps all books and is stable, and the
place in the list is the number of books before (`RankInList`). These count
elements of finite sets; where an induction is needed, it is on a number, by the
least one that fails (`LeastNumber`), which needs no theorem with a parameter.

`AnnouncedOnce` pairs each request with the numbers up to its count of "added"; an
insert makes a new entry id and, once its answer is settled, one pair more, unless
a faulty request counts a failure instead. `EveryRowCounted` needs for each
import under way that the rows to come, the present one and those counted make
up the file (`Accounts`). `FailuresExplained` needs that the copy a request has run into, or has
read in order to write it, is there with its owner and book, or was removed by a
request of the same user since (`Excused`); it is there when the request meets it,
and an answered removal is never undone.

`ExportRoundTrip` follows a book into its cells and back: `csvUnsafe` and `TrimSpace`
undo `csvSafe` on every text that can survive (`RoundTrip`), each exported column is
found again under one of its aliases (`ExportedColumns`), and a book in the library
is one the import will not refuse, whether a form or an import brought it
(`BooksAreValid`): that is why an export never has skipped rows. As the books differ,
the loop leaves none out and puts each in front of those before it (`FilledIs`).
`EditionOnce` needs
its hypothesis: neither the forms nor the import look at the check digit of an
ISBN-13, so a mistyped one is another book to the program. Of genuine numbers two
that agree in twelve digits are the same, and the digit `normalizeISBN` computes
for an ISBN-10 is the genuine one (`NewDigitFits`).

The inductive invariants of `Library`, `Scanner` and `Backends` are operators of
these modules too and hold on the instances above; they are not among the
properties of the runs, which state what follows from them.

`DistanceCountsEdits` compares two things that have no definition in common: a
table of numbers and a set of words. The rows are recursive functions on numbers,
so each is its recursion equation, and the table (`IsTable`) is known by its cells.
That edits do not cost more than they are (`WithinBound`): put the table of a word
beside that of the word with an edit; cells left of the edit are the same, and from
there on no cell is more than one larger, column by column (`EditMoves`). That the
distance is not less than the edits (`WithinFinds`): of all cells whose number up to
two is not matched by edits of the two beginnings, take one with the least sum of
indices; the neighbour it got its number from is matched, and one more edit at the
end, or the same letter at the end of both, matches the cell itself. Both are
inductions by the least number that fails. `SearchFinds` carries this from words to
books: the code matches against title, author and publisher joined with blanks, and
the words of the joined text are those of the three (`FieldsJoin`), in lower case
or not (`LowerJoin`). A word's bytes are at least its characters (`BytesAre`), which
is why the tolerance is never less than promised, and the same for one-byte letters.

**Only model-checked**: liveness (`EveryRequestAnswered`, `EveryResolveReturns`,
`EveryPhaseEnds`, `GridCatchesUp`, `ScannerComesBack`), which is beyond the provers,
as is ENABLED. All invariants and action properties of the passing runs, and both
refinements, are theorems.

## 5. What is not modelled, and the plan

Built in this order: `Shelf` with its abstraction, `Lookup`, `Session`, then
`Startup`, `Csv`, `Fuzzy` and `Library`, `Scanner`, `Backends`. What is left:

1. `Shelf` and `Lookup` composed where a scan resolves. `Lookup` promises only
   that the data is of the ISBN asked for (`ResultIsGenuine`), which is what
   `ResolveHit` assumes.
2. Ties of `added_at`: rows added within one microsecond come in no defined order
   from `ListByUser`, and by book id in memory. `Library` gives every row a time
   of its own.

Left out for good:

- the parsing of provider answers beyond hit, miss and failure (their formats are
  external), and with it when an author is empty;
- templates and styles, beyond the forms and buttons that send requests;
- response headers, compression and the health check, which keep no state across
  responses, and the origin check, which is the standard library's;
- the key set refresh inside the JWT library, and the quoting of `encoding/csv`;
- repository methods without a caller: `List`, `Search` and `GetByEmail`, `Update`
  and `Delete` of books, `Create`, `List`, `Update` and `Delete` of users;
- down migrations, which the program never runs.

## 6. Findings

| run | property | what the run shows |
|---|---|---|
| `shelf_skipped` | `SkippedRowsAreUnusable` | an import reports rows whose save failed as lacking a valid ISBN or title, such as one with a year beyond int4 |
| `session_logout` | `LogoutSticks` | a page under way during a logout may have its tokens refreshed; its answer, arriving last, logs the browser in again |
| `session_home` | `HomeIsPersonal` | `GET /` is not behind the middleware that puts claims into the context, so the personal home page is never shown |

Two more comments promise what the code does not do; properties that hold say so
for every continuation instead of one trace:

- `RunMigrations` is called "safe to call on every startup: with nothing left to
  apply it's a no-op" (`db/migrate.go:27-28`). It takes the lock, a row, before it
  looks for migrations, and only the deferred `Unlock` deletes that row: once a
  machine was killed in between, `RunMigrations` fails at every startup
  (`AbandonedForGood`, `StartupProofs!LockNeverRecovers`).
- `Upsert` is to keep the profile mirror in sync with Supabase's record on every
  successful login (`user/interfaces.go:24-27`). Its statement resolves conflicts
  on `id` alone (`db/user_repo.go:131`): a login with an email that the mirror still
  has for another account leaves the mirror as it was, and whoever registers with
  the email of a deleted account never gets a row (`StaysShutOut`).

The details of the first three, with the lines of code and of the comments they
contradict, are in `PROJECT.json`.
