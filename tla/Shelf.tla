-------------------------------- MODULE Shelf --------------------------------
(***************************************************************************)
(* Every request that adds a book to a library, changes a copy or removes  *)
(* one, interleaved statement by statement with all the others.            *)
(*                                                                         *)
(* The HTTP server runs one goroutine per request and opens no transaction *)
(* anywhere: each repository call is one auto-committed SQL statement, so  *)
(* between any two calls of a handler every other request may take any     *)
(* number of steps.  A label of pc names the next repository call (or      *)
(* lookup) of the request; an action is that call together with all the    *)
(* code up to the next one.                                                *)
(*                                                                         *)
(* Tables: users is the profile mirror and only matters as the target of a *)
(* foreign key; books is shared by all users; library_entries holds one    *)
(* row per (user, book).  No handler deletes or updates a books row.       *)
(***************************************************************************)
EXTENDS Naturals, FiniteSets, Sequences

CONSTANTS
    Users,          \* Supabase user ids
    Isbns,          \* strings isValidEAN13 accepts
    Metas,          \* bibliographic data a book is resolved to or entered with
    Complete,       \* ... those with a title and an author
    Details,        \* (status, notes, location) a form may carry
    ValidDetails,   \* ... those bookUpdate accepts
    Default,        \* ("unread", "", ""): what a new row gets without details
    Refused,        \* data and details PostgreSQL does not store
    ImportFiles,    \* what parseImportCSV makes of an uploaded file
    BookIds,        \* uuids of books rows
    EntryIds,       \* uuids of library_entries rows
    Requests,       \* requests; each is handled once (bounds a TLC run)
    Faulty,         \* requests whose statements may fail; with any, logins may too
    None            \* absent

Book      == [isbn : Isbns, meta : Metas]
Entry     == [user : Users, book : BookIds, details : Details]
ImportRow == [isbn : Isbns, meta : Complete, details : ValidDetails]

Ops      == {"save", "scan", "auto", "import", "update", "delete"}
Outcomes == {"added", "existing", "failed"}
Answers  == Outcomes \cup {"invalid", "preview", "miss", "imported",
                           "saved", "removed", "notfound"}

Job == [op : Ops, user : Users, details : Details, size : Nat, unusable : Nat]
Row == [isbn : Isbns, meta : Metas \cup {None}, details : Details]

\* What the users of AbstractShelf see of a row of a request and of an entry.
Wish == [user : Users, isbn : Isbns]
Copy == [user : Users, isbn : Isbns, details : Details]

ASSUME DataAssumption ==
    /\ Complete \subseteq Metas
    /\ Default \in ValidDetails \ Refused
    /\ ValidDetails \subseteq Details
    /\ Refused \subseteq Metas \cup Details
    /\ ImportFiles \subseteq [rows : Seq(ImportRow), unusable : Nat]
    /\ Faulty \subseteq Requests

ASSUME NoneAssumption ==
    None \notin Book \cup Entry \cup Metas \cup BookIds \cup EntryIds
                \cup Job \cup Row \cup Answers \cup Wish \cup Copy

VARIABLES
    sessions,   \* users with a session cookie the auth middleware accepts
    profiles,   \* ids in the users table
    books,      \* the books table
    entries,    \* the library_entries table
    used,       \* entry ids ever issued (a uuid is never issued twice)
    pc,         \* the next call of each request
    job,        \* what the request asks for
    row,        \* the book being saved, b and details of saveBook
    rest,       \* rows of an import after the present one
    book,       \* b.ID, a local of saveBook and of ownedByISBN
    entry,      \* the entry addressed by the path, or the one answered with
    tally,      \* results of saveBook so far (importResultData)
    ans,        \* the fragment or status code answered with
    met         \* history: the copy the request ran into, or read to write it

store  == <<sessions, profiles, books, entries, used>>
locals == <<pc, job, row, rest, book, entry, tally, ans, met>>
vars   == <<sessions, profiles, books, entries, used,
            pc, job, row, rest, book, entry, tally, ans, met>>

Labels == {"idle", "owned_book", "owned_entry", "resolve", "create",
           "getbook", "link", "getentry", "upd_read", "upd_write",
           "del_read", "del_write", "done"}

TypeOK ==
    /\ sessions \subseteq Users
    /\ profiles \subseteq Users
    /\ books \in [BookIds -> Book \cup {None}]
    /\ entries \in [EntryIds -> Entry \cup {None}]
    /\ used \subseteq EntryIds
    /\ pc \in [Requests -> Labels]
    /\ job \in [Requests -> Job \cup {None}]
    /\ row \in [Requests -> Row \cup {None}]
    /\ rest \in [Requests -> Seq(ImportRow)]
    /\ book \in [Requests -> BookIds \cup {None}]
    /\ entry \in [Requests -> EntryIds \cup {None}]
    /\ tally \in [Requests -> [Outcomes -> Nat]]
    /\ ans \in [Requests -> Answers \cup {None}]
    /\ met \in [Requests -> EntryIds \cup {None}]

Init ==
    /\ sessions = {}
    /\ profiles = {}
    /\ books = [b \in BookIds |-> None]
    /\ entries = [e \in EntryIds |-> None]
    /\ used = {}
    /\ pc = [r \in Requests |-> "idle"]
    /\ job = [r \in Requests |-> None]
    /\ row = [r \in Requests |-> None]
    /\ rest = [r \in Requests |-> <<>>]
    /\ book = [r \in Requests |-> None]
    /\ entry = [r \in Requests |-> None]
    /\ tally = [r \in Requests |-> [o \in Outcomes |-> 0]]
    /\ ans = [r \in Requests |-> None]
    /\ met = [r \in Requests |-> None]

-----------------------------------------------------------------------------
(* Queries on the tables *)

\* The row GetByISBN selects, if there is one.
HasIsbn(b, i) == books[b] # None /\ books[b].isbn = i
IsbnTaken(i)  == \E b \in BookIds : HasIsbn(b, i)

\* Mutant: ... WHERE book_id = ? only.
IsCopy_AnyUser(e, u, b) == entries[e] # None /\ entries[e].book = b

\* The row GetByUserAndBook selects, if there is one.
IsCopy(e, u, b) == entries[e] # None /\ entries[e].user = u /\ entries[e].book = b
Linked(u, b)    == \E e \in EntryIds : IsCopy(e, u, b)

\* INSERT INTO books: books.isbn is UNIQUE.
AddBook(b, i, m) ==
    /\ m \notin Refused
    /\ ~IsbnTaken(i)
    /\ books[b] = None
    /\ books' = [books EXCEPT ![b] = [isbn |-> i, meta |-> m]]

\* Mutant: UNIQUE (user_id, book_id) is missing.
AddEntry_NotUnique(e, u, b, d) ==
    /\ u \in profiles
    /\ d \notin Refused
    /\ e \notin used
    /\ used' = used \cup {e}
    /\ entries' = [entries EXCEPT ![e] = [user |-> u, book |-> b, details |-> d]]

\* INSERT INTO library_entries: user_id is a foreign key, (user_id, book_id)
\* is UNIQUE, the id is a fresh uuid.
AddEntry(e, u, b, d) ==
    /\ u \in profiles
    /\ d \notin Refused
    /\ ~Linked(u, b)
    /\ e \notin used
    /\ used' = used \cup {e}
    /\ entries' = [entries EXCEPT ![e] = [user |-> u, book |-> b, details |-> d]]

\* UPDATE library_entries SET status, notes, location; DELETE FROM ....
EditEntry(e, d) == entries' = [entries EXCEPT ![e].details = d]
DropEntry(e)    == entries' = [entries EXCEPT ![e] = None]

Owns(r, e) == entries[e] # None /\ entries[e].user = job[r].user

-----------------------------------------------------------------------------
(* Logging in *)

\* loginSubmit with the upsert of the profile mirror done.
Login(u) ==
    /\ u \notin sessions \cap profiles
    /\ sessions' = sessions \cup {u}
    /\ profiles' = profiles \cup {u}
    /\ UNCHANGED <<books, entries, used, locals>>

\* loginSubmit with that upsert failed: the error is logged, the session is
\* set all the same.
LoginUnsynced(u) ==
    /\ Faulty # {}
    /\ u \notin sessions
    /\ sessions' = sessions \cup {u}
    /\ UNCHANGED <<profiles, books, entries, used, locals>>

-----------------------------------------------------------------------------
(* The routes.  requireAuth lets only a logged-in user's request through. *)

JobOf(o, u, d, n, k) ==
    [op |-> o, user |-> u, details |-> d, size |-> n, unusable |-> k]

\* Request r of user j.user arrives and goes to its first call, with the
\* sequence rows of books to save (if any) and the entry id of the path.
Begin(r, label, j, rows, e) ==
    /\ pc[r] = "idle"
    /\ j.user \in sessions
    /\ pc' = [pc EXCEPT ![r] = label]
    /\ job' = [job EXCEPT ![r] = j]
    /\ row' = [row EXCEPT ![r] = IF rows = <<>> THEN None ELSE Head(rows)]
    /\ rest' = [rest EXCEPT ![r] = IF rows = <<>> THEN <<>> ELSE Tail(rows)]
    /\ entry' = [entry EXCEPT ![r] = e]
    /\ UNCHANGED <<store, book, tally, met>>

OneRow(i, m) == <<[isbn |-> i, meta |-> m, details |-> Default]>>

\* confirmSubmit and manualSubmit: title and author must be present.
Submit(r, u, i, m) ==
    /\ m \in Complete
    /\ Begin(r, "create", JobOf("save", u, Default, 1, 0), OneRow(i, m), None)
    /\ UNCHANGED ans

RejectSubmit(r, u, i, m) ==
    /\ m \notin Complete
    /\ Begin(r, "done", JobOf("save", u, Default, 1, 0), OneRow(i, m), None)
    /\ ans' = [ans EXCEPT ![r] = "invalid"]

\* scanSubmit: looks at the user's own library first.  o is "auto" when the
\* scan page's toggle is on.
Scan(r, u, i, o) ==
    /\ Begin(r, "owned_book", JobOf(o, u, Default, 1, 0), OneRow(i, None), None)
    /\ UNCHANGED ans

\* libraryImport: the loop over the rows parseImportCSV returned.
Import(r, u, f) ==
    LET j == JobOf("import", u, Default, Len(f.rows) + f.unusable, f.unusable)
    IN  \/ /\ f.rows # <<>>
           /\ Begin(r, "create", j, f.rows, None)
           /\ UNCHANGED ans
        \/ /\ f.rows = <<>>
           /\ Begin(r, "done", j, f.rows, None)
           /\ ans' = [ans EXCEPT ![r] = "imported"]

\* bookUpdate and bookDelete, on an id some page of the site has shown.
Update(r, u, e, d) ==
    /\ e \in used
    /\ Begin(r, "upd_read", JobOf("update", u, d, 0, 0), <<>>, e)
    /\ UNCHANGED ans

Delete(r, u, e) ==
    /\ e \in used
    /\ Begin(r, "del_read", JobOf("delete", u, Default, 0, 0), <<>>, e)
    /\ UNCHANGED ans

-----------------------------------------------------------------------------
(* scanSubmit: ownedByISBN, then the lookup *)

Goto(r, from, to) ==
    /\ pc[r] = from
    /\ pc' = [pc EXCEPT ![r] = to]

Answer(r, from, a) ==
    /\ Goto(r, from, "done")
    /\ ans' = [ans EXCEPT ![r] = a]

\* Mutant: continue before the counters.
Count_Successes(r, o) ==
    tally' = IF o = "failed" THEN tally ELSE [tally EXCEPT ![r][o] = @ + 1]

\* One more row with result o (importResultData).
Count(r, o) == tally' = [tally EXCEPT ![r][o] = @ + 1]

OwnedBookFound(r, b) ==
    /\ Goto(r, "owned_book", "owned_entry")
    /\ HasIsbn(b, row[r].isbn)
    /\ book' = [book EXCEPT ![r] = b]
    /\ UNCHANGED <<store, job, row, rest, entry, tally, ans, met>>

\* No such book, or any failure of the query.
OwnedBookMissing(r) ==
    /\ Goto(r, "owned_book", "resolve")
    /\ IsbnTaken(row[r].isbn) => r \in Faulty
    /\ UNCHANGED <<store, job, row, rest, book, entry, tally, ans, met>>

\* "You already have it": counted as existing, like saveBook's own answer.
OwnedEntryFound(r, e) ==
    /\ Answer(r, "owned_entry", "existing")
    /\ IsCopy(e, job[r].user, book[r])
    /\ entry' = [entry EXCEPT ![r] = e]
    /\ Count(r, "existing")
    /\ UNCHANGED <<store, job, row, rest, book, met>>

OwnedEntryMissing(r) ==
    /\ Goto(r, "owned_entry", "resolve")
    /\ Linked(job[r].user, book[r]) => r \in Faulty
    /\ UNCHANGED <<store, job, row, rest, book, entry, tally, ans, met>>

\* Resolver.Resolve found data m: save it at once, or show a preview.
ResolveHit(r, m) ==
    /\ \/ /\ Goto(r, "resolve", "create")
          /\ job[r].op = "auto"
          /\ UNCHANGED ans
       \/ /\ Answer(r, "resolve", "preview")
          /\ job[r].op = "scan"
    /\ row' = [row EXCEPT ![r].meta = m]
    /\ UNCHANGED <<store, job, rest, book, entry, tally, met>>

\* lookup.ErrNotFound: the manual entry form.
ResolveMiss(r) ==
    /\ Answer(r, "resolve", "miss")
    /\ UNCHANGED <<store, job, row, rest, book, entry, tally, met>>

-----------------------------------------------------------------------------
(* saveBook *)

\* saveBook returns o for the present row.  An import counts it and goes on
\* with the next row whatever o is; every other caller answers o.
RowDone(r, from, o, e) ==
    /\ pc[r] = from
    /\ Count(r, o)
    /\ entry' = [entry EXCEPT ![r] = e]
    /\ met' = [met EXCEPT ![r] = None]
    /\ \/ /\ rest[r] # <<>>
          /\ pc' = [pc EXCEPT ![r] = "create"]
          /\ row' = [row EXCEPT ![r] = Head(rest[r])]
          /\ rest' = [rest EXCEPT ![r] = Tail(rest[r])]
          /\ UNCHANGED ans
       \/ /\ rest[r] = <<>>
          /\ pc' = [pc EXCEPT ![r] = "done"]
          /\ ans' = [ans EXCEPT ![r] = IF job[r].op = "import" THEN "imported" ELSE o]
          /\ UNCHANGED <<row, rest>>
    /\ UNCHANGED job

InsertBook(r, b) ==
    /\ Goto(r, "create", "link")
    /\ AddBook(b, row[r].isbn, row[r].meta)
    /\ book' = [book EXCEPT ![r] = b]
    /\ UNCHANGED <<sessions, profiles, entries, used, job, row, rest, entry, tally, ans, met>>

\* Mutant: ErrDuplicateISBN is an error like any other.
BookExists_Fails(r) ==
    /\ RowDone(r, "create", "failed", None)
    /\ row[r].meta \notin Refused
    /\ IsbnTaken(row[r].isbn)
    /\ UNCHANGED <<store, book>>

\* ErrDuplicateISBN: reuse the row that is there.
BookExists(r) ==
    /\ Goto(r, "create", "getbook")
    /\ row[r].meta \notin Refused
    /\ IsbnTaken(row[r].isbn)
    /\ UNCHANGED <<store, job, row, rest, book, entry, tally, ans, met>>

\* Mutant: tries the insert again instead of using the row.
FetchBook_Again(r, b) ==
    /\ Goto(r, "getbook", "create")
    /\ HasIsbn(b, row[r].isbn)
    /\ book' = [book EXCEPT ![r] = b]
    /\ UNCHANGED <<store, job, row, rest, entry, tally, ans, met>>

FetchBook(r, b) ==
    /\ Goto(r, "getbook", "link")
    /\ HasIsbn(b, row[r].isbn)
    /\ book' = [book EXCEPT ![r] = b]
    /\ UNCHANGED <<store, job, row, rest, entry, tally, ans, met>>

InsertEntry(r, e) ==
    /\ RowDone(r, "link", "added", e)
    /\ AddEntry(e, job[r].user, book[r], row[r].details)
    /\ UNCHANGED <<sessions, profiles, books, book>>

\* Mutant: ErrDuplicateEntry is taken for success.
EntryExists_Added(r) ==
    /\ RowDone(r, "link", "added", None)
    /\ row[r].details \notin Refused
    /\ Linked(job[r].user, book[r])
    /\ UNCHANGED <<store, book>>

\* ErrDuplicateEntry: answer with the row that is there.
EntryExists(r) ==
    /\ Goto(r, "link", "getentry")
    /\ row[r].details \notin Refused
    /\ \E e \in EntryIds :
          /\ IsCopy(e, job[r].user, book[r])
          /\ met' = [met EXCEPT ![r] = e]
    /\ UNCHANGED <<store, job, row, rest, book, entry, tally, ans>>

FetchEntry(r, e) ==
    /\ RowDone(r, "getentry", "existing", e)
    /\ IsCopy(e, job[r].user, book[r])
    /\ UNCHANGED <<store, book>>

\* ... or is no longer there: another request of this user removed it.
EntryVanished(r) ==
    /\ RowDone(r, "getentry", "failed", None)
    /\ ~Linked(job[r].user, book[r])
    /\ UNCHANGED <<store, book>>

\* The insert into library_entries violates the foreign key on users.
NoProfile(r) ==
    /\ RowDone(r, "link", "failed", None)
    /\ job[r].user \notin profiles
    /\ UNCHANGED <<store, book>>

\* PostgreSQL refuses what it cannot store before it looks for duplicates: a
\* year or page count beyond int4, a source books_source_check does not know, a
\* text that is no UTF-8 or holds a NUL.  Details are stored with the entry.
Unstorable(r) ==
    /\ \/ RowDone(r, "create", "failed", None) /\ row[r].meta \in Refused
       \/ RowDone(r, "link", "failed", None) /\ row[r].details \in Refused
    /\ UNCHANGED <<store, book>>

\* A statement of saveBook fails and has no effect.
SaveFault(r) ==
    /\ r \in Faulty
    /\ \E from \in {"create", "getbook", "link", "getentry"} :
          RowDone(r, from, "failed", None)
    /\ UNCHANGED <<store, book>>

\* An insert takes effect, but its reply is lost.
InsertBookLost(r, b) ==
    /\ r \in Faulty
    /\ RowDone(r, "create", "failed", None)
    /\ AddBook(b, row[r].isbn, row[r].meta)
    /\ UNCHANGED <<sessions, profiles, entries, used, book>>

InsertEntryLost(r, e) ==
    /\ r \in Faulty
    /\ RowDone(r, "link", "failed", None)
    /\ AddEntry(e, job[r].user, book[r], row[r].details)
    /\ UNCHANGED <<sessions, profiles, books, book>>

-----------------------------------------------------------------------------
(* bookUpdate and bookDelete: read the entry and check its owner, then write *)

\* Gone, not the caller's, or (404 as well) unreadable.
CheckFails(r) ==
    /\ \E from \in {"upd_read", "del_read"} : Answer(r, from, "notfound")
    /\ r \in Faulty \/ ~Owns(r, entry[r])
    /\ UNCHANGED <<store, job, row, rest, book, entry, tally, met>>

UpdateRead(r) ==
    /\ \/ /\ Goto(r, "upd_read", "upd_write")
          /\ job[r].details \in ValidDetails
          /\ UNCHANGED ans
       \/ /\ Answer(r, "upd_read", "invalid")
          /\ job[r].details \notin ValidDetails
    /\ Owns(r, entry[r])
    /\ met' = [met EXCEPT ![r] = entry[r]]
    /\ UNCHANGED <<store, job, row, rest, book, entry, tally>>

\* Mutant: writes back the whole row it read, inserting it if need be.
UpdateWrite_Upsert(r) ==
    LET b == CHOOSE x \in BookIds : books[x] # None
    IN  /\ Answer(r, "upd_write", "saved")
        /\ entries' = [entries EXCEPT ![entry[r]] =
               [user |-> job[r].user, book |-> b, details |-> job[r].details]]
        /\ UNCHANGED <<sessions, profiles, books, used, job, row, rest, book, entry, tally, met>>

UpdateWrite(r) ==
    /\ \/ Answer(r, "upd_write", "saved")
       \/ r \in Faulty /\ Answer(r, "upd_write", "failed")
    /\ job[r].details \notin Refused
    /\ entries[entry[r]] # None
    /\ EditEntry(entry[r], job[r].details)
    /\ UNCHANGED <<sessions, profiles, books, used, job, row, rest, book, entry, tally, met>>

\* No row affected, notes or a location PostgreSQL cannot store, or the
\* statement failed without effect.
UpdateFails(r) ==
    /\ Answer(r, "upd_write", "failed")
    /\ r \in Faulty \/ job[r].details \in Refused \/ entries[entry[r]] = None
    /\ UNCHANGED <<store, job, row, rest, book, entry, tally, met>>

\* Mutant: no owner check.
DeleteRead_Anyone(r) ==
    /\ Goto(r, "del_read", "del_write")
    /\ entries[entry[r]] # None
    /\ UNCHANGED <<store, job, row, rest, book, entry, tally, ans, met>>

DeleteRead(r) ==
    /\ Goto(r, "del_read", "del_write")
    /\ Owns(r, entry[r])
    /\ UNCHANGED <<store, job, row, rest, book, entry, tally, ans, met>>

DeleteWrite(r) ==
    /\ \/ Answer(r, "del_write", "removed")
       \/ r \in Faulty /\ Answer(r, "del_write", "failed")
    /\ entries[entry[r]] # None
    /\ DropEntry(entry[r])
    /\ UNCHANGED <<sessions, profiles, books, used, job, row, rest, book, entry, tally, met>>

DeleteFails(r) ==
    /\ \/ Answer(r, "del_write", "failed") /\ r \in Faulty
       \/ Answer(r, "del_write", "notfound") /\ entries[entry[r]] = None
    /\ UNCHANGED <<store, job, row, rest, book, entry, tally, met>>

-----------------------------------------------------------------------------
Arrive(r) ==
    \E u \in Users :
        \/ \E i \in Isbns, m \in Metas : Submit(r, u, i, m) \/ RejectSubmit(r, u, i, m)
        \/ \E i \in Isbns, o \in {"scan", "auto"} : Scan(r, u, i, o)
        \/ \E f \in ImportFiles : Import(r, u, f)
        \/ \E e \in EntryIds, d \in Details : Update(r, u, e, d)
        \/ \E e \in EntryIds : Delete(r, u, e)

\* One step of a request that has arrived.
Serve(r) ==
    \/ \E b \in BookIds : OwnedBookFound(r, b)
    \/ OwnedBookMissing(r)
    \/ \E e \in EntryIds : OwnedEntryFound(r, e)
    \/ OwnedEntryMissing(r)
    \/ \E m \in Metas : ResolveHit(r, m)
    \/ ResolveMiss(r)
    \/ \E b \in BookIds : InsertBook(r, b) \/ FetchBook(r, b) \/ InsertBookLost(r, b)
    \/ BookExists(r)
    \/ \E e \in EntryIds : InsertEntry(r, e) \/ FetchEntry(r, e) \/ InsertEntryLost(r, e)
    \/ EntryExists(r)
    \/ EntryVanished(r)
    \/ NoProfile(r)
    \/ Unstorable(r)
    \/ SaveFault(r)
    \/ CheckFails(r)
    \/ UpdateRead(r) \/ UpdateWrite(r) \/ UpdateFails(r)
    \/ DeleteRead(r) \/ DeleteWrite(r) \/ DeleteFails(r)

\* Every request has been answered; a run's requests are used up.
Finished ==
    /\ \A r \in Requests : pc[r] = "done"
    /\ UNCHANGED vars

Next ==
    \/ \E u \in Users : Login(u) \/ LoginUnsynced(u)
    \/ \E r \in Requests : Arrive(r) \/ Serve(r)
    \/ Finished

Spec == Init /\ [][Next]_vars

\* A goroutine runs to the end of its handler.  The code sets no timeout on
\* statements: it relies on PostgreSQL answering each one, with an error if
\* need be.  The providers of a lookup give up after five seconds.
FairSpec == Spec /\ \A r \in Requests : WF_vars(Serve(r))

-----------------------------------------------------------------------------
(* Safety *)

\* A user never has two copies of the same ISBN, however many requests add it
\* at once: this takes both UNIQUE constraints and saveBook linking the row
\* that won the race rather than one of its own.
OneCopyPerUser ==
    \A e1, e2 \in EntryIds :
        /\ entries[e1] # None
        /\ entries[e2] # None
        /\ entries[e1].user = entries[e2].user
        /\ \E i \in Isbns : HasIsbn(entries[e1].book, i) /\ HasIsbn(entries[e2].book, i)
        => e1 = e2

\* Two books rows never have the same ISBN, two entries never the same user and
\* book, and an entry never dangles.
BooksUnique ==
    \A b1, b2 \in BookIds : \A i \in Isbns :
        HasIsbn(b1, i) /\ HasIsbn(b2, i) => b1 = b2

EntriesUnique ==
    \A e1, e2 \in EntryIds :
        /\ entries[e1] # None
        /\ entries[e2] # None
        /\ entries[e1].user = entries[e2].user
        /\ entries[e1].book = entries[e2].book
        => e1 = e2

NoDangling ==
    \A e \in EntryIds : entries[e] # None =>
        /\ e \in used
        /\ entries[e].user \in profiles
        /\ books[entries[e].book] # None

\* The card a save, a scan or an automatic scan answers with links to a copy
\* that is the asker's own and has the ISBN asked for, unless it has been
\* removed since: a late answer never shows another copy.
AnswersAreTrue ==
    \A r \in Requests : ans[r] \in {"added", "existing"} =>
        /\ entry[r] \in used
        /\ \/ entries[entry[r]] = None
           \/ Owns(r, entry[r]) /\ HasIsbn(entries[entry[r]].book, row[r].isbn)

\* bookUpdate and bookDelete check the owner in one statement and write, by id
\* alone, in another: whatever runs in between, the write hits a row of the
\* caller or none at all.
CheckedOwnerStillHolds ==
    \A r \in Requests : pc[r] \in {"upd_write", "del_write"} =>
        entries[entry[r]] = None \/ entries[entry[r]].user = job[r].user

\* What the locals of a handler say about the tables while other requests run:
\* a book id in hand is still the row of the ISBN being saved, a row a failed
\* insert ran into is still there, an entry id from a path was issued, and only
\* an update gets to the statements of bookUpdate.
Holding(r) ==
    /\ pc[r] # "idle" => job[r] # None
    /\ pc[r] = "idle" => row[r] = None
    /\ pc[r] \in {"owned_book", "owned_entry", "resolve", "create",
                  "getbook", "link", "getentry"} => row[r] # None
    /\ pc[r] \in {"create", "getbook", "link", "getentry"} => row[r].meta # None
    /\ pc[r] \in {"owned_entry", "link", "getentry"} =>
          book[r] # None /\ HasIsbn(book[r], row[r].isbn)
    /\ pc[r] = "getbook" => IsbnTaken(row[r].isbn)
    /\ pc[r] \in {"upd_read", "upd_write", "del_read", "del_write"} => entry[r] \in used
    /\ pc[r] \in {"upd_read", "upd_write"} => job[r].op = "update"
    /\ pc[r] \in {"del_read", "del_write"} => job[r].op = "delete"
    /\ ans[r] # None => pc[r] = "done"
    /\ ans[r] \in {"added", "existing"} => row[r] # None

LocalsHold == \A r \in Requests : Holding(r)

\* The inductive invariant.
IInv ==
    /\ TypeOK
    /\ BooksUnique
    /\ EntriesUnique
    /\ NoDangling
    /\ LocalsHold
    /\ CheckedOwnerStillHolds
    /\ AnswersAreTrue

\* The three numbers of import-result account for every data row of the file,
\* whichever of its saves failed.
ImportAccountsForEveryRow ==
    \A r \in Requests : ans[r] = "imported" =>
        tally[r]["added"] + tally[r]["existing"] + tally[r]["failed"]
            + job[r].unusable = job[r].size

\* Every copy ever stored was announced as added exactly once, by one request:
\* of several requests adding the same book at the same time one says "added"
\* and the others "already there".  Only a lost reply of a request that says it
\* failed leaves a copy unannounced.
Announced   == UNION {{r} \X (1 .. tally[r]["added"]) : r \in Requests}
LostReplies == UNION {{r} \X (1 .. tally[r]["failed"]) : r \in Faulty}

EveryCopyAnnouncedOnce ==
    /\ Cardinality(Announced) <= Cardinality(used)
    /\ Cardinality(used) <= Cardinality(Announced) + Cardinality(LostReplies)

\* What import-result says of the rows it counts as skipped: they lack a valid
\* ISBN or a title.  libraryImport also counts the rows whose save failed.
SkippedRows(r) == job[r].unusable + tally[r]["failed"]

SkippedRowsAreUnusable ==
    \A r \in Requests : ans[r] = "imported" => SkippedRows(r) = job[r].unusable

-----------------------------------------------------------------------------
(* What a step may never do *)

\* A copy changes or goes away only by its owner's own update or delete
\* request for that very copy; an import or a second save leaves the status,
\* notes and location of what is there alone.
OwnersRequest(r, e) ==
    /\ pc[r] # "done" /\ pc'[r] = "done"
    /\ entry[r] = e
    /\ job[r].user = entries[e].user
    /\ job[r].op = IF entries'[e] = None THEN "delete" ELSE "update"

OnlyOwnerChanges ==
    [][\A e \in EntryIds : entries[e] # None /\ entries'[e] # entries[e] =>
          \E r \in Requests : OwnersRequest(r, e)]_vars

\* A save or an edit whose own statements all work fails for three reasons
\* only: PostgreSQL does not store what it was given, the login could not store
\* the user's profile, or the very copy that the request had just run into or
\* read was removed by its owner between that statement and the next.  Nothing
\* else that happened before or happens meanwhile is a reason, no race for a
\* book, and nothing other requests leave half done.
RemovedMeanwhile(r) ==
    /\ met[r] # None
    /\ entries[met[r]] = None
    /\ \E q \in Requests :
          /\ job[q] # None /\ job[q].op = "delete"
          /\ job[q].user = job[r].user /\ entry[q] = met[r]
          /\ ans[q] = "removed" \/ (q \in Faulty /\ ans[q] = "failed")

\* What request r is storing is refused: an edit's details or the row at hand.
GivenRefused(r) ==
    \/ job[r].op = "update" /\ job[r].details \in Refused
    \/ row[r] # None /\ {row[r].meta, row[r].details} \cap Refused # {}

Fails(r) ==
    \/ tally'[r]["failed"] # tally[r]["failed"]
    \/ ans[r] # "failed" /\ ans'[r] = "failed"

FailureHasACause ==
    [][\A r \in Requests \ Faulty :
          Fails(r) =>
              \/ RemovedMeanwhile(r)
              \/ GivenRefused(r)
              \/ job[r].user \notin profiles]_vars

\* A removed copy stays removed: an edit that was under way when it was
\* deleted does not bring it back.
NoResurrection ==
    [][\A e \in used : entries[e] = None => entries'[e] = None]_vars

-----------------------------------------------------------------------------
(* Liveness *)

\* Every request that arrived is answered, whatever the others do meanwhile.
EveryRequestAnswered ==
    \A r \in Requests : pc[r] # "idle" ~> pc[r] = "done"

-----------------------------------------------------------------------------
(* Refinement *)

CopyOf(e) ==
    IF entries[e] = None THEN None
    ELSE [user |-> entries[e].user, isbn |-> books[entries[e].book].isbn,
          details |-> entries[e].details]

Wanted(r) ==
    IF row[r] = None THEN None
    ELSE [user |-> job[r].user, isbn |-> row[r].isbn]

Abstract == INSTANCE AbstractShelf WITH
    shelf <- [e \in EntryIds |-> CopyOf(e)],
    want  <- [r \in Requests |-> Wanted(r)]

\* The statement-by-statement system looks to its users as if every addition,
\* edit and removal were atomic.
ImplementsShelf == Abstract!Spec
=============================================================================
