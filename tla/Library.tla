------------------------------- MODULE Library -------------------------------
(***************************************************************************)
(* The library page of one user: search as you type, filters, sort orders  *)
(* and infinite scroll over pages cut by offset, while books are added,    *)
(* removed and imported; and what the CSV export holds at any moment.      *)
(*                                                                         *)
(* htmx is external.  A form has one request under way; of the changes     *)
(* made meanwhile it sends the last one when the answer has come.  An      *)
(* answer for an element that is no longer on the page changes nothing.    *)
(* A request reads the database and is answered in one step.               *)
(***************************************************************************)
EXTENDS Fuzzy, Csv

CONSTANTS
    Initial,       \* the library to begin with, newest first
    FormBooks,     \* books that can be added from forms
    Files,         \* files that can be uploaded
    Queries,       \* records [q, field, sort]
    First,         \* the query of the page as it is opened
    PageSize,      \* libraryPageSize
    MaxPage,       \* the largest page number parseLibraryQuery accepts
    UnknownAuthor, \* what an import puts where there is no author
    MaxChanges,    \* bound: changes of the library while one grid is scrolled
    Faulty,        \* whether statements may fail
    None

ASSUME PageAssumption   == PageSize \in Nat \ {0} /\ MaxPage \in Nat \ {0}
ASSUME QueryAssumption  ==
    First \in Queries /\ None \notin Queries /\ \A k \in Queries : k.q \in Seq(Nat)
ASSUME ChangeAssumption == MaxChanges \in Nat /\ Faulty \in BOOLEAN

VARIABLES
    shelf,     \* the user's entries with their books, newest first
    typed,     \* the query in the form
    asked,     \* the query of the search under way, or None
    again,     \* the form has changed since that search was sent
    shown,     \* the query the grid belongs to
    page,      \* the last page in the grid
    cards,     \* the books in the grid
    more,      \* whether the grid ends in a button for the next page
    loading,   \* whether that button's request is under way
    upload,    \* what is left of an import, and its numbers; or None
    toast,     \* a message says that the last search to end has failed
    scroll     \* what happened to the library since page 1 was loaded

form == <<typed, asked, again, toast>>
grid == <<shown, page, cards, more, loading>>
vars == <<shelf, form, grid, upload, scroll>>

ISBNs(books) == {books[k].isbn : k \in DOMAIN books}

-----------------------------------------------------------------------------
(* searchData *)

passesFieldFilter(b, f) ==
    CASE f = "title" -> b.title # <<>>
      [] f = "author" -> b.author # <<>>
      [] f = "publisher" -> b.publisher # <<>>
      [] OTHER -> TRUE

Matches(b, k) ==
    /\ Match(b.title \o <<Space>> \o b.author \o <<Space>> \o b.publisher, k.q)
    /\ passesFieldFilter(b, k.field)

Parsed == [f \in Files |-> parseImportCSV(f)]

\* Every book that can get into the library, and whether a search finds it.
WithAuthor(b) == IF b.author = <<>> THEN [b EXCEPT !.author = UnknownAuthor] ELSE b

AllBooks ==
    ToSet(Initial) \cup FormBooks
    \cup {WithAuthor(r) : r \in UNION {ToSet(Parsed[f].records) : f \in Files}}

Hits == [k \in Queries |-> {b \in AllBooks : Matches(b, k)}]

IsSequence(s) == Len(s) \in Nat /\ s = [n \in 1 .. Len(s) |-> s[n]]

ASSUME BookAssumption ==
    /\ Initial \in Seq(AllBooks)
    /\ \A i, j \in DOMAIN Initial : Initial[i].isbn = Initial[j].isbn => i = j
    /\ \A b \in AllBooks : \A t \in {b.isbn, b.title, b.author, b.publisher, b.notes} : t \in Seq(Nat)
    /\ \A f \in Files : IsSequence(f.rows)
    /\ \A f \in Files : \A n \in DOMAIN f.rows :
          LET row == f.rows[n]
          IN  IsSequence(row) /\ \A i \in DOMAIN row : IsSequence(row[i])

\* What confirmSubmit, manualSubmit and bookUpdate let through.
Valid(b) ==
    /\ isValidEAN13(b.isbn)
    /\ \E i \in DOMAIN b.title : b.title[i] \notin White
    /\ b.status \in {"unread", "reading", "read"}
    /\ Len(b.notes) <= MaxNotes

ASSUME FormAssumption == \A b \in ToSet(Initial) \cup FormBooks : Valid(b)

\* The pages that can be asked for hold every library: 10000 pages of 24 books.
ASSUME SizeAssumption ==
    LET isbns == {b.isbn : b \in AllBooks}
    IN  IsFiniteSet(isbns) /\ Cardinality(isbns) <= MaxPage * PageSize

\* Stable: books with the same key stay in the order they come in.
SortedBy(books, keys) ==
    LET places == DOMAIN books
        before == {p \in places \X places :
                      \/ Precedes(keys[p[1]], keys[p[2]])
                      \/ keys[p[1]] = keys[p[2]] /\ p[1] < p[2]}
        order  == Listing(places, before)
    IN  [k \in places |-> books[order[k]]]

sortBooks(books, order) ==
    CASE order = "old" -> Reverse(books)
      [] order = "title" -> SortedBy(books, [i \in DOMAIN books |-> ToLower(books[i].title)])
      [] order = "author" -> SortedBy(books, [i \in DOMAIN books |-> ToLower(books[i].author)])
      [] OTHER -> books

\* The matches of query k in what userRows returns, sorted.
Found(books, k) == sortBooks(Kept(books, {i \in DOMAIN books : books[i] \in Hits[k]}), k.sort)

\* Mutant: the last book of a page is left out.
PageOf_Short(found, p) == SubSeq(found, (p - 1) * PageSize + 1, Min({p * PageSize, Len(found)}) - 1)

PageOf(found, p) == SubSeq(found, (p - 1) * PageSize + 1, Min({p * PageSize, Len(found)}))

\* Mutant: a page that ends with the last match is thought to have one after it.
HasNext_Full(found, p) == p * PageSize <= Len(found)

HasNext(found, p) == p * PageSize < Len(found)

NextPage(p) == Min({p + 1, MaxPage})

Quiet == [stayed |-> ISBNs(shelf), added |-> 0, removed |-> 0, failed |-> FALSE]

Init ==
    /\ shelf = Initial
    /\ typed = First /\ asked = None /\ again = FALSE /\ toast = FALSE
    /\ shown = First /\ page = 1 /\ loading = FALSE
    /\ cards = PageOf(Found(Initial, First), 1)
    /\ more = HasNext(Found(Initial, First), 1)
    /\ upload = None
    /\ scroll = Quiet

-----------------------------------------------------------------------------
(* The form and the grid *)

\* What is typed is sent, or waits for the answer to the search under way.
Type(k) ==
    /\ k # typed
    /\ typed' = k
    /\ IF asked = None THEN asked' = k /\ UNCHANGED again
       ELSE again' = TRUE /\ UNCHANGED asked
    /\ UNCHANGED <<toast, shelf, grid, upload, scroll>>

\* Mutant: a change made while a search is under way is not sent.
Resume_Dropped == asked' = None /\ again' = FALSE /\ UNCHANGED typed

\* The answer is there: the form sends what has changed meanwhile.
Resume ==
    /\ asked' = IF again THEN typed ELSE None
    /\ again' = FALSE
    /\ UNCHANGED typed

\* The library less some of its books: userRows leaves out every book whose
\* GetByID fails.
Without(lost) == Kept(shelf, {i \in DOMAIN shelf : shelf[i].isbn \notin lost})
Losses == IF Faulty THEN SUBSET ISBNs(shelf) ELSE {{}}

\* Page 1 replaces the grid, and the button with it.
SearchAnswer(lost) ==
    /\ asked # None
    /\ Resume
    /\ toast' = FALSE
    /\ shown' = asked /\ page' = 1 /\ loading' = FALSE
    /\ LET found == Found(Without(lost), asked)
       IN  cards' = PageOf(found, 1) /\ more' = HasNext(found, 1)
    /\ scroll' = [Quiet EXCEPT !.stayed = @ \ lost, !.added = Cardinality(lost)]
    /\ UNCHANGED <<shelf, upload>>

\* ListByUser fails: the answer is that of an empty library.
SearchFails ==
    /\ Faulty
    /\ asked # None
    /\ Resume
    /\ toast' = FALSE
    /\ shown' = asked /\ page' = 1 /\ loading' = FALSE
    /\ cards' = <<>> /\ more' = FALSE
    /\ scroll' = [Quiet EXCEPT !.failed = TRUE]
    /\ UNCHANGED <<shelf, upload>>

\* An error status, or no answer at all: app.js says so, the grid stays as it is.
SearchLost ==
    /\ Faulty
    /\ asked # None
    /\ Resume
    /\ toast' = TRUE
    /\ UNCHANGED <<shelf, grid, upload, scroll>>

Reveal ==
    /\ more /\ ~loading
    /\ loading' = TRUE
    /\ UNCHANGED <<shelf, form, shown, page, cards, more, upload, scroll>>

\* The next page, cut by offset out of the library as it is now, takes the
\* place of the button.
MoreAnswer(lost) ==
    /\ loading
    /\ loading' = FALSE
    /\ page' = NextPage(page)
    /\ LET found == Found(Without(lost), shown)
       IN  cards' = cards \o PageOf(found, page') /\ more' = HasNext(found, page')
    /\ scroll' = [scroll EXCEPT !.stayed = @ \ lost,
                                !.added = @ + Cardinality(lost), !.removed = @ + Cardinality(lost)]
    /\ UNCHANGED <<shelf, form, shown, upload>>

\* The answer that the library is empty takes the place of the button.
MoreFails ==
    /\ Faulty
    /\ loading
    /\ loading' = FALSE
    /\ page' = NextPage(page)
    /\ more' = FALSE
    /\ scroll' = [scroll EXCEPT !.failed = TRUE]
    /\ UNCHANGED <<shelf, form, shown, cards, upload>>

\* The button stays, and asks again when it is clicked.
MoreLost ==
    /\ Faulty
    /\ loading
    /\ loading' = FALSE
    /\ UNCHANGED <<shelf, form, shown, page, cards, more, upload, scroll>>

-----------------------------------------------------------------------------
(* The library changes *)

MayChange == scroll.added + scroll.removed < MaxChanges

Put(b) ==
    /\ shelf' = <<b>> \o shelf
    /\ scroll' = [scroll EXCEPT !.added = @ + 1]

\* What saveBook makes of a library and a record of an import: newest first.
WithRecord(books, r) ==
    LET b == WithAuthor(r)
    IN  IF b.isbn \in ISBNs(books) THEN books ELSE <<b>> \o books

\* A book that is there already is left alone (module Shelf has the details).
Add(b) ==
    /\ MayChange
    /\ b.isbn \notin ISBNs(shelf)
    /\ Put(b)
    /\ UNCHANGED <<form, grid, upload>>

RemoveBook(i) ==
    /\ MayChange
    /\ i \in ISBNs(shelf)
    /\ shelf' = Without({i})
    /\ scroll' = [scroll EXCEPT !.stayed = @ \ {i}, !.removed = @ + 1]
    /\ UNCHANGED <<form, grid, upload>>

Upload(f) ==
    /\ upload = None
    /\ ~Parsed[f].failed
    /\ upload' = [left |-> Parsed[f].records, file |-> f,
                  added |-> 0, existing |-> 0, skipped |-> Parsed[f].skipped]
    /\ UNCHANGED <<shelf, form, grid, scroll>>

\* One turn of the import's loop; module Shelf has the failures of saveBook.
ImportRow ==
    /\ upload # None
    /\ upload.left # <<>>
    /\ shelf' = WithRecord(shelf, Head(upload.left))
    /\ IF shelf' = shelf
       THEN /\ upload' = [upload EXCEPT !.left = Tail(@), !.existing = @ + 1]
            /\ UNCHANGED scroll
       ELSE /\ MayChange
            /\ upload' = [upload EXCEPT !.left = Tail(@), !.added = @ + 1]
            /\ scroll' = [scroll EXCEPT !.added = @ + 1]
    /\ UNCHANGED <<form, grid>>

ImportDone ==
    /\ upload # None
    /\ upload.left = <<>>
    /\ upload' = None
    /\ UNCHANGED <<shelf, form, grid, scroll>>

SearchReply == SearchFails \/ SearchLost \/ \E lost \in Losses : SearchAnswer(lost)
MoreReply   == MoreFails \/ MoreLost \/ \E lost \in Losses : MoreAnswer(lost)

Next ==
    \/ \E k \in Queries : Type(k)
    \/ SearchReply
    \/ Reveal \/ MoreReply
    \/ \E b \in FormBooks : Add(b)
    \/ \E i \in ISBNs(shelf) : RemoveBook(i)
    \/ \E f \in Files : Upload(f)
    \/ ImportRow \/ ImportDone

Spec == Init /\ [][Next]_vars

\* A search is answered, or the browser finds that it will not be.
FairSpec == Spec /\ WF_vars(SearchReply)

-----------------------------------------------------------------------------
(* Properties *)

\* However the library changes while its pages are loaded one by one: a book
\* that matched and stayed is missing at the end only if another was removed
\* meanwhile for each, and shown twice only if another was added for each.
\* (A book whose statement failed for one page was out and in again.)
ChangesBoundErrors ==
    /\ Len(cards) - Cardinality(ToSet(cards)) <= scroll.added
    /\ ~more /\ ~loading /\ ~scroll.failed =>
          LET lasting == {b \in ToSet(shelf) : b.isbn \in scroll.stayed /\ b \in Hits[shown]}
          IN  Cardinality(lasting \ ToSet(cards)) <= scroll.removed

\* b comes before c in a library sorted by order, when i and j are their
\* places in the order of addition, newest first.
Ranked(b, i, c, j, order) ==
    CASE order = "old"    -> i > j
      [] order = "title"  -> \/ Precedes(ToLower(b.title), ToLower(c.title))
                             \/ ToLower(b.title) = ToLower(c.title) /\ i < j
      [] order = "author" -> \/ Precedes(ToLower(b.author), ToLower(c.author))
                             \/ ToLower(b.author) = ToLower(c.author) /\ i < j
      [] OTHER -> i < j

\* While the library does not change, the pages loaded so far are the matches
\* in order from the first on, none left out and none twice, and the button
\* is there exactly until all of them are shown.
QuietScrollIsExact ==
    scroll = Quiet =>
        LET at(b) == CHOOSE i \in DOMAIN shelf : shelf[i] = b
            before(b, c) == Ranked(b, at(b), c, at(c), shown.sort)
        IN  /\ \A m, n \in DOMAIN cards : m < n => before(cards[m], cards[n])
            /\ \A b \in ToSet(shelf) :
                  /\ b \in ToSet(cards) => b \in Hits[shown]
                  /\ b \in Hits[shown] /\ b \notin ToSet(cards) =>
                        more /\ \A c \in ToSet(cards) : before(c, b)
            /\ ToSet(cards) \subseteq ToSet(shelf)
            /\ more => \E b \in ToSet(shelf) : b \in Hits[shown] /\ b \notin ToSet(cards)

\* A word of the book has the word typed in it, or is as many typos away as
\* package fuzzy promises for a word of so many characters.
Characters ==
    UNION {ToSet(ToLower(b.title)) \cup ToSet(ToLower(b.author)) \cup ToSet(ToLower(b.publisher)) :
        b \in AllBooks}

NearWords ==
    [w \in UNION {Fields(ToLower(k.q)) : k \in Queries} |-> WithinEdits(w, PromisedTypos(w), Characters)]

Promised(b, word) ==
    \E w \in UNION {Fields(ToLower(t)) : t \in {b.title, b.author, b.publisher}} :
        Includes(w, word) \/ w \in NearWords[word]

Promises(words, b) == \A w \in words : Promised(b, w)

\* What search k should find at least, and at most: a word with letters of two
\* bytes may find more than promised.
Least == [k \in Queries |-> {b \in AllBooks : Promises(Fields(ToLower(k.q)), b)}]
Most  == [k \in Queries |->
    {b \in AllBooks : Promises({w \in Fields(ToLower(k.q)) : Bytes(w) = Len(w)}, b)}]

\* The matches loaded are what is promised, typos in words included, among the
\* books that have the field asked for.
SearchKeepsPromise ==
    \A b \in ToSet(shelf) :
        LET visible == passesFieldFilter(b, shown.field)
        IN  /\ visible /\ b \in Least[shown] => b \in Hits[shown]
            /\ b \in Hits[shown] => visible /\ b \in Most[shown]

\* The library that the loop of an import, turn by turn, makes of an empty one.
Filled(records) ==
    LET turn[n \in 0 .. Len(records)] ==
            IF n = 0 THEN <<>> ELSE WithRecord(turn[n - 1], records[n])
    IN  turn[Len(records)]

\* A text the export and the import give back as it is: not one that begins
\* or ends in white space (in front, a formula character is protected), nor an
\* apostrophe in front of a formula character, nor a line break of a form.
Survives(t) ==
    t = <<>> \/ /\ Head(t) \notin {Space, Newline}
                /\ t[Len(t)] \notin White
                /\ Breaks(t) = {}
                /\ Len(t) > 1 /\ Head(t) = Apostrophe => t[2] \notin FormulaPrefixes

\* A book of the library and the one an import of its export puts in its place.
Returned(b, c) ==
    /\ c.isbn = b.isbn /\ c.year = b.year /\ c.status = b.status
    /\ Survives(b.title)     => c.title = b.title
    /\ Survives(b.publisher) => c.publisher = b.publisher
    /\ Survives(b.notes)     => c.notes = b.notes
    /\ IF b.author = <<>> THEN c.author = UnknownAuthor
       ELSE Survives(b.author) => c.author = b.author

\* Importing the export of a library into an empty one, whatever forms and
\* imports have brought into it, skips nothing and gives the same books, each
\* once, the oldest now the newest; every text that can survive the round trip
\* is unchanged, but where there was no author there is the unknown one.
\* (The editions are taken not to be in the store: one that is there keeps its
\* own texts.)
ExportComesBack ==
    LET parsed == parseImportCSV(writeLibraryCSV(shelf))
        copy   == Filled(parsed.records)
    IN  Len(shelf) <= MaxRows =>
            /\ ~parsed.failed /\ parsed.skipped = 0
            /\ Len(copy) = Len(shelf)
            /\ \A k \in DOMAIN shelf : Returned(shelf[k], copy[Len(shelf) + 1 - k])

\* Every row of the file is in one of the numbers reported or still to come,
\* unreadable ones included.
RowsAddUp ==
    upload # None =>
        Len(upload.left) + upload.added + upload.existing + upload.skipped = Len(upload.file.rows)

\* The numbers that come in are numbers of books, whose last digit makes the
\* weighted sum a multiple of ten.  Neither the forms nor the import check it.
CheckDigitFits(s) == (WeightedSum(s) + s[13]) % 10 = 0

GenuineNumbers ==
    /\ \A b \in ToSet(Initial) \cup FormBooks : CheckDigitFits(b.isbn)
    /\ \A f \in Files : \A n \in DOMAIN f.rows :
          LET cells == Cells(f, f.rows[n], "isbn")
          IN  \A k \in DOMAIN cells :
                 isValidEAN13(Clean(cells[k])) => CheckDigitFits(Clean(cells[k]))

\* An edition is on the shelf once, whether it came by its ISBN-13 or by its
\* ISBN-10: the nine digits between prefix and check digit tell.  This is so
\* where the numbers are genuine.
OneCopyPerEdition ==
    \A i, j \in DOMAIN shelf :
        SubSeq(shelf[i].isbn, 1, 12) = SubSeq(shelf[j].isbn, 1, 12) => i = j

\* If the user stops typing, the grid comes to show what was typed last, and
\* keeps showing it: no answer to an earlier search replaces it.  Only if the
\* last search failed it need not, and then a message says so.
GridCatchesUp == \A k \in Queries : <>[](typed = k) => <>[](shown = k \/ toast)

-----------------------------------------------------------------------------
(* The inductive invariant *)

\* A library: no ISBN twice.
IsLibrary(s) ==
    /\ s \in Seq(AllBooks)
    /\ \A i, j \in DOMAIN s : s[i].isbn = s[j].isbn => i = j

Records == UNION {ToSet(Parsed[f].records) : f \in Files}

Uploads == [left : Seq(Records), file : Files, added : Nat, existing : Nat, skipped : Nat]
Scrolls(isbns) == [stayed : SUBSET isbns, added : Nat, removed : Nat, failed : BOOLEAN]

TypeOK ==
    /\ IsLibrary(shelf)
    /\ shown \in Queries /\ asked \in Queries \cup {None} /\ typed \in Queries
    /\ toast \in BOOLEAN
    /\ page \in 1 .. MaxPage /\ cards \in Seq(AllBooks)
    /\ more \in BOOLEAN /\ loading \in BOOLEAN
    /\ upload = None \/ upload \in Uploads
    /\ scroll \in Scrolls(ISBNs(shelf))

\* What comes before x in S, and how many.
Earlier(x, S, R) == {y \in S : <<y, x>> \in R}
Rank(x, S, R)    == Cardinality(Earlier(x, S, R))

At(s, b) == CHOOSE i \in DOMAIN s : s[i] = b

\* The order of the books of a library, and those that match a query.
BookOrder(s, order) ==
    {p \in ToSet(s) \X ToSet(s) : Ranked(p[1], At(s, p[1]), p[2], At(s, p[2]), order)}
Matching(s, k) == {b \in ToSet(s) : b \in Hits[k]}

\* The first n books that match, and the others.
Ahead(s, k, n)  == {b \in Matching(s, k) : Rank(b, Matching(s, k), BookOrder(s, k.sort)) < n}
Behind(s, k, n) == Matching(s, k) \ Ahead(s, k, n)

\* The cards that repeat another, and those that the next pages will repeat.
Twice(s, k, p, c) ==
    Len(c) - Cardinality(ToSet(c)) + Cardinality(Behind(s, k, p * PageSize) \cap ToSet(c))

\* The matches that have stayed, and those of them that are not among the
\* cards though their page is loaded (m: there are pages still to come).
Lasting(s, k, stayed) == {b \in Matching(s, k) : b.isbn \in stayed}
Missed(s, k, p, c, stayed, m) ==
    (IF m THEN Ahead(s, k, p * PageSize) \cap Lasting(s, k, stayed) ELSE Lasting(s, k, stayed)) \ ToSet(c)

\* The cards are the books ahead, in order, and the button is there if there
\* are others.
Exact(s, k, p, c, m) ==
    /\ \A i, j \in DOMAIN c : i < j => <<c[i], c[j]>> \in BookOrder(s, k.sort)
    /\ ToSet(c) = Ahead(s, k, p * PageSize)
    /\ m <=> Behind(s, k, p * PageSize) # {}

\* The errors of grid c, m of query k on library s, against what has happened.
Bounded(s, k, p, c, m, happened) ==
    /\ Twice(s, k, p, c) <= happened.added
    /\ ~happened.failed => Cardinality(Missed(s, k, p, c, happened.stayed, m)) <= happened.removed

\* The button is there only if there is a page to ask for; and the books that
\* pages to come will repeat or leave out count as errors already.
Borders ==
    /\ loading => more
    /\ more => page < MaxPage
    /\ Bounded(shelf, shown, page, cards, more, scroll)
    /\ scroll = Quiet => Exact(shelf, shown, page, cards, more)

\* The grid is what loading its pages one by one from a library that changes
\* meanwhile can have made of it: where its last page ends now, what is ahead
\* of there and what is behind it differ from the cards by the changes alone.
IInv == TypeOK /\ Borders
=============================================================================
