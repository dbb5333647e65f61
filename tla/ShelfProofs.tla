----------------------------- MODULE ShelfProofs -----------------------------
(***************************************************************************)
(* Shelf, for any number of users, books, requests and files: IInv is      *)
(* inductive, and what follows from it.                                    *)
(*                                                                         *)
(* A step of request r changes the tables in one of five ways, all of      *)
(* which Grows allows, and r's own locals.  So what the other requests     *)
(* hold in their locals survives (Bystander), and each action is left with *)
(* its own tables and its own request (Assemble).                          *)
(***************************************************************************)
EXTENDS Shelf, FiniteSetTheorems, TLAPS

TypeStore ==
    /\ sessions \subseteq Users
    /\ profiles \subseteq Users
    /\ books \in [BookIds -> Book \cup {None}]
    /\ entries \in [EntryIds -> Entry \cup {None}]
    /\ used \subseteq EntryIds

TypeLocals ==
    /\ pc \in [Requests -> Labels]
    /\ job \in [Requests -> Job \cup {None}]
    /\ row \in [Requests -> Row \cup {None}]
    /\ rest \in [Requests -> Seq(ImportRow)]
    /\ book \in [Requests -> BookIds \cup {None}]
    /\ entry \in [Requests -> EntryIds \cup {None}]
    /\ tally \in [Requests -> [Outcomes -> Nat]]
    /\ ans \in [Requests -> Answers \cup {None}]
    /\ met \in [Requests -> EntryIds \cup {None}]

StoreOK == TypeStore /\ BooksUnique /\ EntriesUnique /\ NoDangling

\* CheckedOwnerStillHolds and AnswersAreTrue, of one request.
CheckHolds(r) ==
    pc[r] \in {"upd_write", "del_write"} =>
        entries[entry[r]] = None \/ entries[entry[r]].user = job[r].user

AnswerHolds(r) ==
    ans[r] \in {"added", "existing"} =>
        /\ entry[r] \in used
        /\ \/ entries[entry[r]] = None
           \/ Owns(r, entry[r]) /\ HasIsbn(entries[entry[r]].book, row[r].isbn)

ReqOK(r) == Holding(r) /\ CheckHolds(r) /\ AnswerHolds(r)

\* What any step leaves of the tables: books rows for good, and of the entries
\* that ever were, those not removed, with the same user and book.
Grows ==
    /\ used \subseteq used'
    /\ profiles \subseteq profiles'
    /\ \A b \in BookIds : books[b] # None => books'[b] = books[b]
    /\ \A e \in used :
          \/ entries'[e] = None
          \/ /\ entries[e] # None
             /\ entries'[e].user = entries[e].user
             /\ entries'[e].book = entries[e].book

Others(r) ==
    \A q \in Requests \ {r} :
        /\ pc'[q] = pc[q]
        /\ job'[q] = job[q]
        /\ row'[q] = row[q]
        /\ book'[q] = book[q]
        /\ entry'[q] = entry[q]
        /\ ans'[q] = ans[q]
        /\ met'[q] = met[q]

MetMoves(r) ==
    met' = met \/ \E x \in EntryIds \cup {None} : met' = [met EXCEPT ![r] = x]

\* IInv is what it is about the tables and about each request.
LEMMA Parts == IInv <=> StoreOK /\ TypeLocals /\ \A r \in Requests : ReqOK(r)
  BY DEF IInv, StoreOK, TypeStore, TypeLocals, ReqOK, TypeOK, LocalsHold,
         CheckHolds, AnswerHolds, CheckedOwnerStillHolds, AnswersAreTrue

LEMMA PartsPrime ==
  IInv' <=> StoreOK' /\ TypeLocals' /\ \A r \in Requests : ReqOK(r)'
  BY DEF IInv, StoreOK, TypeStore, TypeLocals, ReqOK, TypeOK, LocalsHold,
         CheckHolds, AnswerHolds, CheckedOwnerStillHolds, AnswersAreTrue

\* The invariant holds of the empty database and no request.
LEMMA InitInv == Init => IInv
<1> SUFFICES ASSUME Init PROVE IInv
  OBVIOUS
<1>1. TypeOK
  BY DEF Init, TypeOK, Outcomes, Labels
<1>2. BooksUnique /\ EntriesUnique /\ NoDangling
  BY DEF Init, BooksUnique, EntriesUnique, NoDangling, HasIsbn
<1>3. LocalsHold /\ CheckedOwnerStillHolds
  BY NoneAssumption DEF Init, LocalsHold, Holding, CheckedOwnerStillHolds, Answers, Outcomes
<1>4. AnswersAreTrue
  BY NoneAssumption DEF Init, AnswersAreTrue, Answers, Outcomes
<1> QED
  BY <1>1, <1>2, <1>3, <1>4 DEF IInv

-----------------------------------------------------------------------------
(* The tables *)

\* A request that does not move keeps what it holds, whatever happens to the
\* tables.
LEMMA Bystander ==
  ASSUME StoreOK, TypeLocals, Grows, NEW q \in Requests, ReqOK(q),
         pc'[q] = pc[q], job'[q] = job[q], row'[q] = row[q],
         book'[q] = book[q], entry'[q] = entry[q], ans'[q] = ans[q]
  PROVE  ReqOK(q)'
<1>1. Holding(q)'
  <2>1. /\ book[q] # None => book[q] \in BookIds
        /\ used \subseteq used'
    BY DEF TypeLocals, Grows
  <2>2. ASSUME pc[q] \in {"owned_entry", "link", "getentry"}
        PROVE  book[q] # None /\ HasIsbn(book[q], row[q].isbn)'
    <3>1. book[q] # None /\ HasIsbn(book[q], row[q].isbn)
      BY <2>2 DEF ReqOK, Holding
    <3> QED
      BY <2>1, <3>1 DEF HasIsbn, Grows
  <2>3. ASSUME pc[q] = "getbook"
        PROVE  IsbnTaken(row[q].isbn)'
    <3>1. PICK b \in BookIds : HasIsbn(b, row[q].isbn)
      BY <2>3 DEF ReqOK, Holding, IsbnTaken
    <3>2. books'[b] # None /\ books'[b].isbn = row'[q].isbn
      BY <3>1 DEF HasIsbn, Grows
    <3> QED
      BY <3>2 DEF HasIsbn, IsbnTaken
  <2> QED
    BY <2>1, <2>2, <2>3 DEF ReqOK, Holding
<1>2. CheckHolds(q)'
  <2>1. CASE pc[q] \in {"upd_write", "del_write"}
    <3>1. entry[q] \in used
      BY <2>1 DEF ReqOK, Holding
    <3> QED
      BY <2>1, <3>1 DEF ReqOK, CheckHolds, Grows
  <2> QED
    BY <2>1 DEF CheckHolds
<1>3. AnswerHolds(q)'
  <2>1. CASE ans[q] \in {"added", "existing"}
    <3>1. entry[q] \in used
      BY <2>1 DEF ReqOK, AnswerHolds
    <3>2. CASE entries'[entry[q]] = None
      BY <3>1, <3>2 DEF AnswerHolds, Grows
    <3>3. CASE entries'[entry[q]] # None
      <4>1. /\ entries[entry[q]] # None
            /\ entries'[entry[q]].user = entries[entry[q]].user
            /\ entries'[entry[q]].book = entries[entry[q]].book
        BY <3>1, <3>3 DEF Grows
      <4>2. entries[entry[q]].book \in BookIds
        BY <3>1, <4>1 DEF StoreOK, TypeStore, Entry
      <4>3. Owns(q, entry[q]) /\ HasIsbn(entries[entry[q]].book, row[q].isbn)
        BY <2>1, <4>1 DEF ReqOK, AnswerHolds
      <4>4. HasIsbn(entries[entry[q]].book, row[q].isbn)'
        BY <4>1, <4>2, <4>3 DEF HasIsbn, Grows
      <4> QED
        BY <2>1, <3>1, <3>3, <4>1, <4>3, <4>4 DEF AnswerHolds, Owns, Grows
    <3> QED
      BY <3>2, <3>3
  <2> QED
    BY <2>1 DEF AnswerHolds
<1> QED
  BY <1>1, <1>2, <1>3 DEF ReqOK

\* A step of one request keeps the invariant if it keeps that of the tables,
\* its own, and lets the tables grow only.
LEMMA Assemble ==
  ASSUME IInv, NEW r \in Requests,
         Grows, StoreOK', TypeLocals', Others(r), ReqOK(r)'
  PROVE  IInv'
<1>1. ASSUME NEW q \in Requests PROVE ReqOK(q)'
  BY Bystander, Parts DEF Others
<1> QED
  BY <1>1, PartsPrime

-----------------------------------------------------------------------------
(* What each kind of statement does to the tables *)

\* A step that writes nothing.
LEMMA ReadOnly ==
  ASSUME StoreOK, UNCHANGED store
  PROVE  StoreOK' /\ Grows
<1>1. StoreOK'
  BY DEF StoreOK, TypeStore, BooksUnique, EntriesUnique, NoDangling, HasIsbn, store
<1>2. Grows
  BY DEF StoreOK, TypeStore, NoDangling, Grows, store
<1> QED
  BY <1>1, <1>2

\* The insert into books.
LEMMA BookAdded ==
  ASSUME StoreOK, NEW b \in BookIds, NEW i \in Isbns, NEW m \in Metas,
         AddBook(b, i, m), UNCHANGED <<sessions, profiles, entries, used>>
  PROVE  StoreOK' /\ Grows /\ HasIsbn(b, i)'
<1> DEFINE new == [isbn |-> i, meta |-> m]
<1>1. new \in Book /\ new # None
  BY NoneAssumption DEF Book
<1>2. /\ books' = [books EXCEPT ![b] = new]
      /\ books[b] = None
      /\ books \in [BookIds -> Book \cup {None}]
  BY DEF AddBook, StoreOK, TypeStore
<1>3. TypeStore'
  BY <1>1, <1>2 DEF StoreOK, TypeStore
<1>4. HasIsbn(b, i)'
  BY <1>1, <1>2 DEF HasIsbn
<1>5. \A c \in BookIds, j \in Isbns :
         HasIsbn(c, j)' => HasIsbn(c, j) \/ (c = b /\ j = i)
  BY <1>1, <1>2 DEF HasIsbn
<1>6. \A c \in BookIds : ~HasIsbn(c, i)
  BY DEF AddBook, IsbnTaken
<1>7. BooksUnique'
  BY <1>5, <1>6 DEF StoreOK, BooksUnique
<1>8. \A c \in BookIds : books[c] # None => books'[c] = books[c]
  BY <1>2
<1>9. EntriesUnique' /\ NoDangling'
  <2>1. EntriesUnique'
    BY DEF StoreOK, EntriesUnique
  <2>2. \A e \in EntryIds : entries[e] # None => entries[e].book \in BookIds
    BY DEF StoreOK, TypeStore, Entry
  <2>3. NoDangling'
    BY <2>2, <1>8 DEF StoreOK, NoDangling
  <2> QED
    BY <2>1, <2>3
<1>10. Grows
  BY <1>8 DEF Grows, StoreOK, TypeStore, NoDangling
<1> QED
  BY <1>3, <1>4, <1>7, <1>9, <1>10 DEF StoreOK

\* The insert into library_entries.
LEMMA EntryAdded ==
  ASSUME StoreOK, NEW e \in EntryIds, NEW u \in Users, NEW b \in BookIds,
         NEW d \in Details, books[b] # None,
         AddEntry(e, u, b, d), UNCHANGED <<sessions, profiles, books>>
  PROVE  /\ StoreOK' /\ Grows
         /\ e \in used' /\ entries'[e] = [user |-> u, book |-> b, details |-> d]
<1> DEFINE new == [user |-> u, book |-> b, details |-> d]
<1>1. new \in Entry /\ new # None
  BY NoneAssumption DEF Entry
<1>2. /\ entries' = [entries EXCEPT ![e] = new]
      /\ used' = used \cup {e}
      /\ e \notin used
      /\ entries \in [EntryIds -> Entry \cup {None}]
      /\ u \in profiles
  BY DEF AddEntry, StoreOK, TypeStore
<1>3. TypeStore'
  BY <1>1, <1>2 DEF StoreOK, TypeStore
<1>4. entries'[e] = new
  BY <1>2
<1>5. \A f \in EntryIds \ {e} : entries'[f] = entries[f]
  BY <1>2
<1>6. BooksUnique'
  BY DEF StoreOK, BooksUnique, HasIsbn
<1>7. EntriesUnique'
  <2>1. \A f \in EntryIds : ~IsCopy(f, u, b)
    BY DEF AddEntry, Linked
  <2> QED
    BY <1>4, <1>5, <2>1 DEF StoreOK, EntriesUnique, IsCopy
<1>8. NoDangling'
  BY <1>2, <1>4, <1>5 DEF StoreOK, NoDangling
<1>9. Grows
  BY <1>2, <1>5 DEF Grows, StoreOK, TypeStore, NoDangling
<1> QED
  BY <1>2, <1>3, <1>4, <1>6, <1>7, <1>8, <1>9 DEF StoreOK

\* The update by id.
LEMMA EntryEdited ==
  ASSUME StoreOK, NEW e \in EntryIds, entries[e] # None, NEW d \in Details,
         EditEntry(e, d), UNCHANGED <<sessions, profiles, books, used>>
  PROVE  StoreOK' /\ Grows
<1> DEFINE new == [entries[e] EXCEPT !.details = d]
<1>1. entries[e] \in Entry
  BY DEF StoreOK, TypeStore
<1>2. /\ new \in Entry
      /\ new # None
      /\ new.user = entries[e].user
      /\ new.book = entries[e].book
  BY <1>1, NoneAssumption DEF Entry
<1>3. /\ entries' = [entries EXCEPT ![e] = new]
      /\ entries \in [EntryIds -> Entry \cup {None}]
  BY DEF EditEntry, StoreOK, TypeStore
<1>4. TypeStore'
  BY <1>2, <1>3 DEF StoreOK, TypeStore
<1>5. \A f \in EntryIds :
         /\ entries'[f] # None <=> entries[f] # None
         /\ entries'[f].user = entries[f].user
         /\ entries'[f].book = entries[f].book
  BY <1>2, <1>3
<1>6. BooksUnique' /\ EntriesUnique' /\ NoDangling'
  BY <1>5 DEF StoreOK, BooksUnique, EntriesUnique, NoDangling, HasIsbn
<1>7. Grows
  BY <1>5 DEF Grows, StoreOK, TypeStore
<1> QED
  BY <1>4, <1>6, <1>7 DEF StoreOK

\* The delete by id.
LEMMA EntryDropped ==
  ASSUME StoreOK, NEW e \in EntryIds,
         DropEntry(e), UNCHANGED <<sessions, profiles, books, used>>
  PROVE  StoreOK' /\ Grows
<1>1. /\ entries' = [entries EXCEPT ![e] = None]
      /\ entries \in [EntryIds -> Entry \cup {None}]
  BY DEF DropEntry, StoreOK, TypeStore
<1>2. TypeStore'
  BY <1>1 DEF StoreOK, TypeStore
<1>3. \A f \in EntryIds : entries'[f] # None => entries[f] # None /\ entries'[f] = entries[f]
  BY <1>1
<1>4. BooksUnique' /\ EntriesUnique' /\ NoDangling'
  BY <1>3 DEF StoreOK, BooksUnique, EntriesUnique, NoDangling, HasIsbn
<1>5. Grows
  BY <1>3 DEF Grows, StoreOK, TypeStore
<1> QED
  BY <1>2, <1>4, <1>5 DEF StoreOK

-----------------------------------------------------------------------------
(* The locals of a request that moves *)

LEMMA MetKept ==
  ASSUME TypeLocals, NEW r \in Requests, MetMoves(r)
  PROVE  /\ met' \in [Requests -> EntryIds \cup {None}]
         /\ \A q \in Requests \ {r} : met'[q] = met[q]
  BY DEF TypeLocals, MetMoves

\* saveBook returns for a row: the next row is at hand and complete, or the
\* request is answered with the row's own outcome.
LEMMA RowDoneLocals ==
  ASSUME TypeLocals, NEW r \in Requests, Holding(r), UNCHANGED book,
         NEW from \in {"create", "getbook", "link", "getentry"},
         NEW o \in Outcomes, NEW e \in EntryIds \cup {None},
         RowDone(r, from, o, e)
  PROVE  /\ TypeLocals' /\ Others(r) /\ Holding(r)' /\ CheckHolds(r)'
         /\ ans'[r] \in {"added", "existing"} =>
               ans'[r] = o /\ entry'[r] = e /\ job'[r] = job[r] /\ row'[r] = row[r]
<1>1. /\ pc[r] = from /\ job[r] # None /\ row[r] # None
      /\ ans[r] = None
  BY NoneAssumption DEF RowDone, Holding, TypeLocals, Answers, Outcomes
<1>2. /\ tally' \in [Requests -> [Outcomes -> Nat]]
      /\ entry' = [entry EXCEPT ![r] = e]
      /\ met' = [met EXCEPT ![r] = None]
      /\ job' = job
  BY DEF RowDone, Count, TypeLocals
<1>3. CASE rest[r] # <<>>
  <2>1. /\ pc' = [pc EXCEPT ![r] = "create"]
        /\ row' = [row EXCEPT ![r] = Head(rest[r])]
        /\ rest' = [rest EXCEPT ![r] = Tail(rest[r])]
        /\ ans' = ans
    BY <1>3 DEF RowDone
  <2>2. Head(rest[r]) \in ImportRow /\ Tail(rest[r]) \in Seq(ImportRow)
    BY <1>3 DEF TypeLocals
  <2>3. Head(rest[r]) \in Row /\ Head(rest[r]).meta # None
    BY <2>2, DataAssumption, NoneAssumption DEF ImportRow, Row
  <2>4. TypeLocals'
    BY <1>2, <2>1, <2>2, <2>3 DEF TypeLocals, Labels
  <2>5. Others(r)
    BY <1>2, <2>1 DEF Others, TypeLocals
  <2>6. Holding(r)' /\ CheckHolds(r)'
    BY <1>1, <1>2, <2>1, <2>3, NoneAssumption
       DEF Holding, CheckHolds, TypeLocals, Answers, Outcomes
  <2> QED
    BY <1>1, <2>1, <2>4, <2>5, <2>6, NoneAssumption DEF Answers, Outcomes
<1>4. CASE rest[r] = <<>>
  <2> DEFINE a == IF job[r].op = "import" THEN "imported" ELSE o
  <2>1. /\ pc' = [pc EXCEPT ![r] = "done"]
        /\ ans' = [ans EXCEPT ![r] = a]
        /\ row' = row /\ rest' = rest
    BY <1>4 DEF RowDone
  <2>2. a \in Answers
    BY DEF Answers
  <2>3. TypeLocals'
    BY <1>2, <2>1, <2>2 DEF TypeLocals, Labels
  <2>4. Others(r)
    BY <1>2, <2>1 DEF Others, TypeLocals
  <2>5. Holding(r)' /\ CheckHolds(r)'
    BY <1>1, <1>2, <2>1 DEF Holding, CheckHolds, TypeLocals
  <2> QED
    BY <1>2, <2>1, <2>3, <2>4, <2>5 DEF TypeLocals
<1> QED
  BY <1>3, <1>4

\* A request arrives.
LEMMA BeginLocals ==
  ASSUME TypeLocals, NEW r \in Requests, Holding(r),
         NEW label \in {"create", "done", "owned_book", "upd_read", "del_read"},
         NEW j \in Job, NEW rows, NEW e \in EntryIds \cup {None},
         rows # <<>> => Head(rows) \in Row /\ Tail(rows) \in Seq(ImportRow),
         label \in {"create", "owned_book"} => rows # <<>>,
         label = "create" => Head(rows).meta # None,
         label \in {"upd_read", "del_read"} => e \in used,
         label = "upd_read" => j.op = "update",
         label = "del_read" => j.op = "delete",
         Begin(r, label, j, rows, e),
         \/ label # "done" /\ UNCHANGED ans
         \/ /\ label = "done"
            /\ \E a \in {"invalid", "imported"} : ans' = [ans EXCEPT ![r] = a]
  PROVE  TypeLocals' /\ Others(r) /\ ReqOK(r)'
<1> DEFINE first == IF rows = <<>> THEN None ELSE Head(rows)
           more  == IF rows = <<>> THEN <<>> ELSE Tail(rows)
<1>1. /\ pc' = [pc EXCEPT ![r] = label]
      /\ job' = [job EXCEPT ![r] = j]
      /\ row' = [row EXCEPT ![r] = first]
      /\ rest' = [rest EXCEPT ![r] = more]
      /\ entry' = [entry EXCEPT ![r] = e]
      /\ book' = book /\ tally' = tally /\ used' = used /\ met' = met
      /\ pc[r] = "idle"
  BY DEF Begin, store
<1>2. /\ first \in Row \cup {None}
      /\ more \in Seq(ImportRow)
      /\ j # None
      /\ label \in {"create", "owned_book"} => first # None
      /\ label = "create" => first.meta # None
  BY NoneAssumption
<1>3. ans[r] = None
  BY <1>1, NoneAssumption DEF Holding
<1>4. ans' \in [Requests -> Answers \cup {None}] /\ \A q \in Requests \ {r} : ans'[q] = ans[q]
  BY DEF TypeLocals, Answers
<1>5. TypeLocals'
  BY <1>1, <1>2, <1>4 DEF TypeLocals, Labels
<1>6. Others(r)
  BY <1>1, <1>4 DEF Others, TypeLocals
<1>7. pc'[r] = label /\ job'[r] = j /\ row'[r] = first /\ entry'[r] = e
  BY <1>1 DEF TypeLocals
<1>8. /\ ans'[r] \notin {"added", "existing"}
      /\ ans'[r] # None => label = "done"
  BY <1>3, NoneAssumption DEF TypeLocals, Answers, Outcomes
<1>9. Holding(r)'
  BY <1>1, <1>2, <1>7, <1>8 DEF Holding
<1> QED
  BY <1>5, <1>6, <1>7, <1>8, <1>9 DEF ReqOK, CheckHolds, AnswerHolds

-----------------------------------------------------------------------------
(* The steps *)

LEMMA LoginStep ==
  ASSUME IInv, NEW u \in Users, Login(u) \/ LoginUnsynced(u)
  PROVE  IInv'
<1>1. StoreOK' /\ Grows
  <2>1. StoreOK
    BY Parts
  <2>2. /\ UNCHANGED <<books, entries, used>>
        /\ profiles \subseteq profiles'
        /\ sessions' \subseteq Users /\ profiles' \subseteq Users
    BY <2>1 DEF Login, LoginUnsynced, StoreOK, TypeStore
  <2>3. StoreOK'
    BY <2>1, <2>2 DEF StoreOK, TypeStore, BooksUnique, EntriesUnique, NoDangling, HasIsbn
  <2>4. Grows
    BY <2>1, <2>2 DEF Grows, StoreOK, NoDangling, TypeStore
  <2> QED
    BY <2>3, <2>4
<1>2. UNCHANGED locals
  BY DEF Login, LoginUnsynced
<1>3. TypeLocals'
  BY <1>2, Parts DEF TypeLocals, locals
<1>4. ASSUME NEW q \in Requests PROVE ReqOK(q)'
  BY <1>1, <1>2, Parts, Bystander DEF locals
<1> QED
  BY <1>1, <1>3, <1>4, PartsPrime

LEMMA ArriveStep ==
  ASSUME IInv, NEW r \in Requests, Arrive(r)
  PROVE  IInv'
<1>1. StoreOK /\ TypeLocals /\ ReqOK(r) /\ Holding(r)
  BY Parts DEF ReqOK
<1>2. PICK u \in Users :
        \/ \E i \in Isbns, m \in Metas : Submit(r, u, i, m) \/ RejectSubmit(r, u, i, m)
        \/ \E i \in Isbns, o \in {"scan", "auto"} : Scan(r, u, i, o)
        \/ \E f \in ImportFiles : Import(r, u, f)
        \/ \E e \in EntryIds, d \in Details : Update(r, u, e, d)
        \/ \E e \in EntryIds : Delete(r, u, e)
  BY DEF Arrive
<1>3. UNCHANGED store
  BY <1>2 DEF Submit, RejectSubmit, Scan, Import, Update, Delete, Begin
<1>4. StoreOK' /\ Grows
  BY <1>1, <1>3, ReadOnly
<1>5. ASSUME NEW i \in Isbns, NEW m \in Metas \cup {None}
      PROVE  /\ OneRow(i, m) # <<>>
             /\ Head(OneRow(i, m)) \in Row
             /\ Head(OneRow(i, m)).meta = m
             /\ Tail(OneRow(i, m)) \in Seq(ImportRow)
  BY DataAssumption DEF OneRow, Row
<1>6. ASSUME NEW o \in Ops, NEW d \in Details, NEW n \in Nat, NEW k \in Nat
      PROVE  JobOf(o, u, d, n, k) \in Job
  BY DEF Job, JobOf
<1>7. Default \in Details /\ 0 \in Nat /\ 1 \in Nat
  BY DataAssumption
<1>8. TypeLocals' /\ Others(r) /\ ReqOK(r)'
  <2>1. CASE \E i \in Isbns, m \in Metas : Submit(r, u, i, m)
    <3>1. PICK i \in Isbns, m \in Metas : Submit(r, u, i, m)
      BY <2>1
    <3>2. JobOf("save", u, Default, 1, 0) \in Job
      BY <1>6, <1>7 DEF Ops
    <3>3. m # None
      BY NoneAssumption
    <3> QED
      BY <1>1, <1>5, <3>1, <3>2, <3>3, BeginLocals DEF Submit
  <2>2. CASE \E i \in Isbns, m \in Metas : RejectSubmit(r, u, i, m)
    <3>1. PICK i \in Isbns, m \in Metas : RejectSubmit(r, u, i, m)
      BY <2>2
    <3>2. JobOf("save", u, Default, 1, 0) \in Job
      BY <1>6, <1>7 DEF Ops
    <3> QED
      BY <1>1, <1>5, <3>1, <3>2, BeginLocals DEF RejectSubmit
  <2>3. CASE \E i \in Isbns, o \in {"scan", "auto"} : Scan(r, u, i, o)
    <3>1. PICK i \in Isbns, o \in {"scan", "auto"} : Scan(r, u, i, o)
      BY <2>3
    <3>2. JobOf(o, u, Default, 1, 0) \in Job
      BY <1>6, <1>7 DEF Ops
    <3> QED
      BY <1>1, <1>5, <3>1, <3>2, BeginLocals DEF Scan
  <2>4. CASE \E f \in ImportFiles : Import(r, u, f)
    <3>1. PICK f \in ImportFiles : Import(r, u, f)
      BY <2>4
    <3> DEFINE j == JobOf("import", u, Default, Len(f.rows) + f.unusable, f.unusable)
    <3>2. f.rows \in Seq(ImportRow) /\ f.unusable \in Nat
      BY DataAssumption
    <3>3. Len(f.rows) + f.unusable \in Nat
      BY <3>2
    <3>4. j \in Job
      BY <1>6, <1>7, <3>2, <3>3 DEF Ops
    <3>5. ImportRow \subseteq Row /\ \A x \in ImportRow : x.meta # None
      BY DataAssumption, NoneAssumption DEF ImportRow, Row
    <3>6. CASE f.rows # <<>>
      <4>1. /\ Head(f.rows) \in Row /\ Tail(f.rows) \in Seq(ImportRow)
            /\ Head(f.rows).meta # None
        BY <3>2, <3>5, <3>6
      <4>2. Begin(r, "create", j, f.rows, None) /\ UNCHANGED ans
        BY <3>1, <3>6 DEF Import
      <4> HIDE DEF j
      <4> QED
        BY <1>1, <3>4, <3>6, <4>1, <4>2, BeginLocals
    <3>7. CASE f.rows = <<>>
      <4>1. Begin(r, "done", j, f.rows, None) /\ ans' = [ans EXCEPT ![r] = "imported"]
        BY <3>1, <3>7 DEF Import
      <4> HIDE DEF j
      <4> QED
        BY <1>1, <3>4, <3>7, <4>1, BeginLocals
    <3> QED
      BY <3>6, <3>7
  <2>5. CASE \E e \in EntryIds, d \in Details : Update(r, u, e, d)
    <3>1. PICK e \in EntryIds, d \in Details : Update(r, u, e, d)
      BY <2>5
    <3>2. JobOf("update", u, d, 0, 0) \in Job
      BY <1>6, <1>7 DEF Ops
    <3>3. JobOf("update", u, d, 0, 0).op = "update"
      BY DEF JobOf
    <3> QED
      BY <1>1, <3>1, <3>2, <3>3, BeginLocals DEF Update
  <2>6. CASE \E e \in EntryIds : Delete(r, u, e)
    <3>1. PICK e \in EntryIds : Delete(r, u, e)
      BY <2>6
    <3>2. JobOf("delete", u, Default, 0, 0) \in Job
      BY <1>6, <1>7 DEF Ops
    <3>3. JobOf("delete", u, Default, 0, 0).op = "delete"
      BY DEF JobOf
    <3> QED
      BY <1>1, <3>1, <3>2, <3>3, BeginLocals DEF Delete
  <2> QED
    BY <1>2, <2>1, <2>2, <2>3, <2>4, <2>5, <2>6
<1> QED
  BY <1>4, <1>8, Assemble

\* The steps that only read and go on within the same request.
LEMMA ReadStep ==
  ASSUME IInv, NEW r \in Requests,
         \/ \E b \in BookIds : OwnedBookFound(r, b) \/ FetchBook(r, b)
         \/ OwnedBookMissing(r) \/ OwnedEntryMissing(r)
         \/ \E m \in Metas : ResolveHit(r, m)
         \/ ResolveMiss(r)
         \/ BookExists(r) \/ EntryExists(r)
  PROVE  IInv'
<1>1. StoreOK /\ TypeLocals /\ Holding(r)
  BY Parts DEF ReqOK
<1>2. UNCHANGED store
  BY DEF OwnedBookFound, FetchBook, OwnedBookMissing, OwnedEntryMissing,
         ResolveHit, ResolveMiss, BookExists, EntryExists
<1>3. StoreOK' /\ Grows
  BY <1>1, <1>2, ReadOnly
<1>4. books' = books /\ used' = used /\ job' = job /\ entry' = entry
  BY <1>2 DEF store, OwnedBookFound, FetchBook, OwnedBookMissing, OwnedEntryMissing,
         ResolveHit, ResolveMiss, BookExists, EntryExists
<1> USE <1>1, <1>4, NoneAssumption DEF Goto
<1>5. TypeLocals' /\ Others(r) /\ ReqOK(r)'
  <2>1. CASE \E b \in BookIds : OwnedBookFound(r, b) \/ FetchBook(r, b)
    <3>1. PICK b \in BookIds : OwnedBookFound(r, b) \/ FetchBook(r, b)
      BY <2>1
    <3>2. /\ book' = [book EXCEPT ![r] = b]
          /\ row' = row /\ ans' = ans /\ rest' = rest /\ tally' = tally /\ met' = met
          /\ HasIsbn(b, row[r].isbn)
          /\ \/ pc[r] = "owned_book" /\ pc' = [pc EXCEPT ![r] = "owned_entry"]
             \/ pc[r] = "getbook" /\ pc' = [pc EXCEPT ![r] = "link"]
      BY <3>1 DEF OwnedBookFound, FetchBook
    <3>3. TypeLocals' /\ Others(r)
      BY <3>2 DEF TypeLocals, Labels, Others
    <3>4. Holding(r)'
      BY <3>2 DEF Holding, TypeLocals, HasIsbn
    <3>5. CheckHolds(r)' /\ AnswerHolds(r)'
      BY <3>2 DEF Holding, TypeLocals, CheckHolds, AnswerHolds, Answers, Outcomes
    <3> QED
      BY <3>3, <3>4, <3>5 DEF ReqOK
  <2>2. CASE OwnedBookMissing(r) \/ OwnedEntryMissing(r) \/ BookExists(r) \/ EntryExists(r)
    <3>1. /\ row' = row /\ ans' = ans /\ rest' = rest /\ tally' = tally /\ book' = book
          /\ \/ pc[r] \in {"owned_book", "owned_entry"} /\ pc' = [pc EXCEPT ![r] = "resolve"]
             \/ /\ pc[r] = "create" /\ pc' = [pc EXCEPT ![r] = "getbook"]
                /\ IsbnTaken(row[r].isbn)
             \/ pc[r] = "link" /\ pc' = [pc EXCEPT ![r] = "getentry"]
      BY <2>2 DEF OwnedBookMissing, OwnedEntryMissing, BookExists, EntryExists
    <3>2. TypeLocals' /\ Others(r)
      <4>1. MetMoves(r)
        BY <2>2 DEF OwnedBookMissing, OwnedEntryMissing, BookExists, EntryExists, MetMoves
      <4> QED
        BY <3>1, <4>1, MetKept DEF TypeLocals, Labels, Others
    <3>3. IsbnTaken(row[r].isbn) => IsbnTaken(row[r].isbn)'
      BY <3>1 DEF IsbnTaken, HasIsbn
    <3>4. Holding(r)'
      BY <3>1, <3>3 DEF Holding, TypeLocals, HasIsbn
    <3>5. CheckHolds(r)' /\ AnswerHolds(r)'
      BY <3>1 DEF Holding, TypeLocals, CheckHolds, AnswerHolds, Answers, Outcomes
    <3> QED
      BY <3>2, <3>4, <3>5 DEF ReqOK
  <2>3. CASE \E m \in Metas : ResolveHit(r, m)
    <3>1. PICK m \in Metas : ResolveHit(r, m)
      BY <2>3
    <3>2. /\ row' = [row EXCEPT ![r].meta = m]
          /\ rest' = rest /\ tally' = tally /\ book' = book /\ met' = met
          /\ pc[r] = "resolve"
          /\ \/ pc' = [pc EXCEPT ![r] = "create"] /\ ans' = ans
             \/ pc' = [pc EXCEPT ![r] = "done"] /\ ans' = [ans EXCEPT ![r] = "preview"]
      BY <3>1 DEF ResolveHit, Answer
    <3>3. row[r] \in Row /\ row[r] # None
      BY <3>2 DEF Holding, TypeLocals
    <3>4. row'[r] \in Row /\ row'[r] # None /\ row'[r].meta # None
      BY <3>2, <3>3, ZenonT(60) DEF Row, TypeLocals
    <3>5. TypeLocals' /\ Others(r)
      BY <3>2, <3>4, ZenonT(60) DEF TypeLocals, Labels, Others, Answers
    <3>6. Holding(r)'
      BY <3>2, <3>4 DEF Holding, TypeLocals
    <3>7. CheckHolds(r)' /\ AnswerHolds(r)'
      BY <3>2 DEF Holding, TypeLocals, CheckHolds, AnswerHolds, Answers, Outcomes
    <3> QED
      BY <3>5, <3>6, <3>7 DEF ReqOK
  <2>4. CASE ResolveMiss(r)
    <3>1. /\ row' = row /\ rest' = rest /\ tally' = tally /\ book' = book /\ met' = met
          /\ pc[r] = "resolve" /\ pc' = [pc EXCEPT ![r] = "done"]
          /\ ans' = [ans EXCEPT ![r] = "miss"]
      BY <2>4 DEF ResolveMiss, Answer
    <3>2. TypeLocals' /\ Others(r)
      BY <3>1 DEF TypeLocals, Labels, Others, Answers
    <3>3. Holding(r)'
      BY <3>1 DEF Holding, TypeLocals
    <3>4. CheckHolds(r)' /\ AnswerHolds(r)'
      BY <3>1 DEF TypeLocals, CheckHolds, AnswerHolds
    <3> QED
      BY <3>2, <3>3, <3>4 DEF ReqOK
  <2> QED
    BY <2>1, <2>2, <2>3, <2>4
<1> QED
  BY <1>3, <1>5, Assemble

\* scanSubmit's "you already have it".
LEMMA OwnedStep ==
  ASSUME IInv, NEW r \in Requests, NEW e \in EntryIds, OwnedEntryFound(r, e)
  PROVE  IInv'
<1>1. StoreOK /\ TypeLocals /\ Holding(r)
  BY Parts DEF ReqOK
<1>2. /\ pc[r] = "owned_entry" /\ pc' = [pc EXCEPT ![r] = "done"]
      /\ ans' = [ans EXCEPT ![r] = "existing"]
      /\ entry' = [entry EXCEPT ![r] = e]
      /\ UNCHANGED <<store, job, row, rest, book, met>>
      /\ IsCopy(e, job[r].user, book[r])
  BY DEF OwnedEntryFound, Answer, Goto
<1>3. tally' \in [Requests -> [Outcomes -> Nat]]
  BY <1>1 DEF OwnedEntryFound, Count, TypeLocals, Outcomes
<1>4. StoreOK' /\ Grows
  BY <1>1, <1>2, ReadOnly
<1>5. TypeLocals' /\ Others(r)
  BY <1>1, <1>2, <1>3 DEF TypeLocals, Labels, Others, Answers, Outcomes
<1>6. Holding(r)' /\ CheckHolds(r)'
  BY <1>1, <1>2 DEF Holding, CheckHolds, TypeLocals, store
<1>7. AnswerHolds(r)'
  <2>1. e \in used
    BY <1>1, <1>2 DEF StoreOK, NoDangling, IsCopy
  <2>2. HasIsbn(book[r], row[r].isbn)
    BY <1>1, <1>2 DEF Holding
  <2> QED
    BY <1>1, <1>2, <2>1, <2>2 DEF AnswerHolds, TypeLocals, store, IsCopy, Owns, HasIsbn
<1> QED
  BY <1>4, <1>5, <1>6, <1>7, Assemble DEF ReqOK

\* bookUpdate and bookDelete.  The owner check and the write are two steps;
\* CheckHolds carries what the first saw to the second.
LEMMA CheckStep ==
  ASSUME IInv, NEW r \in Requests,
         CheckFails(r) \/ UpdateRead(r) \/ UpdateFails(r) \/ DeleteRead(r) \/ DeleteFails(r)
  PROVE  IInv'
<1>1. StoreOK /\ TypeLocals /\ Holding(r)
  BY Parts DEF ReqOK
<1>2. UNCHANGED <<store, job, row, rest, book, entry, tally>>
  BY DEF CheckFails, UpdateRead, UpdateFails, DeleteRead, DeleteFails
<1>3. StoreOK' /\ Grows
  BY <1>1, <1>2, ReadOnly
<1>4. /\ pc[r] \in {"upd_read", "upd_write", "del_read", "del_write"}
      /\ \/ /\ \E a \in {"notfound", "invalid", "failed"} : ans' = [ans EXCEPT ![r] = a]
            /\ pc' = [pc EXCEPT ![r] = "done"]
         \/ /\ \/ pc[r] = "upd_read" /\ pc' = [pc EXCEPT ![r] = "upd_write"]
               \/ pc[r] = "del_read" /\ pc' = [pc EXCEPT ![r] = "del_write"]
            /\ ans' = ans
            /\ Owns(r, entry[r])
  BY DEF CheckFails, UpdateRead, UpdateFails, DeleteRead, DeleteFails, Answer, Goto
<1>5. TypeLocals' /\ Others(r)
  <2>1. MetMoves(r)
    <3>1. entry[r] \in EntryIds \cup {None}
      BY <1>1 DEF TypeLocals
    <3> QED
      BY <3>1 DEF CheckFails, UpdateRead, UpdateFails, DeleteRead, DeleteFails, MetMoves
  <2> QED
    BY <1>1, <1>2, <1>4, <2>1, MetKept DEF TypeLocals, Labels, Others, Answers, Outcomes
<1>6. job[r] # None /\ entry[r] \in used /\ ans[r] = None
  BY <1>1, <1>4, NoneAssumption DEF Holding, TypeLocals, Answers, Outcomes
<1>7. Holding(r)'
  BY <1>1, <1>2, <1>4, <1>6, NoneAssumption DEF Holding, TypeLocals, store, Answers, Outcomes
<1>8. CheckHolds(r)' /\ AnswerHolds(r)'
  BY <1>1, <1>2, <1>4, <1>6, NoneAssumption
     DEF CheckHolds, AnswerHolds, TypeLocals, store, Owns, Answers, Outcomes
<1> QED
  BY <1>3, <1>5, <1>7, <1>8, Assemble DEF ReqOK

LEMMA WriteStep ==
  ASSUME IInv, NEW r \in Requests, UpdateWrite(r) \/ DeleteWrite(r)
  PROVE  IInv'
<1>1. StoreOK /\ TypeLocals /\ Holding(r)
  BY Parts DEF ReqOK
<1>2. /\ UNCHANGED <<job, row, rest, book, entry, tally, met>>
      /\ UNCHANGED <<sessions, profiles, books, used>>
      /\ pc[r] \in {"upd_write", "del_write"}
      /\ pc' = [pc EXCEPT ![r] = "done"]
      /\ \E a \in {"saved", "removed", "failed"} : ans' = [ans EXCEPT ![r] = a]
      /\ entries[entry[r]] # None
      /\ EditEntry(entry[r], job[r].details) \/ DropEntry(entry[r])
  BY DEF UpdateWrite, DeleteWrite, Answer, Goto
<1>3. job[r] # None /\ entry[r] \in used
  BY <1>1, <1>2 DEF Holding
<1>4. entry[r] \in EntryIds /\ job[r].details \in Details
  BY <1>1, <1>3 DEF StoreOK, TypeStore, TypeLocals, Job
<1>5. StoreOK' /\ Grows
  BY <1>1, <1>2, <1>4, EntryEdited, EntryDropped
<1>6. TypeLocals' /\ Others(r)
  BY <1>1, <1>2 DEF TypeLocals, Labels, Others, Answers, Outcomes
<1>7. Holding(r)' /\ CheckHolds(r)' /\ AnswerHolds(r)'
  BY <1>1, <1>2, <1>3 DEF Holding, CheckHolds, AnswerHolds, TypeLocals
<1> QED
  BY <1>5, <1>6, <1>7, Assemble DEF ReqOK

-----------------------------------------------------------------------------
(* saveBook *)

\* The answers that leave the tables alone.
LEMMA RowDoneStep ==
  ASSUME IInv, NEW r \in Requests,
         \/ \E e \in EntryIds : FetchEntry(r, e)
         \/ EntryVanished(r) \/ NoProfile(r) \/ Unstorable(r) \/ SaveFault(r)
  PROVE  IInv'
<1>1. StoreOK /\ TypeLocals /\ Holding(r)
  BY Parts DEF ReqOK
<1>2. UNCHANGED store /\ UNCHANGED book
  BY DEF FetchEntry, EntryVanished, NoProfile, Unstorable, SaveFault
<1>3. StoreOK' /\ Grows
  BY <1>1, <1>2, ReadOnly
<1>4. CASE \E e \in EntryIds : FetchEntry(r, e)
  <2>1. PICK e \in EntryIds : FetchEntry(r, e)
    BY <1>4
  <2>2. RowDone(r, "getentry", "existing", e) /\ IsCopy(e, job[r].user, book[r])
    BY <2>1 DEF FetchEntry
  <2>3. "existing" \in Outcomes
    BY DEF Outcomes
  <2>4. /\ TypeLocals' /\ Others(r) /\ Holding(r)' /\ CheckHolds(r)'
        /\ ans'[r] \in {"added", "existing"} =>
              entry'[r] = e /\ job'[r] = job[r] /\ row'[r] = row[r]
    BY <1>1, <1>2, <2>2, <2>3, RowDoneLocals
  <2>5. e \in used /\ HasIsbn(book[r], row[r].isbn)
    BY <1>1, <2>2 DEF StoreOK, NoDangling, IsCopy, Holding, RowDone
  <2>6. AnswerHolds(r)'
    BY <1>2, <2>2, <2>4, <2>5 DEF AnswerHolds, store, IsCopy, Owns, HasIsbn
  <2> QED
    BY <1>3, <2>4, <2>6, Assemble DEF ReqOK
<1>5. CASE EntryVanished(r) \/ NoProfile(r) \/ Unstorable(r) \/ SaveFault(r)
  <2>1. PICK from \in {"create", "getbook", "link", "getentry"} :
           RowDone(r, from, "failed", None)
    BY <1>5 DEF EntryVanished, NoProfile, Unstorable, SaveFault
  <2>2. "failed" \in Outcomes
    BY DEF Outcomes
  <2>3. /\ TypeLocals' /\ Others(r) /\ Holding(r)' /\ CheckHolds(r)'
        /\ ans'[r] \notin {"added", "existing"}
    BY <1>1, <1>2, <2>1, <2>2, RowDoneLocals
  <2>4. AnswerHolds(r)'
    BY <2>3 DEF AnswerHolds
  <2> QED
    BY <1>3, <2>3, <2>4, Assemble DEF ReqOK
<1> QED
  BY <1>4, <1>5

\* A new books row.
LEMMA InsertBookStep ==
  ASSUME IInv, NEW r \in Requests, NEW b \in BookIds,
         InsertBook(r, b) \/ InsertBookLost(r, b)
  PROVE  IInv'
<1>1. StoreOK /\ TypeLocals /\ Holding(r)
  BY Parts DEF ReqOK
<1>2. /\ pc[r] = "create"
      /\ AddBook(b, row[r].isbn, row[r].meta)
      /\ UNCHANGED <<sessions, profiles, entries, used>>
  BY DEF InsertBook, InsertBookLost, Goto, RowDone
<1>3. row[r] # None /\ row[r].isbn \in Isbns /\ row[r].meta \in Metas /\ ans[r] = None
  BY <1>1, <1>2, NoneAssumption DEF Holding, TypeLocals, Row, Answers, Outcomes
<1>4. StoreOK' /\ Grows /\ books'[b] # None /\ books'[b].isbn = row[r].isbn
  <2>1. ASSUME NEW i \in Isbns, NEW m \in Metas, AddBook(b, i, m)
        PROVE  StoreOK' /\ Grows /\ HasIsbn(b, i)'
    BY <1>1, <1>2, <2>1, BookAdded
  <2> QED
    BY <1>2, <1>3, <2>1 DEF HasIsbn
<1>5. CASE InsertBook(r, b)
  <2>1. /\ pc' = [pc EXCEPT ![r] = "link"]
        /\ book' = [book EXCEPT ![r] = b]
        /\ UNCHANGED <<job, row, rest, entry, tally, ans, met>>
    BY <1>5 DEF InsertBook, Goto
  <2>2. TypeLocals' /\ Others(r)
    BY <1>1, <2>1 DEF TypeLocals, Labels, Others
  <2>3. Holding(r)'
    BY <1>1, <1>2, <1>3, <1>4, <2>1, NoneAssumption DEF Holding, TypeLocals, HasIsbn
  <2>4. CheckHolds(r)' /\ AnswerHolds(r)'
    BY <1>1, <1>3, <2>1, NoneAssumption DEF CheckHolds, AnswerHolds, TypeLocals, Answers, Outcomes
  <2> QED
    BY <1>4, <2>2, <2>3, <2>4, Assemble DEF ReqOK
<1>6. CASE InsertBookLost(r, b)
  <2>1. RowDone(r, "create", "failed", None) /\ UNCHANGED book
    BY <1>6 DEF InsertBookLost
  <2>2. "failed" \in Outcomes
    BY DEF Outcomes
  <2>3. /\ TypeLocals' /\ Others(r) /\ Holding(r)' /\ CheckHolds(r)'
        /\ ans'[r] \notin {"added", "existing"}
    BY <1>1, <2>1, <2>2, RowDoneLocals
  <2> QED
    BY <1>4, <2>3, Assemble DEF ReqOK, AnswerHolds
<1> QED
  BY <1>5, <1>6

\* A new entry, announced or not.
LEMMA InsertEntryStep ==
  ASSUME IInv, NEW r \in Requests, NEW e \in EntryIds,
         InsertEntry(r, e) \/ InsertEntryLost(r, e)
  PROVE  IInv'
<1>1. StoreOK /\ TypeLocals /\ Holding(r)
  BY Parts DEF ReqOK
<1>2. PICK o \in {"added", "failed"}, x \in {e, None} :
         /\ RowDone(r, "link", o, x)
         /\ o = "added" => x = e
  BY DEF InsertEntry, InsertEntryLost
<1>3. /\ AddEntry(e, job[r].user, book[r], row[r].details)
      /\ UNCHANGED <<sessions, profiles, books, book>>
  BY DEF InsertEntry, InsertEntryLost
<1>4. /\ job[r].user \in Users
      /\ book[r] \in BookIds
      /\ row[r].details \in Details
      /\ HasIsbn(book[r], row[r].isbn)
  BY <1>1, <1>2 DEF RowDone, Holding, TypeLocals, Job, Row
<1>5. /\ StoreOK' /\ Grows
      /\ e \in used'
      /\ entries'[e] = [user |-> job[r].user, book |-> book[r], details |-> row[r].details]
  BY <1>1, <1>3, <1>4, EntryAdded DEF HasIsbn
<1>6. /\ TypeLocals' /\ Others(r) /\ Holding(r)' /\ CheckHolds(r)'
      /\ ans'[r] \in {"added", "existing"} =>
            ans'[r] = o /\ entry'[r] = x /\ job'[r] = job[r] /\ row'[r] = row[r]
  BY <1>1, <1>2, <1>3, RowDoneLocals DEF Outcomes
<1>7. AnswerHolds(r)'
  BY <1>2, <1>3, <1>4, <1>5, <1>6 DEF AnswerHolds, Owns, HasIsbn
<1> QED
  BY <1>5, <1>6, <1>7, Assemble DEF ReqOK

-----------------------------------------------------------------------------
(* The theorems *)

LEMMA StutterStep == IInv /\ UNCHANGED vars => IInv'
  BY DEF vars, IInv, TypeOK, BooksUnique, EntriesUnique, NoDangling, LocalsHold, Holding,
         CheckedOwnerStillHolds, AnswersAreTrue, HasIsbn, IsbnTaken, Owns

LEMMA NextInv == IInv /\ [Next]_vars => IInv'
<1> SUFFICES ASSUME IInv, [Next]_vars PROVE IInv'
  OBVIOUS
<1>1. ASSUME NEW u \in Users, Login(u) \/ LoginUnsynced(u) PROVE IInv'
  BY <1>1, LoginStep
<1>2. ASSUME NEW r \in Requests, Arrive(r) PROVE IInv'
  BY <1>2, ArriveStep
<1>3. ASSUME NEW r \in Requests, Serve(r) PROVE IInv'
  BY <1>3, ReadStep, OwnedStep, CheckStep, WriteStep, RowDoneStep, InsertBookStep,
     InsertEntryStep DEF Serve
<1>4. CASE Finished \/ UNCHANGED vars
  BY <1>4, StutterStep DEF Finished
<1> QED
  BY <1>1, <1>2, <1>3, <1>4 DEF Next

\* The inductive invariant holds throughout.
THEOREM InvariantHolds == Spec => []IInv
  BY InitInv, NextInv, PTL DEF Spec

\* Every variable keeps its type: in particular no books row is ever stored
\* without its bibliographic data.
THEOREM TypeCorrect == Spec => []TypeOK
  BY InvariantHolds, PTL DEF IInv

\* Two entries of a user with the same isbn have the same books row, and then
\* they are the same entry.
LEMMA InvOneCopy == IInv => OneCopyPerUser
<1> SUFFICES ASSUME IInv,
                    NEW e1 \in EntryIds, NEW e2 \in EntryIds,
                    entries[e1] # None, entries[e2] # None,
                    entries[e1].user = entries[e2].user,
                    NEW i \in Isbns,
                    HasIsbn(entries[e1].book, i), HasIsbn(entries[e2].book, i)
             PROVE  e1 = e2
  BY DEF OneCopyPerUser
<1>1. entries[e1].book \in BookIds /\ entries[e2].book \in BookIds
  BY DEF IInv, TypeOK, Entry
<1>2. entries[e1].book = entries[e2].book
  BY <1>1 DEF IInv, BooksUnique
<1> QED
  BY <1>2 DEF IInv, EntriesUnique

\* No user ever has two copies of one ISBN, whichever requests raced.
THEOREM OneCopy == Spec => []OneCopyPerUser
  BY InvariantHolds, InvOneCopy, PTL

\* An answer never shows a copy of somebody else or of another ISBN.
THEOREM TrueAnswers == Spec => []AnswersAreTrue
  BY InvariantHolds, PTL DEF IInv

\* The owner check of bookUpdate and bookDelete is still good when they write.
THEOREM CheckedOwner == Spec => []CheckedOwnerStillHolds
  BY InvariantHolds, PTL DEF IInv

-----------------------------------------------------------------------------
(* What a step may never do *)

\* The steps that write a row of books or library_entries, and nothing else
\* does.
LEMMA Effects ==
  ASSUME [Next]_vars
  PROVE  \/ UNCHANGED <<books, entries, used>>
         \/ \E r \in Requests, b \in BookIds :
               /\ AddBook(b, row[r].isbn, row[r].meta)
               /\ UNCHANGED <<entries, used>>
         \/ \E r \in Requests, e \in EntryIds :
               /\ AddEntry(e, job[r].user, book[r], row[r].details)
               /\ UNCHANGED books
         \/ \E r \in Requests : UpdateWrite(r) \/ DeleteWrite(r)
<1>1. ASSUME NEW u \in Users, Login(u) \/ LoginUnsynced(u)
      PROVE  UNCHANGED <<books, entries, used>>
  BY <1>1 DEF Login, LoginUnsynced
<1>2. ASSUME NEW r \in Requests, Arrive(r)
      PROVE  UNCHANGED <<books, entries, used>>
  BY <1>2 DEF Arrive, Submit, RejectSubmit, Scan, Import, Update, Delete, Begin, store
<1>3. CASE Finished \/ UNCHANGED vars
  BY <1>3 DEF Finished, vars, store
<1>4. ASSUME NEW r \in Requests, Serve(r)
      PROVE  \/ UNCHANGED <<books, entries, used>>
             \/ \E b \in BookIds :
                   AddBook(b, row[r].isbn, row[r].meta) /\ UNCHANGED <<entries, used>>
             \/ \E e \in EntryIds :
                   AddEntry(e, job[r].user, book[r], row[r].details) /\ UNCHANGED books
             \/ UpdateWrite(r) \/ DeleteWrite(r)
  <2>1. ASSUME NEW b \in BookIds, InsertBook(r, b) \/ InsertBookLost(r, b)
        PROVE  AddBook(b, row[r].isbn, row[r].meta) /\ UNCHANGED <<entries, used>>
    BY <2>1 DEF InsertBook, InsertBookLost
  <2>2. ASSUME NEW e \in EntryIds, InsertEntry(r, e) \/ InsertEntryLost(r, e)
        PROVE  AddEntry(e, job[r].user, book[r], row[r].details) /\ UNCHANGED books
    BY <2>2 DEF InsertEntry, InsertEntryLost
  <2>3. ASSUME \/ \E b \in BookIds : OwnedBookFound(r, b) \/ FetchBook(r, b)
               \/ \E e \in EntryIds : OwnedEntryFound(r, e) \/ FetchEntry(r, e)
               \/ \E m \in Metas : ResolveHit(r, m)
               \/ OwnedBookMissing(r) \/ OwnedEntryMissing(r) \/ ResolveMiss(r)
               \/ BookExists(r) \/ EntryExists(r) \/ EntryVanished(r)
               \/ NoProfile(r) \/ Unstorable(r) \/ SaveFault(r)
               \/ CheckFails(r) \/ UpdateRead(r) \/ UpdateFails(r)
               \/ DeleteRead(r) \/ DeleteFails(r)
        PROVE  UNCHANGED <<books, entries, used>>
    BY <2>3 DEF OwnedBookFound, FetchBook, OwnedEntryFound, FetchEntry, ResolveHit,
         OwnedBookMissing, OwnedEntryMissing, ResolveMiss, BookExists, EntryExists,
         EntryVanished, NoProfile, Unstorable, SaveFault, CheckFails, UpdateRead,
         UpdateFails, DeleteRead, DeleteFails, store
  <2> QED
    BY <1>4, <2>1, <2>2, <2>3 DEF Serve
<1> QED
  BY <1>1, <1>2, <1>3, <1>4 DEF Next

\* The id of a removed copy is not used again.
LEMMA NoneStays ==
  ASSUME IInv, [Next]_vars, NEW e \in used, entries[e] = None
  PROVE  entries'[e] = None
<1>1. entries \in [EntryIds -> Entry \cup {None}] /\ e \in EntryIds
  BY DEF IInv, TypeOK
<1>2. ASSUME NEW f \in EntryIds, NEW u, NEW b, NEW d, AddEntry(f, u, b, d)
      PROVE  entries'[e] = None
  BY <1>1, <1>2 DEF AddEntry
<1>3. ASSUME NEW r \in Requests, UpdateWrite(r) \/ DeleteWrite(r)
      PROVE  entries'[e] = None
  BY <1>1, <1>3 DEF UpdateWrite, DeleteWrite, EditEntry, DropEntry
<1> QED
  BY <1>2, <1>3, Effects

\* An edit that was under way when a copy was deleted does not bring it back,
\* and no later save reuses its id.
THEOREM DeletedStays == Spec => NoResurrection
<1>1. IInv /\ [Next]_vars => [\A e \in used : entries[e] = None => entries'[e] = None]_vars
  BY NoneStays
<1> QED
  BY <1>1, InvariantHolds, PTL DEF Spec, NoResurrection

\* A copy changes by an update of its owner, which keeps its user and book, or
\* goes by a delete of its owner.
LEMMA OwnersStep ==
  ASSUME IInv, [Next]_vars, NEW e \in EntryIds, entries[e] # None, entries'[e] # entries[e]
  PROVE  \E r \in Requests :
            /\ OwnersRequest(r, e)
            /\ \/ DeleteWrite(r)
               \/ /\ entries'[e] # None /\ entries'[e].user = entries[e].user
                  /\ entries'[e].book = entries[e].book
<1>1. /\ entries \in [EntryIds -> Entry \cup {None}]
      /\ pc \in [Requests -> Labels]
  BY DEF IInv, TypeOK
<1>2. ASSUME NEW f \in EntryIds, NEW u, NEW b, NEW d, AddEntry(f, u, b, d)
      PROVE  FALSE
  BY <1>1, <1>2 DEF AddEntry, IInv, NoDangling
<1>3. PICK r \in Requests : UpdateWrite(r) \/ DeleteWrite(r)
  BY <1>2, Effects
<1>4. /\ pc[r] \in {"upd_write", "del_write"}
      /\ pc'[r] = "done"
      /\ pc[r] = "upd_write" => EditEntry(entry[r], job[r].details)
      /\ pc[r] = "del_write" => DeleteWrite(r) /\ DropEntry(entry[r])
  BY <1>1, <1>3 DEF UpdateWrite, DeleteWrite, Answer, Goto
<1>5. entry[r] = e
  BY <1>1, <1>4 DEF EditEntry, DropEntry
<1>6. job[r].user = entries[e].user
  BY <1>4, <1>5 DEF IInv, CheckedOwnerStillHolds
<1>7. CASE pc[r] = "upd_write"
  <2>1. job[r].op = "update"
    BY <1>7 DEF IInv, LocalsHold, Holding
  <2>2. entries'[e] = [entries[e] EXCEPT !.details = job[r].details]
    BY <1>1, <1>4, <1>5, <1>7 DEF EditEntry
  <2>3. entries[e] \in Entry /\ job[r].details \in Details
    <3>1. TypeLocals /\ Holding(r)
      BY Parts DEF ReqOK
    <3>2. job[r] # None
      BY <3>1, <1>7 DEF Holding
    <3> QED
      BY <1>1, <3>1, <3>2 DEF TypeLocals, Job
  <2>4. /\ entries'[e] # None
        /\ entries'[e].user = entries[e].user /\ entries'[e].book = entries[e].book
    BY <2>2, <2>3, NoneAssumption DEF Entry
  <2> QED
    BY <1>4, <1>5, <1>6, <1>7, <2>1, <2>4 DEF OwnersRequest
<1>8. CASE pc[r] = "del_write"
  <2>1. job[r].op = "delete"
    BY <1>8 DEF IInv, LocalsHold, Holding
  <2>2. entries'[e] = None
    BY <1>1, <1>4, <1>5, <1>8 DEF DropEntry
  <2> QED
    BY <1>4, <1>5, <1>6, <1>8, <2>1, <2>2 DEF OwnersRequest
<1> QED
  BY <1>4, <1>7, <1>8

\* A copy changes or goes away only by its owner's own request for that copy:
\* the write is by id alone, and what makes it the owner's is the check some
\* steps before, which CheckedOwnerStillHolds carries to the write.
THEOREM OwnerOnly == Spec => OnlyOwnerChanges
<1>1. IInv /\ [Next]_vars =>
         [\A e \in EntryIds : entries[e] # None /\ entries'[e] # entries[e] =>
             \E r \in Requests : OwnersRequest(r, e)]_vars
  BY OwnersStep
<1> QED
  BY <1>1, InvariantHolds, PTL DEF Spec, OnlyOwnerChanges

-----------------------------------------------------------------------------
(* One request moves at a time *)

Still(q) ==
    /\ pc'[q] = pc[q]
    /\ job'[q] = job[q]
    /\ row'[q] = row[q]
    /\ rest'[q] = rest[q]
    /\ book'[q] = book[q]
    /\ entry'[q] = entry[q]
    /\ tally'[q] = tally[q]
    /\ ans'[q] = ans[q]
    /\ met'[q] = met[q]

\* The locals of a request change by its own steps only.
LEMMA OneMoves ==
  ASSUME TypeLocals, [Next]_vars, NEW q \in Requests
  PROVE  Still(q) \/ Arrive(q) \/ Serve(q)
<1>1. ASSUME NEW u \in Users, Login(u) \/ LoginUnsynced(u) PROVE Still(q)
  BY <1>1 DEF Login, LoginUnsynced, locals, Still
<1>2. CASE Finished \/ UNCHANGED vars
  BY <1>2 DEF Finished, vars, Still
<1>3. ASSUME NEW r \in Requests, r # q, Arrive(r) PROVE Still(q)
  <2>1. /\ pc' = [pc EXCEPT ![r] = pc'[r]] /\ job' = [job EXCEPT ![r] = job'[r]]
        /\ row' = [row EXCEPT ![r] = row'[r]] /\ rest' = [rest EXCEPT ![r] = rest'[r]]
        /\ entry' = [entry EXCEPT ![r] = entry'[r]]
        /\ book' = book /\ tally' = tally /\ met' = met
        /\ ans' = ans \/ \E a : ans' = [ans EXCEPT ![r] = a]
    BY <1>3 DEF TypeLocals, Arrive, Submit, RejectSubmit, Scan, Import, Update, Delete, Begin
  <2> QED
    BY <1>3, <2>1 DEF TypeLocals, Still
<1>4. ASSUME NEW r \in Requests, r # q, Serve(r) PROVE Still(q)
  <2>1. ASSUME NEW from, NEW o, NEW e, RowDone(r, from, o, e), book' = book
        PROVE  Still(q)
    BY <1>4, <2>1 DEF RowDone, Count, TypeLocals, Still
  <2>2. ASSUME \/ \E e \in EntryIds : InsertEntry(r, e) \/ FetchEntry(r, e) \/ InsertEntryLost(r, e)
               \/ EntryVanished(r) \/ NoProfile(r) \/ Unstorable(r) \/ SaveFault(r)
               \/ \E b \in BookIds : InsertBookLost(r, b)
        PROVE  Still(q)
    BY <2>1, <2>2 DEF InsertEntry, FetchEntry, InsertEntryLost, EntryVanished, NoProfile,
         Unstorable, SaveFault, InsertBookLost
  <2>3. ASSUME \/ \E b \in BookIds : OwnedBookFound(r, b) \/ InsertBook(r, b) \/ FetchBook(r, b)
               \/ \E e \in EntryIds : OwnedEntryFound(r, e)
               \/ OwnedBookMissing(r) \/ OwnedEntryMissing(r)
               \/ \E m \in Metas : ResolveHit(r, m)
               \/ ResolveMiss(r) \/ BookExists(r) \/ EntryExists(r)
        PROVE  Still(q)
    BY <1>4, <2>3 DEF OwnedBookFound, InsertBook, FetchBook, OwnedEntryFound, OwnedBookMissing,
         OwnedEntryMissing, ResolveHit, ResolveMiss, BookExists, EntryExists,
         Goto, Answer, Count, TypeLocals, Still
  <2>4. ASSUME \/ CheckFails(r) \/ UpdateRead(r) \/ UpdateWrite(r) \/ UpdateFails(r)
               \/ DeleteRead(r) \/ DeleteWrite(r) \/ DeleteFails(r)
        PROVE  Still(q)
    BY <1>4, <2>4 DEF CheckFails, UpdateRead, UpdateWrite, UpdateFails, DeleteRead,
         DeleteWrite, DeleteFails, Goto, Answer, TypeLocals, Still
  <2> QED
    BY <1>4, <2>2, <2>3, <2>4 DEF Serve
<1> QED
  BY <1>1, <1>2, <1>3, <1>4 DEF Next

\* A step of a request that has arrived: it leaves what was asked for as it is,
\* and an answered request makes none.
LEMMA ServeKeeps ==
  ASSUME TypeLocals, NEW q \in Requests, Serve(q)
  PROVE  pc[q] \notin {"idle", "done"} /\ pc'[q] # "idle" /\ job' = job
<1>1. ASSUME NEW from \in {"create", "getbook", "link", "getentry"}, NEW o, NEW e,
             RowDone(q, from, o, e)
      PROVE  pc[q] \notin {"idle", "done"} /\ pc'[q] # "idle" /\ job' = job
  BY <1>1 DEF RowDone, TypeLocals
<1>2. ASSUME \/ \E e \in EntryIds : InsertEntry(q, e) \/ FetchEntry(q, e) \/ InsertEntryLost(q, e)
             \/ EntryVanished(q) \/ NoProfile(q) \/ Unstorable(q) \/ SaveFault(q)
             \/ \E b \in BookIds : InsertBookLost(q, b)
      PROVE  pc[q] \notin {"idle", "done"} /\ pc'[q] # "idle" /\ job' = job
  BY <1>1, <1>2 DEF InsertEntry, FetchEntry, InsertEntryLost, EntryVanished, NoProfile,
       Unstorable, SaveFault, InsertBookLost
<1>3. ASSUME \/ \E b \in BookIds : OwnedBookFound(q, b) \/ InsertBook(q, b) \/ FetchBook(q, b)
             \/ \E e \in EntryIds : OwnedEntryFound(q, e)
             \/ OwnedBookMissing(q) \/ OwnedEntryMissing(q)
             \/ \E m \in Metas : ResolveHit(q, m)
             \/ ResolveMiss(q) \/ BookExists(q) \/ EntryExists(q)
      PROVE  pc[q] \notin {"idle", "done"} /\ pc'[q] # "idle" /\ job' = job
  BY <1>3 DEF OwnedBookFound, InsertBook, FetchBook, OwnedEntryFound, OwnedBookMissing,
       OwnedEntryMissing, ResolveHit, ResolveMiss, BookExists, EntryExists,
       Goto, Answer, TypeLocals
<1>4. ASSUME \/ CheckFails(q) \/ UpdateRead(q) \/ UpdateWrite(q) \/ UpdateFails(q)
             \/ DeleteRead(q) \/ DeleteWrite(q) \/ DeleteFails(q)
      PROVE  pc[q] \notin {"idle", "done"} /\ pc'[q] # "idle" /\ job' = job
  BY <1>4 DEF CheckFails, UpdateRead, UpdateWrite, UpdateFails, DeleteRead,
       DeleteWrite, DeleteFails, Goto, Answer, TypeLocals
<1> QED
  BY <1>2, <1>3, <1>4 DEF Serve

\* What a request asks for never changes, and an answer stands.
LEMMA JobsStand ==
  ASSUME TypeLocals, [Next]_vars, NEW q \in Requests, pc[q] # "idle"
  PROVE  /\ job'[q] = job[q] /\ pc'[q] # "idle"
         /\ pc[q] = "done" => Still(q)
<1>1. ~Arrive(q)
  BY DEF Arrive, Submit, RejectSubmit, Scan, Import, Update, Delete, Begin
<1> QED
  BY <1>1, OneMoves, ServeKeeps DEF Still

-----------------------------------------------------------------------------
(* Numbers: an import's rows, and the copies announced *)

\* The only steps that count: saveBook's returns and "you already have it".  A
\* copy is stored by a step that counts "added", or whose reply is lost.
LEMMA TallySteps ==
  ASSUME TypeLocals, [Next]_vars
  PROVE  \/ tally' = tally /\ used' = used
         \/ \E r \in Requests, o \in Outcomes :
               /\ tally' = [tally EXCEPT ![r][o] = @ + 1]
               /\ \/ used' = used /\ o # "added"
                  \/ \E e \in EntryIds \ used :
                        /\ used' = used \cup {e}
                        /\ o = "added" \/ (o = "failed" /\ r \in Faulty)
<1> DEFINE Counted(r, o) ==
      /\ tally' = [tally EXCEPT ![r][o] = @ + 1]
      /\ \/ used' = used /\ o # "added"
         \/ \E e \in EntryIds \ used :
               /\ used' = used \cup {e}
               /\ o = "added" \/ (o = "failed" /\ r \in Faulty)
<1>1. ASSUME NEW u \in Users, Login(u) \/ LoginUnsynced(u)
      PROVE  tally' = tally /\ used' = used
  BY <1>1 DEF Login, LoginUnsynced, locals
<1>2. ASSUME NEW r \in Requests, Arrive(r)
      PROVE  tally' = tally /\ used' = used
  BY <1>2 DEF Arrive, Submit, RejectSubmit, Scan, Import, Update, Delete, Begin, store
<1>3. CASE Finished \/ UNCHANGED vars
  BY <1>3 DEF Finished, vars
<1>4. ASSUME NEW r \in Requests, Serve(r)
      PROVE  \/ tally' = tally /\ used' = used
             \/ \E o \in Outcomes : Counted(r, o)
  <2>1. ASSUME NEW e \in EntryIds, InsertEntry(r, e) \/ InsertEntryLost(r, e)
        PROVE  \E o \in Outcomes : Counted(r, o)
    BY <2>1 DEF InsertEntry, InsertEntryLost, RowDone, Count, AddEntry, Outcomes
  <2>2. ASSUME \/ \E e \in EntryIds : FetchEntry(r, e)
               \/ EntryVanished(r) \/ NoProfile(r) \/ Unstorable(r) \/ SaveFault(r)
               \/ \E b \in BookIds : InsertBookLost(r, b)
        PROVE  \E o \in Outcomes : Counted(r, o)
    <3>1. used' = used
      BY <2>2 DEF FetchEntry, EntryVanished, NoProfile, Unstorable, SaveFault, InsertBookLost, store
    <3>2. Count(r, "existing") \/ Count(r, "failed")
      BY <2>2 DEF FetchEntry, EntryVanished, NoProfile, Unstorable, SaveFault, InsertBookLost, RowDone
    <3> QED
      BY <3>1, <3>2 DEF Count, Outcomes
  <2>3. ASSUME NEW e \in EntryIds, OwnedEntryFound(r, e)
        PROVE  \E o \in Outcomes : Counted(r, o)
    BY <2>3 DEF OwnedEntryFound, Count, Outcomes, store
  <2>4. ASSUME \/ \E b \in BookIds : OwnedBookFound(r, b) \/ InsertBook(r, b) \/ FetchBook(r, b)
               \/ OwnedBookMissing(r) \/ OwnedEntryMissing(r)
               \/ \E m \in Metas : ResolveHit(r, m)
               \/ ResolveMiss(r) \/ BookExists(r) \/ EntryExists(r)
        PROVE  tally' = tally /\ used' = used
    BY <2>4 DEF OwnedBookFound, InsertBook, FetchBook, OwnedBookMissing,
         OwnedEntryMissing, ResolveHit, ResolveMiss, BookExists, EntryExists, store
  <2>5. ASSUME \/ CheckFails(r) \/ UpdateRead(r) \/ UpdateWrite(r) \/ UpdateFails(r)
               \/ DeleteRead(r) \/ DeleteWrite(r) \/ DeleteFails(r)
        PROVE  tally' = tally /\ used' = used
    BY <2>5 DEF CheckFails, UpdateRead, UpdateWrite, UpdateFails, DeleteRead,
         DeleteWrite, DeleteFails, store
  <2> QED
    BY <1>4, <2>1, <2>2, <2>3, <2>4, <2>5 DEF Serve
<1> QED
  BY <1>1, <1>2, <1>3, <1>4 DEF Next

\* One more in one place adds one element to the pairs counted.
Pairs(R, f) == UNION {{q} \X (1 .. f[q]) : q \in R}

LEMMA PairsAdded ==
  ASSUME NEW R, NEW r \in R, NEW f \in [R -> Nat],
         IsFiniteSet(Pairs(R, f))
  PROVE  LET g == [f EXCEPT ![r] = @ + 1]
         IN  /\ IsFiniteSet(Pairs(R, g))
             /\ Cardinality(Pairs(R, g)) = Cardinality(Pairs(R, f)) + 1
<1> DEFINE g == [f EXCEPT ![r] = @ + 1]
           new == <<r, f[r] + 1>>
<1>1. \A p : p \in Pairs(R, f) <=> \E q \in R : \E n \in 1 .. f[q] : p = <<q, n>>
  BY DEF Pairs
<1>2. \A p : p \in Pairs(R, g) <=> \E q \in R : \E n \in 1 .. g[q] : p = <<q, n>>
  BY DEF Pairs
<1>3. new \notin Pairs(R, f)
  BY <1>1
<1>4. ASSUME NEW q \in R, NEW n
      PROVE  n \in 1 .. g[q] <=> n \in 1 .. f[q] \/ (q = r /\ n = f[r] + 1)
  <2>1. f[q] \in Nat /\ f[r] \in Nat
    OBVIOUS
  <2> QED
    BY <2>1
<1> HIDE DEF g
<1>5. \A p : p \in Pairs(R, g) <=> p \in Pairs(R, f) \cup {new}
  BY <1>1, <1>2, <1>4
<1>6. Pairs(R, g) = Pairs(R, f) \cup {new}
  BY <1>5
<1> HIDE DEF new
<1>7. IsFiniteSet(Pairs(R, g)) /\ Cardinality(Pairs(R, g)) = Cardinality(Pairs(R, f)) + 1
  BY <1>3, <1>6, FS_AddElement
<1> QED
  BY <1>7 DEF g

\* How often o was counted by the requests in R.
Times(R, o) == [r \in R |-> tally[r][o]]

\* The two counts are of finite sets, and the sets of copies and announcements
\* grow together.
Announcements ==
    /\ IsFiniteSet(used)
    /\ IsFiniteSet(Pairs(Requests, Times(Requests, "added")))
    /\ IsFiniteSet(Pairs(Faulty, Times(Faulty, "failed")))
    /\ Cardinality(Pairs(Requests, Times(Requests, "added"))) <= Cardinality(used)
    /\ Cardinality(used) <= Cardinality(Pairs(Requests, Times(Requests, "added")))
                            + Cardinality(Pairs(Faulty, Times(Faulty, "failed")))

LEMMA AnnouncementsSuffice == Announcements => EveryCopyAnnouncedOnce
<1>1. Pairs(Requests, Times(Requests, "added")) = Announced
  BY DEF Pairs, Times, Announced
<1>2. Pairs(Faulty, Times(Faulty, "failed")) = LostReplies
  BY DEF Pairs, Times, LostReplies
<1> QED
  BY <1>1, <1>2 DEF Announcements, EveryCopyAnnouncedOnce

LEMMA AnnouncementsInit == Init => Announcements
<1> SUFFICES ASSUME Init PROVE Announcements
  OBVIOUS
<1>1. Pairs(Requests, Times(Requests, "added")) = {}
  BY DEF Init, Pairs, Times, Outcomes
<1>2. Pairs(Faulty, Times(Faulty, "failed")) = {}
  BY DataAssumption DEF Init, Pairs, Times, Outcomes
<1>3. used = {}
  BY DEF Init
<1> QED
  BY <1>1, <1>2, <1>3, FS_EmptySet DEF Announcements

\* What one count does to the pairs of outcome o over the requests R.
LEMMA Counting ==
  ASSUME TypeLocals, NEW R \in SUBSET Requests, NEW o \in Outcomes,
         IsFiniteSet(Pairs(R, Times(R, o))),
         NEW r \in Requests, NEW x \in Outcomes, tally' = [tally EXCEPT ![r][x] = @ + 1]
  PROVE  /\ IsFiniteSet(Pairs(R, Times(R, o)'))
         /\ Cardinality(Pairs(R, Times(R, o)')) =
               IF r \in R /\ x = o THEN Cardinality(Pairs(R, Times(R, o))) + 1
               ELSE Cardinality(Pairs(R, Times(R, o)))
<1>1. Times(R, o) \in [R -> Nat]
  BY DEF TypeLocals, Times
<1>2. CASE r \in R /\ x = o
  <2>1. Times(R, o)' = [Times(R, o) EXCEPT ![r] = @ + 1]
    BY <1>2 DEF TypeLocals, Times
  <2> QED
    BY <1>1, <1>2, <2>1, PairsAdded
<1>3. CASE ~(r \in R /\ x = o)
  <2>1. Times(R, o)' = Times(R, o)
    BY <1>3 DEF TypeLocals, Times
  <2> QED
    BY <1>3, <2>1
<1> QED
  BY <1>2, <1>3

LEMMA AnnouncementsNext ==
  ASSUME TypeLocals, Announcements, [Next]_vars
  PROVE  Announcements'
<1> DEFINE A == Pairs(Requests, Times(Requests, "added"))
           L == Pairs(Faulty, Times(Faulty, "failed"))
<1>0. Faulty \subseteq Requests /\ {"added", "failed"} \subseteq Outcomes
  BY DataAssumption DEF Outcomes
<1>1. CASE tally' = tally /\ used' = used
  BY <1>1 DEF Announcements, Times
<1>2. ASSUME NEW r \in Requests, NEW o \in Outcomes,
             tally' = [tally EXCEPT ![r][o] = @ + 1],
             \/ used' = used /\ o # "added"
             \/ \E e \in EntryIds \ used :
                   /\ used' = used \cup {e}
                   /\ o = "added" \/ (o = "failed" /\ r \in Faulty)
      PROVE  Announcements'
  <2>1. /\ IsFiniteSet(A')
        /\ Cardinality(A') = IF o = "added" THEN Cardinality(A) + 1 ELSE Cardinality(A)
    BY <1>0, <1>2, Counting DEF Announcements
  <2>2. /\ IsFiniteSet(L')
        /\ Cardinality(L') = IF r \in Faulty /\ o = "failed" THEN Cardinality(L) + 1
                             ELSE Cardinality(L)
    BY <1>0, <1>2, Counting DEF Announcements
  <2>3. /\ IsFiniteSet(used')
        /\ \/ Cardinality(used') = Cardinality(used) /\ o # "added"
           \/ /\ Cardinality(used') = Cardinality(used) + 1
              /\ o = "added" \/ (o = "failed" /\ r \in Faulty)
    BY <1>2, FS_AddElement DEF Announcements
  <2>4. Cardinality(A) \in Nat /\ Cardinality(L) \in Nat /\ Cardinality(used) \in Nat
    BY FS_CardinalityType DEF Announcements
  <2> QED
    BY <2>1, <2>2, <2>3, <2>4 DEF Announcements
<1> QED
  BY <1>1, <1>2, TallySteps

\* However many requests add the same book at once, whatever is lost: each copy
\* stored was announced as added by one request, or a reply was lost for it.
THEOREM AnnouncedOnce == Spec => []EveryCopyAnnouncedOnce
<1>1. IInv => TypeLocals
  BY Parts
<1>2. Spec => []Announcements
  BY <1>1, AnnouncementsInit, AnnouncementsNext, InvariantHolds, PTL DEF Spec
<1> QED
  BY <1>2, AnnouncementsSuffice, PTL

\* An import under way has counted the rows done: those still to come, the
\* present one and the unusable ones make up the file.  Imports alone are
\* answered with their numbers.
Accounts(r) ==
    /\ pc[r] = "idle" => \A o \in Outcomes : tally[r][o] = 0
    /\ ans[r] = "imported" => pc[r] = "done" /\ job[r].op = "import"
    /\ pc[r] # "idle" /\ job[r].op = "import" =>
          /\ pc[r] \in {"create", "getbook", "link", "getentry", "done"}
          /\ pc[r] = "done" => rest[r] = <<>>
          /\ tally[r]["added"] + tally[r]["existing"] + tally[r]["failed"]
                + (IF pc[r] = "done" THEN 0 ELSE 1) + Len(rest[r]) + job[r].unusable
             = job[r].size

LEMMA AccountsInit == Init => \A r \in Requests : Accounts(r)
  BY NoneAssumption DEF Init, Accounts, Answers, Outcomes

LEMMA AccountsSuffice == TypeOK /\ (\A r \in Requests : Accounts(r)) => ImportAccountsForEveryRow
<1> SUFFICES ASSUME TypeOK, NEW r \in Requests, Accounts(r), ans[r] = "imported"
             PROVE  tally[r]["added"] + tally[r]["existing"] + tally[r]["failed"]
                       + job[r].unusable = job[r].size
  BY DEF ImportAccountsForEveryRow
<1>1. Len(rest[r]) = 0
  BY DEF Accounts
<1>2. tally[r] \in [Outcomes -> Nat] /\ pc[r] # "idle"
  BY DEF TypeOK, Accounts
<1>3. /\ tally[r]["added"] \in Nat /\ tally[r]["existing"] \in Nat /\ tally[r]["failed"] \in Nat
  BY <1>2 DEF Outcomes
<1> QED
  BY <1>1, <1>2, <1>3 DEF Accounts

\* A request arrives: a file's rows are all still to come.
LEMMA ArriveAccounts ==
  ASSUME TypeLocals, NEW r \in Requests, Holding(r), Accounts(r), Arrive(r)
  PROVE  Accounts(r)'
<1>1. /\ pc[r] = "idle" /\ tally' = tally /\ ans[r] = None
      /\ \A o \in Outcomes : tally[r][o] = 0
  BY NoneAssumption DEF Arrive, Submit, RejectSubmit, Scan, Import, Update, Delete, Begin,
     Accounts, Holding, TypeLocals
<1>2. ASSUME NEW u \in Users,
             \/ \E i \in Isbns, m \in Metas : Submit(r, u, i, m) \/ RejectSubmit(r, u, i, m)
             \/ \E i \in Isbns, o \in {"scan", "auto"} : Scan(r, u, i, o)
             \/ \E e \in EntryIds, d \in Details : Update(r, u, e, d)
             \/ \E e \in EntryIds : Delete(r, u, e)
      PROVE  Accounts(r)'
  <2>1. pc'[r] # "idle" /\ job'[r].op # "import" /\ ans'[r] # "imported"
    BY <1>1, <1>2, NoneAssumption DEF Submit, RejectSubmit, Scan, Update, Delete, Begin, JobOf,
       TypeLocals, Answers
  <2> QED
    BY <2>1 DEF Accounts
<1>3. ASSUME NEW u \in Users, NEW f \in ImportFiles, Import(r, u, f)
      PROVE  Accounts(r)'
  <2>1. f.rows \in Seq(ImportRow) /\ f.unusable \in Nat
    BY DataAssumption
  <2>2. /\ job'[r].op = "import" /\ job'[r].unusable = f.unusable
        /\ job'[r].size = Len(f.rows) + f.unusable
    BY <1>3 DEF Import, Begin, JobOf, TypeLocals
  <2>3. tally'[r]["added"] = 0 /\ tally'[r]["existing"] = 0 /\ tally'[r]["failed"] = 0
    BY <1>1 DEF Outcomes
  <2>4. CASE f.rows # <<>>
    <3>1. pc'[r] = "create" /\ rest'[r] = Tail(f.rows) /\ ans'[r] = None
      BY <1>1, <1>3, <2>4 DEF Import, Begin, TypeLocals
    <3>2. Len(Tail(f.rows)) + 1 = Len(f.rows)
      BY <2>1, <2>4
    <3>3. Len(rest'[r]) \in Nat
      BY <3>1, <2>1, <2>4
    <3> QED
      BY <2>1, <2>2, <2>3, <3>1, <3>2, <3>3, NoneAssumption DEF Accounts, Answers
  <2>5. CASE f.rows = <<>>
    <3>1. pc'[r] = "done" /\ rest'[r] = <<>> /\ Len(f.rows) = 0
      BY <1>3, <2>5 DEF Import, Begin, TypeLocals
    <3> QED
      BY <2>1, <2>2, <2>3, <3>1 DEF Accounts
  <2> QED
    BY <2>4, <2>5
<1> QED
  BY <1>2, <1>3 DEF Arrive

\* saveBook returns: one row more is counted, one row less to come.
LEMMA RowAccounts ==
  ASSUME TypeLocals, NEW r \in Requests, Holding(r), Accounts(r), NEW o \in Outcomes, NEW e,
         NEW from \in {"create", "getbook", "link", "getentry"}, RowDone(r, from, o, e)
  PROVE  Accounts(r)'
<1>1. /\ pc[r] = from /\ job' = job /\ pc'[r] \in {"create", "done"}
      /\ tally' = [tally EXCEPT ![r][o] = @ + 1]
      /\ \/ /\ rest[r] # <<>> /\ pc'[r] = "create" /\ rest'[r] = Tail(rest[r])
            /\ ans'[r] = ans[r]
         \/ /\ rest[r] = <<>> /\ pc'[r] = "done" /\ rest'[r] = <<>>
            /\ ans'[r] = IF job[r].op = "import" THEN "imported" ELSE o
  BY DEF RowDone, Count, TypeLocals
<1>2. ans[r] = None
  BY <1>1 DEF Holding
<1>3. ans'[r] = "imported" => pc'[r] = "done" /\ job'[r].op = "import"
  BY <1>1, <1>2, NoneAssumption DEF Answers, Outcomes
<1>4. ASSUME job[r].op = "import"
      PROVE  /\ pc'[r] = "done" => rest'[r] = <<>>
             /\ tally'[r]["added"] + tally'[r]["existing"] + tally'[r]["failed"]
                  + (IF pc'[r] = "done" THEN 0 ELSE 1) + Len(rest'[r]) + job'[r].unusable
                = job'[r].size
  <2>1. job[r] \in Job
    BY <1>1 DEF TypeLocals, Holding
  <2>2. job[r].size \in Nat /\ job[r].unusable \in Nat
    BY <2>1 DEF Job
  <2>3. tally[r]["added"] \in Nat /\ tally[r]["existing"] \in Nat /\ tally[r]["failed"] \in Nat
    BY DEF TypeLocals, Outcomes
  <2>4. tally'[r]["added"] + tally'[r]["existing"] + tally'[r]["failed"]
        = tally[r]["added"] + tally[r]["existing"] + tally[r]["failed"] + 1
    <3>1. /\ tally'[r]["added"] = tally[r]["added"] + (IF o = "added" THEN 1 ELSE 0)
          /\ tally'[r]["existing"] = tally[r]["existing"] + (IF o = "existing" THEN 1 ELSE 0)
          /\ tally'[r]["failed"] = tally[r]["failed"] + (IF o = "failed" THEN 1 ELSE 0)
      BY <1>1, <2>3 DEF TypeLocals, Outcomes
    <3> QED
      BY <2>3, <3>1, SMTT(60) DEF Outcomes
  <2>5. tally[r]["added"] + tally[r]["existing"] + tally[r]["failed"]
            + 1 + Len(rest[r]) + job[r].unusable = job[r].size
    BY <1>1, <1>4 DEF Accounts
  <2>6. rest[r] \in Seq(ImportRow)
    BY DEF TypeLocals
  <2>7. CASE rest[r] # <<>>
    <3>1. /\ Len(Tail(rest[r])) + 1 = Len(rest[r])
          /\ Len(Tail(rest[r])) \in Nat /\ Len(rest[r]) \in Nat
      BY <2>6, <2>7
    <3>2. pc'[r] = "create" /\ Len(rest'[r]) = Len(Tail(rest[r])) /\ job'[r] = job[r]
      BY <1>1, <2>7
    <3>3. tally'[r]["added"] + tally'[r]["existing"] + tally'[r]["failed"] \in Nat
      BY <2>3, <2>4
    <3> QED
      BY <2>2, <2>3, <2>4, <2>5, <3>1, <3>2, <3>3
  <2>8. CASE rest[r] = <<>>
    <3>1. Len(rest[r]) = 0
      BY <2>8
    <3> QED
      BY <1>1, <2>2, <2>3, <2>4, <2>5, <2>8, <3>1
  <2> QED
    BY <2>7, <2>8
<1> QED
  BY <1>1, <1>3, <1>4 DEF Accounts

LEMMA ServeAccounts ==
  ASSUME TypeLocals, NEW r \in Requests, Holding(r), Accounts(r), Serve(r)
  PROVE  Accounts(r)'
<1>1. ASSUME \/ \E e \in EntryIds : InsertEntry(r, e) \/ FetchEntry(r, e) \/ InsertEntryLost(r, e)
             \/ EntryVanished(r) \/ NoProfile(r) \/ Unstorable(r) \/ SaveFault(r)
             \/ \E b \in BookIds : InsertBookLost(r, b)
      PROVE  Accounts(r)'
  <2>1. \E from \in {"create", "getbook", "link", "getentry"}, o \in Outcomes,
           e \in EntryIds \cup {None} : RowDone(r, from, o, e)
    BY <1>1 DEF InsertEntry, FetchEntry, InsertEntryLost, EntryVanished, NoProfile, Unstorable,
         SaveFault, InsertBookLost, Outcomes
  <2> QED
    BY <2>1, RowAccounts
<1>2. ASSUME NEW b \in BookIds, InsertBook(r, b) \/ FetchBook(r, b)
      PROVE  Accounts(r)'
  <2>1. /\ pc[r] \in {"create", "getbook", "link"} /\ pc'[r] \in {"getbook", "link", "getentry"}
        /\ job' = job /\ tally' = tally /\ ans' = ans /\ rest' = rest
    BY <1>2 DEF InsertBook, FetchBook, BookExists, EntryExists, Goto, TypeLocals
  <2> QED
    BY <2>1 DEF Accounts
<1>3. ASSUME BookExists(r) \/ EntryExists(r)
      PROVE  Accounts(r)'
  <2>1. /\ pc[r] \in {"create", "getbook", "link"} /\ pc'[r] \in {"getbook", "link", "getentry"}
        /\ job' = job /\ tally' = tally /\ ans' = ans /\ rest' = rest
    BY <1>3 DEF BookExists, EntryExists, Goto, TypeLocals
  <2> QED
    BY <2>1 DEF Accounts
<1>4. ASSUME \/ \E b \in BookIds : OwnedBookFound(r, b)
             \/ \E e \in EntryIds : OwnedEntryFound(r, e)
             \/ OwnedBookMissing(r) \/ OwnedEntryMissing(r)
             \/ \E m \in Metas : ResolveHit(r, m)
             \/ ResolveMiss(r)
             \/ CheckFails(r) \/ UpdateRead(r) \/ UpdateWrite(r) \/ UpdateFails(r)
             \/ DeleteRead(r) \/ DeleteWrite(r) \/ DeleteFails(r)
      PROVE  Accounts(r)'
  <2>1. /\ pc[r] \in {"owned_book", "owned_entry", "resolve",
                      "upd_read", "upd_write", "del_read", "del_write"}
        /\ pc'[r] # "idle" /\ job' = job
        /\ ans'[r] = ans[r] \/ ans'[r] \in {"existing", "preview", "miss", "notfound", "invalid",
                                            "saved", "failed", "removed"}
    BY <1>4 DEF OwnedBookFound, OwnedEntryFound, OwnedBookMissing, OwnedEntryMissing, ResolveHit,
         ResolveMiss, CheckFails, UpdateRead, UpdateWrite, UpdateFails, DeleteRead,
         DeleteWrite, DeleteFails, Goto, Answer, TypeLocals
  <2>2. ans[r] = None
    BY <2>1 DEF Holding
  <2>3. job[r].op # "import"
    BY <2>1 DEF Accounts
  <2> QED
    BY <2>1, <2>2, <2>3, NoneAssumption DEF Accounts, Answers
<1> QED
  BY <1>1, <1>2, <1>3, <1>4 DEF Serve

\* The numbers of import-result account for every data row, whatever saves fail.
THEOREM EveryRowCounted == Spec => []ImportAccountsForEveryRow
<1> DEFINE AllAccounts == \A r \in Requests : Accounts(r)
<1>1. IInv /\ AllAccounts /\ [Next]_vars => AllAccounts'
  <2> SUFFICES ASSUME IInv, AllAccounts, [Next]_vars, NEW r \in Requests
               PROVE  Accounts(r)'
    OBVIOUS
  <2>1. TypeLocals /\ Holding(r)
    BY Parts DEF ReqOK
  <2>2. CASE Still(r)
    BY <2>2 DEF Still, Accounts
  <2> QED
    BY <2>1, <2>2, OneMoves, ArriveAccounts, ServeAccounts
<1>2. Init => AllAccounts
  BY AccountsInit
<1>3. IInv /\ AllAccounts => ImportAccountsForEveryRow
  BY AccountsSuffice DEF IInv
<1> HIDE DEF AllAccounts
<1> QED
  BY <1>1, <1>2, <1>3, InvariantHolds, PTL DEF Spec

-----------------------------------------------------------------------------
(* Why a save or an edit may fail *)

\* The copy a save ran into, or an edit has read, is there, or its owner has
\* removed it since.
Excused(r) ==
    pc[r] \in {"getentry", "upd_write"} =>
        /\ met[r] \in used
        /\ pc[r] = "upd_write" => met[r] = entry[r]
        /\ \/ RemovedMeanwhile(r)
           \/ /\ entries[met[r]] # None /\ entries[met[r]].user = job[r].user
              /\ pc[r] = "getentry" => entries[met[r]].book = book[r]

\* A removal that was answered stays one.
LEMMA RemovedStands ==
  ASSUME IInv, [Next]_vars, NEW r \in Requests, pc[r] # "idle", met[r] \in used,
         met'[r] = met[r], RemovedMeanwhile(r)
  PROVE  RemovedMeanwhile(r)'
<1>1. TypeLocals
  BY Parts
<1>2. PICK q \in Requests :
        /\ job[q] # None /\ job[q].op = "delete" /\ job[q].user = job[r].user
        /\ entry[q] = met[r]
        /\ ans[q] = "removed" \/ (q \in Faulty /\ ans[q] = "failed")
  BY DEF RemovedMeanwhile
<1>3. pc[q] = "done"
  BY <1>2, Parts, NoneAssumption DEF ReqOK, Holding, Answers, Outcomes
<1>4. Still(q) /\ job'[r] = job[r]
  BY <1>1, <1>3, JobsStand
<1>5. entries'[met[r]] = None /\ met[r] # None
  BY NoneStays DEF RemovedMeanwhile
<1> QED
  BY <1>2, <1>4, <1>5 DEF Still, RemovedMeanwhile

\* A copy r has met stays, for the same user and book, or r has an excuse.
LEMMA CopyStays ==
  ASSUME IInv, [Next]_vars, NEW r \in Requests, job'[r] = job[r], met'[r] = met[r],
         met[r] \in EntryIds, entries[met[r]] # None, entries[met[r]].user = job[r].user
  PROVE  \/ /\ entries'[met[r]] # None /\ entries'[met[r]].user = entries[met[r]].user
            /\ entries'[met[r]].book = entries[met[r]].book
         \/ RemovedMeanwhile(r)'
<1> DEFINE e == met[r]
<1>1. CASE entries'[e] = entries[e]
  BY <1>1
<1>2. ASSUME entries'[e] # entries[e]
      PROVE  \/ /\ entries'[e] # None /\ entries'[e].user = entries[e].user
                /\ entries'[e].book = entries[e].book
             \/ RemovedMeanwhile(r)'
  <2>1. PICK q \in Requests :
            /\ OwnersRequest(q, e)
            /\ \/ DeleteWrite(q)
               \/ /\ entries'[e] # None /\ entries'[e].user = entries[e].user
                  /\ entries'[e].book = entries[e].book
    BY <1>2, OwnersStep
  <2>2. ASSUME DeleteWrite(q)
        PROVE  RemovedMeanwhile(r)'
    <3>1. /\ TypeLocals /\ TypeStore /\ Holding(q)
      BY Parts DEF ReqOK, StoreOK
    <3>2. /\ pc[q] = "del_write" /\ job' = job /\ entry' = entry
          /\ ans'[q] = "removed" \/ (q \in Faulty /\ ans'[q] = "failed")
      BY <2>2, <3>1 DEF DeleteWrite, Answer, Goto, TypeLocals
    <3>3. /\ job[q] # None /\ job[q].op = "delete" /\ job[q].user = job[r].user
          /\ entry[q] = e
      BY <2>1, <3>1, <3>2 DEF Holding, OwnersRequest
    <3>4. entries'[e] = None
      BY <2>2, <3>1, <3>3 DEF DeleteWrite, DropEntry, TypeStore
    <3>5. e # None
      BY NoneAssumption
    <3> QED
      BY <3>2, <3>3, <3>4, <3>5 DEF RemovedMeanwhile
  <2> QED
    BY <2>1, <2>2
<1> QED
  BY <1>1, <1>2

LEMMA ExcusedInit == Init => \A r \in Requests : Excused(r)
  BY DEF Init, Excused

\* r has something in hand only after it saw that it was there; from then on,
\* its owner may remove it.
LEMMA ExcusedNext ==
  ASSUME IInv, [Next]_vars, NEW r \in Requests, Excused(r)
  PROVE  Excused(r)'
<1>1. TypeLocals /\ TypeStore /\ NoDangling /\ Holding(r)
  BY Parts DEF ReqOK, StoreOK
<1>2. ASSUME Still(r), pc[r] \in {"getentry", "upd_write"}
      PROVE  Excused(r)'
  <2>1. /\ met[r] \in used /\ met[r] \in EntryIds
        /\ pc[r] = "upd_write" => met[r] = entry[r]
    BY <1>1, <1>2 DEF Excused, TypeStore
  <2>2. met'[r] \in used' /\ (pc'[r] = "upd_write" => met'[r] = entry'[r])
    <3>1. used \subseteq used'
      BY <1>1, Effects DEF AddEntry, UpdateWrite, DeleteWrite
    <3> QED
      BY <1>2, <2>1, <3>1 DEF Still
  <2>3. CASE RemovedMeanwhile(r)
    <3>1. RemovedMeanwhile(r)'
      BY <1>2, <2>1, <2>3, RemovedStands DEF Still
    <3> QED
      BY <2>2, <3>1 DEF Excused
  <2>4. CASE ~RemovedMeanwhile(r)
    <3>1. /\ entries[met[r]] # None /\ entries[met[r]].user = job[r].user
          /\ pc[r] = "getentry" => entries[met[r]].book = book[r]
      BY <1>2, <2>4 DEF Excused
    <3>2. \/ /\ entries'[met[r]] # None /\ entries'[met[r]].user = entries[met[r]].user
             /\ entries'[met[r]].book = entries[met[r]].book
          \/ RemovedMeanwhile(r)'
      BY <1>2, <2>1, <3>1, CopyStays DEF Still
    <3> QED
      BY <1>2, <2>2, <3>1, <3>2 DEF Excused, Still
  <2> QED
    BY <2>3, <2>4
<1>3. CASE Still(r) /\ pc[r] \notin {"getentry", "upd_write"}
  BY <1>3 DEF Excused, Still
<1>4. CASE Arrive(r)
  BY <1>1, <1>4 DEF Arrive, Submit, RejectSubmit, Scan, Import, Update, Delete, Begin,
     Excused, TypeLocals
<1>5. CASE Serve(r)
  <2>1. ASSUME pc'[r] \in {"getentry", "upd_write"}
        PROVE  EntryExists(r) \/ UpdateRead(r)
    <3>1. ~(\E from, o, e : RowDone(r, from, o, e))
      BY <1>1, <2>1 DEF RowDone, TypeLocals
    <3>2. ~(\E b \in BookIds : InsertBook(r, b) \/ FetchBook(r, b)) /\ ~BookExists(r)
      BY <1>1, <2>1 DEF InsertBook, FetchBook, BookExists, Goto, TypeLocals
    <3>3. /\ ~(\E e \in EntryIds : InsertEntry(r, e) \/ FetchEntry(r, e) \/ InsertEntryLost(r, e))
          /\ ~(\E b \in BookIds : InsertBookLost(r, b))
          /\ ~EntryVanished(r) /\ ~NoProfile(r) /\ ~Unstorable(r) /\ ~SaveFault(r)
      BY <3>1 DEF InsertEntry, FetchEntry, InsertEntryLost, InsertBookLost, EntryVanished,
         NoProfile, Unstorable, SaveFault
    <3>4. /\ ~(\E b \in BookIds : OwnedBookFound(r, b)) /\ ~OwnedBookMissing(r)
          /\ ~(\E e \in EntryIds : OwnedEntryFound(r, e)) /\ ~OwnedEntryMissing(r)
          /\ ~(\E m \in Metas : ResolveHit(r, m)) /\ ~ResolveMiss(r)
      BY <1>1, <2>1 DEF OwnedBookFound, OwnedBookMissing, OwnedEntryFound, OwnedEntryMissing,
         ResolveHit, ResolveMiss, Answer, Goto, TypeLocals
    <3>5. /\ ~CheckFails(r) /\ ~UpdateWrite(r) /\ ~UpdateFails(r)
          /\ ~DeleteRead(r) /\ ~DeleteWrite(r) /\ ~DeleteFails(r)
      BY <1>1, <2>1 DEF CheckFails, UpdateWrite, UpdateFails, DeleteRead, DeleteWrite,
         DeleteFails, Answer, Goto, TypeLocals
    <3> QED
      BY <1>5, <3>2, <3>3, <3>4, <3>5 DEF Serve
  <2>2. CASE EntryExists(r)
    <3>1. /\ pc'[r] = "getentry" /\ job' = job /\ book' = book
          /\ entries' = entries /\ used' = used
      BY <1>1, <2>2 DEF EntryExists, Goto, store, TypeLocals
    <3>2. PICK e \in EntryIds : IsCopy(e, job[r].user, book[r]) /\ met'[r] = e
      BY <1>1, <2>2 DEF EntryExists, TypeLocals
    <3>3. e \in used
      BY <1>1, <3>2 DEF NoDangling, IsCopy
    <3> QED
      BY <3>1, <3>2, <3>3 DEF Excused, IsCopy
  <2>3. CASE UpdateRead(r)
    <3>1. /\ pc'[r] # "getentry" /\ entry' = entry /\ entries' = entries
          /\ used' = used /\ job' = job /\ met'[r] = entry[r]
          /\ Owns(r, entry[r]) /\ pc[r] = "upd_read"
      BY <1>1, <2>3 DEF UpdateRead, Answer, Goto, store, TypeLocals
    <3>2. entry[r] \in used
      BY <1>1, <3>1 DEF Holding
    <3> QED
      BY <3>1, <3>2 DEF Excused, Owns
  <2> QED
    BY <2>1, <2>2, <2>3 DEF Excused
<1> QED
  BY <1>1, <1>2, <1>3, <1>4, <1>5, OneMoves

\* The failing steps of a request whose own statements succeed.
LEMMA FailSteps ==
  ASSUME IInv, [Next]_vars, NEW r \in Requests \ Faulty, Fails(r)
  PROVE  \/ EntryVanished(r) \/ NoProfile(r) \/ Unstorable(r)
         \/ /\ pc[r] = "upd_write"
            /\ job[r].details \in Refused \/ entries[entry[r]] = None
<1>1. TypeLocals
  BY Parts
<1>2. ~Still(r)
  BY DEF Fails, Still
<1>3. ~Arrive(r)
  BY <1>1 DEF Arrive, Submit, RejectSubmit, Scan, Import, Update, Delete, Begin, Fails, TypeLocals
<1>4. Serve(r)
  BY <1>1, <1>2, <1>3, OneMoves
<1>5. ASSUME NEW from, NEW o, NEW e, RowDone(r, from, o, e), o \in {"added", "existing"}
      PROVE  FALSE
  BY <1>1, <1>5 DEF RowDone, Count, Fails, TypeLocals, Outcomes
<1>6. /\ ~(\E e \in EntryIds : InsertEntry(r, e) \/ FetchEntry(r, e))
      /\ ~(\E e \in EntryIds : InsertEntryLost(r, e)) /\ ~SaveFault(r)
      /\ ~(\E b \in BookIds : InsertBookLost(r, b))
  BY <1>5 DEF InsertEntry, FetchEntry, InsertEntryLost, SaveFault, InsertBookLost
<1>7. /\ ~(\E b \in BookIds : OwnedBookFound(r, b) \/ InsertBook(r, b) \/ FetchBook(r, b))
      /\ ~(\E e \in EntryIds : OwnedEntryFound(r, e))
      /\ ~OwnedBookMissing(r) /\ ~OwnedEntryMissing(r)
      /\ ~(\E m \in Metas : ResolveHit(r, m)) /\ ~ResolveMiss(r)
      /\ ~BookExists(r) /\ ~EntryExists(r)
  BY <1>1 DEF OwnedBookFound, InsertBook, FetchBook, OwnedEntryFound, OwnedBookMissing,
     OwnedEntryMissing, ResolveHit, ResolveMiss, BookExists, EntryExists, Answer, Count, Fails,
     TypeLocals, Outcomes
<1>8. /\ ~CheckFails(r) /\ ~UpdateRead(r) /\ ~UpdateWrite(r)
      /\ ~DeleteRead(r) /\ ~DeleteWrite(r) /\ ~DeleteFails(r)
  BY <1>1 DEF CheckFails, UpdateRead, UpdateWrite, DeleteRead, DeleteWrite, DeleteFails,
     Answer, Goto, Fails, TypeLocals
<1>9. UpdateFails(r) =>
         /\ pc[r] = "upd_write"
         /\ job[r].details \in Refused \/ entries[entry[r]] = None
  BY DEF UpdateFails, Answer, Goto
<1> QED
  BY <1>4, <1>6, <1>7, <1>8, <1>9 DEF Serve

\* What fails in other requests, and what they leave half done, makes no save
\* and no edit fail whose own statements succeed: a book row without a copy, a
\* lost race for a row, a lost reply are all recovered from.  Nor does what was
\* removed at another time, or of another book.
THEOREM FailuresExplained == Spec => FailureHasACause
<1> DEFINE AllExcused == \A r \in Requests : Excused(r)
           Explained == \A r \in Requests \ Faulty :
                           Fails(r) =>
                               \/ RemovedMeanwhile(r)
                               \/ GivenRefused(r)
                               \/ job[r].user \notin profiles
<1>1. IInv /\ AllExcused /\ [Next]_vars => AllExcused'
  BY ExcusedNext
<1>2. Init => AllExcused
  BY ExcusedInit
<1>3. ASSUME IInv, AllExcused, [Next]_vars PROVE Explained
  <2> SUFFICES ASSUME NEW r \in Requests \ Faulty, Fails(r)
               PROVE  \/ RemovedMeanwhile(r)
                      \/ GivenRefused(r)
                      \/ job[r].user \notin profiles
    OBVIOUS
  <2>1. Holding(r) /\ Excused(r) /\ TypeStore
    BY <1>3, Parts DEF ReqOK, StoreOK
  <2>2. CASE EntryVanished(r)
    <3>1. pc[r] = "getentry" /\ ~Linked(job[r].user, book[r])
      BY <2>2 DEF EntryVanished, RowDone
    <3>2. met[r] \in EntryIds
      BY <2>1, <3>1 DEF Excused, TypeStore
    <3>3. CASE ~RemovedMeanwhile(r)
      <4>1. IsCopy(met[r], job[r].user, book[r])
        BY <2>1, <3>1, <3>3 DEF Excused, IsCopy
      <4> QED
        BY <3>1, <3>2, <4>1 DEF Linked
    <3> QED
      BY <3>3
  <2>3. CASE NoProfile(r)
    BY <2>3 DEF NoProfile
  <2>4. CASE Unstorable(r)
    BY <2>1, <2>4 DEF Unstorable, RowDone, Holding, GivenRefused
  <2>5. CASE pc[r] = "upd_write" /\ job[r].details \in Refused
    BY <2>1, <2>5 DEF Holding, GivenRefused
  <2>6. CASE pc[r] = "upd_write" /\ entries[entry[r]] = None
    BY <2>6, <2>1 DEF Excused
  <2> QED
    BY <1>3, <2>2, <2>3, <2>4, <2>5, <2>6, FailSteps
<1>4. IInv /\ AllExcused /\ [Next]_vars => [Explained]_vars
  BY <1>3
<1>5. Spec => []AllExcused
  <2> HIDE DEF AllExcused
  <2> QED
    BY <1>1, <1>2, InvariantHolds, PTL DEF Spec
<1> HIDE DEF AllExcused
<1> QED
  BY <1>4, <1>5, InvariantHolds, PTL DEF Spec, FailureHasACause

-----------------------------------------------------------------------------
(***************************************************************************)
(* Shelf implements AbstractShelf: every statement is a step of the        *)
(* abstract shelf or a stutter of it.  The mapping is that of Shelf: the   *)
(* copy an entry stands for has the isbn of its books row, a request's     *)
(* wish is the row it is saving.                                           *)
(***************************************************************************)
shelf == [e \in EntryIds |-> CopyOf(e)]
want  == [r \in Requests |-> Wanted(r)]

Simulated == [Abstract!Next]_(Abstract!vars)

\* The copies that are there are copies, the wishes wishes.
LEMMA Mapped ==
  ASSUME IInv
  PROVE  /\ \A e \in EntryIds : entries[e] # None =>
               /\ entries[e].book \in BookIds
               /\ books[entries[e].book] # None
               /\ CopyOf(e) \in Copy /\ CopyOf(e) # None
         /\ \A r \in Requests : row[r] # None =>
               /\ job[r] # None
               /\ row[r].isbn \in Isbns
               /\ Wanted(r) \in Wish /\ Wanted(r) # None
<1>1. ASSUME NEW e \in EntryIds, entries[e] # None
      PROVE  /\ entries[e].book \in BookIds
             /\ books[entries[e].book] # None
             /\ CopyOf(e) \in Copy /\ CopyOf(e) # None
  <2>1. entries[e] \in Entry
    BY <1>1 DEF IInv, TypeOK
  <2>2. entries[e].book \in BookIds /\ books[entries[e].book] # None
    BY <1>1, <2>1 DEF IInv, NoDangling, Entry
  <2>3. books[entries[e].book] \in Book
    BY <2>2 DEF IInv, TypeOK
  <2>4. CopyOf(e) \in Copy
    BY <1>1, <2>1, <2>3 DEF CopyOf, Copy, Entry, Book
  <2> QED
    BY <2>2, <2>4, NoneAssumption
<1>2. ASSUME NEW r \in Requests, row[r] # None
      PROVE  /\ job[r] # None
             /\ row[r].isbn \in Isbns
             /\ Wanted(r) \in Wish /\ Wanted(r) # None
  <2>1. job[r] # None
    BY <1>2, Parts DEF ReqOK, Holding
  <2>2. row[r] \in Row /\ job[r] \in Job
    BY <1>2, <2>1 DEF IInv, TypeOK
  <2>3. Wanted(r) \in Wish
    BY <1>2, <2>2 DEF Wanted, Wish, Row, Job
  <2> QED
    BY <2>1, <2>2, <2>3, NoneAssumption DEF Row
<1> QED
  BY <1>1, <1>2

-----------------------------------------------------------------------------
(* The tables *)

\* New books rows change nobody's shelf.
LEMMA ShelfKept ==
  ASSUME IInv, entries' = entries,
         \A b \in BookIds : books[b] # None => books'[b] = books[b]
  PROVE  shelf' = shelf
<1>1. ASSUME NEW e \in EntryIds PROVE CopyOf(e)' = CopyOf(e)
  BY Mapped DEF CopyOf
<1> QED
  BY <1>1 DEF shelf

LEMMA ShelfAdded ==
  ASSUME IInv, NEW e \in EntryIds, NEW u \in Users, NEW b \in BookIds, NEW d \in Details,
         AddEntry(e, u, b, d), books' = books
  PROVE  shelf' = [shelf EXCEPT ![e] = [user |-> u, isbn |-> books[b].isbn, details |-> d]]
<1> DEFINE new == [user |-> u, book |-> b, details |-> d]
<1>1. new \in Entry /\ new # None
  BY NoneAssumption DEF Entry
<1>2. /\ entries' = [entries EXCEPT ![e] = new]
      /\ entries \in [EntryIds -> Entry \cup {None}]
  BY DEF AddEntry, IInv, TypeOK
<1>3. ASSUME NEW f \in EntryIds
      PROVE  CopyOf(f)' = IF f = e THEN [user |-> u, isbn |-> books[b].isbn, details |-> d]
                          ELSE CopyOf(f)
  BY <1>1, <1>2 DEF CopyOf
<1> QED
  BY <1>3 DEF shelf

LEMMA ShelfEdited ==
  ASSUME IInv, NEW e \in EntryIds, entries[e] # None, NEW d \in Details,
         EditEntry(e, d), books' = books
  PROVE  shelf' = [shelf EXCEPT ![e].details = d]
<1> DEFINE new == [entries[e] EXCEPT !.details = d]
<1>1. entries \in [EntryIds -> Entry \cup {None}] /\ entries[e] \in Entry
  BY DEF IInv, TypeOK
<1>2. /\ new \in Entry /\ new # None
      /\ new.user = entries[e].user /\ new.book = entries[e].book /\ new.details = d
  BY <1>1, NoneAssumption DEF Entry
<1>3. entries' = [entries EXCEPT ![e] = new]
  BY <1>1 DEF EditEntry
<1>4. ASSUME NEW f \in EntryIds
      PROVE  CopyOf(f)' = IF f = e THEN [CopyOf(e) EXCEPT !.details = d] ELSE CopyOf(f)
  BY <1>1, <1>2, <1>3 DEF CopyOf
<1> QED
  BY <1>4 DEF shelf

LEMMA ShelfRemoved ==
  ASSUME IInv, NEW e \in EntryIds, DropEntry(e), books' = books
  PROVE  shelf' = [shelf EXCEPT ![e] = None]
<1>1. entries' = [entries EXCEPT ![e] = None] /\ entries \in [EntryIds -> Entry \cup {None}]
  BY DEF DropEntry, IInv, TypeOK
<1>2. ASSUME NEW f \in EntryIds
      PROVE  CopyOf(f)' = IF f = e THEN None ELSE CopyOf(f)
  BY <1>1 DEF CopyOf
<1> QED
  BY <1>2 DEF shelf

\* UNIQUE (isbn) makes a row's entries the copies of its ISBN.
LEMMA HasIsLinked ==
  ASSUME IInv, NEW u, NEW i \in Isbns, NEW b \in BookIds, HasIsbn(b, i)
  PROVE  Abstract!Has(u, i) <=> Linked(u, b)
<1>1. ASSUME NEW e \in EntryIds
      PROVE  CopyOf(e) # None /\ CopyOf(e).user = u /\ CopyOf(e).isbn = i
                <=> IsCopy(e, u, b)
  <2>1. CASE entries[e] = None
    BY <2>1 DEF CopyOf, IsCopy
  <2>2. CASE entries[e] # None
    <3>1. /\ entries[e].book \in BookIds
          /\ books[entries[e].book] # None
          /\ CopyOf(e) # None
      BY <2>2, Mapped
    <3>2. CopyOf(e).user = entries[e].user /\ CopyOf(e).isbn = books[entries[e].book].isbn
      BY <2>2 DEF CopyOf
    <3>3. books[entries[e].book].isbn = i <=> entries[e].book = b
      BY <3>1 DEF IInv, BooksUnique, HasIsbn
    <3> QED
      BY <2>2, <3>1, <3>2, <3>3 DEF IsCopy
  <2> QED
    BY <2>1, <2>2
<1> QED
  BY <1>1 DEF Abstract!Has, Linked

-----------------------------------------------------------------------------
(* The requests *)

LEMMA WantKept ==
  ASSUME job' = job, row' = row
  PROVE  want' = want
BY DEF want, Wanted

\* saveBook's return is the abstract answer; an import goes on with the next
\* ISBN in the same step.
LEMMA Settled ==
  ASSUME IInv, IInv', NEW r \in Requests,
         NEW from \in {"create", "getbook", "link", "getentry"}, NEW o, NEW e,
         RowDone(r, from, o, e)
  PROVE  Abstract!Settle(r, o)
<1>1. row[r] # None /\ Wanted(r) # None
  BY Parts, Mapped DEF RowDone, ReqOK, Holding
<1>2. job' = job /\ tally' = [tally EXCEPT ![r][o] = @ + 1]
  BY DEF RowDone, Count
<1>3. CASE rest[r] = <<>>
  <2>1. want' = want
    BY <1>2, <1>3, WantKept DEF RowDone
  <2> QED
    BY <1>1, <1>2, <2>1 DEF Abstract!Settle, want
<1>4. CASE rest[r] # <<>>
  <2>1. /\ row' = [row EXCEPT ![r] = Head(rest[r])]
        /\ row \in [Requests -> Row \cup {None}]
        /\ pc'[r] = "create"
    BY <1>4 DEF RowDone, IInv, TypeOK
  <2>2. row'[r] # None
    BY <2>1, PartsPrime DEF ReqOK, Holding
  <2>3. row'[r].isbn \in Isbns
    BY <2>2 DEF IInv, TypeOK, Row
  <2>4. Wanted(r)' = [Wanted(r) EXCEPT !.isbn = row'[r].isbn]
    BY <1>1, <1>2, <2>2 DEF Wanted
  <2>5. \A q \in Requests \ {r} : Wanted(q)' = Wanted(q)
    BY <1>2, <2>1 DEF Wanted
  <2>6. want' = [want EXCEPT ![r].isbn = row'[r].isbn]
    BY <2>4, <2>5 DEF want
  <2> QED
    BY <1>1, <1>2, <2>3, <2>6 DEF Abstract!Settle, want
<1> QED
  BY <1>3, <1>4

-----------------------------------------------------------------------------
(* The steps *)

\* A step of which the abstract shelf sees nothing.
LEMMA Unseen ==
  ASSUME IInv, entries' = entries, used' = used, tally' = tally, want' = want,
         \A b \in BookIds : books[b] # None => books'[b] = books[b]
  PROVE  Simulated
BY ShelfKept DEF Simulated, Abstract!vars, shelf, want

LEMMA ArriveSimulated ==
  ASSUME IInv, IInv', NEW r \in Requests, Arrive(r)
  PROVE  Simulated
<1>1. PICK label, j, rows, e : Begin(r, label, j, rows, e)
  BY DEF Arrive, Submit, RejectSubmit, Scan, Import, Update, Delete
<1>2. UNCHANGED store /\ tally' = tally /\ pc[r] = "idle"
  BY <1>1 DEF Begin
<1>3. row[r] = None /\ Wanted(r) = None
  BY <1>2, Parts DEF ReqOK, Holding, Wanted
<1>4. ASSUME NEW q \in Requests \ {r} PROVE Wanted(q)' = Wanted(q)
  BY <1>1 DEF Begin, Wanted
<1>5. CASE row'[r] = None
  <2>1. want' = want
    BY <1>3, <1>4, <1>5 DEF want, Wanted
  <2> QED
    BY <1>2, <2>1, Unseen DEF store
<1>6. CASE row'[r] # None
  <2>1. shelf' = shelf
    BY <1>2, ShelfKept DEF store
  <2>2. Wanted(r)' \in Wish
    <3>1. pc'[r] # "idle"
      BY <1>6, PartsPrime DEF ReqOK, Holding
    <3>2. job'[r] # None
      BY <3>1, PartsPrime DEF ReqOK, Holding
    <3>3. row'[r] \in Row /\ job'[r] \in Job
      BY <1>6, <3>2 DEF IInv, TypeOK
    <3> QED
      BY <1>6, <3>3 DEF Wanted, Wish, Row, Job
  <2>3. want' = [want EXCEPT ![r] = Wanted(r)']
    BY <1>4 DEF want
  <2>4. PICK u \in Users, i \in Isbns : Wanted(r)' = [user |-> u, isbn |-> i]
    BY <2>2 DEF Wish
  <2>5. Abstract!Ask(r)
    BY <1>2, <1>3, <2>1, <2>3, <2>4 DEF Abstract!Ask, shelf, want, store
  <2> QED
    BY <2>5 DEF Simulated, Abstract!Next
<1> QED
  BY <1>5, <1>6

\* Statements that only read, and a books row inserted for a save that goes on.
LEMMA InternalSimulated ==
  ASSUME IInv, NEW r \in Requests,
         \/ \E b \in BookIds : OwnedBookFound(r, b) \/ InsertBook(r, b) \/ FetchBook(r, b)
         \/ \E m \in Metas : ResolveHit(r, m)
         \/ OwnedBookMissing(r) \/ OwnedEntryMissing(r) \/ ResolveMiss(r)
         \/ BookExists(r) \/ EntryExists(r)
         \/ CheckFails(r) \/ UpdateRead(r) \/ UpdateFails(r) \/ DeleteRead(r) \/ DeleteFails(r)
  PROVE  Simulated
<1>1. /\ UNCHANGED <<entries, used, tally, job>>
      /\ \/ row' = row
         \/ \E m \in Metas : pc[r] = "resolve" /\ row' = [row EXCEPT ![r].meta = m]
  BY DEF OwnedBookFound, InsertBook, FetchBook, ResolveHit, OwnedBookMissing,
     OwnedEntryMissing, ResolveMiss, BookExists, EntryExists, CheckFails, UpdateRead,
     UpdateFails, DeleteRead, DeleteFails, Goto, Answer, store
<1>2. want' = want
  <2>1. CASE row' = row
    BY <1>1, <2>1, WantKept
  <2>2. ASSUME NEW m \in Metas, pc[r] = "resolve", row' = [row EXCEPT ![r].meta = m]
        PROVE  want' = want
    <3>1. row[r] # None
      BY <2>2, Parts DEF ReqOK, Holding
    <3>2. row \in [Requests -> Row \cup {None}] /\ row[r] \in Row
      BY <3>1 DEF IInv, TypeOK
    <3>3. /\ [row[r] EXCEPT !.meta = m] \in Row
          /\ [row[r] EXCEPT !.meta = m].isbn = row[r].isbn
      BY <3>2 DEF Row
    <3>4. row'[r] # None /\ row'[r].isbn = row[r].isbn
      BY <2>2, <3>2, <3>3, NoneAssumption
    <3>5. ASSUME NEW q \in Requests PROVE Wanted(q)' = Wanted(q)
      BY <1>1, <2>2, <3>1, <3>2, <3>4 DEF Wanted
    <3> QED
      BY <3>5 DEF want
  <2> QED
    BY <1>1, <2>1, <2>2
<1>3. \A b \in BookIds : books[b] # None => books'[b] = books[b]
  <2>1. CASE \E b \in BookIds : InsertBook(r, b)
    BY <2>1 DEF InsertBook, AddBook, IInv, TypeOK
  <2>2. CASE ~\E b \in BookIds : InsertBook(r, b)
    BY <2>2 DEF OwnedBookFound, FetchBook, ResolveHit, OwnedBookMissing,
       OwnedEntryMissing, ResolveMiss, BookExists, EntryExists, CheckFails, UpdateRead,
       UpdateFails, DeleteRead, DeleteFails, store
  <2> QED
    BY <2>1, <2>2
<1> QED
  BY <1>1, <1>2, <1>3, Unseen

\* A new entry is an addition, whether or not its reply arrives.
LEMMA InsertEntrySimulated ==
  ASSUME IInv, IInv', NEW r \in Requests, NEW e \in EntryIds,
         InsertEntry(r, e) \/ InsertEntryLost(r, e)
  PROVE  Simulated
<1>1. /\ pc[r] = "link"
      /\ AddEntry(e, job[r].user, book[r], row[r].details)
      /\ books' = books
  BY DEF InsertEntry, InsertEntryLost, RowDone
<1>2. row[r] # None /\ job[r] # None /\ book[r] # None /\ HasIsbn(book[r], row[r].isbn)
  BY <1>1, Parts DEF ReqOK, Holding
<1>3. row[r] \in Row /\ job[r] \in Job /\ book[r] \in BookIds
  BY <1>2 DEF IInv, TypeOK
<1>4. row[r].details \in Details /\ row[r].isbn \in Isbns /\ job[r].user \in Users
  BY <1>3 DEF Row, Job
<1>5. shelf' = [shelf EXCEPT ![e] = [user |-> job[r].user, isbn |-> books[book[r]].isbn,
                                     details |-> row[r].details]]
  BY <1>1, <1>3, <1>4, ShelfAdded
<1>6. books[book[r]].isbn = row[r].isbn /\ ~Abstract!Has(job[r].user, row[r].isbn)
  BY <1>1, <1>2, <1>3, <1>4, HasIsLinked DEF HasIsbn, AddEntry
<1>7. want[r].user = job[r].user /\ want[r].isbn = row[r].isbn
  BY <1>2 DEF want, Wanted
<1>8. Abstract!Settle(r, "added") \/ (r \in Faulty /\ Abstract!Settle(r, "failed"))
  BY Settled DEF InsertEntry, InsertEntryLost
<1>9. Abstract!Add(r, e, row[r].details)
  BY <1>1, <1>5, <1>6, <1>7, <1>8 DEF Abstract!Add, AddEntry, shelf, want
<1> QED
  BY <1>4, <1>9 DEF Simulated, Abstract!Next

\* "existing" is answered by a statement that finds the copy.
LEMMA FoundSimulated ==
  ASSUME IInv, IInv', NEW r \in Requests, NEW e \in EntryIds,
         OwnedEntryFound(r, e) \/ FetchEntry(r, e)
  PROVE  Simulated
<1>1. /\ pc[r] \in {"owned_entry", "getentry"}
      /\ IsCopy(e, job[r].user, book[r])
      /\ UNCHANGED store
  BY DEF OwnedEntryFound, FetchEntry, Answer, Goto, RowDone
<1>2. row[r] # None /\ book[r] # None /\ HasIsbn(book[r], row[r].isbn)
  BY <1>1, Parts DEF ReqOK, Holding
<1>3. book[r] \in BookIds /\ row[r].isbn \in Isbns
  BY <1>2, Mapped DEF IInv, TypeOK
<1>4. Abstract!Has(job[r].user, row[r].isbn)
  BY <1>1, <1>2, <1>3, HasIsLinked DEF Linked
<1>5. want[r].user = job[r].user /\ want[r].isbn = row[r].isbn
  BY <1>2 DEF want, Wanted
<1>6. shelf' = shelf
  BY <1>1, ShelfKept DEF store
<1>7. Abstract!Settle(r, "existing")
  <2>1. CASE FetchEntry(r, e)
    BY <2>1, Settled DEF FetchEntry
  <2>2. CASE OwnedEntryFound(r, e)
    <3>1. want' = want /\ tally' = [tally EXCEPT ![r]["existing"] = @ + 1]
      BY <2>2, WantKept DEF OwnedEntryFound, Count
    <3>2. Wanted(r) # None
      BY <1>2, Mapped
    <3> QED
      BY <3>1, <3>2 DEF Abstract!Settle, want
  <2> QED
    BY <2>1, <2>2
<1>8. Abstract!Already(r)
  BY <1>1, <1>4, <1>5, <1>6, <1>7 DEF Abstract!Already, shelf, want, store
<1> QED
  BY <1>8 DEF Simulated, Abstract!Next

\* A failed save may have left a books row, which is on nobody's shelf.
LEMMA FailSimulated ==
  ASSUME IInv, IInv', NEW r \in Requests,
         \/ \E b \in BookIds : InsertBookLost(r, b)
         \/ EntryVanished(r) \/ NoProfile(r) \/ Unstorable(r) \/ SaveFault(r)
  PROVE  Simulated
<1>1. PICK from \in {"create", "getbook", "link", "getentry"} :
         RowDone(r, from, "failed", None)
  BY DEF InsertBookLost, EntryVanished, NoProfile, Unstorable, SaveFault
<1>2. UNCHANGED <<entries, used>>
  BY DEF InsertBookLost, EntryVanished, NoProfile, Unstorable, SaveFault, store
<1>3. \A b \in BookIds : books[b] # None => books'[b] = books[b]
  <2>1. ASSUME NEW c \in BookIds, InsertBookLost(r, c)
        PROVE  \A b \in BookIds : books[b] # None => books'[b] = books[b]
    BY <2>1 DEF InsertBookLost, AddBook, IInv, TypeOK
  <2>2. CASE EntryVanished(r) \/ NoProfile(r) \/ Unstorable(r) \/ SaveFault(r)
    BY <2>2 DEF EntryVanished, NoProfile, Unstorable, SaveFault, store
  <2> QED
    BY <2>1, <2>2
<1>4. shelf' = shelf
  BY <1>2, <1>3, ShelfKept
<1>5. Abstract!Settle(r, "failed")
  BY <1>1, Settled
<1>6. Abstract!Fail(r)
  BY <1>2, <1>4, <1>5 DEF Abstract!Fail, shelf, want
<1> QED
  BY <1>6 DEF Simulated, Abstract!Next

LEMMA WriteSimulated ==
  ASSUME IInv, NEW r \in Requests, UpdateWrite(r) \/ DeleteWrite(r)
  PROVE  Simulated
<1>1. /\ pc[r] \in {"upd_write", "del_write"}
      /\ UNCHANGED <<books, used, tally, job, row>>
      /\ entries[entry[r]] # None
      /\ EditEntry(entry[r], job[r].details) \/ DropEntry(entry[r])
  BY DEF UpdateWrite, DeleteWrite, Answer, Goto
<1>2. entry[r] \in used /\ job[r] # None
  BY <1>1, Parts DEF ReqOK, Holding
<1>3. entry[r] \in EntryIds /\ job[r].details \in Details
  BY <1>2 DEF IInv, TypeOK, Job
<1>4. want' = want /\ CopyOf(entry[r]) # None
  BY <1>1, <1>3, WantKept, Mapped
<1>5. CASE EditEntry(entry[r], job[r].details)
  <2>1. shelf' = [shelf EXCEPT ![entry[r]].details = job[r].details]
    BY <1>1, <1>3, <1>5, ShelfEdited
  <2>2. Abstract!Edit(entry[r], job[r].details)
    BY <1>1, <1>3, <1>4, <2>1 DEF Abstract!Edit, shelf, want
  <2> QED
    BY <1>3, <2>2 DEF Simulated, Abstract!Next
<1>6. CASE DropEntry(entry[r])
  <2>1. shelf' = [shelf EXCEPT ![entry[r]] = None]
    BY <1>1, <1>3, <1>6, ShelfRemoved
  <2>2. Abstract!Remove(entry[r])
    BY <1>1, <1>3, <1>4, <2>1 DEF Abstract!Remove, shelf, want
  <2> QED
    BY <1>3, <2>2 DEF Simulated, Abstract!Next
<1> QED
  BY <1>1, <1>5, <1>6

-----------------------------------------------------------------------------
(* The theorem *)

LEMMA InitSimulated == Init => Abstract!Init
  BY DEF Init, Abstract!Init, CopyOf, Wanted, Outcomes, Abstract!Outcomes

LEMMA NextSimulated == IInv /\ IInv' /\ [Next]_vars => Simulated
<1> SUFFICES ASSUME IInv, IInv', [Next]_vars PROVE Simulated
  OBVIOUS
<1>1. ASSUME NEW u \in Users, Login(u) \/ LoginUnsynced(u) PROVE Simulated
  <2>1. UNCHANGED <<books, entries, used, job, row, tally>>
    BY <1>1 DEF Login, LoginUnsynced, locals
  <2> QED
    BY <2>1, WantKept, Unseen
<1>2. ASSUME NEW r \in Requests, Arrive(r) PROVE Simulated
  BY <1>2, ArriveSimulated
<1>3. ASSUME NEW r \in Requests, Serve(r) PROVE Simulated
  BY <1>3, InternalSimulated, InsertEntrySimulated, FoundSimulated, FailSimulated,
     WriteSimulated DEF Serve
<1>4. CASE Finished \/ UNCHANGED vars
  <2>1. UNCHANGED <<books, entries, used, job, row, tally>>
    BY <1>4 DEF Finished, vars
  <2> QED
    BY <2>1, WantKept, Unseen
<1> QED
  BY <1>1, <1>2, <1>3, <1>4 DEF Next

\* Whatever the interleaving of the statements, and whichever fail or lose
\* their replies, the users see a shelf on which every addition, edit and
\* removal happens at once, answered truthfully.
THEOREM Refines == Spec => ImplementsShelf
<1>1. IInv /\ IInv' /\ [Next]_vars => [Abstract!Next]_(Abstract!vars)
  BY NextSimulated DEF Simulated
<1> QED
  BY <1>1, InitSimulated, InvariantHolds, PTL DEF Spec, ImplementsShelf, Abstract!Spec
=============================================================================
