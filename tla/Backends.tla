------------------------------- MODULE Backends -------------------------------
(***************************************************************************)
(* newRepositories (main.go) gives the handlers either the PostgreSQL      *)
(* repositories or, without DATABASE_URL, the ones in memory; the tests of *)
(* the handlers use the latter.  Here the same requests go to both, one at *)
(* a time, and their answers and contents are compared.                    *)
(*                                                                         *)
(* A store holds the profile mirror (users), the books by ISBN, and the    *)
(* entries by owner and ISBN.  In memory the id of a book is its ISBN, and *)
(* no handler changes or deletes a books row, so the ISBN stands for the   *)
(* id in PostgreSQL as well.  Methods no handler calls are left out.       *)
(* Interleavings are the subject of Shelf; the methods in memory hold a    *)
(* mutex from beginning to end.                                            *)
(***************************************************************************)
EXTENDS Naturals

CONSTANTS
    Ids,         \* Supabase user ids; one is never issued twice
    Emails,
    Isbns,
    Seeds,       \* ISBNs of SeedBooks, which the memory starts with
    Works,       \* bibliographic data books are saved with
    SeedWork,    \* ... of a seed book
    Details,     \* (status, notes, location) bookUpdate and the import accept
    Default,     \* ("unread", "", "")
    Unset,       \* no details
    Refused,     \* works with a number beyond int4 or a source that
                 \* books_source_check does not know
    Garbled,     \* works and details with a NUL in a text, or with bytes that
                 \* are no UTF-8
    Mended,      \* what is left of those without these characters
    None

ASSUME ConstantsAssumption ==
    /\ Seeds \subseteq Isbns
    /\ Refused \subseteq Works /\ Garbled \subseteq Works \cup Details
    /\ Default \in Details /\ Unset \notin Details \cup Refused \cup Garbled
    /\ None \notin Emails \cup Works \cup Details \cup {SeedWork, Unset, Mended}

VARIABLES
    account,    \* Supabase: the email of each account
    deleted,    \* ... the accounts that have been deleted
    sessions,   \* users who have logged in
    pg,         \* the tables
    mem,        \* the maps
    said        \* what each of the two made of the latest request

vars == <<account, deleted, sessions, pg, mem, said>>

Store ==
    [users   : [Ids -> Emails \cup {None}],
     books   : [Isbns -> Works \cup {Mended, SeedWork, None}],
     entries : [Ids -> [Isbns -> Details \cup {Mended, None}]]]

Answers == {"ok", "added", "existing", "saved", "removed", "notfound", "failed"}

TypeOK ==
    /\ account \in [Ids -> Emails \cup {None}]
    /\ deleted \subseteq Ids /\ sessions \subseteq Ids
    /\ pg \in Store /\ mem \in Store
    /\ said \in [pg : Answers, mem : Answers]

Empty(rows) ==
    [users   |-> [u \in Ids |-> None],
     books   |-> [i \in Isbns |-> IF i \in rows THEN SeedWork ELSE None],
     entries |-> [u \in Ids |-> [i \in Isbns |-> None]]]

Init ==
    /\ account = [u \in Ids |-> None]
    /\ deleted = {} /\ sessions = {}
    /\ pg = Empty({})
    /\ mem = Empty(Seeds)
    /\ said = [pg |-> "ok", mem |-> "ok"]

-----------------------------------------------------------------------------
(* Supabase, which has one account at most for an email *)

Free(m) == \A u \in Ids : account[u] # m

Register(u, m) ==
    /\ account[u] = None /\ u \notin deleted
    /\ Free(m)
    /\ account' = [account EXCEPT ![u] = m]
    /\ UNCHANGED <<deleted, sessions, pg, mem, said>>

ChangeEmail(u, m) ==
    /\ account[u] # None
    /\ Free(m)
    /\ account' = [account EXCEPT ![u] = m]
    /\ UNCHANGED <<deleted, sessions, pg, mem, said>>

DeleteAccount(u) ==
    /\ account[u] # None
    /\ account' = [account EXCEPT ![u] = None]
    /\ deleted' = deleted \cup {u}
    /\ UNCHANGED <<sessions, pg, mem, said>>

-----------------------------------------------------------------------------
(* A store's answer to a request, and the store after it *)

Said(a, t) == [answer |-> a, store |-> t]

\* A request goes to both.
Both(p, q) ==
    /\ pg' = p.store
    /\ mem' = q.store
    /\ said' = [pg |-> p.answer, mem |-> q.answer]
    /\ UNCHANGED <<account, deleted>>

\* users.email is UNIQUE.
HeldByOther(t, u, m) == \E v \in Ids \ {u} : t.users[v] = m

\* Mutant: ... ON CONFLICT (email) DO UPDATE, which gives the row the new id.
PgUpsert_ByEmail(u, m) ==
    LET holder(v) == IF v = u THEN m ELSE IF pg.users[v] = m THEN None ELSE pg.users[v]
    IN  Said("ok", [pg EXCEPT !.users = [v \in Ids |-> holder(v)]])

\* INSERT INTO users ... ON CONFLICT (id) DO UPDATE.
PgUpsert(u, m) ==
    IF HeldByOther(pg, u, m) THEN Said("failed", pg)
    ELSE Said("ok", [pg EXCEPT !.users[u] = m])

MemUpsert(u, m) == Said("ok", [mem EXCEPT !.users[u] = m])

\* loginSubmit: an error of the upsert is logged only.
Login(u) ==
    /\ account[u] # None
    /\ sessions' = sessions \cup {u}
    /\ Both(PgUpsert(u, account[u]), MemUpsert(u, account[u]))

\* books.Create, or the row there is.
WithBook(t, i, w) == [t EXCEPT !.books[i] = IF @ = None THEN w ELSE @]

\* library.Create: an empty status becomes "unread".
Defaulted(d) == IF d = Unset THEN Default ELSE d

\* library.Create, or the entry there is.
WithEntry(t, u, i, d) ==
    IF t.entries[u][i] # None THEN Said("existing", t)
    ELSE Said("added", [t EXCEPT !.entries[u][i] = Defaulted(d)])

\* What reaches a table of a work or of details, None if the statement fails.
\* No handler looks at the bytes of a text or at the source a form names.
\* Whether bun sends a garbled text as it is, which PostgreSQL refuses, or
\* without the characters in question is up to bun.
Arrives(x) ==
    IF x \in Refused THEN {None}
    ELSE IF x \in Garbled THEN {Mended, None}
    ELSE {x}

\* saveBook in PostgreSQL: a work that is refused is the end of it; an entry
\* whose details are refused, or whose user has no profile (a foreign key),
\* fails after the book was stored.
PgSave(u, i, w, d) ==
    IF w = None THEN Said("failed", pg)
    ELSE IF d = None \/ pg.users[u] = None THEN Said("failed", WithBook(pg, i, w))
    ELSE WithEntry(WithBook(pg, i, w), u, i, d)

\* Mutant: library.Create in memory does not look for the pair.
MemSave_NoCheck(u, i, w, d) ==
    Said("added", [WithBook(mem, i, w) EXCEPT !.entries[u][i] = Defaulted(d)])

\* ... and in memory: nothing is refused.
MemSave(u, i, w, d) == WithEntry(WithBook(mem, i, w), u, i, d)

Save(u, i, w, d) ==
    /\ u \in sessions
    /\ \E v \in Arrives(w), e \in Arrives(d) :
          Both(PgSave(u, i, v, e), MemSave(u, i, w, d))
    /\ UNCHANGED sessions

\* bookUpdate, which reads the entry first, and bookDelete.
Edited(t, u, i, d) ==
    IF t.entries[u][i] = None THEN Said("notfound", t)
    ELSE IF d = None THEN Said("failed", t)
    ELSE Said("saved", [t EXCEPT !.entries[u][i] = d])

Removed(t, u, i) ==
    IF t.entries[u][i] = None THEN Said("notfound", t)
    ELSE Said("removed", [t EXCEPT !.entries[u][i] = None])

Edit(u, i, d) ==
    /\ u \in sessions
    /\ \E e \in Arrives(d) : Both(Edited(pg, u, i, e), Edited(mem, u, i, d))
    /\ UNCHANGED sessions

Remove(u, i) ==
    /\ u \in sessions
    /\ Both(Removed(pg, u, i), Removed(mem, u, i))
    /\ UNCHANGED sessions

\* What userRows shows of a user's library.
Library(t, u) ==
    {[isbn |-> i, work |-> t.books[i], details |-> t.entries[u][i]] :
        i \in {j \in Isbns : t.entries[u][j] # None}}

-----------------------------------------------------------------------------
Next ==
    \E u \in Ids :
        \/ \E m \in Emails : Register(u, m) \/ ChangeEmail(u, m)
        \/ DeleteAccount(u)
        \/ Login(u)
        \/ \E i \in Isbns :
              \/ \E w \in Works, d \in Details \cup {Unset} : Save(u, i, w, d)
              \/ \E d \in Details : Edit(u, i, d)
              \/ Remove(u, i)

Spec == Init /\ [][Next]_vars

-----------------------------------------------------------------------------
(* Properties *)

\* The inductive invariant: whoever has a session has a profile in memory, where
\* the upsert refuses nothing; in PostgreSQL no entry is without its user.
IInv ==
    /\ TypeOK
    /\ \A u \in deleted : account[u] = None
    /\ \A u, v \in Ids : account[u] # None /\ account[u] = account[v] => u = v
    /\ \A u \in sessions : mem.users[u] # None
    /\ \A u \in Ids, i \in Isbns : pg.entries[u][i] # None => pg.users[u] # None

\* The two hold the same, but for the data of the books the memory starts with,
\* and gave the same answer.
Alike ==
    /\ pg.users = mem.users
    /\ pg.entries = mem.entries
    /\ \A i \in Isbns \ Seeds : pg.books[i] = mem.books[i]
    /\ said.pg = said.mem

\* The row of an account that has another email by now, or none, still has the
\* email u logs in with.
Stale(u) ==
    \E v \in Ids \ {u} : pg.users[v] = account[u] /\ account[v] # account[u]

\* What does not fit a table as it is, and the requests that bring it.
Unfit == Refused \cup Garbled

Unfitting ==
    \E u \in Ids, i \in Isbns :
        \/ \E w \in Works, d \in Details \cup {Unset} :
              {w, d} \cap Unfit # {} /\ Save(u, i, w, d)
        \/ \E d \in Details \cap Unfit : Edit(u, i, d)

\* What the handlers do with the memory is what they do with PostgreSQL: the two
\* part in two cases only, and then PostgreSQL either fails or answers the same.
\* One is a save or an edit of something that does not fit a table as it is: a
\* number beyond int4, a source the check does not know, a text that is garbled.
\* The other is a login with an email that the mirror still has for another
\* account.  No save fails for want of a profile as long as neither has happened.
PartOnlyWhereUnfit ==
    [][Alike => \/ Alike'
                \/ /\ said'.pg \in {"failed", said'.mem}
                   /\ Unfitting \/ \E u \in Ids : Login(u) /\ Stale(u)]_vars

\* An account that has been deleted keeps its row, and its row keeps the email:
\* whoever registers with that email again is never given a profile, at however
\* many logins, and so can never save a book.
ShutOut(u) ==
    /\ account[u] # None
    /\ pg.users[u] = None
    /\ \E v \in deleted : pg.users[v] = account[u]

StaysShutOut ==
    [][\A u \in Ids : ShutOut(u) /\ account'[u] = account[u] =>
          ShutOut(u)' /\ Library(pg, u)' = {}]_vars
=============================================================================
