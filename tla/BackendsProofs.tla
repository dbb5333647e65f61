---------------------------- MODULE BackendsProofs ----------------------------
(***************************************************************************)
(* Backends, for any number of accounts, books and requests: where the     *)
(* repositories in memory and in PostgreSQL part, and that an account may  *)
(* be shut out for good.                                                   *)
(***************************************************************************)
EXTENDS Backends, TLAPS

USE ConstantsAssumption

\* A store's answer, and the store after it.
Reply == [answer : Answers, store : Store]

\* What may arrive of a work and of details, if something does.
SomeWork    == Works \cup {Mended}
SomeDetails == Details \cup {Mended, Unset}

LEMMA Arriving ==
  /\ \A w \in Works : Arrives(w) \subseteq SomeWork \cup {None}
  /\ \A d \in Details \cup {Unset} : Arrives(d) \subseteq SomeDetails \cup {None}
  /\ \A d \in Details : Arrives(d) \subseteq Details \cup {Mended, None}
  /\ \A x : x \notin Unfit => Arrives(x) = {x}
  BY DEF Arrives, SomeWork, SomeDetails, Unfit

\* What each of the helpers makes of a store.
LEMMA WithBookOK ==
  ASSUME NEW t \in Store, NEW i \in Isbns, NEW w \in SomeWork
  PROVE  /\ WithBook(t, i, w) \in Store
         /\ WithBook(t, i, w).users = t.users
         /\ WithBook(t, i, w).entries = t.entries
  BY DEF WithBook, Store, SomeWork

LEMMA WithEntryOK ==
  ASSUME NEW t \in Store, NEW u \in Ids, NEW i \in Isbns, NEW d \in SomeDetails
  PROVE  /\ WithEntry(t, u, i, d) \in Reply
         /\ WithEntry(t, u, i, d).store.users = t.users
         /\ WithEntry(t, u, i, d).store.books = t.books
  BY DEF WithEntry, Said, Defaulted, Store, Reply, Answers, SomeDetails

LEMMA MemSaveOK ==
  ASSUME mem \in Store, NEW u \in Ids, NEW i \in Isbns, NEW w \in SomeWork,
         NEW d \in SomeDetails
  PROVE  /\ MemSave(u, i, w, d) \in Reply
         /\ MemSave(u, i, w, d).store.users = mem.users
<1> DEFINE t == WithBook(mem, i, w)
<1>1. t \in Store /\ t.users = mem.users
  BY WithBookOK
<1> HIDE DEF t
<1>2. /\ WithEntry(t, u, i, d) \in Reply
      /\ WithEntry(t, u, i, d).store.users = t.users
  BY <1>1, WithEntryOK
<1> QED
  BY <1>1, <1>2 DEF MemSave, t

LEMMA PgSaveOK ==
  ASSUME pg \in Store, NEW u \in Ids, NEW i \in Isbns, NEW w \in SomeWork \cup {None},
         NEW d \in SomeDetails \cup {None}
  PROVE  /\ PgSave(u, i, w, d) \in Reply
         /\ PgSave(u, i, w, d).store.users = pg.users
<1>1. CASE w = None
  BY <1>1 DEF PgSave, Said, Reply, Answers
<1>2. CASE w # None
  <2> DEFINE t == WithBook(pg, i, w)
  <2>1. t \in Store /\ t.users = pg.users
    BY <1>2, WithBookOK
  <2> HIDE DEF t
  <2>2. d # None =>
           /\ WithEntry(t, u, i, d) \in Reply
           /\ WithEntry(t, u, i, d).store.users = t.users
    BY <2>1, WithEntryOK
  <2> QED
    BY <1>2, <2>1, <2>2 DEF PgSave, Said, t, Reply, Answers
<1> QED
  BY <1>1, <1>2

LEMMA EditedOK ==
  ASSUME NEW t \in Store, NEW u \in Ids, NEW i \in Isbns,
         NEW d \in Details \cup {Mended, None}
  PROVE  /\ Edited(t, u, i, d) \in Reply
         /\ Edited(t, u, i, d).store.users = t.users
         /\ Edited(t, u, i, d).store.books = t.books
  BY DEF Edited, Said, Store, Reply, Answers

LEMMA RemovedOK ==
  ASSUME NEW t \in Store, NEW u \in Ids, NEW i \in Isbns
  PROVE  /\ Removed(t, u, i).store \in Store
         /\ Removed(t, u, i).answer \in {"notfound", "removed"}
         /\ Removed(t, u, i).store.users = t.users
         /\ Removed(t, u, i).store.books = t.books
  BY DEF Removed, Said, Store

LEMMA UpsertOK ==
  ASSUME pg \in Store, mem \in Store, NEW u \in Ids, NEW m \in Emails
  PROVE  /\ PgUpsert(u, m).store \in Store
         /\ PgUpsert(u, m).answer \in {"ok", "failed"}
         /\ MemUpsert(u, m) = [answer |-> "ok", store |-> [mem EXCEPT !.users[u] = m]]
         /\ MemUpsert(u, m).store \in Store
  BY DEF PgUpsert, MemUpsert, Said, Store

-----------------------------------------------------------------------------
(* The inductive invariant *)

LEMMA InitInv == Init => IInv
<1> SUFFICES ASSUME Init PROVE IInv
  OBVIOUS
<1>1. ASSUME NEW S \in SUBSET Isbns PROVE Empty(S) \in Store
  BY DEF Empty, Store
<1>2. TypeOK
  BY <1>1 DEF Init, TypeOK, Answers
<1> QED
  BY <1>2 DEF Init, IInv, Empty

\* No entry of a store is without its user.
Linked(t) == \A u \in Ids, i \in Isbns : t.entries[u][i] # None => t.users[u] # None

\* Logins only add profiles, and saves add entries to those who have one.
LEMMA PgLinked ==
  ASSUME pg \in Store, Linked(pg)
  PROVE  /\ \A u \in Ids, m \in Emails : Linked(PgUpsert(u, m).store)
         /\ \A u \in Ids, i \in Isbns, w \in SomeWork \cup {None},
               d \in SomeDetails \cup {None} : Linked(PgSave(u, i, w, d).store)
         /\ \A u \in Ids, i \in Isbns : \A d : Linked(Edited(pg, u, i, d).store)
         /\ \A u \in Ids, i \in Isbns : Linked(Removed(pg, u, i).store)
<1>1. ASSUME NEW u \in Ids, NEW m \in Emails PROVE Linked(PgUpsert(u, m).store)
  BY DEF Linked, PgUpsert, Said, Store
<1>2. ASSUME NEW u \in Ids, NEW i \in Isbns, NEW w \in SomeWork \cup {None},
             NEW d \in SomeDetails \cup {None}
      PROVE  Linked(PgSave(u, i, w, d).store)
  <2>1. CASE w = None
    BY <2>1 DEF PgSave, Said
  <2>2. CASE w # None
    <3> DEFINE t == WithBook(pg, i, w)
    <3>1. t \in Store /\ t.users = pg.users /\ t.entries = pg.entries
      BY <2>2, WithBookOK
    <3>2. Linked(t)
      BY <3>1 DEF Linked
    <3>3. ASSUME pg.users[u] # None PROVE Linked(WithEntry(t, u, i, d).store)
      BY <3>1, <3>2, <3>3 DEF Linked, WithEntry, Said, Store
    <3> QED
      BY <2>2, <3>2, <3>3 DEF PgSave, Said
  <2> QED
    BY <2>1, <2>2
<1>3. ASSUME NEW u \in Ids, NEW i \in Isbns, NEW d
      PROVE  Linked(Edited(pg, u, i, d).store)
  BY DEF Linked, Edited, Said, Store
<1>4. ASSUME NEW u \in Ids, NEW i \in Isbns PROVE Linked(Removed(pg, u, i).store)
  BY DEF Linked, Removed, Said, Store
<1> QED
  BY <1>1, <1>2, <1>3, <1>4

LEMMA Parts ==
  /\ IInv <=> /\ TypeOK
              /\ \A u \in deleted : account[u] = None
              /\ \A u, v \in Ids : account[u] # None /\ account[u] = account[v] => u = v
              /\ \A u \in sessions : mem.users[u] # None
              /\ Linked(pg)
  /\ IInv' <=> /\ TypeOK'
               /\ \A u \in deleted' : account'[u] = None
               /\ \A u, v \in Ids : account'[u] # None /\ account'[u] = account'[v] => u = v
               /\ \A u \in sessions' : mem'.users[u] # None
               /\ Linked(pg')
  BY DEF IInv, Linked

\* A request that leaves the profiles alone, or adds to those in memory.
LEMMA BothOK ==
  ASSUME IInv, NEW p \in Reply,
         NEW q \in Reply, Both(p, q),
         sessions' \subseteq Ids,
         \A u \in sessions' : q.store.users[u] # None,
         Linked(p.store)
  PROVE  IInv'
<1>1. TypeOK'
  BY Parts DEF TypeOK, Both, Reply
<1> QED
  BY <1>1, Parts DEF Both

LEMMA NextInv == IInv /\ [Next]_vars => IInv'
<1> SUFFICES ASSUME IInv, [Next]_vars PROVE IInv'
  OBVIOUS
<1>1. /\ TypeOK /\ Linked(pg)
      /\ \A u \in deleted : account[u] = None
      /\ \A u, v \in Ids : account[u] # None /\ account[u] = account[v] => u = v
      /\ \A u \in sessions : mem.users[u] # None
  BY Parts
<1>2. CASE UNCHANGED vars
  BY <1>1, <1>2, Parts DEF vars, TypeOK
<1>3. ASSUME NEW u \in Ids, NEW m \in Emails,
             Register(u, m) \/ ChangeEmail(u, m)
      PROVE  IInv'
  BY <1>1, <1>3, Parts DEF Register, ChangeEmail, Free, TypeOK
<1>4. ASSUME NEW u \in Ids, DeleteAccount(u) PROVE IInv'
  BY <1>1, <1>4, Parts DEF DeleteAccount, TypeOK
<1>5. ASSUME NEW u \in Ids, Login(u) PROVE IInv'
  <2> DEFINE m == account[u]
  <2>1. m \in Emails
    BY <1>1, <1>5 DEF Login, TypeOK
  <2>2. /\ PgUpsert(u, m) \in Reply
        /\ MemUpsert(u, m) \in Reply
    BY <1>1, <2>1, UpsertOK DEF TypeOK, PgUpsert, MemUpsert, Said, Answers, Reply
  <2>3. \A v \in sessions' : MemUpsert(u, m).store.users[v] # None
    BY <1>1, <1>5, <2>1, UpsertOK DEF Login, TypeOK, Store
  <2>4. Both(PgUpsert(u, m), MemUpsert(u, m)) /\ sessions' \subseteq Ids
    BY <1>1, <1>5 DEF Login, TypeOK
  <2> QED
    BY <1>1, <2>1, <2>2, <2>3, <2>4, BothOK, PgLinked DEF TypeOK
<1>6. ASSUME NEW u \in Ids, NEW i \in Isbns, NEW w \in Works,
             NEW d \in Details \cup {Unset}, Save(u, i, w, d)
      PROVE  IInv'
  <2>1. PICK v \in Arrives(w), e \in Arrives(d) :
           Both(PgSave(u, i, v, e), MemSave(u, i, w, d))
    BY <1>6 DEF Save
  <2>2. /\ v \in SomeWork \cup {None} /\ e \in SomeDetails \cup {None}
        /\ w \in SomeWork /\ d \in SomeDetails
    BY Arriving DEF SomeWork, SomeDetails
  <2>3. /\ PgSave(u, i, v, e) \in Reply
        /\ MemSave(u, i, w, d) \in Reply
    BY <1>1, <2>2, PgSaveOK, MemSaveOK DEF TypeOK
  <2>4. sessions' \subseteq Ids /\ \A x \in sessions' : MemSave(u, i, w, d).store.users[x] # None
    BY <1>1, <1>6, <2>2, MemSaveOK DEF Save, TypeOK
  <2>5. Linked(PgSave(u, i, v, e).store)
    BY <1>1, <2>2, PgLinked DEF TypeOK
  <2> QED
    BY <2>1, <2>3, <2>4, <2>5, BothOK
<1>7. ASSUME NEW u \in Ids, NEW i \in Isbns, NEW d \in Details, Edit(u, i, d)
      PROVE  IInv'
  <2>1. PICK e \in Arrives(d) : Both(Edited(pg, u, i, e), Edited(mem, u, i, d))
    BY <1>7 DEF Edit
  <2>2. e \in Details \cup {Mended, None}
    BY Arriving
  <2>3. /\ Edited(pg, u, i, e) \in Reply
        /\ Edited(mem, u, i, d) \in Reply
    BY <1>1, <2>2, EditedOK DEF TypeOK
  <2>4. sessions' \subseteq Ids /\ \A x \in sessions' : Edited(mem, u, i, d).store.users[x] # None
    BY <1>1, <1>7, EditedOK DEF Edit, TypeOK
  <2>5. Linked(Edited(pg, u, i, e).store)
    BY <1>1, PgLinked DEF TypeOK
  <2> QED
    BY <2>1, <2>3, <2>4, <2>5, BothOK
<1>8. ASSUME NEW u \in Ids, NEW i \in Isbns, Remove(u, i) PROVE IInv'
  <2>1. /\ Removed(pg, u, i) \in Reply
        /\ Removed(mem, u, i) \in Reply
    BY <1>1, RemovedOK DEF TypeOK, Removed, Said, Answers, Reply
  <2>2. \A v \in sessions' : Removed(mem, u, i).store.users[v] # None
    BY <1>1, <1>8, RemovedOK DEF Remove, TypeOK
  <2>3. Both(Removed(pg, u, i), Removed(mem, u, i)) /\ sessions' \subseteq Ids
    BY <1>1, <1>8 DEF Remove, TypeOK
  <2> QED
    BY <1>1, <2>1, <2>2, <2>3, BothOK, PgLinked DEF TypeOK
<1> QED
  BY <1>2, <1>3, <1>4, <1>5, <1>6, <1>7, <1>8 DEF Next

\* In memory no login fails: whoever has a session has a profile.
THEOREM InvariantHolds == Spec => []IInv
  BY InitInv, NextInv, PTL DEF Spec

\* Every variable keeps its type, whatever the accounts do.
THEOREM TypeCorrect == Spec => []TypeOK
<1>1. IInv => TypeOK
  BY DEF IInv
<1> QED
  BY <1>1, InvariantHolds, PTL

-----------------------------------------------------------------------------
(* An account shut out *)

\* The profiles change at a login only, and only the row of the account that
\* logs in; not even that if another row has its email.
LEMMA ProfilesKept ==
  ASSUME IInv, Next, NEW v \in Ids,
         \/ account[v] = None
         \/ HeldByOther(pg, v, account[v])
  PROVE  pg'.users[v] = pg.users[v]
<1>1. TypeOK
  BY DEF IInv
<1>2. ASSUME NEW u \in Ids, NEW m \in Emails, Register(u, m) \/ ChangeEmail(u, m)
      PROVE  pg' = pg
  BY <1>2 DEF Register, ChangeEmail
<1>3. ASSUME NEW u \in Ids, DeleteAccount(u) PROVE pg' = pg
  BY <1>3 DEF DeleteAccount
<1>4. ASSUME NEW u \in Ids, Login(u) PROVE pg'.users[v] = pg.users[v]
  <2>1. CASE u = v
    <3>1. HeldByOther(pg, u, account[u])
      BY <1>4, <2>1 DEF Login
    <3> QED
      BY <1>4, <3>1 DEF Login, Both, PgUpsert, Said
  <2>2. CASE u # v
    <3>1. CASE HeldByOther(pg, u, account[u])
      BY <1>4, <3>1 DEF Login, Both, PgUpsert, Said
    <3>2. CASE ~HeldByOther(pg, u, account[u])
      <4>1. pg' = [pg EXCEPT !.users[u] = account[u]]
        BY <1>4, <3>2 DEF Login, Both, PgUpsert, Said
      <4> QED
        BY <1>1, <2>2, <4>1 DEF TypeOK, Store
    <3> QED
      BY <3>1, <3>2
  <2> QED
    BY <2>1, <2>2
<1>5. ASSUME NEW u \in Ids, NEW i \in Isbns, NEW w \in Works,
             NEW d \in Details \cup {Unset}, Save(u, i, w, d)
      PROVE  pg'.users = pg.users
  <2>1. PICK x \in Arrives(w), e \in Arrives(d) : pg' = PgSave(u, i, x, e).store
    BY <1>5 DEF Save, Both
  <2>2. x \in SomeWork \cup {None} /\ e \in SomeDetails \cup {None}
    BY Arriving
  <2> QED
    BY <1>1, <2>1, <2>2, PgSaveOK DEF TypeOK
<1>6. ASSUME NEW u \in Ids, NEW i \in Isbns, NEW d \in Details, Edit(u, i, d)
      PROVE  pg'.users = pg.users
  <2>1. PICK e \in Arrives(d) : pg' = Edited(pg, u, i, e).store
    BY <1>6 DEF Edit, Both
  <2>2. e \in Details \cup {Mended, None}
    BY Arriving
  <2> QED
    BY <1>1, <2>1, <2>2, EditedOK DEF TypeOK
<1>7. ASSUME NEW u \in Ids, NEW i \in Isbns, Remove(u, i)
      PROVE  pg'.users = pg.users
  BY <1>1, <1>7, RemovedOK DEF Remove, Both, TypeOK
<1> QED
  BY <1>2, <1>3, <1>4, <1>5, <1>6, <1>7 DEF Next

\* Accounts that have been deleted stay deleted, and no login is theirs.
LEMMA DeletedKept ==
  ASSUME IInv, Next
  PROVE  deleted \subseteq deleted'
<1> QED
  BY DEF Next, Register, ChangeEmail, DeleteAccount, Login, Save, Edit, Remove, Both

LEMMA ShutOutStep == IInv /\ IInv' /\ [Next]_vars =>
  [\A u \in Ids : ShutOut(u) /\ account'[u] = account[u] =>
      ShutOut(u)' /\ Library(pg, u)' = {}]_vars
<1> SUFFICES ASSUME IInv, IInv', Next, NEW u \in Ids, ShutOut(u), account'[u] = account[u]
             PROVE  ShutOut(u)' /\ Library(pg, u)' = {}
  BY DEF vars
<1>1. PICK v \in deleted : pg.users[v] = account[u]
  BY DEF ShutOut
<1>2. /\ account[u] # None /\ pg.users[u] = None
      /\ v \in Ids /\ account[v] = None
  BY <1>1, Parts DEF ShutOut, TypeOK
<1>3. HeldByOther(pg, u, account[u])
  BY <1>1, <1>2 DEF HeldByOther
<1>4. pg'.users[u] = None /\ pg'.users[v] = account'[u] /\ v \in deleted'
  BY <1>1, <1>2, <1>3, ProfilesKept, DeletedKept
<1>5. Library(pg', u) = {}
  BY <1>4, Parts DEF Linked, Library
<1> QED
  BY <1>2, <1>4, <1>5 DEF ShutOut, Library

\* Whoever registers with the email of a deleted account is never given a profile,
\* however many accounts there are and however often they log in.
THEOREM ShutOutForGood == Spec => StaysShutOut
<1>1. IInv /\ IInv' /\ [Next]_vars =>
        [\A u \in Ids : ShutOut(u) /\ account'[u] = account[u] =>
            ShutOut(u)' /\ Library(pg, u)' = {}]_vars
  BY ShutOutStep
<1> QED
  BY <1>1, InvariantHolds, PTL DEF Spec, StaysShutOut

-----------------------------------------------------------------------------
(* Where the two stores part *)

\* The same operation of a handler leaves like stores alike.
LEMMA SameEffect ==
  ASSUME TypeOK, Alike, NEW u \in Ids, NEW i \in Isbns
  PROVE  /\ \A w \in Works, d \in Details \cup {Unset} :
               LET p == WithEntry(WithBook(pg, i, w), u, i, d)
                   q == WithEntry(WithBook(mem, i, w), u, i, d)
               IN  /\ p.answer = q.answer
                   /\ p.store.users = q.store.users
                   /\ p.store.entries = q.store.entries
                   /\ \A j \in Isbns \ Seeds : p.store.books[j] = q.store.books[j]
         /\ \A d \in Details :
               /\ Edited(pg, u, i, d).answer = Edited(mem, u, i, d).answer
               /\ Edited(pg, u, i, d).store.entries = Edited(mem, u, i, d).store.entries
         /\ Removed(pg, u, i).answer = Removed(mem, u, i).answer
         /\ Removed(pg, u, i).store.entries = Removed(mem, u, i).store.entries
<1>1. pg \in Store /\ mem \in Store /\ pg.users = mem.users /\ pg.entries = mem.entries
  BY DEF TypeOK, Alike
<1>2. ASSUME NEW w \in Works, NEW d \in Details \cup {Unset}
      PROVE  LET p == WithEntry(WithBook(pg, i, w), u, i, d)
                 q == WithEntry(WithBook(mem, i, w), u, i, d)
             IN  /\ p.answer = q.answer
                 /\ p.store.users = q.store.users
                 /\ p.store.entries = q.store.entries
                 /\ \A j \in Isbns \ Seeds : p.store.books[j] = q.store.books[j]
  <2> DEFINE a == WithBook(pg, i, w)
             b == WithBook(mem, i, w)
  <2>1. /\ a \in Store /\ b \in Store
        /\ a.users = b.users /\ a.entries = b.entries
    BY <1>1, WithBookOK DEF SomeWork
  <2>2. \A j \in Isbns \ Seeds : a.books[j] = b.books[j]
    BY <1>1 DEF Alike, WithBook, Store
  <2> HIDE DEF a, b
  <2>3. /\ WithEntry(a, u, i, d).answer = WithEntry(b, u, i, d).answer
        /\ WithEntry(a, u, i, d).store.entries = WithEntry(b, u, i, d).store.entries
    BY <2>1 DEF WithEntry, Said, Store
  <2>4. /\ WithEntry(a, u, i, d).store.users = WithEntry(b, u, i, d).store.users
        /\ \A j \in Isbns \ Seeds :
              WithEntry(a, u, i, d).store.books[j] = WithEntry(b, u, i, d).store.books[j]
    BY <2>1, <2>2, WithEntryOK DEF SomeDetails
  <2> QED
    BY <2>3, <2>4 DEF a, b
<1>3. ASSUME NEW d \in Details
      PROVE  /\ Edited(pg, u, i, d).answer = Edited(mem, u, i, d).answer
             /\ Edited(pg, u, i, d).store.entries = Edited(mem, u, i, d).store.entries
  BY <1>1 DEF Edited, Said, Store
<1>4. /\ Removed(pg, u, i).answer = Removed(mem, u, i).answer
      /\ Removed(pg, u, i).store.entries = Removed(mem, u, i).store.entries
  BY <1>1 DEF Removed, Said, Store
<1> QED
  BY <1>2, <1>3, <1>4

\* A login parts the two only if the mirror is stale.
LEMMA LoginParts ==
  ASSUME IInv, Alike, NEW u \in Ids, Login(u)
  PROVE  \/ Alike'
         \/ said'.pg = "failed" /\ said'.mem # "failed" /\ Stale(u)
<1>1. /\ TypeOK /\ account[u] # None
      /\ \A v \in Ids : account[u] = account[v] => u = v
  BY Parts DEF Login
<1>2. /\ pg' = PgUpsert(u, account[u]).store /\ said'.pg = PgUpsert(u, account[u]).answer
      /\ mem' = [mem EXCEPT !.users[u] = account[u]] /\ said'.mem = "ok"
  BY DEF Login, Both, MemUpsert, Said
<1>3. CASE HeldByOther(pg, u, account[u])
  <2>1. said'.pg = "failed"
    BY <1>2, <1>3 DEF PgUpsert, Said
  <2>2. PICK v \in Ids \ {u} : pg.users[v] = account[u]
    BY <1>3 DEF HeldByOther
  <2>3. Stale(u)
    BY <1>1, <2>2 DEF Stale
  <2> QED
    BY <1>2, <2>1, <2>3
<1>4. CASE ~HeldByOther(pg, u, account[u])
  <2>1. pg' = [pg EXCEPT !.users[u] = account[u]] /\ said'.pg = "ok"
    BY <1>2, <1>4 DEF PgUpsert, Said
  <2> QED
    BY <1>1, <1>2, <2>1 DEF Alike, TypeOK, Store
<1> QED
  BY <1>3, <1>4

\* A save parts the two only if something does not fit.
LEMMA SaveParts ==
  ASSUME IInv, Alike, NEW u \in Ids, NEW i \in Isbns, NEW w \in Works,
         NEW d \in Details \cup {Unset}, Save(u, i, w, d)
  PROVE  \/ Alike'
         \/ said'.pg \in {"failed", said'.mem} /\ {w, d} \cap Unfit # {}
<1>1. TypeOK /\ u \in sessions /\ mem.users[u] # None /\ pg.users = mem.users
  BY Parts DEF Save, Alike
<1>2. PICK v \in Arrives(w), e \in Arrives(d) :
        /\ pg' = PgSave(u, i, v, e).store /\ said'.pg = PgSave(u, i, v, e).answer
        /\ mem' = MemSave(u, i, w, d).store /\ said'.mem = MemSave(u, i, w, d).answer
  BY DEF Save, Both
<1>3. CASE {w, d} \cap Unfit # {}
  <2>1. CASE said'.pg = "failed"
    BY <1>3, <2>1
  <2>2. CASE said'.pg # "failed"
    <3>1. /\ v # None /\ e # None
          /\ said'.pg = WithEntry(WithBook(pg, i, v), u, i, e).answer
      BY <1>2, <2>2 DEF PgSave, Said
    <3>2. /\ v \in SomeWork /\ w \in SomeWork
          /\ pg \in Store /\ mem \in Store /\ pg.entries = mem.entries
      BY <1>1, <3>1, Arriving DEF SomeWork, TypeOK, Alike
    <3>3. /\ WithBook(pg, i, v).entries = pg.entries
          /\ WithBook(mem, i, w).entries = mem.entries
      BY <3>2, WithBookOK
    <3>4. said'.pg = said'.mem
      BY <1>2, <3>1, <3>2, <3>3 DEF MemSave, WithEntry, Said
    <3> QED
      BY <1>3, <3>4
  <2> QED
    BY <2>1, <2>2
<1>4. CASE {w, d} \cap Unfit = {}
  <2> DEFINE p == WithEntry(WithBook(pg, i, w), u, i, d)
             q == WithEntry(WithBook(mem, i, w), u, i, d)
  <2>1. /\ p.answer = q.answer
        /\ p.store.users = q.store.users
        /\ p.store.entries = q.store.entries
        /\ \A j \in Isbns \ Seeds : p.store.books[j] = q.store.books[j]
    BY <1>1, SameEffect
  <2>2. v = w /\ e = d /\ w # None /\ d # None
    BY <1>2, <1>4, Arriving
  <2>3. /\ pg' = p.store /\ said'.pg = p.answer
        /\ mem' = q.store /\ said'.mem = q.answer
    BY <1>1, <1>2, <2>2 DEF PgSave, MemSave
  <2> HIDE DEF p, q
  <2> QED
    BY <2>1, <2>3 DEF Alike
<1> QED
  BY <1>3, <1>4

\* An edit parts the two only if its details do not fit.
LEMMA EditParts ==
  ASSUME IInv, Alike, NEW u \in Ids, NEW i \in Isbns, NEW d \in Details, Edit(u, i, d)
  PROVE  \/ Alike'
         \/ said'.pg \in {"failed", said'.mem} /\ d \in Unfit
<1>1. TypeOK /\ pg.entries = mem.entries
  BY Parts DEF Alike
<1>2. PICK e \in Arrives(d) :
        /\ pg' = Edited(pg, u, i, e).store /\ said'.pg = Edited(pg, u, i, e).answer
        /\ mem' = Edited(mem, u, i, d).store /\ said'.mem = Edited(mem, u, i, d).answer
  BY DEF Edit, Both
<1>3. CASE d \in Unfit
  <2>1. said'.pg \in {"failed", said'.mem}
    BY <1>1, <1>2 DEF Edited, Said
  <2> QED
    BY <1>3, <2>1
<1>4. CASE d \notin Unfit
  <2>1. e = d
    BY <1>2, <1>4, Arriving
  <2> QED
    BY <1>1, <1>2, <2>1, SameEffect, EditedOK DEF Alike, TypeOK
<1> QED
  BY <1>3, <1>4

LEMMA PartStep == IInv /\ [Next]_vars =>
  [Alike => \/ Alike'
            \/ /\ said'.pg \in {"failed", said'.mem}
               /\ Unfitting \/ \E u \in Ids : Login(u) /\ Stale(u)]_vars
<1> DEFINE Excused ==
      /\ said'.pg \in {"failed", said'.mem}
      /\ Unfitting \/ \E u \in Ids : Login(u) /\ Stale(u)
<1> SUFFICES ASSUME IInv, Next, Alike PROVE Alike' \/ Excused
  BY DEF vars
<1>1. TypeOK
  BY DEF IInv
<1>2. ASSUME NEW u \in Ids, NEW m \in Emails, Register(u, m) \/ ChangeEmail(u, m)
      PROVE  Alike'
  BY <1>2 DEF Register, ChangeEmail, Alike
<1>3. ASSUME NEW u \in Ids, DeleteAccount(u) PROVE Alike'
  BY <1>3 DEF DeleteAccount, Alike
<1>4. ASSUME NEW u \in Ids, Login(u) PROVE Alike' \/ Excused
  BY <1>4, LoginParts
<1>5. ASSUME NEW u \in Ids, NEW i \in Isbns, NEW w \in Works,
             NEW d \in Details \cup {Unset}, Save(u, i, w, d)
      PROVE  Alike' \/ Excused
  BY <1>5, SaveParts DEF Unfitting
<1>6. ASSUME NEW u \in Ids, NEW i \in Isbns, NEW d \in Details, Edit(u, i, d)
      PROVE  Alike' \/ Excused
  BY <1>6, EditParts DEF Unfitting
<1>7. ASSUME NEW u \in Ids, NEW i \in Isbns, Remove(u, i) PROVE Alike'
  BY <1>1, <1>7, SameEffect, RemovedOK DEF Remove, Both, Alike, TypeOK
<1> QED
  BY <1>2, <1>3, <1>4, <1>5, <1>6, <1>7 DEF Next

\* For any number of accounts and books: memory and PostgreSQL answer alike until
\* something saved does not fit its table as it is, or a login meets a stale row
\* of the mirror.
THEOREM OnlyUnfitParts == Spec => PartOnlyWhereUnfit
<1>1. IInv /\ [Next]_vars =>
        [Alike => \/ Alike'
                  \/ /\ said'.pg \in {"failed", said'.mem}
                     /\ Unfitting \/ \E u \in Ids : Login(u) /\ Stale(u)]_vars
  BY PartStep
<1> QED
  BY <1>1, InvariantHolds, PTL DEF Spec, PartOnlyWhereUnfit
=============================================================================
