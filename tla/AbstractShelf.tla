---------------------------- MODULE AbstractShelf ----------------------------
(***************************************************************************)
(* What the library promises its users, with no books table, no statements *)
(* and no interleaving: a shelf of copies, on which adding a book, editing *)
(* a copy and removing one happen in a single step.                        *)
(*                                                                         *)
(* An owner has at most one copy of an ISBN; an answer "added" is given in *)
(* the very step that puts the copy there, an answer "existing" in a step  *)
(* in which the asker has a copy of the ISBN asked for.                    *)
(***************************************************************************)
EXTENDS Naturals

CONSTANTS Users, Isbns, Details, EntryIds, Requests, Faulty, None

VARIABLES
    shelf,   \* the copies, by the id their page has
    used,    \* ids ever given to a copy
    want,    \* whose shelf each request is to put which ISBN on
    tally    \* how often each request was answered what

vars == <<shelf, used, want, tally>>

Outcomes == {"added", "existing", "failed"}

Has(u, i) ==
    \E e \in EntryIds : shelf[e] # None /\ shelf[e].user = u /\ shelf[e].isbn = i

Init ==
    /\ shelf = [e \in EntryIds |-> None]
    /\ used = {}
    /\ want = [r \in Requests |-> None]
    /\ tally = [r \in Requests |-> [o \in Outcomes |-> 0]]

Ask(r) ==
    /\ want[r] = None
    /\ \E u \in Users, i \in Isbns :
          want' = [want EXCEPT ![r] = [user |-> u, isbn |-> i]]
    /\ UNCHANGED <<shelf, used, tally>>

\* Request r is answered o and goes on to the next ISBN, if it has one.
Settle(r, o) ==
    /\ want[r] # None
    /\ tally' = [tally EXCEPT ![r][o] = @ + 1]
    /\ \/ UNCHANGED want
       \/ \E i \in Isbns : want' = [want EXCEPT ![r].isbn = i]

\* The answer "failed" to an addition that took effect is a lost reply.
Add(r, e, d) ==
    /\ Settle(r, "added") \/ (r \in Faulty /\ Settle(r, "failed"))
    /\ ~Has(want[r].user, want[r].isbn)
    /\ e \notin used
    /\ used' = used \cup {e}
    /\ shelf' = [shelf EXCEPT ![e] = [user |-> want[r].user,
                                      isbn |-> want[r].isbn, details |-> d]]

Already(r) ==
    /\ Settle(r, "existing")
    /\ Has(want[r].user, want[r].isbn)
    /\ UNCHANGED <<shelf, used>>

Fail(r) ==
    /\ Settle(r, "failed")
    /\ UNCHANGED <<shelf, used>>

Edit(e, d) ==
    /\ shelf[e] # None
    /\ shelf' = [shelf EXCEPT ![e].details = d]
    /\ UNCHANGED <<used, want, tally>>

Remove(e) ==
    /\ shelf[e] # None
    /\ shelf' = [shelf EXCEPT ![e] = None]
    /\ UNCHANGED <<used, want, tally>>

Next ==
    \/ \E r \in Requests :
          Ask(r) \/ Already(r) \/ Fail(r) \/ \E e \in EntryIds, d \in Details : Add(r, e, d)
    \/ \E e \in EntryIds : Remove(e) \/ \E d \in Details : Edit(e, d)

Spec == Init /\ [][Next]_vars
=============================================================================
