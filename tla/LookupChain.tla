----------------------------- MODULE LookupChain -----------------------------
(***************************************************************************)
(* What Resolve promises its callers, with no goroutines, no WaitGroup and *)
(* no slice: the cache first, then a chain of providers tried in order, of *)
(* which the first that has the ISBN and does not fail is the result, in a *)
(* single step; and a cache that is written, if at all, with that result.  *)
(***************************************************************************)
EXTENDS Naturals

CONSTANTS N, Isbns, Resolvers, Catalogue, Redis, Faulty, None

VARIABLES
    cache,    \* what is stored for each ISBN
    phase,    \* how far each resolver is: idle, asked, trying, storing or done
    isbn,     \* what it was asked for
    failed,   \* the providers that have failed it
    result    \* what it answers

vars == <<cache, phase, isbn, failed, result>>

Init ==
    /\ cache = [i \in Isbns |-> None]
    /\ phase = [r \in Resolvers |-> "idle"]
    /\ isbn = [r \in Resolvers |-> None]
    /\ failed = [r \in Resolvers |-> {}]
    /\ result = [r \in Resolvers |-> None]

Turn(r, from, to) ==
    /\ phase[r] = from
    /\ phase' = [phase EXCEPT ![r] = to]

Ask(r, i) ==
    /\ \E from \in {"idle", "done"} : Turn(r, from, "asked")
    /\ isbn' = [isbn EXCEPT ![r] = i]
    /\ failed' = [failed EXCEPT ![r] = {}]
    /\ result' = [result EXCEPT ![r] = None]
    /\ UNCHANGED cache

Remembered(r) ==
    /\ Turn(r, "asked", "done")
    /\ cache[isbn[r]] # None
    /\ result' = [result EXCEPT ![r] = cache[isbn[r]]]
    /\ UNCHANGED <<cache, isbn, failed>>

\* Only an error of the cache hides what it has.
Unknown(r) ==
    /\ Turn(r, "asked", "trying")
    /\ Faulty \/ cache[isbn[r]] = None
    /\ UNCHANGED <<cache, isbn, failed, result>>

Break(r, p) ==
    /\ Faulty
    /\ phase[r] = "trying"
    /\ failed' = [failed EXCEPT ![r] = @ \cup {p}]
    /\ UNCHANGED <<cache, phase, isbn, result>>

\* The providers that answer the chain, should it get to them.
Answering(r) == {p \in 1 .. N : isbn[r] \in Catalogue[p] /\ p \notin failed[r]}

Pick(r, p) ==
    /\ Turn(r, "trying", "storing")
    /\ p \in Answering(r)
    /\ \A q \in Answering(r) : p <= q
    /\ result' = [result EXCEPT ![r] = p]
    /\ UNCHANGED <<cache, isbn, failed>>

GiveUp(r) ==
    /\ Turn(r, "trying", "done")
    /\ Answering(r) = {}
    /\ UNCHANGED <<cache, isbn, failed, result>>

Store(r) ==
    /\ Turn(r, "storing", "done")
    /\ \/ Redis /\ cache' = [cache EXCEPT ![isbn[r]] = result[r]]
       \/ (Faulty \/ ~Redis) /\ UNCHANGED cache
    /\ UNCHANGED <<isbn, failed, result>>

Next ==
    \E r \in Resolvers :
        \/ \E i \in Isbns : Ask(r, i)
        \/ Remembered(r) \/ Unknown(r) \/ GiveUp(r) \/ Store(r)
        \/ \E p \in 1 .. N : Break(r, p) \/ Pick(r, p)

Spec == Init /\ [][Next]_vars
=============================================================================
