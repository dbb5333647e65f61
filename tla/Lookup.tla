-------------------------------- MODULE Lookup --------------------------------
(***************************************************************************)
(* internal/lookup: Service.Resolve, run by many requests at once over one *)
(* shared cache.                                                           *)
(*                                                                         *)
(* A resolve that the cache does not answer starts one goroutine for each  *)
(* provider, waits for all of them on a WaitGroup and takes the hit of the *)
(* earliest provider in the configured order.  The goroutines write into   *)
(* slots of a slice the resolver reads after the wait; nothing but the     *)
(* WaitGroup keeps the two apart.                                          *)
(*                                                                         *)
(* A book is represented by the provider it came from (book.Source).       *)
(***************************************************************************)
EXTENDS Naturals, FiniteSets

CONSTANTS
    N,           \* providers, 1..N in the configured order
    Isbns,
    Resolvers,   \* requests that call Resolve, again and again
    Catalogue,   \* Catalogue[p]: ISBNs for which provider p has a titled item
    Redis,       \* FALSE: REDIS_URL is not set and the cache is a NoopCache
    Faulty,      \* TRUE if cache and provider calls may fail
    None

Providers == 1 .. N

ASSUME CatalogueAssumption ==
    /\ N \in Nat
    /\ Catalogue \in [Providers -> SUBSET Isbns]
    /\ Redis \in BOOLEAN /\ Faulty \in BOOLEAN

ASSUME NoneAssumption == None \notin Providers \cup Isbns

VARIABLES
    cache,     \* the Redis keys isbn:<isbn13>
    pc,        \* where each resolver is
    isbn,      \* its argument
    spawned,   \* goroutines its loop has started
    wg,        \* counter of its WaitGroup
    out,       \* its outcomes slice
    live,      \* its goroutines that have not called wg.Done
    result     \* what Resolve returns; None is ErrNotFound

vars == <<cache, pc, isbn, spawned, wg, out, live, result>>

Labels   == {"idle", "get", "spawn", "set", "done"}
Final    == {"miss", "error", "hit"}
Outcomes == Final \cup {"unset"}

TypeOK ==
    /\ cache \in [Isbns -> Providers \cup {None}]
    /\ pc \in [Resolvers -> Labels]
    /\ isbn \in [Resolvers -> Isbns \cup {None}]
    /\ spawned \in [Resolvers -> 0 .. N]
    /\ wg \in [Resolvers -> 0 .. N]
    /\ out \in [Resolvers -> [Providers -> Outcomes]]
    /\ live \in [Resolvers -> SUBSET Providers]
    /\ result \in [Resolvers -> Providers \cup {None}]

Init ==
    /\ cache = [i \in Isbns |-> None]
    /\ pc = [r \in Resolvers |-> "idle"]
    /\ isbn = [r \in Resolvers |-> None]
    /\ spawned = [r \in Resolvers |-> 0]
    /\ wg = [r \in Resolvers |-> 0]
    /\ out = [r \in Resolvers |-> [p \in Providers |-> "unset"]]
    /\ live = [r \in Resolvers |-> {}]
    /\ result = [r \in Resolvers |-> None]

Goto(r, from, to) ==
    /\ pc[r] = from
    /\ pc' = [pc EXCEPT ![r] = to]

\* A request calls Resolve with fresh locals.
Call(r, i) ==
    /\ \E from \in {"idle", "done"} : Goto(r, from, "get")
    /\ isbn' = [isbn EXCEPT ![r] = i]
    /\ spawned' = [spawned EXCEPT ![r] = 0]
    /\ wg' = [wg EXCEPT ![r] = 0]
    /\ out' = [out EXCEPT ![r] = [p \in Providers |-> "unset"]]
    /\ live' = [live EXCEPT ![r] = {}]
    /\ result' = [result EXCEPT ![r] = None]
    /\ UNCHANGED cache

-----------------------------------------------------------------------------
(* The cache *)

CacheHit(r) ==
    /\ Goto(r, "get", "done")
    /\ Redis
    /\ cache[isbn[r]] # None
    /\ result' = [result EXCEPT ![r] = cache[isbn[r]]]
    /\ UNCHANGED <<cache, isbn, spawned, wg, out, live>>

\* ErrNotFound, or an error, which is logged and taken for a miss.
CacheMiss(r) ==
    /\ Goto(r, "get", "spawn")
    /\ Faulty \/ ~Redis \/ cache[isbn[r]] = None
    /\ UNCHANGED <<cache, isbn, spawned, wg, out, live, result>>

\* Best effort: the result is returned whether or not Set works.  After an
\* error the value may have been stored all the same.
CacheSet(r) ==
    /\ Goto(r, "set", "done")
    /\ \/ Redis /\ cache' = [cache EXCEPT ![isbn[r]] = result[r]]
       \/ (Faulty \/ ~Redis) /\ UNCHANGED cache
    /\ UNCHANGED <<isbn, spawned, wg, out, live, result>>

-----------------------------------------------------------------------------
(* The providers *)

\* Mutant: wg.Add is missing.
Spawn_NoAdd(r) ==
    /\ pc[r] = "spawn"
    /\ spawned[r] < N
    /\ spawned' = [spawned EXCEPT ![r] = @ + 1]
    /\ live' = [live EXCEPT ![r] = @ \cup {spawned[r] + 1}]
    /\ UNCHANGED <<cache, pc, isbn, wg, out, result>>

\* Mutant: the first provider is not waited for.
Spawn_AddFewer(r) ==
    /\ pc[r] = "spawn"
    /\ spawned[r] < N
    /\ spawned' = [spawned EXCEPT ![r] = @ + 1]
    /\ wg' = [wg EXCEPT ![r] = spawned[r]]
    /\ live' = [live EXCEPT ![r] = @ \cup {spawned[r] + 1}]
    /\ UNCHANGED <<cache, pc, isbn, out, result>>

\* wg.Add(1), then go func(...).
Spawn(r) ==
    /\ pc[r] = "spawn"
    /\ spawned[r] < N
    /\ spawned' = [spawned EXCEPT ![r] = @ + 1]
    /\ wg' = [wg EXCEPT ![r] = @ + 1]
    /\ live' = [live EXCEPT ![r] = @ \cup {spawned[r] + 1}]
    /\ UNCHANGED <<cache, pc, isbn, out, result>>

\* p.Lookup returns and the goroutine fills its slot.
Report(r, p) ==
    /\ p \in live[r]
    /\ out[r][p] = "unset"
    /\ \E o \in Final :
          /\ o = "hit"   => isbn[r] \in Catalogue[p]
          /\ o = "miss"  => isbn[r] \notin Catalogue[p]
          /\ o = "error" => Faulty
          /\ out' = [out EXCEPT ![r][p] = o]
    /\ UNCHANGED <<cache, pc, isbn, spawned, wg, live, result>>

\* The deferred wg.Done.
Finish(r, p) ==
    /\ p \in live[r]
    /\ out[r][p] # "unset"
    /\ wg' = [wg EXCEPT ![r] = @ - 1]
    /\ live' = [live EXCEPT ![r] = @ \ {p}]
    /\ UNCHANGED <<cache, pc, isbn, spawned, out, result>>

\* wg.Wait has returned: the loop over the slice returns the first book.
Hits(r)         == {p \in Providers : out[r][p] = "hit"}
Waited(r)       == spawned[r] = N /\ wg[r] = 0
Earliest(p, S)  == p \in S /\ \A q \in S : p <= q

\* Mutant: the loop does not stop, and a later hit overwrites an earlier one.
Choose_Last(r, p) ==
    /\ Goto(r, "spawn", "set")
    /\ Waited(r)
    /\ p \in Hits(r) /\ \A q \in Hits(r) : p >= q
    /\ result' = [result EXCEPT ![r] = p]
    /\ UNCHANGED <<cache, isbn, spawned, wg, out, live>>

Choose(r, p) ==
    /\ Goto(r, "spawn", "set")
    /\ Waited(r)
    /\ Earliest(p, Hits(r))
    /\ result' = [result EXCEPT ![r] = p]
    /\ UNCHANGED <<cache, isbn, spawned, wg, out, live>>

\* Mutant: tries again until some provider has the ISBN.
NotFound_Retry(r) ==
    /\ Goto(r, "spawn", "get")
    /\ Waited(r)
    /\ Hits(r) = {}
    /\ spawned' = [spawned EXCEPT ![r] = 0]
    /\ out' = [out EXCEPT ![r] = [p \in Providers |-> "unset"]]
    /\ UNCHANGED <<cache, isbn, wg, live, result>>

NotFound(r) ==
    /\ Goto(r, "spawn", "done")
    /\ Waited(r)
    /\ Hits(r) = {}
    /\ UNCHANGED <<cache, isbn, spawned, wg, out, live, result>>

-----------------------------------------------------------------------------
Resolver(r) ==
    \/ CacheHit(r) \/ CacheMiss(r) \/ CacheSet(r)
    \/ Spawn(r) \/ NotFound(r)
    \/ \E p \in Providers : Choose(r, p)

Goroutine(r, p) == Report(r, p) \/ Finish(r, p)

Next ==
    \E r \in Resolvers :
        \/ \E i \in Isbns : Call(r, i)
        \/ Resolver(r)
        \/ \E p \in Providers : Goroutine(r, p)

Spec == Init /\ [][Next]_vars

\* Goroutines are scheduled; every provider's HTTP client gives up after five
\* seconds and Redis calls time out as well, so every call returns.
FairSpec ==
    /\ Spec
    /\ \A r \in Resolvers :
          WF_vars(Resolver(r)) /\ \A p \in Providers : WF_vars(Goroutine(r, p))

-----------------------------------------------------------------------------
(* Properties *)

\* The slice is read only when no goroutine can write to it any more: once
\* Resolve has passed the wait, every slot is filled and every goroutine ended.
JoinedBeforeRead ==
    \A r \in Resolvers :
        pc[r] = "set" \/ (pc[r] = "done" /\ spawned[r] > 0) =>
            live[r] = {} /\ \A p \in Providers : out[r][p] # "unset"

\* The comment on Resolve: the parallel queries pick what a sequential chain,
\* trying the providers in order, would have picked, and "not found" means that
\* every one of them was asked and had nothing.
AskedAll(r) == spawned[r] = N /\ pc[r] \in {"set", "done"}

PriorityWins ==
    \A r \in Resolvers : AskedAll(r) =>
        \A p \in Providers :
            result[r] = None \/ p < result[r] => out[r][p] \in {"miss", "error"}

\* Whatever Resolve returns, from the cache too, is a book some provider really
\* has under the ISBN asked for: entries of different ISBNs never mix.
ResultIsGenuine ==
    \A r \in Resolvers : result[r] # None => isbn[r] \in Catalogue[result[r]]

CacheIsGenuine ==
    \A i \in Isbns : cache[i] # None => i \in Catalogue[cache[i]]

\* The inductive invariant: the counter counts the goroutines that have not
\* finished, a finished one has filled its slot with what its provider has, and
\* the resolver is past the wait only when none is left.
Counted(r) ==
    /\ wg[r] = Cardinality(live[r])
    /\ \A p \in Providers :
          /\ p \in live[r] => p <= spawned[r]
          /\ p <= spawned[r] /\ p \notin live[r] => out[r][p] # "unset"

SlotsGenuine(r) ==
    \A p \in Providers :
        /\ out[r][p] = "hit"  => isbn[r] \in Catalogue[p]
        /\ out[r][p] = "miss" => isbn[r] \notin Catalogue[p]

Stage(r) ==
    /\ pc[r] # "idle" => isbn[r] # None
    /\ pc[r] = "get" => spawned[r] = 0
    /\ pc[r] \in {"idle", "get", "set", "done"} => live[r] = {}
    /\ pc[r] = "set" => spawned[r] = N
    /\ pc[r] = "done" => spawned[r] \in {0, N}
    /\ pc[r] \in {"idle", "get", "spawn"} => result[r] = None
    /\ pc[r] = "set" => result[r] # None

IInv ==
    /\ TypeOK
    /\ \A r \in Resolvers : Counted(r) /\ SlotsGenuine(r) /\ Stage(r)
    /\ PriorityWins
    /\ ResultIsGenuine
    /\ CacheIsGenuine

\* While nothing fails, every resolve of an ISBN, whichever of the cache and
\* the providers answers it, gives the best provider's data.
Knows(i) == {p \in Providers : i \in Catalogue[p]}
Best(i)  == IF Knows(i) = {} THEN None ELSE CHOOSE p \in Knows(i) : Earliest(p, Knows(i))

BestDataWins ==
    ~Faulty => \A r \in Resolvers : pc[r] = "done" => result[r] = Best(isbn[r])

\* ... because without failures a slot says exactly what its provider has, and
\* whatever is in hand or in the cache is the best there is.
BestInv ==
    ~Faulty =>
        /\ \A i \in Isbns : cache[i] \in {None, Best(i)}
        /\ \A r \in Resolvers :
              /\ \A p \in Providers :
                    /\ out[r][p] # "error"
                    /\ out[r][p] = "miss" => p \notin Knows(isbn[r])
              /\ pc[r] \in {"set", "done"} => result[r] = Best(isbn[r])

\* Resolve writes back whatever hit it has, over whatever a concurrent resolve
\* has cached meanwhile, and entries never expire.  An entry changes only in a
\* resolve that asked every better provider that has the book and got an error:
\* without one, the order in which resolves finish cannot make the cache worse.
WorseDataHasACause ==
    [][\A i \in Isbns : cache[i] # None /\ cache'[i] # cache[i] =>
          \E r \in Resolvers :
              /\ pc[r] = "set" /\ isbn[r] = i
              /\ \A p \in Knows(i) : p < cache'[i] => out[r][p] = "error"]_vars

\* The comments on Resolve and on its package: however the goroutines run, the
\* callers see a chain that tries the providers in order.
PhaseOf ==
    [idle |-> "idle", get |-> "asked", spawn |-> "trying", set |-> "storing", done |-> "done"]

Failed(r) == {p \in Providers : out[r][p] = "error"}

Chain == INSTANCE LookupChain WITH
    phase <- [r \in Resolvers |-> PhaseOf[pc[r]]],
    failed <- [r \in Resolvers |-> Failed(r)]

ImplementsChain == Chain!Spec

\* Every call of Resolve returns.
EveryResolveReturns ==
    \A r \in Resolvers : pc[r] = "get" ~> pc[r] = "done"
=============================================================================
