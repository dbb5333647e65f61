----------------------------- MODULE LookupProofs -----------------------------
(***************************************************************************)
(* Lookup, for any number of providers, resolvers and ISBNs: the WaitGroup *)
(* counts the goroutines that still run, so the slice of outcomes is       *)
(* complete when it is read, and the earliest provider's hit wins.         *)
(***************************************************************************)
EXTENDS Lookup, FiniteSetTheorems, TLAPS

\* What IInv says of one resolver.
ReqOK(r) ==
    /\ Counted(r)
    /\ SlotsGenuine(r)
    /\ Stage(r)
    /\ AskedAll(r) => \A p \in Providers :
          result[r] = None \/ p < result[r] => out[r][p] \in {"miss", "error"}
    /\ result[r] # None => isbn[r] \in Catalogue[result[r]]

LEMMA Parts ==
  /\ IInv <=> TypeOK /\ CacheIsGenuine /\ \A r \in Resolvers : ReqOK(r)
  /\ IInv' <=> TypeOK' /\ CacheIsGenuine' /\ \A r \in Resolvers : ReqOK(r)'
  BY DEF IInv, ReqOK, PriorityWins, ResultIsGenuine

\* A step of one resolver leaves the others where they are.
Others(r) ==
    \A q \in Resolvers \ {r} :
        /\ pc'[q] = pc[q]
        /\ isbn'[q] = isbn[q]
        /\ spawned'[q] = spawned[q]
        /\ wg'[q] = wg[q]
        /\ out'[q] = out[q]
        /\ live'[q] = live[q]
        /\ result'[q] = result[q]

LEMMA Assemble ==
  ASSUME IInv, NEW r \in Resolvers, TypeOK', CacheIsGenuine', Others(r), ReqOK(r)'
  PROVE  IInv'
<1>1. ASSUME NEW q \in Resolvers \ {r} PROVE ReqOK(q)'
  <2>1. ReqOK(q)
    BY Parts
  <2> QED
    BY <2>1 DEF Others, ReqOK, Counted, SlotsGenuine, Stage, AskedAll
<1> QED
  BY <1>1, Parts

LEMMA LiveFinite ==
  ASSUME TypeOK, NEW r \in Resolvers
  PROVE  IsFiniteSet(live[r]) /\ live[r] \subseteq 1 .. N
<1>1. live[r] \subseteq 1 .. N
  BY DEF TypeOK, Providers
<1>2. IsFiniteSet(1 .. N)
  BY FS_Interval, CatalogueAssumption
<1> QED
  BY <1>1, <1>2, FS_Subset

LEMMA InitInv == Init => IInv
<1> SUFFICES ASSUME Init PROVE IInv
  OBVIOUS
<1>1. TypeOK /\ CacheIsGenuine
  BY CatalogueAssumption, NoneAssumption
     DEF Init, TypeOK, CacheIsGenuine, Labels, Outcomes, Final
<1>2. ASSUME NEW r \in Resolvers PROVE ReqOK(r)
  <2>1. Cardinality({}) = 0
    BY FS_EmptySet
  <2> QED
    BY <2>1, CatalogueAssumption
       DEF Init, ReqOK, Counted, SlotsGenuine, Stage, AskedAll, Providers
<1> QED
  BY <1>1, <1>2, Parts

-----------------------------------------------------------------------------
(* One step of one resolver *)

LEMMA CallStep ==
  ASSUME IInv, NEW r \in Resolvers, NEW i \in Isbns, Call(r, i)
  PROVE  IInv'
<1>1. TypeOK /\ CacheIsGenuine
  BY Parts
<1>2. TypeOK'
  BY <1>1, CatalogueAssumption DEF Call, Goto, TypeOK, Labels, Outcomes
<1>3. CacheIsGenuine' /\ Others(r)
  BY <1>1 DEF Call, Goto, Others, TypeOK, CacheIsGenuine
<1>4. Cardinality({}) = 0
  BY FS_EmptySet
<1>5. /\ pc'[r] = "get" /\ isbn'[r] = i /\ spawned'[r] = 0 /\ wg'[r] = 0
      /\ out'[r] = [p \in Providers |-> "unset"] /\ live'[r] = {} /\ result'[r] = None
  BY <1>1 DEF Call, Goto, TypeOK
<1>6. ReqOK(r)'
  BY <1>4, <1>5, CatalogueAssumption, NoneAssumption
     DEF ReqOK, Counted, SlotsGenuine, Stage, AskedAll, Providers
<1> QED
  BY <1>2, <1>3, <1>6, Assemble

LEMMA CacheStep ==
  ASSUME IInv, NEW r \in Resolvers, CacheHit(r) \/ CacheMiss(r) \/ CacheSet(r)
  PROVE  IInv'
<1>1. TypeOK /\ CacheIsGenuine /\ ReqOK(r)
  BY Parts
<1>2. /\ UNCHANGED <<isbn, spawned, wg, out, live>>
      /\ pc[r] \in {"get", "set"}
  BY DEF CacheHit, CacheMiss, CacheSet, Goto
<1>3. isbn[r] \in Isbns
  BY <1>1, <1>2 DEF ReqOK, Stage, TypeOK
<1>4. CASE CacheHit(r)
  <2>1. /\ pc' = [pc EXCEPT ![r] = "done"] /\ pc[r] = "get"
        /\ result' = [result EXCEPT ![r] = cache[isbn[r]]]
        /\ cache' = cache /\ cache[isbn[r]] # None
    BY <1>4 DEF CacheHit, Goto
  <2>2. cache[isbn[r]] \in Providers /\ isbn[r] \in Catalogue[cache[isbn[r]]]
    BY <1>1, <1>3, <2>1 DEF TypeOK, CacheIsGenuine
  <2>3. TypeOK' /\ CacheIsGenuine' /\ Others(r)
    BY <1>1, <1>2, <2>1, <2>2 DEF TypeOK, Labels, Others, CacheIsGenuine
  <2>4. spawned[r] = 0 /\ N # 0
    BY <1>1, <2>1, <2>2, CatalogueAssumption DEF ReqOK, Stage, Providers
  <2>5. ReqOK(r)'
    BY <1>1, <1>2, <2>1, <2>2, <2>4
       DEF ReqOK, Counted, SlotsGenuine, Stage, AskedAll, TypeOK
  <2> QED
    BY <2>3, <2>5, Assemble
<1>5. CASE CacheMiss(r)
  <2>1. /\ pc' = [pc EXCEPT ![r] = "spawn"] /\ pc[r] = "get"
        /\ result' = result /\ cache' = cache
    BY <1>5 DEF CacheMiss, Goto
  <2>2. TypeOK' /\ CacheIsGenuine' /\ Others(r)
    BY <1>1, <1>2, <2>1 DEF TypeOK, Labels, Others, CacheIsGenuine
  <2>3. ReqOK(r)'
    BY <1>1, <1>2, <2>1 DEF ReqOK, Counted, SlotsGenuine, Stage, AskedAll, TypeOK
  <2> QED
    BY <2>2, <2>3, Assemble
<1>6. CASE CacheSet(r)
  <2>1. /\ pc' = [pc EXCEPT ![r] = "done"] /\ pc[r] = "set"
        /\ result' = result
        /\ cache' = cache \/ cache' = [cache EXCEPT ![isbn[r]] = result[r]]
    BY <1>6 DEF CacheSet, Goto
  <2>2. result[r] \in Providers /\ isbn[r] \in Catalogue[result[r]]
    BY <1>1, <2>1 DEF ReqOK, Stage, TypeOK
  <2>3. TypeOK' /\ CacheIsGenuine' /\ Others(r)
    BY <1>1, <1>2, <1>3, <2>1, <2>2 DEF TypeOK, Labels, Others, CacheIsGenuine
  <2>4. ReqOK(r)'
    BY <1>1, <1>2, <2>1 DEF ReqOK, Counted, SlotsGenuine, Stage, AskedAll, TypeOK
  <2> QED
    BY <2>3, <2>4, Assemble
<1> QED
  BY <1>4, <1>5, <1>6

LEMMA SpawnStep ==
  ASSUME IInv, NEW r \in Resolvers, Spawn(r)
  PROVE  IInv'
<1> DEFINE p == spawned[r] + 1
<1>1. TypeOK /\ CacheIsGenuine /\ ReqOK(r) /\ N \in Nat
  BY Parts, CatalogueAssumption
<1>2. /\ UNCHANGED <<cache, pc, isbn, out, result>>
      /\ pc[r] = "spawn" /\ spawned[r] < N
      /\ spawned' = [spawned EXCEPT ![r] = p]
      /\ wg' = [wg EXCEPT ![r] = wg[r] + 1]
      /\ live' = [live EXCEPT ![r] = live[r] \cup {p}]
  BY DEF Spawn
<1>3. p \in Providers /\ p \notin live[r] /\ spawned[r] \in 0 .. N
  BY <1>1, <1>2 DEF TypeOK, Providers, ReqOK, Counted
<1>4. IsFiniteSet(live[r])
  BY <1>1, LiveFinite
<1>5. Cardinality(live[r] \cup {p}) = Cardinality(live[r]) + 1
  BY <1>3, <1>4, FS_AddElement
<1>6. wg[r] + 1 \in 0 .. N
  <2>1. IsFiniteSet(1 .. N) /\ Cardinality(1 .. N) = N
    BY <1>1, FS_Interval
  <2>2. live[r] \cup {p} \subseteq 1 .. N
    BY <1>1, <1>3, LiveFinite DEF Providers
  <2>3. Cardinality(live[r] \cup {p}) <= N
    BY <2>1, <2>2, FS_Subset, ZenonT(60)
  <2> QED
    BY <1>1, <1>5, <2>3 DEF ReqOK, Counted, TypeOK
<1>7. TypeOK' /\ CacheIsGenuine' /\ Others(r)
  BY <1>1, <1>2, <1>3, <1>6 DEF TypeOK, Others, CacheIsGenuine, Providers
<1>8. ReqOK(r)'
  <2>1. Counted(r)'
    BY <1>1, <1>2, <1>3, <1>5 DEF ReqOK, Counted, TypeOK, Providers
  <2> QED
    BY <1>1, <1>2, <2>1 DEF ReqOK, SlotsGenuine, Stage, AskedAll, TypeOK
<1> QED
  BY <1>7, <1>8, Assemble

LEMMA ReportStep ==
  ASSUME IInv, NEW r \in Resolvers, NEW p \in Providers, Report(r, p)
  PROVE  IInv'
<1>1. TypeOK /\ CacheIsGenuine /\ ReqOK(r)
  BY Parts
<1>2. PICK o \in Final :
        /\ o = "hit" => isbn[r] \in Catalogue[p]
        /\ o = "miss" => isbn[r] \notin Catalogue[p]
        /\ out' = [out EXCEPT ![r][p] = o]
  BY DEF Report
<1>3. UNCHANGED <<cache, pc, isbn, spawned, wg, live, result>> /\ p \in live[r]
  BY DEF Report
<1>4. pc[r] = "spawn"
  BY <1>1, <1>3 DEF ReqOK, Stage, TypeOK, Labels
<1>5. TypeOK' /\ CacheIsGenuine' /\ Others(r)
  BY <1>1, <1>2, <1>3 DEF TypeOK, Others, CacheIsGenuine, Outcomes
<1>6. /\ out'[r][p] = o
      /\ \A q \in Providers \ {p} : out'[r][q] = out[r][q]
  BY <1>1, <1>2 DEF TypeOK
<1>7. SlotsGenuine(r)'
  BY <1>1, <1>2, <1>3, <1>6 DEF ReqOK, SlotsGenuine, Final
<1>8. Counted(r)'
  BY <1>1, <1>3, <1>6 DEF ReqOK, Counted, Final
<1>9. ReqOK(r)'
  BY <1>1, <1>3, <1>4, <1>7, <1>8 DEF ReqOK, Stage, AskedAll
<1> QED
  BY <1>5, <1>9, Assemble

LEMMA FinishStep ==
  ASSUME IInv, NEW r \in Resolvers, NEW p \in Providers, Finish(r, p)
  PROVE  IInv'
<1>1. TypeOK /\ CacheIsGenuine /\ ReqOK(r) /\ N \in Nat
  BY Parts, CatalogueAssumption
<1>2. /\ UNCHANGED <<cache, pc, isbn, spawned, out, result>>
      /\ p \in live[r] /\ out[r][p] # "unset"
      /\ wg' = [wg EXCEPT ![r] = wg[r] - 1]
      /\ live' = [live EXCEPT ![r] = live[r] \ {p}]
  BY DEF Finish
<1>3. pc[r] = "spawn"
  BY <1>1, <1>2 DEF ReqOK, Stage, TypeOK, Labels
<1>4. Cardinality(live[r] \ {p}) = Cardinality(live[r]) - 1
      /\ Cardinality(live[r] \ {p}) \in Nat
  BY <1>1, <1>2, LiveFinite, FS_RemoveElement, FS_CardinalityType
<1>5. wg[r] - 1 \in 0 .. N
  BY <1>1, <1>4 DEF ReqOK, Counted, TypeOK
<1>6. TypeOK' /\ CacheIsGenuine' /\ Others(r)
  BY <1>1, <1>2, <1>5 DEF TypeOK, Others, CacheIsGenuine
<1>7. Counted(r)'
  BY <1>1, <1>2, <1>4 DEF ReqOK, Counted, TypeOK
<1>8. ReqOK(r)'
  BY <1>1, <1>2, <1>3, <1>7 DEF ReqOK, SlotsGenuine, Stage, AskedAll, TypeOK
<1> QED
  BY <1>6, <1>8, Assemble

\* The wait is over only when every goroutine has ended, so every slot is filled.
LEMMA WaitIsJoin ==
  ASSUME TypeOK, NEW r \in Resolvers, Counted(r), Waited(r)
  PROVE  live[r] = {} /\ \A p \in Providers : out[r][p] \in Final
<1>1. Cardinality(live[r]) = 0
  BY DEF Counted, Waited
<1>2. live[r] = {}
  BY <1>1, LiveFinite, FS_EmptySet
<1> QED
  BY <1>2, CatalogueAssumption DEF Counted, Waited, TypeOK, Outcomes, Providers

LEMMA ChooseStep ==
  ASSUME IInv, NEW r \in Resolvers,
         NotFound(r) \/ \E p \in Providers : Choose(r, p)
  PROVE  IInv'
<1>1. TypeOK /\ CacheIsGenuine /\ ReqOK(r) /\ N \in Nat
  BY Parts, CatalogueAssumption
<1>2. /\ UNCHANGED <<cache, isbn, spawned, wg, out, live>>
      /\ pc[r] = "spawn" /\ Waited(r)
  BY DEF NotFound, Choose, Goto
<1>3. live[r] = {} /\ \A p \in Providers : out[r][p] \in Final
  BY <1>1, <1>2, WaitIsJoin DEF ReqOK
<1>4. spawned[r] = N /\ isbn[r] # None /\ result[r] = None
  BY <1>1, <1>2 DEF ReqOK, Stage, Waited
<1>5. CASE NotFound(r)
  <2>1. pc' = [pc EXCEPT ![r] = "done"] /\ result' = result /\ Hits(r) = {}
    BY <1>5 DEF NotFound, Goto
  <2>2. TypeOK' /\ CacheIsGenuine' /\ Others(r)
    BY <1>1, <1>2, <2>1 DEF TypeOK, Labels, Others, CacheIsGenuine
  <2>3. \A p \in Providers : out[r][p] \in {"miss", "error"}
    BY <1>3, <2>1 DEF Hits, Final
  <2>4. ReqOK(r)'
    BY <1>1, <1>2, <1>3, <1>4, <2>1, <2>3
       DEF ReqOK, Counted, SlotsGenuine, Stage, AskedAll, TypeOK
  <2> QED
    BY <2>2, <2>4, Assemble
<1>6. CASE \E p \in Providers : Choose(r, p)
  <2>1. PICK p \in Providers : Choose(r, p)
    BY <1>6
  <2>2. /\ pc' = [pc EXCEPT ![r] = "set"]
        /\ result' = [result EXCEPT ![r] = p]
        /\ out[r][p] = "hit"
        /\ \A q \in Providers : out[r][q] = "hit" => p <= q
    BY <2>1 DEF Choose, Goto, Earliest, Hits
  <2>3. TypeOK' /\ CacheIsGenuine' /\ Others(r)
    BY <1>1, <1>2, <2>2 DEF TypeOK, Labels, Others, CacheIsGenuine
  <2>4. \A q \in Providers : q < p => out[r][q] \in {"miss", "error"}
    BY <1>1, <1>3, <2>2 DEF Final, Providers
  <2>5. p # None /\ isbn[r] \in Catalogue[p]
    BY <1>1, <2>2, NoneAssumption DEF ReqOK, SlotsGenuine
  <2>6. ReqOK(r)'
    BY <1>1, <1>2, <1>3, <1>4, <2>2, <2>4, <2>5
       DEF ReqOK, Counted, SlotsGenuine, Stage, AskedAll, TypeOK
  <2> QED
    BY <2>3, <2>6, Assemble
<1> QED
  BY <1>5, <1>6

-----------------------------------------------------------------------------
(* The theorems *)

LEMMA NextInv == IInv /\ [Next]_vars => IInv'
<1> SUFFICES ASSUME IInv, [Next]_vars PROVE IInv'
  OBVIOUS
<1>1. ASSUME NEW r \in Resolvers, NEW i \in Isbns, Call(r, i) PROVE IInv'
  BY <1>1, CallStep
<1>2. ASSUME NEW r \in Resolvers, Resolver(r) PROVE IInv'
  BY <1>2, CacheStep, SpawnStep, ChooseStep DEF Resolver
<1>3. ASSUME NEW r \in Resolvers, NEW p \in Providers, Goroutine(r, p) PROVE IInv'
  BY <1>3, ReportStep, FinishStep DEF Goroutine
<1>4. CASE UNCHANGED vars
  BY <1>4, Parts DEF vars, TypeOK, CacheIsGenuine, ReqOK, Counted, SlotsGenuine, Stage, AskedAll
<1> QED
  BY <1>1, <1>2, <1>3, <1>4 DEF Next

\* The inductive invariant holds throughout.
THEOREM InvariantHolds == Spec => []IInv
  BY InitInv, NextInv, PTL DEF Spec

\* Every variable keeps its type: the WaitGroup's counter never goes below zero,
\* which in Go is a panic.
THEOREM TypeCorrect == Spec => []TypeOK
  BY InvariantHolds, PTL DEF IInv

\* However the providers' answers interleave, Resolve reads the outcomes only
\* when no goroutine is left that could write one.
LEMMA InvJoined == IInv => JoinedBeforeRead
<1> SUFFICES ASSUME IInv, NEW r \in Resolvers,
                    pc[r] = "set" \/ (pc[r] = "done" /\ spawned[r] > 0)
             PROVE  live[r] = {} /\ \A p \in Providers : out[r][p] # "unset"
  BY DEF JoinedBeforeRead
<1>1. TypeOK /\ ReqOK(r) /\ N \in Nat
  BY Parts, CatalogueAssumption
<1>2. live[r] = {} /\ spawned[r] = N
  BY <1>1 DEF ReqOK, Stage, TypeOK
<1> QED
  BY <1>1, <1>2 DEF ReqOK, Counted, Providers

\* Resolve reads the slice of outcomes only after every goroutine has ended.
THEOREM Joined == Spec => []JoinedBeforeRead
  BY InvariantHolds, InvJoined, PTL

\* The result is that of the first provider, in the configured order, that has
\* the book, whichever of them answers first.
THEOREM Priority == Spec => []PriorityWins
  BY InvariantHolds, PTL DEF IInv

\* Results and cached entries are never those of another ISBN.
THEOREM Genuine == Spec => [](ResultIsGenuine /\ CacheIsGenuine)
  BY InvariantHolds, PTL DEF IInv

\* Only CacheSet writes to the cache, and it writes the result of a resolver
\* whose better providers missed or failed; none of those has the book but one
\* that failed.
LEMMA WriteHasACause ==
  ASSUME IInv, NEW r \in Resolvers, CacheSet(r),
         NEW i \in Isbns, cache'[i] # cache[i]
  PROVE  /\ pc[r] = "set" /\ isbn[r] = i
         /\ \A p \in Knows(i) : p < cache'[i] => out[r][p] = "error"
<1>1. TypeOK /\ ReqOK(r)
  BY Parts
<1>2. pc[r] = "set" /\ cache' = [cache EXCEPT ![isbn[r]] = result[r]]
  BY <1>1 DEF CacheSet, Goto, TypeOK
<1>3. isbn[r] = i /\ cache'[i] = result[r]
  BY <1>1, <1>2 DEF TypeOK
<1>4. AskedAll(r)
  BY <1>1, <1>2 DEF ReqOK, Stage, AskedAll
<1>5. ASSUME NEW p \in Knows(i), p < result[r] PROVE out[r][p] = "error"
  <2>1. p \in Providers /\ i \in Catalogue[p]
    BY DEF Knows
  <2> QED
    BY <1>1, <1>3, <1>4, <1>5, <2>1 DEF ReqOK, SlotsGenuine
<1> QED
  BY <1>2, <1>3, <1>5

\* A cached book is replaced by a worse provider's only in a resolve to which
\* every better provider that has it answered with an error.
THEOREM NoWorseWithoutFault == Spec => WorseDataHasACause
<1> DEFINE Caused ==
      \A i \in Isbns : cache[i] # None /\ cache'[i] # cache[i] =>
          \E r \in Resolvers :
              /\ pc[r] = "set" /\ isbn[r] = i
              /\ \A p \in Knows(i) : p < cache'[i] => out[r][p] = "error"
<1>1. ASSUME IInv, [Next]_vars PROVE [Caused]_vars
  <2>1. ASSUME NEW r \in Resolvers, CacheSet(r) PROVE Caused
    BY <1>1, <2>1, WriteHasACause
  <2>2. ASSUME cache' = cache PROVE Caused
    BY <2>2
  <2>3. \/ cache' = cache \/ \E r \in Resolvers : CacheSet(r)
    BY <1>1 DEF Next, Resolver, Goroutine, Call, CacheHit, CacheMiss, Spawn, NotFound,
                Choose, Report, Finish, vars
  <2> QED
    BY <2>1, <2>2, <2>3
<1>2. IInv /\ [Next]_vars => [Caused]_vars
  BY <1>1
<1> QED
  BY <1>2, InvariantHolds, PTL DEF Spec, WorseDataHasACause

-----------------------------------------------------------------------------
(* Without failures: BestInv is inductive, given IInv *)

\* The earliest element is the one Best chooses.
LEMMA BestIs ==
  ASSUME NEW i, NEW p \in Providers, i \in Catalogue[p],
         \A q \in Providers : i \in Catalogue[q] => p <= q
  PROVE  p = Best(i)
<1>1. p \in Knows(i) /\ Earliest(p, Knows(i))
  BY DEF Knows, Earliest
<1>2. ASSUME NEW q \in Knows(i), Earliest(q, Knows(i)) PROVE q = p
  BY <1>1, <1>2, CatalogueAssumption DEF Earliest, Knows, Providers
<1> QED
  BY <1>1, <1>2 DEF Best

\* BestInv, of one resolver.
ReqBest(r) ==
    /\ \A p \in Providers :
          /\ out[r][p] # "error"
          /\ out[r][p] = "miss" => p \notin Knows(isbn[r])
    /\ pc[r] \in {"set", "done"} => result[r] = Best(isbn[r])

CacheBest == \A i \in Isbns : cache[i] \in {None, Best(i)}

LEMMA BestParts ==
  /\ BestInv <=> (~Faulty => CacheBest /\ \A r \in Resolvers : ReqBest(r))
  /\ BestInv' <=> (~Faulty => CacheBest' /\ \A r \in Resolvers : ReqBest(r)')
  BY DEF BestInv, CacheBest, ReqBest

LEMMA BestAssemble ==
  ASSUME BestInv, NEW r \in Resolvers, Others(r),
         ~Faulty => CacheBest' /\ ReqBest(r)'
  PROVE  BestInv'
<1>1. ASSUME ~Faulty, NEW q \in Resolvers \ {r} PROVE ReqBest(q)'
  BY <1>1, BestParts DEF Others, ReqBest
<1> QED
  BY <1>1, BestParts

LEMMA BestInit == Init => BestInv
  BY CatalogueAssumption DEF Init, BestInv

\* The choice after the wait: a provider that was asked and missed does not
\* know the book, one that hit does.
LEMMA BestChoose ==
  ASSUME IInv, BestInv, ~Faulty, NEW r \in Resolvers, Waited(r)
  PROVE  /\ Hits(r) = {} => Best(isbn[r]) = None
         /\ \A p \in Providers : Earliest(p, Hits(r)) => p = Best(isbn[r])
<1>1. \A p \in Providers : out[r][p] \in Final /\ out[r][p] # "error"
  BY Parts, WaitIsJoin, BestParts DEF ReqOK, ReqBest
<1>2. Hits(r) = Knows(isbn[r])
  BY <1>1, Parts, BestParts DEF Hits, Knows, ReqBest, ReqOK, SlotsGenuine, Final
<1>3. ASSUME NEW p \in Providers, Earliest(p, Hits(r)) PROVE p = Best(isbn[r])
  BY <1>2, <1>3, BestIs DEF Earliest, Knows
<1> QED
  BY <1>2, <1>3 DEF Best

LEMMA BestStep ==
  ASSUME IInv, BestInv, [Next]_vars
  PROVE  BestInv'
<1>1. TypeOK
  BY Parts
<1>2. ASSUME NEW r \in Resolvers, NEW i \in Isbns, Call(r, i) PROVE BestInv'
  <2>1. Others(r)
    BY <1>1, <1>2 DEF Call, Goto, Others, TypeOK
  <2>2. /\ pc'[r] = "get" /\ cache' = cache
        /\ \A p \in Providers : out'[r][p] = "unset"
    BY <1>1, <1>2 DEF Call, Goto, TypeOK
  <2>3. ~Faulty => CacheBest' /\ ReqBest(r)'
    BY <2>2, BestParts DEF CacheBest, ReqBest
  <2> QED
    BY <2>1, <2>3, BestAssemble
<1>3. ASSUME NEW r \in Resolvers, CacheHit(r) \/ CacheMiss(r) PROVE BestInv'
  <2>1. Others(r) /\ UNCHANGED <<cache, isbn, out>>
    BY <1>1, <1>3 DEF CacheHit, CacheMiss, Goto, Others, TypeOK
  <2>2. isbn[r] \in Isbns
    BY <1>1, <1>3, Parts DEF CacheHit, CacheMiss, Goto, ReqOK, Stage, TypeOK
  <2>3. \/ pc'[r] = "spawn"
        \/ result'[r] = cache[isbn[r]] /\ cache[isbn[r]] # None
    BY <1>1, <1>3 DEF CacheHit, CacheMiss, Goto, TypeOK
  <2>4. ~Faulty => CacheBest' /\ ReqBest(r)'
    BY <2>1, <2>2, <2>3, BestParts DEF CacheBest, ReqBest
  <2> QED
    BY <2>1, <2>4, BestAssemble
<1>4. ASSUME NEW r \in Resolvers, CacheSet(r) PROVE BestInv'
  <2>1. /\ Others(r) /\ UNCHANGED <<isbn, out, result>>
        /\ pc[r] = "set"
        /\ cache' = cache \/ cache' = [cache EXCEPT ![isbn[r]] = result[r]]
    BY <1>1, <1>4 DEF CacheSet, Goto, Others, TypeOK
  <2>2. ~Faulty => result[r] = Best(isbn[r])
    BY <2>1, BestParts DEF ReqBest
  <2>3. ~Faulty => CacheBest' /\ ReqBest(r)'
    BY <1>1, <2>1, <2>2, BestParts DEF CacheBest, ReqBest, TypeOK
  <2> QED
    BY <2>1, <2>3, BestAssemble
<1>5. ASSUME NEW r \in Resolvers, NotFound(r) \/ \E p \in Providers : Choose(r, p)
      PROVE  BestInv'
  <2>1. Others(r) /\ UNCHANGED <<cache, isbn, out>> /\ Waited(r)
    BY <1>1, <1>5 DEF NotFound, Choose, Goto, Others, TypeOK
  <2>2. \/ Hits(r) = {} /\ result'[r] = None
        \/ \E p \in Providers : Earliest(p, Hits(r)) /\ result'[r] = p
    BY <1>1, <1>5, Parts DEF NotFound, Choose, Goto, TypeOK, ReqOK, Stage
  <2>3. ~Faulty => result'[r] = Best(isbn[r])
    BY <2>1, <2>2, BestChoose
  <2>4. ~Faulty => CacheBest' /\ ReqBest(r)'
    BY <2>1, <2>3, BestParts DEF CacheBest, ReqBest
  <2> QED
    BY <2>1, <2>4, BestAssemble
<1>6. ASSUME NEW r \in Resolvers, Spawn(r) \/ \E p \in Providers : Finish(r, p)
      PROVE  BestInv'
  <2>1. Others(r) /\ UNCHANGED <<cache, pc, isbn, out, result>>
    BY <1>1, <1>6 DEF Spawn, Finish, Others, TypeOK
  <2>2. ~Faulty => CacheBest' /\ ReqBest(r)'
    BY <2>1, BestParts DEF CacheBest, ReqBest
  <2> QED
    BY <2>1, <2>2, BestAssemble
<1>7. ASSUME NEW r \in Resolvers, NEW p \in Providers, Report(r, p) PROVE BestInv'
  <2>1. Others(r) /\ UNCHANGED <<cache, pc, isbn, result>>
    BY <1>1, <1>7 DEF Report, Others, TypeOK
  <2>2. PICK o \in Final :
          /\ o = "miss" => isbn[r] \notin Catalogue[p]
          /\ o = "error" => Faulty
          /\ out' = [out EXCEPT ![r][p] = o]
    BY <1>7 DEF Report
  <2>3. /\ out'[r][p] = o
        /\ \A q \in Providers \ {p} : out'[r][q] = out[r][q]
    BY <1>1, <2>2 DEF TypeOK
  <2>4. ~Faulty => CacheBest' /\ ReqBest(r)'
    BY <2>1, <2>2, <2>3, BestParts DEF CacheBest, ReqBest, Knows
  <2> QED
    BY <2>1, <2>4, BestAssemble
<1>8. CASE UNCHANGED vars
  BY <1>8, BestParts DEF vars, CacheBest, ReqBest
<1> QED
  BY <1>2, <1>3, <1>4, <1>5, <1>6, <1>7, <1>8 DEF Next, Resolver, Goroutine

\* While nothing fails, what Resolve returns does not depend on the order of the
\* answers, on the cache, or on whether there is a cache at all.
THEOREM BestWins == Spec => []BestDataWins
<1>1. BestInv => BestDataWins
  BY DEF BestInv, BestDataWins
<1>2. Spec => []BestInv
  BY InvariantHolds, BestInit, BestStep, PTL DEF Spec
<1> QED
  BY <1>1, <1>2, PTL

-----------------------------------------------------------------------------
(* Lookup implements LookupChain: what the goroutines do is a stutter of   *)
(* the chain, but for a provider's failure; the end of the wait is the     *)
(* step in which the chain runs.                                           *)

phase  == [r \in Resolvers |-> PhaseOf[pc[r]]]
failed == [r \in Resolvers |-> Failed(r)]

Mimicked == [Chain!Next]_(Chain!vars)

\* A NoopCache stays empty.
Emptied == \A i \in Isbns : cache[i] # None => Redis

LEMMA EmptiedNext == IInv /\ Emptied /\ [Next]_vars => Emptied'
<1> SUFFICES ASSUME IInv, Emptied, [Next]_vars PROVE Emptied'
  OBVIOUS
<1>1. ASSUME NEW r \in Resolvers, CacheSet(r) PROVE Emptied'
  BY <1>1 DEF CacheSet, Emptied, IInv, TypeOK
<1>2. CASE UNCHANGED cache
  BY <1>2 DEF Emptied
<1>3. UNCHANGED cache \/ \E r \in Resolvers : CacheSet(r)
  BY DEF Next, vars, Call, Resolver, Goroutine, CacheHit, CacheMiss, Spawn, Report, Finish,
         Choose, NotFound
<1> QED
  BY <1>1, <1>2, <1>3

LEMMA StaysEmpty == Spec => []Emptied
<1>1. Init => Emptied
  BY DEF Init, Emptied
<1> QED
  BY <1>1, EmptiedNext, InvariantHolds, PTL DEF Spec

LEMMA PhaseMoved ==
  ASSUME TypeOK, NEW r \in Resolvers, NEW from \in Labels, NEW to \in Labels, Goto(r, from, to)
  PROVE  /\ phase[r] = PhaseOf[from]
         /\ phase' = [phase EXCEPT ![r] = PhaseOf[to]]
<1>1. pc[r] = from /\ pc' = [pc EXCEPT ![r] = to]
  BY DEF Goto
<1>2. pc \in [Resolvers -> Labels]
  BY DEF TypeOK
<1>3. phase' = [q \in Resolvers |-> PhaseOf[pc'[q]]]
  BY DEF phase
<1>4. \A q \in Resolvers : pc'[q] = IF q = r THEN to ELSE pc[q]
  BY <1>1, <1>2
<1>5. phase' = [q \in Resolvers |-> IF q = r THEN PhaseOf[to] ELSE PhaseOf[pc[q]]]
  BY <1>3, <1>4, Zenon
<1>6. phase[r] = PhaseOf[from]
  BY <1>1 DEF phase
<1>7. /\ DOMAIN phase = Resolvers
      /\ \A q \in Resolvers : phase[q] = PhaseOf[pc[q]]
  BY DEF phase
<1>8. phase' = [phase EXCEPT ![r] = PhaseOf[to]]
  BY <1>5, <1>7
<1> QED
  BY <1>6, <1>8

LEMMA Phases ==
  /\ PhaseOf["idle"] = "idle" /\ PhaseOf["get"] = "asked" /\ PhaseOf["spawn"] = "trying"
  /\ PhaseOf["set"] = "storing" /\ PhaseOf["done"] = "done"
  /\ {"idle", "get", "spawn", "set", "done"} \subseteq Labels
  BY DEF PhaseOf, Labels

LEMMA FailedKept ==
  ASSUME UNCHANGED out
  PROVE  failed' = failed
  BY DEF failed, Failed

\* Once all have been waited for, the hits are what the chain would get.
LEMMA HitsAnswer ==
  ASSUME IInv, NEW r \in Resolvers, Waited(r)
  PROVE  Hits(r) = Chain!Answering(r)
<1>1. Counted(r) /\ SlotsGenuine(r) /\ TypeOK
  BY DEF IInv
<1>2. \A p \in Providers : out[r][p] \in Final
  BY <1>1, WaitIsJoin
<1>3. \A p \in Providers : out[r][p] = "hit" <=> isbn[r] \in Catalogue[p] /\ p \notin failed[r]
  BY <1>1, <1>2 DEF SlotsGenuine, Final, failed, Failed
<1> QED
  BY <1>3 DEF Hits, Chain!Answering, failed, Providers

LEMMA Stutters ==
  ASSUME UNCHANGED <<cache, pc, isbn, result>>, failed' = failed
  PROVE  Mimicked
  BY DEF Mimicked, Chain!vars, phase, failed

LEMMA CallMimicked ==
  ASSUME IInv, NEW r \in Resolvers, NEW i \in Isbns, Call(r, i)
  PROVE  Mimicked
<1>1. PICK from \in {"idle", "done"} : Goto(r, from, "get")
  BY DEF Call
<1>2. phase[r] \in {"idle", "done"} /\ phase' = [phase EXCEPT ![r] = "asked"]
  BY <1>1, PhaseMoved, Phases DEF IInv
<1>3. out' = [out EXCEPT ![r] = [p \in Providers |-> "unset"]]
  BY DEF Call
<1>4. failed' = [failed EXCEPT ![r] = {}]
  <2>1. \A q \in Resolvers : out'[q] = IF q = r THEN [p \in Providers |-> "unset"] ELSE out[q]
    BY <1>3 DEF IInv, TypeOK
  <2>2. failed' = [q \in Resolvers |-> {p \in Providers : out'[q][p] = "error"}]
    BY DEF failed, Failed
  <2>3. \A q \in Resolvers : {p \in Providers : out'[q][p] = "error"} = IF q = r THEN {} ELSE failed[q]
    BY <2>1 DEF failed, Failed
  <2> QED
    BY <2>2, <2>3 DEF failed
<1>5. Chain!Ask(r, i)
  BY <1>2, <1>4 DEF Chain!Ask, Chain!Turn, Call, phase, failed
<1> QED
  BY <1>5 DEF Mimicked, Chain!Next

LEMMA CacheMimicked ==
  ASSUME IInv, Emptied, NEW r \in Resolvers, CacheHit(r) \/ CacheMiss(r) \/ CacheSet(r)
  PROVE  Mimicked
<1>1. failed' = failed
  BY FailedKept DEF CacheHit, CacheMiss, CacheSet
<1>2. ASSUME CacheHit(r) PROVE Chain!Remembered(r)
  <2>1. phase[r] = "asked" /\ phase' = [phase EXCEPT ![r] = "done"]
    BY <1>2, PhaseMoved, Phases DEF IInv, CacheHit
  <2> QED
    BY <1>1, <1>2, <2>1 DEF Chain!Remembered, Chain!Turn, CacheHit, phase, failed
<1>3. ASSUME CacheMiss(r) PROVE Chain!Unknown(r)
  <2>1. phase[r] = "asked" /\ phase' = [phase EXCEPT ![r] = "trying"]
    BY <1>3, PhaseMoved, Phases DEF IInv, CacheMiss
  <2>2. isbn[r] \in Isbns
    BY <1>3 DEF IInv, TypeOK, Stage, CacheMiss, Goto
  <2>3. Faulty \/ cache[isbn[r]] = None
    BY <1>3, <2>2 DEF CacheMiss, Emptied
  <2> QED
    BY <1>1, <1>3, <2>1, <2>3 DEF Chain!Unknown, Chain!Turn, CacheMiss, phase, failed
<1>4. ASSUME CacheSet(r) PROVE Chain!Store(r)
  <2>1. phase[r] = "storing" /\ phase' = [phase EXCEPT ![r] = "done"]
    BY <1>4, PhaseMoved, Phases DEF IInv, CacheSet
  <2> QED
    BY <1>1, <1>4, <2>1 DEF Chain!Store, Chain!Turn, CacheSet, phase, failed
<1> QED
  BY <1>2, <1>3, <1>4 DEF Mimicked, Chain!Next

LEMMA ReportMimicked ==
  ASSUME IInv, NEW r \in Resolvers, NEW p \in Providers, Report(r, p)
  PROVE  Mimicked
<1>1. PICK o \in Final : (o = "error" => Faulty) /\ out' = [out EXCEPT ![r][p] = o]
  BY DEF Report
<1>2. UNCHANGED <<cache, pc, isbn, result>> /\ p \in live[r] /\ out[r][p] = "unset"
  BY DEF Report
<1>3. \A q \in Resolvers : \A s \in Providers :
        out'[q][s] = IF q = r /\ s = p THEN o ELSE out[q][s]
  BY <1>1 DEF IInv, TypeOK
<1>4. failed' = [q \in Resolvers |-> {s \in Providers : out'[q][s] = "error"}]
  BY DEF failed, Failed
<1>5. CASE o = "error"
  <2>1. pc[r] = "spawn"
    BY <1>2 DEF IInv, TypeOK, Stage, Labels
  <2>2. phase[r] = "trying"
    BY <2>1, Phases DEF phase
  <2>3. \A q \in Resolvers : {s \in Providers : out'[q][s] = "error"}
                               = IF q = r THEN failed[r] \cup {p} ELSE failed[q]
    BY <1>3, <1>5 DEF failed, Failed
  <2>4. failed' = [failed EXCEPT ![r] = failed[r] \cup {p}]
    BY <1>4, <2>3 DEF failed
  <2>5. phase' = phase
    BY <1>2 DEF phase
  <2>6. Chain!Break(r, p)
    BY <1>1, <1>2, <1>5, <2>2, <2>4, <2>5 DEF Chain!Break, phase, failed
  <2> QED
    BY <2>6 DEF Mimicked, Chain!Next, Providers
<1>6. CASE o # "error"
  <2>1. \A q \in Resolvers : {s \in Providers : out'[q][s] = "error"} = failed[q]
    BY <1>2, <1>3, <1>6 DEF failed, Failed
  <2>2. failed' = failed
    BY <1>4, <2>1 DEF failed
  <2> QED
    BY <1>2, <2>2, Stutters
<1> QED
  BY <1>5, <1>6

LEMMA ChooseMimicked ==
  ASSUME IInv, NEW r \in Resolvers, NotFound(r) \/ \E p \in Providers : Choose(r, p)
  PROVE  Mimicked
<1>1. failed' = failed /\ Waited(r)
  BY FailedKept DEF NotFound, Choose
<1>2. Hits(r) = Chain!Answering(r)
  BY <1>1, HitsAnswer
<1>3. ASSUME NotFound(r) PROVE Chain!GiveUp(r)
  <2>1. phase[r] = "trying" /\ phase' = [phase EXCEPT ![r] = "done"]
    BY <1>3, PhaseMoved, Phases DEF IInv, NotFound
  <2> QED
    BY <1>1, <1>2, <1>3, <2>1 DEF Chain!GiveUp, Chain!Turn, NotFound, phase, failed
<1>4. ASSUME NEW p \in Providers, Choose(r, p) PROVE Chain!Pick(r, p)
  <2>1. phase[r] = "trying" /\ phase' = [phase EXCEPT ![r] = "storing"]
    BY <1>4, PhaseMoved, Phases DEF IInv, Choose
  <2> QED
    BY <1>1, <1>2, <1>4, <2>1 DEF Chain!Pick, Chain!Turn, Choose, Earliest, phase, failed
<1> QED
  BY <1>3, <1>4 DEF Mimicked, Chain!Next, Providers

\* Whatever order the goroutines run and the providers answer in, and whatever
\* fails, callers see a cache and a chain that tries the providers in order,
\* as the comments on Resolve and on its package say.
THEOREM Refines == Spec => ImplementsChain
<1>1. Init => Chain!Init
  BY DEF Init, Chain!Init, PhaseOf, Failed
<1>2. IInv /\ Emptied /\ [Next]_vars => [Chain!Next]_(Chain!vars)
  <2> SUFFICES ASSUME IInv, Emptied, [Next]_vars PROVE Mimicked
    BY DEF Mimicked
  <2>1. ASSUME NEW r \in Resolvers, Spawn(r) \/ \E p \in Providers : Finish(r, p)
        PROVE  Mimicked
    BY <2>1, FailedKept, Stutters DEF Spawn, Finish
  <2>2. CASE UNCHANGED vars
    BY <2>2, FailedKept, Stutters DEF vars
  <2> QED
    BY <2>1, <2>2, CallMimicked, CacheMimicked, ReportMimicked, ChooseMimicked
       DEF Next, Resolver, Goroutine
<1> QED
  BY <1>1, <1>2, InvariantHolds, StaysEmpty, PTL DEF Spec, ImplementsChain, Chain!Spec
=============================================================================
