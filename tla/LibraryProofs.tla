---------------------------- MODULE LibraryProofs ----------------------------
(***************************************************************************)
(* Library, for any library, query, page size and file.                    *)
(*                                                                         *)
(* What a search finds is a sequence that lists a set of books in an order *)
(* (FoundLists).  Books that come or go move the border between the books  *)
(* ahead and behind it by as many (Squeeze), so the errors of a grid       *)
(* filled page by page are bounded by the changes made meanwhile.          *)
(***************************************************************************)
EXTENDS Library, FuzzyProofs, FiniteSetTheorems, TLAPS

-----------------------------------------------------------------------------
(* Numbers, and places in an order *)

StrictOrder(R, S) ==
    /\ \A x \in S : <<x, x>> \notin R
    /\ \A x, y, z \in S : <<x, y>> \in R /\ <<y, z>> \in R => <<x, z>> \in R
    /\ \A x, y \in S : x = y \/ <<x, y>> \in R \/ <<y, x>> \in R

LEMMA RankType ==
  ASSUME NEW S, IsFiniteSet(S), NEW R, NEW x
  PROVE  IsFiniteSet(Earlier(x, S, R)) /\ Rank(x, S, R) \in Nat
  BY FS_Subset, FS_CardinalityType DEF Earlier, Rank

\* The later of two has the higher rank.
LEMMA RankGrows ==
  ASSUME NEW S, IsFiniteSet(S), NEW R, StrictOrder(R, S),
         NEW x \in S, NEW y \in S, <<x, y>> \in R
  PROVE  Rank(x, S, R) < Rank(y, S, R)
<1> DEFINE X == Earlier(x, S, R)
           Y == Earlier(y, S, R)
<1>1. IsFiniteSet(X) /\ IsFiniteSet(Y) /\ Cardinality(X) \in Nat /\ Cardinality(Y) \in Nat
  BY RankType DEF Rank
<1>2. x \notin X /\ X \cup {x} \subseteq Y
  BY DEF Earlier, StrictOrder
<1>3. Cardinality(X \cup {x}) = Cardinality(X) + 1
  BY <1>1, <1>2, FS_AddElement
<1>4. Cardinality(X \cup {x}) <= Cardinality(Y)
  BY <1>1, <1>2, FS_Subset
<1> QED
  BY <1>1, <1>3, <1>4 DEF Rank

LEMMA RankDiffers ==
  ASSUME NEW S, IsFiniteSet(S), NEW R, StrictOrder(R, S),
         NEW x \in S, NEW y \in S, Rank(x, S, R) = Rank(y, S, R)
  PROVE  x = y
<1>1. <<x, y>> \notin R /\ <<y, x>> \notin R
  BY RankGrows, RankType
<1> QED
  BY <1>1 DEF StrictOrder

\* Every rank from zero up to one less than the size is taken.
LEMMA RankTaken ==
  ASSUME NEW S, IsFiniteSet(S), NEW R, StrictOrder(R, S)
  PROVE  /\ \A x \in S : Rank(x, S, R) < Cardinality(S)
         /\ \A n \in 1 .. Cardinality(S) : \E x \in S : Rank(x, S, R) = n - 1
<1> DEFINE N == Cardinality(S)
           f == [x \in S |-> Rank(x, S, R) + 1]
<1>0. N \in Nat
  BY FS_CardinalityType
<1>1. ASSUME NEW x \in S PROVE Rank(x, S, R) < N
  <2>1. Earlier(x, S, R) \subseteq S \ {x}
    BY DEF Earlier, StrictOrder
  <2>2. IsFiniteSet(S \ {x}) /\ Cardinality(S \ {x}) = N - 1
    BY FS_RemoveElement
  <2>3. Rank(x, S, R) <= N - 1
    BY <2>1, <2>2, FS_Subset DEF Rank
  <2> QED
    BY <1>0, <2>3, RankType
<1>2. f \in Injection(S, 1 .. N)
  <2>1. f \in [S -> 1 .. N]
    BY <1>0, <1>1, RankType
  <2>2. \A x, y \in S : f[x] = f[y] => x = y
    BY RankDiffers, RankType
  <2> QED
    BY <2>1, <2>2 DEF Injection, IsInjective
<1>3. IsFiniteSet(1 .. N) /\ Cardinality(1 .. N) = N
  BY <1>0, FS_Interval
<1>4. f \in Surjection(S, 1 .. N)
  BY <1>2, <1>3, FS_Injection
<1>5. ASSUME NEW n \in 1 .. N PROVE \E x \in S : Rank(x, S, R) = n - 1
  <2>1. PICK x \in S : f[x] = n
    BY <1>4 DEF Surjection
  <2> QED
    BY <1>0, <2>1, RankType
<1> QED
  BY <1>1, <1>5

-----------------------------------------------------------------------------
(* Sequences that list a set in an order *)

Lists(F, S, R) ==
    /\ F \in Seq(S)
    /\ \A x \in S : \E n \in 1 .. Len(F) : F[n] = x
    /\ \A m, n \in 1 .. Len(F) : m < n <=> <<F[m], F[n]>> \in R

LEMMA ListingLists ==
  ASSUME NEW S, IsFiniteSet(S), NEW R, StrictOrder(R, S)
  PROVE  /\ Lists(Listing(S, R), S, R)
         /\ Len(Listing(S, R)) = Cardinality(S)
<1> DEFINE N == Cardinality(S)
           L == Listing(S, R)
<1>0. N \in Nat
  BY FS_CardinalityType
<1>1. ASSUME NEW n \in 1 .. N PROVE L[n] \in S /\ Rank(L[n], S, R) = n - 1
  <2>1. \E x \in S : Cardinality({y \in S : <<y, x>> \in R}) = n - 1
    BY RankTaken DEF Rank, Earlier
  <2>2. L[n] = CHOOSE x \in S : Cardinality({y \in S : <<y, x>> \in R}) = n - 1
    BY DEF Listing
  <2> QED
    BY <2>1, <2>2 DEF Rank, Earlier
<1>2. L \in [1 .. N -> S]
  BY <1>1 DEF Listing
<1>3. L \in Seq(S) /\ Len(L) = N
  BY <1>0, <1>2
<1> HIDE DEF L
<1>4. ASSUME NEW x \in S PROVE \E n \in 1 .. N : L[n] = x
  <2>1. Rank(x, S, R) \in Nat /\ Rank(x, S, R) < N
    BY RankTaken, RankType
  <2>2. Rank(x, S, R) + 1 \in 1 .. N
    BY <1>0, <2>1
  <2>3. L[Rank(x, S, R) + 1] = x
    BY <1>1, <2>1, <2>2, RankDiffers
  <2> QED
    BY <2>2, <2>3
<1>5. ASSUME NEW m \in 1 .. N, NEW n \in 1 .. N PROVE m < n <=> <<L[m], L[n]>> \in R
  <2>1. CASE <<L[m], L[n]>> \in R
    BY <1>0, <1>1, <2>1, RankGrows
  <2>2. CASE <<L[n], L[m]>> \in R
    <3>1. n < m
      BY <1>0, <1>1, <2>2, RankGrows
    <3>2. <<L[m], L[n]>> \notin R
      BY <1>1, <2>2 DEF StrictOrder
    <3> QED
      BY <3>1, <3>2
  <2>3. CASE L[m] = L[n]
    <3>1. m = n
      BY <1>0, <1>1, <2>3
    <3> QED
      BY <1>1, <2>3, <3>1 DEF StrictOrder
  <2> QED
    BY <1>1, <2>1, <2>2, <2>3 DEF StrictOrder
<1> QED
  BY <1>3, <1>4, <1>5 DEF L, Lists

\* As many come before the n-th of a list as before n.
LEMMA RankInList ==
  ASSUME NEW S, NEW R, NEW F, Lists(F, S, R), \A x \in S : <<x, x>> \notin R
  PROVE  /\ IsFiniteSet(S) /\ Cardinality(S) = Len(F) /\ Len(F) \in Nat
         /\ \A m, n \in 1 .. Len(F) : F[m] = F[n] => m = n
         /\ \A n \in 1 .. Len(F) : F[n] \in S /\ Rank(F[n], S, R) = n - 1
<1>1. /\ F \in [1 .. Len(F) -> S] /\ Len(F) \in Nat
      /\ \A x \in S : \E n \in 1 .. Len(F) : F[n] = x
      /\ \A m, n \in 1 .. Len(F) : m < n <=> <<F[m], F[n]>> \in R
  BY DEF Lists
<1>2. ASSUME NEW m \in 1 .. Len(F), NEW n \in 1 .. Len(F), F[m] = F[n] PROVE m = n
  <2>1. ~(m < n) /\ ~(n < m)
    BY <1>1, <1>2
  <2> QED
    BY <1>1, <2>1
<1>3. ASSUME NEW k \in 0 .. Len(F), NEW T, T = {F[m] : m \in 1 .. k}
      PROVE  IsFiniteSet(T) /\ Cardinality(T) = k
  <2> DEFINE g == [m \in 1 .. k |-> F[m]]
  <2>1. g \in Bijection(1 .. k, T)
    <3>1. g \in [1 .. k -> T]
      BY <1>3
    <3>2. \A m, n \in 1 .. k : g[m] = g[n] => m = n
      BY <1>1, <1>2
    <3>3. \A t \in T : \E m \in 1 .. k : g[m] = t
      BY <1>3
    <3> QED
      BY <3>1, <3>2, <3>3 DEF Bijection, Injection, IsInjective, Surjection
  <2>2. k \in Nat
    BY <1>1
  <2>3. IsFiniteSet(1 .. k) /\ Cardinality(1 .. k) = k
    BY <2>2, FS_Interval
  <2> QED
    BY <2>1, <2>3, FS_Bijection DEF ExistsBijection
<1>4. S = {F[m] : m \in 1 .. Len(F)}
  BY <1>1
<1>5. IsFiniteSet(S) /\ Cardinality(S) = Len(F)
  BY <1>1, <1>3, <1>4, SMTT(60)
<1>6. ASSUME NEW n \in 1 .. Len(F) PROVE F[n] \in S /\ Rank(F[n], S, R) = n - 1
  <2>1. ASSUME NEW y \in S PROVE <<y, F[n]>> \in R <=> \E m \in 1 .. (n - 1) : y = F[m]
    <3>1. PICK i \in 1 .. Len(F) : F[i] = y
      BY <1>1
    <3>2. <<y, F[n]>> \in R <=> i < n
      BY <1>1, <3>1
    <3>3. ASSUME NEW m \in 1 .. (n - 1), y = F[m] PROVE i < n
      BY <1>1, <1>2, <3>1, <3>3
    <3> QED
      BY <1>1, <3>1, <3>2, <3>3
  <2>2. \A m \in 1 .. (n - 1) : F[m] \in S
    BY <1>1
  <2>3. Earlier(F[n], S, R) = {F[m] : m \in 1 .. (n - 1)}
    BY <2>1, <2>2 DEF Earlier
  <2>4. n - 1 \in 0 .. Len(F) /\ F[n] \in S
    BY <1>1
  <2>5. Cardinality(Earlier(F[n], S, R)) = n - 1
    BY <1>3, <2>3, <2>4
  <2> QED
    BY <2>4, <2>5 DEF Rank
<1> QED
  BY <1>1, <1>2, <1>5, <1>6

-----------------------------------------------------------------------------
(* The order of texts *)

\* s comes before t if it is less at the first place where they differ, or ends
\* there.
LEMMA PrecedesIs ==
  ASSUME NEW s \in Seq(Nat), NEW t \in Seq(Nat)
  PROVE  Precedes(s, t) <=>
            \E i \in 1 .. Len(t) :
               /\ \A k \in 1 .. (i - 1) : k <= Len(s) /\ s[k] = t[k]
               /\ i = Len(s) + 1 \/ (i <= Len(s) /\ s[i] < t[i])
<1> DEFINE short == 1 .. IF Len(s) < Len(t) THEN Len(s) ELSE Len(t)
           differ == {i \in short : s[i] # t[i]}
           first(i) == /\ \A k \in 1 .. (i - 1) : k <= Len(s) /\ s[k] = t[k]
                       /\ i = Len(s) + 1 \/ (i <= Len(s) /\ s[i] < t[i])
<1>0. Len(s) \in Nat /\ Len(t) \in Nat /\ \A i \in 1 .. Len(s) : s[i] \in Nat
  OBVIOUS
<1>1. CASE differ = {}
  <2>1. Precedes(s, t) <=> Len(s) < Len(t)
    BY <1>1 DEF Precedes
  <2>2. \A i \in short : s[i] = t[i]
    BY <1>1
  <2>3. ASSUME Len(s) < Len(t) PROVE \E i \in 1 .. Len(t) : first(i)
    <3>1. PICK i \in 1 .. Len(t) : i = Len(s) + 1
      BY <1>0, <2>3
    <3>2. \A k \in 1 .. (i - 1) : k <= Len(s) /\ k \in short
      BY <1>0, <2>3, <3>1
    <3> QED
      BY <2>2, <3>1, <3>2
  <2>4. ASSUME NEW i \in 1 .. Len(t), first(i) PROVE Len(s) < Len(t)
    <3>1. CASE i <= Len(s) /\ s[i] < t[i]
      <4>1. i \in short /\ s[i] \in Nat
        BY <1>0, <3>1
      <4>2. s[i] < s[i]
        BY <2>2, <3>1, <4>1
      <4> QED
        BY <4>1, <4>2
    <3> QED
      BY <1>0, <2>4, <3>1
  <2> QED
    BY <2>1, <2>3, <2>4
<1>2. CASE differ # {}
  <2> DEFINE m == Min(differ)
  <2>0. differ \subseteq Nat
    BY <1>0
  <2>1. m \in differ /\ \A i \in differ : m <= i
    <3> HIDE DEF differ
    <3> QED
      BY <1>2, <2>0, MinIs
  <2> HIDE DEF m
  <2>2. Precedes(s, t) <=> s[m] < t[m]
    BY <1>2 DEF Precedes, m
  <2>3. m \in 1 .. Len(s) /\ m \in 1 .. Len(t) /\ s[m] # t[m]
    BY <1>0, <2>1
  <2>4. \A k \in 1 .. (m - 1) : k <= Len(s) /\ s[k] = t[k]
    <3> TAKE k \in 1 .. (m - 1)
    <3>1. k \in short
      BY <1>0, <2>3
    <3>2. k \notin differ
      BY <2>1, <2>3
    <3> QED
      BY <1>0, <2>3, <3>1, <3>2
  <2>5. ASSUME s[m] < t[m] PROVE first(m)
    BY <2>3, <2>4, <2>5
  <2>6. ASSUME NEW i \in 1 .. Len(t), first(i) PROVE s[m] < t[m]
    <3>1. CASE i < m
      <4>1. s[i] = t[i] /\ i \in 1 .. Len(s) /\ s[i] \in Nat
        BY <1>0, <2>3, <2>4, <3>1
      <4> QED
        BY <1>0, <2>6, <4>1
    <3>2. CASE i > m
      BY <1>0, <2>3, <2>6, <3>2
    <3>3. CASE i = m
      BY <1>0, <2>3, <2>6, <3>3
    <3> QED
      BY <1>0, <2>3, <3>1, <3>2, <3>3
  <2> QED
    BY <2>2, <2>3, <2>5, <2>6
<1> QED
  BY <1>1, <1>2

LEMMA PrecedesOrder == StrictOrder({p \in Seq(Nat) \X Seq(Nat) : Precedes(p[1], p[2])}, Seq(Nat))
<1>1. ASSUME NEW s \in Seq(Nat) PROVE ~Precedes(s, s)
  <2>1. Len(s) \in Nat /\ \A i \in 1 .. Len(s) : s[i] \in Nat
    OBVIOUS
  <2> QED
    BY <2>1, PrecedesIs
<1>2. ASSUME NEW s \in Seq(Nat), NEW t \in Seq(Nat), NEW u \in Seq(Nat),
             Precedes(s, t), Precedes(t, u)
      PROVE  Precedes(s, u)
  <2>0. /\ Len(s) \in Nat /\ Len(t) \in Nat /\ Len(u) \in Nat
        /\ \A i \in 1 .. Len(s) : s[i] \in Nat
        /\ \A i \in 1 .. Len(t) : t[i] \in Nat
        /\ \A i \in 1 .. Len(u) : u[i] \in Nat
    OBVIOUS
  <2>1. PICK i \in 1 .. Len(t) :
          /\ \A k \in 1 .. (i - 1) : k <= Len(s) /\ s[k] = t[k]
          /\ i = Len(s) + 1 \/ (i <= Len(s) /\ s[i] < t[i])
    BY <1>2, PrecedesIs
  <2>2. PICK j \in 1 .. Len(u) :
          /\ \A k \in 1 .. (j - 1) : k <= Len(t) /\ t[k] = u[k]
          /\ j = Len(t) + 1 \/ (j <= Len(t) /\ t[j] < u[j])
    BY <1>2, PrecedesIs
  <2>3. \E m \in 1 .. Len(u) :
          /\ \A k \in 1 .. (m - 1) : k <= Len(s) /\ s[k] = u[k]
          /\ m = Len(s) + 1 \/ (m <= Len(s) /\ s[m] < u[m])
    <3>1. CASE i < j
      <4>1. i \in 1 .. Len(u) /\ t[i] = u[i]
        BY <2>0, <2>1, <2>2, <3>1
      <4>2. \A k \in 1 .. (i - 1) : k <= Len(s) /\ s[k] = u[k]
        <5>1. \A k \in 1 .. (i - 1) : k \in 1 .. (j - 1)
          BY <2>0, <3>1
        <5> QED
          BY <2>1, <2>2, <5>1
      <4> QED
        BY <2>1, <4>1, <4>2
    <3>2. CASE j <= i
      <4>1. \A k \in 1 .. (j - 1) : k <= Len(s) /\ s[k] = u[k]
        BY <2>0, <2>1, <2>2, <3>2, SMTT(60)
      <4>2. j <= Len(t) /\ t[j] < u[j]
        BY <2>0, <2>1, <2>2, <3>2
      <4>3. j = Len(s) + 1 \/ (j <= Len(s) /\ s[j] < u[j])
        <5>1. CASE j = i
          BY <2>0, <2>1, <4>2, <5>1, SMTT(60)
        <5>2. CASE j < i
          BY <2>0, <2>1, <4>2, <5>2
        <5> QED
          BY <3>2, <5>1, <5>2
      <4> QED
        BY <4>1, <4>3
    <3> QED
      BY <2>0, <3>1, <3>2
  <2> QED
    BY <2>3, PrecedesIs
<1>3. ASSUME NEW s \in Seq(Nat), NEW t \in Seq(Nat), s # t, ~Precedes(s, t)
      PROVE  Precedes(t, s)
  <2>0. /\ Len(s) \in Nat /\ Len(t) \in Nat
        /\ \A i \in 1 .. Len(s) : s[i] \in Nat
        /\ \A i \in 1 .. Len(t) : t[i] \in Nat
    OBVIOUS
  <2> DEFINE differ == {i \in 1 .. Len(s) : i <= Len(t) /\ s[i] # t[i]}
  <2>1. CASE differ = {}
    <3>1. \A i \in 1 .. Len(s) : i <= Len(t) => s[i] = t[i]
      BY <2>1
    <3>2. Len(s) # Len(t)
      BY <1>3, <2>0, <3>1, SMTT(60)
    <3>3. CASE Len(s) < Len(t)
      <4>1. PICK m \in 1 .. Len(t) : m = Len(s) + 1
        BY <2>0, <3>3
      <4>2. \A k \in 1 .. (m - 1) : k <= Len(s) /\ k \in 1 .. Len(s) /\ k <= Len(t)
        BY <2>0, <3>3, <4>1
      <4>3. \A k \in 1 .. (m - 1) : k <= Len(s) /\ s[k] = t[k]
        BY <3>1, <4>2
      <4> QED
        BY <1>3, <4>1, <4>3, PrecedesIs
    <3>4. CASE Len(t) < Len(s)
      <4>1. PICK m \in 1 .. Len(s) : m = Len(t) + 1
        BY <2>0, <3>4
      <4>2. \A k \in 1 .. (m - 1) : k <= Len(t) /\ k \in 1 .. Len(s) /\ k <= Len(t)
        BY <2>0, <3>4, <4>1
      <4>3. \A k \in 1 .. (m - 1) : k <= Len(t) /\ t[k] = s[k]
        BY <3>1, <4>2
      <4> QED
        BY <4>1, <4>3, PrecedesIs
    <3> QED
      BY <2>0, <3>2, <3>3, <3>4
  <2>2. CASE differ # {}
    <3>0. differ \subseteq Nat
      BY <2>0
    <3>1. PICK m \in differ : \A i \in differ : m <= i
      <4> HIDE DEF differ
      <4> QED
        BY <2>2, <3>0, LeastNumber
    <3>2. \A k \in 1 .. (m - 1) : k <= Len(s) /\ k <= Len(t) /\ s[k] = t[k]
      BY <2>0, <3>1, SMTT(60)
    <3>3. s[m] < t[m] \/ t[m] < s[m]
      BY <2>0, <3>1
    <3>4. ~(s[m] < t[m])
      <4>1. m \in 1 .. Len(t) /\ m <= Len(s)
        BY <2>0, <3>1
      <4> QED
        BY <1>3, <3>2, <4>1, PrecedesIs
    <3>5. m \in 1 .. Len(s) /\ m <= Len(t) /\ t[m] < s[m]
      BY <2>0, <3>1, <3>3, <3>4
    <3> QED
      BY <3>2, <3>5, PrecedesIs
  <2> QED
    BY <2>1, <2>2
<1> QED
  BY <1>1, <1>2, <1>3 DEF StrictOrder

-----------------------------------------------------------------------------
(* Filtering and sorting *)

\* at says where in s the elements of Kept(s, I) come from: from I, in order.
Sources(at, s, I) ==
    /\ at \in Seq(I)
    /\ Len(at) = Len(Kept(s, I))
    /\ \A n \in 1 .. Len(at) : at[n] \in I /\ Kept(s, I)[n] = s[at[n]]
    /\ \A i \in I : \E n \in 1 .. Len(at) : at[n] = i
    /\ \A m, n \in 1 .. Len(at) : m < n <=> at[m] < at[n]

LEMMA KeptIs ==
  ASSUME NEW X, NEW s \in Seq(X), NEW I \in SUBSET DOMAIN s
  PROVE  /\ Kept(s, I) \in Seq(X) /\ Len(Kept(s, I)) = Cardinality(I)
         /\ IsFiniteSet(I) /\ Cardinality(I) \in Nat /\ Cardinality(I) <= Len(s)
         /\ \E at : Sources(at, s, I)
<1> DEFINE R == {p \in I \X I : p[1] < p[2]}
           at == Listing(I, R)
<1>0. DOMAIN s = 1 .. Len(s) /\ Len(s) \in Nat /\ I \subseteq Nat
  OBVIOUS
<1>1. IsFiniteSet(1 .. Len(s)) /\ Cardinality(1 .. Len(s)) = Len(s)
  BY <1>0, FS_Interval, SMTT(60)
<1>2. IsFiniteSet(I) /\ Cardinality(I) \in Nat /\ Cardinality(I) <= Len(s)
  BY <1>0, <1>1, FS_Subset, FS_CardinalityType
<1>3. StrictOrder(R, I)
  BY <1>0 DEF StrictOrder
<1>4. \A i, j \in I : <<i, j>> \in R <=> i < j
  OBVIOUS
<1>5. Kept(s, I) = [n \in DOMAIN at |-> s[at[n]]]
  BY DEF Kept
<1> HIDE DEF R
<1>6. Lists(at, I, R) /\ Len(at) = Cardinality(I)
  BY <1>2, <1>3, ListingLists
<1> HIDE DEF at
<1>7. /\ at \in Seq(I) /\ DOMAIN at = 1 .. Len(at)
      /\ \A n \in 1 .. Len(at) : at[n] \in I
      /\ \A i \in I : \E n \in 1 .. Len(at) : at[n] = i
      /\ \A m, n \in 1 .. Len(at) : m < n <=> <<at[m], at[n]>> \in R
  BY <1>6 DEF Lists
<1>8. Kept(s, I) \in [1 .. Len(at) -> X]
  BY <1>0, <1>5, <1>7
<1>9. Kept(s, I) \in Seq(X) /\ Len(Kept(s, I)) = Cardinality(I)
  BY <1>2, <1>6, <1>8
<1>10. \A n \in 1 .. Len(at) : Kept(s, I)[n] = s[at[n]]
  BY <1>5, <1>7
<1>11. \A m, n \in 1 .. Len(at) : m < n <=> at[m] < at[n]
  BY <1>4, <1>7
<1>12. Sources(at, s, I)
  BY <1>6, <1>7, <1>9, <1>10, <1>11 DEF Sources
<1> QED
  BY <1>2, <1>9, <1>12

LEMMA KeptLibrary ==
  ASSUME NEW s, IsLibrary(s), NEW I \in SUBSET DOMAIN s
  PROVE  IsLibrary(Kept(s, I)) /\ ToSet(Kept(s, I)) = {s[i] : i \in I}
<1>1. s \in Seq(AllBooks) /\ DOMAIN s = 1 .. Len(s)
  BY DEF IsLibrary
<1>2. Kept(s, I) \in Seq(AllBooks)
  BY <1>1, KeptIs
<1>3. PICK at : Sources(at, s, I)
  BY <1>1, KeptIs
<1>4. DOMAIN Kept(s, I) = 1 .. Len(at) /\ Len(at) \in Nat
  BY <1>2, <1>3 DEF Sources
<1>5. ASSUME NEW m \in 1 .. Len(at), NEW n \in 1 .. Len(at),
             Kept(s, I)[m].isbn = Kept(s, I)[n].isbn
      PROVE  m = n
  <2>1. /\ at[m] \in DOMAIN s /\ at[n] \in DOMAIN s
        /\ Kept(s, I)[m] = s[at[m]] /\ Kept(s, I)[n] = s[at[n]]
    BY <1>3 DEF Sources
  <2>2. at[m] = at[n] /\ at[m] \in Nat
    BY <1>1, <1>5, <2>1 DEF IsLibrary
  <2>3. (m < n <=> at[m] < at[n]) /\ (n < m <=> at[n] < at[m])
    BY <1>3 DEF Sources
  <2> QED
    BY <1>4, <2>2, <2>3
<1>6. ToSet(Kept(s, I)) = {s[i] : i \in I}
  BY <1>3, <1>4, SMTT(60) DEF ToSet, Sources
<1> QED
  BY <1>2, <1>4, <1>5, <1>6 DEF IsLibrary

\* Sorting by a text, places breaking ties.
LEMMA KeyOrder ==
  ASSUME NEW P, P \subseteq Nat, NEW key \in [P -> Seq(Nat)]
  PROVE  StrictOrder({p \in P \X P : \/ Precedes(key[p[1]], key[p[2]])
                                     \/ key[p[1]] = key[p[2]] /\ p[1] < p[2]}, P)
<1>1. /\ \A t \in Seq(Nat) : ~Precedes(t, t)
      /\ \A s, t, u \in Seq(Nat) : Precedes(s, t) /\ Precedes(t, u) => Precedes(s, u)
      /\ \A s, t \in Seq(Nat) : s = t \/ Precedes(s, t) \/ Precedes(t, s)
  BY PrecedesOrder DEF StrictOrder
<1> DEFINE less(x, y) == Precedes(key[x], key[y]) \/ (key[x] = key[y] /\ x < y)
<1>2. \A x \in P : ~less(x, x)
  BY <1>1
<1>3. \A x, y, z \in P : less(x, y) /\ less(y, z) => less(x, z)
  <2> SUFFICES ASSUME NEW x \in P, NEW y \in P, NEW z \in P, less(x, y), less(y, z)
               PROVE  less(x, z)
    OBVIOUS
  <2>1. key[x] \in Seq(Nat) /\ key[y] \in Seq(Nat) /\ key[z] \in Seq(Nat)
        /\ x \in Nat /\ y \in Nat /\ z \in Nat
    OBVIOUS
  <2>2. CASE Precedes(key[x], key[y])
    BY <1>1, <2>1, <2>2
  <2>3. CASE key[x] = key[y] /\ x < y
    BY <2>1, <2>3
  <2> QED
    BY <2>2, <2>3
<1>4. \A x, y \in P : x = y \/ less(x, y) \/ less(y, x)
  BY <1>1
<1> QED
  BY <1>2, <1>3, <1>4 DEF StrictOrder

\* The places of s in the order a sort leaves them in.
PlaceOrder(s, order) ==
    {p \in (DOMAIN s) \X (DOMAIN s) : Ranked(s[p[1]], p[1], s[p[2]], p[2], order)}

LEMMA PlaceOrderStrict ==
  ASSUME NEW s \in Seq(AllBooks), NEW order
  PROVE  StrictOrder(PlaceOrder(s, order), DOMAIN s)
<1>0. DOMAIN s \subseteq Nat /\ \A i \in DOMAIN s : s[i] \in AllBooks
  OBVIOUS
<1>1. CASE order = "title"
  <2> DEFINE key == [i \in DOMAIN s |-> ToLower(s[i].title)]
  <2>1. key \in [DOMAIN s -> Seq(Nat)]
    BY <1>0, LowerText, BookAssumption
  <2>2. PlaceOrder(s, order) = {p \in (DOMAIN s) \X (DOMAIN s) :
                                  \/ Precedes(key[p[1]], key[p[2]])
                                  \/ key[p[1]] = key[p[2]] /\ p[1] < p[2]}
    BY <1>1 DEF PlaceOrder, Ranked
  <2> HIDE DEF key
  <2> QED
    BY <1>0, <2>1, <2>2, KeyOrder
<1>2. CASE order = "author"
  <2> DEFINE key == [i \in DOMAIN s |-> ToLower(s[i].author)]
  <2>1. key \in [DOMAIN s -> Seq(Nat)]
    BY <1>0, LowerText, BookAssumption
  <2>2. PlaceOrder(s, order) = {p \in (DOMAIN s) \X (DOMAIN s) :
                                  \/ Precedes(key[p[1]], key[p[2]])
                                  \/ key[p[1]] = key[p[2]] /\ p[1] < p[2]}
    BY <1>2 DEF PlaceOrder, Ranked
  <2> HIDE DEF key
  <2> QED
    BY <1>0, <2>1, <2>2, KeyOrder
<1>3. CASE order = "old"
  <2>1. PlaceOrder(s, order) = {p \in (DOMAIN s) \X (DOMAIN s) : p[1] > p[2]}
    BY <1>3 DEF PlaceOrder, Ranked
  <2> QED
    BY <1>0, <2>1 DEF StrictOrder
<1>4. CASE order \notin {"title", "author", "old"}
  <2>1. PlaceOrder(s, order) = {p \in (DOMAIN s) \X (DOMAIN s) : p[1] < p[2]}
    BY <1>4 DEF PlaceOrder, Ranked
  <2> QED
    BY <1>0, <2>1 DEF StrictOrder
<1> QED
  BY <1>1, <1>2, <1>3, <1>4

\* What sortBooks makes of s: a place of the result stands for one of s.
LEMMA SortPlaces ==
  ASSUME NEW s \in Seq(AllBooks), NEW order
  PROVE  \E at : /\ Lists(at, DOMAIN s, PlaceOrder(s, order))
                 /\ Len(at) = Len(s)
                 /\ sortBooks(s, order) = [n \in 1 .. Len(s) |-> s[at[n]]]
<1> DEFINE P == DOMAIN s
           R == PlaceOrder(s, order)
           L == Listing(P, R)
<1>0. P = 1 .. Len(s) /\ Len(s) \in Nat
  OBVIOUS
<1>1. IsFiniteSet(P) /\ Cardinality(P) = Len(s)
  BY <1>0, FS_Interval, SMTT(60)
<1>2. Lists(L, P, R) /\ Len(L) = Len(s)
  BY <1>1, PlaceOrderStrict, ListingLists
<1>3. CASE order = "title"
  <2>1. R = {p \in P \X P : \/ Precedes(ToLower(s[p[1]].title), ToLower(s[p[2]].title))
                            \/ ToLower(s[p[1]].title) = ToLower(s[p[2]].title) /\ p[1] < p[2]}
    BY <1>3 DEF PlaceOrder, Ranked
  <2> DEFINE keys == [i \in P |-> ToLower(s[i].title)]
  <2>2. R = {p \in P \X P : \/ Precedes(keys[p[1]], keys[p[2]])
                            \/ keys[p[1]] = keys[p[2]] /\ p[1] < p[2]}
    BY <2>1
  <2>3. sortBooks(s, order) = [k \in P |-> s[L[k]]]
    <3>1. sortBooks(s, order) = SortedBy(s, keys)
      BY <1>3 DEF sortBooks
    <3> HIDE DEF keys
    <3> QED
      BY <2>2, <3>1 DEF SortedBy
  <2> QED
    BY <1>0, <1>2, <2>3
<1>4. CASE order = "author"
  <2>1. R = {p \in P \X P : \/ Precedes(ToLower(s[p[1]].author), ToLower(s[p[2]].author))
                            \/ ToLower(s[p[1]].author) = ToLower(s[p[2]].author) /\ p[1] < p[2]}
    BY <1>4 DEF PlaceOrder, Ranked
  <2> DEFINE keys == [i \in P |-> ToLower(s[i].author)]
  <2>2. R = {p \in P \X P : \/ Precedes(keys[p[1]], keys[p[2]])
                            \/ keys[p[1]] = keys[p[2]] /\ p[1] < p[2]}
    BY <2>1
  <2>3. sortBooks(s, order) = [k \in P |-> s[L[k]]]
    <3>1. sortBooks(s, order) = SortedBy(s, keys)
      BY <1>4 DEF sortBooks
    <3> HIDE DEF keys
    <3> QED
      BY <2>2, <3>1 DEF SortedBy
  <2> QED
    BY <1>0, <1>2, <2>3
<1>5. CASE order = "old"
  <2> DEFINE at == [n \in 1 .. Len(s) |-> Len(s) - n + 1]
  <2>1. at \in Seq(P) /\ Len(at) = Len(s)
    BY <1>0
  <2>2. R = {p \in P \X P : p[1] > p[2]}
    BY <1>5 DEF PlaceOrder, Ranked
  <2>3. \A i \in P : Len(s) - i + 1 \in 1 .. Len(s) /\ at[Len(s) - i + 1] = i
    BY <1>0
  <2>4. \A m, n \in 1 .. Len(s) : m < n <=> <<at[m], at[n]>> \in R
    BY <1>0, <2>2
  <2>5. sortBooks(s, order) = [n \in 1 .. Len(s) |-> s[at[n]]]
    BY <1>0, <1>5 DEF sortBooks, Reverse
  <2> HIDE DEF at, R
  <2>6. \A i \in P : \E n \in 1 .. Len(at) : at[n] = i
    BY <2>1, <2>3
  <2>7. Lists(at, P, R)
    BY <2>1, <2>4, <2>6 DEF Lists
  <2> QED
    BY <2>1, <2>5, <2>7 DEF R
<1>6. CASE order \notin {"title", "author", "old"}
  <2> DEFINE at == [n \in 1 .. Len(s) |-> n]
  <2>1. at \in Seq(P) /\ Len(at) = Len(s)
    BY <1>0
  <2>2. R = {p \in P \X P : p[1] < p[2]}
    BY <1>6 DEF PlaceOrder, Ranked
  <2>3. \A m, n \in 1 .. Len(s) : m < n <=> <<at[m], at[n]>> \in R
    BY <1>0, <2>2
  <2>4. sortBooks(s, order) = [n \in 1 .. Len(s) |-> s[at[n]]]
    BY <1>0, <1>6 DEF sortBooks
  <2>5. \A i \in P : i \in 1 .. Len(s) /\ at[i] = i
    BY <1>0
  <2> HIDE DEF at, R
  <2>6. \A i \in P : \E n \in 1 .. Len(at) : at[n] = i
    BY <2>1, <2>5
  <2>7. Lists(at, P, R)
    BY <2>1, <2>3, <2>6 DEF Lists
  <2> QED
    BY <2>1, <2>4, <2>7 DEF R
<1> QED
  BY <1>3, <1>4, <1>5, <1>6

-----------------------------------------------------------------------------
(* What a search finds *)

LEMMA AtIs ==
  ASSUME NEW s, IsLibrary(s)
  PROVE  /\ \A i \in DOMAIN s : At(s, s[i]) = i /\ s[i] \in ToSet(s)
         /\ \A b \in ToSet(s) : At(s, b) \in DOMAIN s /\ s[At(s, b)] = b
         /\ ToSet(s) \subseteq AllBooks
         /\ DOMAIN s \subseteq Nat
<1>1. DOMAIN s = 1 .. Len(s) /\ Len(s) \in Nat /\ \A i \in DOMAIN s : s[i] \in AllBooks
  BY DEF IsLibrary
<1>2. \A i, j \in DOMAIN s : s[i] = s[j] => i = j
  BY DEF IsLibrary
<1> QED
  BY <1>1, <1>2 DEF At, ToSet

LEMMA BookOrderStrict ==
  ASSUME NEW s, IsLibrary(s), NEW order
  PROVE  /\ StrictOrder(BookOrder(s, order), ToSet(s))
         /\ \A i, j \in DOMAIN s :
               <<s[i], s[j]>> \in BookOrder(s, order) <=> <<i, j>> \in PlaceOrder(s, order)
<1>1. \A i, j \in DOMAIN s :
         <<s[i], s[j]>> \in BookOrder(s, order) <=> <<i, j>> \in PlaceOrder(s, order)
  BY AtIs DEF BookOrder, PlaceOrder
<1>2. StrictOrder(PlaceOrder(s, order), DOMAIN s)
  BY PlaceOrderStrict DEF IsLibrary
<1>3. \A b \in ToSet(s) : At(s, b) \in DOMAIN s /\ s[At(s, b)] = b
  BY AtIs
<1> DEFINE P == PlaceOrder(s, order)
           B == BookOrder(s, order)
<1> HIDE DEF P, B
<1>4. \A b, c \in ToSet(s) : <<b, c>> \in B <=> <<At(s, b), At(s, c)>> \in P
  BY <1>1, <1>3 DEF P, B
<1>5. StrictOrder(P, DOMAIN s)
  BY <1>2 DEF P
<1>6. \A b \in ToSet(s) : <<b, b>> \notin B
  BY <1>3, <1>4, <1>5 DEF StrictOrder
<1>7. ASSUME NEW b \in ToSet(s), NEW c \in ToSet(s), NEW d \in ToSet(s),
             <<b, c>> \in B, <<c, d>> \in B
      PROVE  <<b, d>> \in B
  <2>1. <<At(s, b), At(s, c)>> \in P /\ <<At(s, c), At(s, d)>> \in P
    BY <1>4, <1>7
  <2>2. <<At(s, b), At(s, d)>> \in P
    BY <1>3, <1>5, <2>1 DEF StrictOrder
  <2> QED
    BY <1>4, <2>2
<1>8. ASSUME NEW b \in ToSet(s), NEW c \in ToSet(s), b # c
      PROVE  <<b, c>> \in B \/ <<c, b>> \in B
  <2>1. At(s, b) # At(s, c)
    BY <1>3, <1>8
  <2>2. <<At(s, b), At(s, c)>> \in P \/ <<At(s, c), At(s, b)>> \in P
    BY <1>3, <1>5, <2>1 DEF StrictOrder
  <2> QED
    BY <1>4, <2>2
<1>9. StrictOrder(B, ToSet(s))
  BY <1>6, <1>7, <1>8 DEF StrictOrder
<1> QED
  BY <1>1, <1>9 DEF B

\* filterBooks and sortBooks list the books that match, in the order asked for.
LEMMA FoundLists ==
  ASSUME NEW s, IsLibrary(s), NEW k
  PROVE  /\ Lists(Found(s, k), Matching(s, k), BookOrder(s, k.sort))
         /\ Found(s, k) \in Seq(AllBooks)
<1> DEFINE I == {i \in DOMAIN s : s[i] \in Hits[k]}
           kept == Kept(s, I)
<1>0. s \in Seq(AllBooks) /\ I \in SUBSET DOMAIN s
  BY DEF IsLibrary
<1>1. kept \in Seq(AllBooks)
  BY <1>0, KeptIs
<1>2. PICK at : Sources(at, s, I)
  BY <1>0, KeptIs
<1>3. PICK w : /\ Lists(w, DOMAIN kept, PlaceOrder(kept, k.sort))
               /\ Len(w) = Len(kept)
               /\ sortBooks(kept, k.sort) = [n \in 1 .. Len(kept) |-> kept[w[n]]]
  BY <1>1, SortPlaces
<1>4. Found(s, k) = [n \in 1 .. Len(kept) |-> kept[w[n]]]
  BY <1>3 DEF Found
<1> HIDE DEF kept
<1>5. DOMAIN kept = 1 .. Len(kept) /\ Len(kept) \in Nat /\ \A n \in 1 .. Len(kept) : kept[n] \in AllBooks
  BY <1>1
<1>6. /\ \A n \in 1 .. Len(kept) : w[n] \in 1 .. Len(kept)
      /\ \A i \in 1 .. Len(kept) : \E n \in 1 .. Len(kept) : w[n] = i
      /\ \A m, n \in 1 .. Len(kept) : m < n <=> <<w[m], w[n]>> \in PlaceOrder(kept, k.sort)
  <2>1. w \in [1 .. Len(kept) -> DOMAIN kept]
    BY <1>3, <1>5 DEF Lists
  <2> QED
    BY <1>3, <1>5, <2>1 DEF Lists
<1>7. /\ \A n \in 1 .. Len(kept) : at[n] \in I /\ kept[n] = s[at[n]] /\ at[n] \in Nat
      /\ \A i \in I : \E n \in 1 .. Len(kept) : at[n] = i
      /\ \A m, n \in 1 .. Len(kept) : m < n <=> at[m] < at[n]
  <2>0. I \subseteq Nat
    BY <1>0
  <2> HIDE DEF I
  <2>1. at \in Seq(I) /\ Len(at) = Len(kept)
    BY <1>2 DEF Sources, kept
  <2>2. \A n \in 1 .. Len(kept) : at[n] \in I /\ kept[n] = s[at[n]]
    BY <1>2, <2>1 DEF Sources, kept
  <2>3. /\ \A i \in I : \E n \in 1 .. Len(kept) : at[n] = i
        /\ \A m, n \in 1 .. Len(kept) : m < n <=> at[m] < at[n]
    BY <1>2, <2>1 DEF Sources, kept
  <2> QED
    BY <2>0, <2>2, <2>3
<1>8. \A m, n \in 1 .. Len(kept) :
         <<m, n>> \in PlaceOrder(kept, k.sort) <=> <<at[m], at[n]>> \in PlaceOrder(s, k.sort)
  <2> TAKE m, n \in 1 .. Len(kept)
  <2>1. /\ at[m] \in DOMAIN s /\ at[n] \in DOMAIN s /\ kept[m] = s[at[m]] /\ kept[n] = s[at[n]]
        /\ m < n <=> at[m] < at[n]
        /\ n < m <=> at[n] < at[m]
        /\ m \in Nat /\ n \in Nat /\ at[m] \in Nat /\ at[n] \in Nat
    BY <1>5, <1>7
  <2> QED
    BY <1>5, <2>1 DEF PlaceOrder, Ranked
<1>9. Matching(s, k) = {s[i] : i \in I}
  BY DEF Matching, ToSet
<1>10. Found(s, k) \in Seq(Matching(s, k)) /\ Len(Found(s, k)) = Len(kept)
  <2>1. \A n \in 1 .. Len(kept) : kept[w[n]] \in Matching(s, k)
    <3> HIDE DEF I
    <3> QED
      BY <1>6, <1>7, <1>9, ZenonT(60)
  <2>2. Found(s, k) \in [1 .. Len(kept) -> Matching(s, k)]
    BY <1>4, <2>1
  <2> QED
    BY <1>5, <2>2
<1>11. \A b \in Matching(s, k) : \E n \in 1 .. Len(kept) : Found(s, k)[n] = b
  <2> TAKE b \in Matching(s, k)
  <2>1. PICK i \in I : b = s[i]
    BY <1>9
  <2>2. PICK m \in 1 .. Len(kept) : at[m] = i
    BY <1>7
  <2>3. PICK n \in 1 .. Len(kept) : w[n] = m
    BY <1>6
  <2> QED
    BY <1>4, <1>7, <2>1, <2>2, <2>3
<1>12. ASSUME NEW m \in 1 .. Len(kept), NEW n \in 1 .. Len(kept)
       PROVE  m < n <=> <<Found(s, k)[m], Found(s, k)[n]>> \in BookOrder(s, k.sort)
  <2>1. m < n <=> <<at[w[m]], at[w[n]]>> \in PlaceOrder(s, k.sort)
    BY <1>6, <1>8
  <2>2. /\ Found(s, k)[m] = s[at[w[m]]] /\ Found(s, k)[n] = s[at[w[n]]]
        /\ at[w[m]] \in DOMAIN s /\ at[w[n]] \in DOMAIN s
    BY <1>4, <1>6, <1>7, ZenonT(60)
  <2> QED
    BY <2>1, <2>2, BookOrderStrict
<1>13. Found(s, k) \in Seq(AllBooks)
  <2>1. Found(s, k) \in [1 .. Len(kept) -> AllBooks]
    BY <1>4, <1>5, <1>6
  <2> QED
    BY <1>5, <2>1
<1> QED
  BY <1>10, <1>11, <1>12, <1>13 DEF Lists

-----------------------------------------------------------------------------
(* The border between the books on the pages loaded and those behind *)

LEMMA MatchingIs ==
  ASSUME NEW s, IsLibrary(s), NEW k
  PROVE  /\ IsFiniteSet(Matching(s, k))
         /\ StrictOrder(BookOrder(s, k.sort), Matching(s, k))
         /\ Matching(s, k) \subseteq ToSet(s) /\ ToSet(s) \subseteq AllBooks
<1>1. Matching(s, k) \subseteq ToSet(s)
  BY DEF Matching
<1>2. StrictOrder(BookOrder(s, k.sort), ToSet(s))
  BY BookOrderStrict
<1>3. StrictOrder(BookOrder(s, k.sort), Matching(s, k))
  BY <1>1, <1>2 DEF StrictOrder
<1>4. IsFiniteSet(Matching(s, k))
  BY <1>3, FoundLists, RankInList DEF StrictOrder
<1> QED
  BY <1>1, <1>3, <1>4, AtIs

\* t is s without the books in D, in the same order.
Shorter(t, s, D) ==
    /\ IsLibrary(t) /\ IsLibrary(s) /\ IsFiniteSet(D)
    /\ ToSet(t) = ToSet(s) \ D
    /\ \A order : \A b, c \in ToSet(t) :
          <<b, c>> \in BookOrder(t, order) <=> <<b, c>> \in BookOrder(s, order)

\* There are n books ahead, unless all are.
LEMMA AheadSize ==
  ASSUME NEW s, IsLibrary(s), NEW k, NEW n \in Nat
  PROVE  /\ IsFiniteSet(Ahead(s, k, n)) /\ Cardinality(Ahead(s, k, n)) \in Nat
         /\ Cardinality(Ahead(s, k, n)) <= n
         /\ Behind(s, k, n) # {} => Cardinality(Ahead(s, k, n)) = n
<1> DEFINE H == Matching(s, k)
           R == BookOrder(s, k.sort)
           A == Ahead(s, k, n)
           f == [b \in A |-> Rank(b, H, R) + 1]
<1>1. IsFiniteSet(H) /\ StrictOrder(R, H)
  BY MatchingIs
<1>2. A = {b \in H : Rank(b, H, R) < n} /\ Behind(s, k, n) = H \ A
  BY DEF Ahead, Behind
<1> HIDE DEF H, R, A
<1>3. \A b \in H : Rank(b, H, R) \in Nat
  BY <1>1, RankType
<1>4. \A b, c \in H : Rank(b, H, R) = Rank(c, H, R) => b = c
  BY <1>1, RankDiffers
<1>5. IsFiniteSet(A) /\ Cardinality(A) \in Nat
  <2>1. A \subseteq H
    BY <1>2
  <2> QED
    BY <1>1, <2>1, FS_Subset, FS_CardinalityType
<1>6. f \in Injection(A, 1 .. n)
  <2>1. f \in [A -> 1 .. n]
    BY <1>2, <1>3
  <2>2. \A b, c \in A : f[b] = f[c] => b = c
    BY <1>2, <1>3, <1>4
  <2> QED
    BY <2>1, <2>2 DEF Injection, IsInjective
<1>7. IsFiniteSet(1 .. n) /\ Cardinality(1 .. n) = n
  BY FS_Interval
<1>8. Cardinality(A) <= n
  BY <1>6, <1>7, FS_Injection
<1>9. ASSUME Behind(s, k, n) # {} PROVE Cardinality(A) = n
  <2>1. PICK x \in H : ~(Rank(x, H, R) < n)
    BY <1>2, <1>9
  <2>2. Cardinality(H) \in Nat /\ n < Cardinality(H)
    <3>1. Rank(x, H, R) < Cardinality(H)
      BY <1>1, RankTaken
    <3>2. Cardinality(H) \in Nat /\ Rank(x, H, R) \in Nat
      BY <1>1, <1>3, FS_CardinalityType
    <3> QED
      BY <2>1, <3>1, <3>2
  <2>3. ASSUME NEW m \in 1 .. n PROVE \E b \in A : f[b] = m
    <3>1. m \in 1 .. Cardinality(H)
      BY <2>2
    <3>2. PICK b \in H : Rank(b, H, R) = m - 1
      BY <1>1, <3>1, RankTaken
    <3>3. b \in A /\ f[b] = m
      BY <1>2, <3>2
    <3> QED
      BY <3>3
  <2> HIDE DEF f
  <2>4. f \in Surjection(A, 1 .. n)
    BY <1>6, <2>3 DEF Injection, Surjection
  <2> QED
    BY <1>6, <1>7, <2>4, FS_Injection
<1> QED
  BY <1>5, <1>8, <1>9 DEF A

\* Books more or less move the border by as many books at most.
LEMMA Squeeze ==
  ASSUME NEW t, NEW s, NEW D, Shorter(t, s, D), NEW k, NEW n \in Nat
  PROVE  LET came == Ahead(t, k, n) \ Ahead(s, k, n)
             left == Behind(s, k, n) \ Behind(t, k, n)
         IN  /\ Ahead(s, k, n) \subseteq Ahead(t, k, n) \cup D
             /\ Behind(t, k, n) \subseteq Behind(s, k, n)
             /\ IsFiniteSet(came) /\ Cardinality(came) \in Nat
             /\ IsFiniteSet(left) /\ Cardinality(left) \in Nat
             /\ Cardinality(D) \in Nat
             /\ Cardinality(came) <= Cardinality(D)
             /\ Cardinality(left) <= Cardinality(D)
<1> DEFINE H == Matching(s, k)
           G == Matching(t, k)
           R == BookOrder(s, k.sort)
           Q == BookOrder(t, k.sort)
           A == Ahead(s, k, n)
           B == Ahead(t, k, n)
           U == Behind(s, k, n)
           V == Behind(t, k, n)
<1>1. IsFiniteSet(H) /\ IsFiniteSet(D) /\ Cardinality(D) \in Nat
  BY MatchingIs, FS_CardinalityType DEF Shorter
<1>2. G = H \ D
  BY DEF Shorter, Matching
<1>3. \A b, c \in G : <<b, c>> \in Q <=> <<b, c>> \in R
  BY DEF Shorter, Matching
<1>4. /\ A = {b \in H : Rank(b, H, R) < n} /\ U = H \ A
      /\ B = {b \in G : Rank(b, G, Q) < n} /\ V = G \ B
  BY DEF Ahead, Behind
<1>5. /\ IsFiniteSet(A) /\ Cardinality(A) \in Nat /\ (U # {} => Cardinality(A) = n)
      /\ IsFiniteSet(B) /\ Cardinality(B) \in Nat /\ Cardinality(B) <= n
  BY AheadSize DEF Shorter
<1> HIDE DEF H, G, R, Q, A, B, U, V
<1>6. ASSUME NEW b \in G, b \in A PROVE b \in B
  <2>1. Earlier(b, G, Q) \subseteq Earlier(b, H, R)
    BY <1>2, <1>3 DEF Earlier
  <2>2. IsFiniteSet(Earlier(b, H, R)) /\ Rank(b, H, R) \in Nat
    BY <1>1, RankType
  <2>3. IsFiniteSet(G)
    BY <1>1, <1>2, FS_Subset
  <2>4. Rank(b, G, Q) <= Rank(b, H, R) /\ Rank(b, G, Q) \in Nat
    BY <2>1, <2>2, <2>3, RankType, FS_Subset DEF Rank
  <2>5. Rank(b, H, R) < n
    BY <1>4, <1>6
  <2>6. Rank(b, G, Q) < n
    BY <2>2, <2>4, <2>5
  <2> QED
    BY <1>4, <2>6
<1>7. A \subseteq B \cup D /\ V \subseteq U
  BY <1>2, <1>4, <1>6
<1>8. B \cap A = A \ D
  BY <1>2, <1>4, <1>6
<1>9. IsFiniteSet(B \ A) /\ Cardinality(B \ A) \in Nat
  BY <1>5, FS_Subset, FS_CardinalityType
<1>10. /\ Cardinality(A \cap D) \in Nat /\ Cardinality(D \ A) \in Nat
       /\ IsFiniteSet(D \ A)
       /\ Cardinality(D) = Cardinality(A \cap D) + Cardinality(D \ A)
  <2>1. IsFiniteSet(D \ A) /\ Cardinality(D \ A) = Cardinality(D) - Cardinality(D \cap A)
    BY <1>1, FS_Difference
  <2>2. IsFiniteSet(A \cap D) /\ A \cap D = D \cap A
    BY <1>5, FS_Intersection
  <2>3. /\ Cardinality(A \cap D) \in Nat /\ Cardinality(D \ A) \in Nat
        /\ Cardinality(D \cap A) = Cardinality(A \cap D)
    BY <2>1, <2>2, FS_CardinalityType
  <2> DEFINE all == Cardinality(D)
             in  == Cardinality(A \cap D)
             out == Cardinality(D \ A)
  <2>4. all \in Nat /\ in \in Nat /\ out \in Nat /\ out = all - in
    BY <1>1, <2>1, <2>3
  <2> HIDE DEF all, in, out
  <2>5. all = in + out
    BY <2>4
  <2> QED
    BY <2>1, <2>3, <2>5 DEF all, in, out
<1>11. Cardinality(B \ A) <= Cardinality(A \cap D)
  <2>1. CASE U = {}
    <3>1. B \ A = {}
      BY <1>2, <1>4, <2>1
    <3>2. Cardinality(B \ A) = 0
      BY <3>1, FS_EmptySet
    <3> QED
      BY <1>10, <3>2
  <2>2. CASE U # {}
    <3>1. Cardinality(B \ A) = Cardinality(B) - Cardinality(B \cap A)
      BY <1>5, FS_Difference
    <3>2. Cardinality(A \ D) = Cardinality(A) - Cardinality(A \cap D)
      BY <1>5, FS_Difference
    <3>3. Cardinality(B \cap A) = Cardinality(A \ D)
      BY <1>8
    <3>4. Cardinality(A) = n /\ Cardinality(B) <= n
      BY <1>5, <2>2
    <3> QED
      BY <1>5, <1>10, <3>1, <3>2, <3>3, <3>4
  <2> QED
    BY <2>1, <2>2
<1>12. IsFiniteSet((B \ A) \cup (D \ A))
       /\ Cardinality((B \ A) \cup (D \ A)) <= Cardinality(B \ A) + Cardinality(D \ A)
  <2> DEFINE X == B \ A
             Y == D \ A
  <2>1. IsFiniteSet(X) /\ IsFiniteSet(Y) /\ Cardinality(X) \in Nat /\ Cardinality(Y) \in Nat
    BY <1>9, <1>10
  <2> HIDE DEF X, Y
  <2>2. IsFiniteSet(X \cup Y) /\ Cardinality(X \cup Y) = Cardinality(X) + Cardinality(Y) - Cardinality(X \cap Y)
    BY <2>1, FS_Union
  <2>3. Cardinality(X \cap Y) \in Nat
    BY <2>1, FS_Intersection, FS_CardinalityType
  <2>4. Cardinality(X \cup Y) <= Cardinality(X) + Cardinality(Y)
    BY <2>1, <2>2, <2>3
  <2> QED
    BY <2>2, <2>4 DEF X, Y
<1>13. U \ V \subseteq (B \ A) \cup (D \ A)
  BY <1>2, <1>4
<1>14. /\ IsFiniteSet(U \ V) /\ Cardinality(U \ V) \in Nat
       /\ Cardinality(U \ V) <= Cardinality((B \ A) \cup (D \ A))
       /\ Cardinality((B \ A) \cup (D \ A)) \in Nat
  BY <1>12, <1>13, FS_Subset, FS_CardinalityType
<1>15. Cardinality(B \ A) <= Cardinality(D) /\ Cardinality(U \ V) <= Cardinality(D)
  <2> DEFINE new  == Cardinality(B \ A)
             gone == Cardinality(U \ V)
             both == Cardinality((B \ A) \cup (D \ A))
             d    == Cardinality(D)
             in   == Cardinality(A \cap D)
             out  == Cardinality(D \ A)
  <2>1. /\ new \in Nat /\ gone \in Nat /\ both \in Nat /\ d \in Nat /\ in \in Nat /\ out \in Nat
        /\ d = in + out /\ new <= in /\ both <= new + out /\ gone <= both
    BY <1>1, <1>9, <1>10, <1>11, <1>12, <1>14
  <2> HIDE DEF new, gone, both, d, in, out
  <2>2. new <= d /\ gone <= d
    BY <2>1
  <2> QED
    BY <2>2 DEF new, gone, d
<1> QED
  BY <1>1, <1>7, <1>9, <1>14, <1>15 DEF A, B, U, V

-----------------------------------------------------------------------------
(* Pages *)

LEMMA PageArithmetic ==
  ASSUME NEW p \in Nat
  PROVE  /\ p * PageSize \in Nat /\ (p + 1) * PageSize \in Nat
         /\ (p + 1) * PageSize = p * PageSize + PageSize
         /\ p * PageSize < (p + 1) * PageSize
<1>1. PageSize \in Nat /\ PageSize > 0
  BY PageAssumption
<1>2. p * PageSize \in Nat /\ (p + 1) * PageSize = p * PageSize + PageSize
  BY <1>1
<1> QED
  BY <1>1, <1>2

\* The books of a page are those between its borders, in order, none twice.
LEMMA PageIs ==
  ASSUME NEW s, IsLibrary(s), NEW k, NEW p \in Nat
  PROVE  LET P == PageOf(Found(s, k), p + 1) IN
         /\ P \in Seq(AllBooks)
         /\ ToSet(P) = Ahead(s, k, (p + 1) * PageSize) \cap Behind(s, k, p * PageSize)
         /\ \A m, n \in 1 .. Len(P) : m < n <=> <<P[m], P[n]>> \in BookOrder(s, k.sort)
         /\ Cardinality(ToSet(P)) = Len(P)
         /\ IsFiniteSet(ToSet(P))
<1> DEFINE F == Found(s, k)
           H == Matching(s, k)
           R == BookOrder(s, k.sort)
           lo == p * PageSize
           hi == (p + 1) * PageSize
           top == Min({hi, Len(F)})
           P == PageOf(F, p + 1)
           N == IF lo < top THEN top - lo ELSE 0
<1>1. Lists(F, H, R) /\ F \in Seq(AllBooks)
  BY FoundLists
<1>2. IsFiniteSet(H) /\ StrictOrder(R, H)
  BY MatchingIs
<1>3. P = SubSeq(F, lo + 1, top)
  <2>1. (p + 1) - 1 = p
    OBVIOUS
  <2> QED
    BY <2>1 DEF PageOf
<1> HIDE DEF F, H, R, P
<1>4. /\ Len(F) \in Nat
      /\ \A n \in 1 .. Len(F) : F[n] \in H /\ Rank(F[n], H, R) = n - 1
  BY <1>1, <1>2, RankInList DEF StrictOrder
<1>5. lo \in Nat /\ hi \in Nat /\ lo < hi
  BY PageArithmetic
<1> HIDE DEF lo, hi
<1>6. top \in Nat /\ top <= hi /\ top <= Len(F) /\ (top = hi \/ top = Len(F))
  <2>1. {hi, Len(F)} \subseteq Nat
    BY <1>4, <1>5
  <2> QED
    BY <2>1, MinIs, SMTT(60)
<1> HIDE DEF top
<1>7. /\ P \in Seq(AllBooks) /\ Len(P) = N /\ N \in Nat
      /\ \A n \in 1 .. N : P[n] = F[lo + n] /\ lo + n \in 1 .. Len(F) /\ lo + n <= hi
  <2>1. CASE lo < top
    <3>1. lo + 1 \in 1 .. Len(F) /\ top \in 1 .. Len(F) /\ N = top - lo
      BY <1>4, <1>5, <1>6, <2>1
    <3>2. P = [i \in 1 .. N |-> F[lo + i]]
      BY <1>1, <1>3, <1>5, <1>6, <3>1
    <3>3. \A n \in 1 .. N : lo + n \in 1 .. Len(F) /\ lo + n <= hi /\ F[lo + n] \in AllBooks
      BY <1>1, <1>4, <1>5, <1>6, <3>1
    <3>4. N \in Nat
      BY <1>5, <1>6, <2>1
    <3> HIDE DEF N
    <3>5. P \in [1 .. N -> AllBooks]
      BY <3>2, <3>3
    <3>6. P \in Seq(AllBooks) /\ Len(P) = N
      BY <3>4, <3>5
    <3> QED
      BY <3>2, <3>3, <3>4, <3>6
  <2>2. CASE ~(lo < top)
    <3>1. P = <<>> /\ N = 0
      BY <1>1, <1>3, <1>5, <1>6, <2>2
    <3> QED
      BY <3>1
  <2> QED
    BY <2>1, <2>2
<1>8. N = top - lo \/ (N = 0 /\ top <= lo)
  BY <1>5, <1>6
<1> HIDE DEF N
<1>9. DOMAIN P = 1 .. N
  BY <1>7
<1>10. \A n \in 1 .. N : P[n] \in H /\ Rank(P[n], H, R) = lo + n - 1
  <2> TAKE n \in 1 .. N
  <2>1. lo + n \in 1 .. Len(F) /\ P[n] = F[lo + n]
    BY <1>7
  <2>2. F[lo + n] \in H /\ Rank(F[lo + n], H, R) = (lo + n) - 1
    BY <1>4, <2>1
  <2>3. (lo + n) - 1 = lo + n - 1
    BY <1>5, <1>7
  <2> QED
    BY <2>1, <2>2, <2>3
<1>11. \A m, n \in 1 .. N : m < n <=> <<P[m], P[n]>> \in R
  <2> TAKE m, n \in 1 .. N
  <2>1. lo + m < lo + n <=> <<P[m], P[n]>> \in R
    BY <1>1, <1>7 DEF Lists
  <2> QED
    BY <1>5, <1>7, <2>1
<1>12. Lists(P, ToSet(P), R)
  <2>1. P \in Seq(ToSet(P))
    BY <1>7, <1>9 DEF ToSet
  <2>2. \A x \in ToSet(P) : \E n \in 1 .. Len(P) : P[n] = x
    BY <1>7, <1>9 DEF ToSet
  <2> QED
    BY <1>7, <1>11, <2>1, <2>2 DEF Lists
<1>13. ToSet(P) = {P[n] : n \in 1 .. N}
  BY <1>9 DEF ToSet
<1>14. \A x \in ToSet(P) : <<x, x>> \notin R
  BY <1>2, <1>10, <1>13 DEF StrictOrder
<1>15. IsFiniteSet(ToSet(P)) /\ Cardinality(ToSet(P)) = Len(P)
  BY <1>12, <1>14, RankInList
<1>16. ToSet(P) = Ahead(s, k, hi) \cap Behind(s, k, lo)
  <2> DEFINE r(b) == Rank(b, H, R)
  <2>1. /\ Ahead(s, k, hi) = {b \in H : r(b) < hi}
        /\ Behind(s, k, lo) = H \ {b \in H : r(b) < lo}
    BY DEF Ahead, Behind, H, R
  <2> HIDE DEF r
  <2>2. ASSUME NEW n \in 1 .. N PROVE P[n] \in Ahead(s, k, hi) \cap Behind(s, k, lo)
    <3>1. P[n] \in H /\ r(P[n]) = lo + n - 1 /\ lo + n <= hi
      BY <1>7, <1>10 DEF r
    <3>2. r(P[n]) < hi /\ ~(r(P[n]) < lo)
      BY <1>5, <1>7, <3>1
    <3> QED
      BY <2>1, <3>1, <3>2
  <2>3. ASSUME NEW b \in H, r(b) < hi, ~(r(b) < lo) PROVE \E n \in 1 .. N : P[n] = b
    <3>1. PICK i \in 1 .. Len(F) : F[i] = b
      BY <1>1 DEF Lists
    <3>2. r(b) = i - 1 /\ i \in Nat
      BY <1>4, <3>1 DEF r
    <3>3. i <= hi /\ lo < i /\ i <= top
      BY <1>4, <1>5, <1>6, <2>3, <3>1, <3>2
    <3>4. i - lo \in 1 .. N /\ lo + (i - lo) = i
      BY <1>5, <1>6, <1>8, <3>2, <3>3
    <3> QED
      BY <1>7, <3>1, <3>4
  <2> QED
    BY <1>13, <2>1, <2>2, <2>3
<1> QED
  BY <1>7, <1>11, <1>15, <1>16 DEF P, F, R, lo, hi

\* There is a next page as long as there are books behind the border.
LEMMA NextPageIs ==
  ASSUME NEW s, IsLibrary(s), NEW k, NEW p \in Nat
  PROVE  /\ HasNext(Found(s, k), p) \in BOOLEAN
         /\ HasNext(Found(s, k), p) <=> Behind(s, k, p * PageSize) # {}
         /\ HasNext(Found(s, k), p) => p < MaxPage
<1> DEFINE F == Found(s, k)
           H == Matching(s, k)
           R == BookOrder(s, k.sort)
           lo == p * PageSize
<1>1. Lists(F, H, R) /\ F \in Seq(AllBooks)
  BY FoundLists
<1>2. HasNext(F, p) <=> lo < Len(F)
  BY DEF HasNext
<1> HIDE DEF F
<1>3. StrictOrder(R, H)
  BY MatchingIs
<1>4. Behind(s, k, lo) = {b \in H : ~(Rank(b, H, R) < lo)}
  BY DEF Ahead, Behind
<1>5. H \subseteq ToSet(s) /\ ToSet(s) \subseteq AllBooks
  BY MatchingIs
<1> HIDE DEF H, R
<1>6. /\ IsFiniteSet(H) /\ Cardinality(H) = Len(F) /\ Len(F) \in Nat
      /\ \A n \in 1 .. Len(F) : F[n] \in H /\ Rank(F[n], H, R) = n - 1
  BY <1>1, <1>3, RankInList DEF StrictOrder
<1>7. lo \in Nat
  BY PageArithmetic
<1>8. Len(F) <= MaxPage * PageSize
  <2> DEFINE f == [b \in H |-> b.isbn]
             D == {b.isbn : b \in AllBooks}
             S == {b.isbn : b \in H}
  <2>1. IsFiniteSet(D) /\ Cardinality(D) <= MaxPage * PageSize
    BY SizeAssumption
  <2>2. S \subseteq D
    BY <1>5
  <2>3. \A b, c \in H : b.isbn = c.isbn => b = c
    BY <1>5, AtIs DEF IsLibrary
  <2>4. f \in Bijection(H, S)
    BY <2>3 DEF Bijection, Injection, IsInjective, Surjection
  <2>5. Cardinality(S) = Cardinality(H)
    BY <1>6, <2>4, FS_Bijection DEF ExistsBijection
  <2>6. Cardinality(S) <= Cardinality(D) /\ Cardinality(D) \in Nat /\ Cardinality(S) \in Nat
    BY <2>1, <2>2, FS_Subset, FS_CardinalityType
  <2>7. MaxPage * PageSize \in Nat
    BY PageAssumption
  <2> QED
    BY <1>6, <2>1, <2>5, <2>6, <2>7
<1>9. lo < Len(F) => p < MaxPage
  <2>1. ~(p < MaxPage) => MaxPage * PageSize <= lo
    BY PageAssumption
  <2> DEFINE M == MaxPage * PageSize
  <2>2. M \in Nat
    BY PageAssumption
  <2>3. Len(F) <= M
    BY <1>8
  <2> HIDE DEF M, lo
  <2>4. lo < Len(F) => ~(M <= lo)
    BY <1>6, <1>7, <2>2, <2>3
  <2> QED
    BY <2>1, <2>4 DEF M
<1>10. ASSUME lo < Len(F) PROVE Behind(s, k, lo) # {}
  <2>1. lo + 1 \in 1 .. Len(F)
    BY <1>6, <1>7, <1>10
  <2>2. F[lo + 1] \in H /\ Rank(F[lo + 1], H, R) = lo
    BY <1>6, <1>7, <2>1
  <2> QED
    BY <1>4, <1>7, <2>2
<1>11. ASSUME NEW b \in Behind(s, k, lo) PROVE lo < Len(F)
  <2>1. b \in H /\ ~(Rank(b, H, R) < lo)
    BY <1>4
  <2>2. PICK i \in 1 .. Len(F) : F[i] = b
    BY <1>1, <2>1 DEF Lists
  <2> QED
    BY <1>6, <1>7, <2>1, <2>2
<1> QED
  BY <1>2, <1>9, <1>10, <1>11 DEF F, HasNext

-----------------------------------------------------------------------------
(* Counting the books shown twice and the books missing *)

LEMMA FewMore ==
  ASSUME NEW A, IsFiniteSet(A), NEW Y, IsFiniteSet(Y), NEW B, B \subseteq A \cup Y
  PROVE  /\ IsFiniteSet(B) /\ Cardinality(A) \in Nat /\ Cardinality(B) \in Nat /\ Cardinality(Y) \in Nat
         /\ Cardinality(B) <= Cardinality(A) + Cardinality(Y)
<1>1. IsFiniteSet(A \cup Y) /\ Cardinality(A \cup Y) = Cardinality(A) + Cardinality(Y) - Cardinality(A \cap Y)
  BY FS_Union
<1>2. /\ Cardinality(A) \in Nat /\ Cardinality(Y) \in Nat /\ Cardinality(A \cap Y) \in Nat
      /\ Cardinality(A \cup Y) \in Nat
  BY <1>1, FS_Intersection, FS_CardinalityType
<1>3. IsFiniteSet(B) /\ Cardinality(B) <= Cardinality(A \cup Y) /\ Cardinality(B) \in Nat
  BY <1>1, FS_Subset, FS_CardinalityType
<1> QED
  BY <1>1, <1>2, <1>3

LEMMA ElementsFinite ==
  ASSUME NEW X, NEW c \in Seq(X)
  PROVE  IsFiniteSet(ToSet(c)) /\ Cardinality(ToSet(c)) \in Nat /\ ToSet(c) \subseteq X
<1>1. IsFiniteSet(1 .. Len(c))
  BY FS_Interval
<1>2. c \in Surjection(1 .. Len(c), ToSet(c))
  BY DEF Surjection, ToSet
<1> QED
  BY <1>1, <1>2, FS_Surjection, FS_CardinalityType DEF ToSet

LEMMA ElementsOfBoth ==
  ASSUME NEW X, NEW c \in Seq(X), NEW d \in Seq(X)
  PROVE  /\ c \o d \in Seq(X) /\ Len(c \o d) = Len(c) + Len(d)
         /\ ToSet(c \o d) = ToSet(c) \cup ToSet(d)
<1>1. c \o d \in Seq(X) /\ Len(c \o d) = Len(c) + Len(d)
  OBVIOUS
<1>2. DOMAIN c = 1 .. Len(c) /\ DOMAIN d = 1 .. Len(d) /\ DOMAIN (c \o d) = 1 .. Len(c) + Len(d)
      /\ Len(c) \in Nat /\ Len(d) \in Nat
  OBVIOUS
<1>3. \A i \in 1 .. Len(c) + Len(d) : (c \o d)[i] = IF i <= Len(c) THEN c[i] ELSE d[i - Len(c)]
  OBVIOUS
<1>4. ASSUME NEW i \in 1 .. Len(c) + Len(d) PROVE (c \o d)[i] \in ToSet(c) \cup ToSet(d)
  <2>1. CASE i <= Len(c)
    BY <1>2, <1>3, <2>1 DEF ToSet
  <2>2. CASE ~(i <= Len(c))
    <3>1. i - Len(c) \in 1 .. Len(d) /\ (c \o d)[i] = d[i - Len(c)]
      BY <1>2, <1>3, <2>2
    <3> QED
      BY <1>2, <3>1 DEF ToSet
  <2> QED
    BY <2>1, <2>2
<1>5. ASSUME NEW i \in 1 .. Len(c) PROVE c[i] \in ToSet(c \o d)
  <2>1. i \in 1 .. Len(c) + Len(d) /\ (c \o d)[i] = c[i]
    BY <1>2, <1>3
  <2> QED
    BY <1>2, <2>1 DEF ToSet
<1>6. ASSUME NEW i \in 1 .. Len(d) PROVE d[i] \in ToSet(c \o d)
  <2>1. i + Len(c) \in 1 .. Len(c) + Len(d) /\ ~(i + Len(c) <= Len(c)) /\ (i + Len(c)) - Len(c) = i
    BY <1>2
  <2>2. (c \o d)[i + Len(c)] = d[i]
    BY <1>3, <2>1
  <2> QED
    BY <1>2, <2>1, <2>2 DEF ToSet
<1>7. ToSet(c \o d) = {(c \o d)[i] : i \in 1 .. Len(c) + Len(d)}
      /\ ToSet(c) = {c[i] : i \in 1 .. Len(c)} /\ ToSet(d) = {d[i] : i \in 1 .. Len(d)}
  BY <1>2 DEF ToSet
<1> QED
  BY <1>1, <1>4, <1>5, <1>6, <1>7, ZenonT(60)

LEMMA TwiceType ==
  ASSUME NEW s, NEW k, NEW p, NEW X, NEW c \in Seq(X)
  PROVE  /\ Twice(s, k, p, c) \in Int
         /\ Len(c) - Cardinality(ToSet(c)) <= Twice(s, k, p, c)
         /\ IsFiniteSet(Behind(s, k, p * PageSize) \cap ToSet(c))
<1>1. Len(c) \in Nat /\ Cardinality(ToSet(c)) \in Nat /\ IsFiniteSet(ToSet(c))
  BY ElementsFinite
<1> DEFINE B == Behind(s, k, p * PageSize)
<1>2. IsFiniteSet(B \cap ToSet(c)) /\ Cardinality(B \cap ToSet(c)) \in Nat
  <2> HIDE DEF B
  <2> QED
    BY <1>1, FS_Intersection, FS_CardinalityType
<1> QED
  BY <1>1, <1>2 DEF Twice

\* Each book more makes one card more that will be repeated, a book less none.
LEMMA TwiceMoves ==
  ASSUME NEW t, NEW s, NEW D, Shorter(t, s, D), NEW k, NEW p \in Nat, NEW X, NEW c \in Seq(X)
  PROVE  /\ Twice(t, k, p, c) <= Twice(s, k, p, c)
         /\ Cardinality(D) \in Nat
         /\ Twice(s, k, p, c) <= Twice(t, k, p, c) + Cardinality(D)
<1> DEFINE S == Behind(s, k, p * PageSize)
           T == Behind(t, k, p * PageSize)
           C == ToSet(c)
<1>1. IsFiniteSet(C) /\ Cardinality(C) \in Nat /\ Len(c) \in Nat
  BY ElementsFinite
<1>2. /\ T \subseteq S /\ IsFiniteSet(S \ T) /\ Cardinality(S \ T) \in Nat
      /\ Cardinality(D) \in Nat /\ Cardinality(S \ T) <= Cardinality(D)
  <2> DEFINE n == p * PageSize
  <2>1. n \in Nat
    BY PageArithmetic
  <2> HIDE DEF n
  <2> QED
    BY <2>1, Squeeze DEF n
<1>3. /\ Twice(s, k, p, c) = Len(c) - Cardinality(C) + Cardinality(S \cap C)
      /\ Twice(t, k, p, c) = Len(c) - Cardinality(C) + Cardinality(T \cap C)
  BY DEF Twice
<1> HIDE DEF S, T, C
<1>4. IsFiniteSet(S \cap C) /\ IsFiniteSet(T \cap C)
  BY <1>1, FS_Intersection
<1>5. T \cap C \subseteq S \cap C
  BY <1>2
<1>6. /\ Cardinality(T \cap C) <= Cardinality(S \cap C)
      /\ Cardinality(S \cap C) \in Nat /\ Cardinality(T \cap C) \in Nat
  BY <1>4, <1>5, FS_Subset, FS_CardinalityType
<1>7. S \cap C \subseteq (T \cap C) \cup (S \ T)
  OBVIOUS
<1>8. Cardinality(S \cap C) <= Cardinality(T \cap C) + Cardinality(S \ T)
  BY <1>2, <1>4, <1>7, FewMore
<1> QED
  BY <1>1, <1>2, <1>3, <1>6, <1>8

\* A page repeats the cards that were to be repeated.
LEMMA TwiceLoads ==
  ASSUME NEW s, IsLibrary(s), NEW k, NEW p \in Nat, NEW c \in Seq(AllBooks)
  PROVE  Twice(s, k, p + 1, c \o PageOf(Found(s, k), p + 1)) = Twice(s, k, p, c)
<1> DEFINE P == PageOf(Found(s, k), p + 1)
           lo == p * PageSize
           hi == (p + 1) * PageSize
           B == Behind(s, k, lo)
           D == ToSet(P)
           C == ToSet(c)
           H == Matching(s, k)
<1>1. /\ P \in Seq(AllBooks) /\ D = Ahead(s, k, hi) \cap B
      /\ Cardinality(D) = Len(P) /\ IsFiniteSet(D)
  BY PageIs
<1>2. IsFiniteSet(C) /\ Cardinality(C) \in Nat /\ Len(c) \in Nat
  BY ElementsFinite
<1>3. Len(c \o P) = Len(c) + Len(P) /\ ToSet(c \o P) = C \cup D
  BY <1>1, ElementsOfBoth
<1>4. Behind(s, k, hi) = B \ D
  <2>1. B = H \ Ahead(s, k, lo) /\ Behind(s, k, hi) = H \ Ahead(s, k, hi)
    BY DEF Behind
  <2>2. Ahead(s, k, lo) \subseteq Ahead(s, k, hi)
    <3>1. lo \in Nat /\ hi \in Nat /\ lo < hi
      BY PageArithmetic
    <3>2. \A b \in H : Rank(b, H, BookOrder(s, k.sort)) \in Nat
      BY MatchingIs, RankType
    <3>3. \A n : Ahead(s, k, n) = {b \in H : Rank(b, H, BookOrder(s, k.sort)) < n}
      BY DEF Ahead
    <3> HIDE DEF lo, hi, H
    <3> QED
      BY <3>1, <3>2, <3>3
  <2> HIDE DEF B, D, lo, hi, H
  <2> QED
    BY <1>1, <2>1, <2>2
<1>5. /\ Twice(s, k, p, c) = Len(c) - Cardinality(C) + Cardinality(B \cap C)
      /\ Twice(s, k, p + 1, c \o P) = Len(c \o P) - Cardinality(ToSet(c \o P))
                                      + Cardinality(Behind(s, k, hi) \cap ToSet(c \o P))
  BY DEF Twice
<1>6. D \subseteq B
  BY <1>1
<1>7. Len(P) \in Nat
  BY <1>1
<1> HIDE DEF B, D, C, P, lo, hi
<1>8. Cardinality(C \cup D) = Cardinality(C) + Cardinality(D) - Cardinality(C \cap D)
  BY <1>1, <1>2, FS_Union
<1>9. (B \ D) \cap (C \cup D) = (B \cap C) \ (C \cap D)
  OBVIOUS
<1>10. IsFiniteSet(B \cap C) /\ Cardinality(B \cap C) \in Nat
       /\ IsFiniteSet(C \cap D) /\ Cardinality(C \cap D) \in Nat
  BY <1>2, FS_Intersection, FS_CardinalityType
<1>11. (B \cap C) \cap (C \cap D) = C \cap D
  BY <1>6
<1>12. Cardinality((B \cap C) \ (C \cap D)) = Cardinality(B \cap C) - Cardinality(C \cap D)
  <2> DEFINE U == B \cap C
             V == C \cap D
  <2>1. IsFiniteSet(U) /\ U \cap V = V
    BY <1>10, <1>11
  <2> HIDE DEF U, V
  <2>2. Cardinality(U \ V) = Cardinality(U) - Cardinality(U \cap V)
    BY <2>1, FS_Difference
  <2> QED
    BY <2>1, <2>2 DEF U, V
<1>13. Twice(s, k, p + 1, c \o P) = (Len(c) + Cardinality(D)) - (Cardinality(C) + Cardinality(D) - Cardinality(C \cap D))
                                    + (Cardinality(B \cap C) - Cardinality(C \cap D))
  BY <1>1, <1>3, <1>4, <1>5, <1>8, <1>9, <1>12
<1> QED
  BY <1>1, <1>2, <1>5, <1>7, <1>10, <1>13, SMTT(60) DEF P

LEMMA MissedFinite ==
  ASSUME NEW s, IsLibrary(s), NEW k, NEW p, NEW c, NEW st, NEW m
  PROVE  /\ IsFiniteSet(Missed(s, k, p, c, st, m))
         /\ Cardinality(Missed(s, k, p, c, st, m)) \in Nat
         /\ Missed(s, k, p, c, st, m) \subseteq Lasting(s, k, st)
<1>1. Missed(s, k, p, c, st, m) \subseteq Lasting(s, k, st) /\ Lasting(s, k, st) \subseteq Matching(s, k)
  BY DEF Missed, Lasting
<1>2. IsFiniteSet(Matching(s, k))
  BY MatchingIs
<1>3. IsFiniteSet(Missed(s, k, p, c, st, m))
  BY <1>1, <1>2, FS_Subset
<1> QED
  BY <1>1, <1>3, FS_CardinalityType

\* Each book less makes one book miss its page.
LEMMA MissedRemoved ==
  ASSUME NEW t, NEW s, NEW D, Shorter(t, s, D), NEW k, NEW p \in Nat, NEW c, NEW st,
         NEW gone, NEW m \in BOOLEAN
  PROVE  /\ Cardinality(D) \in Nat
         /\ Cardinality(Missed(t, k, p, c, st \ gone, m))
               <= Cardinality(Missed(s, k, p, c, st, m)) + Cardinality(D)
<1> DEFINE n == p * PageSize
           new == Ahead(t, k, n) \ Ahead(s, k, n)
           late == Missed(t, k, p, c, st \ gone, m)
           old == Missed(s, k, p, c, st, m)
<1>1. n \in Nat
  BY PageArithmetic
<1>2. Lasting(t, k, st \ gone) \subseteq Lasting(s, k, st)
  BY DEF Lasting, Matching, Shorter
<1>3. late \subseteq old \cup new
  BY <1>2 DEF Missed
<1> HIDE DEF n
<1>4. /\ IsFiniteSet(new) /\ Cardinality(new) \in Nat
      /\ Cardinality(D) \in Nat /\ Cardinality(new) <= Cardinality(D)
  BY <1>1, Squeeze
<1>5. IsFiniteSet(old)
  BY MissedFinite DEF Shorter
<1> HIDE DEF new, late, old
<1>6. Cardinality(late) <= Cardinality(old) + Cardinality(new) /\ Cardinality(old) \in Nat /\ Cardinality(late) \in Nat
  BY <1>3, <1>4, <1>5, FewMore
<1>7. Cardinality(late) <= Cardinality(old) + Cardinality(D)
  BY <1>4, <1>6
<1> QED
  BY <1>4, <1>7 DEF late, old

\* Books more make none miss its page.
LEMMA MissedAdded ==
  ASSUME NEW t, NEW s, NEW D, Shorter(t, s, D), NEW k, NEW p \in Nat, NEW c, NEW st,
         \A x \in D : x.isbn \notin st, NEW m \in BOOLEAN
  PROVE  Cardinality(Missed(s, k, p, c, st, m)) <= Cardinality(Missed(t, k, p, c, st, m))
<1> DEFINE n == p * PageSize
<1>1. n \in Nat
  BY PageArithmetic
<1>2. Lasting(s, k, st) \subseteq Lasting(t, k, st) /\ Lasting(s, k, st) \cap D = {}
  BY DEF Lasting, Matching, Shorter
<1> HIDE DEF n
<1>3. Ahead(s, k, n) \subseteq Ahead(t, k, n) \cup D
  BY <1>1, Squeeze
<1>4. Missed(s, k, p, c, st, m) \subseteq Missed(t, k, p, c, st, m)
  BY <1>2, <1>3 DEF Missed, n
<1>5. IsFiniteSet(Missed(t, k, p, c, st, m))
  BY MissedFinite DEF Shorter
<1> QED
  BY <1>4, <1>5, FS_Subset

\* A page brings the books behind the border; the last one all that are left.
LEMMA MissedLoads ==
  ASSUME NEW s, IsLibrary(s), NEW k, NEW p \in Nat, NEW c \in Seq(AllBooks), NEW st
  PROVE  LET F == Found(s, k) IN
         Cardinality(Missed(s, k, p + 1, c \o PageOf(F, p + 1), st, HasNext(F, p + 1)))
            <= Cardinality(Missed(s, k, p, c, st, TRUE))
<1> DEFINE F == Found(s, k)
           P == PageOf(F, p + 1)
           lo == p * PageSize
           hi == (p + 1) * PageSize
           L == Lasting(s, k, st)
           m == HasNext(F, p + 1)
<1>1. P \in Seq(AllBooks) /\ ToSet(P) = Ahead(s, k, hi) \cap Behind(s, k, lo)
  BY PageIs
<1>2. ToSet(c \o P) = ToSet(c) \cup ToSet(P)
  BY <1>1, ElementsOfBoth
<1>3. m <=> Behind(s, k, hi) # {}
  BY NextPageIs
<1>4. L \subseteq Matching(s, k) /\ \A n : Behind(s, k, n) = Matching(s, k) \ Ahead(s, k, n)
  BY DEF Lasting, Behind
<1>5. /\ Missed(s, k, p + 1, c \o P, st, m) = (IF m THEN Ahead(s, k, hi) \cap L ELSE L) \ ToSet(c \o P)
      /\ Missed(s, k, p, c, st, TRUE) = (Ahead(s, k, lo) \cap L) \ ToSet(c)
  BY DEF Missed
<1> HIDE DEF F, P, lo, hi, L, m
<1>6. Missed(s, k, p + 1, c \o P, st, m) \subseteq Missed(s, k, p, c, st, TRUE)
  <2> SUFFICES ASSUME NEW b \in Missed(s, k, p + 1, c \o P, st, m)
               PROVE  b \in Missed(s, k, p, c, st, TRUE)
    OBVIOUS
  <2>1. b \in L /\ b \notin ToSet(c) /\ b \notin ToSet(P) /\ b \in Matching(s, k)
    BY <1>2, <1>4, <1>5
  <2>2. b \in Ahead(s, k, hi)
    BY <1>3, <1>4, <1>5, <2>1
  <2>3. b \in Ahead(s, k, lo)
    BY <1>1, <1>4, <2>1, <2>2
  <2> QED
    BY <1>5, <2>1, <2>3
<1>7. IsFiniteSet(Missed(s, k, p, c, st, TRUE))
  BY MissedFinite
<1>8. Cardinality(Missed(s, k, p + 1, c \o P, st, m)) <= Cardinality(Missed(s, k, p, c, st, TRUE))
  BY <1>6, <1>7, FS_Subset
<1> QED
  BY <1>8 DEF F, P, m

-----------------------------------------------------------------------------
(* Pages loaded without a change in between *)

LEMMA AheadComesFirst ==
  ASSUME NEW s, IsLibrary(s), NEW k, NEW n \in Nat, NEW b \in Ahead(s, k, n), NEW d \in Behind(s, k, n)
  PROVE  <<b, d>> \in BookOrder(s, k.sort)
<1> DEFINE H == Matching(s, k)
           R == BookOrder(s, k.sort)
<1>1. b \in H /\ Rank(b, H, R) < n /\ d \in H /\ ~(Rank(d, H, R) < n)
  BY DEF Ahead, Behind
<1>2. IsFiniteSet(H) /\ StrictOrder(R, H)
  BY MatchingIs
<1> HIDE DEF H, R
<1>3. Rank(b, H, R) \in Nat /\ Rank(d, H, R) \in Nat
  BY <1>2, RankType
<1>4. b # d
  BY <1>1
<1>5. <<d, b>> \notin R
  <2>1. <<d, b>> \in R => Rank(d, H, R) < Rank(b, H, R)
    BY <1>1, <1>2, RankGrows
  <2> QED
    BY <1>1, <1>3, <2>1
<1>6. <<b, d>> \in R
  BY <1>1, <1>2, <1>4, <1>5 DEF StrictOrder
<1> QED
  BY <1>6 DEF R

LEMMA ExactFirst ==
  ASSUME NEW s, IsLibrary(s), NEW k
  PROVE  Exact(s, k, 1, PageOf(Found(s, k), 1), HasNext(Found(s, k), 1))
<1> DEFINE F == Found(s, k)
           P == PageOf(F, 1)
           hi == 1 * PageSize
<1>0. 0 + 1 = 1 /\ 0 * PageSize = 0 /\ 0 \in Nat /\ 1 \in Nat
  BY PageAssumption
<1>1. /\ P \in Seq(AllBooks) /\ ToSet(P) = Ahead(s, k, hi) \cap Behind(s, k, 0)
      /\ \A m, n \in 1 .. Len(P) : m < n <=> <<P[m], P[n]>> \in BookOrder(s, k.sort)
  BY <1>0, PageIs
<1>2. Ahead(s, k, 0) = {}
  BY MatchingIs, RankType DEF Ahead
<1>3. ToSet(P) = Ahead(s, k, hi)
  BY <1>1, <1>2 DEF Ahead, Behind
<1>4. HasNext(F, 1) <=> Behind(s, k, hi) # {}
  BY <1>0, NextPageIs
<1> HIDE DEF P, F
<1>5. DOMAIN P = 1 .. Len(P)
  BY <1>1
<1>6. Exact(s, k, 1, P, HasNext(F, 1))
  BY <1>1, <1>3, <1>4, <1>5 DEF Exact
<1> QED
  BY <1>6 DEF P, F

LEMMA ExactLoads ==
  ASSUME NEW s, IsLibrary(s), NEW k, NEW p \in Nat, NEW c \in Seq(AllBooks), Exact(s, k, p, c, TRUE)
  PROVE  Exact(s, k, p + 1, c \o PageOf(Found(s, k), p + 1), HasNext(Found(s, k), p + 1))
<1> DEFINE F == Found(s, k)
           P == PageOf(F, p + 1)
           R == BookOrder(s, k.sort)
           lo == p * PageSize
           hi == (p + 1) * PageSize
<1>1. /\ P \in Seq(AllBooks) /\ ToSet(P) = Ahead(s, k, hi) \cap Behind(s, k, lo)
      /\ \A m, n \in 1 .. Len(P) : m < n <=> <<P[m], P[n]>> \in R
  BY PageIs
<1>2. ToSet(c \o P) = ToSet(c) \cup ToSet(P)
  BY <1>1, ElementsOfBoth
<1>3. HasNext(F, p + 1) <=> Behind(s, k, hi) # {}
  BY NextPageIs
<1>4. lo \in Nat /\ hi \in Nat /\ lo < hi
  BY PageArithmetic
<1>5. ToSet(c) = Ahead(s, k, lo) /\ \A i, j \in DOMAIN c : i < j => <<c[i], c[j]>> \in R
  BY DEF Exact
<1> HIDE DEF P, F, R, lo, hi
<1>6. Ahead(s, k, lo) \subseteq Ahead(s, k, hi)
  <2>1. \A b \in Matching(s, k) : Rank(b, Matching(s, k), BookOrder(s, k.sort)) \in Nat
    BY MatchingIs, RankType
  <2> QED
    BY <1>4, <2>1 DEF Ahead
<1>7. ToSet(c \o P) = Ahead(s, k, hi)
  BY <1>1, <1>2, <1>5, <1>6 DEF Ahead, Behind
<1>8. /\ DOMAIN c = 1 .. Len(c) /\ DOMAIN P = 1 .. Len(P) /\ DOMAIN (c \o P) = 1 .. Len(c) + Len(P)
      /\ Len(c) \in Nat /\ Len(P) \in Nat
      /\ \A i \in 1 .. Len(c) + Len(P) : (c \o P)[i] = IF i <= Len(c) THEN c[i] ELSE P[i - Len(c)]
  BY <1>1
<1>9. ASSUME NEW i \in DOMAIN (c \o P), NEW j \in DOMAIN (c \o P), i < j
      PROVE  <<(c \o P)[i], (c \o P)[j]>> \in R
  <2>1. CASE j <= Len(c)
    <3>1. i \in DOMAIN c /\ j \in DOMAIN c /\ (c \o P)[i] = c[i] /\ (c \o P)[j] = c[j]
      BY <1>8, <1>9, <2>1
    <3> QED
      BY <1>5, <1>9, <3>1
  <2>2. CASE ~(i <= Len(c))
    <3>1. /\ i - Len(c) \in 1 .. Len(P) /\ j - Len(c) \in 1 .. Len(P) /\ i - Len(c) < j - Len(c)
          /\ ~(j <= Len(c))
      BY <1>8, <1>9, <2>2
    <3>2. (c \o P)[i] = P[i - Len(c)] /\ (c \o P)[j] = P[j - Len(c)]
      BY <1>8, <2>2, <3>1
    <3> QED
      BY <1>1, <3>1, <3>2
  <2>3. CASE i <= Len(c) /\ ~(j <= Len(c))
    <3>1. i \in DOMAIN c /\ j - Len(c) \in DOMAIN P
      BY <1>8, <2>3
    <3>2. (c \o P)[i] = c[i] /\ (c \o P)[j] = P[j - Len(c)]
      BY <1>8, <2>3
    <3>3. (c \o P)[i] \in Ahead(s, k, lo) /\ (c \o P)[j] \in Behind(s, k, lo)
      BY <1>1, <1>5, <3>1, <3>2 DEF ToSet
    <3> QED
      BY <1>4, <3>3, AheadComesFirst DEF R
  <2> QED
    BY <2>1, <2>2, <2>3
<1>10. Exact(s, k, p + 1, c \o P, HasNext(F, p + 1))
  BY <1>3, <1>7, <1>9 DEF Exact, R, hi
<1> QED
  BY <1>10 DEF P, F

-----------------------------------------------------------------------------
(* A book comes, a book goes *)

LEMMA RankedPlaces ==
  ASSUME NEW i \in Nat, NEW j \in Nat, NEW m \in Nat, NEW n \in Nat,
         i < j <=> m < n, j < i <=> n < m, NEW b, NEW c, NEW order
  PROVE  Ranked(b, i, c, j, order) <=> Ranked(b, m, c, n, order)
  BY DEF Ranked

\* Enough for two libraries to agree: that places keep their order.
LEMMA SameOrder ==
  ASSUME NEW t, IsLibrary(t), NEW s, IsLibrary(s), NEW f,
         \A n \in DOMAIN t : f[n] \in DOMAIN s /\ s[f[n]] = t[n],
         \A m, n \in DOMAIN t : m < n <=> f[m] < f[n],
         NEW order, NEW b \in ToSet(t), NEW c \in ToSet(t)
  PROVE  <<b, c>> \in BookOrder(t, order) <=> <<b, c>> \in BookOrder(s, order)
<1>1. PICK m \in DOMAIN t : t[m] = b
  BY DEF ToSet
<1>2. PICK n \in DOMAIN t : t[n] = c
  BY DEF ToSet
<1>3. /\ DOMAIN t \subseteq Nat /\ DOMAIN s \subseteq Nat
      /\ f[m] \in DOMAIN s /\ s[f[m]] = b /\ f[n] \in DOMAIN s /\ s[f[n]] = c
  BY <1>1, <1>2, AtIs
<1>4. At(t, b) = m /\ At(t, c) = n /\ At(s, b) = f[m] /\ At(s, c) = f[n]
  BY <1>1, <1>2, <1>3, AtIs
<1>5. b \in ToSet(s) /\ c \in ToSet(s)
  BY <1>3, AtIs
<1>6. Ranked(b, m, c, n, order) <=> Ranked(b, f[m], c, f[n], order)
  <2>1. (m < n <=> f[m] < f[n]) /\ (n < m <=> f[n] < f[m])
    BY <1>1, <1>2
  <2>2. m \in Nat /\ n \in Nat /\ f[m] \in Nat /\ f[n] \in Nat
    BY <1>3
  <2> QED
    BY <2>1, <2>2, RankedPlaces
<1> QED
  BY <1>4, <1>5, <1>6 DEF BookOrder

LEMMA BookComes ==
  ASSUME NEW t, IsLibrary(t), NEW b \in AllBooks, b.isbn \notin ISBNs(t)
  PROVE  /\ Shorter(t, <<b>> \o t, {b}) /\ Cardinality({b}) = 1
         /\ ISBNs(<<b>> \o t) = ISBNs(t) \cup {b.isbn}
<1> DEFINE s == <<b>> \o t
           f == [n \in DOMAIN t |-> n + 1]
<1>1. /\ t \in Seq(AllBooks) /\ DOMAIN t = 1 .. Len(t) /\ Len(t) \in Nat
      /\ \A i, j \in DOMAIN t : t[i].isbn = t[j].isbn => i = j
      /\ \A i \in DOMAIN t : t[i].isbn # b.isbn
  BY DEF IsLibrary, ISBNs
<1>2. s \in Seq(AllBooks) /\ Len(s) = Len(t) + 1 /\ DOMAIN s = 1 .. Len(t) + 1
  BY <1>1
<1>3. s[1] = b /\ \A n \in 1 .. Len(t) : s[n + 1] = t[n] /\ n + 1 \in DOMAIN s
  BY <1>1
<1> HIDE DEF s
<1>4. \A i \in DOMAIN s : i = 1 \/ (i - 1 \in 1 .. Len(t) /\ s[i] = t[i - 1])
  <2> TAKE i \in DOMAIN s
  <2>1. i = 1 \/ (i - 1 \in 1 .. Len(t) /\ (i - 1) + 1 = i)
    BY <1>1, <1>2
  <2> QED
    BY <1>3, <2>1
<1>5. \A i, j \in DOMAIN s : s[i].isbn = s[j].isbn => i = j
  <2> SUFFICES ASSUME NEW i \in DOMAIN s, NEW j \in DOMAIN s, s[i].isbn = s[j].isbn PROVE i = j
    OBVIOUS
  <2>1. i \in Nat /\ j \in Nat
    BY <1>2
  <2>2. CASE i = 1
    BY <1>1, <1>3, <1>4, <2>2
  <2>3. CASE j = 1
    BY <1>1, <1>3, <1>4, <2>3
  <2>4. CASE i # 1 /\ j # 1
    <3>1. i - 1 \in DOMAIN t /\ j - 1 \in DOMAIN t /\ t[i - 1].isbn = t[j - 1].isbn
      BY <1>1, <1>4, <2>4
    <3>2. i - 1 = j - 1
      BY <1>1, <3>1
    <3> QED
      BY <2>1, <3>2
  <2> QED
    BY <2>2, <2>3, <2>4
<1>6. IsLibrary(s)
  BY <1>2, <1>5 DEF IsLibrary
<1>7. ToSet(s) = ToSet(t) \cup {b} /\ ISBNs(s) = ISBNs(t) \cup {b.isbn}
  <2>1. 1 \in DOMAIN s
    BY <1>1, <1>2
  <2> QED
    BY <1>1, <1>3, <1>4, <2>1 DEF ToSet, ISBNs
<1>8. b \notin ToSet(t)
  BY <1>1 DEF ToSet
<1>9. \A n \in DOMAIN t : f[n] \in DOMAIN s /\ s[f[n]] = t[n]
  BY <1>1, <1>3
<1>10. \A m, n \in DOMAIN t : m < n <=> f[m] < f[n]
  BY <1>1
<1> HIDE DEF f
<1>11. \A order : \A c, d \in ToSet(t) :
          <<c, d>> \in BookOrder(t, order) <=> <<c, d>> \in BookOrder(s, order)
  BY <1>6, <1>9, <1>10, SameOrder
<1>12. Shorter(t, s, {b}) /\ Cardinality({b}) = 1
  <2>1. IsFiniteSet({b}) /\ Cardinality({b}) = 1
    BY FS_Singleton
  <2>2. ToSet(t) = ToSet(s) \ {b}
    BY <1>7, <1>8
  <2> QED
    BY <1>6, <1>11, <2>1, <2>2 DEF Shorter
<1> QED
  BY <1>7, <1>12 DEF s

\* The books of a library that have one of these numbers.
Gone(s, isbns) == {b \in ToSet(s) : b.isbn \in isbns}

LEMMA BooksGo ==
  ASSUME NEW s, IsLibrary(s), NEW lost \in SUBSET ISBNs(s)
  PROVE  LET t == Kept(s, {i \in DOMAIN s : s[i].isbn \notin lost}) IN
         /\ Shorter(t, s, Gone(s, lost))
         /\ ISBNs(t) = ISBNs(s) \ lost
         /\ Cardinality(lost) \in Nat /\ Cardinality(Gone(s, lost)) = Cardinality(lost)
         /\ lost = {} <=> Cardinality(lost) = 0
<1> DEFINE I == {i \in DOMAIN s : s[i].isbn \notin lost}
           t == Kept(s, I)
           D == Gone(s, lost)
<1>1. s \in Seq(AllBooks) /\ \A i, j \in DOMAIN s : s[i].isbn = s[j].isbn => i = j
  BY DEF IsLibrary
<1>2. I \in SUBSET DOMAIN s
  OBVIOUS
<1>3. I = {i \in DOMAIN s : s[i] \notin D}
  BY DEF ToSet, Gone
<1>4. ISBNs(s) = {b.isbn : b \in ToSet(s)}
  BY DEF ISBNs, ToSet
<1> HIDE DEF I
<1>5. IsLibrary(t) /\ ToSet(t) = {s[i] : i \in I}
  BY <1>2, KeptLibrary
<1>6. ToSet(t) = ToSet(s) \ D
  BY <1>3, <1>5 DEF ToSet
<1>7. PICK at : Sources(at, s, I)
  BY <1>1, <1>2, KeptIs
<1> HIDE DEF t
<1>8. DOMAIN t = 1 .. Len(at)
  BY <1>5, <1>7 DEF Sources, IsLibrary, t
<1>9. \A n \in DOMAIN t : at[n] \in DOMAIN s /\ s[at[n]] = t[n]
  BY <1>2, <1>7, <1>8 DEF Sources, t
<1>10. \A m, n \in DOMAIN t : m < n <=> at[m] < at[n]
  BY <1>7, <1>8 DEF Sources
<1>11. \A order : \A c, d \in ToSet(t) :
          <<c, d>> \in BookOrder(t, order) <=> <<c, d>> \in BookOrder(s, order)
  BY <1>5, <1>9, <1>10, SameOrder
<1>12. \A b, c \in ToSet(s) : b.isbn = c.isbn => b = c
  BY <1>1 DEF ToSet
<1>13. ISBNs(t) = ISBNs(s) \ lost
  <2>1. ISBNs(t) = {b.isbn : b \in ToSet(t)}
    BY DEF ISBNs, ToSet
  <2> QED
    BY <1>4, <1>6, <2>1 DEF Gone
<1>14. /\ IsFiniteSet(D) /\ Cardinality(D) = Cardinality(lost)
       /\ Cardinality(lost) \in Nat /\ (lost = {} <=> Cardinality(lost) = 0)
  <2> DEFINE f == [b \in D |-> b.isbn]
  <2>1. IsFiniteSet(ToSet(s)) /\ D \subseteq ToSet(s)
    BY <1>1, ElementsFinite DEF Gone
  <2>2. IsFiniteSet(D)
    BY <2>1, FS_Subset
  <2>3. f \in Bijection(D, lost)
    <3>1. f \in [D -> lost]
      BY DEF Gone
    <3>2. \A b, c \in D : f[b] = f[c] => b = c
      BY <1>12, <2>1
    <3>3. \A i \in lost : \E b \in D : f[b] = i
      BY <1>4 DEF Gone
    <3> QED
      BY <3>1, <3>2, <3>3 DEF Bijection, Injection, IsInjective, Surjection
  <2> HIDE DEF f, D
  <2>4. IsFiniteSet(lost) /\ Cardinality(lost) = Cardinality(D)
    BY <2>2, <2>3, FS_Bijection DEF ExistsBijection
  <2> QED
    BY <2>2, <2>4, FS_EmptySet, FS_CardinalityType
<1>15. Shorter(t, s, D)
  BY <1>5, <1>6, <1>11, <1>14 DEF Shorter
<1> QED
  BY <1>13, <1>14, <1>15 DEF t, I

\* Keeping everything changes nothing.
LEMMA KeptAll ==
  ASSUME NEW X, NEW s \in Seq(X)
  PROVE  Kept(s, DOMAIN s) = s
<1> DEFINE I == DOMAIN s
           R == {p \in I \X I : p[1] < p[2]}
<1>0. I = 1 .. Len(s) /\ Len(s) \in Nat
  OBVIOUS
<1>1. PICK at : Sources(at, s, I)
  BY KeptIs
<1>2. IsFiniteSet(I) /\ Cardinality(I) = Len(s)
  BY <1>0, FS_Interval
<1>3. Len(at) = Len(s) /\ Kept(s, I) \in Seq(X) /\ Len(Kept(s, I)) = Len(s)
  BY <1>1, <1>2, KeptIs DEF Sources
<1>4. Lists(at, I, R)
  <2>1. \A m, n \in 1 .. Len(at) : m < n <=> <<at[m], at[n]>> \in R
    BY <1>1 DEF Sources
  <2> HIDE DEF R
  <2> QED
    BY <1>1, <2>1 DEF Sources, Lists
<1>5. \A n \in I : at[n] \in I /\ Rank(at[n], I, R) = n - 1
  <2>1. \A i \in I : <<i, i>> \notin R
    BY <1>0
  <2> HIDE DEF R
  <2> QED
    BY <1>0, <1>3, <1>4, <2>1, RankInList
<1>6. \A i \in I : Rank(i, I, R) = i - 1
  <2> TAKE i \in I
  <2>1. Earlier(i, I, R) = 1 .. i - 1 /\ i - 1 \in Nat
    BY <1>0 DEF Earlier
  <2>2. Cardinality(1 .. i - 1) = i - 1
    <3> DEFINE j == i - 1
    <3>1. j \in Nat
      BY <2>1
    <3> HIDE DEF j
    <3>2. Cardinality(1 .. j) = j
      BY <3>1, FS_Interval
    <3> QED
      BY <3>2 DEF j
  <2> QED
    BY <2>1, <2>2 DEF Rank
<1>7. \A n \in I : at[n] = n
  <2> TAKE n \in I
  <2>1. at[n] \in I /\ at[n] - 1 = n - 1
    BY <1>5, <1>6
  <2> QED
    BY <1>0, <2>1
<1>8. \A n \in I : Kept(s, I)[n] = s[n]
  BY <1>0, <1>1, <1>3, <1>7 DEF Sources
<1> QED
  BY <1>0, <1>3, <1>8

-----------------------------------------------------------------------------
(* The invariant *)

LEMMA QuietIs ==
  /\ Quiet \in Scrolls(ISBNs(shelf))
  /\ Quiet.stayed = ISBNs(shelf) /\ Quiet.added = 0 /\ Quiet.removed = 0 /\ Quiet.failed = FALSE
  BY DEF Quiet, Scrolls

\* What statements that fail take out of one answer.
LEMMA LossIs ==
  ASSUME NEW lost \in Losses, IsLibrary(shelf)
  PROVE  /\ IsLibrary(Without(lost)) /\ Shorter(Without(lost), shelf, Gone(shelf, lost))
         /\ Cardinality(lost) \in Nat /\ Cardinality(Gone(shelf, lost)) = Cardinality(lost)
         /\ \A x \in Gone(shelf, lost) : x.isbn \in lost
         /\ Cardinality(lost) = 0 => lost = {} /\ Without(lost) = shelf
<1>1. lost \in SUBSET ISBNs(shelf)
  BY DEF Losses
<1>2. ASSUME lost = {} PROVE Without(lost) = shelf
  <2>1. {i \in DOMAIN shelf : shelf[i].isbn \notin lost} = DOMAIN shelf
    BY <1>2
  <2> QED
    BY <2>1, KeptAll DEF Without, IsLibrary
<1>3. \A x \in Gone(shelf, lost) : x.isbn \in lost
  BY DEF Gone
<1>4. /\ Shorter(Without(lost), shelf, Gone(shelf, lost))
      /\ Cardinality(lost) \in Nat /\ Cardinality(Gone(shelf, lost)) = Cardinality(lost)
      /\ lost = {} <=> Cardinality(lost) = 0
  BY <1>1, BooksGo DEF Without
<1> QED
  BY <1>2, <1>3, <1>4 DEF Shorter

\* Page 1 has no errors yet.
LEMMA FirstPage ==
  ASSUME NEW s, IsLibrary(s), NEW k, NEW st
  PROVE  LET F == Found(s, k) IN
         /\ PageOf(F, 1) \in Seq(AllBooks) /\ HasNext(F, 1) \in BOOLEAN
         /\ HasNext(F, 1) => 1 < MaxPage
         /\ Twice(s, k, 1, PageOf(F, 1)) = 0
         /\ Cardinality(Missed(s, k, 1, PageOf(F, 1), st, HasNext(F, 1))) = 0
<1> DEFINE F == Found(s, k)
           P == PageOf(F, 1)
           none == <<>>
           m == HasNext(F, 1)
<1>0. 0 + 1 = 1 /\ 0 * PageSize = 0 /\ 0 \in Nat /\ 1 \in Nat
  BY PageAssumption
<1>1. P \in Seq(AllBooks)
  BY <1>0, PageIs
<1>2. none \o P = P /\ none \in Seq(AllBooks) /\ ToSet(none) = {} /\ Len(none) = 0
  BY <1>1 DEF ToSet
<1>3. m \in BOOLEAN /\ (m => 1 < MaxPage)
  BY <1>0, NextPageIs
<1>4. Twice(s, k, 1, P) = Twice(s, k, 0, none)
  <2> HIDE DEF none
  <2>1. Twice(s, k, 0 + 1, none \o PageOf(F, 0 + 1)) = Twice(s, k, 0, none)
    BY <1>0, <1>2, TwiceLoads, ZenonT(60)
  <2> QED
    BY <1>0, <1>2, <2>1
<1>5. Twice(s, k, 0, none) = 0
  <2> HIDE DEF none
  <2>1. Behind(s, k, 0 * PageSize) \cap ToSet(none) = {}
    BY <1>2
  <2>2. Cardinality({}) = 0
    BY FS_EmptySet
  <2> QED
    BY <1>2, <2>1, <2>2 DEF Twice
<1>6. Cardinality(Missed(s, k, 1, P, st, m)) <= Cardinality(Missed(s, k, 0, none, st, TRUE))
  <2> HIDE DEF none
  <2>1. Cardinality(Missed(s, k, 0 + 1, none \o PageOf(F, 0 + 1), st, HasNext(F, 0 + 1)))
           <= Cardinality(Missed(s, k, 0, none, st, TRUE))
    BY <1>0, <1>2, MissedLoads
  <2> QED
    BY <1>0, <1>2, <2>1
<1>7. Cardinality(Missed(s, k, 0, none, st, TRUE)) = 0
  <2>1. Ahead(s, k, 0) = {}
    BY MatchingIs, RankType DEF Ahead
  <2>2. Missed(s, k, 0, none, st, TRUE) = {}
    BY <1>0, <2>1 DEF Missed
  <2> QED
    BY <2>2, FS_EmptySet
<1>8. Cardinality(Missed(s, k, 1, P, st, m)) \in Nat
  BY MissedFinite
<1>9. Cardinality(Missed(s, k, 1, P, st, m)) = 0
  <2> DEFINE new == Cardinality(Missed(s, k, 1, P, st, m))
  <2>1. new <= 0 /\ new \in Nat
    BY <1>6, <1>7, <1>8
  <2> HIDE DEF new
  <2>2. new = 0
    BY <2>1
  <2> QED
    BY <2>2 DEF new
<1> QED
  BY <1>1, <1>3, <1>4, <1>5, <1>9

LEMMA NextPageNumber ==
  ASSUME NEW p \in 1 .. MaxPage, p < MaxPage
  PROVE  NextPage(p) = p + 1 /\ p + 1 \in 1 .. MaxPage
<1>1. MaxPage \in Nat /\ {p + 1, MaxPage} \subseteq Nat
  BY PageAssumption
<1>2. Min({p + 1, MaxPage}) \in {p + 1, MaxPage} /\ Min({p + 1, MaxPage}) <= p + 1
  BY <1>1, MinIs
<1> QED
  BY <1>1, <1>2 DEF NextPage

LEMMA TypeOKInit == Init => TypeOK
<1> SUFFICES ASSUME Init PROVE TypeOK
  OBVIOUS
<1>1. IsLibrary(shelf)
  BY BookAssumption DEF Init, IsLibrary
<1>2. cards \in Seq(AllBooks) /\ more \in BOOLEAN
  BY <1>1, FirstPage DEF Init
<1>3. scroll \in Scrolls(ISBNs(shelf))
  BY QuietIs DEF Init
<1>4. page \in 1 .. MaxPage
  BY PageAssumption DEF Init
<1> QED
  BY <1>1, <1>2, <1>3, <1>4, QueryAssumption DEF Init, TypeOK

LEMMA BordersInit == Init => Borders
<1> SUFFICES ASSUME Init PROVE Borders
  OBVIOUS
<1>1. IsLibrary(shelf)
  BY TypeOKInit DEF TypeOK
<1>2. /\ shown = First /\ page = 1 /\ loading = FALSE
      /\ cards = PageOf(Found(shelf, shown), 1)
      /\ more = HasNext(Found(shelf, shown), 1)
      /\ scroll = Quiet
  BY DEF Init
<1>3. Bounded(shelf, shown, page, cards, more, scroll)
  <2>1. /\ Twice(shelf, shown, page, cards) = 0
        /\ Cardinality(Missed(shelf, shown, page, cards, scroll.stayed, more)) = 0
    BY <1>1, <1>2, FirstPage
  <2>2. scroll.added = 0 /\ scroll.removed = 0
    BY <1>2, QuietIs
  <2> QED
    BY <2>1, <2>2 DEF Bounded
<1>4. Exact(shelf, shown, page, cards, more)
  BY <1>1, <1>2, ExactFirst
<1>5. more => page < MaxPage
  BY <1>1, <1>2, FirstPage
<1> QED
  BY <1>2, <1>3, <1>4, <1>5 DEF Borders

-----------------------------------------------------------------------------
(* What a file holds *)

LEMMA SequenceIs ==
  ASSUME NEW s, IsSequence(s)
  PROVE  s \in Seq(ToSet(s)) /\ DOMAIN s = 1 .. Len(s)
  BY DEF IsSequence, ToSet

\* Every row of a file that is taken is a record or skipped.
LEMMA ParsedIs ==
  ASSUME NEW f \in Files, ~Parsed[f].failed
  PROVE  /\ Parsed[f].records \in Seq(Records)
         /\ Parsed[f].skipped \in Nat /\ Len(f.rows) \in Nat
         /\ Len(Parsed[f].records) + Parsed[f].skipped = Len(f.rows)
<1> DEFINE I == {n \in DOMAIN f.rows : Usable(f, f.rows[n])}
           usable == Kept(f.rows, I)
           parsed == parseImportCSV(f)
<1>1. Parsed[f] = parsed
  BY DEF Parsed
<1>2. f.rows \in Seq(ToSet(f.rows)) /\ Len(f.rows) \in Nat
  BY BookAssumption, SequenceIs
<1>3. /\ usable \in Seq(ToSet(f.rows)) /\ Len(usable) \in Nat /\ Len(usable) <= Len(f.rows)
      /\ I \subseteq DOMAIN f.rows
  BY <1>2, KeptIs
<1>4. ~Rejected(f)
  BY <1>1 DEF parseImportCSV
<1>5. /\ parsed.records = [k \in DOMAIN usable |-> Record(f, usable[k])]
      /\ parsed.skipped = Len(f.rows) - Len(usable)
  BY <1>4 DEF parseImportCSV, Skipped
<1> HIDE DEF usable, parsed
<1>6. DOMAIN usable = 1 .. Len(usable)
  BY <1>3
<1>7. parsed.skipped \in Nat
  BY <1>2, <1>3, <1>5
<1>8. DOMAIN parsed.records = 1 .. Len(usable) /\ parsed.records = [k \in 1 .. Len(usable) |-> parsed.records[k]]
  BY <1>5, <1>6
<1>9. \A k \in 1 .. Len(usable) : parsed.records[k] \in ToSet(parsed.records)
  BY <1>8 DEF ToSet
<1>10. ToSet(parsed.records) \subseteq Records
  BY <1>1 DEF Records
<1>11. parsed.records \in [1 .. Len(usable) -> Records]
  BY <1>8, <1>9, <1>10
<1>12. parsed.records \in Seq(Records) /\ Len(parsed.records) = Len(usable)
  BY <1>3, <1>11
<1>13. Len(parsed.records) + parsed.skipped = Len(f.rows)
  <2>1. Len(parsed.records) = Len(usable) /\ parsed.skipped = Len(f.rows) - Len(usable)
    BY <1>5, <1>12
  <2>2. \A m, n \in Nat : m + (n - m) = n
    OBVIOUS
  <2>3. Len(usable) \in Nat /\ Len(f.rows) \in Nat
    BY <1>2, <1>3
  <2> QED
    BY <2>1, <2>2, <2>3, SMTT(60)
<1> QED
  BY <1>1, <1>2, <1>7, <1>12, <1>13

LEMMA RecordIsBook ==
  ASSUME NEW r \in Records
  PROVE  WithAuthor(r) \in AllBooks
  BY DEF Records, AllBooks

LEMMA FormIsBook ==
  ASSUME NEW b \in FormBooks
  PROVE  b \in AllBooks
  BY DEF AllBooks

-----------------------------------------------------------------------------
(* The invariant is kept: changes of the library *)

\* Another library and the same grid.
LEMMA PutKeeps ==
  ASSUME TypeOK, Borders, NEW b \in AllBooks, b.isbn \notin ISBNs(shelf),
         Put(b), UNCHANGED grid
  PROVE  /\ IsLibrary(shelf') /\ scroll' \in Scrolls(ISBNs(shelf'))
         /\ Borders'
<1>1. /\ IsLibrary(shelf) /\ page \in Nat /\ cards \in Seq(AllBooks) /\ more \in BOOLEAN
      /\ scroll \in Scrolls(ISBNs(shelf))
  BY PageAssumption DEF TypeOK
<1>2. Shorter(shelf, shelf', {b}) /\ Cardinality({b}) = 1 /\ ISBNs(shelf') = ISBNs(shelf) \cup {b.isbn}
  BY <1>1, BookComes DEF Put
<1>3. scroll' = [scroll EXCEPT !.added = @ + 1]
  BY DEF Put
<1>4. /\ scroll.added \in Nat /\ scroll.removed \in Nat /\ scroll.stayed \subseteq ISBNs(shelf)
      /\ scroll'.stayed = scroll.stayed /\ scroll'.added = scroll.added + 1
      /\ scroll'.removed = scroll.removed /\ scroll'.failed = scroll.failed
      /\ scroll' \in Scrolls(ISBNs(shelf'))
  BY <1>1, <1>2, <1>3 DEF Scrolls
<1>5. /\ shown' = shown /\ page' = page /\ cards' = cards /\ more' = more /\ loading' = loading
  BY DEF grid
<1>6. Bounded(shelf', shown, page, cards, more, scroll')
  <2>1. /\ Twice(shelf', shown, page, cards) <= Twice(shelf, shown, page, cards) + 1
        /\ Twice(shelf', shown, page, cards) \in Int /\ Twice(shelf, shown, page, cards) \in Int
    BY <1>1, <1>2, TwiceMoves, TwiceType
  <2>2. Twice(shelf, shown, page, cards) <= scroll.added
    BY DEF Borders, Bounded
  <2>3. Twice(shelf', shown, page, cards) <= scroll'.added
    BY <1>4, <2>1, <2>2
  <2>4. \A x \in {b} : x.isbn \notin scroll.stayed
    BY <1>4
  <2> DEFINE M(s) == Cardinality(Missed(s, shown, page, cards, scroll.stayed, more))
  <2>5. M(shelf') <= M(shelf)
    BY <1>1, <1>2, <2>4, MissedAdded
  <2>6. M(shelf') \in Nat /\ M(shelf) \in Nat
    BY <1>2, MissedFinite DEF Shorter
  <2>7. ~scroll.failed => M(shelf) <= scroll.removed
    BY DEF Borders, Bounded
  <2>8. ~scroll'.failed => M(shelf') <= scroll'.removed
    <3> HIDE DEF M
    <3> QED
      BY <1>4, <2>5, <2>6, <2>7
  <2> QED
    BY <1>4, <2>3, <2>8 DEF Bounded
<1>7. scroll' # Quiet'
  BY <1>4 DEF Quiet
<1>8. Borders'
  BY <1>5, <1>6, <1>7 DEF Borders
<1> QED
  BY <1>2, <1>4, <1>8 DEF Shorter

LEMMA RemoveKeeps ==
  ASSUME TypeOK, Borders, NEW i, RemoveBook(i)
  PROVE  /\ IsLibrary(shelf') /\ scroll' \in Scrolls(ISBNs(shelf'))
         /\ Borders'
<1>1. /\ IsLibrary(shelf) /\ page \in Nat /\ cards \in Seq(AllBooks) /\ more \in BOOLEAN
      /\ scroll \in Scrolls(ISBNs(shelf))
  BY PageAssumption DEF TypeOK
<1> DEFINE D == Gone(shelf, {i})
<1>2. {i} \in SUBSET ISBNs(shelf) /\ Cardinality({i}) = 1
  BY FS_Singleton DEF RemoveBook
<1>3. shelf' = Kept(shelf, {n \in DOMAIN shelf : shelf[n].isbn \notin {i}})
  BY DEF RemoveBook, Without
<1>4. Shorter(shelf', shelf, D) /\ Cardinality(D) = 1 /\ ISBNs(shelf') = ISBNs(shelf) \ {i}
  BY <1>1, <1>2, <1>3, BooksGo
<1> HIDE DEF D
<1>5. scroll' = [scroll EXCEPT !.stayed = @ \ {i}, !.removed = @ + 1]
  BY DEF RemoveBook
<1>6. /\ scroll.added \in Nat /\ scroll.removed \in Nat
      /\ scroll'.stayed = scroll.stayed \ {i} /\ scroll'.added = scroll.added
      /\ scroll'.removed = scroll.removed + 1 /\ scroll'.failed = scroll.failed
      /\ scroll' \in Scrolls(ISBNs(shelf'))
  <2>1. scroll.stayed \ {i} \in SUBSET ISBNs(shelf')
    BY <1>1, <1>4 DEF Scrolls
  <2>2. scroll.added \in Nat /\ scroll.removed \in Nat
    BY <1>1 DEF Scrolls
  <2>3. scroll' = [scroll EXCEPT !.stayed = scroll.stayed \ {i}, !.removed = scroll.removed + 1]
    BY <1>5
  <2>4. scroll.removed + 1 \in Nat
    BY <2>2
  <2> DEFINE st == scroll.stayed \ {i}
             y == scroll.removed + 1
             q == scroll'
             E == ISBNs(shelf')
             A == ISBNs(shelf)
             r == scroll
  <2>5. /\ st \in SUBSET E /\ y \in Nat /\ q = [r EXCEPT !.stayed = st, !.removed = y]
        /\ r \in Scrolls(A)
    BY <1>1, <2>1, <2>3, <2>4
  <2> HIDE DEF st, y, q, E, A, r
  <2>6. /\ q.stayed = st /\ q.added = r.added /\ q.removed = y /\ q.failed = r.failed
        /\ q \in Scrolls(E)
    BY <2>5 DEF Scrolls
  <2> QED
    BY <2>2, <2>6 DEF st, y, q, E, r
<1>7. /\ shown' = shown /\ page' = page /\ cards' = cards /\ more' = more /\ loading' = loading
  BY DEF RemoveBook, grid
<1>8. Bounded(shelf', shown, page, cards, more, scroll')
  <2>1. /\ Twice(shelf', shown, page, cards) <= Twice(shelf, shown, page, cards)
        /\ Twice(shelf', shown, page, cards) \in Int /\ Twice(shelf, shown, page, cards) \in Int
    BY <1>1, <1>4, TwiceMoves, TwiceType
  <2>2. Twice(shelf, shown, page, cards) <= scroll.added
    BY DEF Borders, Bounded
  <2>3. Twice(shelf', shown, page, cards) <= scroll'.added
    BY <1>6, <2>1, <2>2
  <2> DEFINE M(s, st) == Cardinality(Missed(s, shown, page, cards, st, more))
  <2>4. M(shelf', scroll'.stayed) <= M(shelf, scroll.stayed) + 1
    BY <1>1, <1>4, <1>6, MissedRemoved
  <2>5. M(shelf', scroll'.stayed) \in Nat /\ M(shelf, scroll.stayed) \in Nat
    BY <1>4, MissedFinite DEF Shorter
  <2>6. ~scroll.failed => M(shelf, scroll.stayed) <= scroll.removed
    BY DEF Borders, Bounded
  <2>7. ~scroll'.failed => M(shelf', scroll'.stayed) <= scroll'.removed
    <3> HIDE DEF M
    <3> QED
      BY <1>6, <2>4, <2>5, <2>6
  <2> QED
    BY <2>3, <2>7 DEF Bounded
<1>9. scroll' # Quiet'
  BY <1>6 DEF Quiet
<1>10. Borders'
  BY <1>7, <1>8, <1>9 DEF Borders
<1> QED
  BY <1>4, <1>6, <1>10 DEF Shorter

-----------------------------------------------------------------------------
(* The invariant is kept: answers *)

LEMMA SearchKeeps ==
  ASSUME TypeOK, Borders, NEW lost \in Losses, SearchAnswer(lost)
  PROVE  TypeOK' /\ Borders'
<1> DEFINE t == Without(lost)
<1>1. IsLibrary(shelf) /\ asked \in Queries /\ shelf' = shelf /\ upload' = upload
  BY DEF TypeOK, SearchAnswer
<1>2. /\ shown' = asked /\ page' = 1 /\ loading' = FALSE
      /\ cards' = PageOf(Found(t, asked), 1) /\ more' = HasNext(Found(t, asked), 1)
      /\ scroll' = [Quiet EXCEPT !.stayed = @ \ lost, !.added = Cardinality(lost)]
  BY DEF SearchAnswer
<1> DEFINE D == Gone(shelf, lost)
<1>3. /\ IsLibrary(t) /\ Shorter(t, shelf, D) /\ Cardinality(D) = Cardinality(lost)
      /\ \A x \in D : x.isbn \in lost
      /\ Cardinality(lost) = 0 => t = shelf
  BY <1>1, LossIs
<1>4. Cardinality(lost) \in Nat
  BY <1>1, LossIs
<1>5. /\ scroll'.stayed = ISBNs(shelf) \ lost /\ scroll'.added = Cardinality(lost)
      /\ scroll'.removed = 0 /\ scroll'.failed = FALSE
      /\ scroll' \in Scrolls(ISBNs(shelf))
  <2>1. ISBNs(shelf) \ lost \in SUBSET ISBNs(shelf) /\ Cardinality(lost) \in Nat /\ 0 \in Nat
    BY <1>4
  <2>2. scroll' = [Quiet EXCEPT !.stayed = ISBNs(shelf) \ lost, !.added = Cardinality(lost)]
    BY <1>2, QuietIs
  <2> DEFINE st == ISBNs(shelf) \ lost
             x == Cardinality(lost)
             q == scroll'
             E == ISBNs(shelf)
             r == Quiet
  <2>3. /\ st \in SUBSET E /\ x \in Nat /\ q = [r EXCEPT !.stayed = st, !.added = x]
        /\ r \in Scrolls(E)
    BY <2>1, <2>2, QuietIs
  <2> HIDE DEF st, x, q, E, r
  <2>4. /\ q.stayed = st /\ q.added = x /\ q.removed = r.removed /\ q.failed = r.failed
        /\ q \in Scrolls(E)
    BY <2>3 DEF Scrolls
  <2> QED
    BY <2>4, QuietIs DEF st, x, q, E, r
<1> DEFINE k == asked
           c == PageOf(Found(t, k), 1)
           m == HasNext(Found(t, k), 1)
           st == scroll'.stayed
<1>6. /\ c \in Seq(AllBooks) /\ m \in BOOLEAN /\ (m => 1 < MaxPage)
      /\ Twice(t, k, 1, c) = 0 /\ Cardinality(Missed(t, k, 1, c, st, m)) = 0
  BY <1>3, FirstPage
<1>7. TypeOK'
  <2>1. asked' \in Queries \cup {None} /\ typed' \in Queries /\ toast' \in BOOLEAN
    BY DEF SearchAnswer, Resume, TypeOK
  <2>2. scroll' \in Scrolls(ISBNs(shelf'))
    BY <1>1, <1>5
  <2>3. page' \in 1 .. MaxPage
    BY <1>2, PageAssumption
  <2>4. cards' \in Seq(AllBooks) /\ more' \in BOOLEAN
    BY <1>2, <1>6
  <2>5. IsLibrary(shelf') /\ (upload' = None \/ upload' \in Uploads)
    BY <1>1 DEF TypeOK
  <2> QED
    BY <1>1, <1>2, <2>1, <2>2, <2>3, <2>4, <2>5 DEF TypeOK
<1>8. Bounded(shelf, k, 1, c, m, scroll')
  <2>1. \A x \in D : x.isbn \notin st
    BY <1>3, <1>5
  <2>2. 1 \in Nat
    OBVIOUS
  <2> HIDE DEF c, m, t, st, k, D
  <2>3. /\ Twice(shelf, k, 1, c) <= Twice(t, k, 1, c) + Cardinality(D)
        /\ Twice(shelf, k, 1, c) \in Int
    BY <1>3, <1>6, <2>2, TwiceMoves, TwiceType
  <2>4. Twice(shelf, k, 1, c) <= scroll'.added
    BY <1>3, <1>4, <1>5, <1>6, <2>3
  <2>5. Cardinality(Missed(shelf, k, 1, c, st, m)) <= Cardinality(Missed(t, k, 1, c, st, m))
    BY <1>3, <1>6, <2>1, <2>2, MissedAdded
  <2>6. Cardinality(Missed(shelf, k, 1, c, st, m)) <= 0
    BY <1>6, <2>5
  <2> QED
    BY <1>5, <2>4, <2>6 DEF Bounded, st
<1>9. scroll' = Quiet' => Exact(shelf, k, 1, c, m)
  <2> SUFFICES ASSUME scroll' = Quiet' PROVE Exact(shelf, k, 1, c, m)
    OBVIOUS
  <2>1. Cardinality(lost) = 0
    BY <1>5 DEF Quiet
  <2>2. t = shelf
    BY <1>3, <2>1
  <2> QED
    BY <1>1, <2>2, ExactFirst
<1>10. Bounded(shelf', shown', page', cards', more', scroll')
  BY <1>1, <1>2, <1>8
<1>11. scroll' = Quiet' => Exact(shelf', shown', page', cards', more')
  BY <1>1, <1>2, <1>9
<1>12. (loading' => more') /\ (more' => page' < MaxPage)
  BY <1>2, <1>6
<1>13. Borders'
  BY <1>10, <1>11, <1>12 DEF Borders
<1> QED
  BY <1>7, <1>13

LEMMA MoreKeeps ==
  ASSUME TypeOK, Borders, NEW lost \in Losses, MoreAnswer(lost)
  PROVE  TypeOK' /\ Borders'
<1> DEFINE t == Without(lost)
           k == shown
           p == page
           n == Cardinality(lost)
           c == cards \o PageOf(Found(t, k), p + 1)
           m == HasNext(Found(t, k), p + 1)
           st == scroll.stayed \ lost
           D == Gone(shelf, lost)
<1>1. /\ IsLibrary(shelf) /\ k \in Queries /\ cards \in Seq(AllBooks)
      /\ scroll \in Scrolls(ISBNs(shelf))
  BY DEF TypeOK
<1>2. more = TRUE /\ p \in 1 .. MaxPage /\ p < MaxPage /\ p \in Nat
  BY PageAssumption DEF MoreAnswer, Borders, TypeOK
<1>3. page' = p + 1 /\ p + 1 \in 1 .. MaxPage
  BY <1>2, NextPageNumber DEF MoreAnswer
<1>4. /\ shelf' = shelf /\ shown' = k /\ cards' = c /\ more' = m /\ loading' = FALSE
      /\ asked' = asked /\ typed' = typed /\ toast' = toast /\ upload' = upload
  BY <1>3 DEF MoreAnswer, form
<1>5. /\ IsLibrary(t) /\ Shorter(t, shelf, D) /\ n \in Nat /\ Cardinality(D) = n
      /\ \A x \in D : x.isbn \in lost
      /\ n = 0 => t = shelf /\ lost = {}
  BY <1>1, LossIs
<1>6. /\ scroll.added \in Nat /\ scroll.removed \in Nat
      /\ scroll'.stayed = st /\ scroll'.added = scroll.added + n
      /\ scroll'.removed = scroll.removed + n /\ scroll'.failed = scroll.failed
      /\ scroll' \in Scrolls(ISBNs(shelf))
  <2> DEFINE a == scroll.added + n
             r == scroll.removed + n
             E == ISBNs(shelf)
             q == scroll'
             old == scroll
  <2>1. scroll.added \in Nat /\ scroll.removed \in Nat /\ scroll.stayed \in SUBSET E
    BY <1>1 DEF Scrolls
  <2>2. /\ a \in Nat /\ r \in Nat /\ st \in SUBSET E /\ old \in Scrolls(E)
        /\ q = [old EXCEPT !.stayed = st, !.added = a, !.removed = r]
    BY <1>1, <1>5, <2>1 DEF MoreAnswer
  <2> HIDE DEF a, r, E, st, q, old
  <2>3. /\ q.stayed = st /\ q.added = a /\ q.removed = r /\ q.failed = old.failed
        /\ q \in Scrolls(E)
    BY <2>2 DEF Scrolls
  <2> QED
    BY <2>1, <2>3 DEF a, r, E, st, q, old
<1>7. m \in BOOLEAN /\ (m => p + 1 < MaxPage)
  BY <1>2, <1>5, NextPageIs
<1>8. PageOf(Found(t, k), p + 1) \in Seq(AllBooks)
  BY <1>2, <1>5, PageIs
<1>9. c \in Seq(AllBooks)
  BY <1>1, <1>8, ElementsOfBoth
<1>10. TypeOK'
  <2>1. scroll' \in Scrolls(ISBNs(shelf'))
    BY <1>4, <1>6
  <2>2. page' \in 1 .. MaxPage /\ cards' \in Seq(AllBooks) /\ more' \in BOOLEAN
    BY <1>3, <1>4, <1>7, <1>9
  <2> QED
    BY <1>4, <2>1, <2>2 DEF TypeOK
<1>11. /\ Twice(t, k, p + 1, c) = Twice(t, k, p, cards)
       /\ Cardinality(Missed(t, k, p + 1, c, st, m)) <= Cardinality(Missed(t, k, p, cards, st, TRUE))
  BY <1>1, <1>2, <1>5, TwiceLoads, MissedLoads
<1>12. /\ Twice(shelf, k, p, cards) <= scroll.added
       /\ ~scroll.failed => Cardinality(Missed(shelf, k, p, cards, scroll.stayed, TRUE)) <= scroll.removed
  BY <1>2 DEF Borders, Bounded
<1>13. /\ Twice(shelf, k, p, cards) \in Int /\ Twice(t, k, p, cards) \in Int
       /\ Twice(shelf, k, p + 1, c) \in Int /\ Twice(t, k, p + 1, c) \in Int
  <2> HIDE DEF c, t
  <2> QED
    BY <1>1, <1>9, TwiceType
<1>14. /\ Cardinality(Missed(shelf, k, p, cards, scroll.stayed, TRUE)) \in Nat
       /\ Cardinality(Missed(t, k, p, cards, st, TRUE)) \in Nat
       /\ Cardinality(Missed(shelf, k, p + 1, c, st, m)) \in Nat
       /\ Cardinality(Missed(t, k, p + 1, c, st, m)) \in Nat
  <2> HIDE DEF c, t, st, m
  <2> QED
    BY <1>1, <1>5, MissedFinite
<1>15. Bounded(shelf, k, p + 1, c, m, scroll')
  <2>1. (\A x \in D : x.isbn \notin st) /\ p + 1 \in Nat
    BY <1>2, <1>5
  <2> HIDE DEF c, m, t, D, n
  <2>2. /\ Twice(t, k, p, cards) <= Twice(shelf, k, p, cards)
        /\ Cardinality(Missed(t, k, p, cards, st, TRUE))
              <= Cardinality(Missed(shelf, k, p, cards, scroll.stayed, TRUE)) + n
    BY <1>1, <1>2, <1>5, TwiceMoves, MissedRemoved
  <2> HIDE DEF st
  <2>3. Twice(shelf, k, p + 1, c) <= Twice(t, k, p + 1, c) + n
    BY <1>5, <1>9, <2>1, TwiceMoves
  <2>4. Cardinality(Missed(shelf, k, p + 1, c, st, m)) <= Cardinality(Missed(t, k, p + 1, c, st, m))
    BY <1>5, <1>7, <2>1, MissedAdded
  <2>5. Twice(shelf, k, p + 1, c) <= scroll'.added
    BY <1>5, <1>6, <1>11, <1>12, <1>13, <2>2, <2>3
  <2>6. ~scroll'.failed => Cardinality(Missed(shelf, k, p + 1, c, st, m)) <= scroll'.removed
    <3>1. ~scroll'.failed => Cardinality(Missed(shelf, k, p, cards, scroll.stayed, TRUE)) <= scroll.removed
      BY <1>6, <1>12
    <3>2. scroll'.removed = scroll.removed + n /\ scroll.removed \in Nat
      BY <1>6
    <3> DEFINE old == Cardinality(Missed(shelf, k, p, cards, scroll.stayed, TRUE))
               mid == Cardinality(Missed(t, k, p, cards, st, TRUE))
               late == Cardinality(Missed(t, k, p + 1, c, st, m))
               new == Cardinality(Missed(shelf, k, p + 1, c, st, m))
    <3>3. /\ old \in Nat /\ mid \in Nat /\ late \in Nat /\ new \in Nat /\ n \in Nat
          /\ mid <= old + n /\ late <= mid /\ new <= late
          /\ ~scroll'.failed => old <= scroll.removed
      BY <1>5, <1>11, <1>14, <2>2, <2>4, <3>1
    <3> HIDE DEF old, mid, late, new
    <3>4. ~scroll'.failed => new <= scroll'.removed
      BY <3>2, <3>3
    <3> QED
      BY <3>4 DEF new
  <2> QED
    BY <1>6, <2>5, <2>6 DEF Bounded, st
<1>16. scroll' = Quiet' => Exact(shelf, k, p + 1, c, m)
  <2> SUFFICES ASSUME scroll' = Quiet' PROVE Exact(shelf, k, p + 1, c, m)
    OBVIOUS
  <2>1. scroll'.added = 0 /\ scroll'.removed = 0 /\ scroll'.failed = FALSE /\ scroll'.stayed = ISBNs(shelf)
    BY <1>4 DEF Quiet
  <2>2. n = 0 /\ scroll.added = 0 /\ scroll.removed = 0
    BY <1>5, <1>6, <2>1
  <2>3. t = shelf /\ lost = {}
    BY <1>5, <2>2
  <2>4. scroll.stayed = ISBNs(shelf) /\ scroll.failed = FALSE
    BY <1>6, <2>1, <2>3
  <2>5. scroll = Quiet
    BY <1>1, <2>2, <2>4 DEF Quiet, Scrolls
  <2>6. Exact(shelf, k, p, cards, TRUE)
    BY <1>2, <2>5 DEF Borders
  <2> QED
    BY <1>1, <1>2, <2>3, <2>6, ExactLoads
<1>17. Bounded(shelf', shown', page', cards', more', scroll')
  BY <1>3, <1>4, <1>15
<1>18. scroll' = Quiet' => Exact(shelf', shown', page', cards', more')
  BY <1>3, <1>4, <1>16
<1>19. (loading' => more') /\ (more' => page' < MaxPage)
  BY <1>3, <1>4, <1>7
<1>20. Borders'
  BY <1>17, <1>18, <1>19 DEF Borders
<1> QED
  BY <1>10, <1>20

\* An answer of an empty library: nothing is shown twice, and the rest is
\* known to be missing.
LEMMA FailuresKeep ==
  ASSUME TypeOK, Borders, SearchFails \/ MoreFails
  PROVE  TypeOK' /\ Borders'
<1>1. CASE SearchFails
  <2>1. /\ shelf' = shelf /\ shown' = asked /\ page' = 1 /\ loading' = FALSE /\ cards' = <<>>
        /\ more' = FALSE /\ upload' = upload /\ asked \in Queries
    BY <1>1 DEF SearchFails, TypeOK
  <2>2. scroll' = [Quiet EXCEPT !.failed = TRUE]
    BY <1>1 DEF SearchFails
  <2>3. scroll'.added = 0 /\ scroll'.failed = TRUE /\ scroll' \in Scrolls(ISBNs(shelf))
    BY <2>2, QuietIs DEF Scrolls
  <2>4. TypeOK'
    <3>1. asked' \in Queries \cup {None} /\ typed' \in Queries /\ toast' \in BOOLEAN
      BY <1>1 DEF SearchFails, Resume, TypeOK
    <3>2. scroll' \in Scrolls(ISBNs(shelf'))
      BY <2>1, <2>3
    <3>3. page' \in 1 .. MaxPage /\ more' \in BOOLEAN
      <4>1. 1 \in 1 .. MaxPage
        BY PageAssumption
      <4> QED
        BY <2>1, <4>1
    <3>4. <<>> \in Seq(AllBooks)
      OBVIOUS
    <3>5. cards' \in Seq(AllBooks) /\ loading' \in BOOLEAN
      BY <2>1, <3>4
    <3> QED
      BY <2>1, <3>1, <3>2, <3>3, <3>5 DEF TypeOK
  <2>5. Twice(shelf', shown', page', cards') <= scroll'.added
    <3> DEFINE none == <<>>
               B == Behind(shelf, asked, 1 * PageSize)
    <3>1. Len(none) = 0 /\ ToSet(none) = {} /\ B \cap ToSet(none) = {}
      BY DEF ToSet
    <3> HIDE DEF none, B
    <3>2. Cardinality(ToSet(none)) = 0 /\ Cardinality(B \cap ToSet(none)) = 0
      BY <3>1, FS_EmptySet
    <3>3. Twice(shelf, asked, 1, none) = 0
      BY <3>1, <3>2 DEF Twice, B
    <3> QED
      BY <2>1, <2>3, <3>3 DEF none
  <2>6. scroll' # Quiet'
    BY <2>3 DEF Quiet
  <2> QED
    BY <2>1, <2>3, <2>4, <2>5, <2>6 DEF Borders, Bounded
<1>2. CASE MoreFails
  <2>1. more = TRUE /\ page \in 1 .. MaxPage /\ page < MaxPage
    BY <1>2 DEF MoreFails, Borders, TypeOK
  <2>2. page' = page + 1 /\ page + 1 \in 1 .. MaxPage /\ page \in Nat
    BY <1>2, <2>1, NextPageNumber, PageAssumption DEF MoreFails
  <2>3. /\ shelf' = shelf /\ shown' = shown /\ cards' = cards /\ more' = FALSE /\ loading' = FALSE
        /\ upload' = upload /\ asked' = asked /\ typed' = typed /\ toast' = toast
        /\ scroll' = [scroll EXCEPT !.failed = TRUE]
    BY <1>2 DEF MoreFails, form
  <2>4. /\ scroll'.added = scroll.added /\ scroll'.failed = TRUE /\ scroll' \in Scrolls(ISBNs(shelf))
        /\ scroll.added \in Nat
    BY <2>3 DEF TypeOK, Scrolls
  <2>5. TypeOK'
    BY <2>2, <2>3, <2>4 DEF TypeOK
  <2>6. Twice(shelf, shown, page + 1, cards) <= scroll.added
    <3> DEFINE lo == page * PageSize
               hi == (page + 1) * PageSize
               C == ToSet(cards)
    <3>1. IsLibrary(shelf) /\ cards \in Seq(AllBooks)
      BY DEF TypeOK
    <3>2. Behind(shelf, shown, hi) \subseteq Behind(shelf, shown, lo)
      <4>1. lo \in Nat /\ hi \in Nat /\ lo < hi
        BY <2>2, PageArithmetic
      <4>2. \A b \in Matching(shelf, shown) :
               Rank(b, Matching(shelf, shown), BookOrder(shelf, shown.sort)) \in Nat
        BY <3>1, MatchingIs, RankType
      <4> HIDE DEF lo, hi
      <4> QED
        BY <4>1, <4>2 DEF Behind, Ahead
    <3>3. IsFiniteSet(Behind(shelf, shown, lo) \cap C) /\ IsFiniteSet(Behind(shelf, shown, hi) \cap C)
      BY <3>1, TwiceType
    <3>4. /\ Twice(shelf, shown, page, cards) = Len(cards) - Cardinality(C) + Cardinality(Behind(shelf, shown, lo) \cap C)
          /\ Twice(shelf, shown, page + 1, cards) = Len(cards) - Cardinality(C) + Cardinality(Behind(shelf, shown, hi) \cap C)
          /\ Len(cards) \in Nat /\ Cardinality(C) \in Nat
      BY <3>1, ElementsFinite DEF Twice
    <3>5. Twice(shelf, shown, page, cards) <= scroll.added
      BY DEF Borders, Bounded
    <3> HIDE DEF lo, hi, C
    <3>6. /\ Cardinality(Behind(shelf, shown, hi) \cap C) <= Cardinality(Behind(shelf, shown, lo) \cap C)
          /\ Cardinality(Behind(shelf, shown, hi) \cap C) \in Nat
          /\ Cardinality(Behind(shelf, shown, lo) \cap C) \in Nat
      <4>1. Behind(shelf, shown, hi) \cap C \subseteq Behind(shelf, shown, lo) \cap C
        BY <3>2
      <4> QED
        BY <3>3, <4>1, FS_Subset, FS_CardinalityType
    <3> QED
      BY <2>4, <3>4, <3>5, <3>6
  <2>7. scroll' # Quiet'
    BY <2>4 DEF Quiet
  <2> QED
    BY <2>2, <2>3, <2>4, <2>5, <2>6, <2>7 DEF Borders, Bounded
<1> QED
  BY <1>1, <1>2

-----------------------------------------------------------------------------
(* The invariant is kept: every step *)

\* Steps that change neither the library nor the grid.
LEMMA BordersStay ==
  ASSUME Borders, UNCHANGED <<shelf, scroll>>, UNCHANGED <<shown, page, cards, more>>, loading' => more
  PROVE  Borders'
<1>1. Quiet' = Quiet
  BY DEF Quiet, ISBNs
<1>2. Borders' <=> /\ loading' => more
                   /\ more => page < MaxPage
                   /\ Bounded(shelf, shown, page, cards, more, scroll)
                   /\ scroll = Quiet => Exact(shelf, shown, page, cards, more)
  BY <1>1 DEF Borders
<1> QED
  BY <1>2 DEF Borders

\* What the rest of an import is made of.
LEMMA UploadIs ==
  ASSUME TypeOK, upload # None, upload.left # <<>>
  PROVE  /\ upload \in Uploads /\ Head(upload.left) \in Records /\ Tail(upload.left) \in Seq(Records)
         /\ Len(Tail(upload.left)) = Len(upload.left) - 1
         /\ upload.added \in Nat /\ upload.existing \in Nat /\ upload.skipped \in Nat
         /\ Len(upload.left) \in Nat
<1>1. upload \in Uploads
  BY DEF TypeOK
<1>2. /\ upload.left \in Seq(Records)
      /\ upload.added \in Nat /\ upload.existing \in Nat /\ upload.skipped \in Nat
  BY <1>1 DEF Uploads
<1> QED
  BY <1>1, <1>2

LEMMA InvNext ==
  ASSUME TypeOK, Borders, [Next]_vars
  PROVE  TypeOK' /\ Borders'
<1>1. ASSUME NEW k \in Queries, Type(k) PROVE TypeOK' /\ Borders'
  <2>1. /\ UNCHANGED <<shelf, scroll>> /\ UNCHANGED <<shown, page, cards, more, loading>> /\ upload' = upload
        /\ typed' = k /\ (asked' = k \/ asked' = asked) /\ toast' = toast
    BY <1>1 DEF Type, grid
  <2>2. Borders'
    BY <2>1, BordersStay DEF Borders
  <2>3. TypeOK'
    BY <2>1 DEF TypeOK, ISBNs
  <2> QED
    BY <2>2, <2>3
<1>2. CASE SearchReply
  <2>1. CASE SearchLost
    <3>1. /\ UNCHANGED <<shelf, scroll>> /\ UNCHANGED <<shown, page, cards, more, loading>> /\ upload' = upload
          /\ typed' = typed /\ asked' \in {typed, None} /\ toast' = TRUE
      BY <2>1 DEF SearchLost, Resume, grid
    <3>2. Borders'
      BY <3>1, BordersStay DEF Borders
    <3>3. TypeOK'
      BY <3>1 DEF TypeOK, ISBNs
    <3> QED
      BY <3>2, <3>3
  <2> QED
    BY <1>2, <2>1, SearchKeeps, FailuresKeep DEF SearchReply
<1>3. CASE Reveal
  <2>1. /\ UNCHANGED <<shelf, scroll>> /\ UNCHANGED <<shown, page, cards, more>> /\ upload' = upload
        /\ loading' = TRUE /\ more /\ asked' = asked /\ typed' = typed /\ toast' = toast
    BY <1>3 DEF Reveal, form
  <2>2. Borders'
    BY <2>1, BordersStay
  <2>3. TypeOK'
    BY <2>1 DEF TypeOK, ISBNs
  <2> QED
    BY <2>2, <2>3
<1>4. CASE MoreReply
  <2>1. CASE MoreLost
    <3>1. /\ UNCHANGED <<shelf, scroll>> /\ UNCHANGED <<shown, page, cards, more>> /\ upload' = upload
          /\ loading' = FALSE /\ asked' = asked /\ typed' = typed /\ toast' = toast
      BY <2>1 DEF MoreLost, form
    <3>2. Borders'
      BY <3>1, BordersStay
    <3>3. TypeOK'
      BY <3>1 DEF TypeOK, ISBNs
    <3> QED
      BY <3>2, <3>3
  <2> QED
    BY <1>4, <2>1, MoreKeeps, FailuresKeep DEF MoreReply
<1>5. ASSUME NEW b \in FormBooks, Add(b) PROVE TypeOK' /\ Borders'
  <2>1. b \in AllBooks /\ b.isbn \notin ISBNs(shelf) /\ Put(b) /\ UNCHANGED <<form, grid, upload>>
    BY <1>5, FormIsBook DEF Add
  <2>2. IsLibrary(shelf') /\ scroll' \in Scrolls(ISBNs(shelf')) /\ Borders'
    BY <2>1, PutKeeps
  <2>3. TypeOK'
    BY <2>1, <2>2 DEF TypeOK, form, grid
  <2> QED
    BY <2>2, <2>3
<1>6. ASSUME NEW i \in ISBNs(shelf), RemoveBook(i) PROVE TypeOK' /\ Borders'
  <2>1. IsLibrary(shelf') /\ scroll' \in Scrolls(ISBNs(shelf')) /\ Borders'
    BY <1>6, RemoveKeeps
  <2>2. UNCHANGED <<form, grid, upload>>
    BY <1>6 DEF RemoveBook
  <2>3. TypeOK'
    BY <2>1, <2>2 DEF TypeOK, form, grid
  <2> QED
    BY <2>1, <2>3
<1>7. ASSUME NEW f \in Files, Upload(f) PROVE TypeOK' /\ Borders'
  <2>1. /\ UNCHANGED <<shelf, scroll>> /\ UNCHANGED form /\ UNCHANGED <<shown, page, cards, more, loading>>
        /\ ~Parsed[f].failed
        /\ upload' = [left |-> Parsed[f].records, file |-> f,
                      added |-> 0, existing |-> 0, skipped |-> Parsed[f].skipped]
    BY <1>7 DEF Upload, grid
  <2>2. Parsed[f].records \in Seq(Records) /\ Parsed[f].skipped \in Nat
    BY <2>1, ParsedIs
  <2>3. upload' \in Uploads
    BY <2>1, <2>2 DEF Uploads
  <2>4. Borders'
    BY <2>1, BordersStay DEF Borders
  <2>5. TypeOK'
    BY <2>1, <2>3 DEF TypeOK, ISBNs, form
  <2> QED
    BY <2>4, <2>5
<1>8. CASE ImportRow
  <2> DEFINE b == WithAuthor(Head(upload.left))
             left == Tail(upload.left)
  <2>1. upload # None /\ upload.left # <<>> /\ UNCHANGED <<form, grid>>
    BY <1>8 DEF ImportRow
  <2>2. /\ upload \in Uploads /\ b \in AllBooks /\ left \in Seq(Records)
        /\ upload.added + 1 \in Nat /\ upload.existing + 1 \in Nat
    BY <2>1, UploadIs, RecordIsBook
  <2>0. /\ b.isbn \in ISBNs(shelf) => shelf' = shelf
        /\ b.isbn \notin ISBNs(shelf) => shelf' = <<b>> \o shelf
    BY <1>8 DEF ImportRow, WithRecord
  <2>3. CASE b.isbn \in ISBNs(shelf)
    <3>1. /\ UNCHANGED <<shelf, scroll>>
          /\ upload' = [upload EXCEPT !.left = left, !.existing = upload.existing + 1]
      BY <1>8, <2>0, <2>3 DEF ImportRow
    <3>2. upload' \in Uploads
      <4> HIDE DEF left
      <4> QED
        BY <2>2, <3>1 DEF Uploads
    <3>3. UNCHANGED <<shown, page, cards, more, loading>>
      BY <2>1 DEF grid
    <3>4. Borders'
      BY <3>1, <3>3, BordersStay DEF Borders
    <3>5. TypeOK'
      BY <2>1, <3>1, <3>2, <3>3 DEF TypeOK, ISBNs, form
    <3> QED
      BY <3>4, <3>5
  <2>4. CASE b.isbn \notin ISBNs(shelf)
    <3>1. Put(b) /\ upload' = [upload EXCEPT !.left = left, !.added = upload.added + 1]
      <4>1. shelf' # shelf
        <5>1. shelf' = <<b>> \o shelf /\ shelf \in Seq(AllBooks)
          BY <2>0, <2>4 DEF TypeOK, IsLibrary
        <5> HIDE DEF b
        <5>2. Len(shelf') = Len(shelf) + 1 /\ Len(shelf) \in Nat
          BY <2>2, <5>1
        <5> QED
          BY <5>2
      <4> QED
        BY <1>8, <2>0, <2>4, <4>1 DEF ImportRow, Put
    <3>2. upload' \in Uploads
      <4> HIDE DEF left
      <4> QED
        BY <2>2, <3>1 DEF Uploads
    <3>3. IsLibrary(shelf') /\ scroll' \in Scrolls(ISBNs(shelf')) /\ Borders'
      <4> HIDE DEF b
      <4> QED
        BY <2>1, <2>2, <2>4, <3>1, PutKeeps
    <3>4. TypeOK'
      BY <2>1, <3>2, <3>3 DEF TypeOK, form, grid
    <3> QED
      BY <3>3, <3>4
  <2> QED
    BY <2>3, <2>4
<1>9. CASE ImportDone
  <2>1. /\ UNCHANGED <<shelf, scroll>> /\ UNCHANGED form /\ UNCHANGED <<shown, page, cards, more, loading>>
        /\ upload' = None
    BY <1>9 DEF ImportDone, grid
  <2>2. Borders'
    BY <2>1, BordersStay DEF Borders
  <2>3. TypeOK'
    BY <2>1 DEF TypeOK, ISBNs, form
  <2> QED
    BY <2>2, <2>3
<1>10. CASE UNCHANGED vars
  <2>1. /\ UNCHANGED <<shelf, scroll>> /\ UNCHANGED form /\ UNCHANGED <<shown, page, cards, more, loading>>
        /\ upload' = upload
    BY <1>10 DEF vars, grid
  <2>2. Borders'
    BY <2>1, BordersStay DEF Borders
  <2>3. TypeOK'
    BY <2>1 DEF TypeOK, ISBNs, form
  <2> QED
    BY <2>2, <2>3
<1> QED
  BY <1>1, <1>2, <1>3, <1>4, <1>5, <1>6, <1>7, <1>8, <1>9, <1>10 DEF Next

\* The grid and the library, however pages, answers, changes and failures
\* interleave.
THEOREM InvariantHolds == Spec => []IInv
<1>1. Init => IInv
  BY TypeOKInit, BordersInit DEF IInv
<1>2. IInv /\ [Next]_vars => IInv'
  BY InvNext DEF IInv
<1> QED
  BY <1>1, <1>2, PTL DEF Spec

\* Every variable keeps its type, and the shelf never holds an ISBN twice.
THEOREM TypeCorrect == Spec => []TypeOK
<1>1. IInv => TypeOK
  BY DEF IInv
<1> QED
  BY <1>1, InvariantHolds, PTL

-----------------------------------------------------------------------------
(* Cells of a CSV file, there and back *)

LEMMA MaxIs ==
  ASSUME NEW n \in Nat, NEW S \in SUBSET (1 .. n), S # {}
  PROVE  Max(S) \in S /\ \A m \in S : m <= Max(S)
<1> DEFINE T == {n - m : m \in S}
<1>0. \A m \in S : m \in 1 .. n
  OBVIOUS
<1>1. T \subseteq Nat /\ T # {}
  <2>1. PICK m : m \in S
    OBVIOUS
  <2>2. n - m \in T
    BY <2>1
  <2>3. \A k \in T : k \in Nat
    BY <1>0
  <2> QED
    BY <2>2, <2>3
<1>2. PICK k \in T : \A j \in T : k <= j
  BY <1>1, LeastNumber
<1>3. PICK m \in S : k = n - m
  BY <1>2
<1>4. ASSUME NEW i \in S PROVE m >= i
  <2>1. n - m <= n - i
    BY <1>2, <1>3
  <2> QED
    BY <2>1
<1> QED
  BY <1>3, <1>4 DEF Max

LEMMA TrimSpaceIs ==
  ASSUME NEW X, NEW t \in Seq(X)
  PROVE  /\ TrimSpace(t) \in Seq(X)
         /\ TrimSpace(t) # <<>> => TrimSpace(t)[Len(TrimSpace(t))] \notin White
         /\ (\E i \in DOMAIN t : t[i] \notin White) => TrimSpace(t) # <<>>
         /\ t # <<>> /\ t[1] \notin White /\ t[Len(t)] \notin White => TrimSpace(t) = t
<1> DEFINE solid == {i \in DOMAIN t : t[i] \notin White}
           low   == Min(solid)
           high  == Max(solid)
<1>0. DOMAIN t = 1 .. Len(t) /\ Len(t) \in Nat /\ solid \subseteq 1 .. Len(t)
  OBVIOUS
<1>1. CASE solid = {}
  <2>1. TrimSpace(t) = <<>>
    BY <1>1 DEF TrimSpace
  <2>2. <<>> \in Seq(X)
    OBVIOUS
  <2>3. t # <<>> => 1 \in DOMAIN t
    BY <1>0
  <2> QED
    BY <1>1, <2>1, <2>2, <2>3
<1>2. CASE solid # {}
  <2>1. TrimSpace(t) = SubSeq(t, low, high)
    BY <1>2 DEF TrimSpace
  <2>2. low \in solid /\ \A m \in solid : low <= m
    <3>1. solid \subseteq Nat
      BY <1>0
    <3> QED
      BY <3>1, <1>2, MinIs
  <2>3. high \in solid /\ \A m \in solid : m <= high
    BY <1>0, <1>2, MaxIs
  <2>4. low \in 1 .. Len(t) /\ high \in 1 .. Len(t) /\ low <= high /\ t[high] \notin White
    BY <1>0, <2>2, <2>3
  <2>5. t # <<>> /\ t[1] \notin White /\ t[Len(t)] \notin White => low = 1 /\ high = Len(t)
    <3> SUFFICES ASSUME t # <<>>, t[1] \notin White, t[Len(t)] \notin White
                 PROVE  low = 1 /\ high = Len(t)
      OBVIOUS
    <3>1. 1 \in solid /\ Len(t) \in solid
      BY <1>0
    <3>2. low <= 1 /\ Len(t) <= high
      BY <2>2, <2>3, <3>1
    <3>3. low \in 1 .. Len(t) /\ high \in 1 .. Len(t) /\ Len(t) \in Nat
      BY <1>0, <2>4
    <3> HIDE DEF low, high
    <3> QED
      BY <3>2, <3>3
  <2> HIDE DEF solid, low, high
  <2>6. SubSeq(t, low, high) \in Seq(X) /\ Len(SubSeq(t, low, high)) = high - low + 1
    BY <1>0, <2>4
  <2>7. SubSeq(t, low, high)[high - low + 1] = t[high]
    BY <1>0, <2>4
  <2>8. SubSeq(t, low, high) # <<>>
    BY <2>4, <2>6
  <2>9. SubSeq(t, 1, Len(t)) = t
    BY <1>0
  <2> QED
    BY <2>1, <2>4, <2>5, <2>6, <2>7, <2>8, <2>9
<1> QED
  BY <1>1, <1>2

\* The same of a cell, whose line breaks the reader has seen to.
LEMMA TrimmedIs ==
  ASSUME NEW X, NEW t \in Seq(X)
  PROVE  /\ Trimmed(t) \in Seq(X)
         /\ Trimmed(t) # <<>> => Trimmed(t)[Len(Trimmed(t))] \notin White
         /\ (\E i \in DOMAIN t : t[i] \notin White) => Trimmed(t) # <<>>
         /\ Breaks(t) = {} => Trimmed(t) = TrimSpace(t)
         /\ Breaks(t) = {} /\ t # <<>> /\ t[1] \notin White /\ t[Len(t)] \notin White => Trimmed(t) = t
<1> DEFINE I == DOMAIN t \ Breaks(t)
           u == AsRead(t)
<1>1. u \in Seq(X) /\ ((\E i \in DOMAIN t : t[i] \notin White) => \E j \in DOMAIN u : u[j] \notin White)
  <2>1. CASE Breaks(t) = {}
    BY <2>1 DEF AsRead
  <2>2. CASE Breaks(t) # {}
    <3>1. u = Kept(t, I) /\ I \in SUBSET DOMAIN t
      BY <2>2 DEF AsRead
    <3> HIDE DEF I, u
    <3>2. u \in Seq(X)
      BY <3>1, KeptIs
    <3>3. PICK at : Sources(at, t, I)
      BY <3>1, KeptIs
    <3>4. ASSUME NEW i \in DOMAIN t, t[i] \notin White PROVE \E j \in DOMAIN u : u[j] \notin White
      <4>1. i \in I
        BY <3>4 DEF I, Breaks, White
      <4>2. PICK n \in 1 .. Len(at) : at[n] = i
        BY <3>3, <4>1 DEF Sources
      <4>3. u[n] = t[i] /\ Len(at) = Len(u)
        BY <3>1, <3>3, <4>2 DEF Sources
      <4>4. n \in DOMAIN u
        BY <3>2, <4>2, <4>3
      <4> QED
        BY <3>4, <4>3, <4>4
    <3> QED
      BY <3>2, <3>4
  <2> QED
    BY <2>1, <2>2
<1>2. Trimmed(t) = TrimSpace(u) /\ (Breaks(t) = {} => u = t)
  BY DEF Trimmed, AsRead
<1> HIDE DEF u
<1>3. Breaks(t) = {} => Trimmed(t) = TrimSpace(t)
  BY <1>2
<1> QED
  BY <1>1, <1>2, <1>3, TrimSpaceIs

LEMMA UnsafeIs ==
  ASSUME NEW X, NEW t \in Seq(X)
  PROVE  /\ csvUnsafe(t) \in Seq(X)
         /\ t # <<>> => csvUnsafe(t) # <<>> /\ csvUnsafe(t)[Len(csvUnsafe(t))] = t[Len(t)]
<1>1. CASE csvUnsafe(t) = t
  BY <1>1
<1>2. CASE csvUnsafe(t) = Tail(t) /\ Len(t) > 1
  <2>1. Tail(t) \in Seq(X) /\ Len(Tail(t)) = Len(t) - 1 /\ Len(t) \in Nat
    BY <1>2
  <2>2. Tail(t)[Len(t) - 1] = t[Len(t)]
    BY <1>2
  <2>3. Tail(t) # <<>>
    BY <1>2, <2>1
  <2> QED
    BY <1>2, <2>1, <2>2, <2>3
<1> QED
  BY <1>1, <1>2 DEF csvUnsafe

\* What the cell of a text gives when it is read.
Back(t) == csvUnsafe(Trimmed(csvSafe(t)))

LEMMA RoundTrip ==
  ASSUME NEW t \in Seq(Nat)
  PROVE  /\ Back(t) \in Seq(Nat)
         /\ Survives(t) => Back(t) = t
         /\ (\E i \in DOMAIN t : t[i] \notin White) => Back(t) # <<>>
<1> DEFINE safe == csvSafe(t)
           guarded == <<Apostrophe>> \o t
<1>0. DOMAIN t = 1 .. Len(t) /\ Len(t) \in Nat /\ (t = <<>> <=> Len(t) = 0) /\ \A i \in DOMAIN t : t[i] \in Nat
  OBVIOUS
<1>1. /\ guarded \in Seq(Nat) /\ Len(guarded) = Len(t) + 1 /\ guarded[1] = Apostrophe
      /\ \A i \in 1 .. Len(t) : guarded[i + 1] = t[i]
      /\ Tail(guarded) = t
  BY SMTT(60) DEF Apostrophe
<1>2. Apostrophe \notin White /\ Apostrophe \notin FormulaPrefixes
  BY DEF Apostrophe, White, FormulaPrefixes, Space, Tab, Return, Newline, Formula
<1>3. CASE t # <<>> /\ Head(t) \in FormulaPrefixes
  <2>1. safe = guarded
    BY <1>3 DEF csvSafe
  <2>2. t[1] \in FormulaPrefixes /\ guarded[2] = t[1] /\ Len(t) >= 1
    BY <1>0, <1>1, <1>3
  <2>3. t[Len(t)] \notin White /\ Breaks(t) = {} => Trimmed(guarded) = guarded
    <3> SUFFICES ASSUME t[Len(t)] \notin White, Breaks(t) = {} PROVE Trimmed(guarded) = guarded
      OBVIOUS
    <3>1. guarded # <<>> /\ guarded[1] \notin White /\ guarded[Len(guarded)] \notin White
      BY <1>0, <1>1, <1>2, <2>2
    <3>2. ASSUME NEW i \in Breaks(guarded) PROVE FALSE
      <4>1. /\ i \in 1 .. Len(t) + 1 /\ guarded[i] = Return /\ i < Len(t) + 1 /\ guarded[i + 1] = Newline
        BY <1>1, <3>2 DEF Breaks
      <4>2. i # 1
        BY <1>1, <4>1 DEF Apostrophe, Return
      <4>3. i - 1 \in 1 .. Len(t) /\ i \in 1 .. Len(t) /\ (i - 1) + 1 = i /\ i - 1 < Len(t)
        BY <1>0, <4>1, <4>2
      <4>4. t[i - 1] = Return /\ t[(i - 1) + 1] = Newline
        BY <1>1, <4>1, <4>3
      <4>5. i - 1 \in Breaks(t)
        BY <1>0, <4>3, <4>4 DEF Breaks
      <4> QED
        BY <4>5
    <3> HIDE DEF guarded
    <3>3. Breaks(guarded) = {}
      BY <3>2
    <3> QED
      BY <1>1, <3>1, <3>3, TrimmedIs
  <2>4. csvUnsafe(guarded) = t
    <3>1. Len(guarded) > 1
      BY <1>0, <1>1, <2>2
    <3> HIDE DEF guarded
    <3> QED
      BY <1>1, <2>2, <3>1 DEF csvUnsafe
  <2>5. Trimmed(guarded) \in Seq(Nat) /\ Trimmed(guarded) # <<>>
    <3>1. 1 \in DOMAIN guarded /\ guarded[1] \notin White
      BY <1>1, <1>2
    <3> HIDE DEF guarded
    <3> QED
      BY <1>1, <3>1, TrimmedIs
  <2>6. csvUnsafe(Trimmed(guarded)) \in Seq(Nat) /\ csvUnsafe(Trimmed(guarded)) # <<>>
    BY <2>5, UnsafeIs
  <2>7. Survives(t) => t[Len(t)] \notin White /\ Breaks(t) = {}
    BY <1>3 DEF Survives
  <2> QED
    BY <2>1, <2>3, <2>4, <2>6, <2>7 DEF Back
<1>4. CASE ~(t # <<>> /\ Head(t) \in FormulaPrefixes)
  <2>1. safe = t
    BY <1>4 DEF csvSafe
  <2>2. Survives(t) => Trimmed(t) = t
    <3>1. CASE t = <<>>
      <4>1. {i \in DOMAIN t : t[i] \notin White} = {} /\ Breaks(t) = {}
        BY <1>0, <3>1 DEF Breaks
      <4> QED
        BY <3>1, <4>1 DEF TrimSpace, Trimmed, AsRead
    <3>2. CASE t # <<>> /\ Survives(t)
      <4>1. Head(t) = t[1] /\ t[1] \in Nat
        BY <1>0, <3>2
      <4>2. t[1] \notin White /\ t[Len(t)] \notin White /\ Breaks(t) = {}
        BY <1>4, <3>2, <4>1 DEF Survives, White, FormulaPrefixes
      <4> QED
        BY <3>2, <4>2, TrimmedIs
    <3> QED
      BY <3>1, <3>2
  <2>3. Survives(t) => csvUnsafe(t) = t
    <3>1. Len(t) > 1 => t # <<>> /\ Head(t) = t[1]
      BY <1>0
    <3> QED
      BY <3>1 DEF Survives, csvUnsafe
  <2>4. Trimmed(t) \in Seq(Nat) /\ csvUnsafe(Trimmed(t)) \in Seq(Nat)
    BY TrimmedIs, UnsafeIs
  <2>5. Trimmed(t) # <<>> => csvUnsafe(Trimmed(t)) # <<>>
    BY <2>4, UnsafeIs
  <2> QED
    BY <2>1, <2>2, <2>3, <2>4, <2>5, TrimmedIs DEF Back
<1> QED
  BY <1>3, <1>4

-----------------------------------------------------------------------------
(* A row of the export, read again *)

\* What is in one of the columns only is what a field gets.
LEMMA FilledOne ==
  ASSUME NEW n \in Nat, NEW cells, DOMAIN cells = 1 .. n, NEW k \in 1 .. n,
         \A j \in 1 .. n : j # k => cells[j] = <<>>
  PROVE  FirstFilled(cells) = cells[k]
<1> DEFINE filled == {j \in DOMAIN cells : cells[j] # <<>>}
<1>1. CASE cells[k] = <<>>
  <2>1. filled = {}
    BY <1>1
  <2> QED
    BY <1>1, <2>1 DEF FirstFilled
<1>2. CASE cells[k] # <<>>
  <2>1. filled = {k}
    BY <1>2
  <2>2. Min(filled) = k
    <3>1. filled \subseteq Nat /\ filled # {}
      BY <2>1
    <3> QED
      BY <2>1, <3>1, MinIs
  <2> QED
    BY <2>1, <2>2 DEF FirstFilled
<1> QED
  BY <1>1, <1>2

LEMMA FilledSome ==
  ASSUME NEW n \in Nat, NEW cells, DOMAIN cells = 1 .. n, FirstFilled(cells) # <<>>
  PROVE  \E k \in 1 .. n : FirstFilled(cells) = cells[k]
<1> DEFINE filled == {j \in DOMAIN cells : cells[j] # <<>>}
<1>1. filled # {} /\ FirstFilled(cells) = cells[Min(filled)]
  BY DEF FirstFilled
<1>2. Min(filled) \in filled
  <2>1. filled \subseteq Nat
    OBVIOUS
  <2> QED
    BY <1>1, <2>1, MinIs
<1> QED
  BY <1>1, <1>2

LEMMA ColumnIs ==
  ASSUME NEW file, file.header = exportColumns
  PROVE  /\ \A i \in 1 .. 7 : Column(file, exportColumns[i]) = i
         /\ \A name : (\A i \in 1 .. 7 : exportColumns[i] # name) => Column(file, name) = 0
<1>1. DOMAIN file.header = 1 .. 7
  BY DEF exportColumns
<1>2. ASSUME NEW i \in 1 .. 7, NEW j \in 1 .. 7, exportColumns[i] = exportColumns[j]
      PROVE  i = j
  BY <1>2 DEF exportColumns
<1>3. ASSUME NEW i \in 1 .. 7 PROVE Column(file, exportColumns[i]) = i
  <2> DEFINE at == {j \in DOMAIN file.header : file.header[j] = exportColumns[i]}
  <2>1. at = {i}
    BY <1>1, <1>2
  <2>2. Min(at) = i
    <3>1. at \subseteq Nat /\ at # {}
      BY <2>1
    <3> QED
      BY <2>1, <3>1, MinIs
  <2> QED
    BY <2>1, <2>2 DEF Column
<1>4. ASSUME NEW name, \A i \in 1 .. 7 : exportColumns[i] # name
      PROVE  Column(file, name) = 0
  <2>1. {j \in DOMAIN file.header : file.header[j] = name} = {}
    BY <1>1, <1>4
  <2> QED
    BY <2>1 DEF Column
<1> QED
  BY <1>3, <1>4

\* Where the columns of the export are, and which aliases it does not use.
LEMMA ExportedColumns ==
  ASSUME NEW file, file.header = exportColumns
  PROVE  /\ Column(file, "isbn") = 1 /\ Column(file, "isbn13") = 0
         /\ Column(file, "title") = 2 /\ Column(file, "tittel") = 0
         /\ Column(file, "author") = 3 /\ Column(file, "forfatter") = 0
         /\ Column(file, "publisher") = 4 /\ Column(file, "forlag") = 0
         /\ Column(file, "year") = 5 /\ Column(file, "year published") = 0
         /\ Column(file, "original publication year") = 0
         /\ Column(file, "status") = 6 /\ Column(file, "exclusive shelf") = 0
         /\ Column(file, "notes") = 7 /\ Column(file, "private notes") = 0
<1>1. /\ exportColumns[1] = "isbn" /\ exportColumns[2] = "title" /\ exportColumns[3] = "author"
      /\ exportColumns[4] = "publisher" /\ exportColumns[5] = "year"
      /\ exportColumns[6] = "status" /\ exportColumns[7] = "notes"
  BY DEF exportColumns
<1>2. /\ Column(file, exportColumns[1]) = 1 /\ Column(file, exportColumns[2]) = 2
      /\ Column(file, exportColumns[3]) = 3 /\ Column(file, exportColumns[4]) = 4
      /\ Column(file, exportColumns[5]) = 5 /\ Column(file, exportColumns[6]) = 6
      /\ Column(file, exportColumns[7]) = 7
  <2>1. \A i \in 1 .. 7 : Column(file, exportColumns[i]) = i
    BY ColumnIs
  <2> QED
    BY <2>1
<1>3. \A name : (\A i \in 1 .. 7 : exportColumns[i] # name) => Column(file, name) = 0
  BY ColumnIs
<1>4. \A i \in 1 .. 7 :
         exportColumns[i] \in {"isbn", "title", "author", "publisher", "year", "status", "notes"}
  BY DEF exportColumns
<1>5. \A name \in {"isbn13", "tittel", "forfatter", "forlag", "year published",
                    "original publication year", "exclusive shelf", "private notes"} :
         Column(file, name) = 0
  BY <1>3, <1>4
<1> QED
  BY <1>1, <1>2, <1>5

LEMMA SumType ==
  ASSUME NEW body, \A i \in 1 .. 12 : body[i] \in Nat
  PROVE  WeightedSum(body) \in Nat
<1>1. /\ body[1] \in Nat /\ body[2] \in Nat /\ body[3] \in Nat /\ body[4] \in Nat
      /\ body[5] \in Nat /\ body[6] \in Nat /\ body[7] \in Nat /\ body[8] \in Nat
      /\ body[9] \in Nat /\ body[10] \in Nat /\ body[11] \in Nat /\ body[12] \in Nat
  OBVIOUS
<1> DEFINE odd  == body[1] + body[3] + body[5] + body[7] + body[9] + body[11]
           even == body[2] + body[4] + body[6] + body[8] + body[10] + body[12]
<1>2. odd \in Nat
  BY <1>1
<1>3. even \in Nat
  BY <1>1
<1> HIDE DEF odd, even
<1>4. odd + 3 * even \in Nat
  BY <1>2, <1>3
<1> QED
  BY <1>4 DEF WeightedSum, odd, even

LEMMA TwelveDigits ==
  ASSUME NEW Y, NEW body \in Seq(Y), 0 \in Y, isValidEAN13(Append(body, 0))
  PROVE  Len(body) = 12 /\ \A i \in 1 .. 12 : body[i] \in 0 .. 9
<1> DEFINE zero == Append(body, 0)
           l    == Len(body)
<1>1. /\ Len(zero) = l + 1 /\ l \in Nat /\ DOMAIN zero = 1 .. Len(zero)
      /\ \A i \in 1 .. Len(body) : zero[i] = body[i]
  OBVIOUS
<1>2. Len(zero) = 13 /\ \A i \in DOMAIN zero : zero[i] \in 0 .. 9
  BY DEF isValidEAN13, Digits
<1> HIDE DEF zero
<1>3. l = 12
  <2>1. l + 1 = 13 /\ l \in Nat
    BY <1>1, <1>2
  <2> HIDE DEF l
  <2> QED
    BY <2>1
<1>4. \A i \in 1 .. 12 : zero[i] = body[i] /\ i \in 1 .. 13
  BY <1>1, <1>3
<1>5. \A i \in 1 .. 12 : body[i] \in 0 .. 9
  <2> TAKE i \in 1 .. 12
  <2>1. zero[i] \in 0 .. 9
    BY <1>1, <1>2, <1>4
  <2> QED
    BY <1>4, <2>1
<1> QED
  BY <1>3, <1>5

\* A check digit of any value makes thirteen digits of twelve.
LEMMA CheckDigit ==
  ASSUME NEW Y, Nat \subseteq Y, NEW body \in Seq(Y), isValidEAN13(Append(body, 0))
  PROVE  isValidEAN13(Append(body, (10 - (WeightedSum(body) % 10)) % 10))
<1> DEFINE n     == WeightedSum(body)
           digit == (10 - (n % 10)) % 10
           whole == Append(body, digit)
<1>1. \A d \in Y : /\ Append(body, d) \in Seq(Y)
                    /\ Len(Append(body, d)) = Len(body) + 1 /\ Len(body) \in Nat
                    /\ \A i \in 1 .. Len(body) : Append(body, d)[i] = body[i]
                    /\ Append(body, d)[Len(body) + 1] = d
  OBVIOUS
<1> HIDE DEF whole
<1>2. Len(body) = 12 /\ \A i \in 1 .. 12 : body[i] \in 0 .. 9
  BY TwelveDigits
<1>3. n \in Nat
  <2>1. \A d \in 0 .. 9 : d \in Nat
    OBVIOUS
  <2>2. \A i \in 1 .. 12 : body[i] \in Nat
    BY <1>2, <2>1
  <2> QED
    BY <2>2, SumType
<1> HIDE DEF n
<1>4. digit \in 0 .. 9
  <2>1. n % 10 \in 0 .. 9
    BY <1>3
  <2>2. \A d \in 0 .. 9 : (10 - d) % 10 \in 0 .. 9
    OBVIOUS
  <2> QED
    BY <2>1, <2>2
<1> HIDE DEF digit
<1>5. /\ whole \in Seq(Y) /\ Len(whole) = 13
      /\ \A i \in 1 .. 12 : whole[i] = body[i]
      /\ whole[13] = digit
  <2>1. digit \in Y
    BY <1>4
  <2> QED
    BY <1>1, <1>2, <2>1 DEF whole
<1>6. ASSUME NEW i \in 1 .. 13 PROVE whole[i] \in 0 .. 9
  <2>1. i = 13 \/ i \in 1 .. 12
    OBVIOUS
  <2> QED
    BY <1>2, <1>4, <1>5, <2>1
<1>7. DOMAIN whole = 1 .. 13
  BY <1>5
<1>8. isValidEAN13(whole)
  BY <1>5, <1>6, <1>7 DEF isValidEAN13, Digits
<1> QED
  BY <1>8 DEF whole, digit, n

LEMMA CleanIs ==
  ASSUME NEW X, NEW s \in Seq(X)
  PROVE  Clean(s) \in Seq(X)
<1> DEFINE places == {i \in DOMAIN s : s[i] \in Digits \cup {CheckX}}
<1>1. places \in SUBSET DOMAIN s
  OBVIOUS
<1>2. Kept(s, places) \in Seq(X)
  BY <1>1, KeptIs
<1> QED
  BY <1>2 DEF Clean

\* What normalizeISBN returns has thirteen digits, and an ISBN-13 stays as it is.
LEMMA NormalizedIs ==
  ASSUME NEW X, NEW s \in Seq(X)
  PROVE  /\ normalizeISBN(s) # <<>> => isValidEAN13(normalizeISBN(s))
         /\ isValidEAN13(s) => normalizeISBN(s) = s
<1> DEFINE clean == Clean(s)
           body  == <<9, 7, 8>> \o SubSeq(clean, 1, 9)
           digit == (10 - (WeightedSum(body) % 10)) % 10
           places == {i \in DOMAIN s : s[i] \in Digits \cup {CheckX}}
<1>1. normalizeISBN(s) = IF isValidEAN13(clean) THEN clean
                         ELSE IF Len(clean) = 10 /\ isValidEAN13(Append(body, 0))
                              THEN Append(body, digit) ELSE <<>>
  BY DEF normalizeISBN
<1>2. isValidEAN13(s) => clean = s
  <2>1. isValidEAN13(s) => places = DOMAIN s
    BY DEF isValidEAN13
  <2> QED
    BY <2>1 DEF Clean
<1>3. clean \in Seq(X)
  BY CleanIs
<1>4. ASSUME Len(clean) = 10, isValidEAN13(Append(body, 0))
      PROVE  isValidEAN13(Append(body, digit))
  <2> HIDE DEF clean
  <2>1. body \in Seq(X \cup Nat)
    <3> DEFINE Y == X \cup Nat
    <3>1. clean \in Seq(Y)
      BY <1>3
    <3>2. 9 \in Y /\ 7 \in Y /\ 8 \in Y
      OBVIOUS
    <3> HIDE DEF Y
    <3>3. SubSeq(clean, 1, 9) \in Seq(Y)
      <4>1. Len(clean) = 10
        BY <1>4
      <4>2. \A m, n \in 1 .. Len(clean) : SubSeq(clean, m, n) \in Seq(Y)
        BY <3>1
      <4>3. 1 \in 1 .. Len(clean) /\ 9 \in 1 .. Len(clean)
        BY <4>1
      <4> QED
        BY <4>2, <4>3
    <3>4. <<9, 7, 8>> \in Seq(Y)
      BY <3>2
    <3> QED
      BY <3>3, <3>4 DEF Y
  <2> HIDE DEF body
  <2>2. Nat \subseteq X \cup Nat
    OBVIOUS
  <2> QED
    BY <1>4, <2>1, <2>2, CheckDigit
<1>5. normalizeISBN(s) # <<>> => isValidEAN13(normalizeISBN(s))
  <2> HIDE DEF clean, body, digit
  <2> QED
    BY <1>1, <1>4
<1> QED
  BY <1>1, <1>2, <1>5

\* Records are read from rows the import can use.
LEMMA RecordsAreUsed ==
  ASSUME NEW r \in Records
  PROVE  \E f \in Files : \E n \in DOMAIN f.rows :
            Usable(f, f.rows[n]) /\ r = Record(f, f.rows[n])
<1>1. PICK f \in Files : r \in ToSet(Parsed[f].records)
  BY DEF Records
<1> DEFINE I == {n \in DOMAIN f.rows : Usable(f, f.rows[n])}
           usable == Kept(f.rows, I)
<1>2. Parsed[f] = parseImportCSV(f)
  BY DEF Parsed
<1>3. ~Rejected(f)
  <2>1. CASE Rejected(f)
    <3>1. Parsed[f].records = <<>>
      BY <1>2, <2>1 DEF parseImportCSV
    <3> QED
      BY <1>1, <3>1 DEF ToSet
  <2> QED
    BY <2>1
<1>4. Parsed[f].records = [k \in DOMAIN usable |-> Record(f, usable[k])]
  BY <1>2, <1>3 DEF parseImportCSV
<1>5. PICK k \in DOMAIN usable : r = Record(f, usable[k])
  <2> HIDE DEF usable
  <2> QED
    BY <1>1, <1>4 DEF ToSet
<1>6. f.rows \in Seq(ToSet(f.rows)) /\ I \in SUBSET DOMAIN f.rows
  BY BookAssumption, SequenceIs
<1>7. PICK at : Sources(at, f.rows, I)
  BY <1>6, KeptIs
<1>8. usable[k] = f.rows[at[k]] /\ at[k] \in I
  <2>1. usable \in Seq(ToSet(f.rows)) /\ Len(at) = Len(usable)
    BY <1>6, <1>7, KeptIs DEF Sources
  <2>2. \A n \in 1 .. Len(at) : at[n] \in I /\ usable[n] = f.rows[at[n]]
    BY <1>7 DEF Sources
  <2> HIDE DEF I, usable
  <2>3. k \in 1 .. Len(at)
    BY <1>5, <2>1
  <2> QED
    BY <2>2, <2>3
<1> QED
  BY <1>5, <1>8

-----------------------------------------------------------------------------
(* Books in the library are valid, whichever way they came *)

LEMMA CellsAreTexts ==
  ASSUME NEW f \in Files, NEW n \in DOMAIN f.rows, NEW logical
  PROVE  \A k \in DOMAIN importAliases[logical] :
            IsSequence(Cells(f, f.rows[n], logical)[k])
<1> DEFINE row == f.rows[n]
           cells == Cells(f, row, logical)
<1>1. \A i \in DOMAIN row : IsSequence(row[i])
  BY BookAssumption
<1>2. IsSequence(<<>>)
  <2>1. Len(<<>>) = 0 /\ <<>> = [i \in 1 .. 0 |-> <<>>[i]]
    OBVIOUS
  <2> QED
    BY <2>1 DEF IsSequence
<1> HIDE DEF row
<1>3. ASSUME NEW k \in DOMAIN importAliases[logical] PROVE IsSequence(cells[k])
  <2>1. \E i : cells[k] = IF i \in DOMAIN row THEN row[i] ELSE <<>>
    BY DEF Cells
  <2> QED
    BY <1>1, <1>2, <2>1
<1> QED
  BY <1>3 DEF row

LEMMA AliasCounts ==
  /\ DOMAIN importAliases["isbn"] = 1 .. 2 /\ DOMAIN importAliases["title"] = 1 .. 2
  /\ DOMAIN importAliases["author"] = 1 .. 2 /\ DOMAIN importAliases["publisher"] = 1 .. 2
  /\ DOMAIN importAliases["year"] = 1 .. 3 /\ DOMAIN importAliases["status"] = 1 .. 2
  /\ DOMAIN importAliases["notes"] = 1 .. 2
  BY DEF importAliases

\* A field is empty, or what is left of a cell.
LEMMA FieldIs ==
  ASSUME NEW f \in Files, NEW n \in DOMAIN f.rows,
         NEW logical \in {"title", "author", "publisher", "notes"},
         field(f, f.rows[n], logical) # <<>>
  PROVE  \E cell : IsSequence(cell) /\ field(f, f.rows[n], logical) = Trimmed(cell)
<1> DEFINE cells   == Cells(f, f.rows[n], logical)
           trimmed == [k \in DOMAIN cells |-> Trimmed(cells[k])]
<1>1. DOMAIN cells = 1 .. 2 /\ DOMAIN cells = DOMAIN importAliases[logical]
  BY AliasCounts DEF Cells
<1>2. field(f, f.rows[n], logical) = FirstFilled(trimmed)
  BY DEF field
<1>3. DOMAIN trimmed = 1 .. 2
  BY <1>1
<1> HIDE DEF trimmed
<1>4. PICK k \in 1 .. 2 : FirstFilled(trimmed) = trimmed[k]
  BY <1>2, <1>3, FilledSome
<1>5. trimmed[k] = Trimmed(cells[k])
  BY <1>1 DEF trimmed
<1>6. IsSequence(cells[k])
  BY <1>1, CellsAreTexts
<1> QED
  BY <1>2, <1>4, <1>5, <1>6

LEMMA ImportedISBN ==
  ASSUME NEW f \in Files, NEW n \in DOMAIN f.rows, ISBN(f, f.rows[n]) # <<>>
  PROVE  isValidEAN13(ISBN(f, f.rows[n]))
<1> DEFINE cells == Cells(f, f.rows[n], "isbn")
           isbns == [k \in DOMAIN cells |-> normalizeISBN(cells[k])]
<1>1. DOMAIN cells = 1 .. 2 /\ DOMAIN cells = DOMAIN importAliases["isbn"]
  BY AliasCounts DEF Cells
<1>2. ISBN(f, f.rows[n]) = FirstFilled(isbns)
  BY DEF ISBN
<1>3. DOMAIN isbns = 1 .. 2
  BY <1>1
<1> HIDE DEF isbns
<1>4. PICK k \in 1 .. 2 : FirstFilled(isbns) = isbns[k]
  BY <1>2, <1>3, FilledSome
<1>5. isbns[k] = normalizeISBN(cells[k])
  BY <1>1 DEF isbns
<1>6. cells[k] \in Seq(ToSet(cells[k]))
  BY <1>1, CellsAreTexts, SequenceIs
<1> QED
  BY <1>2, <1>4, <1>5, <1>6, NormalizedIs

LEMMA TruncatedIs ==
  ASSUME NEW X, NEW t \in Seq(X), NEW n \in Nat
  PROVE  Len(truncateRunes(t, n)) <= n
<1>1. Len(t) \in Nat
  OBVIOUS
<1>2. CASE Len(t) <= n
  BY <1>2 DEF truncateRunes
<1>3. CASE ~(Len(t) <= n)
  <2>1. Len(SubSeq(t, 1, n)) = n
    BY <1>1, <1>3
  <2> QED
    BY <1>3, <2>1 DEF truncateRunes
<1> QED
  BY <1>2, <1>3

LEMMA RecordsAreValid ==
  ASSUME NEW r \in Records
  PROVE  Valid(r)
<1>0. PICK f \in Files : \E n \in DOMAIN f.rows :
         Usable(f, f.rows[n]) /\ r = Record(f, f.rows[n])
  BY RecordsAreUsed
<1>1. PICK n \in DOMAIN f.rows : Usable(f, f.rows[n]) /\ r = Record(f, f.rows[n])
  BY <1>0
<1> DEFINE row   == f.rows[n]
           title == field(f, row, "title")
           notes == field(f, row, "notes")
<1>2. /\ r.isbn = ISBN(f, row) /\ r.title = csvUnsafe(title)
      /\ r.status = importStatus(entered(f, row, "status"))
      /\ r.notes = truncateRunes(csvUnsafe(notes), MaxNotes)
  BY <1>1 DEF Record
<1>3. ISBN(f, row) # <<>> /\ csvUnsafe(title) # <<>>
  BY <1>1 DEF Usable
<1>4. isValidEAN13(r.isbn)
  BY <1>2, <1>3, ImportedISBN
<1>5. \E i \in DOMAIN r.title : r.title[i] \notin White
  <2>1. title # <<>>
    <3>1. csvUnsafe(<<>>) = <<>>
      BY DEF csvUnsafe
    <3> QED
      BY <1>3, <3>1
  <2>2. PICK cell : IsSequence(cell) /\ title = Trimmed(cell)
    BY <2>1, FieldIs
  <2> DEFINE X == ToSet(cell)
  <2>3. title \in Seq(X) /\ title[Len(title)] \notin White
    BY <2>1, <2>2, SequenceIs, TrimmedIs
  <2> HIDE DEF title, X
  <2>4. r.title \in Seq(X) /\ r.title # <<>> /\ r.title[Len(r.title)] \notin White
    BY <1>2, <2>1, <2>3, UnsafeIs
  <2>5. Len(r.title) \in DOMAIN r.title
    BY <2>4
  <2> QED
    BY <2>4, <2>5
<1>6. r.status \in {"unread", "reading", "read"}
  BY <1>2 DEF importStatus
<1>7. Len(r.notes) <= MaxNotes
  <2>1. MaxNotes \in Nat
    BY CsvAssumption
  <2>2. CASE notes = <<>>
    <3>0. <<>> \in Seq({})
      OBVIOUS
    <3>1. notes \in Seq({})
      BY <2>2, <3>0
    <3>2. csvUnsafe(notes) \in Seq({})
      BY <3>1, UnsafeIs
    <3> QED
      BY <1>2, <2>1, <3>2, TruncatedIs
  <2>3. CASE notes # <<>>
    <3>1. PICK cell : IsSequence(cell) /\ notes = Trimmed(cell)
      BY <2>3, FieldIs
    <3>2. notes \in Seq(ToSet(cell))
      BY <3>1, SequenceIs, TrimmedIs
    <3>3. csvUnsafe(notes) \in Seq(ToSet(cell))
      BY <3>2, UnsafeIs
    <3> QED
      BY <1>2, <2>1, <3>3, TruncatedIs
  <2> QED
    BY <2>2, <2>3
<1> QED
  BY <1>4, <1>5, <1>6, <1>7 DEF Valid

LEMMA BooksAreValid ==
  ASSUME NEW b \in AllBooks
  PROVE  Valid(b)
<1>1. CASE b \in ToSet(Initial) \cup FormBooks
  BY <1>1, FormAssumption
<1>2. CASE b \notin ToSet(Initial) \cup FormBooks
  <2>1. PICK r \in Records : b = WithAuthor(r)
    BY <1>2 DEF AllBooks, Records
  <2>2. b = r \/ b = [r EXCEPT !.author = UnknownAuthor]
    BY <2>1 DEF WithAuthor
  <2>3. \E f, row : r = Record(f, row)
    BY RecordsAreUsed
  <2>4. b.isbn = r.isbn /\ b.title = r.title /\ b.status = r.status /\ b.notes = r.notes
    BY <2>2, <2>3 DEF Record
  <2>5. Valid(r)
    BY RecordsAreValid
  <2> QED
    BY <2>4, <2>5 DEF Valid
<1> QED
  BY <1>1, <1>2

-----------------------------------------------------------------------------
(* The import of an export *)

LEMMA EmptyCells == Trimmed(<<>>) = <<>> /\ normalizeISBN(<<>>) = <<>>
<1>1. {i \in DOMAIN <<>> : <<>>[i] \notin White} = {} /\ Breaks(<<>>) = {}
  BY DEF Breaks
<1>2. Trimmed(<<>>) = <<>>
  BY <1>1 DEF TrimSpace, Trimmed, AsRead
<1>3. Clean(<<>>) = <<>>
  <2>1. {i \in DOMAIN <<>> : <<>>[i] \in Digits \cup {CheckX}} = DOMAIN <<>>
    OBVIOUS
  <2> QED
    BY <2>1 DEF Clean
<1>4. ~isValidEAN13(<<>>)
  <2>1. Len(<<>>) = 0
    OBVIOUS
  <2> QED
    BY <2>1 DEF isValidEAN13
<1>5. Len(Clean(<<>>)) # 10
  BY <1>3
<1>6. normalizeISBN(<<>>) = <<>>
  BY <1>3, <1>4, <1>5 DEF normalizeISBN
<1> QED
  BY <1>2, <1>6

LEMMA ExportedCells ==
  ASSUME NEW file, file.header = exportColumns, NEW row, DOMAIN row = 1 .. 7
  PROVE  /\ DOMAIN Cells(file, row, "isbn") = 1 .. 2
         /\ Cells(file, row, "isbn")[1] = <<>> /\ Cells(file, row, "isbn")[2] = row[1]
         /\ DOMAIN Cells(file, row, "title") = 1 .. 2
         /\ Cells(file, row, "title")[1] = row[2] /\ Cells(file, row, "title")[2] = <<>>
         /\ DOMAIN Cells(file, row, "author") = 1 .. 2
         /\ Cells(file, row, "author")[1] = row[3] /\ Cells(file, row, "author")[2] = <<>>
         /\ DOMAIN Cells(file, row, "publisher") = 1 .. 2
         /\ Cells(file, row, "publisher")[1] = row[4] /\ Cells(file, row, "publisher")[2] = <<>>
         /\ DOMAIN Cells(file, row, "status") = 1 .. 2
         /\ Cells(file, row, "status")[1] = row[6] /\ Cells(file, row, "status")[2] = <<>>
         /\ DOMAIN Cells(file, row, "notes") = 1 .. 2
         /\ Cells(file, row, "notes")[1] = row[7] /\ Cells(file, row, "notes")[2] = <<>>
         /\ DOMAIN Cells(file, row, "year") = 1 .. 3
         /\ Cells(file, row, "year")[1] = row[5] /\ Cells(file, row, "year")[2] = <<>>
         /\ Cells(file, row, "year")[3] = <<>>
<1> DEFINE value(name) == IF Column(file, name) \in DOMAIN row THEN row[Column(file, name)] ELSE <<>>
<1>1. ASSUME NEW logical, NEW k \in DOMAIN importAliases[logical]
      PROVE  Cells(file, row, logical)[k] = value(importAliases[logical][k])
  BY DEF Cells
<1>2. \A logical : DOMAIN Cells(file, row, logical) = DOMAIN importAliases[logical]
  BY DEF Cells
<1>3. \A name : Column(file, name) \in 1 .. 7 => value(name) = row[Column(file, name)]
  OBVIOUS
<1>4. \A name : Column(file, name) = 0 => value(name) = <<>>
  OBVIOUS
<1>5. 0 \notin 1 .. 7 /\ \A i \in {1, 2, 3, 4, 5, 6, 7} : i \in 1 .. 7
  OBVIOUS
<1> HIDE DEF value
<1>6. /\ value("isbn13") = <<>> /\ value("tittel") = <<>> /\ value("forfatter") = <<>>
      /\ value("forlag") = <<>> /\ value("year published") = <<>>
      /\ value("original publication year") = <<>>
      /\ value("exclusive shelf") = <<>> /\ value("private notes") = <<>>
  BY <1>4, ExportedColumns
<1>7. /\ value("isbn") = row[1] /\ value("title") = row[2] /\ value("author") = row[3]
      /\ value("publisher") = row[4] /\ value("year") = row[5] /\ value("status") = row[6]
      /\ value("notes") = row[7]
  BY <1>3, <1>5, ExportedColumns
<1>8. Cells(file, row, "isbn")[1] = <<>> /\ Cells(file, row, "isbn")[2] = row[1]
  <2>1. importAliases["isbn"][1] = "isbn13" /\ importAliases["isbn"][2] = "isbn"
    BY DEF importAliases
  <2>2. DOMAIN importAliases["isbn"] = 1 .. 2
    BY AliasCounts
  <2>3. Cells(file, row, "isbn")[1] = value(importAliases["isbn"][1]) /\ Cells(file, row, "isbn")[2] = value(importAliases["isbn"][2])
    BY <1>1, <2>2
  <2> QED
    BY <1>6, <1>7, <2>1, <2>3
<1>9. Cells(file, row, "title")[1] = row[2] /\ Cells(file, row, "title")[2] = <<>>
  <2>1. importAliases["title"][1] = "title" /\ importAliases["title"][2] = "tittel"
    BY DEF importAliases
  <2>2. DOMAIN importAliases["title"] = 1 .. 2
    BY AliasCounts
  <2>3. Cells(file, row, "title")[1] = value(importAliases["title"][1]) /\ Cells(file, row, "title")[2] = value(importAliases["title"][2])
    BY <1>1, <2>2
  <2> QED
    BY <1>6, <1>7, <2>1, <2>3
<1>10. Cells(file, row, "author")[1] = row[3] /\ Cells(file, row, "author")[2] = <<>>
  <2>1. importAliases["author"][1] = "author" /\ importAliases["author"][2] = "forfatter"
    BY DEF importAliases
  <2>2. DOMAIN importAliases["author"] = 1 .. 2
    BY AliasCounts
  <2>3. Cells(file, row, "author")[1] = value(importAliases["author"][1]) /\ Cells(file, row, "author")[2] = value(importAliases["author"][2])
    BY <1>1, <2>2
  <2> QED
    BY <1>6, <1>7, <2>1, <2>3
<1>11. Cells(file, row, "publisher")[1] = row[4] /\ Cells(file, row, "publisher")[2] = <<>>
  <2>1. importAliases["publisher"][1] = "publisher" /\ importAliases["publisher"][2] = "forlag"
    BY DEF importAliases
  <2>2. DOMAIN importAliases["publisher"] = 1 .. 2
    BY AliasCounts
  <2>3. Cells(file, row, "publisher")[1] = value(importAliases["publisher"][1]) /\ Cells(file, row, "publisher")[2] = value(importAliases["publisher"][2])
    BY <1>1, <2>2
  <2> QED
    BY <1>6, <1>7, <2>1, <2>3
<1>12. Cells(file, row, "year")[1] = row[5] /\ Cells(file, row, "year")[2] = <<>> /\ Cells(file, row, "year")[3] = <<>>
  <2>1. importAliases["year"][1] = "year" /\ importAliases["year"][2] = "year published" /\ importAliases["year"][3] = "original publication year"
    BY DEF importAliases
  <2>2. DOMAIN importAliases["year"] = 1 .. 3
    BY AliasCounts
  <2>3. Cells(file, row, "year")[1] = value(importAliases["year"][1]) /\ Cells(file, row, "year")[2] = value(importAliases["year"][2]) /\ Cells(file, row, "year")[3] = value(importAliases["year"][3])
    BY <1>1, <2>2
  <2> QED
    BY <1>6, <1>7, <2>1, <2>3
<1>13. Cells(file, row, "status")[1] = row[6] /\ Cells(file, row, "status")[2] = <<>>
  <2>1. importAliases["status"][1] = "status" /\ importAliases["status"][2] = "exclusive shelf"
    BY DEF importAliases
  <2>2. DOMAIN importAliases["status"] = 1 .. 2
    BY AliasCounts
  <2>3. Cells(file, row, "status")[1] = value(importAliases["status"][1]) /\ Cells(file, row, "status")[2] = value(importAliases["status"][2])
    BY <1>1, <2>2
  <2> QED
    BY <1>6, <1>7, <2>1, <2>3
<1>14. Cells(file, row, "notes")[1] = row[7] /\ Cells(file, row, "notes")[2] = <<>>
  <2>1. importAliases["notes"][1] = "notes" /\ importAliases["notes"][2] = "private notes"
    BY DEF importAliases
  <2>2. DOMAIN importAliases["notes"] = 1 .. 2
    BY AliasCounts
  <2>3. Cells(file, row, "notes")[1] = value(importAliases["notes"][1]) /\ Cells(file, row, "notes")[2] = value(importAliases["notes"][2])
    BY <1>1, <2>2
  <2> QED
    BY <1>6, <1>7, <2>1, <2>3
<1> QED
  BY <1>2, <1>8, <1>9, <1>10, <1>11, <1>12, <1>13, <1>14, AliasCounts

LEMMA FieldOfFirst ==
  ASSUME NEW file, NEW row, NEW logical, DOMAIN Cells(file, row, logical) = 1 .. 2,
         Cells(file, row, logical)[2] = <<>>
  PROVE  /\ field(file, row, logical) = Trimmed(Cells(file, row, logical)[1])
         /\ entered(file, row, logical) = Cells(file, row, logical)[1]
<1> DEFINE cells   == Cells(file, row, logical)
           trimmed == [k \in DOMAIN cells |-> Trimmed(cells[k])]
<1>1. /\ field(file, row, logical) = FirstFilled(trimmed)
      /\ entered(file, row, logical) = FirstFilled(cells)
  BY DEF field, entered
<1>2. DOMAIN cells = 1 .. 2 /\ cells[2] = <<>>
  OBVIOUS
<1> HIDE DEF cells
<1>3. DOMAIN trimmed = 1 .. 2 /\ trimmed[1] = Trimmed(cells[1]) /\ trimmed[2] = <<>>
  BY <1>2, EmptyCells
<1> HIDE DEF trimmed
<1>4. 1 \in 1 .. 2 /\ 2 \in Nat /\ \A j \in 1 .. 2 : j # 1 => j = 2
  OBVIOUS
<1>5. FirstFilled(trimmed) = trimmed[1]
  <2>1. \A j \in 1 .. 2 : j # 1 => trimmed[j] = <<>>
    BY <1>3, <1>4
  <2> QED
    BY <1>3, <1>4, <2>1, FilledOne
<1>6. FirstFilled(cells) = cells[1]
  <2>1. \A j \in 1 .. 2 : j # 1 => cells[j] = <<>>
    BY <1>2, <1>4
  <2> QED
    BY <1>2, <1>4, <2>1, FilledOne
<1> QED
  BY <1>1, <1>3, <1>5, <1>6 DEF cells

\* What the import reads in a row of the export.
LEMMA ExportedFields ==
  ASSUME NEW file, file.header = exportColumns, NEW row, DOMAIN row = 1 .. 7
  PROVE  /\ ISBN(file, row) = normalizeISBN(row[1])
         /\ field(file, row, "title") = Trimmed(row[2])
         /\ field(file, row, "author") = Trimmed(row[3])
         /\ field(file, row, "publisher") = Trimmed(row[4])
         /\ entered(file, row, "year") = row[5]
         /\ entered(file, row, "status") = row[6]
         /\ field(file, row, "notes") = Trimmed(row[7])
<1>1. ISBN(file, row) = normalizeISBN(row[1])
  <2> DEFINE cells == Cells(file, row, "isbn")
             isbns == [k \in DOMAIN cells |-> normalizeISBN(cells[k])]
  <2>1. DOMAIN cells = 1 .. 2 /\ cells[1] = <<>> /\ cells[2] = row[1]
    BY ExportedCells
  <2>2. DOMAIN isbns = 1 .. 2 /\ isbns[1] = <<>> /\ isbns[2] = normalizeISBN(row[1])
    <3> HIDE DEF cells
    <3> QED
      BY <2>1, EmptyCells
  <2>3. ISBN(file, row) = FirstFilled(isbns)
    BY DEF ISBN
  <2> HIDE DEF isbns
  <2>4. \A j \in 1 .. 2 : j # 2 => isbns[j] = <<>>
    BY <2>2
  <2> QED
    BY <2>2, <2>3, <2>4, FilledOne
<1>2. /\ field(file, row, "title") = Trimmed(row[2])
      /\ field(file, row, "author") = Trimmed(row[3])
      /\ field(file, row, "publisher") = Trimmed(row[4])
      /\ field(file, row, "notes") = Trimmed(row[7])
  BY ExportedCells, FieldOfFirst
<1>3. entered(file, row, "status") = row[6]
  BY ExportedCells, FieldOfFirst
<1>4. entered(file, row, "year") = row[5]
  <2> DEFINE cells == Cells(file, row, "year")
  <2>1. DOMAIN cells = 1 .. 3 /\ cells[1] = row[5] /\ cells[2] = <<>> /\ cells[3] = <<>>
    BY ExportedCells
  <2>2. entered(file, row, "year") = FirstFilled(cells)
    BY DEF entered
  <2> HIDE DEF cells
  <2>3. 1 \in 1 .. 3 /\ 3 \in Nat /\ \A j \in 1 .. 3 : j # 1 => cells[j] = <<>>
    BY <2>1
  <2> QED
    BY <2>1, <2>2, <2>3, FilledOne
<1> QED
  BY <1>1, <1>2, <1>3, <1>4

\* The row of a book, as writeLibraryCSV writes it.
Written(b) ==
    <<b.isbn, csvSafe(b.title), csvSafe(b.author), csvSafe(b.publisher),
      optionalInt(b.year), <<b.status>>, csvSafe(b.notes)>>

LEMMA ReadBack ==
  ASSUME NEW b \in AllBooks, NEW file, file.header = exportColumns
  PROVE  /\ Usable(file, Written(b))
         /\ LET r == Record(file, Written(b))
            IN  /\ r.isbn = b.isbn /\ r.year = b.year /\ r.status = b.status
                /\ Survives(b.title) => r.title = b.title
                /\ Survives(b.author) => r.author = b.author
                /\ Survives(b.publisher) => r.publisher = b.publisher
                /\ Survives(b.notes) => r.notes = b.notes
<1> DEFINE row == Written(b)
           r   == Record(file, row)
<1>1. /\ DOMAIN row = 1 .. 7 /\ row # <<>> /\ row[1] = b.isbn
      /\ row[2] = csvSafe(b.title) /\ row[3] = csvSafe(b.author) /\ row[4] = csvSafe(b.publisher)
      /\ row[5] = optionalInt(b.year) /\ row[6] = <<b.status>> /\ row[7] = csvSafe(b.notes)
  BY DEF Written
<1>2. /\ b.isbn \in Seq(Nat) /\ b.title \in Seq(Nat) /\ b.author \in Seq(Nat)
      /\ b.publisher \in Seq(Nat) /\ b.notes \in Seq(Nat)
  BY BookAssumption
<1>3. /\ isValidEAN13(b.isbn)
      /\ \E i \in DOMAIN b.title : b.title[i] \notin White
      /\ b.status \in {"unread", "reading", "read"}
      /\ Len(b.notes) <= MaxNotes
  BY BooksAreValid DEF Valid
<1> HIDE DEF row
<1>4. /\ ISBN(file, row) = normalizeISBN(b.isbn)
      /\ field(file, row, "title") = Trimmed(csvSafe(b.title))
      /\ field(file, row, "author") = Trimmed(csvSafe(b.author))
      /\ field(file, row, "publisher") = Trimmed(csvSafe(b.publisher))
      /\ entered(file, row, "year") = optionalInt(b.year)
      /\ entered(file, row, "status") = <<b.status>>
      /\ field(file, row, "notes") = Trimmed(csvSafe(b.notes))
  BY <1>1, ExportedFields
<1>5. ISBN(file, row) = b.isbn /\ ISBN(file, row) # <<>>
  <2>1. normalizeISBN(b.isbn) = b.isbn
    BY <1>2, <1>3, NormalizedIs
  <2>2. Len(b.isbn) = 13
    BY <1>3 DEF isValidEAN13
  <2>3. b.isbn # <<>>
    <3>1. Len(<<>>) # 13
      OBVIOUS
    <3> QED
      BY <2>2, <3>1
  <2> QED
    BY <1>4, <2>1, <2>3
<1>6. Usable(file, row)
  <2>1. csvUnsafe(field(file, row, "title")) # <<>>
    BY <1>2, <1>3, <1>4, RoundTrip DEF Back
  <2> QED
    BY <1>1, <1>5, <2>1 DEF Usable, Unreadable
<1>7. /\ r.isbn = ISBN(file, row)
      /\ r.title = Back(b.title) /\ r.author = Back(b.author) /\ r.publisher = Back(b.publisher)
      /\ r.year = Atoi(optionalInt(b.year)) /\ r.status = importStatus(<<b.status>>)
      /\ r.notes = truncateRunes(Back(b.notes), MaxNotes)
  BY <1>4 DEF Record, Back
<1>8. Atoi(optionalInt(b.year)) = b.year
  <2>1. <<b.year>> # <<>> /\ Head(<<b.year>>) = b.year
    OBVIOUS
  <2> QED
    BY <2>1 DEF Atoi, optionalInt
<1>9. importStatus(<<b.status>>) = b.status
  <2>1. CASE b.status = "read"
    BY <2>1 DEF importStatus
  <2>2. CASE b.status = "reading"
    BY <2>2 DEF importStatus
  <2>3. CASE b.status = "unread"
    BY <2>3 DEF importStatus
  <2> QED
    BY <1>3, <2>1, <2>2, <2>3
<1>10. Survives(b.notes) => truncateRunes(Back(b.notes), MaxNotes) = b.notes
  BY <1>2, <1>3, RoundTrip DEF truncateRunes
<1>11. /\ Survives(b.title) => Back(b.title) = b.title
       /\ Survives(b.author) => Back(b.author) = b.author
       /\ Survives(b.publisher) => Back(b.publisher) = b.publisher
  BY <1>2, RoundTrip
<1> QED
  BY <1>5, <1>6, <1>7, <1>8, <1>9, <1>10, <1>11 DEF row

LEMMA ExportTaken ==
  ASSUME NEW s \in Seq(AllBooks), Len(s) <= MaxRows
  PROVE  LET file == writeLibraryCSV(s)
         IN  /\ file.header = exportColumns
             /\ parseImportCSV(file) =
                   [failed  |-> FALSE,
                    records |-> [k \in 1 .. Len(s) |-> Record(file, Written(s[k]))],
                    skipped |-> 0]
<1> DEFINE file == writeLibraryCSV(s)
           rows == [k \in DOMAIN s |-> Written(s[k])]
<1>1. file.header = exportColumns /\ file.rows = rows
  BY DEF writeLibraryCSV, Written
<1>2. DOMAIN s = 1 .. Len(s) /\ Len(s) \in Nat /\ \A k \in DOMAIN s : s[k] \in AllBooks
  OBVIOUS
<1>3. DOMAIN rows = 1 .. Len(s) /\ \A k \in 1 .. Len(s) : rows[k] = Written(s[k])
  BY <1>2
<1> DEFINE X == {Written(s[k]) : k \in 1 .. Len(s)}
<1>4. rows \in Seq(X) /\ Len(rows) = Len(s)
  <2>1. rows \in [1 .. Len(s) -> X]
    BY <1>2
  <2> QED
    BY <1>2, <2>1
<1> HIDE DEF file, rows, X
<1>5. \A k \in 1 .. Len(s) : Usable(file, rows[k])
  BY <1>1, <1>2, <1>3, ReadBack
<1>6. ~Rejected(file)
  <2>1. hasColumn(file, "isbn") /\ hasColumn(file, "title")
    <3>1. Column(file, "isbn") # 0 /\ Column(file, "title") # 0
      <4>1. Column(file, "isbn") = 1 /\ Column(file, "title") = 2
        BY <1>1, ExportedColumns
      <4> QED
        BY <4>1
    <3>2. importAliases["isbn"][2] = "isbn" /\ importAliases["title"][1] = "title"
      BY DEF importAliases
    <3>3. 2 \in DOMAIN importAliases["isbn"] /\ 1 \in DOMAIN importAliases["title"]
      BY AliasCounts
    <3> QED
      BY <3>1, <3>2, <3>3 DEF hasColumn
  <2>2. ~TooLong(file)
    <3>1. \A n \in DOMAIN file.rows : n <= Len(s) /\ n \in Nat
      BY <1>1, <1>2, <1>3
    <3>2. \A n \in DOMAIN file.rows : ~(n > MaxRows)
      BY <1>2, <3>1, CsvAssumption
    <3> QED
      BY <3>2 DEF TooLong
  <2> QED
    BY <2>1, <2>2 DEF Rejected
<1>7. {n \in DOMAIN file.rows : Usable(file, file.rows[n])} = DOMAIN rows
  BY <1>1, <1>3, <1>5
<1>8. Kept(file.rows, {n \in DOMAIN file.rows : Usable(file, file.rows[n])}) = rows
  BY <1>1, <1>4, <1>7, KeptAll
<1>9. Skipped(file, rows) = 0
  BY <1>1, <1>2, <1>4 DEF Skipped
<1>10. parseImportCSV(file) =
          [failed  |-> FALSE, records |-> [k \in DOMAIN rows |-> Record(file, rows[k])],
           skipped |-> Skipped(file, rows)]
  BY <1>6, <1>8 DEF parseImportCSV
<1>11. [k \in DOMAIN rows |-> Record(file, rows[k])]
          = [k \in 1 .. Len(s) |-> Record(file, Written(s[k]))]
  BY <1>3
<1> QED
  BY <1>1, <1>9, <1>10, <1>11 DEF file

-----------------------------------------------------------------------------
(* The library an import fills *)

LEMMA FilledAuthor ==
  ASSUME NEW file, NEW row
  PROVE  LET r == Record(file, row)
             c == WithAuthor(r)
         IN  /\ c.isbn = r.isbn /\ c.title = r.title /\ c.publisher = r.publisher
             /\ c.year = r.year /\ c.status = r.status /\ c.notes = r.notes
             /\ c.author = IF r.author = <<>> THEN UnknownAuthor ELSE r.author
  BY DEF WithAuthor, Record

\* Records of different books fill a library in the reverse order.
LEMMA FilledIs ==
  ASSUME NEW X, NEW records \in Seq(X),
         \A i, j \in 1 .. Len(records) :
            WithAuthor(records[i]).isbn = WithAuthor(records[j]).isbn => i = j
  PROVE  Filled(records) = [k \in 1 .. Len(records) |-> WithAuthor(records[Len(records) + 1 - k])]
<1> DEFINE L == Len(records)
           Y == {WithAuthor(records[i]) : i \in 1 .. L}
           Fills(turn) == turn = [n \in 0 .. L |->
              IF n = 0 THEN <<>> ELSE WithRecord(turn[n - 1], records[n])]
           f == [n \in 0 .. L |-> [k \in 1 .. n |-> WithAuthor(records[n + 1 - k])]]
           g == CHOOSE turn : Fills(turn)
<1>1. L \in Nat
  OBVIOUS
<1>2. Filled(records) = g[L]
  BY DEF Filled
<1> HIDE DEF L
<1>3. ASSUME NEW n \in 1 .. L PROVE f[n] = WithRecord(f[n - 1], records[n])
  <2> DEFINE b == WithAuthor(records[n])
             t == f[n - 1]
  <2>1. n - 1 \in 0 .. L /\ n \in 0 .. L /\ n - 1 \in Nat /\ (n - 1) + 1 = n
    BY <1>1
  <2>2. t = [k \in 1 .. n - 1 |-> WithAuthor(records[n - k])]
    BY <2>1
  <2>3. \A k \in 1 .. n - 1 : n - k \in 1 .. L /\ n - k # n
    BY <1>1
  <2>4. t \in [1 .. n - 1 -> Y] /\ b.isbn \notin ISBNs(t)
    <3> HIDE DEF f, t
    <3>1. /\ DOMAIN t = 1 .. n - 1 /\ t = [k \in 1 .. n - 1 |-> t[k]]
          /\ \A k \in 1 .. n - 1 : t[k] = WithAuthor(records[n - k])
      BY <2>2
    <3>2. n \in 1 .. Len(records) /\ \A k \in 1 .. n - 1 : n - k \in 1 .. Len(records)
      BY <2>3 DEF L
    <3>3. \A k \in 1 .. n - 1 : t[k] \in Y
      BY <2>3, <3>1
    <3>4. \A k \in 1 .. n - 1 : t[k].isbn # b.isbn
      BY <2>3, <3>1, <3>2
    <3> HIDE DEF Y, b
    <3> QED
      BY <3>1, <3>3, <3>4 DEF ISBNs
  <2>5. b \in Y
    OBVIOUS
  <2>7. WithRecord(t, records[n]) = <<b>> \o t
    BY <2>4 DEF WithRecord
  <2>8. f[n] = [k \in 1 .. n |-> WithAuthor(records[n + 1 - k])]
    BY <2>1
  <2>9. \A k \in 1 .. n : k # 1 => k - 1 \in 1 .. n - 1 /\ n - (k - 1) = n + 1 - k
    BY <2>1
  <2>10. \A k \in 1 .. n : k # 1 => t[k - 1] = WithAuthor(records[n + 1 - k])
    BY <2>2, <2>9
  <2>11. n + 1 - 1 = n
    BY <2>1
  <2>12. \A k \in 1 .. n : WithAuthor(records[n + 1 - k]) = IF k = 1 THEN b ELSE t[k - 1]
    BY <2>10, <2>11
  <2> HIDE DEF f, Y, b, t
  <2>13. t \in Seq(Y) /\ Len(t) = n - 1
    BY <2>1, <2>4
  <2>14. <<b>> \o t = [k \in 1 .. n |-> IF k = 1 THEN b ELSE t[k - 1]]
    BY <2>1, <2>5, <2>13
  <2>15. f[n] = [k \in 1 .. n |-> IF k = 1 THEN b ELSE t[k - 1]]
    BY <2>8, <2>12
  <2> QED
    BY <2>7, <2>14, <2>15 DEF t
<1>4. f[0] = <<>>
  BY <1>1
<1>5. DOMAIN f = 0 .. L /\ f = [n \in 0 .. L |-> f[n]]
  OBVIOUS
<1>51. f[L] = [k \in 1 .. L |-> WithAuthor(records[L + 1 - k])]
  BY <1>1
<1> HIDE DEF f
<1>6. Fills(f)
  <2>1. \A n \in 0 .. L : f[n] = IF n = 0 THEN <<>> ELSE WithRecord(f[n - 1], records[n])
    BY <1>1, <1>3, <1>4
  <2> QED
    BY <1>5, <2>1
<1>7. Fills(g)
  <2> HIDE DEF Fills
  <2> QED
    BY <1>6
<1> HIDE DEF g
<1>8. \A n \in 0 .. L : g[n] = IF n = 0 THEN <<>> ELSE WithRecord(g[n - 1], records[n])
  BY <1>7
<1>9. \A n \in 0 .. L : g[n] = f[n]
  <2> DEFINE bad == {n \in 0 .. L : g[n] # f[n]}
  <2>1. ASSUME bad # {} PROVE FALSE
    <3>1. bad \subseteq Nat
      BY <1>1
    <3>2. PICK m \in bad : \A n \in bad : m <= n
      BY <2>1, <3>1, LeastNumber
    <3>3. m # 0
      BY <1>1, <1>4, <1>8, <3>2
    <3>4. m \in 1 .. L /\ m - 1 \in 0 .. L /\ ~(m <= m - 1)
      BY <1>1, <3>2, <3>3
    <3>5. g[m - 1] = f[m - 1]
      BY <3>2, <3>4
    <3>6. g[m] = f[m]
      BY <1>3, <1>8, <3>4, <3>5
    <3> QED
      BY <3>2, <3>6
  <2> QED
    BY <2>1
<1>10. g[L] = f[L]
  BY <1>1, <1>9
<1> QED
  BY <1>2, <1>10, <1>51 DEF L

-----------------------------------------------------------------------------
(* Theorems *)

\* However the library changes while its pages are loaded by offset, a grid
\* repeats no more cards than books were added, and lacks no more of the
\* matches that stayed than books were removed (searchData, librarySearch).
THEOREM ErrorsBounded == Spec => []ChangesBoundErrors
<1>1. ASSUME TypeOK, Borders PROVE ChangesBoundErrors
  <2>1. cards \in Seq(AllBooks) /\ IsLibrary(shelf) /\ scroll.added \in Nat
    BY <1>1 DEF TypeOK, Scrolls
  <2>2. Len(cards) - Cardinality(ToSet(cards)) <= scroll.added
    <3>1. /\ Twice(shelf, shown, page, cards) <= scroll.added
          /\ Twice(shelf, shown, page, cards) \in Int
          /\ Len(cards) - Cardinality(ToSet(cards)) <= Twice(shelf, shown, page, cards)
      BY <1>1, <2>1, TwiceType DEF Borders, Bounded
    <3>2. Len(cards) \in Nat /\ Cardinality(ToSet(cards)) \in Nat
      BY <2>1, ElementsFinite
    <3> QED
      BY <2>1, <3>1, <3>2
  <2>3. ASSUME ~more, ~scroll.failed
        PROVE  Cardinality({b \in ToSet(shelf) : b.isbn \in scroll.stayed /\ b \in Hits[shown]} \ ToSet(cards))
                  <= scroll.removed
    <3>1. Cardinality(Missed(shelf, shown, page, cards, scroll.stayed, more)) <= scroll.removed
      BY <1>1, <2>3 DEF Borders, Bounded
    <3>2. {b \in ToSet(shelf) : b.isbn \in scroll.stayed /\ b \in Hits[shown]}
             = Lasting(shelf, shown, scroll.stayed)
      BY DEF Lasting, Matching
    <3>3. Missed(shelf, shown, page, cards, scroll.stayed, more)
             = Lasting(shelf, shown, scroll.stayed) \ ToSet(cards)
      BY <2>3 DEF Missed
    <3> QED
      BY <3>1, <3>2, <3>3
  <2> QED
    BY <2>2, <2>3 DEF ChangesBoundErrors
<1> QED
  BY <1>1, InvariantHolds, PTL DEF IInv

\* While the library does not change, the pages loaded are the matches in the
\* order asked for, from the first on, without a gap and without a repetition,
\* and the button is there until all of them are loaded.
THEOREM QuietScrollExact == Spec => []QuietScrollIsExact
<1>1. ASSUME TypeOK, Borders, scroll = Quiet
      PROVE  LET before(b, c) == Ranked(b, At(shelf, b), c, At(shelf, c), shown.sort)
             IN  /\ \A m, n \in DOMAIN cards : m < n => before(cards[m], cards[n])
                 /\ \A b \in ToSet(shelf) :
                       /\ b \in ToSet(cards) => b \in Hits[shown]
                       /\ b \in Hits[shown] /\ b \notin ToSet(cards) =>
                             more /\ \A c \in ToSet(cards) : before(c, b)
                 /\ ToSet(cards) \subseteq ToSet(shelf)
                 /\ more => \E b \in ToSet(shelf) : b \in Hits[shown] /\ b \notin ToSet(cards)
  <2> DEFINE n == page * PageSize
  <2>1. IsLibrary(shelf) /\ page \in Nat
    BY <1>1, PageAssumption DEF TypeOK
  <2>2. n \in Nat
    BY <2>1, PageArithmetic
  <2>3. Exact(shelf, shown, page, cards, more)
    BY <1>1 DEF Borders
  <2>4. /\ \A i, j \in DOMAIN cards : i < j => <<cards[i], cards[j]>> \in BookOrder(shelf, shown.sort)
        /\ ToSet(cards) = Ahead(shelf, shown, n)
        /\ more <=> Behind(shelf, shown, n) # {}
    BY <2>3 DEF Exact
  <2> HIDE DEF n
  <2>5. \A b, c : <<b, c>> \in BookOrder(shelf, shown.sort) =>
           Ranked(b, At(shelf, b), c, At(shelf, c), shown.sort)
    BY DEF BookOrder
  <2>6. /\ ToSet(cards) \subseteq ToSet(shelf)
        /\ \A b \in ToSet(cards) : b \in Hits[shown]
    BY <2>4 DEF Ahead, Matching
  <2>7. ASSUME NEW b \in ToSet(shelf), b \in Hits[shown], b \notin ToSet(cards)
        PROVE  b \in Behind(shelf, shown, n)
    BY <2>4, <2>7 DEF Behind, Matching
  <2>8. \A b \in Behind(shelf, shown, n), c \in ToSet(cards) :
           <<c, b>> \in BookOrder(shelf, shown.sort)
    BY <2>1, <2>2, <2>4, AheadComesFirst
  <2>9. \A b \in Behind(shelf, shown, n) : b \in ToSet(shelf) /\ b \in Hits[shown] /\ b \notin ToSet(cards)
    BY <2>4 DEF Behind, Matching
  <2> QED
    BY <2>4, <2>5, <2>6, <2>7, <2>8, <2>9
<1>2. ASSUME TypeOK, Borders PROVE QuietScrollIsExact
  BY <1>1, <1>2 DEF QuietScrollIsExact, At
<1> QED
  BY <1>2, InvariantHolds, PTL DEF IInv

\* Every row of an uploaded file is in one of the numbers reported or still to
\* come: no turn of libraryImport's loop loses one.
THEOREM RowsCounted == Spec => []RowsAddUp
<1>1. Init => RowsAddUp
  BY DEF Init, RowsAddUp
<1>2. ASSUME TypeOK, RowsAddUp, [Next]_vars PROVE RowsAddUp'
  <2>1. CASE upload' = upload
    BY <1>2, <2>1 DEF RowsAddUp
  <2>2. ASSUME NEW f \in Files, Upload(f) PROVE RowsAddUp'
    <3>1. /\ ~Parsed[f].failed
          /\ upload' = [left |-> Parsed[f].records, file |-> f,
                        added |-> 0, existing |-> 0, skipped |-> Parsed[f].skipped]
      BY <2>2 DEF Upload
    <3>2. /\ Parsed[f].records \in Seq(Records) /\ Parsed[f].skipped \in Nat
          /\ Len(Parsed[f].records) + Parsed[f].skipped = Len(f.rows)
      BY <3>1, ParsedIs
    <3>3. /\ upload'.left = Parsed[f].records /\ upload'.file = f
          /\ upload'.added = 0 /\ upload'.existing = 0 /\ upload'.skipped = Parsed[f].skipped
      BY <3>1
    <3>4. Len(Parsed[f].records) \in Nat
      BY <3>2
    <3> QED
      BY <3>2, <3>3, <3>4 DEF RowsAddUp
  <2>3. CASE ImportRow
    <3> DEFINE left == Tail(upload.left)
    <3>1. upload # None /\ upload.left # <<>>
      BY <2>3 DEF ImportRow
    <3>2. /\ upload \in Uploads /\ Len(left) = Len(upload.left) - 1
          /\ upload.added \in Nat /\ upload.existing \in Nat /\ upload.skipped \in Nat
          /\ Len(upload.left) \in Nat
      BY <1>2, <3>1, UploadIs
    <3>3. \/ upload' = [upload EXCEPT !.left = left, !.existing = upload.existing + 1]
          \/ upload' = [upload EXCEPT !.left = left, !.added = upload.added + 1]
      BY <2>3 DEF ImportRow
    <3> HIDE DEF left
    <3>4. /\ upload'.left = left /\ upload'.file = upload.file /\ upload'.skipped = upload.skipped
          /\ \/ upload'.existing = upload.existing + 1 /\ upload'.added = upload.added
             \/ upload'.existing = upload.existing /\ upload'.added = upload.added + 1
      BY <3>2, <3>3 DEF Uploads
    <3>5. Len(upload.left) + upload.added + upload.existing + upload.skipped = Len(upload.file.rows)
      BY <1>2, <3>1 DEF RowsAddUp
    <3>6. Len(upload'.left) + upload'.added + upload'.existing + upload'.skipped = Len(upload'.file.rows)
      <4>1. Len(upload'.left) = Len(upload.left) - 1
        BY <3>2, <3>4
      <4>2. upload'.file.rows = upload.file.rows /\ upload'.skipped = upload.skipped
        BY <3>4
      <4> DEFINE e == upload.existing
                 n == upload.added
                 l == Len(upload.left)
                 k == upload.skipped
                 sum == Len(upload.file.rows)
      <4>3. CASE upload'.existing = e + 1 /\ upload'.added = n
        <5>1. e \in Nat /\ n \in Nat /\ l \in Nat /\ k \in Nat /\ l + n + e + k = sum
          BY <3>2, <3>5
        <5> HIDE DEF e, n, l, k, sum
        <5>2. (l - 1) + n + (e + 1) + k = sum
          BY <5>1
        <5> QED
          BY <4>1, <4>2, <4>3, <5>2 DEF l, k, sum
      <4>4. CASE upload'.existing = e /\ upload'.added = n + 1
        <5>1. e \in Nat /\ n \in Nat /\ l \in Nat /\ k \in Nat /\ l + n + e + k = sum
          BY <3>2, <3>5
        <5> HIDE DEF e, n, l, k, sum
        <5>2. (l - 1) + (n + 1) + e + k = sum
          BY <5>1
        <5> QED
          BY <4>1, <4>2, <4>4, <5>2 DEF l, k, sum
      <4> QED
        BY <3>4, <4>3, <4>4
    <3> QED
      BY <3>6 DEF RowsAddUp
  <2>4. CASE ImportDone
    BY <2>4 DEF ImportDone, RowsAddUp
  <2> QED
    BY <1>2, <2>1, <2>2, <2>3, <2>4
       DEF Next, vars, Type, SearchReply, SearchFails, SearchAnswer, Reveal, MoreReply, MoreFails,
           MoreAnswer, SearchLost, MoreLost, Add, RemoveBook
<1>3. Init => TypeOK /\ RowsAddUp
  BY <1>1, TypeOKInit
<1> QED
  BY <1>2, <1>3, InvariantHolds, PTL DEF Spec, IInv

\* Importing the export of a library into an empty one, whatever forms and
\* imports have brought into it, skips nothing and gives each book once, the
\* oldest now the newest, with every text that can survive the round trip
\* unchanged and the unknown author where there was none: csvUnsafe undoes
\* csvSafe, parseImportCSV finds each column writeLibraryCSV has written, and
\* the loop of libraryImport leaves no record out.
THEOREM ExportRoundTrip == Spec => []ExportComesBack
<1>1. ASSUME TypeOK, Len(shelf) <= MaxRows PROVE ExportComesBack
  <2> DEFINE file    == writeLibraryCSV(shelf)
             parsed  == parseImportCSV(file)
             records == parsed.records
             copy    == Filled(records)
             N       == Len(shelf)
  <2>1. shelf \in Seq(AllBooks) /\ \A i, j \in DOMAIN shelf : shelf[i].isbn = shelf[j].isbn => i = j
    BY <1>1 DEF TypeOK, IsLibrary
  <2>2. /\ file.header = exportColumns
        /\ parsed = [failed  |-> FALSE,
                     records |-> [k \in 1 .. N |-> Record(file, Written(shelf[k]))],
                     skipped |-> 0]
    BY <1>1, <2>1, ExportTaken
  <2> HIDE DEF parsed, file
  <2>3. /\ ~parsed.failed /\ parsed.skipped = 0
        /\ records = [k \in 1 .. N |-> Record(file, Written(shelf[k]))]
    BY <2>2
  <2>4. N \in Nat /\ DOMAIN shelf = 1 .. N
    BY <2>1
  <2> HIDE DEF records
  <2> DEFINE X == {Record(file, Written(shelf[k])) : k \in 1 .. N}
  <2>5. records \in Seq(X) /\ Len(records) = N
    <3>1. records \in [1 .. N -> X]
      BY <2>3
    <3> HIDE DEF X, N
    <3> QED
      BY <2>4, <3>1
  <2>6. ASSUME NEW k \in 1 .. N
        PROVE  LET b == shelf[k]
                   c == WithAuthor(records[k])
               IN  /\ c.isbn = b.isbn /\ c.year = b.year /\ c.status = b.status
                   /\ Survives(b.title) => c.title = b.title
                   /\ Survives(b.publisher) => c.publisher = b.publisher
                   /\ Survives(b.notes) => c.notes = b.notes
                   /\ IF b.author = <<>> THEN c.author = UnknownAuthor
                      ELSE Survives(b.author) => c.author = b.author
    <3> DEFINE b == shelf[k]
               r == Record(file, Written(b))
               c == WithAuthor(r)
    <3>1. b \in AllBooks /\ records[k] = r
      BY <2>1, <2>3, <2>4
    <3>2. /\ r.isbn = b.isbn /\ r.year = b.year /\ r.status = b.status
          /\ Survives(b.title) => r.title = b.title
          /\ Survives(b.author) => r.author = b.author
          /\ Survives(b.publisher) => r.publisher = b.publisher
          /\ Survives(b.notes) => r.notes = b.notes
      BY <2>2, <3>1, ReadBack
    <3>3. /\ c.isbn = r.isbn /\ c.title = r.title /\ c.publisher = r.publisher
          /\ c.year = r.year /\ c.status = r.status /\ c.notes = r.notes
          /\ c.author = IF r.author = <<>> THEN UnknownAuthor ELSE r.author
      BY FilledAuthor
    <3> HIDE DEF b, r, c
    <3>4. Survives(<<>>)
      BY DEF Survives
    <3>5. IF b.author = <<>> THEN c.author = UnknownAuthor ELSE Survives(b.author) => c.author = b.author
      BY <3>2, <3>3, <3>4
    <3>6. c = WithAuthor(records[k])
      BY <3>1 DEF c
    <3> QED
      BY <3>2, <3>3, <3>5, <3>6 DEF b
  <2>7. copy = [k \in 1 .. N |-> WithAuthor(records[N + 1 - k])]
    <3>1. \A i, j \in 1 .. Len(records) :
             WithAuthor(records[i]).isbn = WithAuthor(records[j]).isbn => i = j
      BY <2>1, <2>4, <2>5, <2>6
    <3> HIDE DEF X, N
    <3> QED
      BY <2>5, <3>1, FilledIs
  <2> HIDE DEF copy
  <2>8. Len(copy) = N
    BY <2>4, <2>7
  <2>9. ASSUME NEW k \in 1 .. N PROVE copy[N + 1 - k] = WithAuthor(records[k])
    <3>1. N + 1 - k \in 1 .. N /\ N + 1 - (N + 1 - k) = k
      BY <2>4
    <3> HIDE DEF N
    <3> QED
      BY <2>7, <3>1
  <2>10. ASSUME NEW k \in 1 .. N
         PROVE  Returned(shelf[k], copy[N + 1 - k])
    BY <2>6, <2>9 DEF Returned
  <2> QED
    BY <1>1, <2>3, <2>4, <2>8, <2>10 DEF ExportComesBack, copy, records, parsed, file
<1>2. TypeOK => ExportComesBack
  <2>1. ~(Len(shelf) <= MaxRows) => ExportComesBack
    BY DEF ExportComesBack
  <2> QED
    BY <1>1, <2>1
<1> QED
  BY <1>2, InvariantHolds, PTL DEF IInv

-----------------------------------------------------------------------------
(* Editions *)

\* The weighted sum is that of the first twelve digits.
LEMMA SameSum ==
  ASSUME NEW s, NEW t, \A i \in 1 .. 12 : s[i] = t[i]
  PROVE  WeightedSum(s) = WeightedSum(t)
<1>1. /\ s[1] = t[1] /\ s[2] = t[2] /\ s[3] = t[3] /\ s[4] = t[4] /\ s[5] = t[5] /\ s[6] = t[6]
      /\ s[7] = t[7] /\ s[8] = t[8] /\ s[9] = t[9] /\ s[10] = t[10] /\ s[11] = t[11] /\ s[12] = t[12]
  OBVIOUS
<1> QED
  BY <1>1 DEF WeightedSum

\* The digit normalizeISBN puts after the nine of an ISBN-10 fits.
LEMMA NewDigitFits ==
  ASSUME NEW Y, Nat \subseteq Y, NEW body \in Seq(Y), isValidEAN13(Append(body, 0))
  PROVE  CheckDigitFits(Append(body, (10 - (WeightedSum(body) % 10)) % 10))
<1> DEFINE n     == WeightedSum(body)
           digit == (10 - (n % 10)) % 10
           whole == Append(body, digit)
<1>1. Len(body) = 12 /\ \A i \in 1 .. 12 : body[i] \in 0 .. 9
  BY TwelveDigits
<1>2. n \in Nat
  <2>1. \A d \in 0 .. 9 : d \in Nat
    OBVIOUS
  <2>2. \A i \in 1 .. 12 : body[i] \in Nat
    BY <1>1, <2>1
  <2> QED
    BY <2>2, SumType
<1> HIDE DEF n
<1>3. digit \in 0 .. 9 /\ (n + digit) % 10 = 0
  <2> DEFINE d == n % 10
             q == n \div 10
  <2>1. d \in 0 .. 9 /\ q \in Nat /\ n = 10 * q + d
    BY <1>2
  <2> HIDE DEF d, q
  <2>2. CASE d = 0
    <3>1. (10 - d) % 10 = 0
      BY <2>2
    <3>2. (10 * q + 0) % 10 = 0
      BY <2>1
    <3> QED
      BY <2>1, <2>2, <3>1, <3>2 DEF d
  <2>3. CASE d # 0
    <3>1. (10 - d) % 10 = 10 - d /\ 10 - d \in 0 .. 9
      BY <2>1, <2>3
    <3>2. n + (10 - d) = 10 * (q + 1)
      BY <2>1
    <3>3. (10 * (q + 1)) % 10 = 0
      BY <2>1
    <3> QED
      BY <3>1, <3>2, <3>3 DEF d
  <2> QED
    BY <2>2, <2>3
<1> HIDE DEF digit
<1>4. /\ \A i \in 1 .. 12 : whole[i] = body[i]
      /\ whole[13] = digit
  <2>1. \A d \in Y : /\ \A i \in 1 .. Len(body) : Append(body, d)[i] = body[i]
                      /\ Append(body, d)[Len(body) + 1] = d
    OBVIOUS
  <2>2. digit \in Y
    <3>1. \A d \in 0 .. 9 : d \in Nat
      OBVIOUS
    <3> QED
      BY <1>3, <3>1
  <2>3. Len(body) + 1 = 13
    BY <1>1
  <2>4. /\ \A i \in 1 .. Len(body) : whole[i] = body[i]
        /\ whole[Len(body) + 1] = digit
    BY <2>1, <2>2
  <2> HIDE DEF whole
  <2> QED
    BY <1>1, <2>3, <2>4
<1> HIDE DEF whole
<1>5. WeightedSum(whole) = n
  BY <1>4, SameSum DEF n
<1>6. CheckDigitFits(whole)
  BY <1>3, <1>4, <1>5 DEF CheckDigitFits
<1> QED
  BY <1>6 DEF whole, digit, n

LEMMA NormalizedFits ==
  ASSUME NEW X, NEW s \in Seq(X), normalizeISBN(s) # <<>>,
         isValidEAN13(Clean(s)) => CheckDigitFits(Clean(s))
  PROVE  CheckDigitFits(normalizeISBN(s))
<1> DEFINE clean == Clean(s)
           body  == <<9, 7, 8>> \o SubSeq(clean, 1, 9)
           digit == (10 - (WeightedSum(body) % 10)) % 10
<1>1. normalizeISBN(s) = IF isValidEAN13(clean) THEN clean
                         ELSE IF Len(clean) = 10 /\ isValidEAN13(Append(body, 0))
                              THEN Append(body, digit) ELSE <<>>
  BY DEF normalizeISBN
<1>2. CASE isValidEAN13(clean)
  BY <1>1, <1>2
<1>3. CASE ~isValidEAN13(clean)
  <2>1. /\ normalizeISBN(s) = Append(body, digit)
        /\ Len(clean) = 10 /\ isValidEAN13(Append(body, 0))
    <3> HIDE DEF clean, body, digit
    <3> QED
      BY <1>1, <1>3
  <2> DEFINE Y == X \cup Nat
  <2>2. clean \in Seq(Y)
    <3>1. clean \in Seq(X)
      BY CleanIs
    <3> HIDE DEF clean
    <3> QED
      BY <3>1
  <2>3. body \in Seq(Y)
    <3> HIDE DEF clean
    <3>1. 9 \in Y /\ 7 \in Y /\ 8 \in Y
      OBVIOUS
    <3> HIDE DEF Y
    <3>2. \A m, n \in 1 .. Len(clean) : SubSeq(clean, m, n) \in Seq(Y)
      BY <2>2
    <3>3. 1 \in 1 .. Len(clean) /\ 9 \in 1 .. Len(clean)
      BY <2>1
    <3>4. SubSeq(clean, 1, 9) \in Seq(Y)
      BY <3>2, <3>3
    <3>5. <<9, 7, 8>> \in Seq(Y)
      BY <3>1
    <3> QED
      BY <3>4, <3>5
  <2>4. Nat \subseteq Y
    OBVIOUS
  <2> HIDE DEF body, Y
  <2>5. CheckDigitFits(Append(body, (10 - (WeightedSum(body) % 10)) % 10))
    BY <2>1, <2>3, <2>4, NewDigitFits
  <2> QED
    BY <2>1, <2>5
<1> QED
  BY <1>2, <1>3

\* Where the numbers that come in are genuine, so are those of the books.
LEMMA BooksAreGenuine ==
  ASSUME GenuineNumbers, NEW b \in AllBooks
  PROVE  CheckDigitFits(b.isbn)
<1>1. CASE b \in ToSet(Initial) \cup FormBooks
  BY <1>1 DEF GenuineNumbers
<1>2. CASE b \notin ToSet(Initial) \cup FormBooks
  <2>1. PICK r \in Records : b = WithAuthor(r)
    BY <1>2 DEF AllBooks, Records
  <2>2. PICK f \in Files : \E n \in DOMAIN f.rows :
           Usable(f, f.rows[n]) /\ r = Record(f, f.rows[n])
    BY RecordsAreUsed
  <2>3. PICK n \in DOMAIN f.rows : Usable(f, f.rows[n]) /\ r = Record(f, f.rows[n])
    BY <2>2
  <2> DEFINE row   == f.rows[n]
             cells == Cells(f, row, "isbn")
             isbns == [k \in DOMAIN cells |-> normalizeISBN(cells[k])]
  <2>4. r.isbn = ISBN(f, row) /\ ISBN(f, row) # <<>>
    BY <2>3 DEF Record, Usable
  <2>5. b.isbn = r.isbn
    <3>1. b = r \/ b = [r EXCEPT !.author = UnknownAuthor]
      BY <2>1 DEF WithAuthor
    <3> QED
      BY <3>1, <2>3 DEF Record
  <2>6. DOMAIN cells = 1 .. 2 /\ DOMAIN cells = DOMAIN importAliases["isbn"]
    BY AliasCounts DEF Cells
  <2>7. ISBN(f, row) = FirstFilled(isbns) /\ DOMAIN isbns = 1 .. 2
    BY <2>6 DEF ISBN
  <2>8. PICK k \in 1 .. 2 : ISBN(f, row) = isbns[k]
    <3> HIDE DEF isbns
    <3> QED
      BY <2>4, <2>7, FilledSome
  <2>9. isbns[k] = normalizeISBN(cells[k])
    BY <2>6
  <2>10. cells[k] \in Seq(ToSet(cells[k]))
    BY <2>6, CellsAreTexts, SequenceIs
  <2>11. isValidEAN13(Clean(cells[k])) => CheckDigitFits(Clean(cells[k]))
    BY <2>6 DEF GenuineNumbers
  <2>12. CheckDigitFits(normalizeISBN(cells[k]))
    <3> HIDE DEF cells, isbns
    <3> QED
      BY <2>4, <2>8, <2>9, <2>10, <2>11, NormalizedFits
  <2> QED
    BY <2>4, <2>5, <2>8, <2>9, <2>12
<1> QED
  BY <1>1, <1>2

\* Two genuine numbers that differ, differ before their check digits.
LEMMA GenuineDiffer ==
  ASSUME NEW X, NEW s \in Seq(X), NEW t \in Seq(X),
         isValidEAN13(s), isValidEAN13(t), CheckDigitFits(s), CheckDigitFits(t),
         SubSeq(s, 1, 12) = SubSeq(t, 1, 12)
  PROVE  s = t
<1>1. Len(s) = 13 /\ Len(t) = 13 /\ DOMAIN s = 1 .. 13 /\ DOMAIN t = 1 .. 13
  BY DEF isValidEAN13
<1>2. (\A i \in 1 .. 13 : s[i] \in 0 .. 9) /\ (\A i \in 1 .. 13 : t[i] \in 0 .. 9)
  <2>1. (\A i \in DOMAIN s : s[i] \in 0 .. 9) /\ (\A i \in DOMAIN t : t[i] \in 0 .. 9)
    BY DEF isValidEAN13, Digits
  <2> QED
    BY <1>1, <2>1
<1>3. ASSUME NEW i \in 1 .. 12 PROVE s[i] = t[i]
  <2>1. SubSeq(s, 1, 12)[i] = s[i] /\ SubSeq(t, 1, 12)[i] = t[i]
    BY <1>1
  <2> QED
    BY <2>1
<1> DEFINE n == WeightedSum(s)
<1>4. WeightedSum(t) = n
  BY <1>3, SameSum
<1>5. n \in Nat
  <2>1. \A d \in 0 .. 9 : d \in Nat
    OBVIOUS
  <2>2. \A i \in 1 .. 12 : i \in 1 .. 13
    OBVIOUS
  <2>3. \A i \in 1 .. 12 : s[i] \in Nat
    BY <1>2, <2>1, <2>2
  <2> QED
    BY <2>3, SumType
<1> HIDE DEF n
<1>6. s[13] = t[13]
  <2>1. (n + s[13]) % 10 = 0 /\ (n + t[13]) % 10 = 0
    BY <1>4 DEF CheckDigitFits, n
  <2>2. s[13] \in 0 .. 9 /\ t[13] \in 0 .. 9
    BY <1>2
  <2>3. ASSUME NEW c \in 0 .. 9, NEW d \in 0 .. 9, (n + c) % 10 = 0, (n + d) % 10 = 0
        PROVE  c = d
    <3> DEFINE q == n \div 10
               m == n % 10
    <3>1. q \in Nat /\ m \in 0 .. 9 /\ n = 10 * q + m
      BY <1>5, SMTT(60)
    <3> HIDE DEF q, m
    <3>2. \A e \in 0 .. 9 : (10 * q + m + e) % 10 = (m + e) % 10
      BY <3>1
    <3>3. (m + c) % 10 = 0 /\ (m + d) % 10 = 0
      BY <2>3, <3>1, <3>2
    <3>4. m + c \in {0, 10} /\ m + d \in {0, 10}
      <4>1. ASSUME NEW e \in 0 .. 18, e % 10 = 0 PROVE e \in {0, 10}
        <5>1. e \in Nat
          OBVIOUS
        <5>2. e = 10 * (e \div 10) + (e % 10) /\ e \div 10 \in Nat
          BY <5>1, SMTT(60)
        <5> DEFINE tens == e \div 10
        <5>3. e = 10 * tens /\ tens \in Nat
          BY <4>1, <5>2
        <5> HIDE DEF tens
        <5>4. tens \in {0, 1}
          BY <5>3
        <5> QED
          BY <5>3, <5>4
      <4>2. m + c \in 0 .. 18 /\ m + d \in 0 .. 18
        BY <3>1
      <4> QED
        BY <3>3, <4>1, <4>2
    <3>5. c \in Int /\ d \in Int /\ m \in Int /\ 0 <= c /\ c <= 9 /\ 0 <= d /\ d <= 9 /\ 0 <= m /\ m <= 9
      BY <3>1
    <3>6. (m + c = 0 \/ m + c = 10) /\ (m + d = 0 \/ m + d = 10)
      BY <3>4
    <3> QED
      BY <3>5, <3>6
  <2> QED
    BY <2>1, <2>2, <2>3
<1>7. \A i \in 1 .. 13 : s[i] = t[i]
  <2>1. \A i \in 1 .. 13 : i \in 1 .. 12 \/ i = 13
    OBVIOUS
  <2> QED
    BY <1>3, <1>6, <2>1
<1> QED
  BY <1>1, <1>7

\* Where the numbers that come in are genuine, an edition is on the shelf once,
\* whether it came by its ISBN-13, through the scanner, the form or a file, or by
\* an ISBN-10 that normalizeISBN turned into one.
THEOREM EditionOnce == ASSUME GenuineNumbers PROVE Spec => []OneCopyPerEdition
<1>1. ASSUME TypeOK PROVE OneCopyPerEdition
  <2>1. shelf \in Seq(AllBooks) /\ \A i, j \in DOMAIN shelf : shelf[i].isbn = shelf[j].isbn => i = j
    BY <1>1 DEF TypeOK, IsLibrary
  <2> SUFFICES ASSUME NEW i \in DOMAIN shelf, NEW j \in DOMAIN shelf,
                      SubSeq(shelf[i].isbn, 1, 12) = SubSeq(shelf[j].isbn, 1, 12)
               PROVE  i = j
    BY DEF OneCopyPerEdition
  <2> DEFINE s == shelf[i].isbn
             t == shelf[j].isbn
  <2>2. shelf[i] \in AllBooks /\ shelf[j] \in AllBooks
    BY <2>1
  <2>3. s \in Seq(Nat) /\ t \in Seq(Nat)
    BY <2>2, BookAssumption
  <2>4. isValidEAN13(s) /\ isValidEAN13(t)
    BY <2>2, BooksAreValid DEF Valid
  <2>5. CheckDigitFits(s) /\ CheckDigitFits(t)
    BY <2>2, BooksAreGenuine
  <2>6. SubSeq(s, 1, 12) = SubSeq(t, 1, 12)
    OBVIOUS
  <2> HIDE DEF s, t
  <2>7. s = t
    BY <2>3, <2>4, <2>5, <2>6, GenuineDiffer
  <2> QED
    BY <2>1, <2>7 DEF s, t
<1> QED
  BY <1>1, InvariantHolds, PTL DEF IInv

-----------------------------------------------------------------------------
(* What a search finds, and what it promises *)

\* What a search compares with the words typed in it.
Haystack(b) == b.title \o <<Space>> \o b.author \o <<Space>> \o b.publisher

Words(b) == UNION {Fields(ToLower(t)) : t \in {b.title, b.author, b.publisher}}

LEMMA BookWords ==
  ASSUME NEW b \in AllBooks
  PROVE  Fields(ToLower(Haystack(b))) = Words(b)
<1> DEFINE t == b.title
           a == b.author
           p == b.publisher
           low(x) == ToLower(x)
<1>1. t \in Seq(Nat) /\ a \in Seq(Nat) /\ p \in Seq(Nat)
  BY BookAssumption
<1>2. Words(b) = Fields(low(t)) \cup Fields(low(a)) \cup Fields(low(p))
  BY DEF Words
<1> HIDE DEF t, a, p
<1>3. ASSUME NEW x \in Seq(Nat), NEW y \in Seq(Nat)
      PROVE  /\ x \o <<Space>> \o y \in Seq(Nat)
             /\ Fields(low(x \o <<Space>> \o y)) = Fields(low(x)) \cup Fields(low(y))
  <2>1. x \o <<Space>> \o y \in Seq(Nat)
    BY FieldsJoin
  <2>2. x \o <<Space>> \in Seq(Nat)
    BY LowerSpace, JoinIs
  <2>3. low(x \o <<Space>> \o y) = low(x \o <<Space>>) \o low(y)
    BY <2>2, LowerJoin
  <2>4. low(x \o <<Space>>) = low(x) \o <<Space>>
    BY LowerSpace, LowerJoin, ZenonT(60)
  <2>5. low(x) \in Seq(Nat) /\ low(y) \in Seq(Nat)
    BY LowerText
  <2> HIDE DEF low
  <2>6. Fields(low(x) \o <<Space>> \o low(y)) = Fields(low(x)) \cup Fields(low(y))
    BY <2>5, FieldsJoin
  <2> QED
    BY <2>1, <2>3, <2>4, <2>6
<1> HIDE DEF low
<1>4. t \o <<Space>> \o a \in Seq(Nat) /\ Fields(low(t \o <<Space>> \o a)) = Fields(low(t)) \cup Fields(low(a))
  BY <1>1, <1>3
<1> DEFINE ta == t \o <<Space>> \o a
<1>5. Fields(low(ta \o <<Space>> \o p)) = Fields(low(ta)) \cup Fields(low(p))
  <2>1. ta \in Seq(Nat)
    BY <1>4
  <2> HIDE DEF ta
  <2> QED
    BY <1>1, <1>3, <2>1
<1>6. Haystack(b) = ta \o <<Space>> \o p
  BY DEF Haystack, t, a, p
<1> QED
  BY <1>2, <1>4, <1>5, <1>6 DEF low

LEMMA CharactersAre ==
  /\ Characters \subseteq Nat
  /\ \A b \in AllBooks : \A w \in Words(b) : w \in Seq(Nat) /\ ToSet(w) \subseteq Characters
<1>1. ASSUME NEW b \in AllBooks, NEW t \in {b.title, b.author, b.publisher}
      PROVE  /\ ToLower(t) \in Seq(Nat)
             /\ ToSet(ToLower(t)) \subseteq Characters
  <2>1. t \in Seq(Nat)
    BY BookAssumption
  <2>2. ToSet(ToLower(t)) \subseteq
          ToSet(ToLower(b.title)) \cup ToSet(ToLower(b.author)) \cup ToSet(ToLower(b.publisher))
    OBVIOUS
  <2> QED
    BY <2>1, <2>2, LowerText DEF Characters
<1>2. ASSUME NEW c \in Characters PROVE c \in Nat
  <2>1. PICK b \in AllBooks :
          c \in ToSet(ToLower(b.title)) \cup ToSet(ToLower(b.author)) \cup ToSet(ToLower(b.publisher))
    BY DEF Characters
  <2>2. PICK t \in {b.title, b.author, b.publisher} : c \in ToSet(ToLower(t))
    BY <2>1
  <2>3. \A s \in Seq(Nat) : ToSet(s) \subseteq Nat
    BY DEF ToSet
  <2> QED
    BY <1>1, <2>2, <2>3
<1>3. ASSUME NEW b \in AllBooks, NEW w \in Words(b)
      PROVE  w \in Seq(Nat) /\ ToSet(w) \subseteq Characters
  <2>1. PICK t \in {b.title, b.author, b.publisher} : w \in Fields(ToLower(t))
    BY DEF Words
  <2>2. ToLower(t) \in Seq(Nat) /\ ToSet(ToLower(t)) \subseteq Characters
    BY <1>1
  <2>3. w \in Seq(Nat) /\ ToSet(w) \subseteq ToSet(ToLower(t))
    BY <2>1, <2>2, FieldText
  <2> QED
    BY <2>2, <2>3
<1> QED
  BY <1>2, <1>3

\* The same of a book.
LEMMA BookFound ==
  ASSUME NEW k \in Queries, NEW b \in AllBooks, NEW word \in Fields(ToLower(k.q))
  PROVE  /\ Promised(b, word) => matchesAnyWord(word, Words(b))
         /\ matchesAnyWord(word, Words(b)) /\ Bytes(word) = Len(word) => Promised(b, word)
<1>1. word \in Seq(Nat)
  BY QueryAssumption, LowerText, FieldText
<1>2. NearWords[word] = WithinEdits(word, PromisedTypos(word), Characters)
  BY DEF NearWords
<1>3. Promised(b, word) <=>
        \E w \in Words(b) : Includes(w, word) \/ w \in WithinEdits(word, PromisedTypos(word), Characters)
  BY <1>2 DEF Promised, Words
<1>4. /\ Characters \subseteq Nat
      /\ \A w \in Words(b) : w \in Seq(Nat) /\ ToSet(w) \subseteq Characters
  BY CharactersAre
<1> QED
  BY <1>1, <1>3, <1>4, WordFound

LEMMA HitIs ==
  ASSUME NEW k \in Queries, NEW b \in AllBooks
  PROVE  b \in Hits[k] <=>
           /\ passesFieldFilter(b, k.field)
           /\ \A word \in Fields(ToLower(k.q)) : matchesAnyWord(word, Words(b))
<1>1. b \in Hits[k] <=> Matches(b, k)
  BY DEF Hits
<1>2. Match(Haystack(b), k.q) <=>
        \A word \in Fields(ToLower(k.q)) : matchesAnyWord(word, Words(b))
  BY BookWords DEF Match
<1> QED
  BY <1>1, <1>2 DEF Matches, Haystack

\* A search finds every book that has each word typed in it, or one as near to
\* it as package fuzzy promises; and, of the words without letters of two
\* bytes, only those.
THEOREM SearchFinds == Spec => []SearchKeepsPromise
<1>1. TypeOK => SearchKeepsPromise
  <2> SUFFICES ASSUME TypeOK PROVE SearchKeepsPromise
    OBVIOUS
  <2> DEFINE k == shown
             words == Fields(ToLower(k.q))
  <2>1. k \in Queries /\ ToSet(shelf) \subseteq AllBooks
    BY DEF TypeOK, IsLibrary, ToSet
  <2> HIDE DEF k
  <2>2. ASSUME NEW b \in AllBooks
        PROVE  /\ passesFieldFilter(b, k.field) /\ b \in Least[k] => b \in Hits[k]
               /\ b \in Hits[k] => passesFieldFilter(b, k.field) /\ b \in Most[k]
    <3>1. b \in Least[k] <=> \A word \in words : Promised(b, word)
      BY <2>1 DEF Least, Promises
    <3>2. b \in Most[k] <=> \A word \in words : Bytes(word) = Len(word) => Promised(b, word)
      BY <2>1 DEF Most, Promises
    <3>3. b \in Hits[k] <=> /\ passesFieldFilter(b, k.field)
                            /\ \A word \in words : matchesAnyWord(word, Words(b))
      BY <2>1, HitIs
    <3>4. \A word \in words :
            /\ Promised(b, word) => matchesAnyWord(word, Words(b))
            /\ matchesAnyWord(word, Words(b)) /\ Bytes(word) = Len(word) => Promised(b, word)
      BY <2>1, BookFound
    <3> QED
      BY <3>1, <3>2, <3>3, <3>4
  <2> QED
    BY <2>1, <2>2 DEF SearchKeepsPromise, k
<1> QED
  BY <1>1, TypeCorrect, PTL
=============================================================================
