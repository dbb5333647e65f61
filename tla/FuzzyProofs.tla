----------------------------- MODULE FuzzyProofs -----------------------------
(***************************************************************************)
(* What levenshtein computes, for any two words: a distance of n, for n up *)
(* to two, is reached by n edits and no fewer (DistanceCountsEdits).       *)
(*                                                                         *)
(* The rows of levenshtein are a table of the distances between the        *)
(* beginnings of the two words (IsTable), each cell the least of three     *)
(* moves.  An edit of the second word makes a table in which no cell grew  *)
(* by more than one (EditMoves).  In the other direction the cell of the   *)
(* least sum of indices that no edits explain has a neighbour that has its *)
(* edits, and the move between the two is an edit more, or none            *)
(* (WithinFinds).                                                          *)
(***************************************************************************)
EXTENDS Fuzzy, FiniteSetTheorems, TLAPS

-----------------------------------------------------------------------------
(* Numbers and texts *)

LEMMA LeastNumber ==
  ASSUME NEW S, S \subseteq Nat, S # {}
  PROVE  \E n \in S : \A m \in S : n <= m
<1> DEFINE R == {p \in Nat \X Nat : p[1] < p[2]}
<1>1. IsWellFoundedOn(R, Nat)
  BY NatLessThanWellFounded DEF OpToRel
<1> HIDE DEF R
<1>2. PICK n \in S : \A m \in S : <<m, n>> \notin R
  BY <1>1, WFMin
<1>3. \A m \in S : ~(m < n)
  BY <1>2 DEF R
<1> QED
  BY <1>3

LEMMA MinIs ==
  ASSUME NEW S, S \subseteq Nat, S # {}
  PROVE  Min(S) \in S /\ \A m \in S : Min(S) <= m
  BY LeastNumber DEF Min

LEMMA LowerText ==
  ASSUME NEW t \in Seq(Nat)
  PROVE  ToLower(t) \in Seq(Nat)
<1>1. \A c \in Letters : Lower[c] \in Nat
  BY LowerAssumption
<1>2. ToLower(t) \in [1 .. Len(t) -> Nat]
  BY <1>1 DEF ToLower
<1> QED
  BY <1>2

-----------------------------------------------------------------------------
(* The table of distances, and tables that agree *)

\* What one cell of a table of distances is, from those around it.
Cell(x, up, left, diagonal, same) ==
    /\ x \in Nat
    /\ x <= up + 1 /\ x <= left + 1 /\ x <= diagonal + 1
    /\ same => x <= diagonal
    /\ x = up + 1 \/ x = left + 1 \/ (same /\ x = diagonal) \/ (~same /\ x = diagonal + 1)

Numbers(row, b) == \A j \in 0 .. Len(b) : row[j] \in Nat

IsRow(new, prev, c, b) ==
    /\ Numbers(new, b)
    /\ new[0] = prev[0] + 1
    /\ \A j \in 1 .. Len(b) : Cell(new[j], prev[j], new[j - 1], prev[j - 1], c = b[j])

\* The distances between the beginnings of a and those of b.
IsTable(M, a, b) ==
    /\ \A j \in 0 .. Len(b) : M[0][j] = j
    /\ \A i \in 1 .. Len(a) : IsRow(M[i], M[i - 1], a[i], b)

LEMMA CellIs ==
  ASSUME NEW up \in Nat, NEW left \in Nat, NEW diagonal \in Nat, NEW same \in BOOLEAN
  PROVE  Cell(Min({up + 1, left + 1, diagonal + IF same THEN 0 ELSE 1}), up, left, diagonal, same)
<1> DEFINE S == {up + 1, left + 1, diagonal + IF same THEN 0 ELSE 1}
           x == Min(S)
<1>1. S \subseteq Nat /\ S # {}
  OBVIOUS
<1>2. x \in S /\ \A m \in S : x <= m
  BY <1>1, MinIs
<1> SUFFICES Cell(x, up, left, diagonal, same)
  OBVIOUS
<1> HIDE DEF x
<1> QED
  BY <1>2 DEF Cell

LEMMA NextRowIs ==
  ASSUME NEW b \in Seq(Nat), NEW prev, Numbers(prev, b), NEW c
  PROVE  IsRow(NextRow(prev, c, b), prev, c, b)
<1>1. \A j \in 0 .. Len(b) : prev[j] \in Nat
  BY DEF Numbers
<1> DEFINE l == Len(b)
           Cost(j) == IF c = b[j] THEN 0 ELSE 1
           Fill(f, k) == f = [j \in 0 .. k |->
               IF j = 0 THEN prev[0] + 1
               ELSE Min({prev[j] + 1, f[j - 1] + 1, prev[j - 1] + Cost(j)})]
<1>2. l \in Nat
  OBVIOUS
<1>3. \A k \in Nat : \E f : Fill(f, k)
  <2> DEFINE S == {k \in Nat : ~ \E f : Fill(f, k)}
  <2> SUFFICES ASSUME S # {} PROVE FALSE
    OBVIOUS
  <2>1. PICK k \in S : \A m \in S : k <= m
    BY LeastNumber
  <2> HIDE DEF Fill
  <2>2. k \in Nat /\ ~ \E f : Fill(f, k)
    BY <2>1
  <2>3. CASE k = 0
    <3>1. Fill([j \in 0 .. 0 |-> prev[0] + 1], 0)
      BY DEF Fill
    <3> QED
      BY <3>1, <2>2, <2>3
  <2>4. CASE k # 0
    <3> DEFINE m == k - 1
    <3>1. m \in Nat /\ m < k /\ k = m + 1
      BY <2>2, <2>4
    <3>2. PICK f : Fill(f, m)
      BY <2>1, <3>1
    <3> HIDE DEF m
    <3> DEFINE last == Min({prev[k] + 1, f[m] + 1, prev[m] + Cost(k)})
               g == [j \in 0 .. k |-> IF j = k THEN last ELSE f[j]]
    <3>3. \A j \in 0 .. k : g[j] = IF j = 0 THEN prev[0] + 1
               ELSE Min({prev[j] + 1, g[j - 1] + 1, prev[j - 1] + Cost(j)})
      <4>1. f = [j \in 0 .. m |-> IF j = 0 THEN prev[0] + 1
               ELSE Min({prev[j] + 1, f[j - 1] + 1, prev[j - 1] + Cost(j)})]
        BY <3>2 DEF Fill
      <4> TAKE j \in 0 .. k
      <4> HIDE DEF Cost
      <4>2. CASE j = k
        <5>1. g[j] = last /\ g[j - 1] = f[m] /\ j - 1 = m /\ j # 0
          BY <3>1, <4>2
        <5> QED
          BY <4>2, <5>1
      <4>3. CASE j = 0
        BY <3>1, <4>1, <4>3
      <4>4. CASE j # k /\ j # 0
        <5>1. j \in 0 .. m /\ j - 1 \in 0 .. m /\ g[j] = f[j] /\ g[j - 1] = f[j - 1]
          BY <3>1, <4>4
        <5> QED
          BY <4>1, <4>4, <5>1
      <4> QED
        BY <4>2, <4>3, <4>4
    <3>4. Fill(g, k)
      BY <3>3 DEF Fill
    <3> QED
      BY <2>2, <3>4
  <2> QED
    BY <2>3, <2>4
<1> DEFINE new == NextRow(prev, c, b)
<1>4. new = CHOOSE f : Fill(f, l)
  BY DEF NextRow
<1>5. Fill(new, l)
  BY <1>2, <1>3, <1>4
<1> HIDE DEF new
<1>6. /\ new[0] = prev[0] + 1
      /\ \A j \in 1 .. l : new[j] = Min({prev[j] + 1, new[j - 1] + 1, prev[j - 1] + Cost(j)})
  <2> HIDE DEF Cost
  <2>1. \A j \in 0 .. l : new[j] = IF j = 0 THEN prev[0] + 1
               ELSE Min({prev[j] + 1, new[j - 1] + 1, prev[j - 1] + Cost(j)})
    BY <1>5, Zenon
  <2>2. 0 \in 0 .. l /\ \A j \in 1 .. l : j \in 0 .. l /\ j # 0
    BY <1>2
  <2> QED
    BY <2>1, <2>2
<1> HIDE DEF Fill
<1>7. \A j \in 0 .. l : new[j] \in Nat
  <2> DEFINE S == {j \in 0 .. l : new[j] \notin Nat}
  <2> SUFFICES ASSUME S # {} PROVE FALSE
    OBVIOUS
  <2>1. S \subseteq Nat
    BY <1>2
  <2>2. PICK j \in S : \A m \in S : j <= m
    BY <2>1, LeastNumber
  <2>3. j \in 1 .. l /\ j - 1 \in 0 .. l /\ j - 1 < j
    <3>1. new[0] \in Nat
      BY <1>1, <1>2, <1>6
    <3> QED
      BY <1>2, <2>2, <3>1
  <2>4. new[j - 1] \in Nat
    BY <2>2, <2>3
  <2>5. Cell(new[j], prev[j], new[j - 1], prev[j - 1], c = b[j])
    <3>1. prev[j] \in Nat /\ prev[j - 1] \in Nat
      BY <1>1, <1>2, <2>3
    <3> QED
      BY <1>6, <2>3, <2>4, <3>1, CellIs, ZenonT(60)
  <2> QED
    BY <2>2, <2>5 DEF Cell
<1>8. ASSUME NEW j \in 1 .. l PROVE Cell(new[j], prev[j], new[j - 1], prev[j - 1], c = b[j])
  <2>1. j \in 0 .. l /\ j - 1 \in 0 .. l
    BY <1>2
  <2>2. prev[j] \in Nat /\ prev[j - 1] \in Nat /\ new[j - 1] \in Nat
    BY <1>1, <1>7, <2>1
  <2> QED
    BY <1>6, <2>2, CellIs, ZenonT(60)
<1> QED
  BY <1>6, <1>7, <1>8 DEF IsRow, Numbers, new

LEMMA TableIs ==
  ASSUME NEW a \in Seq(Nat), NEW b \in Seq(Nat)
  PROVE  \E M : IsTable(M, a, b) /\ levenshtein(a, b) = M[Len(a)][Len(b)]
<1> DEFINE n == Len(a)
           first == [j \in 0 .. Len(b) |-> j]
           Fill(f, k) == f = [i \in 0 .. k |-> IF i = 0 THEN first ELSE NextRow(f[i - 1], a[i], b)]
<1>1. n \in Nat
  OBVIOUS
<1>2. \A k \in Nat : \E f : Fill(f, k)
  <2> DEFINE S == {k \in Nat : ~ \E f : Fill(f, k)}
  <2> SUFFICES ASSUME S # {} PROVE FALSE
    OBVIOUS
  <2>1. PICK k \in S : \A m \in S : k <= m
    BY LeastNumber
  <2> HIDE DEF Fill
  <2>2. k \in Nat /\ ~ \E f : Fill(f, k)
    BY <2>1
  <2>3. CASE k = 0
    <3>1. Fill([i \in 0 .. 0 |-> first], 0)
      BY DEF Fill
    <3> QED
      BY <3>1, <2>2, <2>3
  <2>4. CASE k # 0
    <3> DEFINE m == k - 1
    <3>1. m \in Nat /\ m < k /\ k = m + 1
      BY <2>2, <2>4
    <3>2. PICK f : Fill(f, m)
      <4>1. m \notin S
        <5> HIDE DEF S, m
        <5> QED
          BY <2>1, <2>2, <3>1
      <4> QED
        BY <3>1, <4>1
    <3> HIDE DEF m
    <3> DEFINE g == [i \in 0 .. k |-> IF i = k THEN NextRow(f[m], a[k], b) ELSE f[i]]
    <3>3. \A i \in 0 .. k : g[i] = IF i = 0 THEN first ELSE NextRow(g[i - 1], a[i], b)
      <4>1. f = [i \in 0 .. m |-> IF i = 0 THEN first ELSE NextRow(f[i - 1], a[i], b)]
        BY <3>2 DEF Fill
      <4> TAKE i \in 0 .. k
      <4> HIDE DEF first
      <4>2. CASE i = k
        <5>1. g[i] = NextRow(f[m], a[k], b) /\ g[i - 1] = f[m] /\ i # 0
          BY <3>1, <4>2
        <5> QED
          BY <4>2, <5>1
      <4>3. CASE i = 0
        BY <3>1, <4>1, <4>3
      <4>4. CASE i # k /\ i # 0
        <5>1. i \in 0 .. m /\ i - 1 \in 0 .. m /\ g[i] = f[i] /\ g[i - 1] = f[i - 1]
          BY <3>1, <4>4
        <5> QED
          BY <4>1, <4>4, <5>1
      <4> QED
        BY <4>2, <4>3, <4>4
    <3>4. Fill(g, k)
      BY <3>3 DEF Fill
    <3> QED
      BY <2>2, <3>4
  <2> QED
    BY <2>3, <2>4
<1> DEFINE M == CHOOSE f : Fill(f, n)
<1>3. levenshtein(a, b) = M[Len(a)][Len(b)]
  BY DEF levenshtein
<1>4. Fill(M, n)
  BY <1>1, <1>2
<1> HIDE DEF M
<1>5. /\ M[0] = first
      /\ \A i \in 1 .. n : M[i] = NextRow(M[i - 1], a[i], b)
  <2> HIDE DEF first
  <2>1. \A i \in 0 .. n : M[i] = IF i = 0 THEN first ELSE NextRow(M[i - 1], a[i], b)
    BY <1>4, Zenon
  <2>2. 0 \in 0 .. n /\ \A i \in 1 .. n : i \in 0 .. n /\ i # 0
    BY <1>1
  <2> QED
    BY <2>1, <2>2
<1> HIDE DEF Fill
<1>6. \A i \in 0 .. n : Numbers(M[i], b)
  <2> DEFINE S == {i \in 0 .. n : ~Numbers(M[i], b)}
  <2> SUFFICES ASSUME S # {} PROVE FALSE
    OBVIOUS
  <2>1. S \subseteq Nat
    BY <1>1
  <2>2. PICK i \in S : \A m \in S : i <= m
    BY <2>1, LeastNumber
  <2>3. i \in 1 .. n /\ i - 1 \in 0 .. n /\ i - 1 < i
    <3>1. Numbers(first, b)
      BY DEF Numbers
    <3> QED
      BY <1>1, <1>5, <2>2, <3>1
  <2>4. Numbers(M[i - 1], b)
    BY <2>2, <2>3
  <2>5. IsRow(NextRow(M[i - 1], a[i], b), M[i - 1], a[i], b)
    BY <2>4, NextRowIs
  <2> QED
    BY <1>5, <2>2, <2>3, <2>5 DEF IsRow
<1>7. ASSUME NEW i \in 1 .. n PROVE IsRow(M[i], M[i - 1], a[i], b)
  <2>1. i - 1 \in 0 .. n
    BY <1>1
  <2>2. IsRow(NextRow(M[i - 1], a[i], b), M[i - 1], a[i], b)
    BY <1>6, <2>1, NextRowIs
  <2> QED
    BY <1>5, <2>2
<1>8. \A j \in 0 .. Len(b) : M[0][j] = j
  BY <1>5
<1> QED
  BY <1>3, <1>7, <1>8 DEF IsTable

\* What the proofs below use of a table.
LEMMA TableCells ==
  ASSUME NEW a \in Seq(Nat), NEW b \in Seq(Nat), NEW M, IsTable(M, a, b)
  PROVE  /\ \A i \in 0 .. Len(a) : \A j \in 0 .. Len(b) : M[i][j] \in Nat
         /\ \A j \in 0 .. Len(b) : M[0][j] = j
         /\ \A i \in 1 .. Len(a) : M[i][0] = M[i - 1][0] + 1
         /\ \A i \in 1 .. Len(a) : \A j \in 1 .. Len(b) :
               Cell(M[i][j], M[i - 1][j], M[i][j - 1], M[i - 1][j - 1], a[i] = b[j])
<1>1. \A i \in 0 .. Len(a) : i = 0 \/ i \in 1 .. Len(a)
  OBVIOUS
<1>2. \A i \in 1 .. Len(a) : IsRow(M[i], M[i - 1], a[i], b)
  BY DEF IsTable
<1>3. \A j \in 0 .. Len(b) : M[0][j] = j /\ j \in Nat
  BY DEF IsTable
<1> QED
  BY <1>1, <1>2, <1>3 DEF IsRow, Numbers

LEMMA StepRight ==
  ASSUME NEW a \in Seq(Nat), NEW b \in Seq(Nat), NEW M, IsTable(M, a, b),
         NEW i \in 0 .. Len(a), NEW j \in Nat, j + 1 \in 1 .. Len(b)
  PROVE  M[i][j + 1] <= M[i][j] + 1
<1>1. CASE i = 0
  <2>1. j \in 0 .. Len(b) /\ j + 1 \in 0 .. Len(b)
    OBVIOUS
  <2> QED
    BY <1>1, <2>1, TableCells
<1>2. CASE i # 0
  <2> DEFINE k == j + 1
  <2>1. i \in 1 .. Len(a) /\ k \in 1 .. Len(b) /\ k - 1 = j
    BY <1>2
  <2> HIDE DEF k
  <2>2. Cell(M[i][k], M[i - 1][k], M[i][k - 1], M[i - 1][k - 1], a[i] = b[k])
    BY <2>1, TableCells
  <2> QED
    BY <2>1, <2>2 DEF Cell, k
<1> QED
  BY <1>1, <1>2

\* Neighbours in a row differ by one at most.
LEMMA RowSteps ==
  ASSUME NEW a \in Seq(Nat), NEW b \in Seq(Nat), NEW M, IsTable(M, a, b),
         NEW j \in 1 .. Len(b), NEW n \in 0 .. Len(a)
  PROVE  M[n][j - 1] <= M[n][j] + 1
<1>1. Len(a) \in Nat /\ Len(b) \in Nat /\ j \in 0 .. Len(b) /\ j - 1 \in 0 .. Len(b) /\ j \in Nat
  OBVIOUS
<1> DEFINE S == {i \in 0 .. Len(a) : ~(M[i][j - 1] <= M[i][j] + 1)}
<1> SUFFICES ASSUME S # {} PROVE FALSE
  OBVIOUS
<1>2. S \subseteq Nat
  BY <1>1
<1>3. PICK i \in S : \A m \in S : i <= m
  BY <1>2, LeastNumber
<1>4. i # 0
  <2>1. M[0][j] = j /\ M[0][j - 1] = j - 1
    BY <1>1, TableCells, SMTT(60)
  <2> QED
    BY <1>1, <1>3, <2>1
<1>5. i \in 1 .. Len(a) /\ i \in 0 .. Len(a) /\ i - 1 \in 0 .. Len(a) /\ i - 1 < i
  BY <1>1, <1>3, <1>4, SMTT(60)
<1> DEFINE u == M[i - 1][j]
           v == M[i - 1][j - 1]
           x == M[i][j]
           y == M[i][j - 1]
<1>6. u \in Nat /\ v \in Nat /\ x \in Nat /\ y \in Nat
  BY <1>1, <1>5, TableCells
<1>7. Cell(x, u, y, v, a[i] = b[j])
  BY <1>5, TableCells
<1>8. v <= u + 1
  <2>1. i - 1 \notin S
    BY <1>3, <1>5
  <2> QED
    BY <1>5, <2>1
<1>9. y <= v + 1
  <2>1. CASE j = 1
    <3>1. j - 1 = 0
      BY <2>1
    <3>2. y = v + 1
      BY <1>5, <3>1, TableCells, SMTT(60)
    <3> QED
      BY <1>6, <3>2
  <2>2. CASE j # 1
    <3>1. j - 1 \in 1 .. Len(b)
      BY <1>1, <2>2
    <3>2. Cell(y, v, M[i][j - 1 - 1], M[i - 1][j - 1 - 1], a[i] = b[j - 1])
      BY <1>5, <3>1, TableCells
    <3> QED
      BY <3>2 DEF Cell
  <2> QED
    BY <2>1, <2>2
<1>10. ~(y <= x + 1)
  BY <1>3
<1> HIDE DEF u, v, x, y
<1> QED
  BY <1>6, <1>7, <1>8, <1>9, <1>10 DEF Cell

\* From u in b and from v in e on, the next K characters are the same.
Agree(b, u, e, v, K) ==
    /\ u \in Nat /\ v \in Nat /\ K \in Nat
    /\ u + K <= Len(b) /\ v + K <= Len(e)
    /\ \A k \in 1 .. K : b[u + k] = e[v + k]

\* In every row of O, column v is at most d more than column u of M.
Within(O, v, M, u, d, a) == \A i \in 0 .. Len(a) : O[i][v] <= M[i][u] + d

LEMMA Places ==
  ASSUME NEW u \in Nat, NEW K \in Nat, NEW l \in Nat, u + K <= l, NEW k \in 1 .. K
  PROVE  /\ u + k \in 1 .. l /\ u + k \in 0 .. l /\ u + k - 1 \in 0 .. l
         /\ (u + k) - 1 = u + k - 1 /\ k - 1 \in 0 .. K /\ k \in Nat
  OBVIOUS

\* ... and remains so as long as the two words agree.
LEMMA Carry ==
  ASSUME NEW a \in Seq(Nat), NEW b \in Seq(Nat), NEW e \in Seq(Nat),
         NEW M, IsTable(M, a, b), NEW O, IsTable(O, a, e),
         NEW u, NEW v, NEW K, Agree(b, u, e, v, K),
         NEW d \in Nat, Within(O, v, M, u, d, a)
  PROVE  \A k \in 0 .. K : Within(O, v + k, M, u + k, d, a)
<1> DEFINE Good(i, k) == O[i][v + k] <= M[i][u + k] + d
           S == {s \in Nat : \E i \in 0 .. Len(a), k \in 0 .. K : i + k = s /\ ~Good(i, k)}
<1>1. /\ u \in Nat /\ v \in Nat /\ K \in Nat /\ Len(a) \in Nat
      /\ u + K <= Len(b) /\ v + K <= Len(e)
      /\ Len(b) \in Nat /\ Len(e) \in Nat
      /\ \A k \in 1 .. K : b[u + k] = e[v + k]
  BY DEF Agree
<1>2. SUFFICES ASSUME S # {} PROVE FALSE
  <2>1. \A i \in 0 .. Len(a) : \A k \in 0 .. K : Good(i, k)
    <3>1. \A i \in 0 .. Len(a) : \A k \in 0 .. K : i + k \in Nat
      BY <1>1
    <3> HIDE DEF Good
    <3> QED
      BY <1>2, <3>1
  <2> QED
    BY <2>1 DEF Within
<1>3. PICK s \in S : \A m \in S : s <= m
  BY <1>2, LeastNumber
<1>4. PICK i \in 0 .. Len(a), k \in 0 .. K : i + k = s /\ ~Good(i, k)
  BY <1>3
<1>5. \A h \in 0 .. Len(a) : \A l \in 0 .. K : h + l < i + k => Good(h, l)
  <2> HIDE DEF Good
  <2>1. \A h \in 0 .. Len(a) : \A l \in 0 .. K : h + l \in Nat
    BY <1>1
  <2>2. s \in Nat /\ \A m \in Nat : m < s => m \notin S
    <3>1. S \subseteq Nat
      OBVIOUS
    <3> HIDE DEF S
    <3> QED
      BY <1>3, <3>1
  <2> QED
    BY <1>4, <2>1, <2>2
<1>6. k # 0
  BY <1>1, <1>4, SMTT(60) DEF Within
<1>7. i # 0
  <2>1. \A h \in 0 .. K : O[0][v + h] = v + h /\ M[0][u + h] = u + h
    <3>1. \A h \in 0 .. K : v + h \in 0 .. Len(e) /\ u + h \in 0 .. Len(b)
      <4> DEFINE m == Len(b)
                 n == Len(e)
      <4>1. /\ u \in Nat /\ v \in Nat /\ K \in Nat /\ m \in Nat /\ n \in Nat
            /\ u + K <= m /\ v + K <= n
        BY <1>1
      <4> HIDE DEF m, n
      <4>2. \A h \in 0 .. K : v + h \in 0 .. n /\ u + h \in 0 .. m
        BY <4>1
      <4> QED
        BY <4>2 DEF m, n
    <3> QED
      BY <3>1, TableCells, SMTT(60)
  <2>2. 0 \in 0 .. Len(a) /\ 0 \in 0 .. K
    BY <1>1
  <2>3. O[0][v] <= M[0][u] + d
    BY <2>2 DEF Within
  <2>4. O[0][v] = v /\ M[0][u] = u
    BY <1>1, TableCells, SMTT(60)
  <2>5. v <= u + d
    BY <2>3, <2>4
  <2>6. Good(0, k)
    <3>1. O[0][v + k] = v + k /\ M[0][u + k] = u + k /\ k \in Nat
      BY <1>1, <2>1
    <3>2. v + k <= u + k + d
      BY <1>1, <2>5, <3>1
    <3> QED
      BY <3>1, <3>2
  <2> HIDE DEF Good
  <2> QED
    BY <1>4, <2>6
<1>8. /\ i \in 1 .. Len(a) /\ i - 1 \in 0 .. Len(a) /\ i \in Nat
      /\ k \in 1 .. K
  <2> DEFINE l == Len(a)
  <2> HIDE DEF l
  <2>1. i \in 0 .. l /\ l \in Nat
    BY <1>1 DEF l
  <2>2. i \in 1 .. l /\ i - 1 \in 0 .. l /\ i \in Nat
    BY <1>7, <2>1
  <2> QED
    BY <1>1, <1>6, <2>2 DEF l
<1>9. /\ u + k \in 1 .. Len(b) /\ u + k \in 0 .. Len(b) /\ u + k - 1 \in 0 .. Len(b)
      /\ (u + k) - 1 = u + k - 1 /\ k - 1 \in 0 .. K /\ k \in Nat
  BY <1>1, <1>8, Places
<1>10. /\ v + k \in 1 .. Len(e) /\ v + k \in 0 .. Len(e) /\ v + k - 1 \in 0 .. Len(e)
      /\ (v + k) - 1 = v + k - 1
  <2>1. v \in Nat /\ K \in Nat /\ Len(e) \in Nat /\ v + K <= Len(e)
    BY <1>1
  <2> QED
    BY <1>8, <2>1, Places, SMTT(60)
<1> DEFINE p == M[i][u + k]
           q == M[i - 1][u + k]
           r == M[i][u + k - 1]
           t == M[i - 1][u + k - 1]
           P == O[i][v + k]
           Q == O[i - 1][v + k]
           R == O[i][v + k - 1]
           T == O[i - 1][v + k - 1]
<1>11. Cell(p, q, r, t, a[i] = b[u + k]) /\ Cell(P, Q, R, T, a[i] = e[v + k])
  <2>1. \A j \in 1 .. Len(b) : Cell(M[i][j], M[i - 1][j], M[i][j - 1], M[i - 1][j - 1], a[i] = b[j])
    BY <1>8, TableCells
  <2>2. \A j \in 1 .. Len(e) : Cell(O[i][j], O[i - 1][j], O[i][j - 1], O[i - 1][j - 1], a[i] = e[j])
    BY <1>8, TableCells
  <2>3. u + k \in 1 .. Len(b) /\ v + k \in 1 .. Len(e)
    BY <1>9, <1>10
  <2>4. Cell(p, q, r, t, a[i] = b[u + k])
    <3> DEFINE j == u + k
    <3>1. j \in 1 .. Len(b)
      BY <2>3
    <3> HIDE DEF j
    <3>2. Cell(M[i][j], M[i - 1][j], M[i][j - 1], M[i - 1][j - 1], a[i] = b[j])
      BY <2>1, <3>1
    <3> QED
      BY <1>9, <3>2 DEF j
  <2>5. Cell(P, Q, R, T, a[i] = e[v + k])
    <3> DEFINE j == v + k
    <3>1. j \in 1 .. Len(e)
      BY <2>3
    <3> HIDE DEF j
    <3>2. Cell(O[i][j], O[i - 1][j], O[i][j - 1], O[i - 1][j - 1], a[i] = e[j])
      BY <2>2, <3>1
    <3> QED
      BY <1>10, <3>2 DEF j
  <2> QED
    BY <2>4, <2>5
<1>12. Q <= q + d /\ R <= r + d /\ T <= t + d
  <2>1. Good(i - 1, k) /\ Good(i, k - 1) /\ Good(i - 1, k - 1)
    <3>1. i - 1 + k < i + k /\ i + (k - 1) < i + k /\ i - 1 + (k - 1) < i + k
      BY <1>8, <1>9
    <3> HIDE DEF Good
    <3> QED
      BY <1>5, <1>8, <1>9, <3>1
  <2> QED
    BY <1>9, <1>10, <2>1
<1>13. ~(P <= p + d)
  BY <1>4
<1>14. b[u + k] = e[v + k]
  BY <1>1, <1>8
<1>15. /\ p \in Nat /\ q \in Nat /\ r \in Nat /\ t \in Nat
       /\ P \in Nat /\ Q \in Nat /\ R \in Nat /\ T \in Nat
  BY <1>8, <1>9, <1>10, TableCells, ZenonT(60)
<1> HIDE DEF p, q, r, t, P, Q, R, T
<1> QED
  BY <1>11, <1>12, <1>13, <1>14, <1>15 DEF Cell

\* The first p characters of e are those of b.
LEMMA SameStart ==
  ASSUME NEW a \in Seq(Nat), NEW b \in Seq(Nat), NEW e \in Seq(Nat),
         NEW M, IsTable(M, a, b), NEW O, IsTable(O, a, e),
         NEW p, Agree(b, 0, e, 0, p)
  PROVE  Within(O, p, M, p, 0, a)
<1>1. Within(O, 0, M, 0, 0, a)
  <2> DEFINE S == {i \in 0 .. Len(a) : ~(O[i][0] = M[i][0])}
  <2>1. SUFFICES ASSUME S # {} PROVE FALSE
    <3>1. \A i \in 0 .. Len(a) : M[i][0] \in Nat
      BY TableCells
    <3> QED
      BY <2>1, <3>1 DEF Within
  <2>2. S \subseteq Nat
    OBVIOUS
  <2>3. PICK i \in S : \A m \in S : i <= m
    BY <2>1, <2>2, LeastNumber
  <2>4. i # 0
    <3>1. O[0][0] = 0 /\ M[0][0] = 0
      <4>1. 0 \in 0 .. Len(b) /\ 0 \in 0 .. Len(e)
        OBVIOUS
      <4> QED
        BY <4>1, TableCells
    <3>2. O[i][0] # M[i][0]
      BY <2>3
    <3> QED
      BY <3>1, <3>2
  <2>5. i \in 1 .. Len(a) /\ i - 1 \in 0 .. Len(a) /\ i - 1 < i
    BY <2>3, <2>4
  <2>6. O[i - 1][0] = M[i - 1][0]
    <3>1. i - 1 \notin S
      BY <2>3, <2>5
    <3> QED
      BY <2>5, <3>1
  <2>7. O[i][0] = M[i][0]
    BY <2>5, <2>6, TableCells
  <2> QED
    BY <2>3, <2>7
<1>2. p \in Nat /\ p \in 0 .. p /\ 0 + p = p
  BY DEF Agree
<1>3. Within(O, 0 + p, M, 0 + p, 0, a)
  BY <1>1, <1>2, Carry
<1> QED
  BY <1>2, <1>3

\* Putting a character in changes no distance by more than one.
LEMMA InsertMoves ==
  ASSUME NEW a \in Seq(Nat), NEW b \in Seq(Nat), NEW e \in Seq(Nat),
         NEW M, IsTable(M, a, b), NEW O, IsTable(O, a, e),
         NEW p, NEW K, Agree(b, 0, e, 0, p), Agree(b, p, e, p + 1, K),
         Len(b) = p + K, Len(e) = p + 1 + K
  PROVE  O[Len(a)][Len(e)] <= M[Len(a)][Len(b)] + 1
<1>1. p \in Nat /\ K \in Nat /\ Len(a) \in Nat /\ p \in 0 .. Len(b) /\ p + 1 \in 1 .. Len(e) /\ p + 1 \in 0 .. Len(e)
      /\ p \in 0 .. Len(e)
  BY DEF Agree
<1>2. Within(O, p, M, p, 0, a)
  BY SameStart
<1>3. Within(O, p + 1, M, p, 1, a)
  <2> SUFFICES ASSUME NEW i \in 0 .. Len(a) PROVE O[i][p + 1] <= M[i][p] + 1
    BY DEF Within
  <2>1. O[i][p] <= M[i][p] + 0 /\ M[i][p] \in Nat /\ O[i][p] \in Nat /\ O[i][p + 1] \in Nat
    BY <1>1, <1>2, TableCells DEF Within
  <2>2. O[i][p + 1] <= O[i][p] + 1
    BY <1>1, StepRight
  <2> QED
    BY <2>1, <2>2, SMTT(60)
<1>4. Within(O, p + 1 + K, M, p + K, 1, a)
  <2>1. \A k \in 0 .. K : Within(O, p + 1 + k, M, p + k, 1, a)
    BY <1>1, <1>3, Carry
  <2>2. K \in 0 .. K
    BY <1>1
  <2> QED
    BY <2>1, <2>2, Zenon
<1>5. Len(a) \in 0 .. Len(a)
  BY <1>1
<1> QED
  BY <1>4, <1>5 DEF Within

\* Neither does leaving one out, ...
LEMMA DeleteMoves ==
  ASSUME NEW a \in Seq(Nat), NEW b \in Seq(Nat), NEW e \in Seq(Nat),
         NEW M, IsTable(M, a, b), NEW O, IsTable(O, a, e),
         NEW p, NEW K, Agree(b, 0, e, 0, p), Agree(b, p + 1, e, p, K),
         Len(b) = p + 1 + K, Len(e) = p + K
  PROVE  O[Len(a)][Len(e)] <= M[Len(a)][Len(b)] + 1
<1>1. p \in Nat /\ K \in Nat /\ Len(a) \in Nat /\ p \in 0 .. Len(e) /\ p + 1 \in 1 .. Len(b) /\ p + 1 \in 0 .. Len(b)
      /\ p \in 0 .. Len(b) /\ (p + 1) - 1 = p
  BY DEF Agree
<1>2. Within(O, p, M, p, 0, a)
  BY SameStart
<1>3. Within(O, p, M, p + 1, 1, a)
  <2> SUFFICES ASSUME NEW i \in 0 .. Len(a) PROVE O[i][p] <= M[i][p + 1] + 1
    BY DEF Within
  <2>1. O[i][p] <= M[i][p] + 0 /\ M[i][p] \in Nat /\ O[i][p] \in Nat /\ M[i][p + 1] \in Nat
    BY <1>1, <1>2, TableCells DEF Within
  <2>2. M[i][p] <= M[i][p + 1] + 1
    <3> DEFINE j == p + 1
    <3>1. j \in 1 .. Len(b) /\ j - 1 = p
      BY <1>1
    <3> HIDE DEF j
    <3>2. M[i][j - 1] <= M[i][j] + 1
      BY <3>1, RowSteps
    <3> QED
      BY <3>1, <3>2 DEF j
  <2> QED
    BY <2>1, <2>2
<1>4. Within(O, p + K, M, p + 1 + K, 1, a)
  <2>1. \A k \in 0 .. K : Within(O, p + k, M, p + 1 + k, 1, a)
    BY <1>1, <1>3, Carry
  <2>2. K \in 0 .. K
    BY <1>1
  <2> QED
    BY <2>1, <2>2, Zenon
<1>5. Len(a) \in 0 .. Len(a)
  BY <1>1
<1> QED
  BY <1>4, <1>5 DEF Within

\* ... nor replacing one.
LEMMA ReplaceMoves ==
  ASSUME NEW a \in Seq(Nat), NEW b \in Seq(Nat), NEW e \in Seq(Nat),
         NEW M, IsTable(M, a, b), NEW O, IsTable(O, a, e),
         NEW p, NEW K, Agree(b, 0, e, 0, p), Agree(b, p + 1, e, p + 1, K),
         Len(b) = p + 1 + K, Len(e) = p + 1 + K
  PROVE  O[Len(a)][Len(e)] <= M[Len(a)][Len(b)] + 1
<1>1. p \in Nat /\ K \in Nat /\ Len(a) \in Nat /\ p \in 0 .. Len(e) /\ p \in 0 .. Len(b)
      /\ p + 1 \in 1 .. Len(b) /\ p + 1 \in 0 .. Len(b) /\ p + 1 \in 1 .. Len(e) /\ p + 1 \in 0 .. Len(e)
      /\ (p + 1) - 1 = p
  BY DEF Agree
<1>2. Within(O, p, M, p, 0, a)
  BY SameStart
<1>3. Within(O, p + 1, M, p + 1, 1, a)
  <2> DEFINE S == {i \in 0 .. Len(a) : ~(O[i][p + 1] <= M[i][p + 1] + 1)}
  <2>1. SUFFICES ASSUME S # {} PROVE FALSE
    BY <2>1 DEF Within
  <2>2. S \subseteq Nat
    OBVIOUS
  <2>3. PICK i \in S : \A m \in S : i <= m
    BY <2>1, <2>2, LeastNumber
  <2>4. i # 0
    <3>1. O[0][p + 1] = p + 1 /\ M[0][p + 1] = p + 1
      BY <1>1, TableCells, SMTT(60)
    <3> QED
      BY <1>1, <2>3, <3>1
  <2>5. i \in 1 .. Len(a) /\ i - 1 \in 0 .. Len(a) /\ i - 1 < i /\ i \in 0 .. Len(a)
    <3>1. i \in 0 .. Len(a)
      OBVIOUS
    <3> QED
      BY <2>4, <3>1
  <2> DEFINE x == M[i][p + 1]   up == M[i - 1][p + 1]   left == M[i][p]   diag == M[i - 1][p]
             X == O[i][p + 1]   Up == O[i - 1][p + 1]   Left == O[i][p]   Diag == O[i - 1][p]
  <2>6. Up <= up + 1
    <3>1. i - 1 \notin S
      BY <2>3, <2>5
    <3> QED
      BY <2>5, <3>1
  <2>7. Left <= left + 0 /\ Diag <= diag + 0
    BY <1>2, <2>5 DEF Within
  <2>8. /\ x \in Nat /\ up \in Nat /\ left \in Nat /\ diag \in Nat
        /\ X \in Nat /\ Up \in Nat /\ Left \in Nat /\ Diag \in Nat
    BY <1>1, <2>5, TableCells, ZenonT(60)
  <2>9. Cell(x, up, left, diag, a[i] = b[p + 1]) /\ Cell(X, Up, Left, Diag, a[i] = e[p + 1])
    <3> DEFINE j == p + 1
    <3>1. j \in 1 .. Len(b) /\ j \in 1 .. Len(e) /\ j - 1 = p
      BY <1>1
    <3> HIDE DEF j
    <3>2. Cell(M[i][j], M[i - 1][j], M[i][j - 1], M[i - 1][j - 1], a[i] = b[j])
      BY <2>5, <3>1, TableCells
    <3>3. Cell(O[i][j], O[i - 1][j], O[i][j - 1], O[i - 1][j - 1], a[i] = e[j])
      BY <2>5, <3>1, TableCells
    <3> QED
      BY <3>1, <3>2, <3>3 DEF j
  <2>10. ~(X <= x + 1)
    BY <2>3
  <2> HIDE DEF x, up, left, diag, X, Up, Left, Diag
  <2> QED
    BY <2>6, <2>7, <2>8, <2>9, <2>10 DEF Cell
<1>4. Within(O, p + 1 + K, M, p + 1 + K, 1, a)
  <2>1. \A k \in 0 .. K : Within(O, p + 1 + k, M, p + 1 + k, 1, a)
    BY <1>1, <1>3, Carry
  <2>2. K \in 0 .. K
    BY <1>1
  <2> QED
    BY <2>1, <2>2, Zenon
<1>5. Len(a) \in 0 .. Len(a)
  BY <1>1
<1> QED
  BY <1>4, <1>5 DEF Within

-----------------------------------------------------------------------------
(* Edits *)

LEMMA PieceIs ==
  ASSUME NEW w \in Seq(Nat), NEW m \in Nat, NEW n \in Nat, 1 <= m, m <= n + 1, n <= Len(w)
  PROVE  /\ SubSeq(w, m, n) \in Seq(Nat) /\ Len(SubSeq(w, m, n)) = n + 1 - m
         /\ \A k \in 1 .. n + 1 - m : SubSeq(w, m, n)[k] = w[m - 1 + k]
<1>1. SubSeq(w, m, n) = [k \in 1 .. n + 1 - m |-> w[m - 1 + k]]
  OBVIOUS
<1>2. \A k \in 1 .. n + 1 - m : m - 1 + k \in 1 .. Len(w)
  OBVIOUS
<1> QED
  BY <1>1, <1>2

LEMMA JoinIs ==
  ASSUME NEW s \in Seq(Nat), NEW t \in Seq(Nat)
  PROVE  /\ s \o t \in Seq(Nat) /\ Len(s \o t) = Len(s) + Len(t)
         /\ \A k \in 1 .. Len(s) : (s \o t)[k] = s[k]
         /\ \A k \in 1 .. Len(t) : (s \o t)[Len(s) + k] = t[k]
  OBVIOUS

\* The word w with d of its characters, those after the p-th, replaced by m.
Spliced(w, p, d, m) == SubSeq(w, 1, p) \o m \o SubSeq(w, p + d + 1, Len(w))

\* K characters of w are left after the p-th and the d that follow it, ...
Leaves(w, p, d, K) == p \in Nat /\ d \in Nat /\ K \in Nat /\ Len(w) = p + d + K

\* ... and y is what comes of putting m in the place of the d.
IsSpliced(y, w, p, d, m, K) ==
    /\ y \in Seq(Nat) /\ m \in Seq(Nat)
    /\ Leaves(w, p, d, K) /\ Leaves(y, p, Len(m), K)
    /\ Agree(w, 0, y, 0, p) /\ Agree(w, p + d, y, p + Len(m), K)
    /\ \A k \in 1 .. Len(m) : y[p + k] = m[k]

LEMMA SplicedIs ==
  ASSUME NEW w \in Seq(Nat), NEW m \in Seq(Nat), NEW p, NEW d, NEW K, Leaves(w, p, d, K)
  PROVE  IsSpliced(Spliced(w, p, d, m), w, p, d, m, K)
<1>1. p \in Nat /\ d \in Nat /\ K \in Nat /\ Len(w) = p + d + K
  BY DEF Leaves
<1> DEFINE left == SubSeq(w, 1, p)
           right == SubSeq(w, p + d + 1, Len(w))
           start == left \o m
<1>2. Len(w) \in Nat /\ Len(m) \in Nat /\ p <= Len(w) /\ p + d <= Len(w)
  BY <1>1
<1>3. /\ left \in Seq(Nat) /\ Len(left) = p
      /\ \A k \in 1 .. p : left[k] = w[k]
  <2> DEFINE f == 1
             l == p
  <2>1. /\ f \in Nat /\ l \in Nat /\ 1 <= f /\ f <= l + 1 /\ l <= Len(w)
        /\ l + 1 - f = p /\ \A k \in 1 .. p : f - 1 + k = k
    BY <1>1, <1>2
  <2> HIDE DEF f, l
  <2>2. /\ SubSeq(w, f, l) \in Seq(Nat) /\ Len(SubSeq(w, f, l)) = l + 1 - f
        /\ \A k \in 1 .. l + 1 - f : SubSeq(w, f, l)[k] = w[f - 1 + k]
    BY <2>1, PieceIs
  <2>3. left = SubSeq(w, f, l)
    BY DEF f, l
  <2> QED
    BY <2>1, <2>2, <2>3
<1>4. /\ right \in Seq(Nat) /\ Len(right) = K
      /\ \A k \in 1 .. K : right[k] = w[p + d + k]
  <2> DEFINE f == p + d + 1
             l == Len(w)
  <2>1. /\ f \in Nat /\ l \in Nat /\ 1 <= f /\ f <= l + 1 /\ l <= Len(w)
        /\ l + 1 - f = K /\ \A k \in 1 .. K : f - 1 + k = p + d + k
    BY <1>1, <1>2
  <2> HIDE DEF f, l
  <2>2. /\ SubSeq(w, f, l) \in Seq(Nat) /\ Len(SubSeq(w, f, l)) = l + 1 - f
        /\ \A k \in 1 .. l + 1 - f : SubSeq(w, f, l)[k] = w[f - 1 + k]
    BY <2>1, PieceIs
  <2>3. right = SubSeq(w, f, l)
    BY DEF f, l
  <2> QED
    BY <2>1, <2>2, <2>3
<1> DEFINE x == Spliced(w, p, d, m)
<1>5. x = start \o right
  BY DEF Spliced
<1> HIDE DEF left, right, x
<1>6. /\ start \in Seq(Nat) /\ Len(start) = p + Len(m)
      /\ \A k \in 1 .. p : start[k] = w[k]
      /\ \A k \in 1 .. Len(m) : start[p + k] = m[k]
  BY <1>1, <1>3, JoinIs, ZenonT(60)
<1> HIDE DEF start
<1>7. /\ x \in Seq(Nat) /\ Len(x) = p + Len(m) + K
      /\ \A k \in 1 .. p + Len(m) : x[k] = start[k]
      /\ \A k \in 1 .. K : x[p + Len(m) + k] = w[p + d + k]
  <2>1. /\ start \o right \in Seq(Nat) /\ Len(start \o right) = Len(start) + Len(right)
        /\ \A k \in 1 .. Len(start) : (start \o right)[k] = start[k]
        /\ \A k \in 1 .. Len(right) : (start \o right)[Len(start) + k] = right[k]
    BY <1>4, <1>6, JoinIs
  <2> QED
    BY <1>4, <1>5, <1>6, <2>1
<1>8. Agree(w, 0, x, 0, p)
  <2>1. \A k \in 1 .. p : 0 + k = k /\ k \in 1 .. p + Len(m)
    BY <1>1, <1>2
  <2> QED
    <3>1. \A k \in 1 .. p : w[0 + k] = x[0 + k]
      BY <1>6, <1>7, <2>1
    <3>2. 0 + p <= Len(w) /\ 0 + p <= Len(x)
      BY <1>1, <1>2, <1>7
    <3> QED
      BY <1>1, <3>1, <3>2 DEF Agree
<1>9. Agree(w, p + d, x, p + Len(m), K)
  <2>1. p + d + K <= Len(w) /\ p + d \in Nat /\ p + Len(m) \in Nat
    BY <1>1, <1>2
  <2> QED
    <3>1. \A k \in 1 .. K : w[p + d + k] = x[p + Len(m) + k]
      BY <1>7
    <3>2. p + Len(m) + K <= Len(x)
      BY <1>1, <1>2, <1>7
    <3> QED
      BY <1>1, <1>2, <2>1, <3>1, <3>2 DEF Agree
<1>10. \A k \in 1 .. Len(m) : x[p + k] = m[k]
  <2>1. \A k \in 1 .. Len(m) : p + k \in 1 .. p + Len(m)
    BY <1>1, <1>2
  <2> QED
    BY <1>6, <1>7, <2>1
<1> QED
  BY <1>1, <1>2, <1>7, <1>8, <1>9, <1>10 DEF x, IsSpliced, Leaves

LEMMA SplicedOnly ==
  ASSUME NEW w \in Seq(Nat), NEW p, NEW d, NEW m, NEW K, NEW y, IsSpliced(y, w, p, d, m, K)
  PROVE  Spliced(w, p, d, m) = y
<1> DEFINE x == Spliced(w, p, d, m)
           n == Len(m)
<1>1. /\ y \in Seq(Nat) /\ m \in Seq(Nat) /\ n \in Nat /\ p \in Nat /\ K \in Nat
      /\ Len(y) = p + n + K
      /\ Agree(w, 0, y, 0, p) /\ Agree(w, p + d, y, p + n, K)
      /\ \A k \in 1 .. n : y[p + k] = m[k]
  BY DEF IsSpliced, Leaves
<1>2. /\ x \in Seq(Nat) /\ Len(x) = p + n + K
      /\ Agree(w, 0, x, 0, p) /\ Agree(w, p + d, x, p + n, K)
      /\ \A k \in 1 .. n : x[p + k] = m[k]
  <2>1. Leaves(w, p, d, K) /\ m \in Seq(Nat)
    BY DEF IsSpliced
  <2>2. IsSpliced(x, w, p, d, m, K)
    BY <2>1, SplicedIs
  <2> HIDE DEF x
  <2> QED
    BY <2>2 DEF IsSpliced, Leaves
<1> HIDE DEF x
<1>3. \A k \in 1 .. p : x[k] = y[k]
  <2>1. \A k \in 1 .. p : 0 + k = k
    BY <1>1
  <2> QED
    BY <1>1, <1>2, <2>1 DEF Agree
<1>4. \A k \in 1 .. n : x[p + k] = y[p + k]
  BY <1>1, <1>2
<1>5. \A k \in 1 .. K : x[p + n + k] = y[p + n + k]
  BY <1>1, <1>2 DEF Agree
<1> HIDE DEF n
<1>6. ASSUME NEW k \in 1 .. p + n + K PROVE x[k] = y[k]
  <2>1. k \in Nat /\ 1 <= k /\ k <= p + n + K
    BY <1>1
  <2>2. CASE k <= p
    <3>1. k \in 1 .. p
      BY <1>1, <2>1, <2>2
    <3> QED
      BY <1>3, <3>1
  <2>3. CASE p < k /\ k <= p + n
    <3>1. k - p \in 1 .. n /\ p + (k - p) = k
      BY <1>1, <2>1, <2>3
    <3> QED
      BY <1>4, <3>1
  <2>4. CASE p + n < k
    <3>1. k - (p + n) \in 1 .. K /\ p + n + (k - (p + n)) = k
      BY <1>1, <2>1, <2>4
    <3> QED
      BY <1>5, <3>1
  <2>5. k <= p \/ (p < k /\ k <= p + n) \/ p + n < k
    BY <1>1, <2>1
  <2> QED
    BY <2>2, <2>3, <2>4, <2>5
<1>7. x = [k \in 1 .. p + n + K |-> x[k]] /\ y = [k \in 1 .. p + n + K |-> y[k]]
  BY <1>1, <1>2
<1>8. x = y
  BY <1>6, <1>7
<1> QED
  BY <1>8 DEF x

\* What one edit puts in.
Parts(letters) == {<<>>} \cup {<<c>> : c \in letters}

\* One edit leaves out at most one character and puts in at most one.
IsEdit(w, p, d, m, letters) ==
    /\ p \in Nat /\ d \in {0, 1} /\ p + d <= Len(w)
    /\ m \in Parts(letters)
    /\ d = 1 \/ m # <<>>

LEMMA PartsAre ==
  ASSUME NEW letters, letters \subseteq Nat
  PROVE  /\ \A m \in Parts(letters) : m \in Seq(Nat) /\ Len(m) \in {0, 1}
         /\ \A m \in Parts(letters) : m # <<>> => Len(m) = 1 /\ \E c \in letters : m = <<c>>
         /\ <<>> \in Parts(letters) /\ Len(<<>>) = 0
         /\ \A c \in letters : <<c>> \in Parts(letters) /\ Len(<<c>>) = 1 /\ <<c>>[1] = c /\ <<c>> # <<>>
<1>1. <<>> \in Seq(Nat) /\ Len(<<>>) = 0
  OBVIOUS
<1>2. \A c \in letters : <<c>> \in Seq(Nat) /\ Len(<<c>>) = 1 /\ <<c>>[1] = c /\ <<c>> # <<>>
  OBVIOUS
<1> QED
  BY <1>1, <1>2 DEF Parts

EditOf(x, w, letters) ==
    \E p \in Nat : \E d \in {0, 1} : \E m \in Parts(letters) :
        IsEdit(w, p, d, m, letters) /\ x = Spliced(w, p, d, m)

LEMMA EditKinds ==
  ASSUME NEW w \in Seq(Nat), NEW letters, letters \subseteq Nat
  PROVE  /\ \A x \in OneEdit(w, letters) : EditOf(x, w, letters)
         /\ \A p \in Nat, d \in {0, 1}, m \in Parts(letters) :
               IsEdit(w, p, d, m, letters) => Spliced(w, p, d, m) \in OneEdit(w, letters)
<1> DEFINE l == Len(w)
           left(i) == SubSeq(w, 1, i - 1)
           right(i) == SubSeq(w, i, Len(w))
           cut(i) == left(i) \o right(i + 1)
           put(i, c) == left(i) \o <<c>> \o right(i)
           change(i, c) == left(i) \o <<c>> \o right(i + 1)
           Deletions == {cut(i) : i \in DOMAIN w}
           Insertions == {put(i, c) : i \in 1 .. l + 1, c \in letters}
           Replacements == {change(i, c) : i \in DOMAIN w, c \in letters}
<1>1. OneEdit(w, letters) = Deletions \cup Insertions \cup Replacements
  BY DEF OneEdit
<1>2. DOMAIN w = 1 .. l /\ l \in Nat
  OBVIOUS
<1>3. ASSUME NEW p \in Nat
      PROVE  /\ (p + 1) - 1 = p /\ p + 0 + 1 = p + 1 /\ p + 1 + 1 = (p + 1) + 1
             /\ p + 1 <= l <=> p + 1 \in DOMAIN w
             /\ p + 0 <= l <=> p + 1 \in 1 .. l + 1
  BY <1>2
<1>4. ASSUME NEW p \in Nat, p + 1 \in DOMAIN w
      PROVE  Spliced(w, p, 1, <<>>) = cut(p + 1)
  <2>1. (p + 1) - 1 = p /\ 1 <= 1 /\ 1 <= p + 1 /\ p <= Len(w) /\ 1 \in Nat
    BY <1>2, <1>4
  <2>2. SubSeq(w, 1, p) \in Seq(Nat)
    BY <2>1, PieceIs
  <2>3. \A s \in Seq(Nat) : s \o <<>> = s
    OBVIOUS
  <2> QED
    BY <2>1, <2>2, <2>3 DEF Spliced
<1>5. ASSUME NEW p \in Nat, NEW c
      PROVE  /\ Spliced(w, p, 0, <<c>>) = put(p + 1, c)
             /\ Spliced(w, p, 1, <<c>>) = change(p + 1, c)
  BY <1>3 DEF Spliced
<1> HIDE DEF cut, put, change
<1>6. /\ \A x \in Deletions : \E i \in DOMAIN w : x = cut(i)
      /\ \A i \in DOMAIN w : cut(i) \in Deletions
  OBVIOUS
<1>7. /\ \A x \in Insertions : \E i \in 1 .. l + 1, c \in letters : x = put(i, c)
      /\ \A i \in 1 .. l + 1, c \in letters : put(i, c) \in Insertions
  OBVIOUS
<1>8. /\ \A x \in Replacements : \E i \in DOMAIN w, c \in letters : x = change(i, c)
      /\ \A i \in DOMAIN w, c \in letters : change(i, c) \in Replacements
  OBVIOUS
<1> HIDE DEF Deletions, Insertions, Replacements
<1>9. ASSUME NEW x \in OneEdit(w, letters)
      PROVE  EditOf(x, w, letters)
  <2>1. \A i \in DOMAIN w : i - 1 \in Nat /\ (i - 1) + 1 = i
    BY <1>2
  <2>2. \A i \in 1 .. l + 1 : i - 1 \in Nat /\ (i - 1) + 1 = i
    BY <1>2
  <2>3. CASE x \in Deletions
    <3>1. PICK i \in DOMAIN w : x = cut(i)
      BY <1>6, <2>3
    <3>2. PICK p \in Nat : p + 1 = i
      BY <2>1
    <3>3. x = Spliced(w, p, 1, <<>>)
      BY <1>4, <3>1, <3>2
    <3>4. IsEdit(w, p, 1, <<>>, letters) /\ <<>> \in Parts(letters)
      BY <1>3, <3>2, PartsAre DEF IsEdit
    <3> QED
      BY <3>3, <3>4 DEF EditOf
  <2>4. CASE x \in Insertions
    <3>1. PICK i \in 1 .. l + 1, c \in letters : x = put(i, c)
      BY <1>7, <2>4
    <3>2. PICK p \in Nat : p + 1 = i
      BY <2>2
    <3>3. x = Spliced(w, p, 0, <<c>>)
      BY <1>5, <3>1, <3>2
    <3>4. IsEdit(w, p, 0, <<c>>, letters) /\ <<c>> \in Parts(letters)
      BY <1>3, <3>2, PartsAre DEF IsEdit
    <3> QED
      BY <3>3, <3>4 DEF EditOf
  <2>5. CASE x \in Replacements
    <3>1. PICK i \in DOMAIN w, c \in letters : x = change(i, c)
      BY <1>8, <2>5
    <3>2. PICK p \in Nat : p + 1 = i
      BY <2>1
    <3>3. x = Spliced(w, p, 1, <<c>>)
      BY <1>5, <3>1, <3>2
    <3>4. IsEdit(w, p, 1, <<c>>, letters) /\ <<c>> \in Parts(letters)
      BY <1>3, <3>2, PartsAre DEF IsEdit
    <3> QED
      BY <3>3, <3>4 DEF EditOf
  <2> QED
    BY <1>1, <2>3, <2>4, <2>5
<1>10. ASSUME NEW p \in Nat, NEW d \in {0, 1}, NEW m \in Parts(letters), IsEdit(w, p, d, m, letters)
      PROVE  Spliced(w, p, d, m) \in OneEdit(w, letters)
  <2>1. p + d <= l /\ (d = 1 \/ m # <<>>)
    BY <1>10 DEF IsEdit
  <2>2. CASE d = 0
    <3>1. PICK c \in letters : m = <<c>>
      BY <2>1, <2>2 DEF Parts
    <3>2. p + 1 \in 1 .. l + 1
      BY <1>3, <2>1, <2>2
    <3>3. Spliced(w, p, 0, <<c>>) = put(p + 1, c)
      BY <1>5
    <3> QED
      BY <1>1, <1>7, <2>2, <3>1, <3>2, <3>3
  <2>3. CASE d = 1 /\ m = <<>>
    <3>1. p + 1 \in DOMAIN w
      BY <1>3, <2>1, <2>3
    <3> QED
      BY <1>1, <1>6, <1>4, <2>3, <3>1
  <2>4. CASE d = 1 /\ m # <<>>
    <3>1. PICK c \in letters : m = <<c>>
      BY <2>4, PartsAre
    <3>2. p + 1 \in DOMAIN w
      BY <1>3, <2>1, <2>4
    <3>3. Spliced(w, p, 1, <<c>>) = change(p + 1, c)
      BY <1>5
    <3> QED
      BY <1>1, <1>8, <2>4, <3>1, <3>2, <3>3
  <2> QED
    BY <2>2, <2>3, <2>4
<1> QED
  BY <1>9, <1>10

\* A word one edit away is at a distance of at most one more.
LEMMA EditMoves ==
  ASSUME NEW a \in Seq(Nat), NEW w \in Seq(Nat), NEW letters, letters \subseteq Nat,
         NEW x \in OneEdit(w, letters)
  PROVE  /\ x \in Seq(Nat)
         /\ levenshtein(a, x) <= levenshtein(a, w) + 1
<1>1. EditOf(x, w, letters)
  BY EditKinds
<1>2. PICK p \in Nat : \E d \in {0, 1} : \E m \in Parts(letters) :
        IsEdit(w, p, d, m, letters) /\ x = Spliced(w, p, d, m)
  BY <1>1 DEF EditOf
<1>3. PICK d \in {0, 1} : \E m \in Parts(letters) :
        IsEdit(w, p, d, m, letters) /\ x = Spliced(w, p, d, m)
  BY <1>2
<1>4. PICK m \in Parts(letters) : IsEdit(w, p, d, m, letters) /\ x = Spliced(w, p, d, m)
  BY <1>3
<1> DEFINE n == Len(m)
<1>5. p + d <= Len(w) /\ m \in Seq(Nat) /\ d \in Nat /\ (d = 1 \/ n # 0) /\ n \in {0, 1} /\ Len(w) \in Nat
  <2>1. p + d <= Len(w) /\ (d = 1 \/ m # <<>>)
    BY <1>4 DEF IsEdit
  <2>2. m \in Seq(Nat) /\ Len(m) \in {0, 1} /\ (m # <<>> => Len(m) = 1)
    BY PartsAre
  <2> QED
    BY <2>1, <2>2
<1>6. PICK K : Leaves(w, p, d, K)
  <2>1. Len(w) - (p + d) \in Nat /\ Len(w) = p + d + (Len(w) - (p + d))
    BY <1>5
  <2> QED
    BY <1>5, <2>1 DEF Leaves
<1>7. /\ x \in Seq(Nat) /\ K \in Nat
      /\ Len(x) = p + n + K /\ Len(w) = p + d + K
      /\ Agree(w, 0, x, 0, p) /\ Agree(w, p + d, x, p + n, K)
  <2>1. IsSpliced(x, w, p, d, m, K)
    BY <1>5, <1>6, <1>4, SplicedIs
  <2> QED
    BY <2>1 DEF IsSpliced, Leaves
<1> HIDE DEF n
<1>8. PICK M : IsTable(M, a, w) /\ levenshtein(a, w) = M[Len(a)][Len(w)]
  BY TableIs
<1>9. PICK O : IsTable(O, a, x) /\ levenshtein(a, x) = O[Len(a)][Len(x)]
  BY <1>7, TableIs
<1>10. CASE d = 0 /\ n = 1
  <2>1. p + 0 = p /\ Agree(w, p + 0, x, p + 1, K) /\ Len(w) = p + 0 + K /\ Len(x) = p + 1 + K
    BY <1>7, <1>10
  <2> QED
    BY <1>7, <1>8, <1>9, <2>1, InsertMoves
<1>11. CASE d = 1 /\ n = 0
  <2>1. p + 0 = p /\ Agree(w, p + 1, x, p + 0, K) /\ Len(w) = p + 1 + K /\ Len(x) = p + 0 + K
    BY <1>7, <1>11
  <2> QED
    BY <1>7, <1>8, <1>9, <2>1, DeleteMoves
<1>12. CASE d = 1 /\ n = 1
  <2>1. Agree(w, p + 1, x, p + 1, K) /\ Len(w) = p + 1 + K /\ Len(x) = p + 1 + K
    BY <1>7, <1>12
  <2> QED
    BY <1>7, <1>8, <1>9, <2>1, ReplaceMoves
<1> QED
  BY <1>5, <1>7, <1>10, <1>11, <1>12

\* No edit, no distance.
LEMMA SameWord ==
  ASSUME NEW a \in Seq(Nat)
  PROVE  levenshtein(a, a) = 0
<1>1. PICK M : IsTable(M, a, a) /\ levenshtein(a, a) = M[Len(a)][Len(a)]
  BY TableIs
<1> DEFINE S == {i \in 0 .. Len(a) : M[i][i] # 0}
<1>2. Len(a) \in Nat /\ Len(a) \in 0 .. Len(a)
  OBVIOUS
<1>3. SUFFICES ASSUME S # {} PROVE FALSE
  BY <1>1, <1>2, <1>3
<1>4. S \subseteq Nat
  OBVIOUS
<1>5. PICK i \in S : \A m \in S : i <= m
  BY <1>3, <1>4, LeastNumber
<1>6. i # 0
  BY <1>1, <1>2, <1>5, TableCells
<1>7. i \in 1 .. Len(a) /\ i - 1 \in 0 .. Len(a) /\ i - 1 < i /\ i \in 0 .. Len(a)
  <2>1. i \in 0 .. Len(a)
    OBVIOUS
  <2> QED
    BY <1>6, <2>1
<1>8. M[i - 1][i - 1] = 0
  <2>1. i - 1 \notin S
    BY <1>5, <1>7
  <2> QED
    BY <1>7, <2>1
<1>9. Cell(M[i][i], M[i - 1][i], M[i][i - 1], M[i - 1][i - 1], a[i] = a[i])
  BY <1>1, <1>7, TableCells
<1>10. M[i][i] \in Nat /\ M[i][i] <= 0
  BY <1>8, <1>9 DEF Cell
<1> QED
  BY <1>5, <1>10

LEMMA AppendIs ==
  ASSUME NEW w \in Seq(Nat), NEW c \in Nat
  PROVE  /\ Append(w, c) \in Seq(Nat) /\ Len(Append(w, c)) = Len(w) + 1
         /\ Append(w, c)[Len(w) + 1] = c
         /\ \A k \in 1 .. Len(w) : Append(w, c)[k] = w[k]
  OBVIOUS

\* A character put in at the end.
LEMMA AppendEdit ==
  ASSUME NEW letters, letters \subseteq Nat, NEW w \in Seq(Nat), NEW c \in letters
  PROVE  Append(w, c) \in OneEdit(w, letters)
<1> DEFINE p == Len(w)
           y == Append(w, c)
<1>1. /\ y \in Seq(Nat) /\ Len(y) = p + 1 /\ y[p + 1] = c
      /\ \A k \in 1 .. p : y[k] = w[k]
  BY AppendIs
<1>2. /\ <<c>> \in Seq(Nat) /\ Len(<<c>>) = 1 /\ <<c>>[1] = c /\ <<c>> # <<>>
      /\ <<c>> \in Parts(letters)
  BY PartsAre DEF Parts
<1>3. p \in Nat /\ Len(w) = p + 0 + 0 /\ p + 0 = p /\ p + 1 + 0 = p + 1 /\ 0 + p = p
  OBVIOUS
<1> HIDE DEF p, y
<1>4. Agree(w, 0, y, 0, p) /\ Agree(w, p + 0, y, p + 1, 0)
  <2>1. \A k \in 1 .. p : 0 + k = k
    BY <1>3
  <2>2. Len(w) = p
    BY DEF p
  <2> QED
    BY <1>1, <1>3, <2>1, <2>2 DEF Agree
<1>5. \A k \in 1 .. Len(<<c>>) : y[p + k] = <<c>>[k]
  <2>1. \A k \in 1 .. 1 : k = 1
    OBVIOUS
  <2> QED
    BY <1>1, <1>2, <2>1
<1>6. Spliced(w, p, 0, <<c>>) = y
  <2>1. Leaves(w, p, 0, 0) /\ Leaves(y, p, 1, 0) /\ 0 \in Nat
    BY <1>1, <1>3 DEF Leaves
  <2>2. IsSpliced(y, w, p, 0, <<c>>, 0)
    BY <1>1, <1>2, <1>4, <1>5, <2>1 DEF IsSpliced
  <2> QED
    BY <2>2, SplicedOnly
<1>7. IsEdit(w, p, 0, <<c>>, letters)
  BY <1>2, <1>3 DEF IsEdit
<1> QED
  BY <1>2, <1>3, <1>6, <1>7, EditKinds DEF y

\* The last character left out.
LEMMA DropEdit ==
  ASSUME NEW letters, letters \subseteq Nat, NEW w \in Seq(Nat), NEW c \in Nat
  PROVE  w \in OneEdit(Append(w, c), letters)
<1> DEFINE p == Len(w)
           y == Append(w, c)
<1>1. /\ y \in Seq(Nat) /\ Len(y) = p + 1
      /\ \A k \in 1 .. p : y[k] = w[k]
  BY AppendIs
<1>2. <<>> \in Seq(Nat) /\ Len(<<>>) = 0 /\ <<>> \in Parts(letters)
  BY PartsAre
<1>3. p \in Nat /\ p + 1 + 0 = p + 1 /\ p + 0 + 0 = p /\ p + 0 = p /\ Len(w) = p
  OBVIOUS
<1> HIDE DEF p, y
<1>4. Agree(y, 0, w, 0, p) /\ Agree(y, p + 1, w, p + 0, 0)
  <2>1. \A k \in 1 .. p : 0 + k = k
    BY <1>3
  <2> QED
    BY <1>1, <1>3, <2>1 DEF Agree
<1>5. Spliced(y, p, 1, <<>>) = w
  <2>1. \A k \in 1 .. Len(<<>>) : w[p + k] = <<>>[k]
    BY <1>2
  <2>2. Leaves(y, p, 1, 0) /\ Leaves(w, p, 0, 0) /\ 0 \in Nat
    BY <1>1, <1>3 DEF Leaves
  <2>3. IsSpliced(w, y, p, 1, <<>>, 0)
    BY <1>1, <1>2, <1>4, <2>1, <2>2 DEF IsSpliced
  <2> QED
    BY <1>1, <2>3, SplicedOnly
<1>6. IsEdit(y, p, 1, <<>>, letters)
  BY <1>1, <1>2, <1>3 DEF IsEdit
<1> QED
  BY <1>1, <1>2, <1>3, <1>5, <1>6, EditKinds DEF y

\* The last character replaced.
LEMMA LastEdit ==
  ASSUME NEW letters, letters \subseteq Nat, NEW w \in Seq(Nat), NEW c \in Nat, NEW e \in letters
  PROVE  Append(w, e) \in OneEdit(Append(w, c), letters)
<1> DEFINE p == Len(w)
           x == Append(w, c)
           y == Append(w, e)
<1>1. /\ x \in Seq(Nat) /\ Len(x) = p + 1
      /\ \A k \in 1 .. p : x[k] = w[k]
  BY AppendIs
<1>2. /\ y \in Seq(Nat) /\ Len(y) = p + 1 /\ y[p + 1] = e
      /\ \A k \in 1 .. p : y[k] = w[k]
  BY AppendIs
<1>3. /\ <<e>> \in Seq(Nat) /\ Len(<<e>>) = 1 /\ <<e>>[1] = e
      /\ <<e>> \in Parts(letters)
  BY PartsAre DEF Parts
<1>4. p \in Nat /\ p + 1 + 0 = p + 1
  OBVIOUS
<1> HIDE DEF p, x, y
<1>5. Agree(x, 0, y, 0, p) /\ Agree(x, p + 1, y, p + 1, 0)
  <2>1. \A k \in 1 .. p : 0 + k = k
    BY <1>4
  <2> QED
    BY <1>1, <1>2, <1>4, <2>1 DEF Agree
<1>6. Spliced(x, p, 1, <<e>>) = y
  <2>1. \A k \in 1 .. Len(<<e>>) : y[p + k] = <<e>>[k]
    <3>1. \A k \in 1 .. 1 : k = 1
      OBVIOUS
    <3> QED
      BY <1>2, <1>3, <3>1
  <2>2. Leaves(x, p, 1, 0) /\ Leaves(y, p, 1, 0) /\ 0 \in Nat
    BY <1>1, <1>2, <1>4 DEF Leaves
  <2>3. IsSpliced(y, x, p, 1, <<e>>, 0)
    BY <1>1, <1>2, <1>3, <1>5, <2>1, <2>2 DEF IsSpliced
  <2> QED
    BY <1>1, <2>3, SplicedOnly
<1>7. IsEdit(x, p, 1, <<e>>, letters)
  BY <1>1, <1>3, <1>4 DEF IsEdit
<1> QED
  BY <1>1, <1>3, <1>4, <1>6, <1>7, EditKinds DEF x, y

\* The same edit in front of one more character.
LEMMA EditBefore ==
  ASSUME NEW letters, letters \subseteq Nat, NEW w \in Seq(Nat), NEW c \in Nat,
         NEW x \in OneEdit(w, letters)
  PROVE  Append(x, c) \in OneEdit(Append(w, c), letters)
<1>1. EditOf(x, w, letters)
  BY EditKinds
<1>2. PICK p \in Nat : \E d \in {0, 1} : \E m \in Parts(letters) :
        IsEdit(w, p, d, m, letters) /\ x = Spliced(w, p, d, m)
  BY <1>1 DEF EditOf
<1>3. PICK d \in {0, 1} : \E m \in Parts(letters) :
        IsEdit(w, p, d, m, letters) /\ x = Spliced(w, p, d, m)
  BY <1>2
<1>4. PICK m \in Parts(letters) : IsEdit(w, p, d, m, letters) /\ x = Spliced(w, p, d, m)
  BY <1>3
<1>5. m \in Seq(Nat) /\ Len(m) \in Nat /\ d \in Nat /\ p + d <= Len(w) /\ Len(w) \in Nat
  <2>1. p + d <= Len(w)
    BY <1>4 DEF IsEdit
  <2>2. m \in Seq(Nat) /\ Len(m) \in {0, 1}
    BY PartsAre
  <2> QED
    BY <2>1, <2>2
<1>6. PICK K : Leaves(w, p, d, K)
  <2>1. Len(w) - (p + d) \in Nat /\ Len(w) = p + d + (Len(w) - (p + d))
    BY <1>5
  <2> QED
    BY <1>5, <2>1 DEF Leaves
<1> DEFINE n == Len(m)
           v == Append(w, c)
           y == Append(x, c)
<1>7. /\ x \in Seq(Nat) /\ K \in Nat /\ Len(w) = p + d + K /\ Len(x) = p + n + K
      /\ Agree(w, 0, x, 0, p) /\ Agree(w, p + d, x, p + n, K)
      /\ \A k \in 1 .. n : x[p + k] = m[k]
  <2>1. IsSpliced(x, w, p, d, m, K)
    BY <1>4, <1>5, <1>6, SplicedIs
  <2> QED
    BY <2>1 DEF IsSpliced, Leaves
<1>8. /\ v \in Seq(Nat) /\ Len(v) = Len(w) + 1 /\ v[Len(w) + 1] = c
      /\ \A k \in 1 .. Len(w) : v[k] = w[k]
  BY AppendIs
<1>9. /\ y \in Seq(Nat) /\ Len(y) = Len(x) + 1 /\ y[Len(x) + 1] = c
      /\ \A k \in 1 .. Len(x) : y[k] = x[k]
  BY <1>7, AppendIs
<1>10. n \in Nat
  BY <1>5
<1> HIDE DEF n, v, y
<1>11. Len(v) = p + d + (K + 1) /\ Len(y) = p + n + (K + 1)
  BY <1>5, <1>7, <1>8, <1>9, <1>10
<1>12. Agree(v, 0, y, 0, p)
  <2>1. \A k \in 1 .. p : 0 + k = k /\ k \in 1 .. Len(w) /\ k \in 1 .. Len(x)
    BY <1>5, <1>7, <1>10
  <2>2. \A k \in 1 .. p : w[k] = x[k]
    BY <1>7, <2>1 DEF Agree
  <2>3. \A k \in 1 .. p : v[0 + k] = y[0 + k]
    BY <1>8, <1>9, <2>1, <2>2
  <2>4. 0 + p <= Len(v) /\ 0 + p <= Len(y)
    BY <1>5, <1>7, <1>10, <1>11
  <2> QED
    BY <2>3, <2>4 DEF Agree
<1>13. Agree(v, p + d, y, p + n, K + 1)
  <2>1. ASSUME NEW k \in 1 .. K + 1 PROVE v[p + d + k] = y[p + n + k]
    <3>1. CASE k = K + 1
      <4>1. p + d + k = Len(w) + 1 /\ p + n + k = Len(x) + 1
        BY <1>5, <1>7, <1>10, <3>1
      <4> QED
        BY <1>8, <1>9, <4>1
    <3>2. CASE k # K + 1
      <4>1. k \in 1 .. K
        BY <1>7, <3>2
      <4>2. p + d + k \in 1 .. Len(w) /\ p + n + k \in 1 .. Len(x)
        BY <1>5, <1>7, <1>10, <4>1
      <4>3. w[p + d + k] = x[p + n + k]
        BY <1>7, <4>1 DEF Agree
      <4> QED
        BY <1>8, <1>9, <4>2, <4>3
    <3> QED
      BY <3>1, <3>2
  <2>2. /\ p + d \in Nat /\ p + n \in Nat /\ K + 1 \in Nat
        /\ p + d + (K + 1) <= Len(v) /\ p + n + (K + 1) <= Len(y)
    BY <1>5, <1>7, <1>10, <1>11
  <2> QED
    BY <2>1, <2>2 DEF Agree
<1>14. \A k \in 1 .. n : y[p + k] = m[k]
  <2>1. \A k \in 1 .. n : p + k \in 1 .. Len(x)
    <3>1. \A k \in 1 .. n : p + k \in 1 .. p + n + K
      BY <1>7, <1>10
    <3> QED
      BY <1>7, <3>1
  <2> QED
    BY <1>7, <1>9, <2>1
<1>15. Spliced(v, p, d, m) = y
  <2>1. Leaves(v, p, d, K + 1) /\ Leaves(y, p, n, K + 1)
    BY <1>5, <1>7, <1>10, <1>11 DEF Leaves
  <2>2. IsSpliced(y, v, p, d, m, K + 1)
    BY <1>5, <1>8, <1>9, <1>12, <1>13, <1>14, <2>1 DEF IsSpliced, n
  <2> QED
    BY <1>8, <2>2, SplicedOnly
<1>16. IsEdit(v, p, d, m, letters)
  <2>1. p + d <= Len(v)
    BY <1>5, <1>7, <1>11
  <2> QED
    BY <1>4, <2>1 DEF IsEdit
<1> QED
  BY <1>8, <1>15, <1>16, EditKinds DEF v, y

-----------------------------------------------------------------------------
(* Up to two edits *)

LEMMA WithinIs ==
  ASSUME NEW w, NEW letters
  PROVE  /\ \A x : x \in WithinEdits(w, 0, letters) <=> x = w
         /\ \A x : x \in WithinEdits(w, 1, letters) <=> x = w \/ x \in OneEdit(w, letters)
         /\ \A x : x \in WithinEdits(w, 2, letters) <=>
               \/ x \in WithinEdits(w, 1, letters)
               \/ \E v \in WithinEdits(w, 1, letters) : x \in OneEdit(v, letters)
<1> DEFINE one(ws) == ws \cup UNION {OneEdit(v, letters) : v \in ws}
<1>1. /\ WithinEdits(w, 0, letters) = {w}
      /\ WithinEdits(w, 1, letters) = one({w})
      /\ WithinEdits(w, 2, letters) = one(one({w}))
  BY DEF WithinEdits
<1>2. ASSUME NEW S, NEW x
      PROVE  x \in one(S) <=> x \in S \/ \E v \in S : x \in OneEdit(v, letters)
  OBVIOUS
<1> HIDE DEF one
<1>3. \A x : x \in one({w}) <=> x \in {w} \/ \E v \in {w} : x \in OneEdit(v, letters)
  BY <1>2
<1>4. \A x : x \in one(one({w})) <=> x \in one({w}) \/ \E v \in one({w}) : x \in OneEdit(v, letters)
  BY <1>2
<1>5. \A x : x \in {w} <=> x = w
  OBVIOUS
<1>6. \A x : x \in one({w}) <=> x = w \/ x \in OneEdit(w, letters)
  BY <1>3, <1>5
<1> QED
  BY <1>1, <1>4, <1>5, <1>6

LEMMA Distance ==
  ASSUME NEW a \in Seq(Nat), NEW b \in Seq(Nat)
  PROVE  levenshtein(a, b) \in Nat
<1>1. PICK M : IsTable(M, a, b) /\ levenshtein(a, b) = M[Len(a)][Len(b)]
  BY TableIs
<1>2. Len(a) \in 0 .. Len(a) /\ Len(b) \in 0 .. Len(b)
  OBVIOUS
<1> QED
  BY <1>1, <1>2, TableCells

\* n edits away, a distance of n at most.
LEMMA WithinBound ==
  ASSUME NEW letters, letters \subseteq Nat, NEW a \in Seq(Nat), NEW n \in {0, 1, 2},
         NEW x \in WithinEdits(a, n, letters)
  PROVE  x \in Seq(Nat) /\ levenshtein(a, x) <= n
<1>1. \A v \in Seq(Nat) : levenshtein(a, v) \in Nat
  BY Distance
<1>2. \A y : y \in WithinEdits(a, 1, letters) => y \in Seq(Nat) /\ levenshtein(a, y) <= 1
  <2> SUFFICES ASSUME NEW y \in WithinEdits(a, 1, letters)
               PROVE  y \in Seq(Nat) /\ levenshtein(a, y) <= 1
    OBVIOUS
  <2>1. y = a \/ y \in OneEdit(a, letters)
    BY WithinIs
  <2>2. levenshtein(a, a) = 0
    BY SameWord
  <2>3. CASE y \in OneEdit(a, letters)
    <3>1. y \in Seq(Nat) /\ levenshtein(a, y) <= levenshtein(a, a) + 1
      BY <2>3, EditMoves
    <3> QED
      BY <2>2, <3>1
  <2> QED
    BY <2>1, <2>2, <2>3
<1>3. CASE n = 0
  <2>1. x = a
    BY <1>3, WithinIs
  <2> QED
    BY <1>3, <2>1, SameWord
<1>4. CASE n = 1
  BY <1>2, <1>4
<1>5. CASE n = 2
  <2>1. \/ x \in WithinEdits(a, 1, letters)
        \/ \E v \in WithinEdits(a, 1, letters) : x \in OneEdit(v, letters)
    BY <1>5, WithinIs
  <2>2. CASE x \in WithinEdits(a, 1, letters)
    <3>1. x \in Seq(Nat) /\ levenshtein(a, x) <= 1
      BY <1>2, <2>2
    <3> QED
      BY <1>1, <1>5, <3>1
  <2>3. CASE \E v \in WithinEdits(a, 1, letters) : x \in OneEdit(v, letters)
    <3>1. PICK v \in WithinEdits(a, 1, letters) : x \in OneEdit(v, letters)
      BY <2>3
    <3>2. v \in Seq(Nat) /\ levenshtein(a, v) <= 1
      BY <1>2
    <3>3. x \in Seq(Nat) /\ levenshtein(a, x) <= levenshtein(a, v) + 1
      BY <3>1, <3>2, EditMoves
    <3> QED
      BY <1>1, <1>5, <3>2, <3>3
  <2> QED
    BY <2>1, <2>2, <2>3
<1> QED
  BY <1>3, <1>4, <1>5

LEMMA WithinMore ==
  ASSUME NEW w, NEW letters, NEW n \in {0, 1}
  PROVE  /\ \A x \in WithinEdits(w, n, letters) : x \in WithinEdits(w, n + 1, letters)
         /\ \A v \in WithinEdits(w, n, letters) : \A x \in OneEdit(v, letters) :
               x \in WithinEdits(w, n + 1, letters)
<1>1. CASE n = 0
  <2>1. n + 1 = 1
    BY <1>1
  <2> QED
    BY <1>1, <2>1, WithinIs
<1>2. CASE n = 1
  <2>1. n + 1 = 2
    BY <1>2
  <2> QED
    BY <1>2, <2>1, WithinIs
<1> QED
  BY <1>1, <1>2

\* As many edits, with one more character at the end of both words.
LEMMA WithinBefore ==
  ASSUME NEW letters, letters \subseteq Nat, NEW w \in Seq(Nat), NEW c \in Nat,
         NEW n \in {0, 1, 2}, NEW x \in WithinEdits(w, n, letters)
  PROVE  Append(x, c) \in WithinEdits(Append(w, c), n, letters)
<1>1. \A y \in WithinEdits(w, 1, letters) : Append(y, c) \in WithinEdits(Append(w, c), 1, letters)
  <2> SUFFICES ASSUME NEW y \in WithinEdits(w, 1, letters)
               PROVE  Append(y, c) \in WithinEdits(Append(w, c), 1, letters)
    OBVIOUS
  <2>1. y = w \/ y \in OneEdit(w, letters)
    BY WithinIs
  <2>2. CASE y = w
    BY <2>2, WithinIs
  <2>3. CASE y \in OneEdit(w, letters)
    <3>1. Append(y, c) \in OneEdit(Append(w, c), letters)
      BY <2>3, EditBefore
    <3> QED
      BY <3>1, WithinIs
  <2> QED
    BY <2>1, <2>2, <2>3
<1>2. CASE n = 0
  <2>1. x = w
    BY <1>2, WithinIs
  <2> QED
    BY <1>2, <2>1, WithinIs
<1>3. CASE n = 1
  BY <1>1, <1>3
<1>4. CASE n = 2
  <2>1. \/ x \in WithinEdits(w, 1, letters)
        \/ \E v \in WithinEdits(w, 1, letters) : x \in OneEdit(v, letters)
    BY <1>4, WithinIs
  <2>2. CASE x \in WithinEdits(w, 1, letters)
    <3>1. Append(x, c) \in WithinEdits(Append(w, c), 1, letters)
      BY <1>1, <2>2
    <3> QED
      BY <1>4, <3>1, WithinIs
  <2>3. CASE \E v \in WithinEdits(w, 1, letters) : x \in OneEdit(v, letters)
    <3>1. PICK v \in WithinEdits(w, 1, letters) : x \in OneEdit(v, letters)
      BY <2>3
    <3>2. v \in Seq(Nat) /\ 1 \in {0, 1, 2}
      BY WithinBound
    <3>3. Append(x, c) \in OneEdit(Append(v, c), letters)
      BY <3>1, <3>2, EditBefore
    <3>4. Append(v, c) \in WithinEdits(Append(w, c), 1, letters)
      BY <1>1
    <3> QED
      BY <1>4, <3>3, <3>4, WithinIs
  <2> QED
    BY <2>1, <2>2, <2>3
<1> QED
  BY <1>2, <1>3, <1>4

\* One edit more: a character put in at the end, ...
LEMMA WithinAppend ==
  ASSUME NEW letters, letters \subseteq Nat, NEW w \in Seq(Nat), NEW e \in letters,
         NEW n \in {0, 1}, NEW x \in WithinEdits(w, n, letters)
  PROVE  Append(x, e) \in WithinEdits(w, n + 1, letters)
<1>1. x \in Seq(Nat)
  <2>1. n \in {0, 1, 2}
    OBVIOUS
  <2> QED
    BY <2>1, WithinBound
<1>2. Append(x, e) \in OneEdit(x, letters)
  BY <1>1, AppendEdit
<1> QED
  BY <1>2, WithinMore

\* ... left out ...
LEMMA WithinDrop ==
  ASSUME NEW letters, letters \subseteq Nat, NEW w \in Seq(Nat), NEW c \in Nat,
         NEW n \in {0, 1}, NEW x \in WithinEdits(w, n, letters)
  PROVE  x \in WithinEdits(Append(w, c), n + 1, letters)
<1>1. w \in WithinEdits(Append(w, c), 1, letters)
  <2>1. w \in OneEdit(Append(w, c), letters)
    BY DropEdit
  <2> QED
    BY <2>1, WithinIs
<1>2. CASE n = 0
  <2>1. x = w /\ n + 1 = 1
    BY <1>2, WithinIs
  <2> QED
    BY <1>1, <2>1
<1>3. CASE n = 1
  <2>1. (x = w \/ x \in OneEdit(w, letters)) /\ n + 1 = 2
    BY <1>3, WithinIs
  <2> QED
    BY <1>1, <2>1, WithinIs
<1> QED
  BY <1>2, <1>3

\* ... or replaced.
LEMMA WithinLast ==
  ASSUME NEW letters, letters \subseteq Nat, NEW w \in Seq(Nat), NEW c \in Nat, NEW e \in letters,
         NEW n \in {0, 1}, NEW x \in WithinEdits(w, n, letters)
  PROVE  Append(x, e) \in WithinEdits(Append(w, c), n + 1, letters)
<1>1. n \in {0, 1, 2}
  OBVIOUS
<1>2. x \in Seq(Nat)
  BY <1>1, WithinBound
<1>3. Append(x, e) \in OneEdit(Append(x, c), letters)
  BY <1>2, LastEdit
<1>4. Append(x, c) \in WithinEdits(Append(w, c), n, letters)
  BY <1>1, WithinBefore
<1> QED
  BY <1>3, <1>4, WithinMore

LEMMA OneLonger ==
  ASSUME NEW w \in Seq(Nat), NEW i \in 1 .. Len(w)
  PROVE  /\ SubSeq(w, 1, i - 1) \in Seq(Nat)
         /\ w[i] \in Nat
         /\ SubSeq(w, 1, i) = Append(SubSeq(w, 1, i - 1), w[i])
  OBVIOUS

\* A distance of n at most, within n edits.
LEMMA WithinFinds ==
  ASSUME NEW letters, letters \subseteq Nat, NEW a \in Seq(Nat), NEW b \in Seq(Nat),
         ToSet(b) \subseteq letters, NEW n \in {0, 1, 2}, levenshtein(a, b) <= n
  PROVE  b \in WithinEdits(a, n, letters)
<1>1. PICK M : IsTable(M, a, b) /\ levenshtein(a, b) = M[Len(a)][Len(b)]
  BY TableIs
<1> DEFINE A(i) == SubSeq(a, 1, i)
           B(j) == SubSeq(b, 1, j)
           Near(i, m) == WithinEdits(A(i), m, letters)
           Bad(i, j) == \E m \in {0, 1, 2} : M[i][j] <= m /\ B(j) \notin Near(i, m)
           S == {k \in Nat : \E i \in 0 .. Len(a) : \E j \in 0 .. Len(b) : k = i + j /\ Bad(i, j)}
<1>2. /\ \A i \in 0 .. Len(a) : \A j \in 0 .. Len(b) : M[i][j] \in Nat
      /\ \A j \in 0 .. Len(b) : M[0][j] = j
      /\ \A i \in 1 .. Len(a) : M[i][0] = M[i - 1][0] + 1
      /\ \A i \in 1 .. Len(a) : \A j \in 1 .. Len(b) :
            Cell(M[i][j], M[i - 1][j], M[i][j - 1], M[i - 1][j - 1], a[i] = b[j])
  BY <1>1, TableCells
<1>3. A(Len(a)) = a /\ B(Len(b)) = b /\ A(0) = <<>> /\ B(0) = <<>>
  OBVIOUS
<1>4. Len(a) \in Nat /\ Len(b) \in Nat
  OBVIOUS
<1>5. \A i \in 1 .. Len(a) : A(i - 1) \in Seq(Nat) /\ a[i] \in Nat /\ A(i) = Append(A(i - 1), a[i])
  BY OneLonger
<1>6. \A j \in 1 .. Len(b) :
        B(j - 1) \in Seq(Nat) /\ b[j] \in letters /\ b[j] \in Nat /\ B(j) = Append(B(j - 1), b[j])
  <2>1. \A j \in 1 .. Len(b) : b[j] \in ToSet(b)
    BY DEF ToSet
  <2> QED
    BY <2>1, OneLonger
<1>7. \A i \in 0 .. Len(a) : A(i) \in Seq(Nat)
  OBVIOUS
<1> HIDE DEF A, B
<1>8. ASSUME NEW i \in 0 .. Len(a), NEW j \in 1 .. Len(b), NEW m \in {0, 1},
             B(j - 1) \in Near(i, m)
      PROVE  B(j) \in Near(i, m + 1)
  BY <1>6, <1>7, <1>8, WithinAppend
<1>9. ASSUME NEW i \in 1 .. Len(a), NEW j \in 0 .. Len(b), NEW m \in {0, 1},
             B(j) \in Near(i - 1, m)
      PROVE  B(j) \in Near(i, m + 1)
  BY <1>5, <1>9, WithinDrop
<1>10. ASSUME NEW i \in 1 .. Len(a), NEW j \in 1 .. Len(b), NEW m \in {0, 1, 2},
              a[i] = b[j], B(j - 1) \in Near(i - 1, m)
       PROVE  B(j) \in Near(i, m)
  <2> DEFINE v == A(i - 1)
             y == B(j - 1)
             c == a[i]
  <2>1. v \in Seq(Nat) /\ c \in Nat /\ A(i) = Append(v, c) /\ B(j) = Append(y, c)
    BY <1>5, <1>6, <1>10
  <2>2. y \in WithinEdits(v, m, letters)
    BY <1>10
  <2> HIDE DEF v, y, c
  <2>3. Append(y, c) \in WithinEdits(Append(v, c), m, letters)
    BY <2>1, <2>2, WithinBefore
  <2> QED
    BY <2>1, <2>3
<1>11. ASSUME NEW i \in 1 .. Len(a), NEW j \in 1 .. Len(b), NEW m \in {0, 1},
              B(j - 1) \in Near(i - 1, m)
       PROVE  B(j) \in Near(i, m + 1)
  <2> DEFINE v == A(i - 1)
             y == B(j - 1)
             c == a[i]
             e == b[j]
  <2>1. /\ v \in Seq(Nat) /\ c \in Nat /\ e \in letters
        /\ A(i) = Append(v, c) /\ B(j) = Append(y, e)
    BY <1>5, <1>6
  <2>2. y \in WithinEdits(v, m, letters)
    BY <1>11
  <2> HIDE DEF v, y, c, e
  <2>3. Append(y, e) \in WithinEdits(Append(v, c), m + 1, letters)
    BY <2>1, <2>2, WithinLast
  <2> QED
    BY <2>1, <2>3
<1>12. \A i : \A m \in {0, 1, 2} : A(i) \in Near(i, m)
  BY WithinIs
<1> HIDE DEF Near
<1>13. ASSUME NEW i \in 0 .. Len(a), NEW j \in 0 .. Len(b), NEW m \in {0, 1, 2}, M[i][j] <= m,
              \A g \in 0 .. Len(a), h \in 0 .. Len(b) : g + h < i + j => ~Bad(g, h)
       PROVE  B(j) \in Near(i, m)
  <2>1. ASSUME NEW g \in 0 .. Len(a), NEW h \in 0 .. Len(b), g + h < i + j, M[i][j] = M[g][h] + 1
        PROVE  \E k \in {0, 1} : m = k + 1 /\ B(h) \in Near(g, k)
    <3>1. M[g][h] \in Nat /\ M[g][h] + 1 <= m
      BY <1>2, <1>13, <2>1
    <3>2. PICK k \in {0, 1} : m = k + 1
      BY <3>1
    <3>3. M[g][h] <= k /\ k \in {0, 1, 2}
      BY <3>1, <3>2
    <3>4. ~Bad(g, h)
      BY <1>13, <2>1
    <3> QED
      BY <3>2, <3>3, <3>4
  <2>2. ASSUME j \in 1 .. Len(b), M[i][j] = M[i][j - 1] + 1
        PROVE  B(j) \in Near(i, m)
    <3>1. j - 1 \in 0 .. Len(b) /\ i + (j - 1) < i + j
      BY <1>4, <2>2
    <3>2. PICK k \in {0, 1} : m = k + 1 /\ B(j - 1) \in Near(i, k)
      BY <2>1, <2>2, <3>1
    <3> QED
      BY <1>8, <2>2, <3>2
  <2>3. ASSUME i \in 1 .. Len(a), M[i][j] = M[i - 1][j] + 1
        PROVE  B(j) \in Near(i, m)
    <3>1. i - 1 \in 0 .. Len(a) /\ (i - 1) + j < i + j
      BY <1>4, <2>3
    <3>2. PICK k \in {0, 1} : m = k + 1 /\ B(j) \in Near(i - 1, k)
      BY <2>1, <2>3, <3>1
    <3> QED
      BY <1>9, <2>3, <3>2
  <2>4. ASSUME i \in 1 .. Len(a), j \in 1 .. Len(b), M[i][j] = M[i - 1][j - 1] + 1
        PROVE  B(j) \in Near(i, m)
    <3>1. i - 1 \in 0 .. Len(a) /\ j - 1 \in 0 .. Len(b) /\ (i - 1) + (j - 1) < i + j
      BY <1>4, <2>4
    <3>2. PICK k \in {0, 1} : m = k + 1 /\ B(j - 1) \in Near(i - 1, k)
      BY <2>1, <2>4, <3>1
    <3> QED
      BY <1>11, <2>4, <3>2
  <2>5. ASSUME i \in 1 .. Len(a), j \in 1 .. Len(b), a[i] = b[j], M[i][j] = M[i - 1][j - 1]
        PROVE  B(j) \in Near(i, m)
    <3>1. i - 1 \in 0 .. Len(a) /\ j - 1 \in 0 .. Len(b) /\ (i - 1) + (j - 1) < i + j
      <4>1. i \in 1 .. Len(a) /\ j \in 1 .. Len(b)
        BY <2>5
      <4> QED
        BY <1>4, <4>1
    <3>2. ~Bad(i - 1, j - 1) /\ M[i - 1][j - 1] <= m
      BY <1>13, <2>5, <3>1
    <3>3. B(j - 1) \in Near(i - 1, m)
      BY <3>2
    <3> QED
      BY <1>10, <2>5, <3>3
  <2>6. CASE i = 0 /\ j = 0
    BY <1>3, <1>12, <2>6
  <2>7. CASE i = 0 /\ j # 0
    <3>1. j \in 1 .. Len(b) /\ j - 1 \in 0 .. Len(b) /\ j = (j - 1) + 1
      BY <1>4, <2>7
    <3>2. M[i][j] = j /\ M[i][j - 1] = j - 1
      BY <1>2, <2>7, <3>1
    <3> QED
      BY <2>2, <3>1, <3>2
  <2>8. CASE i # 0 /\ j = 0
    <3>1. i \in 1 .. Len(a)
      BY <1>4, <2>8
    <3>2. M[i][j] = M[i - 1][j] + 1
      BY <1>2, <2>8, <3>1
    <3> QED
      BY <2>3, <3>1, <3>2
  <2>9. CASE i # 0 /\ j # 0
    <3>1. i \in 1 .. Len(a) /\ j \in 1 .. Len(b)
      BY <1>4, <2>9
    <3>2. Cell(M[i][j], M[i - 1][j], M[i][j - 1], M[i - 1][j - 1], a[i] = b[j])
      BY <1>2, <3>1
    <3>3. \/ M[i][j] = M[i - 1][j] + 1 \/ M[i][j] = M[i][j - 1] + 1
          \/ a[i] = b[j] /\ M[i][j] = M[i - 1][j - 1]
          \/ M[i][j] = M[i - 1][j - 1] + 1
      BY <3>2 DEF Cell
    <3> QED
      BY <2>2, <2>3, <2>4, <2>5, <3>1, <3>3
  <2> QED
    BY <2>6, <2>7, <2>8, <2>9
<1> HIDE DEF Bad
<1>14. S = {}
  <2> SUFFICES ASSUME S # {} PROVE FALSE
    OBVIOUS
  <2>1. S \subseteq Nat
    OBVIOUS
  <2>2. PICK k \in S : \A m \in S : k <= m
    BY <2>1, LeastNumber
  <2>3. PICK i \in 0 .. Len(a) : \E j \in 0 .. Len(b) : k = i + j /\ Bad(i, j)
    OBVIOUS
  <2>4. PICK j \in 0 .. Len(b) : k = i + j /\ Bad(i, j)
    BY <2>3
  <2>5. ASSUME NEW g \in 0 .. Len(a), NEW h \in 0 .. Len(b), g + h < i + j
        PROVE  ~Bad(g, h)
    <3>1. k \in Nat /\ g + h \in Nat /\ g + h < k
      BY <1>4, <2>4, <2>5
    <3> HIDE DEF S
    <3>2. g + h \notin S
      BY <2>2, <3>1
    <3> USE DEF S
    <3>3. g + h \in Nat
      BY <3>1
    <3> QED
      BY <3>2, <3>3
  <2>6. PICK m \in {0, 1, 2} : M[i][j] <= m /\ B(j) \notin Near(i, m)
    BY <2>4 DEF Bad
  <2> QED
    BY <1>13, <2>5, <2>6
<1>15. ~Bad(Len(a), Len(b))
  <2>1. Len(a) \in 0 .. Len(a) /\ Len(b) \in 0 .. Len(b) /\ Len(a) + Len(b) \in Nat
    BY <1>4
  <2>2. Len(a) + Len(b) \notin S
    BY <1>14
  <2> QED
    BY <2>1, <2>2
<1>16. B(Len(b)) \in Near(Len(a), n)
  BY <1>1, <1>15 DEF Bad
<1> QED
  BY <1>3, <1>16 DEF Near

\* Up to two edits, the most the code ever allows, levenshtein is the number of
\* edits it takes to make b of a, with any letters that b is made of.
THEOREM DistanceCountsEdits ==
  ASSUME NEW letters, letters \subseteq Nat, NEW a \in Seq(Nat), NEW b \in Seq(Nat),
         ToSet(b) \subseteq letters, NEW n \in {0, 1, 2}
  PROVE  levenshtein(a, b) <= n <=> b \in WithinEdits(a, n, letters)
<1>1. ASSUME b \in WithinEdits(a, n, letters) PROVE levenshtein(a, b) <= n
  BY <1>1, WithinBound
<1>2. ASSUME levenshtein(a, b) <= n PROVE b \in WithinEdits(a, n, letters)
  BY <1>2, WithinFinds
<1> QED
  BY <1>1, <1>2

-----------------------------------------------------------------------------
(* The words of a text *)

\* The f-th to the l-th character of t are one of its words.
IsField(t, f, l) ==
    /\ f \in 1 .. Len(t) /\ l \in 1 .. Len(t) /\ f <= l
    /\ \A k \in f .. l : t[k] \notin White
    /\ f = 1 \/ t[f - 1] \in White
    /\ l = Len(t) \/ t[l + 1] \in White

LEMMA FieldsAre ==
  ASSUME NEW t \in Seq(Nat)
  PROVE  /\ \A w \in Fields(t) : \E f \in 1 .. Len(t) : \E l \in 1 .. Len(t) :
               IsField(t, f, l) /\ w = SubSeq(t, f, l)
         /\ \A f \in 1 .. Len(t) : \A l \in 1 .. Len(t) :
               IsField(t, f, l) => SubSeq(t, f, l) \in Fields(t)
<1> DEFINE Piece(p) == SubSeq(t, p[1], p[2])
           Spots == {p \in (1 .. Len(t)) \X (1 .. Len(t)) : IsField(t, p[1], p[2])}
<1>1. DOMAIN t = 1 .. Len(t)
  OBVIOUS
<1>2. Spots = {p \in (DOMAIN t) \X (DOMAIN t) :
            /\ p[1] <= p[2]
            /\ \A k \in p[1] .. p[2] : t[k] \notin White
            /\ p[1] = 1 \/ t[p[1] - 1] \in White
            /\ p[2] = Len(t) \/ t[p[2] + 1] \in White}
  BY <1>1 DEF IsField
<1>3. Fields(t) = {Piece(p) : p \in Spots}
  BY <1>2 DEF Fields
<1>4. /\ \A p \in Spots : p[1] \in 1 .. Len(t) /\ p[2] \in 1 .. Len(t) /\ IsField(t, p[1], p[2])
      /\ \A f \in 1 .. Len(t) : \A l \in 1 .. Len(t) :
            IsField(t, f, l) => <<f, l>> \in Spots /\ <<f, l>>[1] = f /\ <<f, l>>[2] = l
  OBVIOUS
<1>5. \A f, l : Piece(<<f, l>>) = SubSeq(t, f, l)
  OBVIOUS
<1>6. \A p : Piece(p) = SubSeq(t, p[1], p[2])
  OBVIOUS
<1> HIDE DEF Piece, Spots
<1>7. ASSUME NEW w \in Fields(t)
      PROVE  \E f \in 1 .. Len(t) : \E l \in 1 .. Len(t) : IsField(t, f, l) /\ w = SubSeq(t, f, l)
  <2>1. PICK p \in Spots : w = Piece(p)
    BY <1>3
  <2> QED
    BY <1>4, <1>6, <2>1
<1>8. ASSUME NEW f \in 1 .. Len(t), NEW l \in 1 .. Len(t), IsField(t, f, l)
      PROVE  SubSeq(t, f, l) \in Fields(t)
  BY <1>3, <1>4, <1>5, <1>8
<1> QED
  BY <1>7, <1>8

\* A word is a text of characters of the text it is in.
LEMMA FieldText ==
  ASSUME NEW t \in Seq(Nat), NEW w \in Fields(t)
  PROVE  w \in Seq(Nat) /\ ToSet(w) \subseteq ToSet(t)
<1>1. PICK f \in 1 .. Len(t) : \E l \in 1 .. Len(t) : IsField(t, f, l) /\ w = SubSeq(t, f, l)
  BY FieldsAre
<1>2. PICK l \in 1 .. Len(t) : IsField(t, f, l) /\ w = SubSeq(t, f, l)
  BY <1>1
<1>3. f \in Nat /\ l \in Nat /\ 1 <= f /\ f <= l + 1 /\ l <= Len(t) /\ Len(t) \in Nat
  BY <1>2 DEF IsField
<1>4. /\ w \in Seq(Nat) /\ Len(w) = l + 1 - f
      /\ \A k \in 1 .. l + 1 - f : w[k] = t[f - 1 + k]
  BY <1>2, <1>3, PieceIs
<1>5. \A k \in 1 .. l + 1 - f : f - 1 + k \in 1 .. Len(t)
  BY <1>3
<1>6. \A k \in 1 .. Len(w) : w[k] \in ToSet(t)
  <2>1. DOMAIN t = 1 .. Len(t)
    OBVIOUS
  <2> QED
    BY <1>4, <1>5, <2>1 DEF ToSet
<1>7. DOMAIN w = 1 .. Len(w)
  BY <1>4
<1> QED
  BY <1>4, <1>6, <1>7 DEF ToSet

\* u stands in s after the n-th character, between white space or the ends.
Stands(s, n, u) ==
    /\ Agree(s, n, u, 0, Len(u))
    /\ n = 0 \/ s[n] \in White
    /\ n + Len(u) = Len(s) \/ s[n + Len(u) + 1] \in White

LEMMA StandsIs ==
  ASSUME NEW s \in Seq(Nat), NEW n, NEW u \in Seq(Nat), Stands(s, n, u)
  PROVE  /\ n \in Nat /\ n + Len(u) <= Len(s)
         /\ \A k \in 1 .. Len(u) : s[n + k] = u[k]
<1>1. \A k \in 1 .. Len(u) : 0 + k = k
  OBVIOUS
<1>2. n \in Nat /\ n + Len(u) <= Len(s) /\ \A k \in 1 .. Len(u) : s[n + k] = u[0 + k]
  BY DEF Stands, Agree
<1> QED
  BY <1>1, <1>2

SamePiece(s, g, m, u, f, l) == IsField(u, f, l) => SubSeq(s, g, m) = SubSeq(u, f, l)

LEMMA StandingPiece ==
  ASSUME NEW s \in Seq(Nat), NEW n, NEW u \in Seq(Nat), Stands(s, n, u),
         NEW f \in 1 .. Len(u), NEW l \in 1 .. Len(u)
  PROVE  SamePiece(s, n + f, n + l, u, f, l)
<1> SUFFICES ASSUME f <= l PROVE SubSeq(s, n + f, n + l) = SubSeq(u, f, l)
  BY DEF SamePiece, IsField
<1>1. /\ n \in Nat /\ n + Len(u) <= Len(s)
      /\ \A k \in 1 .. Len(u) : s[n + k] = u[k]
  BY StandsIs
<1> DEFINE g == n + f
           m == n + l
           x == SubSeq(s, g, m)
           y == SubSeq(u, f, l)
           d == l + 1 - f
<1>2. /\ g \in Nat /\ m \in Nat /\ 1 <= g /\ g <= m + 1 /\ m <= Len(s) /\ m + 1 - g = d
      /\ f \in Nat /\ l \in Nat /\ 1 <= f /\ f <= l + 1 /\ l <= Len(u)
      /\ d \in Nat
      /\ \A k \in 1 .. d : g - 1 + k = n + (f - 1 + k) /\ f - 1 + k \in 1 .. Len(u)
  BY <1>1, SMTT(60)
<1> HIDE DEF g, m
<1>3. /\ x \in Seq(Nat) /\ Len(x) = m + 1 - g
      /\ \A k \in 1 .. m + 1 - g : x[k] = s[g - 1 + k]
  BY <1>2, PieceIs
<1>4. /\ y \in Seq(Nat) /\ Len(y) = l + 1 - f
      /\ \A k \in 1 .. l + 1 - f : y[k] = u[f - 1 + k]
  BY <1>2, PieceIs
<1>5. Len(x) = d /\ \A k \in 1 .. d : x[k] = s[g - 1 + k]
  BY <1>2, <1>3
<1>6. Len(y) = d /\ \A k \in 1 .. d : y[k] = u[f - 1 + k]
  BY <1>4
<1> HIDE DEF x, y, d
<1>7. \A k \in 1 .. d : x[k] = y[k]
  BY <1>1, <1>2, <1>5, <1>6, ZenonT(60)
<1>8. x = [k \in 1 .. d |-> x[k]] /\ y = [k \in 1 .. d |-> y[k]]
  BY <1>3, <1>4, <1>5, <1>6
<1>9. x = y
  BY <1>7, <1>8
<1> QED
  BY <1>9 DEF x, y, g, m

LEMMA StandingField ==
  ASSUME NEW s \in Seq(Nat), NEW n, NEW u \in Seq(Nat), Stands(s, n, u),
         NEW f \in 1 .. Len(u), NEW l \in 1 .. Len(u)
  PROVE  IsField(s, n + f, n + l) <=> IsField(u, f, l)
<1>1. /\ n \in Nat /\ n + Len(u) <= Len(s) /\ Len(u) \in Nat /\ Len(s) \in Nat
      /\ \A k \in 1 .. Len(u) : s[n + k] = u[k]
  BY StandsIs, SMTT(60)
<1>2. /\ n = 0 \/ s[n] \in White
      /\ n + Len(u) = Len(s) \/ s[n + Len(u) + 1] \in White
  BY DEF Stands
<1>3. /\ n + f \in 1 .. Len(s) /\ n + l \in 1 .. Len(s) /\ (n + f <= n + l <=> f <= l)
      /\ f # 1 => f - 1 \in 1 .. Len(u) /\ (n + f) - 1 = n + (f - 1) /\ n + f # 1
      /\ l # Len(u) => l + 1 \in 1 .. Len(u) /\ (n + l) + 1 = n + (l + 1) /\ n + l # Len(s)
  <2> DEFINE a == Len(s)
             b == Len(u)
  <2>1. n \in Nat /\ a \in Nat /\ b \in Nat /\ n + b <= a /\ f \in 1 .. b /\ l \in 1 .. b
    BY <1>1
  <2> HIDE DEF a, b
  <2>2. n + f \in 1 .. a /\ n + l \in 1 .. a /\ (n + f <= n + l <=> f <= l)
    BY <2>1
  <2>3. f # 1 => f - 1 \in 1 .. b /\ (n + f) - 1 = n + (f - 1) /\ n + f # 1
    BY <2>1
  <2>4. l # b => l + 1 \in 1 .. b /\ (n + l) + 1 = n + (l + 1) /\ n + l # a
    BY <2>1
  <2> QED
    BY <2>2, <2>3, <2>4 DEF a, b
<1>4. (\A k \in n + f .. n + l : s[k] \notin White) <=> (\A k \in f .. l : u[k] \notin White)
  <2>1. ASSUME NEW k \in f .. l PROVE n + k \in n + f .. n + l /\ s[n + k] = u[k]
    <3>1. n + k \in n + f .. n + l /\ k \in 1 .. Len(u)
      BY <1>1
    <3> QED
      BY <1>1, <3>1
  <2>2. ASSUME NEW k \in n + f .. n + l PROVE \E h \in f .. l : k = n + h
    <3>1. k - n \in f .. l /\ k = n + (k - n)
      BY <1>1
    <3> QED
      BY <3>1
  <2> QED
    BY <2>1, <2>2
<1>5. (n + f = 1 \/ s[(n + f) - 1] \in White) <=> (f = 1 \/ u[f - 1] \in White)
  <2>1. CASE f = 1
    <3>1. (n + f) - 1 = n /\ (n = 0 => n + f = 1)
      BY <1>1, <2>1
    <3> QED
      BY <1>2, <2>1, <3>1
  <2>2. CASE f # 1
    <3>1. f - 1 \in 1 .. Len(u) /\ (n + f) - 1 = n + (f - 1) /\ n + f # 1
      BY <1>3, <2>2
    <3>2. s[n + (f - 1)] = u[f - 1]
      BY <1>1, <3>1
    <3> QED
      BY <2>2, <3>1, <3>2
  <2> QED
    BY <2>1, <2>2
<1>6. (n + l = Len(s) \/ s[(n + l) + 1] \in White) <=> (l = Len(u) \/ u[l + 1] \in White)
  <2>1. CASE l = Len(u)
    BY <1>2, <2>1
  <2>2. CASE l # Len(u)
    <3>1. l + 1 \in 1 .. Len(u) /\ (n + l) + 1 = n + (l + 1) /\ n + l # Len(s)
      BY <1>3, <2>2
    <3>2. s[n + (l + 1)] = u[l + 1]
      BY <1>1, <3>1
    <3> QED
      BY <2>2, <3>1, <3>2
  <2> QED
    BY <2>1, <2>2
<1> DEFINE g == n + f
           m == n + l
<1>7. /\ (\A k \in g .. m : s[k] \notin White) <=> (\A k \in f .. l : u[k] \notin White)
      /\ (g = 1 \/ s[g - 1] \in White) <=> (f = 1 \/ u[f - 1] \in White)
      /\ (m = Len(s) \/ s[m + 1] \in White) <=> (l = Len(u) \/ u[l + 1] \in White)
      /\ g \in 1 .. Len(s) /\ m \in 1 .. Len(s) /\ (g <= m <=> f <= l)
  BY <1>3, <1>4, <1>5, <1>6
<1> HIDE DEF g, m
<1>8. IsField(s, g, m) <=> IsField(u, f, l)
  BY <1>7 DEF IsField
<1> QED
  BY <1>8 DEF g, m

\* Text between two words is not part of either.
LEMMA FieldsJoin ==
  ASSUME NEW t \in Seq(Nat), NEW u \in Seq(Nat)
  PROVE  /\ t \o <<Space>> \o u \in Seq(Nat)
         /\ Fields(t \o <<Space>> \o u) = Fields(t) \cup Fields(u)
<1> DEFINE p == Len(t)
           n == p + 1
           r == t \o <<Space>>
           s == r \o u
<1>1. Space \in Nat /\ Space \in White /\ <<Space>> \in Seq(Nat) /\ Len(<<Space>>) = 1 /\ <<Space>>[1] = Space
  BY DEF Space, White
<1>2. p \in Nat /\ Len(u) \in Nat /\ n \in Nat
  OBVIOUS
<1>3. /\ r \in Seq(Nat) /\ Len(r) = n /\ r[n] = Space
      /\ \A k \in 1 .. p : r[k] = t[k]
  <2>1. /\ r \in Seq(Nat) /\ Len(r) = Len(t) + Len(<<Space>>)
        /\ \A k \in 1 .. Len(t) : r[k] = t[k]
        /\ \A k \in 1 .. Len(<<Space>>) : r[Len(t) + k] = <<Space>>[k]
    BY <1>1, JoinIs
  <2>2. 1 \in 1 .. Len(<<Space>>)
    BY <1>1
  <2> QED
    BY <1>1, <2>1, <2>2
<1> HIDE DEF r
<1>4. /\ s \in Seq(Nat) /\ Len(s) = Len(r) + Len(u)
      /\ \A k \in 1 .. Len(r) : s[k] = r[k]
      /\ \A k \in 1 .. Len(u) : s[Len(r) + k] = u[k]
  BY <1>3, JoinIs
<1> HIDE DEF s
<1>5. /\ Len(s) = n + Len(u) /\ s[n] = Space
      /\ \A k \in 1 .. p : s[k] = t[k]
      /\ \A k \in 1 .. Len(u) : s[n + k] = u[k]
  <2>1. \A k \in 1 .. p : k \in 1 .. Len(r)
    BY <1>2, <1>3
  <2>2. n \in 1 .. Len(r)
    BY <1>2, <1>3
  <2> QED
    BY <1>3, <1>4, <2>1, <2>2
<1>6. Stands(s, 0, t)
  <2>1. \A k \in 1 .. p : 0 + k = k
    BY <1>2
  <2>2. 0 \in Nat /\ 0 + p = p /\ p <= Len(s) /\ 0 + p <= Len(t) /\ 0 + p + 1 = n
    BY <1>2, <1>5
  <2>3. Agree(s, 0, t, 0, Len(t))
    BY <1>2, <1>5, <2>1, <2>2 DEF Agree
  <2> QED
    BY <1>1, <1>5, <2>2, <2>3 DEF Stands
<1>7. Stands(s, n, u)
  <2>1. \A k \in 1 .. Len(u) : 0 + k = k
    BY <1>2
  <2>2. n + Len(u) <= Len(s) /\ 0 + Len(u) <= Len(u) /\ 0 \in Nat
    BY <1>2, <1>5
  <2>3. Agree(s, n, u, 0, Len(u))
    BY <1>2, <1>5, <2>1, <2>2 DEF Agree
  <2> QED
    BY <1>1, <1>5, <2>3 DEF Stands
<1> HIDE DEF n
<1>8. ASSUME NEW v \in {t, u}, NEW w \in Fields(v) PROVE w \in Fields(s)
  <2> DEFINE o == IF v = t THEN 0 ELSE n
  <2>1. v \in Seq(Nat) /\ Stands(s, o, v)
    BY <1>6, <1>7
  <2>2. o \in Nat /\ o + Len(v) <= Len(s)
    BY <1>4, <2>1, StandsIs
  <2> HIDE DEF o
  <2>3. PICK f \in 1 .. Len(v) : \E l \in 1 .. Len(v) : IsField(v, f, l) /\ w = SubSeq(v, f, l)
    BY <2>1, FieldsAre
  <2>4. PICK l \in 1 .. Len(v) : IsField(v, f, l) /\ w = SubSeq(v, f, l)
    BY <2>3
  <2>5. o + f \in 1 .. Len(s) /\ o + l \in 1 .. Len(s) /\ f <= l
    <3>1. f <= l /\ Len(v) \in Nat /\ Len(s) \in Nat
      BY <1>4, <2>1, <2>4 DEF IsField
    <3> QED
      BY <2>2, <3>1
  <2>6. IsField(s, o + f, o + l)
    BY <1>4, <2>1, <2>4, StandingField
  <2>7. SubSeq(s, o + f, o + l) = w
    <3>1. SamePiece(s, o + f, o + l, v, f, l)
      BY <1>4, <2>1, StandingPiece
    <3> QED
      BY <2>4, <3>1 DEF SamePiece
  <2> QED
    BY <1>4, <2>5, <2>6, <2>7, FieldsAre
<1>9. ASSUME NEW w \in Fields(s) PROVE w \in Fields(t) \/ w \in Fields(u)
  <2>1. PICK g \in 1 .. Len(s) : \E m \in 1 .. Len(s) : IsField(s, g, m) /\ w = SubSeq(s, g, m)
    BY <1>4, FieldsAre
  <2>2. PICK m \in 1 .. Len(s) : IsField(s, g, m) /\ w = SubSeq(s, g, m)
    BY <2>1
  <2>3. g <= m /\ \A k \in g .. m : s[k] \notin White
    BY <2>2 DEF IsField
  <2>4. g \in Nat /\ m \in Nat /\ 1 <= g /\ m <= Len(s)
    OBVIOUS
  <2>5. n \notin g .. m
    BY <1>1, <1>5, <2>3
  <2>6. CASE m < n
    <3>1. g \in 1 .. p /\ m \in 1 .. p /\ 0 + g = g /\ 0 + m = m
      BY <1>2, <2>3, <2>4, <2>6 DEF n
    <3>2. IsField(t, g, m)
      BY <1>4, <1>6, <2>2, <3>1, StandingField
    <3>3. SubSeq(s, g, m) = SubSeq(t, g, m)
      <4>1. SamePiece(s, 0 + g, 0 + m, t, g, m)
        BY <1>4, <1>6, <3>1, StandingPiece
      <4> QED
        BY <3>1, <3>2, <4>1 DEF SamePiece
    <3> QED
      BY <2>2, <3>1, <3>2, <3>3, FieldsAre
  <2>7. CASE g > n
    <3> DEFINE f == g - n
               l == m - n
    <3>1. f \in 1 .. Len(u) /\ l \in 1 .. Len(u) /\ n + f = g /\ n + l = m /\ f <= l
      BY <1>2, <1>5, <2>3, <2>4, <2>7
    <3> HIDE DEF f, l
    <3>2. IsField(u, f, l)
      <4>1. IsField(s, n + f, n + l) <=> IsField(u, f, l)
        BY <1>4, <1>7, <3>1, StandingField
      <4> QED
        BY <2>2, <3>1, <4>1
    <3>3. SubSeq(s, g, m) = SubSeq(u, f, l)
      <4>1. SamePiece(s, n + f, n + l, u, f, l)
        BY <1>4, <1>7, <3>1, StandingPiece
      <4> QED
        BY <3>1, <3>2, <4>1 DEF SamePiece
    <3> QED
      BY <2>2, <3>1, <3>2, <3>3, FieldsAre
  <2>8. m < n \/ g > n
    BY <1>2, <2>3, <2>4, <2>5
  <2> QED
    BY <2>6, <2>7, <2>8
<1>10. Fields(s) = Fields(t) \cup Fields(u)
  BY <1>8, <1>9
<1> QED
  BY <1>4, <1>10 DEF s, r

LEMMA LowerIs ==
  ASSUME NEW t \in Seq(Nat)
  PROVE  /\ ToLower(t) \in Seq(Nat) /\ Len(ToLower(t)) = Len(t)
         /\ \A k \in 1 .. Len(t) : ToLower(t)[k] = IF t[k] \in Letters THEN Lower[t[k]] ELSE t[k]
<1>1. ToLower(t) \in Seq(Nat)
  BY LowerText
<1>2. DOMAIN t = 1 .. Len(t) /\ Len(t) \in Nat
  OBVIOUS
<1>3. DOMAIN ToLower(t) = 1 .. Len(t)
  BY <1>2 DEF ToLower
<1>4. Len(ToLower(t)) = Len(t)
  BY <1>1, <1>2, <1>3
<1>5. \A k \in 1 .. Len(t) : ToLower(t)[k] = IF t[k] \in Letters THEN Lower[t[k]] ELSE t[k]
  BY <1>2 DEF ToLower
<1> QED
  BY <1>1, <1>4, <1>5

LEMMA LowerJoin ==
  ASSUME NEW s \in Seq(Nat), NEW t \in Seq(Nat)
  PROVE  ToLower(s \o t) = ToLower(s) \o ToLower(t)
<1> DEFINE low(c) == IF c \in Letters THEN Lower[c] ELSE c
           z == s \o t
           ls == ToLower(s)
           lt == ToLower(t)
           x == ToLower(z)
           y == ls \o lt
           n == Len(s)
           m == Len(t)
<1>1. /\ z \in Seq(Nat) /\ Len(z) = n + m
      /\ \A k \in 1 .. n : z[k] = s[k]
      /\ \A k \in 1 .. m : z[n + k] = t[k]
  BY JoinIs
<1>2. x \in Seq(Nat) /\ Len(x) = n + m /\ \A k \in 1 .. n + m : x[k] = low(z[k])
  <2> HIDE DEF z
  <2> QED
    BY <1>1, LowerIs
<1>3. /\ ls \in Seq(Nat) /\ Len(ls) = n /\ \A k \in 1 .. n : ls[k] = low(s[k])
      /\ lt \in Seq(Nat) /\ Len(lt) = m /\ \A k \in 1 .. m : lt[k] = low(t[k])
  BY LowerIs
<1>4. /\ y \in Seq(Nat) /\ Len(y) = n + m
      /\ \A k \in 1 .. n : y[k] = ls[k]
      /\ \A k \in 1 .. m : y[n + k] = lt[k]
  <2> HIDE DEF ls, lt
  <2>1. /\ y \in Seq(Nat) /\ Len(y) = Len(ls) + Len(lt)
        /\ \A k \in 1 .. Len(ls) : y[k] = ls[k]
        /\ \A k \in 1 .. Len(lt) : y[Len(ls) + k] = lt[k]
    BY <1>3, JoinIs
  <2> QED
    BY <1>3, <2>1
<1>5. n \in Nat /\ m \in Nat
  OBVIOUS
<1> HIDE DEF x, y, z, ls, lt, n, m, low
<1>6. ASSUME NEW k \in 1 .. n + m PROVE x[k] = y[k]
  <2>1. CASE k <= n
    <3>1. k \in 1 .. n
      BY <1>5, <2>1
    <3>2. x[k] = low(z[k]) /\ z[k] = s[k] /\ y[k] = ls[k] /\ ls[k] = low(s[k])
      BY <1>1, <1>2, <1>3, <1>4, <3>1
    <3> QED
      BY <3>2
  <2>2. CASE k > n
    <3>1. PICK h \in 1 .. m : k = n + h
      <4>1. k - n \in 1 .. m /\ k = n + (k - n)
        BY <1>5, <2>2
      <4> QED
        BY <4>1
    <3>2. z[n + h] = t[h] /\ y[n + h] = lt[h] /\ lt[h] = low(t[h])
      BY <1>1, <1>3, <1>4
    <3>3. x[k] = low(z[k])
      BY <1>2
    <3> QED
      BY <3>1, <3>2, <3>3
  <2> QED
    BY <1>5, <2>1, <2>2
<1>7. x = [k \in 1 .. n + m |-> x[k]] /\ y = [k \in 1 .. n + m |-> y[k]]
  BY <1>2, <1>4
<1>8. x = y
  BY <1>6, <1>7
<1> QED
  BY <1>8 DEF x, y, z, ls, lt

LEMMA LowerSpace == ToLower(<<Space>>) = <<Space>> /\ <<Space>> \in Seq(Nat)
<1>1. <<Space>> \in Seq(Nat) /\ Len(<<Space>>) = 1 /\ <<Space>>[1] = Space
  BY DEF Space
<1>2. Space \notin Letters
  BY LowerAssumption DEF Space, Mark
<1> DEFINE x == ToLower(<<Space>>)
<1>3. x \in Seq(Nat) /\ Len(x) = 1 /\ x[1] = Space
  <2>1. 1 \in 1 .. Len(<<Space>>)
    BY <1>1
  <2> QED
    BY <1>1, <1>2, <2>1, LowerIs
<1> HIDE DEF x
<1>4. x = <<Space>>
  BY <1>3
<1> QED
  BY <1>1, <1>4 DEF x

-----------------------------------------------------------------------------
(* The words found *)

LEMMA BytesAre ==
  ASSUME NEW t \in Seq(Nat)
  PROVE  Bytes(t) \in Nat /\ Len(t) \in Nat /\ Len(t) <= Bytes(t)
<1> DEFINE wide == {i \in DOMAIN t : t[i] \in Wide}
<1>1. DOMAIN t = 1 .. Len(t) /\ Len(t) \in Nat
  OBVIOUS
<1>2. IsFiniteSet(1 .. Len(t))
  BY <1>1, FS_Interval
<1>3. IsFiniteSet(wide)
  BY <1>1, <1>2, FS_Subset
<1>4. Cardinality(wide) \in Nat
  BY <1>3, FS_CardinalityType
<1>5. Bytes(t) = Len(t) + Cardinality(wide)
  BY DEF Bytes
<1> HIDE DEF wide
<1> QED
  BY <1>1, <1>4, <1>5

LEMMA IncludesItself ==
  ASSUME NEW w \in Seq(Nat)
  PROVE  Includes(w, w)
<1>1. Len(w) \in Nat /\ Len(w) <= Len(w) /\ 0 \in 0 .. Len(w) - Len(w)
  OBVIOUS
<1>2. SubSeq(w, 0 + 1, 0 + Len(w)) = w
  <2>1. 0 + 1 = 1 /\ 0 + Len(w) = Len(w)
    BY <1>1
  <2>2. SubSeq(w, 1, Len(w)) = w
    OBVIOUS
  <2> QED
    BY <2>1, <2>2
<1> QED
  BY <1>1, <1>2 DEF Includes

\* A word found is a word promised, unless some of its letters take two bytes.
LEMMA WordFound ==
  ASSUME NEW word \in Seq(Nat), NEW words, NEW letters, letters \subseteq Nat,
         \A w \in words : w \in Seq(Nat) /\ ToSet(w) \subseteq letters
  PROVE  /\ (\E w \in words : Includes(w, word) \/ w \in WithinEdits(word, PromisedTypos(word), letters))
              => matchesAnyWord(word, words)
         /\ matchesAnyWord(word, words) /\ Bytes(word) = Len(word)
              => \E w \in words : Includes(w, word) \/ w \in WithinEdits(word, PromisedTypos(word), letters)
<1> DEFINE n == PromisedTypos(word)
           l == Len(word)
           bytes == Bytes(word)
<1>1. bytes \in Nat /\ l \in Nat /\ l <= bytes
  BY BytesAre
<1>2. n \in {0, 1, 2} /\ n = (IF l <= 2 THEN 0 ELSE IF l <= 4 THEN 1 ELSE 2)
  BY DEF PromisedTypos
<1>3. wordTolerance(word) = IF bytes <= 4 THEN 1 ELSE 2
  BY DEF wordTolerance
<1> HIDE DEF n, l, bytes
<1>4. ASSUME NEW w \in words, Includes(w, word) \/ w \in WithinEdits(word, n, letters)
      PROVE  matchesAnyWord(word, words)
  <2>1. CASE Includes(w, word)
    BY <2>1 DEF matchesAnyWord
  <2>2. CASE w \in WithinEdits(word, n, letters) /\ n = 0
    <3>1. w = word
      BY <2>2, WithinIs
    <3>2. Includes(w, word)
      BY <3>1, IncludesItself
    <3> QED
      BY <3>2 DEF matchesAnyWord
  <2>3. CASE w \in WithinEdits(word, n, letters) /\ n # 0
    <3>1. levenshtein(word, w) <= n
      BY <1>2, <2>3, WithinBound
    <3>2. levenshtein(word, w) \in Nat
      BY <1>4, Distance
    <3>3. bytes > 2 /\ wordTolerance(word) \in Nat /\ n \in Nat /\ n <= wordTolerance(word)
      BY <1>1, <1>2, <1>3, <2>3
    <3>4. levenshtein(word, w) <= wordTolerance(word)
      BY <3>1, <3>2, <3>3
    <3> QED
      BY <1>4, <3>3, <3>4 DEF matchesAnyWord, bytes
  <2> QED
    BY <1>4, <2>1, <2>2, <2>3
<1>5. ASSUME matchesAnyWord(word, words), bytes = l
      PROVE  \E w \in words : Includes(w, word) \/ w \in WithinEdits(word, n, letters)
  <2>1. \/ \E w \in words : Includes(w, word)
        \/ bytes > 2 /\ \E w \in words : levenshtein(word, w) <= wordTolerance(word)
    BY <1>5 DEF matchesAnyWord, bytes
  <2>2. CASE bytes > 2 /\ \E w \in words : levenshtein(word, w) <= wordTolerance(word)
    <3>1. PICK w \in words : levenshtein(word, w) <= wordTolerance(word)
      BY <2>2
    <3>2. wordTolerance(word) = n
      BY <1>1, <1>2, <1>3, <1>5, <2>2
    <3>3. levenshtein(word, w) <= n
      BY <3>1, <3>2
    <3>4. w \in WithinEdits(word, n, letters)
      BY <1>2, <3>3, WithinFinds
    <3> QED
      BY <3>4
  <2> QED
    BY <2>1, <2>2
<1> QED
  BY <1>4, <1>5 DEF n, l, bytes
=============================================================================
