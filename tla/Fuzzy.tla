-------------------------------- MODULE Fuzzy --------------------------------
(***************************************************************************)
(* Typo-tolerant matching, as package fuzzy does it.  Below it is what the *)
(* comments of that package promise, defined by edits of words.            *)
(***************************************************************************)
EXTENDS Text

\* Mutant: the cell to the upper left is read from the row being written.
NextRow_OneRow(prev, c, b) ==
    LET curr[j \in 0 .. Len(b)] ==
            IF j = 0 THEN prev[0] + 1
            ELSE Min({prev[j] + 1, curr[j - 1] + 1, curr[j - 1] + IF c = b[j] THEN 0 ELSE 1})
    IN  curr

\* The row after prev, for one more letter c of a: filled from left to right.
NextRow(prev, c, b) ==
    LET curr[j \in 0 .. Len(b)] ==
            IF j = 0 THEN prev[0] + 1
            ELSE Min({prev[j] + 1, curr[j - 1] + 1, prev[j - 1] + IF c = b[j] THEN 0 ELSE 1})
    IN  curr

levenshtein(a, b) ==
    LET row[i \in 0 .. Len(a)] ==
            IF i = 0 THEN [j \in 0 .. Len(b) |-> j] ELSE NextRow(row[i - 1], a[i], b)
    IN  row[Len(a)][Len(b)]

wordTolerance(word) == IF Bytes(word) <= 4 THEN 1 ELSE 2

matchesAnyWord(needleWord, haystackWords) ==
    \/ \E w \in haystackWords : Includes(w, needleWord)
    \/ /\ Bytes(needleWord) > 2
       /\ \E w \in haystackWords : levenshtein(needleWord, w) <= wordTolerance(needleWord)

\* An empty needle has no words and matches everything.
Match(haystack, needle) ==
    LET haystackWords == Fields(ToLower(haystack))
    IN  \A needleWord \in Fields(ToLower(needle)) : matchesAnyWord(needleWord, haystackWords)

-----------------------------------------------------------------------------
(* What is promised *)

\* The words one typo away: a letter left out, put in, or replaced.
OneEdit(w, letters) ==
    LET left(i)  == SubSeq(w, 1, i - 1)
        right(i) == SubSeq(w, i, Len(w))
    IN  {left(i) \o right(i + 1) : i \in DOMAIN w}
        \cup {left(i) \o <<c>> \o right(i) : i \in 1 .. Len(w) + 1, c \in letters}
        \cup {left(i) \o <<c>> \o right(i + 1) : i \in DOMAIN w, c \in letters}

WithinEdits(w, n, letters) ==
    LET one(ws) == ws \cup UNION {OneEdit(v, letters) : v \in ws}
    IN  IF n = 0 THEN {w} ELSE IF n = 1 THEN one({w}) ELSE one(one({w}))

\* Two characters or fewer: none; three or four: one typo; longer: two.
PromisedTypos(word) == IF Len(word) <= 2 THEN 0 ELSE IF Len(word) <= 4 THEN 1 ELSE 2
=============================================================================
