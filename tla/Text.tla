-------------------------------- MODULE Text --------------------------------
(***************************************************************************)
(* Texts, and the functions of Go's strings package the program applies to *)
(* them.  A text is a sequence of characters; a character is a number, and *)
(* the program tells apart the ones named here.                            *)
(***************************************************************************)
EXTENDS Naturals, SequencesExt

CONSTANTS
    Wide,   \* the letters that take two bytes in UTF-8, such as ae, oe and aa
    Lower   \* Lower[c]: the lower case of letter c

Digits     == 0 .. 9
CheckX     == 10    \* X or x, the check digit of an ISBN-10 that stands for ten
Space      == 11
Tab        == 12    \* white space, and a formula character too
Return     == 13    \* \r: so is this
Newline    == 14    \* \n
Formula    == 15    \* one of = + - @
Apostrophe == 16
Mark       == 17    \* any other punctuation
Letters    == DOMAIN Lower

White           == {Space, Tab, Return, Newline}
FormulaPrefixes == {Formula, Tab, Return}

ASSUME LowerAssumption ==
    /\ \A c \in Letters : c \in Nat /\ c > Mark /\ Lower[c] \in Letters
    /\ Wide \subseteq Letters

ToLower(t) == [i \in DOMAIN t |-> IF t[i] \in Letters THEN Lower[t[i]] ELSE t[i]]

TrimSpace(t) ==
    LET solid == {i \in DOMAIN t : t[i] \notin White}
    IN  IF solid = {} THEN <<>> ELSE SubSeq(t, Min(solid), Max(solid))

\* The words of t; what the program does with them does not depend on their order.
Fields(t) ==
    {SubSeq(t, p[1], p[2]) : p \in
        {p \in (DOMAIN t) \X (DOMAIN t) :
            /\ p[1] <= p[2]
            /\ \A k \in p[1] .. p[2] : t[k] \notin White
            /\ p[1] = 1 \/ t[p[1] - 1] \in White
            /\ p[2] = Len(t) \/ t[p[2] + 1] \in White}}

\* strings.Contains
Includes(t, part) ==
    /\ Len(part) <= Len(t)
    /\ \E n \in 0 .. Len(t) - Len(part) : SubSeq(t, n + 1, n + Len(part)) = part

\* The elements of S in the order of R, a set of pairs: as many of them come
\* before the n-th as before n.  (Sorting by counting: what it gives can be
\* reasoned about.)
Listing(S, R) ==
    [n \in 1 .. Cardinality(S) |->
        CHOOSE x \in S : Cardinality({y \in S : <<y, x>> \in R}) = n - 1]

\* What is left of s when a loop keeps the elements at the places in I.
Kept(s, I) ==
    LET place == Listing(I, {p \in I \X I : p[1] < p[2]})
    IN  [n \in DOMAIN place |-> s[place[n]]]

\* len of a string counts bytes.
Bytes(t) == Len(t) + Cardinality({i \in DOMAIN t : t[i] \in Wide})

\* strings.Compare of two texts: TRUE if s comes before t.
Precedes(s, t) ==
    LET shorter == 1 .. IF Len(s) < Len(t) THEN Len(s) ELSE Len(t)
        differ  == {i \in shorter : s[i] # t[i]}
    IN  IF differ = {} THEN Len(s) < Len(t) ELSE s[Min(differ)] < t[Min(differ)]
=============================================================================
