--------------------------------- MODULE Csv ---------------------------------
(***************************************************************************)
(* The CSV that libraryExport writes and what parseImportCSV makes of a    *)
(* file.  A file is a header of column names and rows of cells; a row may  *)
(* be shorter than the header.  Cells are texts; those of years and        *)
(* statuses hold one value or nothing.                                     *)
(***************************************************************************)
EXTENDS Text

CONSTANTS
    MaxRows,    \* maxImportRows
    MaxNotes    \* maxNotesLen

ASSUME CsvAssumption == MaxRows \in Nat /\ MaxNotes \in Nat

exportColumns == <<"isbn", "title", "author", "publisher", "year", "status", "notes">>

importAliases ==
    [isbn      |-> <<"isbn13", "isbn">>,
     title     |-> <<"title", "tittel">>,
     author    |-> <<"author", "forfatter">>,
     publisher |-> <<"publisher", "forlag">>,
     year      |-> <<"year", "year published", "original publication year">>,
     status    |-> <<"status", "exclusive shelf">>,
     notes     |-> <<"notes", "private notes">>]

-----------------------------------------------------------------------------
(* Cells *)

csvSafe(t) == IF t # <<>> /\ Head(t) \in FormulaPrefixes THEN <<Apostrophe>> \o t ELSE t

\* Mutant: the apostrophe is taken off whatever follows it.
csvUnsafe_Any(t) == IF Len(t) > 1 /\ t[1] = Apostrophe THEN Tail(t) ELSE t

csvUnsafe(t) ==
    IF Len(t) > 1 /\ t[1] = Apostrophe /\ t[2] \in FormulaPrefixes THEN Tail(t) ELSE t

optionalInt(n) == IF n = 0 THEN <<>> ELSE <<n>>
Atoi(cell)     == IF cell = <<>> THEN 0 ELSE Head(cell)

importStatus(cell) ==
    CASE cell = <<"read">> -> "read"
      [] cell \in {<<"currently-reading">>, <<"reading">>} -> "reading"
      [] OTHER -> "unread"

truncateRunes(t, n) == IF Len(t) <= n THEN t ELSE SubSeq(t, 1, n)

isValidEAN13(s) == Len(s) = 13 /\ \A i \in DOMAIN s : s[i] \in Digits

\* The digits at even places, counted from 1, have weight three.
WeightedSum(s) ==
    (s[1] + s[3] + s[5] + s[7] + s[9] + s[11]) + 3 * (s[2] + s[4] + s[6] + s[8] + s[10] + s[12])

\* What is left without punctuation.
Clean(s) ==
    LET places == {i \in DOMAIN s : s[i] \in Digits \cup {CheckX}}
    IN  IF places = DOMAIN s THEN s ELSE Kept(s, places)

\* Mutant: a sum that ends in zero gives the check digit ten.
normalizeISBN_Ten(s) ==
    LET clean == Clean(s)
        body  == <<9, 7, 8>> \o SubSeq(clean, 1, 9)
    IN  IF isValidEAN13(clean) THEN clean
        ELSE IF Len(clean) = 10 /\ isValidEAN13(Append(body, 0))
             THEN Append(body, 10 - (WeightedSum(body) % 10))
             ELSE <<>>

normalizeISBN(s) ==
    LET clean == Clean(s)
        body  == <<9, 7, 8>> \o SubSeq(clean, 1, 9)
    IN  IF isValidEAN13(clean) THEN clean
        ELSE IF Len(clean) = 10 /\ isValidEAN13(Append(body, 0))
             THEN Append(body, (10 - (WeightedSum(body) % 10)) % 10)
             ELSE <<>>

-----------------------------------------------------------------------------
(* Files *)

\* The reader gives a line break of two characters, as texts from a form have
\* them, back as one.
Breaks(t)  == {i \in DOMAIN t : t[i] = Return /\ i < Len(t) /\ t[i + 1] = Newline}
AsRead(t)  == IF Breaks(t) = {} THEN t ELSE Kept(t, DOMAIN t \ Breaks(t))
Trimmed(t) == TrimSpace(AsRead(t))

\* A row the CSV reader reports an error for; it returns no row without cells.
Unreadable == <<>>

\* writeLibraryCSV, for books with what their owner has noted about them.
writeLibraryCSV(books) ==
    [header |-> exportColumns,
     rows   |-> [k \in DOMAIN books |->
        LET b == books[k]
        IN  <<b.isbn, csvSafe(b.title), csvSafe(b.author), csvSafe(b.publisher),
              optionalInt(b.year), <<b.status>>, csvSafe(b.notes)>>]]

\* Where the column is, its first occurrence if there are several, or 0.
Column(file, name) ==
    LET at == {i \in DOMAIN file.header : file.header[i] = name}
    IN  IF at = {} THEN 0 ELSE Min(at)

hasColumn(file, logical) ==
    \E k \in DOMAIN importAliases[logical] : Column(file, importAliases[logical][k]) # 0

\* What the row has in each of the columns a field may be called, in turn.
Cells(file, row, logical) ==
    [k \in DOMAIN importAliases[logical] |->
        LET i == Column(file, importAliases[logical][k])
        IN  IF i \in DOMAIN row THEN row[i] ELSE <<>>]

FirstFilled(cells) ==
    LET filled == {k \in DOMAIN cells : cells[k] # <<>>}
    IN  IF filled = {} THEN <<>> ELSE cells[Min(filled)]

ISBN(file, row) ==
    LET cells == Cells(file, row, "isbn")
    IN  FirstFilled([k \in DOMAIN cells |-> normalizeISBN(cells[k])])

field(file, row, logical) ==
    LET cells == Cells(file, row, logical)
    IN  FirstFilled([k \in DOMAIN cells |-> Trimmed(cells[k])])

entered(file, row, logical) == FirstFilled(Cells(file, row, logical))

Record(file, row) ==
    [isbn      |-> ISBN(file, row),
     title     |-> csvUnsafe(field(file, row, "title")),
     author    |-> csvUnsafe(field(file, row, "author")),
     publisher |-> csvUnsafe(field(file, row, "publisher")),
     year      |-> Atoi(entered(file, row, "year")),
     status    |-> importStatus(entered(file, row, "status")),
     notes     |-> truncateRunes(csvUnsafe(field(file, row, "notes")), MaxNotes)]

Usable(file, row) ==
    /\ row # Unreadable
    /\ ISBN(file, row) # <<>>
    /\ csvUnsafe(field(file, row, "title")) # <<>>

\* A row the reader rejects counts against the limit only for those after it.
TooLong(file) == \E n \in DOMAIN file.rows : n > MaxRows /\ file.rows[n] # Unreadable

Rejected(file) == ~hasColumn(file, "isbn") \/ ~hasColumn(file, "title") \/ TooLong(file)

\* Mutant: a row the reader rejects is not counted.
Skipped_Readable(file, usable) ==
    Cardinality({n \in DOMAIN file.rows : file.rows[n] # Unreadable}) - Len(usable)

Skipped(file, usable) == Len(file.rows) - Len(usable)

parseImportCSV(file) ==
    IF Rejected(file) THEN [failed |-> TRUE, records |-> <<>>, skipped |-> 0]
    ELSE LET usable == Kept(file.rows, {n \in DOMAIN file.rows : Usable(file, file.rows[n])})
         IN  [failed  |-> FALSE,
              records |-> [k \in DOMAIN usable |-> Record(file, usable[k])],
              skipped |-> Skipped(file, usable)]
=============================================================================
