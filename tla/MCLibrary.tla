------------------------------ MODULE MCLibrary ------------------------------
(***************************************************************************)
(* A small library for TLC: words of the letters a, b, c and o-slash, some *)
(* of them a typo apart.                                                   *)
(***************************************************************************)
EXTENDS Library, TLC

a == 21  b == 22  c == 23  o == 24  UpperA == 20

WideLetters == {o}
LowerCase   == (UpperA :> a) @@ [x \in {a, b, c, o} |-> x]

\* 0-14-312755-1 by its other number, whose check digit is 0.
isbn1 == <<9, 7, 8, 0, 1, 4, 3, 1, 2, 7, 5, 5, 0>>
isbn2 == <<9, 7, 8, 8, 2, 0, 5, 1, 2, 3, 4, 5, 8>>
isbn3 == <<9, 7, 8, 0, 8, 0, 4, 4, 2, 9, 5, 7, 3>>

Book(isbn, title, author, publisher, year, status, notes) ==
    [isbn |-> isbn, title |-> title, author |-> author, publisher |-> publisher,
     year |-> year, status |-> status, notes |-> notes]

InitialBooks ==
    <<Book(isbn1, <<a, b, a, b>>, <<c>>, <<Apostrophe, b>>, 1999, "reading", <<Tab, a, Newline, b>>),
      Book(isbn2, <<b, o>>, <<>>, <<b, Space, c>>, 0, "read", <<Apostrophe, Formula, a>>)>>

AddedBooks == {Book(isbn3, <<UpperA, b, a, b>>, <<b>>, <<c>>, 2001, "unread", <<a, Return, Newline, b>>)}

\* As Goodreads exports: an ISBN-10 beside an empty ISBN-13 and a review with
\* line breaks and one character too many, a row that cannot be read, one whose
\* ISBN-13 is set in punctuation.
GoodreadsFile ==
    [header |-> <<"title", "author", "isbn", "isbn13", "year published", "exclusive shelf", "private notes">>,
     rows   |-> <<
        <<<<a, b, a, b>>, <<c>>, <<Mark, 0, 1, 4, 3, 1, 2, 7, 5, 5, 1, Mark>>, <<Mark>>, <<1999>>, <<"read">>,
          <<Space, a, Return, Newline, b, c, a, Newline>>>>,
        Unreadable,
        <<<<Space, Apostrophe, Formula, o>>, <<>>, <<>>,
          <<9, 7, 8, Formula, 0, Formula, 8, 0, 4, 4, Formula, 2, 9, 5, 7, Formula, 3>>>>>>]

UploadedFiles == {GoodreadsFile}

Unknown       == <<c, a>>

Query(q, f, sort) == [q |-> q, field |-> f, sort |-> sort]

\* Five letters two typos away from a title, and two letters of three bytes.
SearchQueries ==
    {Query(<<>>, "all", "new"), Query(<<UpperA, c, b, a, c>>, "publisher", "title"),
     Query(<<b, o>>, "all", "old")}

OpenQuery == Query(<<>>, "all", "new")

ASSUME GenuineNumbers
=============================================================================
