CONSTANTS
    Wide <- WideLetters
    Lower <- LowerCase
    MaxRows = 3
    MaxNotes = 4
    Initial <- InitialBooks
    FormBooks <- AddedBooks
    Files <- UploadedFiles
    Queries <- SearchQueries
    First <- OpenQuery
    PageSize = 2
    MaxPage = 5
    UnknownAuthor <- Unknown
    MaxChanges = 2
    Faulty = TRUE
    None = None
SPECIFICATION FairSpec
INVARIANTS
    ChangesBoundErrors
    QuietScrollIsExact
    SearchKeepsPromise
    
    RowsAddUp
    OneCopyPerEdition
PROPERTIES
    GridCatchesUp
