CONSTANTS
    u1 = u1  u2 = u2  i1 = i1  i2 = i2
    meta = meta  bare = bare  huge = huge  unread = unread  read = read  latin = latin  garbled = garbled
    Users = {u1, u2}
    Isbns = {i1}
    Metas = {meta, huge}
    Complete = {meta, huge}
    Details = {unread, read, latin}
    ValidDetails = {unread, read, latin}
    Default = unread
    Refused = {huge, latin}
    ImportFiles <- OneFile
    BookIds = {b1}
    EntryIds = {e1, e2, e3}
    Requests = {r1, r2, r3}
    Faulty = {r1, r2}
    None = None
SPECIFICATION Spec
SYMMETRY Symmetry
INVARIANTS
    IInv
    OneCopyPerUser
    AnswersAreTrue
    EveryCopyAnnouncedOnce
PROPERTIES
    OnlyOwnerChanges
    NoResurrection
    FailureHasACause
    ImplementsShelf
