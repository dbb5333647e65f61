CONSTANTS
    u1 = u1  u2 = u2  i1 = i1  i2 = i2
    meta = meta  bare = bare  huge = huge  unread = unread  read = read  latin = latin  garbled = garbled
    Users = {u1}
    Isbns = {i1, i2}
    Metas = {meta, bare, huge}
    Complete = {meta, huge}
    Details = {unread, read, latin, garbled}
    ValidDetails = {unread, read, latin}
    Default = unread
    Refused = {huge, latin}
    ImportFiles <- MixedFiles
    BookIds = {b1, b2}
    EntryIds = {e1, e2, e3, e4}
    Requests = {r1, r2}
    Faulty = {r1, r2}
    None = None
SPECIFICATION FairSpec
INVARIANTS
    ImportAccountsForEveryRow
PROPERTIES
    EveryRequestAnswered
