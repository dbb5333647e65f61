CONSTANTS
    Ids = {a, b}
    Emails = {m1, m2}
    Isbns = {i1, seed}
    Seeds = {seed}
    Works = {meta, huge}
    SeedWork = seedMeta
    Details = {unread, scrap}
    Default = unread
    Unset = unset
    Refused = {huge}
    Garbled = {scrap}
    Mended = mended
    None = None
SPECIFICATION Spec
SYMMETRY Symmetry
CHECK_DEADLOCK FALSE
PROPERTIES
    PartOnlyWhereUnfit
    StaysShutOut
