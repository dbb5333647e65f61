CONSTANTS
    known = known  unknown = unknown
    Isbns = {known, unknown}
    Catalogue = {known}
    MaxSent = 3
    Faulty = TRUE
    None = None
SPECIFICATION FairSpec
INVARIANTS
    OneLookupAtATime
    NeverSilentlyAdds
PROPERTIES
    NoLateCameraAnswer
    ScannerComesBack
