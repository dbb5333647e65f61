CONSTANTS
    i1 = i1  i2 = i2  i3 = i3
    N = 3
    Isbns = {i1, i2}
    Resolvers = {r1, r2}
    Catalogue <- SharedCatalogue
    Redis = TRUE
    Faulty = TRUE
    None = None
SPECIFICATION Spec
SYMMETRY Symmetry
INVARIANTS
    IInv
    JoinedBeforeRead
PROPERTIES
    ImplementsChain
    WorseDataHasACause
