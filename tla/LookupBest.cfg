CONSTANTS
    i1 = i1  i2 = i2  i3 = i3
    N = 3
    Isbns = {i1, i2, i3}
    Resolvers = {r1, r2}
    Catalogue <- SharedCatalogue
    Redis = TRUE
    Faulty = FALSE
    None = None
SPECIFICATION FairSpec
INVARIANTS
    BestDataWins
PROPERTIES
    EveryResolveReturns
