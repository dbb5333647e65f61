CONSTANTS
    old = old  new = new  local = local
    Machines = {old, new, local}
    Version <- Deploy
    Unset = {local}
    MaxBusy = 1
    Faulty = TRUE
SPECIFICATION FairSpec
INVARIANTS
    IInv
    OneMigrator
    AtMostOnce
    ServesMigrated
PROPERTIES
    AbandonedForGood
    EveryPhaseEnds
