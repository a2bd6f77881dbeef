SPECIFICATION FairSpec
CONSTANTS
    N = 2
    Place <- MCPlace
    Retiring = {1}
    Unsteady = {2}
    MaxEvents = 3
INVARIANT TypeOK
INVARIANT NoTie
INVARIANT FailoverInTurn
INVARIANT OwnAddressesServed
PROPERTY UpdatesReachExabgp
PROPERTY ImplementsRoutes
