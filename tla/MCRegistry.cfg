SPECIFICATION RegistryFairSpec
CONSTANTS
    a = a
    a1 = a1
    a2 = a2
    None = None
    Names = {a}
    Daemons = {a1, a2}
    NameOf <- MCNameOf
    MaxFaults = 2
INVARIANTS OneExchange
PROPERTIES ImplementsFleet EventuallyListed EventuallyWatched
CHECK_DEADLOCK FALSE
