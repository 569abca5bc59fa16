SPECIFICATION RelayFairSpec
CONSTANTS
    a = a
    a1 = a1
    a2 = a2
    run = run
    ask = ask
    None = None
    Names = {a}
    Daemons = {a1, a2}
    NameOf <- MCNameOf
    Clients = {run, ask}
    Target <- MCTarget
    Runs = {run}
    Threads = 1
    MaxRestarts = 1
INVARIANTS RepliesTruthful NothingUnheard
PROPERTIES PoolDrains
