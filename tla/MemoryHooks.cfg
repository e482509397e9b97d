CONSTANTS
    Threads = {main, driver}
    Main = main
    Addresses = {a1, a2}
    Domains = {Particles, Ui}
    PushedDomains = {Particles, Ui}
    Default = Default
    AllPool = AllPool
    MaxDomainDepth = 2
SYMMETRY AddressSymmetry
SPECIFICATION Spec
INVARIANTS TypeOK TraceNeverFaults TracyUsedWhileAlive LiveBlocksTraced DomainsNest
