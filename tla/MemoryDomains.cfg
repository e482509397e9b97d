CONSTANTS
    Threads = {main, driver}
    Main = main
    Addresses = {a1, a2}
    Domains = {Particles, Ui}
    PushedDomains = {Particles, Default}
    Default = Default
    AllPool = AllPool
    MaxDomainDepth = 2
SPECIFICATION Spec
INVARIANTS DomainsNest
