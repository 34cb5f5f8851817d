SPECIFICATION FairSpec
CONSTANTS
    Process = {"p", "q"}
    Signer = {"s1", "s2", "stray"}
    Members = {"s1", "s2"}
    IdOf <- MCIdOf
    MaxMistakes = 2
    MaxFaults = 2
INVARIANTS TypeOK OneDescriptor OkMeansLoaded LoserFindsItLoaded IndInv
PROPERTY AllSetUp
CHECK_DEADLOCK FALSE
