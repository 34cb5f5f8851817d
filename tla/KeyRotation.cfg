SPECIFICATION Spec
CONSTANTS
    Wallet = {"W"}
    Descriptor = {"d1", "d2"}
    Key = {"k1", "k2"}
    Explicit = "explicit"
    Network = {"liquid", "testnet", "bitcoin"}
    Elements = {"liquid", "testnet"}
    Candidates <- MCCandidates
    WalletId = "W"
    Lookahead = 1
    MaxVersions = 2
    MaxAddresses = 2
    MaxBlocks = 2
    MaxFailures = 1
INVARIANT RightKeyUsed
