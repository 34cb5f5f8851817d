SPECIFICATION Spec
CONSTANTS
    NoHash = NoHash
    Block <- MCBlock
    OutPoint <- MCOutPoint
    Txs <- MCTxs
    Chains <- MCChains
    Wallet = {"W1", "W2"}
    Descriptor = {"d1", "d2", "d3", "dx"}
    Key = {"k1", "k2", "k3", "kx"}
    Explicit = "explicit"
    Registrations <- MCRegistrations
    SpkOf <- MCSpkOf
    BlindedTo <- MCBlindedTo
    MaxReorgs = 1
    MaxFailures = 0
    ReorgPoints = {"idle", "failed", "cursor", "ancestor", "rollback_blocks", "rollback_utxos", "index", "scan", "upsert", "mark"}
    FailPoints = {}
    ShorterTips = FALSE
INVARIANT CursorIsScannedBlock
