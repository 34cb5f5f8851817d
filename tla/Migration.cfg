SPECIFICATION FairSpec
CONSTANTS
    Account = {"f", "c1", "c2", "out"}
    Txid = {1, 2, 3, 4, 5, 6, 7, 8}
    Customer = {"c1", "c2"}
    FeeAccount = "f"
    Outside = "out"
    Funding <- MCFunding
    Amounts = {3}
    MaxFee = 1
    MaxSpends = 1
    MaxFaults = 1
INVARIANTS TypeOK Conserved NewCoinsStay RefusedOnlyMisuse BooksInOrder IndInv
PROPERTY AllMoved
CHECK_DEADLOCK FALSE
