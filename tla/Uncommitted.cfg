SPECIFICATION Spec
CONSTANTS
    s1 = s1
    s2 = s2
    s3 = s3
    s4 = s4
    pay = pay
    clear = clear
    misplaced = misplaced
    foreign = foreign
    fee = fee
    Signer <- MCSigner
    Federation <- MCFederation
    Threshold = 2
    NumInputs = 2
    ScriptKeys <- MCScriptKeys
    Required <- MCRequired
    Output <- MCOutput
    Fee = {fee}
    Blindable <- MCBlindable
    BlinderIndex <- MCBlinderIndex
    Drafts <- MCDrafts
    Received <- MCReceived
    InProcess = {s1, s2, s4}
    External = {s2, s3}
    MaxCopies = 2
    MaxFailures = 2
    MaxReopens = 1
INVARIANT OutputsCommitted
CHECK_DEADLOCK FALSE
