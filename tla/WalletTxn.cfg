SPECIFICATION TxnSpec
CONSTANTS
    StarterBalance = 2
    HoldKeys = 1
    ConsumeKeys = 1
    OtherOps = {"release", "refund", "extend_hold", "topup"}
    Keys <- MCKeys
    Amounts = {3}
    Floors = {2}
    Callers = {c1, c2}
SYMMETRY CallerSymmetry
INVARIANTS FailsClosed SpentIsConsumed
PROPERTIES ImplementsLedger
