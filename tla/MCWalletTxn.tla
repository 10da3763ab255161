---------------------------- MODULE MCWalletTxn ----------------------------
(* A small instance of WalletTxn: one user, one key or two per operation.  *)
EXTENDS WalletTxn, TLC

CONSTANTS HoldKeys, ConsumeKeys, OtherOps

KeyOf(op, n) == [op |-> op, n |-> n]

MCKeys ==
    {KeyOf("hold", n) : n \in 1 .. HoldKeys}
        \cup {KeyOf("consume", n) : n \in 1 .. ConsumeKeys}
        \cup {KeyOf(op, 1) : op \in OtherOps}

CallerSymmetry == Permutations(Callers)

=============================================================================
