----------------------------- MODULE WalletOps -----------------------------
(***************************************************************************)
(* The row of user_budget_wallets and the effect of each of the six wallet *)
(* operations of app/pipeline/budget.py on it.  These are the UPDATE       *)
(* statements, as functions of the row: WalletLedger and WalletTxn use     *)
(* them for one user's row, EngineBilling for the rows of several users.   *)
(***************************************************************************)
EXTENDS Integers

CONSTANT StarterBalance    \* RU credited when a row is provisioned (10000)

ASSUME StarterAssumption == StarterBalance \in Nat

(***************************************************************************)
(* A user's row.  "exists" is FALSE until the row is provisioned.  The     *)
(* column version is left out: every UPDATE increments it, nothing reads   *)
(* it to decide anything.                                                  *)
(***************************************************************************)
WalletRow == [exists : BOOLEAN, balance : Nat, held : Nat, spent : Nat, floor : Nat]

Unprovisioned ==
    [exists |-> FALSE, balance |-> 0, held |-> 0, spent |-> 0, floor |-> 0]

Starter ==
    [exists |-> TRUE, balance |-> StarterBalance, held |-> 0, spent |-> 0, floor |-> 0]

\* _ensure_wallet: INSERT ... ON CONFLICT DO NOTHING.
Ensured(w) == IF w.exists THEN w ELSE Starter

\* GREATEST(0, n)
AtLeastZero(n) == IF n > 0 THEN n ELSE 0

Available(w) == w.balance - w.held

\* The WHERE clause of hold and extend_hold.  The floor is compared with
\* balance - amount: what other runs already hold does not count.
HoldAllowed(w, amount) ==
    /\ Available(w) >= amount
    /\ w.balance - amount >= w.floor

Held(w, amount) == [w EXCEPT !.held = @ + amount]

\* Mutant of Consumed: the lifetime counter gets what the balance could pay.
ConsumedPaidPart(w, amount) ==
    [w EXCEPT !.balance = AtLeastZero(@ - amount),
              !.held    = AtLeastZero(@ - amount),
              !.spent   = @ + (w.balance - AtLeastZero(w.balance - amount))]

\* Mutant of Consumed: the balance is paid from, the hold stays.
ConsumedKeepsHold(w, amount) ==
    [w EXCEPT !.balance = AtLeastZero(@ - amount), !.spent = @ + amount]

Consumed(w, amount) ==
    [w EXCEPT !.balance = AtLeastZero(@ - amount),
              !.held    = AtLeastZero(@ - amount),
              !.spent   = @ + amount]

Released(w, amount) == [w EXCEPT !.held = AtLeastZero(@ - amount)]

Refunded(w, amount) ==
    [w EXCEPT !.balance = @ + amount, !.held = AtLeastZero(@ - amount)]

ToppedUp(w, amount) == [w EXCEPT !.balance = @ + amount]

FloorSet(w, floor) == [w EXCEPT !.floor = floor]

-----------------------------------------------------------------------------
(* The operations by name, as the column wallet_operations.op has them.    *)

HoldOps == {"hold", "extend_hold"}
Ops     == HoldOps \cup {"consume", "release", "refund", "topup"}

\* Only hold and topup call _ensure_wallet.
EnsuringOps == {"hold", "topup"}

\* Whether the UPDATE of the operation matches the row.
UpdateMatches(op, w, amount) ==
    w.exists /\ (op \in HoldOps => HoldAllowed(w, amount))

Updated(op, w, amount) ==
    CASE op \in HoldOps   -> Held(w, amount)
      [] op = "consume"   -> Consumed(w, amount)
      [] op = "release"   -> Released(w, amount)
      [] op = "refund"    -> Refunded(w, amount)
      [] op = "topup"     -> ToppedUp(w, amount)

=============================================================================
