---------------------------- MODULE WalletLedger ----------------------------
(***************************************************************************)
(* What the wallet promises its callers: one user's row and the            *)
(* append-only table wallet_operations, changed together by one indivisible*)
(* step per idempotency key.  A key takes effect at most once; a repeated  *)
(* call with the same key is no step at all.  WalletTxn, the transactions  *)
(* as app/pipeline/budget.py runs them, implements this specification.     *)
(***************************************************************************)
EXTENDS WalletOps, Sequences

CONSTANTS
    Keys,       \* idempotency keys; key.op is the operation it is made for
    Amounts,    \* RU amounts callers pass
    Floors      \* values PUT /v3/wallet/floor receives

ASSUME KeysAssumption    == \A k \in Keys : k.op \in Ops
ASSUME AmountsAssumption == Amounts \subseteq Nat /\ Floors \subseteq Nat

VARIABLES
    row,        \* the user's row of user_budget_wallets
    ledger      \* the user's rows of wallet_operations, oldest first

vars == <<row, ledger>>

LedgerRow ==
    [key : Keys, amount : Amounts, balance_after : Nat, held_after : Nat]

LedgerTypeOK ==
    /\ row \in WalletRow
    /\ ledger \in Seq(LedgerRow)

HasKey(k) == \E i \in DOMAIN ledger : ledger[i].key = k

LedgerInit ==
    /\ row = Unprovisioned
    /\ ledger = << >>

Entry(k, amount, w) ==
    [key |-> k, amount |-> amount, balance_after |-> w.balance, held_after |-> w.held]

\* The UPDATE on row w and the INSERT that documents it, in one commit.
Effect(k, amount, w) ==
    /\ UpdateMatches(k.op, w, amount)
    /\ row' = Updated(k.op, w, amount)
    /\ ledger' = Append(ledger, Entry(k, amount, row'))

Operate(k, amount) ==
    /\ ~HasKey(k)
    /\ Effect(k, amount, IF k.op \in EnsuringOps THEN Ensured(row) ELSE row)

\* Any first touch of the wallet, also a GET, provisions the row.
Provision ==
    /\ row' = Ensured(row)
    /\ UNCHANGED ledger

SetFloor(floor) ==
    /\ row' = FloorSet(Ensured(row), floor)
    /\ UNCHANGED ledger

LedgerNext ==
    \/ \E k \in Keys, amount \in Amounts : Operate(k, amount)
    \/ Provision
    \/ \E floor \in Floors : SetFloor(floor)

LedgerSpec == LedgerInit /\ [][LedgerNext]_vars

-----------------------------------------------------------------------------
(***************************************************************************)
(* The two CHECK constraints on user_budget_wallets (db.py) would refuse   *)
(* an UPDATE whose result breaks them.  The model has no such refusal, so  *)
(* this invariant says that none of the operations, in any order, ever     *)
(* runs into them: no run fails because of a constraint error.             *)
(***************************************************************************)
Solvent == 0 <= row.held /\ row.held <= row.balance

(***************************************************************************)
(* UNIQUE (user_id, idempotency_key) and the check before it: however      *)
(* calls are repeated and raced, a key takes effect at most once.          *)
(***************************************************************************)
ExactlyOnce ==
    \A i, j \in DOMAIN ledger : ledger[i].key = ledger[j].key => i = j

\* How a ledger row follows from the columns the row before it left behind.
Follows(entry, balance, held) ==
    LET op == entry.key.op
        a  == entry.amount
    IN  /\ entry.balance_after =
              CASE op = "consume" -> AtLeastZero(balance - a)
                [] op \in {"refund", "topup"} -> balance + a
                [] OTHER -> balance
        /\ entry.held_after =
              CASE op \in HoldOps -> held + a
                [] op = "topup" -> held
                [] OTHER -> AtLeastZero(held - a)

(***************************************************************************)
(* The audit trail is complete and in order: starting from the starter     *)
(* balance, each row of wallet_operations follows from the one before it,  *)
(* and the last one is the wallet.  No update is lost or undocumented.     *)
(***************************************************************************)
AuditTrail ==
    /\ \A i \in 1 .. Len(ledger) :
          IF i = 1
            THEN Follows(ledger[i], StarterBalance, 0)
            ELSE Follows(ledger[i], ledger[i - 1].balance_after, ledger[i - 1].held_after)
    /\ row.exists =>
          IF ledger = << >>
            THEN row.balance = StarterBalance /\ row.held = 0
            ELSE /\ row.balance = ledger[Len(ledger)].balance_after
                 /\ row.held = ledger[Len(ledger)].held_after
    /\ ledger # << >> => row.exists

\* What the first i rows of the ledger say was consumed.
ConsumedUpTo[i \in 0 .. Len(ledger)] ==
    IF i = 0 THEN 0
    ELSE ConsumedUpTo[i - 1] + (IF ledger[i].key.op = "consume" THEN ledger[i].amount ELSE 0)

(***************************************************************************)
(* spent_ru_lifetime is the sum the endpoints compute from the consume     *)
(* rows of wallet_operations (GET /v3/wallet/forecast, cost_breakdown).    *)
(***************************************************************************)
SpentIsConsumed == row.spent = ConsumedUpTo[Len(ledger)]

(***************************************************************************)
(* Only release, refund and topup make RU spendable again: a consume, even *)
(* of more than was ever held, never frees funds that another run reserved.*)
(***************************************************************************)
SpendableOnlyFreed ==
    [][/\ row.exists
       /\ ledger' # ledger
       /\ ledger'[Len(ledger')].key.op \in HoldOps \cup {"consume"}
       => Available(row') <= Available(row)]_vars

=============================================================================
