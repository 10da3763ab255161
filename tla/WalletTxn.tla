----------------------------- MODULE WalletTxn -----------------------------
(***************************************************************************)
(* The wallet operations of app/pipeline/budget.py as the database         *)
(* transactions they are.  Callers are the concurrent connections of one   *)
(* user's operations: request threads and asyncio tasks of the API process *)
(* and activities of the Temporal worker.  Under READ COMMITTED a          *)
(* transaction has two points at which others can see or change something: *)
(*   - the SELECT on wallet_operations for a prior row with the same key,  *)
(*     which takes no lock (Begin);                                        *)
(*   - the UPDATE, which locks the row and evaluates its WHERE on the      *)
(*     latest committed version, together with the INSERT into             *)
(*     wallet_operations and the COMMIT (Commit).                          *)
(* So what Begin read can be stale when Commit acts on it.  The UNIQUE     *)
(* constraint then fails the INSERT and get_conn rolls everything back.    *)
(***************************************************************************)
EXTENDS WalletLedger

CONSTANT Callers

VARIABLES
    pc,         \* pc[c] = "checked": c's transaction found no prior row
    req,        \* req[c]: the key and amount of c's current or last call
    answer      \* answer[c]: what c's last call returned

txnVars == <<row, ledger, pc, req, answer>>

Reasons == {"none", "insufficient", "below_floor", "wallet_not_found", "wallet_unavailable"}

\* HoldResult; of ConsumeResult only ok and reason (its held_after has no
\* reader); release and refund return None, topup returns None or raises.
Answer == [ok : BOOLEAN, held_ru : Nat, reason : Reasons]

Request == [key : Keys, amount : Amounts]

Failure(reason) == [ok |-> FALSE, held_ru |-> 0, reason |-> reason]
Success(held)   == [ok |-> TRUE, held_ru |-> held, reason |-> "none"]

TxnTypeOK ==
    /\ LedgerTypeOK
    /\ pc \in [Callers -> {"idle", "checked"}]
    /\ req \in [Callers -> Request]
    /\ answer \in [Callers -> Answer]

TxnInit ==
    /\ LedgerInit
    /\ pc = [c \in Callers |-> "idle"]
    /\ \E r \in Request : req = [c \in Callers |-> r]
    /\ answer = [c \in Callers |-> Failure("none")]

-----------------------------------------------------------------------------
(* What a call returns.                                                    *)

Return(c, a) ==
    /\ pc' = [pc EXCEPT ![c] = "idle"]
    /\ answer' = [answer EXCEPT ![c] = a]

\* release, refund: "except Exception: pass"; the caller learns nothing.
Swallows(op) == op \in {"release", "refund"}

\* Mutant of DbError: fails open, as the admission gate does.
DbErrorAllows(op) == Success(0)

DbError(op) == IF Swallows(op) THEN Success(0) ELSE Failure("wallet_unavailable")

\* A prior row with the key.  held_ru is the column held_after of that row.
Replay(k) ==
    LET i == CHOOSE i \in DOMAIN ledger : ledger[i].key = k
    IN  Success(IF k.op \in HoldOps THEN ledger[i].held_after ELSE 0)

\* A hold that succeeds returns the amount it was asked for.
Granted(r) == Success(IF r.key.op \in HoldOps THEN r.amount ELSE 0)

\* hold reads the row again to name the reason, maybe after another commit:
\* either reason can come out.  extend_hold always says "insufficient".
Rejections(op) ==
    CASE op = "hold"        -> {Failure("insufficient"), Failure("below_floor")}
      [] op = "extend_hold" -> {Failure("insufficient")}
      [] op = "consume"     -> {Failure("wallet_not_found")}
      [] OTHER              -> {Success(0)}

-----------------------------------------------------------------------------
\* A transaction that can provision the row keeps it locked to its end: it
\* runs alone.  The key cannot be in the ledger of an unprovisioned wallet.
NeedsRow(r) == r.key.op \in EnsuringOps /\ ~row.exists

\* The call, up to and including _idempotency_hit.
Begin(c, r) ==
    /\ pc[c] = "idle"
    /\ ~NeedsRow(r)
    /\ req' = [req EXCEPT ![c] = r]
    /\ IF HasKey(r.key)
         THEN Return(c, Replay(r.key))
         ELSE pc' = [pc EXCEPT ![c] = "checked"] /\ UNCHANGED answer
    /\ UNCHANGED vars

\* The whole transaction of a hold or topup that finds no wallet row.
FirstTouch(c, r) ==
    /\ pc[c] = "idle"
    /\ NeedsRow(r)
    /\ req' = [req EXCEPT ![c] = r]
    /\ \/ /\ Effect(r.key, r.amount, Starter)
          /\ Return(c, Granted(r)) \/ Return(c, DbError(r.key.op))
       \/ /\ ~UpdateMatches(r.key.op, Starter, r.amount)
          /\ row' = Starter
          /\ UNCHANGED ledger
          /\ \E a \in Rejections(r.key.op) : Return(c, a)

\* UPDATE, INSERT, COMMIT.  When the acknowledgement of the COMMIT is lost
\* the caller is told of a database error although the operation counts.
Commit(c) ==
    LET r == req[c] IN
    /\ pc[c] = "checked"
    /\ ~HasKey(r.key)
    /\ Effect(r.key, r.amount, row)
    /\ Return(c, Granted(r)) \/ Return(c, DbError(r.key.op))
    /\ UNCHANGED req

\* The UPDATE matched no row: nothing is written, the transaction commits.
Reject(c) ==
    LET r == req[c] IN
    /\ pc[c] = "checked"
    /\ ~UpdateMatches(r.key.op, row, r.amount)
    /\ \E a \in Rejections(r.key.op) : Return(c, a)
    /\ UNCHANGED <<row, ledger, req>>

\* Another transaction committed the same key after Begin: the INSERT
\* violates UNIQUE (user_id, idempotency_key) and everything is rolled back.
DuplicateKey(c) ==
    LET r == req[c] IN
    /\ pc[c] = "checked"
    /\ HasKey(r.key)
    /\ UpdateMatches(r.key.op, row, r.amount)
    /\ Return(c, DbError(r.key.op))
    /\ UNCHANGED <<row, ledger, req>>

\* Mutant of Rollback: autocommit keeps the UPDATE when the INSERT is lost.
RollbackInsertOnly(c) ==
    /\ pc[c] = "checked"
    /\ UpdateMatches(req[c].key.op, row, req[c].amount)
    /\ row' = Updated(req[c].key.op, row, req[c].amount)
    /\ Return(c, DbError(req[c].key.op))
    /\ UNCHANGED <<ledger, req>>

\* Connection lost or database down at any point before the COMMIT.
Rollback(c) ==
    /\ pc[c] = "checked"
    /\ Return(c, DbError(req[c].key.op))
    /\ UNCHANGED <<row, ledger, req>>

\* GET /v3/wallet and PUT /v3/wallet/floor.
Router ==
    /\ Provision \/ \E floor \in Floors : SetFloor(floor)
    /\ UNCHANGED <<pc, req, answer>>

TxnNext ==
    \/ \E c \in Callers, r \in Request : Begin(c, r) \/ FirstTouch(c, r)
    \/ \E c \in Callers : Commit(c) \/ Reject(c) \/ DuplicateKey(c) \/ Rollback(c)
    \/ Router

TxnSpec == TxnInit /\ [][TxnNext]_txnVars

-----------------------------------------------------------------------------
(***************************************************************************)
(* Refinement: the transactions implement the indivisible ledger.          *)
(***************************************************************************)
ImplementsLedger == LedgerSpec

(***************************************************************************)
(* "FAILS CLOSED": no caller is told that a hold, an extension, a consume  *)
(* or a topup took place unless its row is in wallet_operations, whatever  *)
(* error, race or lost acknowledgement the call met.                       *)
(***************************************************************************)
FailsClosed ==
    \A c \in Callers :
        answer[c].ok /\ pc[c] = "idle" /\ ~Swallows(req[c].key.op) => HasKey(req[c].key)

=============================================================================
