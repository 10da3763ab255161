---------------------------- MODULE WalletProofs ----------------------------
(***************************************************************************)
(* Proofs about the wallet, for any set of callers, keys, amounts, floors  *)
(* and any starter balance.  First the ledger (WalletLedger): types, the   *)
(* CHECK constraints, one effect per key, the audit trail.  Then the       *)
(* transactions (WalletTxn) implement it and so inherit all of this.       *)
(***************************************************************************)
EXTENDS WalletTxn, TLAPS, SequenceTheorems

(***************************************************************************)
(* Facts about one UPDATE.                                                 *)
(***************************************************************************)

\* GREATEST(0, n) is a natural number, and at most n when n is one.
LEMMA AtLeastZeroFacts ==
    ASSUME NEW m \in Int, NEW n \in Int, m <= n
    PROVE  /\ AtLeastZero(m) \in Nat
           /\ AtLeastZero(m) <= AtLeastZero(n)
           /\ n \in Nat => AtLeastZero(n) = n
  BY DEF AtLeastZero

\* Rows are closed under assigning natural numbers to their columns.
LEMMA ColumnsAssigned ==
    ASSUME NEW w \in WalletRow, NEW b \in Nat, NEW h \in Nat, NEW s \in Nat
    PROVE  /\ [w EXCEPT !.balance = b, !.held = h] \in WalletRow
           /\ [w EXCEPT !.balance = b, !.held = h, !.spent = s] \in WalletRow
  BY Zenon DEF WalletRow

\* The columns after a consume and after a refund.
LEMMA TwoColumnUpdates ==
    ASSUME NEW w \in WalletRow, NEW a \in Nat
    PROVE  /\ Consumed(w, a) \in WalletRow
           /\ Consumed(w, a).exists = w.exists
           /\ Consumed(w, a).balance = AtLeastZero(w.balance - a)
           /\ Consumed(w, a).held = AtLeastZero(w.held - a)
           /\ Refunded(w, a) \in WalletRow
           /\ Refunded(w, a).exists = w.exists
           /\ Refunded(w, a).balance = w.balance + a
           /\ Refunded(w, a).held = AtLeastZero(w.held - a)
  <1>1. /\ w.balance - a \in Int /\ w.held - a \in Int
        /\ w.balance + a \in Nat /\ w.spent + a \in Nat
    BY DEF WalletRow
  <1>2. AtLeastZero(w.balance - a) \in Nat /\ AtLeastZero(w.held - a) \in Nat
    BY <1>1 DEF AtLeastZero
  <1>3. Consumed(w, a) \in WalletRow /\ Refunded(w, a) \in WalletRow
    BY <1>1, <1>2, ColumnsAssigned, Zenon DEF Consumed, Refunded
  <1>4. QED
    BY <1>3 DEF Consumed, Refunded, WalletRow

\* Each UPDATE of budget.py maps a row to a row with non-negative columns.
LEMMA UpdatedIsRow ==
    ASSUME NEW w \in WalletRow, NEW op \in Ops, NEW a \in Nat
    PROVE  /\ Updated(op, w, a) \in WalletRow
           /\ Updated(op, w, a).exists = w.exists
  <1>1. CASE op \in HoldOps
    BY <1>1 DEF Updated, Held, WalletRow, HoldOps
  <1>2. CASE op = "consume"
    BY <1>2, TwoColumnUpdates, AtLeastZeroFacts DEF Updated, WalletRow, HoldOps
  <1>3. CASE op = "release"
    BY <1>3 DEF Updated, Released, WalletRow, HoldOps, AtLeastZero
  <1>4. CASE op = "refund"
    BY <1>4, TwoColumnUpdates, AtLeastZeroFacts DEF Updated, WalletRow, HoldOps
  <1>5. CASE op = "topup"
    BY <1>5 DEF Updated, ToppedUp, WalletRow, HoldOps
  <1>6. QED
    BY <1>1, <1>2, <1>3, <1>4, <1>5 DEF Ops

\* An UPDATE that matches keeps what is held covered by the balance.
LEMMA UpdatedCovers ==
    ASSUME NEW w \in WalletRow, NEW op \in Ops, NEW a \in Nat,
           w.held <= w.balance, UpdateMatches(op, w, a)
    PROVE  Updated(op, w, a).held <= Updated(op, w, a).balance
  <1>1. CASE op \in HoldOps
    BY <1>1 DEF Updated, Held, WalletRow, HoldOps, UpdateMatches, HoldAllowed, Available
  <1>2. CASE op = "consume"
    BY <1>2, TwoColumnUpdates, AtLeastZeroFacts DEF Updated, WalletRow, HoldOps
  <1>3. CASE op = "release"
    BY <1>3 DEF Updated, Released, WalletRow, HoldOps, AtLeastZero
  <1>4. CASE op = "refund"
    BY <1>4, TwoColumnUpdates, AtLeastZeroFacts DEF Updated, WalletRow, HoldOps
  <1>5. CASE op = "topup"
    BY <1>5 DEF Updated, ToppedUp, WalletRow, HoldOps
  <1>6. QED
    BY <1>1, <1>2, <1>3, <1>4, <1>5 DEF Ops

\* The row that documents an UPDATE follows from the columns before it.
LEMMA EntryFollows ==
    ASSUME NEW w \in WalletRow, NEW k \in Keys, NEW a \in Amounts
    PROVE  Follows(Entry(k, a, Updated(k.op, w, a)), w.balance, w.held)
  <1> DEFINE op == k.op
  <1>0. op \in Ops /\ a \in Nat
    BY KeysAssumption, AmountsAssumption
  <1>1. CASE op \in HoldOps
    BY <1>0, <1>1 DEF Follows, Entry, Updated, Held, WalletRow, HoldOps
  <1>2. CASE op = "consume"
    BY <1>0, <1>2 DEF Follows, Entry, Updated, Consumed, WalletRow, HoldOps
  <1>3. CASE op = "release"
    BY <1>0, <1>3 DEF Follows, Entry, Updated, Released, WalletRow, HoldOps
  <1>4. CASE op = "refund"
    BY <1>0, <1>4 DEF Follows, Entry, Updated, Refunded, WalletRow, HoldOps
  <1>5. CASE op = "topup"
    BY <1>0, <1>5 DEF Follows, Entry, Updated, ToppedUp, WalletRow, HoldOps
  <1>6. QED
    BY <1>0, <1>1, <1>2, <1>3, <1>4, <1>5 DEF Ops

\* Provisioning yields a row, and one on which both CHECK constraints hold.
LEMMA EnsuredIsRow ==
    ASSUME NEW w \in WalletRow, w.held <= w.balance
    PROVE  /\ Ensured(w) \in WalletRow
           /\ Ensured(w).exists
           /\ Ensured(w).held <= Ensured(w).balance
  BY StarterAssumption DEF Ensured, Starter, WalletRow

-----------------------------------------------------------------------------
(***************************************************************************)
(* The ledger.  The conjunction is inductive: Solvent needs the types, the *)
(* audit trail needs to know that an unprovisioned wallet has no ledger.   *)
(***************************************************************************)
LedgerInv == LedgerTypeOK /\ Solvent /\ ExactlyOnce /\ AuditTrail

\* The columns that the next ledger row is computed from.
BaseBalance == IF ledger = << >> THEN StarterBalance ELSE ledger[Len(ledger)].balance_after
BaseHeld    == IF ledger = << >> THEN 0 ELSE ledger[Len(ledger)].held_after

\* The invariant holds before the wallet is ever touched.
LEMMA LedgerInitInv == LedgerInit => LedgerInv
  BY EmptySeq DEF LedgerInit, LedgerInv, LedgerTypeOK, Solvent, ExactlyOnce, AuditTrail,
         Unprovisioned, WalletRow

\* One committed operation keeps the invariant.
LEMMA OperateInv ==
    ASSUME LedgerInv, NEW k \in Keys, NEW a \in Amounts, Operate(k, a)
    PROVE  LedgerInv'
  <1> DEFINE w == IF k.op \in EnsuringOps THEN Ensured(row) ELSE row
             e == Entry(k, a, row')
  <1>1. k.op \in Ops /\ a \in Nat
    BY KeysAssumption, AmountsAssumption
  <1>2. row \in WalletRow /\ ledger \in Seq(LedgerRow) /\ row.held <= row.balance
    BY DEF LedgerInv, LedgerTypeOK, Solvent
  <1>3. /\ w \in WalletRow /\ w.held <= w.balance
        /\ UpdateMatches(k.op, w, a) /\ w.exists
        /\ row' = Updated(k.op, w, a)
        /\ ledger' = Append(ledger, e)
    BY <1>2, EnsuredIsRow DEF Operate, Effect, UpdateMatches
  <1>4. /\ row' \in WalletRow /\ row'.exists /\ row'.held <= row'.balance
    BY <1>1, <1>3, UpdatedIsRow, UpdatedCovers
  <1>5. e \in LedgerRow
    BY <1>4 DEF Entry, LedgerRow, WalletRow
  <1>6. /\ Len(ledger') = Len(ledger) + 1 /\ ledger' # << >>
        /\ ledger'[Len(ledger) + 1] = e
        /\ \A i \in 1 .. Len(ledger) : ledger'[i] = ledger[i]
    BY <1>2, <1>3, <1>5
  <1>7. LedgerTypeOK'
    BY <1>2, <1>3, <1>4, <1>5 DEF LedgerTypeOK
  <1>8. Solvent'
    BY <1>4 DEF Solvent, WalletRow
  <1>9. ExactlyOnce'
    <2>1. \A i \in 1 .. Len(ledger) : ledger[i].key # k
      BY <1>2 DEF Operate, HasKey
    <2>2. e.key = k
      BY DEF Entry
    <2>3. DOMAIN ledger = 1 .. Len(ledger) /\ DOMAIN ledger' = 1 .. (Len(ledger) + 1)
      BY <1>2, <1>6, <1>7 DEF LedgerTypeOK
    <2>4. QED
      BY <1>2, <1>6, <2>1, <2>2, <2>3 DEF LedgerInv, ExactlyOnce
  <1>10. AuditTrail'
    <2>1. w.balance = BaseBalance /\ w.held = BaseHeld
      BY <1>3 DEF LedgerInv, AuditTrail, Ensured, Starter, BaseBalance, BaseHeld
    <2>2. Follows(e, BaseBalance, BaseHeld)
      BY <1>3, <2>1, EntryFollows
    <2>3. e.balance_after = row'.balance /\ e.held_after = row'.held
      BY DEF Entry
    <2>4. ASSUME NEW i \in 1 .. Len(ledger')
          PROVE  IF i = 1
                   THEN Follows(ledger'[i], StarterBalance, 0)
                   ELSE Follows(ledger'[i], ledger'[i - 1].balance_after,
                                            ledger'[i - 1].held_after)
      <3>1. CASE i = Len(ledger) + 1
        <4>1. CASE Len(ledger) = 0
          BY <1>2, <1>6, <2>2, <3>1, <4>1, EmptySeq DEF BaseBalance, BaseHeld
        <4>2. CASE Len(ledger) # 0
          BY <1>2, <1>6, <2>2, <3>1, <4>2 DEF BaseBalance, BaseHeld
        <4>3. QED
          BY <4>1, <4>2
      <3>2. CASE i \in 1 .. Len(ledger)
        BY <1>2, <1>6, <3>2 DEF LedgerInv, AuditTrail
      <3>3. QED
        BY <1>2, <1>6, <3>1, <3>2
    <2>5. QED
      BY <1>4, <1>6, <2>3, <2>4 DEF AuditTrail
  <1>11. QED
    BY <1>7, <1>8, <1>9, <1>10 DEF LedgerInv

\* Provisioning and setting the floor keep it: they change no ledger row,
\* and of an existing wallet only the floor.
LEMMA RouterInv ==
    ASSUME LedgerInv, Provision \/ \E floor \in Floors : SetFloor(floor)
    PROVE  LedgerInv'
  <1>1. row \in WalletRow /\ row.held <= row.balance
    BY DEF LedgerInv, LedgerTypeOK, Solvent
  <1>2. /\ row' \in WalletRow /\ row'.exists
        /\ row'.balance = Ensured(row).balance /\ row'.held = Ensured(row).held
        /\ ledger' = ledger
    <2>1. CASE Provision
      BY <1>1, <2>1, EnsuredIsRow DEF Provision
    <2>2. ASSUME NEW floor \in Floors, SetFloor(floor)
          PROVE  <1>2
      BY <1>1, <2>2, EnsuredIsRow, AmountsAssumption DEF SetFloor, FloorSet, WalletRow
    <2>3. QED
      BY <2>1, <2>2
  <1>3. Solvent'
    BY <1>1, <1>2, EnsuredIsRow DEF Solvent, WalletRow
  <1>4. AuditTrail'
    BY <1>2 DEF LedgerInv, AuditTrail, Ensured, Starter
  <1>5. QED
    BY <1>2, <1>3, <1>4 DEF LedgerInv, LedgerTypeOK, ExactlyOnce

\* Every step of the ledger keeps the invariant.
LEMMA LedgerNextInv == LedgerInv /\ [LedgerNext]_vars => LedgerInv'
  <1> SUFFICES ASSUME LedgerInv, [LedgerNext]_vars PROVE LedgerInv'
    OBVIOUS
  <1>1. ASSUME NEW k \in Keys, NEW a \in Amounts, Operate(k, a) PROVE LedgerInv'
    BY <1>1, OperateInv
  <1>2. CASE Provision \/ \E floor \in Floors : SetFloor(floor)
    BY <1>2, RouterInv
  <1>3. CASE UNCHANGED vars
    BY <1>3 DEF vars, LedgerInv, LedgerTypeOK, Solvent, ExactlyOnce, AuditTrail
  <1>4. QED
    BY <1>1, <1>2, <1>3 DEF LedgerNext

(***************************************************************************)
(* Whatever sequence of operations callers make, balance and held stay     *)
(* inside the two CHECK constraints of user_budget_wallets, each           *)
(* idempotency key takes effect at most once, and wallet_operations        *)
(* replays to the wallet row.                                              *)
(***************************************************************************)
THEOREM LedgerCorrect == LedgerSpec => []LedgerInv
  BY LedgerInitInv, LedgerNextInv, PTL DEF LedgerSpec

-----------------------------------------------------------------------------
(***************************************************************************)
(* The transactions implement the ledger.  A Commit, or the one            *)
(* transaction that provisions the row and succeeds, is an Operate; a      *)
(* FirstTouch that is rejected only provisions; everything else leaves row *)
(* and ledger alone.                                                       *)
(***************************************************************************)

\* A key cannot be in the ledger of a wallet that is not provisioned.
LEMMA NoKeyBeforeRow ==
    ASSUME LedgerInv, ~row.exists, NEW k \in Keys
    PROVE  ~HasKey(k)
  BY EmptySeq DEF LedgerInv, AuditTrail, HasKey

\* Every transaction step is a step of the ledger or leaves it unchanged.
LEMMA TxnStepRefines ==
    ASSUME LedgerInv, TxnTypeOK, [TxnNext]_txnVars
    PROVE  [LedgerNext]_vars
  <1>1. ASSUME NEW c \in Callers, NEW r \in Request, Begin(c, r)
        PROVE  [LedgerNext]_vars
    BY <1>1 DEF Begin
  <1>2. ASSUME NEW c \in Callers, NEW r \in Request, FirstTouch(c, r)
        PROVE  [LedgerNext]_vars
    <2>1. r.key \in Keys /\ r.amount \in Amounts /\ ~row.exists /\ r.key.op \in EnsuringOps
      BY <1>2 DEF FirstTouch, NeedsRow, Request
    <2>2. Ensured(row) = Starter
      BY <2>1 DEF Ensured
    <2>3. CASE Effect(r.key, r.amount, Starter)
      <3>1. Operate(r.key, r.amount)
        BY <2>1, <2>2, <2>3, NoKeyBeforeRow DEF Operate
      <3>2. QED
        BY <2>1, <3>1 DEF LedgerNext
    <2>4. CASE row' = Starter /\ UNCHANGED ledger
      BY <2>2, <2>4 DEF LedgerNext, Provision
    <2>5. QED
      BY <1>2, <2>3, <2>4 DEF FirstTouch
  <1>3. ASSUME NEW c \in Callers, Commit(c)
        PROVE  [LedgerNext]_vars
    <2>1. req[c].key \in Keys /\ req[c].amount \in Amounts
      BY DEF TxnTypeOK, Request
    <2>2. row.exists
      BY <1>3 DEF Commit, Effect, UpdateMatches
    <2>3. (IF req[c].key.op \in EnsuringOps THEN Ensured(row) ELSE row) = row
      BY <2>2 DEF Ensured
    <2>4. Operate(req[c].key, req[c].amount)
      BY <1>3, <2>3 DEF Commit, Operate
    <2>5. QED
      BY <2>1, <2>4 DEF LedgerNext
  <1>4. ASSUME NEW c \in Callers, Reject(c) \/ DuplicateKey(c) \/ Rollback(c)
        PROVE  [LedgerNext]_vars
    BY <1>4 DEF Reject, DuplicateKey, Rollback, vars
  <1>5. CASE Router
    BY <1>5 DEF Router, LedgerNext
  <1>6. CASE UNCHANGED txnVars
    BY <1>6 DEF txnVars, vars
  <1>7. QED
    BY <1>1, <1>2, <1>3, <1>4, <1>5, <1>6 DEF TxnNext

\* The answers that Return gives have their type.
LEMMA AnswersTyped ==
    /\ \A reason \in Reasons : Failure(reason) \in Answer
    /\ \A n \in Nat : Success(n) \in Answer
    /\ \A op \in Ops : DbError(op) \in Answer /\ Rejections(op) \subseteq Answer
  <1>1. \A reason \in Reasons : Failure(reason) \in Answer
    BY DEF Failure, Answer
  <1>2. \A n \in Nat : Success(n) \in Answer
    BY DEF Success, Answer, Reasons
  <1>3. \A op \in Ops : DbError(op) \in Answer
    BY <1>1, <1>2 DEF DbError, Reasons
  <1>4. \A op \in Ops : Rejections(op) \subseteq Answer
    BY <1>1, <1>2 DEF Rejections, Reasons, Ops, HoldOps
  <1>5. QED
    BY <1>1, <1>2, <1>3, <1>4

\* A replayed answer carries a column of a ledger row.
LEMMA ReplayTyped ==
    ASSUME LedgerTypeOK, NEW k \in Keys, HasKey(k)
    PROVE  Replay(k) \in Answer /\ Replay(k).ok
  <1> DEFINE i == CHOOSE i \in DOMAIN ledger : ledger[i].key = k
  <1>1. i \in DOMAIN ledger
    BY DEF HasKey
  <1>2. ledger[i] \in LedgerRow
    BY <1>1 DEF LedgerTypeOK
  <1>3. ledger[i].held_after \in Nat
    BY <1>2 DEF LedgerRow
  <1>4. QED
    BY <1>3, AnswersTyped DEF Replay, Success

\* Whatever the answer, Return keeps the types of pc and answer.
LEMMA ReturnTyped ==
    ASSUME TxnTypeOK, NEW c \in Callers, NEW a \in Answer, Return(c, a)
    PROVE  pc' \in [Callers -> {"idle", "checked"}] /\ answer' \in [Callers -> Answer]
  BY DEF TxnTypeOK, Return

(***************************************************************************)
(* What is inductive for the transactions: the ledger's invariant, the     *)
(* types, and that an "ok" of an operation that reports its outcome is     *)
(* backed by a ledger row once the call has returned.  RowKnown excludes   *)
(* that the UPDATE of a topup finds no row, which topup would not report.  *)
(***************************************************************************)
RowKnown ==
    \A c \in Callers : pc[c] = "checked" /\ req[c].key.op \in EnsuringOps => row.exists

TxnInv == LedgerInv /\ TxnTypeOK /\ FailsClosed /\ RowKnown

\* HasKey, of the ledger before or after a step.
KeyIn(k, l) == \E i \in DOMAIN l : l[i].key = k

\* A wallet row once provisioned stays.
LEMMA RowStays ==
    ASSUME LedgerInv, [LedgerNext]_vars, row.exists
    PROVE  row'.exists
  <1>1. row \in WalletRow /\ row.held <= row.balance
    BY DEF LedgerInv, LedgerTypeOK, Solvent
  <1>2. ASSUME NEW k \in Keys, NEW a \in Amounts, Operate(k, a) PROVE row'.exists
    <2>1. k.op \in Ops /\ a \in Nat
      BY KeysAssumption, AmountsAssumption
    <2>2. row' = Updated(k.op, row, a)
      BY <1>2 DEF Operate, Effect, Ensured
    <2>3. QED
      BY <1>1, <2>1, <2>2, UpdatedIsRow
  <1>3. CASE Provision \/ \E floor \in Floors : SetFloor(floor)
    BY <1>1, <1>3 DEF Provision, SetFloor, FloorSet, Ensured, WalletRow
  <1>4. QED
    BY <1>2, <1>3 DEF LedgerNext, vars

\* A key once in the ledger stays in it.
LEMMA KeysStay ==
    ASSUME LedgerTypeOK, [LedgerNext]_vars, NEW k \in Keys, KeyIn(k, ledger)
    PROVE  KeyIn(k, ledger')
  <1>1. CASE UNCHANGED ledger
    BY <1>1 DEF KeyIn
  <1>2. ASSUME NEW e, ledger' = Append(ledger, e) PROVE KeyIn(k, ledger')
    <2>1. PICK i \in DOMAIN ledger : ledger[i].key = k
      BY DEF KeyIn
    <2>2. i \in DOMAIN ledger' /\ ledger'[i] = ledger[i]
      BY <1>2, <2>1 DEF LedgerTypeOK
    <2>3. QED
      BY <2>1, <2>2 DEF KeyIn
  <1>3. QED
    BY <1>1, <1>2 DEF LedgerNext, Operate, Effect, Provision, SetFloor, vars

\* An Effect puts its key into the ledger.
LEMMA EffectHasKey ==
    ASSUME LedgerTypeOK, NEW k, NEW a, NEW w, Effect(k, a, w)
    PROVE  KeyIn(k, ledger')
  <1>1. ledger' = Append(ledger, Entry(k, a, row'))
    BY DEF Effect
  <1>2. Len(ledger) + 1 \in DOMAIN ledger' /\ ledger'[Len(ledger) + 1] = Entry(k, a, row')
    BY <1>1 DEF LedgerTypeOK
  <1>3. QED
    BY <1>2 DEF KeyIn, Entry

\* Initially no call has been answered.
LEMMA TxnInitInv == TxnInit => TxnInv
  BY LedgerInitInv, AnswersTyped DEF TxnInit, TxnInv, TxnTypeOK, LedgerInv, FailsClosed,
     RowKnown, Failure, Reasons

\* A call that returns: the answer has its type, and if it says ok of an
\* operation that reports its outcome, the key is in the ledger.
LEMMA ReturnKeeps ==
    ASSUME TxnInv, [LedgerNext]_vars, LedgerInv', NEW c \in Callers, NEW a \in Answer,
           Return(c, a), req' \in [Callers -> Request],
           \A d \in Callers : d # c => req'[d] = req[d],
           a.ok /\ ~Swallows(req'[c].key.op) => KeyIn(req'[c].key, ledger')
    PROVE  TxnInv'
  <1>1. TxnTypeOK'
    BY ReturnTyped DEF TxnInv, TxnTypeOK, LedgerInv
  <1>2. ASSUME NEW d \in Callers, answer'[d].ok, ~Swallows(req'[d].key.op), pc'[d] = "idle"
        PROVE  KeyIn(req'[d].key, ledger')
    <2>1. CASE d = c
      BY <1>2, <2>1 DEF Return, TxnInv, TxnTypeOK
    <2>2. CASE d # c
      <3>1. answer'[d] = answer[d] /\ pc'[d] = pc[d] /\ req'[d] = req[d]
        BY <2>2 DEF Return, TxnInv, TxnTypeOK
      <3>2. req[d].key \in Keys
        BY DEF TxnInv, TxnTypeOK, Request
      <3>3. KeyIn(req[d].key, ledger)
        BY <1>2, <3>1 DEF TxnInv, FailsClosed, HasKey, KeyIn
      <3>4. QED
        BY <3>1, <3>2, <3>3, KeysStay DEF TxnInv, LedgerInv
    <2>3. QED
      BY <2>1, <2>2
  <1>3. FailsClosed'
    BY <1>2 DEF FailsClosed, HasKey, KeyIn
  <1>4. RowKnown'
    BY RowStays DEF TxnInv, TxnTypeOK, RowKnown, Return
  <1>5. QED
    BY <1>1, <1>3, <1>4 DEF TxnInv

\* Begin, on a key that is already in the ledger or is not.
LEMMA BeginKeeps ==
    ASSUME TxnInv, NEW c \in Callers, NEW r \in Request, Begin(c, r)
    PROVE  TxnInv'
  <1>1. /\ req' \in [Callers -> Request] /\ req'[c] = r
        /\ \A d \in Callers : d # c => req'[d] = req[d]
        /\ row' = row /\ ledger' = ledger /\ r.key \in Keys
    BY DEF Begin, TxnInv, TxnTypeOK, vars, Request
  <1>2. LedgerInv'
    BY <1>1 DEF TxnInv, LedgerInv, LedgerTypeOK, Solvent, ExactlyOnce, AuditTrail
  <1>3. CASE HasKey(r.key)
    <2>1. Return(c, Replay(r.key)) /\ Replay(r.key) \in Answer
      BY <1>1, <1>3, ReplayTyped DEF Begin, TxnInv, TxnTypeOK
    <2>2. KeyIn(req'[c].key, ledger')
      BY <1>1, <1>3 DEF HasKey, KeyIn
    <2>3. [LedgerNext]_vars
      BY <1>1 DEF vars
    <2>4. QED
      BY <1>1, <1>2, <2>1, <2>2, <2>3, ReturnKeeps
  <1>4. CASE ~HasKey(r.key)
    <2>1. pc' = [pc EXCEPT ![c] = "checked"] /\ answer' = answer
      BY <1>4 DEF Begin
    <2>2. TxnTypeOK'
      BY <1>1, <1>2, <2>1 DEF TxnInv, TxnTypeOK, LedgerInv
    <2>3. FailsClosed'
      BY <1>1, <2>1 DEF TxnInv, TxnTypeOK, FailsClosed, HasKey
    <2>4. RowKnown'
      BY <1>1, <2>1 DEF Begin, NeedsRow, TxnInv, TxnTypeOK, RowKnown
    <2>5. QED
      BY <1>2, <2>2, <2>3, <2>4 DEF TxnInv
  <1>5. QED
    BY <1>3, <1>4

\* A Return after an effect: the key is in the ledger, whatever the answer.
LEMMA EffectReturnKeeps ==
    ASSUME TxnInv, LedgerInv', [LedgerNext]_vars, NEW c \in Callers, NEW w,
           NEW r \in Request, req' \in [Callers -> Request], req'[c] = r,
           \A d \in Callers : d # c => req'[d] = req[d],
           Effect(r.key, r.amount, w),
           Return(c, Granted(r)) \/ Return(c, DbError(r.key.op))
    PROVE  TxnInv'
  <1>1. r.key \in Keys /\ r.key.op \in Ops /\ r.amount \in Nat
    BY KeysAssumption, AmountsAssumption DEF Request
  <1>2. Granted(r) \in Answer /\ DbError(r.key.op) \in Answer
    BY <1>1, AnswersTyped DEF Granted
  <1>3. KeyIn(req'[c].key, ledger')
    BY EffectHasKey DEF TxnInv, LedgerInv
  <1>4. QED
    BY <1>2, <1>3, ReturnKeeps

\* A Return with nothing written: the answer is not an "ok" that counts.
LEMMA FailureReturnKeeps ==
    ASSUME TxnInv, LedgerInv', [LedgerNext]_vars, NEW c \in Callers, NEW a,
           NEW r \in Request, req' \in [Callers -> Request], req'[c] = r,
           \A d \in Callers : d # c => req'[d] = req[d],
           \/ a = DbError(r.key.op)
           \/ a \in Rejections(r.key.op) /\ r.key.op # "topup",
           Return(c, a)
    PROVE  TxnInv'
  <1>1. r.key.op \in Ops
    BY KeysAssumption DEF Request
  <1>2. a \in Answer
    BY <1>1, AnswersTyped
  <1>3. a.ok => Swallows(r.key.op)
    BY <1>1 DEF DbError, Rejections, Failure, Success, Swallows, Ops, HoldOps
  <1>4. QED
    BY <1>2, <1>3, ReturnKeeps

\* Every transaction step keeps TxnInv.
LEMMA TxnNextInv == TxnInv /\ [TxnNext]_txnVars => TxnInv'
  <1> SUFFICES ASSUME TxnInv, [TxnNext]_txnVars PROVE TxnInv'
    OBVIOUS
  <1>1. [LedgerNext]_vars /\ LedgerInv'
    BY TxnStepRefines, LedgerNextInv DEF TxnInv
  <1>2. ASSUME NEW c \in Callers, NEW r \in Request, Begin(c, r) PROVE TxnInv'
    BY <1>2, BeginKeeps
  <1>3. ASSUME NEW c \in Callers, NEW r \in Request, FirstTouch(c, r) PROVE TxnInv'
    <2>1. /\ req' \in [Callers -> Request] /\ req'[c] = r
          /\ \A d \in Callers : d # c => req'[d] = req[d]
      BY <1>3 DEF FirstTouch, TxnInv, TxnTypeOK
    <2>2. CASE Effect(r.key, r.amount, Starter)
                 /\ (Return(c, Granted(r)) \/ Return(c, DbError(r.key.op)))
      BY <1>1, <2>1, <2>2, EffectReturnKeeps
    <2>3. ASSUME ~UpdateMatches(r.key.op, Starter, r.amount),
                 NEW a \in Rejections(r.key.op), Return(c, a)
          PROVE  TxnInv'
      <3>1. r.key.op # "topup"
        BY <2>3 DEF UpdateMatches, Starter, HoldOps
      <3>2. QED
        BY <1>1, <2>1, <2>3, <3>1, FailureReturnKeeps
    <2>4. QED
      BY <1>3, <2>2, <2>3 DEF FirstTouch
  <1>4. ASSUME NEW c \in Callers, Commit(c) PROVE TxnInv'
    <2>1. /\ req' = req /\ req[c] \in Request /\ req \in [Callers -> Request]
          /\ Effect(req[c].key, req[c].amount, row)
          /\ Return(c, Granted(req[c])) \/ Return(c, DbError(req[c].key.op))
      BY <1>4 DEF Commit, TxnInv, TxnTypeOK
    <2>2. QED
      BY <1>1, <2>1, EffectReturnKeeps
  <1>5. ASSUME NEW c \in Callers, Reject(c) \/ DuplicateKey(c) \/ Rollback(c)
        PROVE  TxnInv'
    <2>1. /\ req' = req /\ req[c] \in Request /\ req \in [Callers -> Request]
          /\ pc[c] = "checked"
      BY <1>5 DEF Reject, DuplicateKey, Rollback, TxnInv, TxnTypeOK
    <2>2. CASE DuplicateKey(c) \/ Rollback(c)
      BY <1>1, <2>1, <2>2, FailureReturnKeeps DEF DuplicateKey, Rollback
    <2>3. CASE Reject(c) /\ req[c].key.op # "topup"
      BY <1>1, <2>1, <2>3, FailureReturnKeeps DEF Reject
    <2>4. CASE Reject(c) /\ req[c].key.op = "topup"
      BY <2>1, <2>4 DEF Reject, UpdateMatches, TxnInv, RowKnown, EnsuringOps, HoldOps
    <2>5. QED
      BY <1>5, <2>2, <2>3, <2>4
  <1>6. CASE Router
    <2>1. pc' = pc /\ req' = req /\ answer' = answer /\ ledger' = ledger
      BY <1>6 DEF Router, Provision, SetFloor
    <2>2. TxnTypeOK'
      BY <1>1, <2>1 DEF TxnInv, TxnTypeOK, LedgerInv
    <2>3. FailsClosed'
      BY <2>1 DEF TxnInv, FailsClosed, HasKey
    <2>4. RowKnown'
      BY <1>1, <2>1, RowStays DEF TxnInv, RowKnown
    <2>5. QED
      BY <1>1, <2>2, <2>3, <2>4 DEF TxnInv
  <1>7. CASE UNCHANGED txnVars
    BY <1>1, <1>7 DEF txnVars, TxnInv, TxnTypeOK, LedgerInv, FailsClosed, HasKey, RowKnown
  <1>8. QED
    BY <1>2, <1>3, <1>4, <1>5, <1>6, <1>7 DEF TxnNext

(***************************************************************************)
(* The invariant of the transactions: whatever races, errors and lost      *)
(* acknowledgements the calls meet.                                        *)
(***************************************************************************)
THEOREM TxnCorrect == TxnSpec => []TxnInv
  BY TxnInitInv, TxnNextInv, PTL DEF TxnSpec

(***************************************************************************)
(* Refinement: the concurrent transactions of budget.py implement the      *)
(* indivisible wallet that hold, consume, release, refund, extend_hold and *)
(* topup promise.                                                          *)
(***************************************************************************)
THEOREM TransactionsImplementLedger == TxnSpec => ImplementsLedger
  <1>1. TxnInit => LedgerInit
    BY DEF TxnInit
  <1>2. TxnInv /\ [TxnNext]_txnVars => [LedgerNext]_vars
    BY TxnStepRefines DEF TxnInv
  <1>3. QED
    BY <1>1, <1>2, TxnCorrect, PTL DEF TxnSpec, LedgerSpec, ImplementsLedger

(***************************************************************************)
(* Type correctness of the transaction model.                              *)
(***************************************************************************)
THEOREM TxnTypeCorrect == TxnSpec => []TxnTypeOK
  BY TxnCorrect, PTL DEF TxnInv

(***************************************************************************)
(* No interleaving of operations breaks held_ru >= 0 or balance_ru >=      *)
(* held_ru: the CHECK constraints of user_budget_wallets never fire.       *)
(***************************************************************************)
THEOREM TxnSolvent == TxnSpec => []Solvent
  BY TxnCorrect, PTL DEF TxnInv, LedgerInv

(***************************************************************************)
(* Raced and retried calls: a key takes effect at most once.               *)
(***************************************************************************)
THEOREM TxnExactlyOnce == TxnSpec => []ExactlyOnce
  BY TxnCorrect, PTL DEF TxnInv, LedgerInv

(***************************************************************************)
(* wallet_operations documents every change of balance and held, in order. *)
(***************************************************************************)
THEOREM TxnAuditTrail == TxnSpec => []AuditTrail
  BY TxnCorrect, PTL DEF TxnInv, LedgerInv

(***************************************************************************)
(* No caller is told ok about a hold, extension, consume or topup that is  *)
(* not in the ledger.                                                      *)
(***************************************************************************)
THEOREM TxnFailsClosed == TxnSpec => []FailsClosed
  BY TxnCorrect, PTL DEF TxnInv

-----------------------------------------------------------------------------
(***************************************************************************)
(* spent_ru_lifetime is the sum of the consume rows.  ConsumedUpTo is      *)
(* defined by recursion; the invariant speaks of all the solutions of the  *)
(* recursion instead, and says that there is one.                          *)
(***************************************************************************)
ConsumedBy(e) == IF e.key.op = "consume" THEN e.amount ELSE 0

IsTotal(l, total) ==
    total = [i \in 0 .. Len(l) |-> IF i = 0 THEN 0 ELSE total[i - 1] + ConsumedBy(l[i])]

SpentInv ==
    /\ \E total : IsTotal(ledger, total)
    /\ \A total : IsTotal(ledger, total) => total[Len(ledger)] = row.spent

\* ConsumedUpTo is one of the solutions.
LEMMA ConsumedAsChoice == ConsumedUpTo = CHOOSE total : IsTotal(ledger, total)
  BY DEF ConsumedUpTo, IsTotal, ConsumedBy

\* So what all the solutions say, ConsumedUpTo says.
LEMMA SpentInvSays == SpentInv => SpentIsConsumed
  <1> SUFFICES ASSUME SpentInv PROVE SpentIsConsumed
    OBVIOUS
  <1>1. PICK total : total = (CHOOSE t : IsTotal(ledger, t))
    OBVIOUS
  <1>2. IsTotal(ledger, total)
    BY <1>1, Zenon DEF SpentInv
  <1>3. QED
    BY <1>1, <1>2, ConsumedAsChoice DEF SpentInv, SpentIsConsumed

\* Nothing is spent, and nothing consumed, at the start.
LEMMA SpentInit == LedgerInit => SpentInv
  <1> SUFFICES ASSUME LedgerInit PROVE SpentInv
    OBVIOUS
  <1>1. Len(ledger) = 0 /\ row.spent = 0
    BY EmptySeq DEF LedgerInit, Unprovisioned
  <1>2. IsTotal(ledger, [i \in 0 .. 0 |-> 0])
    BY <1>1 DEF IsTotal
  <1>3. ASSUME NEW total, IsTotal(ledger, total) PROVE total[0] = 0
    BY <1>1, <1>3 DEF IsTotal
  <1>4. QED
    BY <1>1, <1>2, <1>3 DEF SpentInv

\* Only a consume adds to what was spent.
LEMMA UpdatedSpends ==
    ASSUME NEW w \in WalletRow, NEW k \in Keys, NEW a \in Amounts, NEW v
    PROVE  Updated(k.op, w, a).spent = w.spent + ConsumedBy(Entry(k, a, v))
  <1>1. k.op \in Ops /\ a \in Nat /\ w.spent \in Nat
    BY KeysAssumption, AmountsAssumption DEF WalletRow
  <1>2. ConsumedBy(Entry(k, a, v)) = IF k.op = "consume" THEN a ELSE 0
    BY DEF ConsumedBy, Entry
  <1>3. CASE k.op \in HoldOps
    BY <1>1, <1>2, <1>3 DEF Updated, Held, WalletRow, HoldOps
  <1>4. CASE k.op = "consume"
    <2>1. Updated(k.op, w, a) = Consumed(w, a)
      BY <1>4 DEF Updated, HoldOps
    <2>2. PICK b : b = AtLeastZero(w.balance - a)
      OBVIOUS
    <2>3. PICK h : h = AtLeastZero(w.held - a)
      OBVIOUS
    <2>4. Consumed(w, a) = [w EXCEPT !.balance = b, !.held = h, !.spent = w.spent + a]
      BY <2>2, <2>3 DEF Consumed
    <2>5. QED
      BY <1>1, <1>2, <1>4, <2>1, <2>4 DEF WalletRow
  <1>5. CASE k.op = "release"
    BY <1>1, <1>2, <1>5 DEF Updated, Released, WalletRow, HoldOps
  <1>6. CASE k.op = "refund"
    <2>1. Updated(k.op, w, a) = Refunded(w, a)
      BY <1>6 DEF Updated, HoldOps
    <2>2. PICK b : b = w.balance + a
      OBVIOUS
    <2>3. PICK h : h = AtLeastZero(w.held - a)
      OBVIOUS
    <2>4. Refunded(w, a) = [w EXCEPT !.balance = b, !.held = h]
      BY <2>2, <2>3 DEF Refunded
    <2>5. [w EXCEPT !.balance = b, !.held = h].spent = w.spent
      BY DEF WalletRow
    <2>6. Updated(k.op, w, a).spent = w.spent
      BY <2>1, <2>4, <2>5, Zenon
    <2>7. QED
      BY <1>1, <1>2, <1>6, <2>6
  <1>7. CASE k.op = "topup"
    BY <1>1, <1>2, <1>7 DEF Updated, ToppedUp, WalletRow, HoldOps
  <1>8. QED
    BY <1>1, <1>3, <1>4, <1>5, <1>6, <1>7 DEF Ops

\* A solution for a longer ledger solves the shorter one, and goes on from it.
LEMMA TotalShortens ==
    ASSUME ledger \in Seq(LedgerRow), NEW e \in LedgerRow, NEW total,
           IsTotal(Append(ledger, e), total)
    PROVE  /\ IsTotal(ledger, [i \in 0 .. Len(ledger) |-> total[i]])
           /\ total[Len(ledger) + 1] = total[Len(ledger)] + ConsumedBy(e)
  <1>1. PICK l : l = Append(ledger, e)
    OBVIOUS
  <1>2. PICK n \in Nat : n = Len(ledger)
    OBVIOUS
  <1>3. Len(l) = n + 1 /\ l[n + 1] = e /\ \A i \in 1 .. n : l[i] = ledger[i]
    BY <1>1, <1>2
  <1>4. \A i \in 0 .. n + 1 : total[i] = IF i = 0 THEN 0 ELSE total[i - 1] + ConsumedBy(l[i])
    BY <1>1, <1>3 DEF IsTotal
  <1>5. PICK short : short = [i \in 0 .. n |-> total[i]]
    OBVIOUS
  <1>6. short = [i \in 0 .. n |-> IF i = 0 THEN 0 ELSE short[i - 1] + ConsumedBy(ledger[i])]
    <2>1. ASSUME NEW i \in 0 .. n
          PROVE  short[i] = IF i = 0 THEN 0 ELSE short[i - 1] + ConsumedBy(ledger[i])
      <3>1. i # 0 => i - 1 \in 0 .. n /\ i \in 1 .. n
        OBVIOUS
      <3>2. QED
        BY <1>3, <1>4, <1>5, <3>1
    <2>2. QED
      BY <1>5, <2>1
  <1>7. IsTotal(ledger, short)
    BY <1>2, <1>6 DEF IsTotal
  <1>8. total[n + 1] = total[n] + ConsumedBy(e)
    BY <1>3, <1>4
  <1>9. QED
    BY <1>2, <1>5, <1>7, <1>8

\* And a solution for the shorter one can be continued.
LEMMA TotalLengthens ==
    ASSUME ledger \in Seq(LedgerRow), NEW e \in LedgerRow, NEW total, IsTotal(ledger, total)
    PROVE  \E longer : IsTotal(Append(ledger, e), longer)
  <1>1. PICK l : l = Append(ledger, e)
    OBVIOUS
  <1>2. PICK n \in Nat : n = Len(ledger)
    OBVIOUS
  <1>3. Len(l) = n + 1 /\ l[n + 1] = e /\ \A i \in 1 .. n : l[i] = ledger[i]
    BY <1>1, <1>2
  <1>4. PICK longer : longer = [i \in 0 .. n + 1 |->
                                  IF i = 0 THEN 0 ELSE total[i - 1] + ConsumedBy(l[i])]
    OBVIOUS
  <1>5. \A i \in 0 .. n : total[i] = IF i = 0 THEN 0 ELSE total[i - 1] + ConsumedBy(ledger[i])
    BY <1>2 DEF IsTotal
  <1>6. \A i \in 0 .. n : longer[i] = total[i]
    <2>1. ASSUME NEW i \in 0 .. n PROVE longer[i] = total[i]
      <3>1. i # 0 => i \in 1 .. n
        OBVIOUS
      <3>2. QED
        BY <1>3, <1>4, <1>5, <3>1
    <2>2. QED
      BY <2>1
  <1>7. \A i \in 0 .. n + 1 : i # 0 => i - 1 \in 0 .. n
    OBVIOUS
  <1>8. longer = [i \in 0 .. n + 1 |->
                    IF i = 0 THEN 0 ELSE longer[i - 1] + ConsumedBy(l[i])]
    BY <1>4, <1>6, <1>7
  <1>9. IsTotal(l, longer)
    BY <1>3, <1>8 DEF IsTotal
  <1>10. QED
    BY <1>1, <1>9

\* Every step of the ledger keeps it.
LEMMA SpentStep == LedgerInv /\ SpentInv /\ [LedgerNext]_vars => SpentInv'
  <1> SUFFICES ASSUME LedgerInv, SpentInv, [LedgerNext]_vars PROVE SpentInv'
    OBVIOUS
  <1>1. row \in WalletRow /\ ledger \in Seq(LedgerRow) /\ row.held <= row.balance
    BY DEF LedgerInv, LedgerTypeOK, Solvent
  <1>2. Ensured(row) \in WalletRow /\ Ensured(row).spent = row.spent
    <2>1. CASE row.exists
      BY <1>1, <2>1 DEF Ensured
    <2>2. CASE ~row.exists
      <3>1. ledger = << >> /\ Len(ledger) = 0
        BY <2>2, EmptySeq DEF LedgerInv, AuditTrail
      <3>2. IsTotal(ledger, [i \in 0 .. 0 |-> 0])
        BY <3>1 DEF IsTotal
      <3>3. PICK total : total = [i \in 0 .. 0 |-> 0]
        OBVIOUS
      <3>4. total[0] = row.spent /\ total[0] = 0
        BY <3>1, <3>2, <3>3 DEF SpentInv
      <3>5. QED
        BY <1>1, <2>2, <3>4, EnsuredIsRow DEF Ensured, Starter
    <2>3. QED
      BY <2>1, <2>2
  <1>3. ASSUME NEW k \in Keys, NEW a \in Amounts, Operate(k, a) PROVE SpentInv'
    <2>1. PICK w : w = IF k.op \in EnsuringOps THEN Ensured(row) ELSE row
      OBVIOUS
    <2>2. PICK e : e = Entry(k, a, row')
      OBVIOUS
    <2>3. w \in WalletRow /\ w.spent = row.spent
      BY <1>1, <1>2, <2>1
    <2>4. row' = Updated(k.op, w, a) /\ ledger' = Append(ledger, e)
      BY <1>3, <2>1, <2>2 DEF Operate, Effect
    <2>5. row'.spent = row.spent + ConsumedBy(e)
      BY <2>2, <2>3, <2>4, UpdatedSpends
    <2>6. e \in LedgerRow
      <3>1. k.op \in Ops /\ a \in Nat
        BY KeysAssumption, AmountsAssumption
      <3>2. row' \in WalletRow
        BY <2>3, <2>4, <3>1, UpdatedIsRow
      <3>3. QED
        BY <2>2, <3>2 DEF Entry, LedgerRow, WalletRow
    <2>7. \E longer : IsTotal(ledger', longer)
      BY <1>1, <2>4, <2>6, TotalLengthens DEF SpentInv
    <2>8. Len(ledger') = Len(ledger) + 1
      BY <1>1, <2>4
    <2>9. ASSUME NEW total, IsTotal(ledger', total) PROVE total[Len(ledger')] = row'.spent
      <3>1. PICK short : short = [i \in 0 .. Len(ledger) |-> total[i]]
        OBVIOUS
      <3>2. /\ IsTotal(ledger, short)
            /\ total[Len(ledger) + 1] = total[Len(ledger)] + ConsumedBy(e)
        BY <1>1, <2>4, <2>6, <2>9, <3>1, TotalShortens
      <3>3. short[Len(ledger)] = total[Len(ledger)]
        BY <1>1, <3>1
      <3>4. short[Len(ledger)] = row.spent
        BY <3>2 DEF SpentInv
      <3>5. QED
        BY <2>5, <2>8, <3>2, <3>3, <3>4
    <2>10. QED
      BY <2>7, <2>9 DEF SpentInv
  <1>4. CASE Provision \/ \E floor \in Floors : SetFloor(floor)
    <2>1. PICK w \in WalletRow : w = Ensured(row) /\ w.spent = row.spent
      BY <1>2
    <2>2. row'.spent = row.spent /\ ledger' = ledger
      BY <1>4, <2>1 DEF Provision, SetFloor, FloorSet, WalletRow
    <2>3. QED
      BY <2>2 DEF SpentInv
  <1>5. CASE UNCHANGED vars
    BY <1>5 DEF vars, SpentInv
  <1>6. QED
    BY <1>3, <1>4, <1>5 DEF LedgerNext

(***************************************************************************)
(* What wallet_operations says was consumed is what the wallet says was    *)
(* spent, also when a consume was more than the balance or the hold.       *)
(***************************************************************************)
THEOREM TxnSpentIsConsumed == TxnSpec => []SpentIsConsumed
  <1>1. TxnInit => TxnInv /\ SpentInv
    BY TxnInitInv, SpentInit DEF TxnInit
  <1>2. (TxnInv /\ SpentInv) /\ [TxnNext]_txnVars => (TxnInv /\ SpentInv)'
    BY TxnNextInv, TxnStepRefines, SpentStep DEF TxnInv
  <1>3. QED
    BY <1>1, <1>2, SpentInvSays, PTL DEF TxnSpec

-----------------------------------------------------------------------------
\* One hold, extension or consume of an existing wallet frees nothing.
LEMMA OperateFreesNothing ==
    ASSUME NEW w \in WalletRow, w.held <= w.balance, NEW a \in Nat,
           NEW op \in HoldOps \cup {"consume"}
    PROVE  Available(Updated(op, w, a)) <= Available(w)
  <1>1. CASE op \in HoldOps
    <2>1. Updated(op, w, a) = Held(w, a)
      BY <1>1 DEF Updated, HoldOps
    <2>2. Held(w, a).balance = w.balance /\ Held(w, a).held = w.held + a
      BY DEF Held, WalletRow
    <2>3. QED
      BY <2>1, <2>2 DEF Available, WalletRow
  <1>2. CASE op = "consume"
    <2>1. Updated(op, w, a) = Consumed(w, a)
      BY <1>2 DEF Updated, HoldOps
    <2>2. w.balance \in Nat /\ w.held \in Nat
      BY DEF WalletRow
    <2>3. AtLeastZero(w.balance - a) - AtLeastZero(w.held - a) <= w.balance - w.held
      BY <2>2 DEF AtLeastZero
    <2>4. QED
      BY <2>1, <2>3, TwoColumnUpdates DEF Available
  <1>3. QED
    BY <1>1, <1>2

(***************************************************************************)
(* A consume, even of more than was held, never makes RU spendable again   *)
(* that another run has reserved.                                          *)
(***************************************************************************)
THEOREM TxnSpendableOnlyFreed == TxnSpec => SpendableOnlyFreed
  <1> DEFINE Freed == /\ row.exists
                      /\ ledger' # ledger
                      /\ ledger'[Len(ledger')].key.op \in HoldOps \cup {"consume"}
                      => Available(row') <= Available(row)
  <1>1. ASSUME LedgerInv, [LedgerNext]_vars, row.exists, ledger' # ledger,
               ledger'[Len(ledger')].key.op \in HoldOps \cup {"consume"}
        PROVE  Available(row') <= Available(row)
    <2>1. PICK k \in Keys, a \in Amounts : Operate(k, a)
      BY <1>1 DEF LedgerNext, Provision, SetFloor, vars
    <2>2. row' = Updated(k.op, row, a) /\ ledger' = Append(ledger, Entry(k, a, row'))
      BY <1>1, <2>1 DEF Operate, Effect, Ensured
    <2>3. ledger'[Len(ledger')] = Entry(k, a, row')
      BY <1>1, <2>2 DEF LedgerInv, LedgerTypeOK
    <2>4. k.op \in HoldOps \cup {"consume"}
      BY <1>1, <2>3 DEF Entry
    <2>5. row \in WalletRow /\ row.held <= row.balance /\ a \in Nat
      BY <1>1, AmountsAssumption DEF LedgerInv, LedgerTypeOK, Solvent
    <2>6. QED
      BY <2>2, <2>4, <2>5, OperateFreesNothing
  <1>2. TxnInv /\ [TxnNext]_txnVars => [Freed]_vars
    BY <1>1, TxnStepRefines DEF TxnInv
  <1>3. QED
    BY <1>2, TxnCorrect, PTL DEF TxnSpec, SpendableOnlyFreed

=============================================================================
