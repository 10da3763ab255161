------------------------ MODULE EngineBillingProofs ------------------------
(***************************************************************************)
(* Proofs about EngineBilling, for any users, runs and engines and any     *)
(* estimates and costs, and for every set of faults: types, solvency, one  *)
(* effect per key, that what a user has spent is the sum of his consume    *)
(* rows, that only disturbed runs leak, what covers the holds, and which   *)
(* refunds add to a balance.  The caps of the admission gate are proved    *)
(* for a pipeline_runs that can be written.                                *)
(***************************************************************************)
EXTENDS EngineBilling, FiniteSetTheorems, TLAPS

-----------------------------------------------------------------------------
(***************************************************************************)
(* Sums over finite sets.  An induction principle with a set in the place  *)
(* of the predicate, the equation that defines a sum, and from it that the *)
(* order of the summands does not matter.                                  *)
(***************************************************************************)

\* A set that holds 0 and with n its successor holds the natural numbers.
LEMMA AllNaturals ==
    ASSUME NEW P, 0 \in P, \A n \in Nat : n \in P => n + 1 \in P
    PROVE  Nat \subseteq P
<1> DEFINE T == {n \in Nat : n \notin P}
<1> SUFFICES ASSUME T # {} PROVE FALSE
  OBVIOUS
<1>1. T \subseteq Nat
  OBVIOUS
<1> HIDE DEF T
<1>2. PICK m \in T : \A k \in T : ~(<<k, m>> \in OpToRel(<, Nat))
  BY <1>1, WFMin, NatLessThanWellFounded
<1>3. \A k \in T : ~(k < m)
  BY <1>1, <1>2 DEF OpToRel
<1>4. m \in Nat /\ m \notin P
  BY DEF T
<1>5. m # 0 /\ m - 1 \in Nat
  BY <1>4
<1>6. m - 1 \in P
  BY <1>3, <1>5 DEF T
<1> QED
  BY <1>4, <1>5, <1>6

\* One element less.
LEMMA OneLess ==
    ASSUME NEW S, IsFiniteSet(S), NEW x \in S
    PROVE  /\ IsFiniteSet(S \ {x}) /\ Cardinality(S) \in Nat
           /\ Cardinality(S \ {x}) = Cardinality(S) - 1
<1>1. Cardinality(S \ {x}) = IF x \in S THEN Cardinality(S) - 1 ELSE Cardinality(S)
  BY FS_RemoveElement
<1> QED
  BY <1>1, FS_RemoveElement, FS_CardinalityType

\* A set of subsets of S that holds each one when it holds all those with one
\* element less holds them all.
LEMMA SubsetInduction ==
    ASSUME NEW S, IsFiniteSet(S), NEW Q,
           \A T \in SUBSET S : (\A x \in T : T \ {x} \in Q) => T \in Q
    PROVE  \A T \in SUBSET S : T \in Q
<1> DEFINE P == {k \in Nat : \A T \in SUBSET S : Cardinality(T) = k => T \in Q}
<1>1. 0 \in P
  <2> SUFFICES ASSUME NEW T \in SUBSET S, Cardinality(T) = 0 PROVE T \in Q
    OBVIOUS
  <2>1. IsFiniteSet(T)
    BY FS_Subset
  <2>2. T = {}
    BY <2>1, FS_EmptySet
  <2> QED
    BY <2>2
<1>2. ASSUME NEW k \in Nat, k \in P PROVE k + 1 \in P
  <2> SUFFICES ASSUME NEW T \in SUBSET S, Cardinality(T) = k + 1 PROVE T \in Q
    OBVIOUS
  <2>1. IsFiniteSet(T)
    BY FS_Subset
  <2>2. \A x \in T : Cardinality(T \ {x}) = (k + 1) - 1
    BY <2>1, OneLess
  <2> QED
    BY <1>2, <2>2
<1>3. \A T \in SUBSET S : Cardinality(T) \in Nat
  BY FS_Subset, FS_CardinalityType
<1>4. Nat \subseteq P
  <2> HIDE DEF P
  <2> QED
    BY <1>1, <1>2, AllNaturals
<1> QED
  BY <1>3, <1>4

First(s) == CHOOSE x \in s : TRUE

\* The recursion that defines SumFunctionOnSet, on the sets in SS.
IsSum(f, SS, sum) ==
    sum = [s \in SS |-> IF s = {} THEN 0 ELSE f[First(s)] + sum[s \ {First(s)}]]

\* A sum is the value at S of some solution of its recursion.
LEMMA SumAsChoice ==
    ASSUME NEW f, NEW S
    PROVE  SumFunctionOnSet(f, S) = (CHOOSE sum : IsSum(f, SUBSET S, sum))[S]
BY DEF SumFunctionOnSet, FoldFunctionOnSet, MapThenFoldSet, IsSum, First

\* Subsets of S with at most k elements.
UpTo(S, k) == {s \in SUBSET S : Cardinality(s) <= k}

\* The recursion has a solution, by induction on the size of the sets.
LEMMA SumExists ==
    ASSUME NEW f, NEW S, IsFiniteSet(S)
    PROVE  \E sum : IsSum(f, SUBSET S, sum)
<1>1. ASSUME NEW s \in SUBSET S
      PROVE  /\ Cardinality(s) \in Nat /\ Cardinality(s) <= Cardinality(S)
             /\ s # {} => Cardinality(s \ {First(s)}) = Cardinality(s) - 1
  <2>1. IsFiniteSet(s) /\ Cardinality(s) <= Cardinality(S)
    BY FS_Subset
  <2>2. s # {} => First(s) \in s
    BY DEF First
  <2> QED
    BY <2>1, <2>2, OneLess, FS_CardinalityType
<1> DEFINE P == {k \in Nat : \E sum : IsSum(f, UpTo(S, k), sum)}
<1>2. 0 \in P
  <2>1. ASSUME NEW s \in UpTo(S, 0) PROVE s = {}
    <3>1. s \in SUBSET S /\ Cardinality(s) <= 0
      BY DEF UpTo
    <3>2. s # {} => Cardinality(s \ {First(s)}) \in Nat
      BY <1>1, <3>1
    <3> QED
      BY <1>1, <3>1, <3>2
  <2>2. IsSum(f, UpTo(S, 0), [s \in UpTo(S, 0) |-> 0])
    BY <2>1 DEF IsSum
  <2> QED
    BY <2>2
<1>3. ASSUME NEW k \in Nat, k \in P PROVE k + 1 \in P
  <2>1. PICK sum : IsSum(f, UpTo(S, k), sum)
    BY <1>3
  <2> DEFINE longer == [s \in UpTo(S, k + 1) |->
                          IF s = {} THEN 0 ELSE f[First(s)] + sum[s \ {First(s)}]]
  <2>2. ASSUME NEW s \in UpTo(S, k + 1), s # {}
        PROVE  s \ {First(s)} \in UpTo(S, k) /\ s \ {First(s)} \in UpTo(S, k + 1)
    <3>1. s \in SUBSET S /\ Cardinality(s) <= k + 1
      BY DEF UpTo
    <3>2. Cardinality(s) \in Nat /\ Cardinality(s \ {First(s)}) = Cardinality(s) - 1
      BY <1>1, <2>2, <3>1
    <3> QED
      BY <3>1, <3>2 DEF UpTo
  <2>3. ASSUME NEW s \in UpTo(S, k), s \in UpTo(S, k + 1) PROVE longer[s] = sum[s]
    BY <2>1, <2>3 DEF IsSum
  <2>4. ASSUME NEW s \in UpTo(S, k + 1)
        PROVE  longer[s] = IF s = {} THEN 0 ELSE f[First(s)] + longer[s \ {First(s)}]
    BY <2>2, <2>3, <2>4
  <2>5. longer = [s \in UpTo(S, k + 1) |->
                    IF s = {} THEN 0 ELSE f[First(s)] + longer[s \ {First(s)}]]
    BY <2>4
  <2> HIDE DEF longer
  <2>6. IsSum(f, UpTo(S, k + 1), longer)
    BY <2>5 DEF IsSum
  <2> QED
    BY <2>6
<1>4. Cardinality(S) \in Nat /\ UpTo(S, Cardinality(S)) = SUBSET S
  BY <1>1 DEF UpTo
<1>5. Nat \subseteq P
  <2> HIDE DEF P
  <2> QED
    BY <1>2, <1>3, AllNaturals
<1>6. Cardinality(S) \in P
  BY <1>4, <1>5
<1> QED
  BY <1>4, <1>6

\* Two solutions agree where both are defined.
LEMMA SumsAgree ==
    ASSUME NEW f, NEW S, NEW T \in SUBSET S, IsFiniteSet(T), NEW sumS, NEW sumT,
           IsSum(f, SUBSET S, sumS), IsSum(f, SUBSET T, sumT)
    PROVE  sumS[T] = sumT[T]
<1> DEFINE Q == {s \in SUBSET T : sumS[s] = sumT[s]}
<1>1. ASSUME NEW s \in SUBSET T, \A x \in s : s \ {x} \in Q PROVE s \in Q
  <2>1. s # {} => First(s) \in s
    BY DEF First
  <2>2. s # {} => sumS[s \ {First(s)}] = sumT[s \ {First(s)}]
    BY <1>1, <2>1
  <2>3. sumS[s] = IF s = {} THEN 0 ELSE f[First(s)] + sumS[s \ {First(s)}]
    BY DEF IsSum
  <2>4. sumT[s] = IF s = {} THEN 0 ELSE f[First(s)] + sumT[s \ {First(s)}]
    BY DEF IsSum
  <2> QED
    BY <2>2, <2>3, <2>4
<1>2. \A s \in SUBSET T : s \in Q
  <2> HIDE DEF Q
  <2> QED
    BY <1>1, SubsetInduction
<1> QED
  BY <1>2

\* So the sum over a finite set satisfies the equation.
LEMMA SumEquation ==
    ASSUME NEW f, NEW S, IsFiniteSet(S)
    PROVE  SumFunctionOnSet(f, S) =
             IF S = {} THEN 0 ELSE f[First(S)] + SumFunctionOnSet(f, S \ {First(S)})
<1>1. PICK sumS : sumS = (CHOOSE sum : IsSum(f, SUBSET S, sum))
  OBVIOUS
<1>2. IsSum(f, SUBSET S, sumS)
  BY <1>1, SumExists, Zenon
<1>3. SumFunctionOnSet(f, S) = sumS[S]
  BY <1>1, SumAsChoice
<1>4. CASE S = {}
  BY <1>2, <1>3, <1>4 DEF IsSum
<1>5. CASE S # {}
  <2>1. PICK T : T = S \ {First(S)}
    OBVIOUS
  <2>2. T \in SUBSET S /\ IsFiniteSet(T)
    BY <2>1, FS_Subset
  <2>3. PICK sumT : sumT = (CHOOSE sum : IsSum(f, SUBSET T, sum))
    OBVIOUS
  <2>4. IsSum(f, SUBSET T, sumT)
    BY <2>2, <2>3, SumExists, Zenon
  <2>5. SumFunctionOnSet(f, T) = sumT[T]
    BY <2>3, SumAsChoice
  <2>6. sumS[S] = f[First(S)] + sumS[T]
    BY <1>2, <1>5, <2>1 DEF IsSum
  <2>7. sumS[T] = sumT[T]
    BY <1>2, <2>2, <2>4, SumsAgree
  <2> QED
    BY <1>3, <1>5, <2>1, <2>5, <2>6, <2>7
<1> QED
  BY <1>4, <1>5

\* A sum of natural numbers is one,
LEMMA SumNat ==
    ASSUME NEW f, NEW S, IsFiniteSet(S), \A x \in S : f[x] \in Nat
    PROVE  SumFunctionOnSet(f, S) \in Nat
<1> DEFINE Q == {T \in SUBSET S : SumFunctionOnSet(f, T) \in Nat}
<1>1. ASSUME NEW T \in SUBSET S, \A x \in T : T \ {x} \in Q PROVE T \in Q
  <2>1. T # {} => First(T) \in T
    BY DEF First
  <2>2. IsFiniteSet(T)
    BY FS_Subset
  <2>3. SumFunctionOnSet(f, T) =
          IF T = {} THEN 0 ELSE f[First(T)] + SumFunctionOnSet(f, T \ {First(T)})
    BY <2>2, SumEquation
  <2> QED
    BY <1>1, <2>1, <2>3
<1>2. \A T \in SUBSET S : T \in Q
  <2> HIDE DEF Q
  <2> QED
    BY <1>1, SubsetInduction
<1> QED
  BY <1>2

\* any summand can be split off,
LEMMA SumSplit ==
    ASSUME NEW f, NEW S, IsFiniteSet(S), \A x \in S : f[x] \in Nat, NEW a \in S
    PROVE  SumFunctionOnSet(f, S) = f[a] + SumFunctionOnSet(f, S \ {a})
<1> DEFINE Q == {T \in SUBSET S : \A x \in T :
                   SumFunctionOnSet(f, T) = f[x] + SumFunctionOnSet(f, T \ {x})}
<1>1. ASSUME NEW T \in SUBSET S, \A x \in T : T \ {x} \in Q PROVE T \in Q
  <2> SUFFICES ASSUME NEW x \in T
               PROVE  SumFunctionOnSet(f, T) = f[x] + SumFunctionOnSet(f, T \ {x})
    OBVIOUS
  <2>1. PICK c \in T : c = First(T)
    BY DEF First
  <2>2. IsFiniteSet(T)
    BY FS_Subset
  <2>3. SumFunctionOnSet(f, T) = f[c] + SumFunctionOnSet(f, T \ {c})
    BY <2>1, <2>2, SumEquation
  <2>4. CASE x = c
    BY <2>3, <2>4
  <2>5. CASE x # c
    <3>1. PICK z : z = SumFunctionOnSet(f, (T \ {c}) \ {x})
      OBVIOUS
    <3>2. z \in Nat
      <4>1. IsFiniteSet((T \ {c}) \ {x})
        BY <2>2, FS_Subset
      <4> QED
        BY <3>1, <4>1, SumNat
    <3>3. SumFunctionOnSet(f, T \ {c}) = f[x] + z
      BY <1>1, <2>5, <3>1
    <3>4. (T \ {x}) \ {c} = (T \ {c}) \ {x}
      OBVIOUS
    <3>5. SumFunctionOnSet(f, T \ {x}) = f[c] + z
      BY <1>1, <2>5, <3>1, <3>4
    <3>6. SumFunctionOnSet(f, T) = f[c] + (f[x] + z)
      BY <2>3, <3>3
    <3>7. f[x] \in Nat /\ f[c] \in Nat
      OBVIOUS
    <3> QED
      BY <3>2, <3>5, <3>6, <3>7
  <2> QED
    BY <2>4, <2>5
<1>2. \A T \in SUBSET S : T \in Q
  <2> HIDE DEF Q
  <2> QED
    BY <1>1, SubsetInduction
<1> QED
  BY <1>2

\* and a sum depends on the summands only.
LEMMA SumSame ==
    ASSUME NEW f, NEW g, NEW S, IsFiniteSet(S), \A x \in S : f[x] = g[x]
    PROVE  SumFunctionOnSet(f, S) = SumFunctionOnSet(g, S)
<1> DEFINE Q == {T \in SUBSET S : SumFunctionOnSet(f, T) = SumFunctionOnSet(g, T)}
<1>1. ASSUME NEW T \in SUBSET S, \A x \in T : T \ {x} \in Q PROVE T \in Q
  <2>1. T # {} => First(T) \in T
    BY DEF First
  <2>2. IsFiniteSet(T)
    BY FS_Subset
  <2>3. SumFunctionOnSet(f, T) =
          IF T = {} THEN 0 ELSE f[First(T)] + SumFunctionOnSet(f, T \ {First(T)})
    BY <2>2, SumEquation
  <2>4. SumFunctionOnSet(g, T) =
          IF T = {} THEN 0 ELSE g[First(T)] + SumFunctionOnSet(g, T \ {First(T)})
    BY <2>2, SumEquation
  <2> QED
    BY <1>1, <2>1, <2>3, <2>4
<1>2. \A T \in SUBSET S : T \in Q
  <2> HIDE DEF Q
  <2> QED
    BY <1>1, SubsetInduction
<1> QED
  BY <1>2

\* Sums of functions as the model writes them.  One summand changes;
LEMMA TotalChanges ==
    ASSUME NEW S, IsFiniteSet(S), NEW f \in [S -> Nat], NEW g \in [S -> Nat], NEW a \in S,
           \A x \in S : x # a => f[x] = g[x]
    PROVE  /\ SumFunction(f) \in Nat /\ SumFunction(g) \in Nat
           /\ SumFunction(f) - f[a] = SumFunction(g) - g[a]
           /\ SumFunction(f) >= f[a]
<1>1. PICK y : y = SumFunctionOnSet(f, S \ {a})
  OBVIOUS
<1>2. IsFiniteSet(S \ {a})
  BY FS_RemoveElement
<1>3. y \in Nat
  BY <1>1, <1>2, SumNat
<1>4. y = SumFunctionOnSet(g, S \ {a})
  BY <1>1, <1>2, SumSame
<1>5. SumFunction(f) = f[a] + y
  BY <1>1, SumSplit DEF SumFunction
<1>6. SumFunction(g) = g[a] + y
  BY <1>4, SumSplit DEF SumFunction
<1> QED
  BY <1>3, <1>5, <1>6

\* one is added.
LEMMA TotalGrows ==
    ASSUME NEW S, IsFiniteSet(S), NEW f \in [S -> Nat], NEW a, a \notin S,
           NEW g \in [S \cup {a} -> Nat], \A x \in S : f[x] = g[x]
    PROVE  SumFunction(f) \in Nat /\ SumFunction(g) = SumFunction(f) + g[a]
<1>1. IsFiniteSet(S \cup {a}) /\ (S \cup {a}) \ {a} = S
  BY FS_AddElement
<1>2. SumFunction(g) = g[a] + SumFunctionOnSet(g, S)
  BY <1>1, SumSplit DEF SumFunction
<1>3. SumFunctionOnSet(g, S) = SumFunction(f)
  BY SumSame DEF SumFunction
<1>4. SumFunction(f) \in Nat
  BY SumNat DEF SumFunction
<1> QED
  BY <1>2, <1>3, <1>4

USE RunsAssumption, StarterAssumption

Calls == {"hold", "consume", "release", "refund"}

WalletTypes == wallet \in [Users -> WalletRow] /\ ledger \subseteq LedgerRow

\* The first half of PaidOnce: a key takes effect once.
KeyOnce == \A x, y \in ledger : x.op = y.op /\ x.run = y.run /\ x.n = y.n => x = y

BillInv == TypeOK /\ Solvent /\ KeyOnce

-----------------------------------------------------------------------------
\* The columns after a consume and after a refund.
LEMMA PaidColumns ==
    ASSUME NEW w \in WalletRow, NEW a \in Nat
    PROVE  /\ Consumed(w, a) \in WalletRow /\ Refunded(w, a) \in WalletRow
           /\ Consumed(w, a).balance = AtLeastZero(w.balance - a)
           /\ Consumed(w, a).held = AtLeastZero(w.held - a)
           /\ Refunded(w, a).balance = w.balance + a
           /\ Refunded(w, a).held = AtLeastZero(w.held - a)
<1>1. PICK h : h = AtLeastZero(w.held - a)
  OBVIOUS
<1>2. PICK b : b = AtLeastZero(w.balance - a)
  OBVIOUS
<1>3. PICK s : s = w.spent + a
  OBVIOUS
<1>4. PICK c : c = w.balance + a
  OBVIOUS
<1>5. h \in Nat /\ b \in Nat /\ s \in Nat /\ c \in Nat
  BY <1>1, <1>2, <1>3, <1>4 DEF WalletRow, AtLeastZero
<1>6. Consumed(w, a) = [w EXCEPT !.balance = b, !.held = h, !.spent = s]
  BY <1>1, <1>2, <1>3 DEF Consumed
<1>7. Refunded(w, a) = [w EXCEPT !.balance = c, !.held = h]
  BY <1>1, <1>4 DEF Refunded
<1>8. /\ [w EXCEPT !.balance = b, !.held = h, !.spent = s] \in WalletRow
      /\ [w EXCEPT !.balance = c, !.held = h] \in WalletRow
  BY <1>5, Zenon DEF WalletRow
<1> QED
  BY <1>1, <1>2, <1>4, <1>6, <1>7, <1>8 DEF WalletRow

\* GREATEST(0, n) is monotone, and at most what is added to.
LEMMA AtLeastZeroCovers ==
    ASSUME NEW h \in Nat, NEW b \in Nat, NEW a \in Nat, h <= b
    PROVE  AtLeastZero(h - a) <= AtLeastZero(b - a) /\ AtLeastZero(h - a) <= b + a
BY DEF AtLeastZero

\* An UPDATE that matches makes of a solvent row a solvent row.
LEMMA UpdateKeeps ==
    ASSUME NEW w \in WalletRow, NEW op \in Calls, NEW a \in Nat,
           UpdateMatches(op, w, a), w.held <= w.balance
    PROVE  Updated(op, w, a) \in WalletRow /\ Updated(op, w, a).held <= Updated(op, w, a).balance
<1>0. w.held \in Nat /\ w.balance \in Nat /\ w.held <= w.balance
  BY DEF WalletRow
<1>1. CASE op = "hold"
  <2>1. Updated(op, w, a) = Held(w, a)
    BY <1>1 DEF Updated, HoldOps
  <2> QED
    BY <1>1, <2>1 DEF Held, WalletRow, UpdateMatches, HoldAllowed, Available, HoldOps
<1>2. CASE op = "consume"
  <2>1. Updated(op, w, a) = Consumed(w, a)
    BY <1>2 DEF Updated, HoldOps
  <2>2. Consumed(w, a).held <= Consumed(w, a).balance
    <3>1. AtLeastZero(w.held - a) <= AtLeastZero(w.balance - a)
      BY <1>0, AtLeastZeroCovers
    <3>2. PICK u : u = Consumed(w, a)
      OBVIOUS
    <3>3. u.balance = AtLeastZero(w.balance - a) /\ u.held = AtLeastZero(w.held - a)
      BY <3>2, PaidColumns, Zenon
    <3> QED
      BY <3>1, <3>2, <3>3
  <2>3. Consumed(w, a) \in WalletRow
    BY PaidColumns, Zenon
  <2> QED
    BY <2>1, <2>2, <2>3
<1>3. CASE op = "release"
  <2>1. Updated(op, w, a) = Released(w, a)
    BY <1>3 DEF Updated, HoldOps
  <2> QED
    BY <2>1 DEF Released, WalletRow, AtLeastZero
<1>4. CASE op = "refund"
  <2>1. Updated(op, w, a) = Refunded(w, a)
    BY <1>4 DEF Updated, HoldOps
  <2>2. Refunded(w, a).held <= Refunded(w, a).balance
    <3>1. AtLeastZero(w.held - a) <= w.balance + a
      BY <1>0, AtLeastZeroCovers
    <3>2. PICK u : u = Refunded(w, a)
      OBVIOUS
    <3>3. u.balance = w.balance + a /\ u.held = AtLeastZero(w.held - a)
      BY <3>2, PaidColumns, Zenon
    <3> QED
      BY <3>1, <3>2, <3>3
  <2>3. Refunded(w, a) \in WalletRow
    BY PaidColumns, Zenon
  <2> QED
    BY <2>1, <2>2, <2>3
<1> QED
  BY <1>1, <1>2, <1>3, <1>4 DEF Calls

\* What a call of the wallet keeps: rows, solvency, keys; and no row of the
\* ledger goes.
LEMMA BilledKeeps ==
    ASSUME WalletTypes, Solvent, KeyOnce, NEW op \in Calls, NEW r \in Runs,
           NEW n \in {0} \cup Attempts, NEW a \in Nat,
           Billed(op, r, n, a) \/ UNCHANGED <<wallet, ledger>>
    PROVE  WalletTypes' /\ Solvent' /\ KeyOnce' /\ ledger \subseteq ledger'
<1>1. CASE UNCHANGED <<wallet, ledger>>
  BY <1>1 DEF WalletTypes, Solvent, KeyOnce
<1>2. CASE ~UNCHANGED <<wallet, ledger>>
  <2>1. PICK w : w = wallet[Owner[r]]
    OBVIOUS
  <2>2. PICK v : v = Updated(op, w, a)
    OBVIOUS
  <2>3. PICK row : row = [op |-> op, run |-> r, n |-> n, amount |-> a, held_after |-> v.held]
    OBVIOUS
  <2>4. /\ ~HasKey(op, r, n) /\ UpdateMatches(op, w, a)
        /\ wallet' = [wallet EXCEPT ![Owner[r]] = v] /\ ledger' = ledger \cup {row}
    BY <1>2, <2>1, <2>2, <2>3 DEF Billed
  <2>5. Owner[r] \in Users /\ w \in WalletRow /\ w.held <= w.balance
    BY <2>1 DEF WalletTypes, Solvent
  <2>6. v \in WalletRow /\ v.held <= v.balance
    BY <2>2, <2>4, <2>5, UpdateKeeps
  <2>7. row \in LedgerRow
    <3>1. v.held \in Nat
      BY <2>6 DEF WalletRow
    <3> QED
      BY <2>3, <3>1 DEF LedgerRow, Calls
  <2>8. WalletTypes'
    BY <2>4, <2>6, <2>7 DEF WalletTypes
  <2>9. Solvent'
    BY <2>4, <2>5, <2>6 DEF WalletTypes, Solvent
  <2>10. \A x \in ledger : ~(x.op = op /\ x.run = r /\ x.n = n)
    BY <2>4 DEF HasKey, RowsOf
  <2>11. row.op = op /\ row.run = r /\ row.n = n
    BY <2>3
  <2>12. KeyOnce'
    BY <2>4, <2>10, <2>11 DEF KeyOnce
  <2> QED
    BY <2>4, <2>8, <2>9, <2>12
<1> QED
  BY <1>1, <1>2

\* The same of the calls of the engine, whose errors it does not see,
LEMMA CallKeeps ==
    ASSUME WalletTypes, Solvent, KeyOnce, NEW op \in Calls, NEW r \in Runs,
           NEW n \in {0} \cup Attempts, NEW a \in Nat, WalletCall(op, r, n, a)
    PROVE  WalletTypes' /\ Solvent' /\ KeyOnce' /\ ledger \subseteq ledger'
BY BilledKeeps DEF WalletCall

\* and of the hold of a confirm, which answers with a number.
LEMMA HoldKeeps ==
    ASSUME WalletTypes, Solvent, KeyOnce, NEW r \in Runs, NEW heldRu, HoldPlaced(r, heldRu)
    PROVE  /\ WalletTypes' /\ Solvent' /\ KeyOnce' /\ ledger \subseteq ledger'
           /\ heldRu \in Nat /\ HasKey("hold", r, 0)'
           /\ "retry" \notin Faults => ~HasKey("hold", r, 0)
<1>1. P90[r] \in Nat /\ "hold" \in Calls /\ 0 \in {0} \cup Attempts
  BY DEF Calls
<1>2. CASE HasKey("hold", r, 0)
  <2>1. "retry" \in Faults /\ UNCHANGED <<wallet, ledger>>
        /\ \E row \in RowsOf("hold", r) : heldRu = row.held_after
    BY <1>2 DEF HoldPlaced
  <2>2. heldRu \in Nat
    BY <2>1 DEF RowsOf, WalletTypes, LedgerRow
  <2>3. HasKey("hold", r, 0)'
    BY <1>2, <2>1 DEF HasKey, RowsOf
  <2> QED
    BY <1>1, <2>1, <2>2, <2>3, BilledKeeps
<1>3. CASE ~HasKey("hold", r, 0)
  <2>1. /\ UpdateMatches("hold", wallet[Owner[r]], P90[r]) /\ heldRu = P90[r]
        /\ Billed("hold", r, 0, P90[r])
    BY <1>3 DEF HoldPlaced
  <2>2. \E row \in ledger' : row.op = "hold" /\ row.run = r /\ row.n = 0
    <3>1. PICK row : row = [op |-> "hold", run |-> r, n |-> 0, amount |-> P90[r],
                            held_after |-> Updated("hold", wallet[Owner[r]], P90[r]).held]
      OBVIOUS
    <3>2. row \in ledger'
      BY <1>3, <2>1, <3>1 DEF Billed
    <3> QED
      BY <3>1, <3>2
  <2> QED
    BY <1>1, <1>3, <2>1, <2>2, BilledKeeps DEF HasKey, RowsOf
<1> QED
  BY <1>2, <1>3

-----------------------------------------------------------------------------
(***************************************************************************)
(* Types, solvency, keys.                                                  *)
(***************************************************************************)

\* An engine that is idle or scheduled has a state.
LEMMA EngineStates ==
    ASSUME NEW r \in Runs, NEW h \in Nat
    PROVE  Scheduled(r, h) \in EngineState /\ Idle \in EngineState
<1>1. (CHOOSE x \in Runs : TRUE) \in Runs
  OBVIOUS
<1>2. PICK d : d = (CHOOSE x \in Runs : TRUE)
  OBVIOUS
<1>3. Idle = [pc |-> "idle", run |-> d, hold |-> 0, left |-> 0, paid |-> {}, saved |-> {}]
  <2>1. PICK sch : sch = Scheduled(d, 0)
    OBVIOUS
  <2>2. Idle = [sch EXCEPT !.pc = "idle"]
    BY <1>2, <2>1 DEF Idle
  <2>3. sch = [pc |-> "scheduled", run |-> d, hold |-> 0, left |-> 0, paid |-> {}, saved |-> {}]
    BY <2>1 DEF Scheduled
  <2> QED
    BY <2>2, <2>3
<1> QED
  BY <1>1, <1>2, <1>3 DEF EngineState, Scheduled

\* The fields of an engine.
LEMMA EngineFields ==
    ASSUME TypeOK, NEW e \in Engines
    PROVE  /\ engine[e].run \in Runs /\ engine[e].hold \in Nat /\ engine[e].left \in Nat
           /\ engine[e].paid \subseteq Attempts /\ engine[e].saved \subseteq Engines
BY DEF TypeOK, EngineState

\* The initial state has the invariant.
LEMMA BillInitInv == Init => BillInv
<1> SUFFICES ASSUME Init PROVE BillInv
  OBVIOUS
<1>1. Starter \in WalletRow /\ Starter.held <= Starter.balance
  BY DEF Starter, WalletRow
<1>2. Idle \in EngineState
  BY EngineStates
<1> QED
  BY <1>1, <1>2 DEF Init, BillInv, TypeOK, Statuses, Solvent, KeyOnce

\* Setting one status, and that of an engine, keeps the types.
LEMMA RowInsertedType ==
    ASSUME status \in [Runs -> Statuses], NEW r \in Runs, RowInserted(r)
    PROVE  status' \in [Runs -> Statuses]
BY DEF RowInserted, Statuses

\* A final status is a status, when the engine writes one or writes none.
LEMMA FinalStatusType ==
    ASSUME status \in [Runs -> Statuses], NEW r \in Runs, NEW final \in Finals,
           FinalStatus(r, final)
    PROVE  status' \in [Runs -> Statuses]
BY DEF FinalStatus, Statuses

\* The history forgets no run.
LEMMA DisturbedGrows ==
    ASSUME TypeOK, [Next]_vars
    PROVE  disturbed \subseteq disturbed' /\ disturbed' \subseteq Runs
<1>1. /\ disturbed \subseteq Runs /\ \A e \in Engines : engine[e].run \in Runs
  BY EngineFields DEF TypeOK
<1>2. ASSUME NEW op, NEW r \in Runs, NEW n, NEW a, WalletCall(op, r, n, a)
      PROVE  disturbed \subseteq disturbed' /\ disturbed' \subseteq Runs
  BY <1>1, <1>2 DEF WalletCall
<1>3. ASSUME NEW r \in Runs, NEW e \in Engines, ConfirmLaunches(r, e)
      PROVE  disturbed \subseteq disturbed' /\ disturbed' \subseteq Runs
  BY <1>1, <1>3 DEF ConfirmLaunches
<1>4. ASSUME NEW e \in Engines, Start(e)
      PROVE  disturbed \subseteq disturbed' /\ disturbed' \subseteq Runs
  BY <1>1, <1>4 DEF Start, Running
<1>5. ASSUME NEW e \in Engines,
             SetupFails(e) \/ Crash(e) \/ \E n \in Attempts, cost \in Costs : Consume(e, n, cost)
      PROVE  disturbed \subseteq disturbed' /\ disturbed' \subseteq Runs
  BY <1>1, <1>2, <1>5 DEF SetupFails, Crash, Consume
<1>6. ASSUME NEW e \in Engines, NEW final \in Finals, Finish(e, final)
      PROVE  disturbed \subseteq disturbed' /\ disturbed' \subseteq Runs
  BY <1>1, <1>2, <1>6 DEF Finish
<1>7. ASSUME Restart \/ UNCHANGED vars \/ \E r \in Runs : ConfirmHolds(r) \/ Sweep(r)
      PROVE  disturbed \subseteq disturbed' /\ disturbed' \subseteq Runs
  BY <1>1, <1>7 DEF Restart, vars, ConfirmHolds, Sweep
<1> QED
  BY <1>3, <1>4, <1>5, <1>6, <1>7 DEF Next, EngineStep

\* Every step keeps the invariant.
LEMMA BillStep ==
    ASSUME BillInv, [Next]_vars
    PROVE  BillInv' /\ ledger \subseteq ledger'
<1>1. /\ WalletTypes /\ Solvent /\ KeyOnce /\ TypeOK
      /\ status \in [Runs -> Statuses] /\ engine \in [Engines -> EngineState]
      /\ consume \subseteq Engines
  BY DEF BillInv, TypeOK, WalletTypes
<1>2. ASSUME WalletTypes', Solvent', KeyOnce', ledger \subseteq ledger',
             status' \in [Runs -> Statuses], engine' \in [Engines -> EngineState],
             consume' \subseteq Engines
      PROVE  BillInv' /\ ledger \subseteq ledger'
  BY <1>1, <1>2, DisturbedGrows DEF BillInv, TypeOK, WalletTypes
<1>3. UNCHANGED <<wallet, ledger>> =>
        WalletTypes' /\ Solvent' /\ KeyOnce' /\ ledger \subseteq ledger'
  BY <1>1 DEF WalletTypes, Solvent, KeyOnce
<1>4. ASSUME NEW r \in Runs, ConfirmHolds(r)
      PROVE  BillInv' /\ ledger \subseteq ledger'
  BY <1>1, <1>2, <1>4, HoldKeeps DEF ConfirmHolds
<1>5. ASSUME NEW r \in Runs, NEW e \in Engines, ConfirmLaunches(r, e)
      PROVE  BillInv' /\ ledger \subseteq ledger'
  <2>1. PICK heldRu \in HeldAmounts(r) :
           /\ HoldPlaced(r, heldRu)
           /\ engine' = [f \in Engines |->
                          IF f = e THEN Scheduled(r, heldRu)
                                   ELSE [engine[f] EXCEPT !.saved = @ \ {e}]]
    BY <1>5 DEF ConfirmLaunches
  <2>2. WalletTypes' /\ Solvent' /\ KeyOnce' /\ ledger \subseteq ledger' /\ heldRu \in Nat
    BY <1>1, <2>1, HoldKeeps
  <2>3. Scheduled(r, heldRu) \in EngineState
    BY <2>2, EngineStates
  <2>4. \A f \in Engines : [engine[f] EXCEPT !.saved = @ \ {e}] \in EngineState
    <3> SUFFICES ASSUME NEW f \in Engines
                 PROVE  [engine[f] EXCEPT !.saved = @ \ {e}] \in EngineState
      OBVIOUS
    <3>1. PICK s : s = engine[f].saved \ {e}
      OBVIOUS
    <3>2. s \in SUBSET Engines /\ engine[f] \in EngineState
      BY <1>1, <3>1, EngineFields
    <3>3. [engine[f] EXCEPT !.saved = s] \in EngineState
      BY <3>2, Zenon DEF EngineState
    <3> QED
      BY <3>1, <3>3
  <2>5. engine' \in [Engines -> EngineState]
    BY <2>1, <2>3, <2>4
  <2>6. consume' \subseteq Engines /\ RowInserted(r)
    BY <1>1, <1>5 DEF ConfirmLaunches
  <2> QED
    BY <1>1, <1>2, <2>2, <2>5, <2>6, RowInsertedType
<1>6. ASSUME NEW e \in Engines, Start(e)
      PROVE  BillInv' /\ ledger \subseteq ledger'
  <2>1. [engine[e] EXCEPT !.pc = "running", !.saved = consume] \in EngineState
    <3>1. engine[e] \in EngineState
      BY <1>1
    <3> QED
      BY <1>1, <3>1, Zenon DEF EngineState
  <2>2. engine' \in [Engines -> EngineState]
    BY <1>1, <1>6, <2>1 DEF Start
  <2>3. UNCHANGED <<wallet, ledger>> /\ consume' \subseteq Engines /\ RowInserted(engine[e].run)
    BY <1>1, <1>6 DEF Start
  <2> QED
    BY <1>1, <1>2, <1>3, <2>2, <2>3, RowInsertedType, EngineFields
<1>7. ASSUME NEW e \in Engines, SetupFails(e)
      PROVE  BillInv' /\ ledger \subseteq ledger'
  <2>1. /\ engine[e].run \in Runs /\ engine[e].hold \in Nat
        /\ "refund" \in Calls /\ 0 \in {0} \cup Attempts
    BY <1>1, EngineFields DEF Calls
  <2>2. engine' \in [Engines -> EngineState]
    BY <1>1, <1>7, <2>1, EngineStates DEF SetupFails
  <2>3. WalletCall("refund", engine[e].run, 0, engine[e].hold) /\ RowInserted(engine[e].run)
        /\ consume' = consume
    BY <1>7 DEF SetupFails
  <2> QED
    BY <1>1, <1>2, <2>1, <2>2, <2>3, RowInsertedType, CallKeeps
<1>8. ASSUME NEW e \in Engines, NEW n \in Attempts, NEW cost \in Costs, Consume(e, n, cost)
      PROVE  BillInv' /\ ledger \subseteq ledger'
  <2>1. engine[e].run \in Runs /\ "consume" \in Calls /\ cost \in Nat
    BY <1>1, EngineFields DEF Calls
  <2>2. ASSUME NEW f \in Engines
        PROVE  [engine[f] EXCEPT !.left = IF f \in consume THEN AtLeastZero(@ - cost) ELSE @,
                                 !.paid = IF f = e THEN @ \cup {n} ELSE @] \in EngineState
    <3>1. PICK l : l = IF f \in consume THEN AtLeastZero(engine[f].left - cost) ELSE engine[f].left
      OBVIOUS
    <3>2. PICK p : p = IF f = e THEN engine[f].paid \cup {n} ELSE engine[f].paid
      OBVIOUS
    <3>3. l \in Nat
      BY <1>1, <2>1, <3>1, EngineFields DEF AtLeastZero
    <3>4. p \in SUBSET Attempts
      BY <1>1, <3>2, EngineFields
    <3>5. engine[f] \in EngineState
      BY <1>1
    <3>6. [engine[f] EXCEPT !.left = l, !.paid = p] \in EngineState
      BY <3>3, <3>4, <3>5, Zenon DEF EngineState
    <3> QED
      BY <3>1, <3>2, <3>6
  <2>3. engine' \in [Engines -> EngineState]
    BY <1>8, <2>2 DEF Consume
  <2>4. WalletCall("consume", engine[e].run, n, cost) /\ UNCHANGED <<status, consume>>
    BY <1>8 DEF Consume
  <2> QED
    BY <1>1, <1>2, <2>1, <2>3, <2>4, CallKeeps
<1>9. ASSUME NEW e \in Engines, NEW final \in Finals, Finish(e, final)
      PROVE  BillInv' /\ ledger \subseteq ledger'
  <2>1. /\ engine[e].run \in Runs /\ engine[e].left \in Nat /\ engine[e].saved \subseteq Engines
        /\ "release" \in Calls /\ 0 \in {0} \cup Attempts
    BY <1>1, EngineFields DEF Calls
  <2>2. engine' \in [Engines -> EngineState]
    BY <1>1, <1>9, <2>1, EngineStates DEF Finish, Returns
  <2>3. WalletTypes' /\ Solvent' /\ KeyOnce' /\ ledger \subseteq ledger'
    BY <1>1, <1>3, <1>9, <2>1, CallKeeps DEF Finish
  <2>4. consume' \subseteq Engines /\ FinalStatus(engine[e].run, final)
    BY <1>9, <2>1 DEF Finish
  <2> QED
    BY <1>1, <1>2, <2>1, <2>2, <2>3, <2>4, FinalStatusType
<1>10. ASSUME NEW e \in Engines, Crash(e)
      PROVE  BillInv' /\ ledger \subseteq ledger'
  <2>1. /\ engine[e].run \in Runs /\ engine[e].hold \in Nat /\ engine[e].saved \subseteq Engines
        /\ "refund" \in Calls /\ 0 \in {0} \cup Attempts
    BY <1>1, EngineFields DEF Calls
  <2>2. engine' \in [Engines -> EngineState]
    BY <1>1, <1>10, <2>1, EngineStates DEF Crash
  <2>3. WalletCall("refund", engine[e].run, 0, engine[e].hold) /\ status' = status
        /\ consume' \subseteq Engines
    BY <1>10, <2>1 DEF Crash
  <2> QED
    BY <1>1, <1>2, <2>1, <2>2, <2>3, CallKeeps
<1>11. CASE Restart
  <2>1. engine' \in [Engines -> EngineState]
    BY <1>11, EngineStates DEF Restart
  <2>2. status' \in [Runs -> Statuses] /\ consume' \subseteq Engines /\ UNCHANGED <<wallet, ledger>>
    BY <1>1, <1>11 DEF Restart, Statuses
  <2> QED
    BY <1>2, <1>3, <2>1, <2>2
<1>12. ASSUME NEW r \in Runs, Sweep(r)
      PROVE  BillInv' /\ ledger \subseteq ledger'
  <2>1. status' \in [Runs -> Statuses] /\ UNCHANGED <<wallet, ledger, engine, consume>>
    BY <1>1, <1>12 DEF Sweep, Statuses
  <2> QED
    BY <1>1, <1>2, <1>3, <2>1
<1>13. CASE UNCHANGED vars
  BY <1>1, <1>2, <1>3, <1>13 DEF vars
<1> QED
  BY <1>4, <1>5, <1>6, <1>7, <1>8, <1>9, <1>10, <1>11, <1>12, <1>13 DEF Next, EngineStep

\* The invariant of the billing.
THEOREM BillingCorrect == Spec => []BillInv
<1>1. BillInv /\ [Next]_vars => BillInv'
  BY BillStep
<1> QED
  BY <1>1, BillInitInv, PTL DEF Spec

\* Wallets, ledger, rows and engines keep their types.
THEOREM BillingTypeCorrect == Spec => []TypeOK
<1>1. BillInv => TypeOK
  BY DEF BillInv
<1> QED
  BY <1>1, BillingCorrect, PTL

\* No wallet holds more than it has (user_budget_wallets, CHECK
\* balance_ru >= held_ru), whatever runs and engines of its user do.
THEOREM BillingSolvent == Spec => []Solvent
<1>1. BillInv => Solvent
  BY DEF BillInv
<1> QED
  BY <1>1, BillingCorrect, PTL

\* No attempt of a run is paid for twice, and no hold placed or given back
\* twice: the first half of PaidOnce (wallet_operations, idempotency_key).
THEOREM BillingKeyOnce == Spec => []KeyOnce
<1>1. BillInv => KeyOnce
  BY DEF BillInv
<1> QED
  BY <1>1, BillingCorrect, PTL

-----------------------------------------------------------------------------
(***************************************************************************)
(* The caps of the admission gate, when pipeline_runs can be written.      *)
(***************************************************************************)

\* An engine works on a run that has a row.
HasRow == \A e \in Engines : engine[e].pc # "idle" => status[engine[e].run] # "absent"

AdmissionInv == BillInv /\ HasRow /\ AdmissionCap

\* One element more is at most one more.
LEMMA OneMore ==
    ASSUME NEW S, IsFiniteSet(S), NEW x
    PROVE  IsFiniteSet(S \cup {x}) /\ Cardinality(S \cup {x}) <= Cardinality(S) + 1
<1>1. IsFiniteSet(S \cup {x})
  BY FS_AddElement
<1>2. Cardinality(S \cup {x}) = IF x \in S THEN Cardinality(S) ELSE Cardinality(S) + 1
  BY FS_AddElement
<1>3. Cardinality(S) \in Nat
  BY FS_CardinalityType
<1>4. PICK c : c = Cardinality(S)
  OBVIOUS
<1>5. Cardinality(S \cup {x}) = c \/ Cardinality(S \cup {x}) = c + 1
  BY <1>2, <1>4
<1> QED
  BY <1>1, <1>3, <1>4, <1>5

\* Fewer runs stay within the caps,
LEMMA FewerRunning ==
    ASSUME AdmissionCap, RunningRuns' \subseteq RunningRuns
    PROVE  AdmissionCap'
<1>1. PICK old : old = RunningRuns
  OBVIOUS
<1>2. PICK new : new = RunningRuns'
  OBVIOUS
<1>3. old \in SUBSET Runs /\ new \in SUBSET old
  BY <1>1, <1>2 DEF RunningRuns
<1>4. IsFiniteSet(old)
  BY <1>3, FS_Subset
<1>5. Cardinality(new) <= Cardinality(old) /\ IsFiniteSet(new)
  BY <1>3, <1>4, FS_Subset
<1>6. Cardinality(old) \in Nat /\ Cardinality(new) \in Nat
  BY <1>4, <1>5, FS_CardinalityType
<1>7. Cardinality(new) <= GlobalMax
  BY <1>1, <1>5, <1>6 DEF AdmissionCap
<1>8. ASSUME NEW u \in Users
      PROVE  Cardinality(new \cap RunsOf(u)) <= PerUserMax
  <2>1. old \cap RunsOf(u) \in SUBSET old /\ new \cap RunsOf(u) \in SUBSET (old \cap RunsOf(u))
    BY <1>3
  <2>2. IsFiniteSet(old \cap RunsOf(u))
    BY <1>4, <2>1, FS_Subset
  <2>3. Cardinality(new \cap RunsOf(u)) <= Cardinality(old \cap RunsOf(u))
        /\ IsFiniteSet(new \cap RunsOf(u))
    BY <2>1, <2>2, FS_Subset
  <2>4. Cardinality(old \cap RunsOf(u)) \in Nat /\ Cardinality(new \cap RunsOf(u)) \in Nat
    BY <2>2, <2>3, FS_CardinalityType
  <2>5. Cardinality(old \cap RunsOf(u)) <= PerUserMax
    BY <1>1 DEF AdmissionCap
  <2> QED
    BY <2>3, <2>4, <2>5
<1> QED
  BY <1>2, <1>7, <1>8 DEF AdmissionCap, RunsOf

\* and so does one more that the gate admitted.
LEMMA AdmittedOne ==
    ASSUME AdmissionCap, NEW r \in Runs, Admitted(Owner[r]),
           RunningRuns' \subseteq RunningRuns \cup {r}
    PROVE  AdmissionCap'
<1>1. PICK old : old = RunningRuns
  OBVIOUS
<1>2. PICK new : new = RunningRuns'
  OBVIOUS
<1>3. old \in SUBSET Runs /\ new \in SUBSET (old \cup {r})
  BY <1>1, <1>2 DEF RunningRuns
<1>4. IsFiniteSet(old)
  BY <1>3, FS_Subset
<1>5. Cardinality(old) \in Nat
  BY <1>4, FS_CardinalityType
<1>6. IsFiniteSet(old \cup {r}) /\ Cardinality(old \cup {r}) <= Cardinality(old) + 1
  BY <1>4, OneMore
<1>7. Cardinality(new) <= Cardinality(old \cup {r}) /\ IsFiniteSet(new)
  BY <1>3, <1>6, FS_Subset
<1>8. Cardinality(old \cup {r}) \in Nat /\ Cardinality(new) \in Nat
  BY <1>6, <1>7, FS_CardinalityType
<1>9. Cardinality(old) < GlobalMax
  BY <1>1 DEF Admitted
<1>10. Cardinality(new) <= GlobalMax
  BY <1>5, <1>6, <1>7, <1>8, <1>9
<1>11. ASSUME NEW u \in Users
       PROVE  Cardinality(new \cap RunsOf(u)) <= PerUserMax
  <2> DEFINE mine == old \cap RunsOf(u)
             next == new \cap RunsOf(u)
  <2>1. mine \in SUBSET old
    OBVIOUS
  <2>2. IsFiniteSet(mine)
    BY <1>4, <2>1, FS_Subset
  <2>3. Cardinality(mine) \in Nat
    BY <2>2, FS_CardinalityType
  <2>4. Cardinality(mine) <= PerUserMax
    BY <1>1 DEF AdmissionCap
  <2>5. CASE Owner[r] = u
    <3>1. Cardinality(mine) < PerUserMax
      <4>1. {x \in RunningRuns : Owner[x] = u} = mine
        BY <1>1, <1>3 DEF RunsOf
      <4> QED
        BY <2>5, <4>1 DEF Admitted
    <3>2. next \in SUBSET (mine \cup {r})
      BY <1>3
    <3> HIDE DEF mine, next
    <3>3. IsFiniteSet(mine \cup {r}) /\ Cardinality(mine \cup {r}) <= Cardinality(mine) + 1
      BY <2>2, OneMore
    <3>4. Cardinality(next) <= Cardinality(mine \cup {r}) /\ IsFiniteSet(next)
      BY <3>2, <3>3, FS_Subset
    <3>5. Cardinality(mine \cup {r}) \in Nat /\ Cardinality(next) \in Nat
      BY <3>3, <3>4, FS_CardinalityType
    <3>6. Cardinality(next) <= PerUserMax
      BY <2>3, <3>1, <3>3, <3>4, <3>5
    <3> QED
      BY <3>6 DEF next
  <2>6. CASE Owner[r] # u
    <3>1. next \in SUBSET mine
      BY <1>3, <2>6 DEF RunsOf
    <3> HIDE DEF mine, next
    <3>2. Cardinality(next) <= Cardinality(mine) /\ IsFiniteSet(next)
      BY <2>2, <3>1, FS_Subset
    <3>3. Cardinality(next) \in Nat
      BY <3>2, FS_CardinalityType
    <3>4. Cardinality(next) <= PerUserMax
      BY <2>3, <2>4, <3>2, <3>3
    <3> QED
      BY <3>4 DEF next
  <2> QED
    BY <2>5, <2>6
<1> QED
  BY <1>2, <1>10, <1>11 DEF AdmissionCap, RunsOf

\* A row that is written: it is there afterwards, and the others are as before.
LEMMA RowWritten ==
    ASSUME status \in [Runs -> Statuses], "rows" \notin Faults, NEW r \in Runs, RowInserted(r)
    PROVE  /\ status'[r] # "absent"
           /\ \A x \in Runs : status[x] # "absent" => status'[x] = status[x]
           /\ \A x \in Runs : x # r => status'[x] = status[x]
BY DEF RowInserted

\* Every step keeps the caps.
LEMMA AdmissionStep ==
    ASSUME AdmissionInv, "rows" \notin Faults, [Next]_vars
    PROVE  AdmissionInv'
<1>1. /\ TypeOK /\ HasRow /\ AdmissionCap /\ BillInv'
      /\ status \in [Runs -> Statuses] /\ engine \in [Engines -> EngineState]
  BY BillStep DEF AdmissionInv, BillInv, TypeOK
<1>2. ASSUME status' = status, \A f \in Engines : engine'[f].pc = "idle" \/ engine'[f].run = engine[f].run,
             \A f \in Engines : engine'[f].pc # "idle" => engine[f].pc # "idle"
      PROVE  AdmissionInv'
  <2>1. RunningRuns' \subseteq RunningRuns
    BY <1>2 DEF RunningRuns
  <2>2. HasRow'
    BY <1>1, <1>2 DEF HasRow
  <2> QED
    BY <1>1, <2>1, <2>2, FewerRunning DEF AdmissionInv
<1>3. ASSUME NEW r \in Runs, ConfirmHolds(r)
      PROVE  AdmissionInv'
  BY <1>2, <1>3 DEF ConfirmHolds
<1>4. ASSUME NEW r \in Runs, NEW e \in Engines, ConfirmLaunches(r, e)
      PROVE  AdmissionInv'
  <2>1. Admitted(Owner[r]) /\ RowInserted(r)
    BY <1>4 DEF ConfirmLaunches
  <2>2. /\ status'[r] # "absent"
        /\ \A x \in Runs : status[x] # "absent" => status'[x] = status[x]
        /\ \A x \in Runs : x # r => status'[x] = status[x]
    BY <1>1, <2>1, RowWritten
  <2>3. RunningRuns' \subseteq RunningRuns \cup {r}
    BY <2>2 DEF RunningRuns
  <2>4. PICK heldRu : engine' = [f \in Engines |->
                          IF f = e THEN Scheduled(r, heldRu)
                                   ELSE [engine[f] EXCEPT !.saved = @ \ {e}]]
    BY <1>4 DEF ConfirmLaunches
  <2>5. engine'[e].run = r
    BY <2>4 DEF Scheduled
  <2>6. \A f \in Engines : f # e => engine'[f].run = engine[f].run /\ engine'[f].pc = engine[f].pc
    BY <1>1, <2>4 DEF EngineState
  <2>7. \A f \in Engines : engine[f].run \in Runs
    BY <1>1, EngineFields
  <2>8. HasRow'
    <3> SUFFICES ASSUME NEW f \in Engines, engine'[f].pc # "idle"
                 PROVE  status'[engine'[f].run] # "absent"
      BY DEF HasRow
    <3>1. CASE f = e
      BY <2>2, <2>5, <3>1
    <3>2. CASE f # e
      BY <1>1, <2>2, <2>6, <2>7, <3>2 DEF HasRow
    <3> QED
      BY <3>1, <3>2
  <2> QED
    BY <1>1, <2>1, <2>3, <2>8, AdmittedOne DEF AdmissionInv
<1>5. ASSUME NEW e \in Engines, Start(e) \/ SetupFails(e)
      PROVE  AdmissionInv'
  <2>1. engine[e].run \in Runs /\ engine[e].pc # "idle" /\ RowInserted(engine[e].run)
    BY <1>1, <1>5, EngineFields DEF Start, SetupFails
  <2>2. status' = status
    BY <1>1, <2>1 DEF RowInserted, HasRow
  <2>3. \A f \in Engines : engine'[f].pc = "idle" \/ engine'[f].run = engine[f].run
    BY <1>1, <1>5 DEF Start, SetupFails, EngineState, Idle, Scheduled
  <2>4. \A f \in Engines : engine'[f].pc # "idle" => engine[f].pc # "idle"
    BY <1>1, <1>5, <2>1 DEF Start, SetupFails, EngineState
  <2> QED
    BY <1>2, <2>2, <2>3, <2>4
<1>6. ASSUME NEW e \in Engines, NEW n \in Attempts, NEW cost \in Costs, Consume(e, n, cost)
      PROVE  AdmissionInv'
  <2>1. status' = status
    BY <1>6 DEF Consume
  <2>2. ASSUME NEW f \in Engines
        PROVE  engine'[f].run = engine[f].run /\ engine'[f].pc = engine[f].pc
    <3>1. PICK l : l = IF f \in consume THEN AtLeastZero(engine[f].left - cost) ELSE engine[f].left
      OBVIOUS
    <3>2. PICK p : p = IF f = e THEN engine[f].paid \cup {n} ELSE engine[f].paid
      OBVIOUS
    <3>3. engine[f] \in EngineState
      BY <1>1
    <3>4. engine'[f] = [engine[f] EXCEPT !.left = l, !.paid = p]
      BY <1>6, <3>1, <3>2 DEF Consume
    <3> QED
      BY <3>3, <3>4 DEF EngineState
  <2> QED
    BY <1>2, <2>1, <2>2
<1>7. ASSUME NEW e \in Engines, NEW final \in Finals, Finish(e, final)
      PROVE  AdmissionInv'
  <2>1. engine[e].run \in Runs /\ engine' = [engine EXCEPT ![e] = Idle]
        /\ FinalStatus(engine[e].run, final)
    BY <1>1, <1>7, EngineFields DEF Finish, Returns
  <2>2. \A x \in Runs : status'[x] # "running" \/ status'[x] = status[x]
    BY <1>1, <2>1 DEF FinalStatus
  <2>3. \A x \in Runs : status[x] # "absent" => status'[x] # "absent"
    BY <1>1, <2>1 DEF FinalStatus
  <2>4. RunningRuns' \subseteq RunningRuns
    BY <2>2 DEF RunningRuns
  <2>5. Idle.pc = "idle"
    BY EngineStates DEF Idle, Scheduled
  <2>6. HasRow'
    <3> SUFFICES ASSUME NEW f \in Engines, engine'[f].pc # "idle"
                 PROVE  status'[engine'[f].run] # "absent"
      BY DEF HasRow
    <3>1. f # e /\ engine'[f] = engine[f]
      BY <1>1, <2>1, <2>5
    <3> QED
      BY <1>1, <2>3, <3>1, EngineFields DEF HasRow
  <2> QED
    BY <1>1, <2>4, <2>6, FewerRunning DEF AdmissionInv
<1>8. ASSUME NEW e \in Engines, Crash(e)
      PROVE  AdmissionInv'
  <2>1. status' = status /\ engine' = [engine EXCEPT ![e] = Idle]
    BY <1>8 DEF Crash
  <2>2. Idle.pc = "idle"
    BY EngineStates DEF Idle, Scheduled
  <2> QED
    BY <1>1, <1>2, <2>1, <2>2
<1>9. CASE Restart \/ \E r \in Runs : Sweep(r)
  <2>1. \A x \in Runs : status'[x] # "running" \/ status'[x] = status[x]
    BY <1>1, <1>9 DEF Restart, Sweep
  <2>2. \A x \in Runs : status[x] # "absent" => status'[x] # "absent"
    BY <1>1, <1>9 DEF Restart, Sweep
  <2>3. RunningRuns' \subseteq RunningRuns
    BY <2>1 DEF RunningRuns
  <2>4. Idle.pc = "idle"
    BY EngineStates DEF Idle, Scheduled
  <2>5. engine' = engine \/ engine' = [e \in Engines |-> Idle]
    BY <1>9 DEF Restart, Sweep
  <2>6. HasRow'
    BY <1>1, <2>2, <2>4, <2>5, EngineFields DEF HasRow
  <2> QED
    BY <1>1, <2>3, <2>6, FewerRunning DEF AdmissionInv
<1>10. CASE UNCHANGED vars
  BY <1>2, <1>10 DEF vars
<1> QED
  BY <1>3, <1>4, <1>5, <1>6, <1>7, <1>8, <1>9, <1>10 DEF Next, EngineStep

\* check_admission keeps its caps, whatever is retried, fails, restarts or is
\* swept, as long as rows of pipeline_runs are written when they should be.
THEOREM BillingAdmissionCap == "rows" \notin Faults => (Spec => []AdmissionCap)
<1> SUFFICES ASSUME "rows" \notin Faults PROVE Spec => []AdmissionCap
  OBVIOUS
<1>1. Init => AdmissionInv
  <2> SUFFICES ASSUME Init PROVE AdmissionInv
    OBVIOUS
  <2>1. Idle.pc = "idle"
    BY EngineStates DEF Idle, Scheduled
  <2>2. RunningRuns = {}
    BY DEF Init, RunningRuns
  <2>3. Cardinality({}) = 0
    BY FS_EmptySet
  <2>4. AdmissionCap
    BY <2>2, <2>3 DEF AdmissionCap
  <2>5. HasRow
    BY <2>1 DEF Init, HasRow
  <2> QED
    BY <2>4, <2>5, BillInitInv DEF AdmissionInv
<1>2. AdmissionInv /\ [Next]_vars => AdmissionInv'
  BY AdmissionStep
<1>3. AdmissionInv => AdmissionCap
  BY DEF AdmissionInv
<1> QED
  BY <1>1, <1>2, <1>3, PTL DEF Spec

-----------------------------------------------------------------------------
(***************************************************************************)
(* What the rows of the ledger add up to.                                  *)
(***************************************************************************)

\* The amounts of an operation of a run, before and after a row is added.
LEMMA RowAdded ==
    ASSUME IsFiniteSet(ledger), ledger \subseteq LedgerRow, NEW row \in LedgerRow,
           row \notin ledger, ledger' = ledger \cup {row}, NEW op, NEW r
    PROVE  /\ AmountOf(RowsOf(op, r)) \in Nat
           /\ AmountOf(RowsOf(op, r))' =
                AmountOf(RowsOf(op, r)) + (IF row.op = op /\ row.run = r THEN row.amount ELSE 0)
<1>1. PICK S : S = RowsOf(op, r)
  OBVIOUS
<1>2. PICK f : f = [x \in S |-> x.amount]
  OBVIOUS
<1>3. S \subseteq ledger /\ f \in [S -> Nat] /\ row \notin S
  BY <1>1, <1>2 DEF RowsOf, LedgerRow
<1>4. IsFiniteSet(S)
  BY <1>3, FS_Subset
<1>5. AmountOf(RowsOf(op, r)) = SumFunction(f)
  BY <1>1, <1>2 DEF AmountOf
<1>6. SumFunction(f) \in Nat
  BY <1>3, <1>4, SumNat DEF SumFunction
<1>7. CASE row.op = op /\ row.run = r
  <2>1. RowsOf(op, r)' = S \cup {row}
    BY <1>1, <1>7 DEF RowsOf
  <2>2. PICK g : g = [x \in S \cup {row} |-> x.amount]
    OBVIOUS
  <2>3. g \in [S \cup {row} -> Nat] /\ g[row] = row.amount /\ \A x \in S : f[x] = g[x]
    BY <1>2, <1>3, <2>2 DEF LedgerRow
  <2>4. SumFunction(g) = SumFunction(f) + g[row]
    BY <1>3, <1>4, <2>3, TotalGrows
  <2>5. AmountOf(RowsOf(op, r))' = SumFunction(g)
    BY <2>1, <2>2 DEF AmountOf
  <2> QED
    BY <1>5, <1>6, <1>7, <2>3, <2>4, <2>5
<1>8. CASE ~(row.op = op /\ row.run = r)
  <2>1. RowsOf(op, r)' = S
    BY <1>1, <1>8 DEF RowsOf
  <2>2. AmountOf(RowsOf(op, r))' = SumFunction(f)
    BY <1>2, <2>1 DEF AmountOf
  <2> QED
    BY <1>5, <1>6, <1>8, <2>2
<1> QED
  BY <1>7, <1>8

\* Only a consume changes what the row says was spent.
LEMMA UpdatedSpends ==
    ASSUME NEW w \in WalletRow, NEW op \in Calls, NEW a \in Nat
    PROVE  Updated(op, w, a).spent = w.spent + (IF op = "consume" THEN a ELSE 0)
<1>1. w.spent \in Nat
  BY DEF WalletRow
<1>2. CASE op = "consume"
  <2>1. Updated(op, w, a) = Consumed(w, a)
    BY <1>2 DEF Updated, HoldOps
  <2>2. PICK h : h = AtLeastZero(w.held - a)
    OBVIOUS
  <2>3. PICK b : b = AtLeastZero(w.balance - a)
    OBVIOUS
  <2>4. Consumed(w, a) = [w EXCEPT !.balance = b, !.held = h, !.spent = w.spent + a]
    BY <2>2, <2>3 DEF Consumed
  <2> QED
    BY <1>1, <1>2, <2>1, <2>4 DEF WalletRow
<1>3. CASE op = "hold"
  BY <1>1, <1>3 DEF Updated, HoldOps, Held, WalletRow
<1>4. CASE op = "release"
  BY <1>1, <1>4 DEF Updated, HoldOps, Released, WalletRow
<1>5. CASE op = "refund"
  <2>1. Updated(op, w, a) = Refunded(w, a)
    BY <1>5 DEF Updated, HoldOps
  <2>2. PICK h : h = AtLeastZero(w.held - a)
    OBVIOUS
  <2>3. PICK b : b = w.balance + a
    OBVIOUS
  <2>4. Refunded(w, a) = [w EXCEPT !.balance = b, !.held = h]
    BY <2>2, <2>3 DEF Refunded
  <2>5. [w EXCEPT !.balance = b, !.held = h].spent = w.spent
    BY DEF WalletRow
  <2>6. Updated(op, w, a).spent = w.spent
    BY <2>1, <2>4, <2>5, Zenon
  <2> QED
    BY <1>1, <1>5, <2>6
<1> QED
  BY <1>2, <1>3, <1>4, <1>5 DEF Calls

Effective(op, r, n, a) ==
    ~HasKey(op, r, n) /\ UpdateMatches(op, wallet[Owner[r]], a) /\ Billed(op, r, n, a)

\* The wallets and the rows after a call that takes effect,
LEMMA EffectOnRows ==
    ASSUME WalletTypes, Solvent, KeyOnce, NEW op \in Calls, NEW r \in Runs,
           NEW n \in {0} \cup Attempts, NEW a \in Nat, Effective(op, r, n, a)
    PROVE  /\ wallet' = [wallet EXCEPT ![Owner[r]] = Updated(op, wallet[Owner[r]], a)]
           /\ \E row \in LedgerRow : /\ ledger' = ledger \cup {row} /\ row \notin ledger
                                     /\ row.op = op /\ row.run = r /\ row.n = n /\ row.amount = a
           /\ IsFiniteSet(ledger) => IsFiniteSet(ledger')
<1>1. PICK v : v = Updated(op, wallet[Owner[r]], a)
  OBVIOUS
<1>2. PICK row : row = [op |-> op, run |-> r, n |-> n, amount |-> a, held_after |-> v.held]
  OBVIOUS
<1>3. wallet' = [wallet EXCEPT ![Owner[r]] = v] /\ ledger' = ledger \cup {row}
  BY <1>1, <1>2 DEF Billed, Effective
<1>4. row.op = op /\ row.run = r /\ row.n = n /\ row.amount = a
  BY <1>2
<1>5. row \notin ledger
  BY <1>4 DEF Effective, HasKey, RowsOf
<1>6. ledger' \subseteq LedgerRow
  BY BilledKeeps DEF Effective, WalletTypes
<1>7. row \in LedgerRow
  BY <1>3, <1>6
<1>8. IsFiniteSet(ledger) => IsFiniteSet(ledger')
  BY <1>3, FS_AddElement
<1> QED
  BY <1>1, <1>3, <1>4, <1>5, <1>7, <1>8

\* and what the amounts of an operation of a run add up to.
LEMMA EffectOnSums ==
    ASSUME WalletTypes, Solvent, KeyOnce, IsFiniteSet(ledger), NEW op \in Calls, NEW r \in Runs,
           NEW n \in {0} \cup Attempts, NEW a \in Nat, Effective(op, r, n, a), NEW o, NEW x
    PROVE  /\ AmountOf(RowsOf(o, x)) \in Nat
           /\ AmountOf(RowsOf(o, x))' =
                AmountOf(RowsOf(o, x)) + (IF o = op /\ x = r THEN a ELSE 0)
           /\ RowsOf(o, x)' = {} <=> RowsOf(o, x) = {} /\ ~(o = op /\ x = r)
<1>1. PICK row \in LedgerRow : /\ ledger' = ledger \cup {row} /\ row \notin ledger
                               /\ row.op = op /\ row.run = r /\ row.n = n /\ row.amount = a
  BY EffectOnRows
<1>2. ledger \subseteq LedgerRow
  BY DEF WalletTypes
<1>3. /\ AmountOf(RowsOf(o, x)) \in Nat
      /\ AmountOf(RowsOf(o, x))' =
           AmountOf(RowsOf(o, x)) + (IF o = op /\ x = r THEN a ELSE 0)
  BY <1>1, <1>2, RowAdded
<1>4. RowsOf(o, x)' = {} <=> RowsOf(o, x) = {} /\ ~(o = op /\ x = r)
  BY <1>1 DEF RowsOf
<1> QED
  BY <1>3, <1>4

\* A call takes effect or changes nothing,
LEMMA EffectiveOrNot ==
    ASSUME NEW op, NEW r, NEW n, NEW a, Billed(op, r, n, a)
    PROVE  UNCHANGED <<wallet, ledger>> \/ Effective(op, r, n, a)
BY DEF Billed, Effective

\* and so does a step: wallets and ledger change by wallet calls only.
LEMMA StepIsCall ==
    ASSUME BillInv, [Next]_vars
    PROVE  \/ UNCHANGED <<wallet, ledger>>
           \/ \E op \in Calls, r \in Runs, n \in {0} \cup Attempts, a \in Nat : Effective(op, r, n, a)
<1>1. TypeOK /\ "hold" \in Calls /\ "consume" \in Calls /\ "release" \in Calls /\ "refund" \in Calls
  BY DEF BillInv, Calls
<1>2. ASSUME NEW op \in Calls, NEW r \in Runs, NEW n \in {0} \cup Attempts, NEW a \in Nat,
             Billed(op, r, n, a) \/ WalletCall(op, r, n, a)
      PROVE  \/ UNCHANGED <<wallet, ledger>>
             \/ \E o \in Calls, x \in Runs, m \in {0} \cup Attempts, b \in Nat : Effective(o, x, m, b)
  <2>1. UNCHANGED <<wallet, ledger>> \/ Effective(op, r, n, a)
    BY <1>2, EffectiveOrNot DEF WalletCall
  <2> QED
    BY <2>1
<1>3. ASSUME NEW r \in Runs, NEW heldRu, HoldPlaced(r, heldRu)
      PROVE  UNCHANGED <<wallet, ledger>> \/ Billed("hold", r, 0, P90[r])
  BY <1>3 DEF HoldPlaced
<1>4. \A r \in Runs : P90[r] \in Nat
  OBVIOUS
<1>5. ASSUME NEW r \in Runs, ConfirmHolds(r) \/ \E e \in Engines : ConfirmLaunches(r, e)
      PROVE  UNCHANGED <<wallet, ledger>> \/ Billed("hold", r, 0, P90[r])
  BY <1>3, <1>5 DEF ConfirmHolds, ConfirmLaunches
<1>6. ASSUME NEW e \in Engines, SetupFails(e) \/ Crash(e)
      PROVE  WalletCall("refund", engine[e].run, 0, engine[e].hold)
  BY <1>6 DEF SetupFails, Crash
<1>7. ASSUME NEW e \in Engines, NEW n \in Attempts, NEW cost \in Costs, Consume(e, n, cost)
      PROVE  WalletCall("consume", engine[e].run, n, cost)
  BY <1>7 DEF Consume
<1>8. ASSUME NEW e \in Engines, NEW final \in Finals, Finish(e, final)
      PROVE  \/ UNCHANGED <<wallet, ledger>>
             \/ WalletCall("release", engine[e].run, 0, engine[e].left)
  BY <1>8 DEF Finish
<1>9. \A e \in Engines : engine[e].run \in Runs /\ engine[e].hold \in Nat /\ engine[e].left \in Nat
  BY <1>1, EngineFields
<1>10. \A e \in Engines : Start(e) => UNCHANGED <<wallet, ledger>>
  BY DEF Start
<1>11. Restart \/ (\E r \in Runs : Sweep(r)) \/ UNCHANGED vars => UNCHANGED <<wallet, ledger>>
  BY DEF Restart, Sweep, vars
<1>12. Costs \subseteq Nat
  OBVIOUS
<1> QED
  BY <1>1, <1>2, <1>4, <1>5, <1>6, <1>7, <1>8, <1>9, <1>10, <1>11, <1>12 DEF Next, EngineStep

SpentAdds == \A u \in Users : wallet[u].spent = ChargedTo(u)

PaidInv == BillInv /\ IsFiniteSet(ledger) /\ SpentAdds

\* What the runs of the users are charged, and what is left of their holds,
\* when that changes for one run r.
LEMMA UsersTotals ==
    ASSUME NEW f \in [Runs -> Nat], NEW g \in [Runs -> Nat], NEW r \in Runs,
           \A x \in Runs : x # r => f[x] = g[x], NEW u \in Users
    PROVE  /\ SumFunction([x \in RunsOf(u) |-> f[x]]) \in Nat
           /\ SumFunction([x \in RunsOf(u) |-> g[x]]) \in Nat
           /\ u # Owner[r] =>
                SumFunction([x \in RunsOf(u) |-> f[x]]) = SumFunction([x \in RunsOf(u) |-> g[x]])
           /\ u = Owner[r] =>
                /\ SumFunction([x \in RunsOf(u) |-> f[x]]) - f[r] =
                     SumFunction([x \in RunsOf(u) |-> g[x]]) - g[r]
                /\ SumFunction([x \in RunsOf(u) |-> f[x]]) >= f[r]
<1>1. PICK S : S = RunsOf(u)
  OBVIOUS
<1>2. S \subseteq Runs /\ (r \in S <=> u = Owner[r])
  BY <1>1 DEF RunsOf
<1>3. IsFiniteSet(S)
  BY <1>2, FS_Subset
<1>4. PICK ff : ff = [x \in S |-> f[x]]
  OBVIOUS
<1>5. PICK gg : gg = [x \in S |-> g[x]]
  OBVIOUS
<1>6. ff \in [S -> Nat] /\ gg \in [S -> Nat] /\ \A x \in S : ff[x] = f[x] /\ gg[x] = g[x]
  BY <1>2, <1>4, <1>5
<1>7. SumFunction(ff) \in Nat /\ SumFunction(gg) \in Nat
  BY <1>3, <1>6, SumNat DEF SumFunction
<1>8. u # Owner[r] => ff = gg
  BY <1>2, <1>4, <1>5
<1>9. ASSUME u = Owner[r]
      PROVE  SumFunction(ff) - ff[r] = SumFunction(gg) - gg[r] /\ SumFunction(ff) >= ff[r]
  BY <1>2, <1>3, <1>6, <1>9, TotalChanges
<1>10. u = Owner[r] => ff[r] = f[r] /\ gg[r] = g[r]
  BY <1>2, <1>6
<1> QED
  BY <1>1, <1>4, <1>5, <1>7, <1>8, <1>9, <1>10

\* Every step keeps that a user has spent what his runs are charged.
LEMMA PaidStep ==
    ASSUME PaidInv, [Next]_vars
    PROVE  PaidInv'
<1>1. BillInv /\ WalletTypes /\ Solvent /\ KeyOnce /\ BillInv'
  BY BillStep DEF PaidInv, BillInv, TypeOK, WalletTypes
<1>2. CASE UNCHANGED <<wallet, ledger>>
  <2>1. \A u \in Users : ChargedTo(u)' = ChargedTo(u)
    BY <1>2 DEF ChargedTo, Charged, AmountOf, RowsOf
  <2> QED
    BY <1>1, <1>2, <2>1 DEF PaidInv, SpentAdds
<1>3. ASSUME NEW op \in Calls, NEW r \in Runs, NEW n \in {0} \cup Attempts, NEW a \in Nat,
             Effective(op, r, n, a)
      PROVE  PaidInv'
  <2>1. /\ wallet' = [wallet EXCEPT ![Owner[r]] = Updated(op, wallet[Owner[r]], a)]
        /\ IsFiniteSet(ledger')
        /\ \A x \in Runs : /\ Charged(x) \in Nat
                           /\ Charged(x)' = Charged(x) + (IF op = "consume" /\ x = r THEN a ELSE 0)
    <3>1. /\ wallet' = [wallet EXCEPT ![Owner[r]] = Updated(op, wallet[Owner[r]], a)]
          /\ IsFiniteSet(ledger')
      BY <1>1, <1>3, EffectOnRows DEF PaidInv
    <3>2. ASSUME NEW x \in Runs
          PROVE  /\ AmountOf(RowsOf("consume", x)) \in Nat
                 /\ AmountOf(RowsOf("consume", x))' = AmountOf(RowsOf("consume", x))
                      + (IF "consume" = op /\ x = r THEN a ELSE 0)
      BY <1>1, <1>3, EffectOnSums DEF PaidInv
    <3> QED
      BY <3>1, <3>2 DEF Charged
  <2>2. PICK f : f = [x \in Runs |-> Charged(x)]
    OBVIOUS
  <2>3. PICK g : g = [x \in Runs |-> Charged(x)']
    OBVIOUS
  <2>4. /\ f \in [Runs -> Nat] /\ g \in [Runs -> Nat]
        /\ \A x \in Runs : x # r => f[x] = g[x]
        /\ g[r] = f[r] + (IF op = "consume" THEN a ELSE 0)
    BY <2>1, <2>2, <2>3
  <2>5. \A u \in Users : ChargedTo(u) = SumFunction([x \in RunsOf(u) |-> f[x]])
    <3>1. \A u : [x \in RunsOf(u) |-> f[x]] = [x \in RunsOf(u) |-> Charged(x)]
      BY <2>2 DEF RunsOf
    <3> QED
      BY <3>1 DEF ChargedTo
  <2>6. \A u \in Users : ChargedTo(u)' = SumFunction([x \in RunsOf(u) |-> g[x]])
    <3>1. \A u : [x \in RunsOf(u) |-> g[x]] = [x \in RunsOf(u) |-> Charged(x)']
      BY <2>3 DEF RunsOf
    <3> QED
      BY <3>1 DEF ChargedTo, RunsOf
  <2>7. Owner[r] \in Users /\ wallet[Owner[r]] \in WalletRow
    BY <1>1 DEF WalletTypes
  <2>8. Updated(op, wallet[Owner[r]], a).spent =
          wallet[Owner[r]].spent + (IF op = "consume" THEN a ELSE 0)
    BY <2>7, UpdatedSpends
  <2>9. ASSUME NEW u \in Users PROVE wallet'[u].spent = ChargedTo(u)'
    <3>1. PICK F \in Nat : F = SumFunction([x \in RunsOf(u) |-> f[x]])
      BY <2>4, UsersTotals
    <3>2. PICK G \in Nat : G = SumFunction([x \in RunsOf(u) |-> g[x]])
      BY <2>4, UsersTotals
    <3>3. wallet[u].spent = F /\ ChargedTo(u)' = G
      BY <2>5, <2>6, <3>1, <3>2 DEF PaidInv, SpentAdds
    <3>4. u # Owner[r] => F = G
      BY <2>4, <3>1, <3>2, UsersTotals
    <3>5. u = Owner[r] => F - f[r] = G - g[r]
      BY <2>4, <3>1, <3>2, UsersTotals
    <3>6. u # Owner[r] => wallet'[u] = wallet[u]
      BY <1>1, <2>1 DEF WalletTypes
    <3>7. u = Owner[r] => wallet'[u].spent = F + (IF op = "consume" THEN a ELSE 0)
      BY <1>1, <2>1, <2>8, <3>3 DEF WalletTypes
    <3>8. f[r] \in Nat /\ g[r] \in Nat
      BY <2>4
    <3> QED
      BY <2>4, <3>3, <3>4, <3>5, <3>6, <3>7, <3>8
  <2> QED
    BY <1>1, <2>1, <2>9 DEF PaidInv, SpentAdds
<1> QED
  BY <1>1, <1>2, <1>3, StepIsCall

\* No rows, no amount.
LEMMA EmptyAmount == AmountOf({}) = 0
<1>1. PICK f : f = [row \in {} |-> row.amount]
  OBVIOUS
<1>2. SumFunctionOnSet(f, {}) = 0
  BY SumEquation, FS_EmptySet
<1>3. DOMAIN f = {}
  BY <1>1
<1> QED
  BY <1>1, <1>2, <1>3 DEF SumFunction, AmountOf

\* Nothing is held for, or taken from the hold of, a run without rows.
LEMMA NothingCharged ==
    ASSUME NEW r, \A row \in ledger : row.run # r
    PROVE  /\ \A op : RowsOf(op, r) = {}
           /\ Placed(r) = 0 /\ Charged(r) = 0 /\ Freed(r) = 0 /\ Repaid(r) = 0
           /\ Taken(r) = 0 /\ Open(r) = 0 /\ Excess(r) = 0
<1>1. \A op : RowsOf(op, r) = {}
  BY DEF RowsOf
<1>2. Placed(r) = 0 /\ Charged(r) = 0 /\ Freed(r) = 0 /\ Repaid(r) = 0
  BY <1>1, EmptyAmount DEF Placed, Charged, Freed, Repaid
<1> QED
  BY <1>1, <1>2 DEF Taken, Open, Excess, AtLeastZero

\* A sum of zeros.
LEMMA SumOfZeros ==
    ASSUME NEW S, IsFiniteSet(S), NEW f \in [S -> Nat], \A x \in S : f[x] = 0
    PROVE  SumFunction(f) = 0
<1> DEFINE Q == {T \in SUBSET S : SumFunctionOnSet(f, T) = 0}
<1>1. ASSUME NEW T \in SUBSET S, \A x \in T : T \ {x} \in Q PROVE T \in Q
  <2>1. T # {} => First(T) \in T
    BY DEF First
  <2>2. IsFiniteSet(T)
    BY FS_Subset
  <2>3. SumFunctionOnSet(f, T) =
          IF T = {} THEN 0 ELSE f[First(T)] + SumFunctionOnSet(f, T \ {First(T)})
    BY <2>2, SumEquation
  <2> QED
    BY <1>1, <2>1, <2>3
<1>2. \A T \in SUBSET S : T \in Q
  <2> HIDE DEF Q
  <2> QED
    BY <1>1, SubsetInduction
<1> QED
  BY <1>2 DEF SumFunction

\* The initial state adds up.
LEMMA PaidInit == Init => PaidInv
<1> SUFFICES ASSUME Init PROVE PaidInv
  OBVIOUS
<1>1. BillInv
  BY BillInitInv
<1>2. IsFiniteSet(ledger)
  BY FS_EmptySet DEF Init
<1>3. ASSUME NEW u \in Users PROVE wallet[u].spent = ChargedTo(u)
  <2>1. PICK f : f = [r \in RunsOf(u) |-> Charged(r)]
    OBVIOUS
  <2>2. f \in [RunsOf(u) -> Nat] /\ \A r \in RunsOf(u) : f[r] = 0
    BY <2>1, NothingCharged DEF Init
  <2>3. IsFiniteSet(RunsOf(u))
    BY FS_Subset DEF RunsOf
  <2>4. SumFunction(f) = 0
    BY <2>2, <2>3, SumOfZeros
  <2> QED
    BY <2>1, <2>4 DEF Init, Starter, ChargedTo
<1> QED
  BY <1>1, <1>2, <1>3 DEF PaidInv, SpentAdds

\* A phase attempt is paid for at most once, and what a user has spent is the
\* sum of the consume rows of his runs: for any number of engines that share
\* wallet.consume, and every fault.
THEOREM BillingPaidOnce == Spec => []PaidOnce
<1>1. PaidInv /\ [Next]_vars => PaidInv'
  BY PaidStep
<1>2. PaidInv => PaidOnce
  BY DEF PaidInv, BillInv, KeyOnce, SpentAdds, PaidOnce
<1> QED
  BY PaidInit, <1>1, <1>2, PTL DEF Spec

-----------------------------------------------------------------------------
(***************************************************************************)
(* The books.  A run is held before anything else is booked for it, and    *)
(* every step books one operation at most.                                 *)
(***************************************************************************)

HeldRun(r) == HasKey("hold", r, 0)

Unbooked(r) == \A row \in ledger : row.run # r

\* Wallets exist, a run is held by its estimate before anything else is booked
\* for it, and engines work for runs that are held.
Books ==
    /\ \A u \in Users : wallet[u].exists
    /\ \A r \in Runs : HeldRun(r) \/ Unbooked(r)
    /\ \A r \in Runs : HeldRun(r) => Placed(r) = P90[r]
    /\ \A e \in Engines : engine[e].pc # "idle" => HeldRun(engine[e].run)

\* A call that takes effect as the steps make it: a first hold of the estimate,
\* or anything else for a run that is held.
Proper(op, r, n, a) ==
    /\ Effective(op, r, n, a)
    /\ \/ op = "hold" /\ n = 0 /\ a = P90[r] /\ ~HeldRun(r)
       \/ op # "hold" /\ HeldRun(r)

\* No UPDATE takes a wallet away.
LEMMA UpdatedExists ==
    ASSUME NEW w \in WalletRow, NEW op \in Calls, NEW a \in Nat, w.exists
    PROVE  Updated(op, w, a).exists
<1>1. PICK h : h = AtLeastZero(w.held - a)
  OBVIOUS
<1>2. PICK b : b = AtLeastZero(w.balance - a)
  OBVIOUS
<1>3. PICK s : s = w.spent + a
  OBVIOUS
<1>4. PICK c : c = w.balance + a
  OBVIOUS
<1>5. PICK k : k = w.held + a
  OBVIOUS
<1>6. \/ Updated(op, w, a) = [w EXCEPT !.balance = b, !.held = h, !.spent = s]
      \/ Updated(op, w, a) = [w EXCEPT !.balance = c, !.held = h]
      \/ Updated(op, w, a) = [w EXCEPT !.held = h]
      \/ Updated(op, w, a) = [w EXCEPT !.held = k]
  BY <1>1, <1>2, <1>3, <1>4, <1>5
     DEF Updated, HoldOps, Consumed, Refunded, Released, Held, Calls
<1>7. /\ [w EXCEPT !.balance = b, !.held = h, !.spent = s].exists
      /\ [w EXCEPT !.balance = c, !.held = h].exists
      /\ [w EXCEPT !.held = h].exists /\ [w EXCEPT !.held = k].exists
  BY Zenon DEF WalletRow
<1> QED
  BY <1>6, <1>7, Zenon

\* A confirm holds the run for the first time, or finds its hold.
LEMMA HoldIsProper ==
    ASSUME BillInv, NEW r \in Runs, NEW heldRu, HoldPlaced(r, heldRu)
    PROVE  /\ HeldRun(r)' /\ heldRu \in Nat
           /\ \/ HeldRun(r) /\ UNCHANGED <<wallet, ledger>>
              \/ ~HeldRun(r) /\ Proper("hold", r, 0, P90[r]) /\ heldRu = P90[r]
<1>1. WalletTypes /\ Solvent /\ KeyOnce
  BY DEF BillInv, TypeOK, WalletTypes
<1>2. HeldRun(r)' /\ heldRu \in Nat
  BY <1>1, HoldKeeps DEF HeldRun
<1>3. CASE HeldRun(r)
  BY <1>2, <1>3 DEF HoldPlaced, HeldRun
<1>4. CASE ~HeldRun(r)
  BY <1>2, <1>4 DEF HoldPlaced, HeldRun, Proper, Effective
<1> QED
  BY <1>3, <1>4

\* What an engine calls for a run that is held takes effect or changes nothing.
LEMMA CallIsProper ==
    ASSUME NEW op, op # "hold", NEW r, NEW n, NEW a, WalletCall(op, r, n, a), HeldRun(r)
    PROVE  UNCHANGED <<wallet, ledger>> \/ Proper(op, r, n, a)
BY EffectiveOrNot DEF WalletCall, Proper

\* Every step books one operation at most.
LEMMA StepIsProper ==
    ASSUME BillInv, Books, [Next]_vars
    PROVE  \/ UNCHANGED <<wallet, ledger>>
           \/ \E op \in Calls, r \in Runs, n \in {0} \cup Attempts, a \in Nat : Proper(op, r, n, a)
<1>1. /\ TypeOK /\ "hold" \in Calls /\ "consume" \in Calls /\ "release" \in Calls
      /\ "refund" \in Calls /\ Costs \subseteq Nat /\ \A r \in Runs : P90[r] \in Nat
  BY DEF BillInv, Calls
<1>2. \A e \in Engines : /\ engine[e].run \in Runs /\ engine[e].hold \in Nat
                         /\ engine[e].left \in Nat
  BY <1>1, EngineFields
<1>3. ASSUME NEW r \in Runs, ConfirmHolds(r) \/ \E e \in Engines : ConfirmLaunches(r, e)
      PROVE  UNCHANGED <<wallet, ledger>> \/ Proper("hold", r, 0, P90[r])
  <2>1. PICK heldRu : HoldPlaced(r, heldRu)
    BY <1>3 DEF ConfirmHolds, ConfirmLaunches
  <2> QED
    BY <2>1, HoldIsProper
<1>4. ASSUME NEW e \in Engines, SetupFails(e) \/ Crash(e)
      PROVE  UNCHANGED <<wallet, ledger>> \/ Proper("refund", engine[e].run, 0, engine[e].hold)
  BY <1>4, CallIsProper DEF SetupFails, Crash, Books
<1>5. ASSUME NEW e \in Engines, NEW n \in Attempts, NEW cost \in Costs, Consume(e, n, cost)
      PROVE  UNCHANGED <<wallet, ledger>> \/ Proper("consume", engine[e].run, n, cost)
  BY <1>5, CallIsProper DEF Consume, Books
<1>6. ASSUME NEW e \in Engines, NEW final \in Finals, Finish(e, final)
      PROVE  UNCHANGED <<wallet, ledger>> \/ Proper("release", engine[e].run, 0, engine[e].left)
  BY <1>6, CallIsProper DEF Finish, Returns, Books
<1>7. \A e \in Engines : Start(e) => UNCHANGED <<wallet, ledger>>
  BY DEF Start
<1>8. Restart \/ (\E r \in Runs : Sweep(r)) \/ UNCHANGED vars => UNCHANGED <<wallet, ledger>>
  BY DEF Restart, Sweep, vars
<1> QED
  BY <1>1, <1>2, <1>3, <1>4, <1>5, <1>6, <1>7, <1>8 DEF Next, EngineStep

\* What an engine is after each kind of step.
Launched(r, e, heldRu) ==
    engine' = [g \in Engines |->
                  IF g = e THEN Scheduled(r, heldRu)
                           ELSE [engine[g] EXCEPT !.saved = @ \ {e}]]

Counted(e, n, cost) ==
    engine' = [g \in Engines |->
                    [engine[g] EXCEPT !.left = IF g \in consume THEN AtLeastZero(@ - cost) ELSE @,
                                      !.paid = IF g = e THEN @ \cup {n} ELSE @]]

SameEngine(f) ==
    /\ engine'[f].pc = engine[f].pc /\ engine'[f].run = engine[f].run
    /\ engine'[f].hold = engine[f].hold /\ engine'[f].left = engine[f].left
    /\ engine'[f].paid = engine[f].paid /\ engine'[f].saved = engine[f].saved

\* An engine is launched with the amount held; it is taken out of what the
\* others saved.
LEMMA LaunchedEngines ==
    ASSUME TypeOK, NEW r \in Runs, NEW e \in Engines, NEW heldRu, NEW f \in Engines,
           Launched(r, e, heldRu)
    PROVE  /\ f = e => /\ engine'[f].pc = "scheduled" /\ engine'[f].run = r
                       /\ engine'[f].hold = heldRu /\ engine'[f].left = heldRu
                       /\ engine'[f].paid = {} /\ engine'[f].saved = {}
           /\ f # e => /\ engine'[f].pc = engine[f].pc /\ engine'[f].run = engine[f].run
                       /\ engine'[f].hold = engine[f].hold /\ engine'[f].left = engine[f].left
                       /\ engine'[f].paid = engine[f].paid
                       /\ engine'[f].saved = engine[f].saved \ {e}
<1>1. CASE f = e
  <2>1. engine'[f] = Scheduled(r, heldRu)
    BY <1>1 DEF Launched
  <2> QED
    BY <1>1, <2>1 DEF Scheduled
<1>2. CASE f # e
  <2>1. PICK s : s = engine[f].saved \ {e}
    OBVIOUS
  <2>2. engine'[f] = [engine[f] EXCEPT !.saved = s]
    BY <1>2, <2>1 DEF Launched
  <2>3. engine[f] \in EngineState
    BY DEF TypeOK
  <2> QED
    BY <1>2, <2>1, <2>2, <2>3 DEF EngineState
<1> QED
  BY <1>1, <1>2

LEMMA StartedEngines ==
    ASSUME TypeOK, NEW e \in Engines, Start(e), NEW f \in Engines
    PROVE  /\ f = e => /\ engine'[f].pc = "running" /\ engine'[f].run = engine[f].run
                       /\ engine'[f].hold = engine[f].hold /\ engine'[f].left = engine[f].left
                       /\ engine'[f].paid = engine[f].paid /\ engine'[f].saved = consume
           /\ f # e => SameEngine(f)
<1>1. engine \in [Engines -> EngineState] /\ engine[f] \in EngineState
  BY DEF TypeOK
<1>2. PICK v : v = [engine[e] EXCEPT !.pc = "running", !.saved = consume]
  OBVIOUS
<1>3. engine'[e] = v /\ (f # e => engine'[f] = engine[f])
  BY <1>1, <1>2 DEF Start
<1>4. f = e => /\ v.pc = "running" /\ v.run = engine[f].run
               /\ v.hold = engine[f].hold /\ v.left = engine[f].left
               /\ v.paid = engine[f].paid /\ v.saved = consume
  BY <1>1, <1>2 DEF EngineState
<1> QED
  BY <1>3, <1>4 DEF SameEngine

\* An engine that ends is idle, the others are as before.
LEMMA EndedEngines ==
    ASSUME TypeOK, NEW e \in Engines, engine' = [engine EXCEPT ![e] = Idle], NEW f \in Engines
    PROVE  /\ f = e => engine'[f].pc = "idle" /\ engine'[f].saved = {}
           /\ f # e => SameEngine(f)
<1>1. engine \in [Engines -> EngineState] /\ Idle.pc = "idle" /\ Idle.saved = {}
  BY EngineStates DEF TypeOK, Idle, Scheduled
<1> QED
  BY <1>1 DEF SameEngine

\* Every engine whose wrapper is in place counts what one engine consumes.
LEMMA CountedEngines ==
    ASSUME TypeOK, NEW e \in Engines, NEW n \in Attempts, NEW cost \in Nat, NEW f \in Engines,
           Counted(e, n, cost)
    PROVE  /\ engine'[f].pc = engine[f].pc /\ engine'[f].run = engine[f].run
           /\ engine'[f].hold = engine[f].hold /\ engine'[f].saved = engine[f].saved
           /\ f \in consume => engine'[f].left = AtLeastZero(engine[f].left - cost)
           /\ f \notin consume => engine'[f].left = engine[f].left
           /\ f = e => engine'[f].paid = engine[f].paid \cup {n}
           /\ f # e => engine'[f].paid = engine[f].paid
<1>1. PICK l : l = IF f \in consume THEN AtLeastZero(engine[f].left - cost) ELSE engine[f].left
  OBVIOUS
<1>2. PICK p : p = IF f = e THEN engine[f].paid \cup {n} ELSE engine[f].paid
  OBVIOUS
<1>3. engine'[f] = [engine[f] EXCEPT !.left = l, !.paid = p]
  BY <1>1, <1>2 DEF Counted
<1>4. engine[f] \in EngineState
  BY DEF TypeOK
<1>5. /\ engine'[f].pc = engine[f].pc /\ engine'[f].run = engine[f].run
      /\ engine'[f].hold = engine[f].hold /\ engine'[f].saved = engine[f].saved
      /\ engine'[f].left = l /\ engine'[f].paid = p
  BY <1>3, <1>4 DEF EngineState
<1> QED
  BY <1>1, <1>2, <1>5

\* An engine that is at work goes on with its run, or was launched for a run
\* that is held.
LEMMA EnginesKeepRuns ==
    ASSUME BillInv, [Next]_vars, NEW f \in Engines, engine'[f].pc # "idle"
    PROVE  \/ engine[f].pc # "idle" /\ engine'[f].run = engine[f].run
           \/ HeldRun(engine[f].run)'
<1>1. TypeOK
  BY DEF BillInv
<1>2. ASSUME NEW r \in Runs, NEW e \in Engines, ConfirmLaunches(r, e)
      PROVE  \/ engine[f].pc # "idle" /\ engine'[f].run = engine[f].run
             \/ HeldRun(engine[f].run)'
  <2>1. PICK heldRu : HoldPlaced(r, heldRu) /\ Launched(r, e, heldRu)
    BY <1>2 DEF ConfirmLaunches, Launched
  <2>2. HeldRun(r)'
    BY <2>1, HoldIsProper
  <2>3. /\ f = e => engine'[f].run = r
        /\ f # e => engine'[f].run = engine[f].run /\ engine'[f].pc = engine[f].pc
    BY <1>1, <2>1, LaunchedEngines
  <2> QED
    BY <2>2, <2>3
<1>3. ASSUME NEW e \in Engines, Start(e)
      PROVE  engine[f].pc # "idle" /\ engine'[f].run = engine[f].run
  <2>1. engine[e].pc = "scheduled"
    BY <1>3 DEF Start
  <2> QED
    BY <1>1, <1>3, <2>1, StartedEngines DEF SameEngine
<1>4. ASSUME NEW e \in Engines, engine' = [engine EXCEPT ![e] = Idle]
      PROVE  engine[f].pc # "idle" /\ engine'[f].run = engine[f].run
  BY <1>1, <1>4, EndedEngines DEF SameEngine
<1>5. ASSUME NEW e \in Engines, NEW n \in Attempts, NEW cost \in Costs, Consume(e, n, cost)
      PROVE  engine[f].pc # "idle" /\ engine'[f].run = engine[f].run
  <2>1. Counted(e, n, cost)
    BY <1>5 DEF Consume, Counted
  <2>2. cost \in Nat
    OBVIOUS
  <2>3. engine'[f].pc = engine[f].pc /\ engine'[f].run = engine[f].run
    BY <1>1, <2>1, <2>2, CountedEngines
  <2> QED
    BY <2>3
<1>6. ASSUME engine' = engine
      PROVE  engine[f].pc # "idle" /\ engine'[f].run = engine[f].run
  BY <1>6
<1>7. ~Restart
  BY EngineStates DEF Restart, Idle, Scheduled
<1> QED
  BY <1>2, <1>3, <1>4, <1>5, <1>6, <1>7
     DEF Next, EngineStep, SetupFails, Crash, Finish, Returns, ConfirmHolds, Sweep, vars

\* Rows stay, and with them the holds of the runs.
LEMMA BooksStep ==
    ASSUME PaidInv, Books, [Next]_vars
    PROVE  Books' /\ \A x \in Runs : HeldRun(x) => HeldRun(x)'
<1>1. /\ WalletTypes /\ Solvent /\ KeyOnce /\ IsFiniteSet(ledger) /\ BillInv /\ TypeOK
      /\ ledger \subseteq ledger' /\ TypeOK'
  BY BillStep DEF PaidInv, BillInv, TypeOK, WalletTypes
<1>2. \A x \in Runs : HeldRun(x) => HeldRun(x)'
  BY <1>1 DEF HeldRun, HasKey, RowsOf
<1>3. ASSUME NEW e \in Engines, engine'[e].pc # "idle"
      PROVE  HeldRun(engine[e].run)'
  <2>1. engine[e].run \in Runs /\ (engine[e].pc # "idle" => HeldRun(engine[e].run))
    BY <1>1, EngineFields DEF Books
  <2>2. PICK x : x = engine[e].run
    OBVIOUS
  <2>3. PICK y : y = engine'[e].run
    OBVIOUS
  <2>4. (engine[e].pc # "idle" /\ y = x) \/ HeldRun(engine[e].run)'
    BY <1>1, <1>3, <2>2, <2>3, EnginesKeepRuns
  <2>5. HeldRun(engine[e].run)' <=> HeldRun(y)'
    BY <2>3 DEF HeldRun, HasKey, RowsOf
  <2> QED
    BY <1>2, <2>1, <2>2, <2>4, <2>5
<1>4. CASE UNCHANGED <<wallet, ledger>>
  <2>1. /\ \A x \in Runs : HeldRun(x)' <=> HeldRun(x)
        /\ \A x \in Runs : Unbooked(x)' <=> Unbooked(x)
    BY <1>4 DEF HeldRun, HasKey, RowsOf, Unbooked
  <2>2. \A x \in Runs : Placed(x)' = Placed(x)
    BY <1>4 DEF Placed, AmountOf, RowsOf
  <2>3. \A u \in Users : wallet'[u].exists
    BY <1>4, Zenon DEF Books
  <2> QED
    BY <1>2, <1>3, <2>1, <2>2, <2>3 DEF Books
<1>5. ASSUME NEW op \in Calls, NEW r \in Runs, NEW n \in {0} \cup Attempts, NEW a \in Nat,
             Proper(op, r, n, a)
      PROVE  Books'
  <2>0. Effective(op, r, n, a)
    BY <1>5 DEF Proper
  <2>1. PICK row \in LedgerRow : /\ ledger' = ledger \cup {row} /\ row \notin ledger
                                 /\ row.op = op /\ row.run = r /\ row.n = n /\ row.amount = a
    BY <1>1, <2>0, EffectOnRows
  <2>2. wallet' = [wallet EXCEPT ![Owner[r]] = Updated(op, wallet[Owner[r]], a)]
    BY <1>1, <2>0, EffectOnRows
  <2>3. \A u \in Users : wallet[u] \in WalletRow /\ wallet[u].exists
    BY <1>1 DEF WalletTypes, Books
  <2>4. Updated(op, wallet[Owner[r]], a).exists
    BY <2>3, UpdatedExists
  <2>5. ASSUME NEW u \in Users PROVE wallet'[u].exists
    <3>1. u = Owner[r] => wallet'[u] = Updated(op, wallet[Owner[r]], a)
      BY <1>1, <2>2 DEF WalletTypes
    <3>2. u # Owner[r] => wallet'[u] = wallet[u]
      BY <1>1, <2>2 DEF WalletTypes
    <3> QED
      BY <2>3, <2>4, <3>1, <3>2, Zenon
  <2>6. HeldRun(r)'
    <3>1. op = "hold" /\ n = 0 => HeldRun(r)'
      BY <2>1 DEF HeldRun, HasKey, RowsOf
    <3> QED
      BY <1>2, <1>5, <3>1 DEF Proper
  <2>7. ASSUME NEW x \in Runs PROVE HeldRun(x)' \/ Unbooked(x)'
    <3>1. x # r /\ Unbooked(x) => Unbooked(x)'
      BY <2>1 DEF Unbooked
    <3> QED
      BY <1>2, <2>6, <3>1 DEF Books
  <2>8. ASSUME NEW x \in Runs, HeldRun(x)' PROVE Placed(x)' = P90[x]
    <3>1. /\ Placed(x) \in Nat
          /\ Placed(x)' = Placed(x) + (IF "hold" = op /\ x = r THEN a ELSE 0)
      BY <1>1, <1>5, EffectOnSums DEF Placed, Proper
    <3>2. CASE "hold" = op /\ x = r
      <4>1. ~HeldRun(r) /\ a = P90[r]
        BY <1>5, <3>2 DEF Proper
      <4>2. Placed(r) = 0
        BY <4>1, NothingCharged DEF Books, Unbooked
      <4> QED
        BY <3>1, <3>2, <4>1, <4>2
    <3>3. CASE ~("hold" = op /\ x = r)
      <4>1. HeldRun(x)
        BY <2>1, <2>8, <3>3 DEF HeldRun, HasKey, RowsOf
      <4> QED
        BY <3>1, <3>3, <4>1 DEF Books
    <3> QED
      BY <3>2, <3>3
  <2> QED
    BY <1>3, <2>5, <2>7, <2>8 DEF Books
<1>6. CASE UNCHANGED <<wallet, ledger>> \/ Books'
  BY <1>2, <1>4, <1>6
<1> QED
  BY <1>1, <1>2, <1>4, <1>5, <1>6, StepIsProper

-----------------------------------------------------------------------------
(***************************************************************************)
(* What is held against what is left of the holds, summed over the runs of *)
(* a user.                                                                 *)
(***************************************************************************)

Opens    == [r \in Runs |-> Open(r)]
Excesses == [r \in Runs |-> Excess(r)]
Repays   == [r \in Runs |-> Repaid(r)]

UserSum(f, u) == SumFunction([r \in RunsOf(u) |-> f[r]])

\* Whatever happens, no more is held than is left of the holds, no less than
\* that but for what was taken beyond them, and the balance is what was not
\* spent of the starter balance but for refunds.
Sums ==
    \A u \in Users :
        /\ wallet[u].held <= UserSum(Opens, u)
        /\ wallet[u].held + UserSum(Excesses, u) >= UserSum(Opens, u)
        /\ wallet[u].balance <= AtLeastZero(StarterBalance - wallet[u].spent) + UserSum(Repays, u)

SumsInv == PaidInv /\ Books /\ Sums

\* The amounts of a run are natural numbers.
LEMMA AmountsNat ==
    ASSUME IsFiniteSet(ledger), ledger \subseteq LedgerRow, NEW r \in Runs
    PROVE  /\ Placed(r) \in Nat /\ Charged(r) \in Nat /\ Freed(r) \in Nat /\ Repaid(r) \in Nat
           /\ Taken(r) \in Nat /\ Open(r) \in Nat /\ Excess(r) \in Nat
<1>1. ASSUME NEW o PROVE AmountOf(RowsOf(o, r)) \in Nat
  <2>1. PICK S : S = RowsOf(o, r)
    OBVIOUS
  <2>2. IsFiniteSet(S)
    BY <2>1, FS_Subset DEF RowsOf
  <2>3. PICK f : f = [x \in S |-> x.amount]
    OBVIOUS
  <2>4. DOMAIN f = S /\ \A x \in S : f[x] \in Nat
    BY <2>1, <2>3 DEF RowsOf, LedgerRow
  <2>5. SumFunction(f) \in Nat
    BY <2>2, <2>4, SumNat DEF SumFunction
  <2> QED
    BY <2>1, <2>3, <2>5 DEF AmountOf
<1>2. Placed(r) \in Nat /\ Charged(r) \in Nat /\ Freed(r) \in Nat /\ Repaid(r) \in Nat
  BY <1>1 DEF Placed, Charged, Freed, Repaid
<1>3. Taken(r) \in Nat
  BY <1>2 DEF Taken
<1> QED
  BY <1>2, <1>3 DEF Open, Excess, AtLeastZero

\* The amounts of a run after a call.
LEMMA AmountsAfter ==
    ASSUME PaidInv, NEW op \in Calls, NEW r \in Runs, NEW n \in {0} \cup Attempts,
           NEW a \in Nat, Effective(op, r, n, a), NEW x \in Runs
    PROVE  /\ Placed(x) \in Nat /\ Charged(x) \in Nat /\ Freed(x) \in Nat /\ Repaid(x) \in Nat
           /\ Placed(x)' = Placed(x) + (IF op = "hold" /\ x = r THEN a ELSE 0)
           /\ Charged(x)' = Charged(x) + (IF op = "consume" /\ x = r THEN a ELSE 0)
           /\ Freed(x)' = Freed(x) + (IF op = "release" /\ x = r THEN a ELSE 0)
           /\ Repaid(x)' = Repaid(x) + (IF op = "refund" /\ x = r THEN a ELSE 0)
           /\ Taken(x) \in Nat
           /\ Taken(x)' = Taken(x) + (IF op # "hold" /\ x = r THEN a ELSE 0)
<1>1. WalletTypes /\ Solvent /\ KeyOnce /\ IsFiniteSet(ledger) /\ ledger \subseteq LedgerRow
  BY DEF PaidInv, BillInv, TypeOK, WalletTypes
<1>2. /\ Placed(x) \in Nat /\ Charged(x) \in Nat /\ Freed(x) \in Nat /\ Repaid(x) \in Nat
      /\ Taken(x) \in Nat
  BY <1>1, AmountsNat
<1>3. Placed(x)' = Placed(x) + (IF "hold" = op /\ x = r THEN a ELSE 0)
  BY <1>1, EffectOnSums DEF Placed
<1>4. Charged(x)' = Charged(x) + (IF "consume" = op /\ x = r THEN a ELSE 0)
  BY <1>1, EffectOnSums DEF Charged
<1>5. Freed(x)' = Freed(x) + (IF "release" = op /\ x = r THEN a ELSE 0)
  BY <1>1, EffectOnSums DEF Freed
<1>6. Repaid(x)' = Repaid(x) + (IF "refund" = op /\ x = r THEN a ELSE 0)
  BY <1>1, EffectOnSums DEF Repaid
<1>7. Taken(x) = Charged(x) + Freed(x) + Repaid(x) /\ Taken(x)' = Charged(x)' + Freed(x)' + Repaid(x)'
  BY DEF Taken
<1>8. op = "hold" \/ op = "consume" \/ op = "release" \/ op = "refund"
  BY DEF Calls
<1> QED
  BY <1>2, <1>3, <1>4, <1>5, <1>6, <1>7, <1>8

\* The columns of the owner's row, and of the other rows, after a call.
LEMMA ColumnsAfter ==
    ASSUME PaidInv, NEW op \in Calls, NEW r \in Runs, NEW n \in {0} \cup Attempts,
           NEW a \in Nat, Effective(op, r, n, a), NEW u \in Users
    PROVE  /\ wallet[u].held \in Nat /\ wallet[u].balance \in Nat /\ wallet[u].spent \in Nat
           /\ wallet[u].held <= wallet[u].balance
           /\ u # Owner[r] => wallet'[u] = wallet[u]
           /\ u = Owner[r] =>
                /\ wallet'[u].held =
                     IF op = "hold" THEN wallet[u].held + a ELSE AtLeastZero(wallet[u].held - a)
                /\ wallet'[u].spent = wallet[u].spent + (IF op = "consume" THEN a ELSE 0)
                /\ wallet'[u].balance =
                     IF op = "consume" THEN AtLeastZero(wallet[u].balance - a)
                     ELSE IF op = "refund" THEN wallet[u].balance + a
                     ELSE wallet[u].balance
<1>1. WalletTypes /\ Solvent /\ KeyOnce
  BY DEF PaidInv, BillInv, TypeOK, WalletTypes
<1>2. wallet' = [wallet EXCEPT ![Owner[r]] = Updated(op, wallet[Owner[r]], a)]
  BY <1>1, EffectOnRows
<1>3. PICK w \in WalletRow : w = wallet[u]
  BY <1>1 DEF WalletTypes
<1>4. w.held \in Nat /\ w.balance \in Nat /\ w.spent \in Nat /\ w.held <= w.balance
  BY <1>1, <1>3 DEF WalletRow, Solvent
<1>5. u # Owner[r] => wallet'[u] = wallet[u]
  BY <1>1, <1>2 DEF WalletTypes
<1>6. ASSUME u = Owner[r]
      PROVE  /\ wallet'[u].held = IF op = "hold" THEN w.held + a ELSE AtLeastZero(w.held - a)
             /\ wallet'[u].spent = w.spent + (IF op = "consume" THEN a ELSE 0)
             /\ wallet'[u].balance = IF op = "consume" THEN AtLeastZero(w.balance - a)
                                     ELSE IF op = "refund" THEN w.balance + a
                                     ELSE w.balance
  <2>1. wallet'[u] = Updated(op, w, a)
    BY <1>1, <1>2, <1>3, <1>6 DEF WalletTypes
  <2>2. wallet'[u].spent = w.spent + (IF op = "consume" THEN a ELSE 0)
    BY <2>1, UpdatedSpends
  <2>3. CASE op = "hold"
    <3>1. PICK k : k = w.held + a
      OBVIOUS
    <3>2. Updated(op, w, a) = [w EXCEPT !.held = k]
      BY <2>3, <3>1 DEF Updated, HoldOps, Held
    <3> QED
      BY <2>1, <2>2, <2>3, <3>1, <3>2 DEF WalletRow
  <2>4. CASE op = "release"
    <3>1. PICK k : k = AtLeastZero(w.held - a)
      OBVIOUS
    <3>2. Updated(op, w, a) = [w EXCEPT !.held = k]
      BY <2>4, <3>1 DEF Updated, HoldOps, Released
    <3> QED
      BY <2>1, <2>2, <2>4, <3>1, <3>2 DEF WalletRow
  <2>5. CASE op = "consume"
    <3>1. Updated(op, w, a) = Consumed(w, a)
      BY <2>5 DEF Updated, HoldOps
    <3>2. PICK v : v = Consumed(w, a)
      OBVIOUS
    <3>3. v.balance = AtLeastZero(w.balance - a) /\ v.held = AtLeastZero(w.held - a)
      BY <3>2, PaidColumns, Zenon
    <3> QED
      BY <2>1, <2>2, <2>5, <3>1, <3>2, <3>3
  <2>6. CASE op = "refund"
    <3>1. Updated(op, w, a) = Refunded(w, a)
      BY <2>6 DEF Updated, HoldOps
    <3>2. PICK v : v = Refunded(w, a)
      OBVIOUS
    <3>3. v.balance = w.balance + a /\ v.held = AtLeastZero(w.held - a)
      BY <3>2, PaidColumns, Zenon
    <3> QED
      BY <2>1, <2>2, <2>6, <3>1, <3>2, <3>3
  <2> QED
    BY <2>3, <2>4, <2>5, <2>6 DEF Calls
<1> QED
  BY <1>3, <1>4, <1>5, <1>6

\* What is left of a run's hold, and what was taken beyond it, after a call.
LEMMA OpenAfter ==
    ASSUME PaidInv, Books, NEW op \in Calls, NEW r \in Runs, NEW n \in {0} \cup Attempts,
           NEW a \in Nat, Proper(op, r, n, a)
    PROVE  /\ \A x \in Runs : x # r => /\ Open(x)' = Open(x) /\ Excess(x)' = Excess(x)
                                     /\ Repaid(x)' = Repaid(x)
           /\ op = "hold" => /\ Open(r) = 0 /\ Excess(r) = 0
                             /\ Open(r)' = a /\ Excess(r)' = 0
           /\ Placed(r) \in Nat /\ Taken(r) \in Nat
           /\ op # "hold" =>
                /\ Open(r) = AtLeastZero(Placed(r) - Taken(r))
                /\ Open(r)' = AtLeastZero(Placed(r) - (Taken(r) + a))
                /\ Excess(r) = AtLeastZero(Taken(r) - Placed(r))
                /\ Excess(r)' = AtLeastZero((Taken(r) + a) - Placed(r))
           /\ Repaid(r)' = Repaid(r) + (IF op = "refund" THEN a ELSE 0)
<1>0. Effective(op, r, n, a)
  BY DEF Proper
<1>1. ASSUME NEW x \in Runs
      PROVE  /\ Open(x) = AtLeastZero(Placed(x) - Taken(x))
             /\ Excess(x) = AtLeastZero(Taken(x) - Placed(x))
             /\ Open(x)' = AtLeastZero(Placed(x)' - Taken(x)')
             /\ Excess(x)' = AtLeastZero(Taken(x)' - Placed(x)')
  BY DEF Open, Excess, AtLeastZero
<1>2. ASSUME NEW x \in Runs, x # r
      PROVE  Open(x)' = Open(x) /\ Excess(x)' = Excess(x) /\ Repaid(x)' = Repaid(x)
  <2>1. Placed(x)' = Placed(x) /\ Taken(x)' = Taken(x) /\ Repaid(x)' = Repaid(x)
    BY <1>0, <1>2, AmountsAfter
  <2> QED
    BY <1>1, <2>1
<1>3. ASSUME op = "hold"
      PROVE  Open(r) = 0 /\ Excess(r) = 0 /\ Open(r)' = a /\ Excess(r)' = 0
  <2>1. Unbooked(r)
    BY <1>3 DEF Proper, Books
  <2>2. Placed(r) = 0 /\ Taken(r) = 0 /\ Open(r) = 0 /\ Excess(r) = 0
    BY <2>1, NothingCharged DEF Unbooked
  <2>3. Placed(r)' = 0 + a /\ Taken(r)' = 0
    BY <1>0, <1>3, <2>2, AmountsAfter
  <2> QED
    BY <1>1, <2>2, <2>3 DEF AtLeastZero
<1>4. ASSUME op # "hold"
      PROVE  /\ Open(r) = AtLeastZero(Placed(r) - Taken(r))
             /\ Open(r)' = AtLeastZero(Placed(r) - (Taken(r) + a))
             /\ Excess(r) = AtLeastZero(Taken(r) - Placed(r))
             /\ Excess(r)' = AtLeastZero((Taken(r) + a) - Placed(r))
  <2>1. Placed(r)' = Placed(r) /\ Taken(r)' = Taken(r) + a /\ Placed(r) \in Nat /\ Taken(r) \in Nat
    BY <1>0, <1>4, AmountsAfter
  <2> QED
    BY <1>1, <2>1
<1>5. /\ Repaid(r)' = Repaid(r) + (IF op = "refund" THEN a ELSE 0)
      /\ Placed(r) \in Nat /\ Taken(r) \in Nat
  BY <1>0, AmountsAfter
<1> QED
  BY <1>2, <1>3, <1>4, <1>5

\* What is taken of a hold comes off what is held, and off what is left of it
\* or adds to what was taken beyond it.
LEMMA TakenArithmetic ==
    ASSUME NEW h \in Nat, NEW a \in Nat, NEW p \in Nat, NEW t \in Nat,
           NEW o \in Nat, NEW o1 \in Nat, NEW x \in Nat, NEW x1 \in Nat,
           o - AtLeastZero(p - t) = o1 - AtLeastZero(p - (t + a)),
           x - AtLeastZero(t - p) = x1 - AtLeastZero((t + a) - p),
           h <= o, h + x >= o
    PROVE  AtLeastZero(h - a) <= o1 /\ AtLeastZero(h - a) + x1 >= o1
BY DEF AtLeastZero

\* What is paid comes off the balance and off what is not spent.
LEMMA SpentArithmetic ==
    ASSUME NEW b \in Nat, NEW a \in Nat, NEW s \in Nat, NEW m \in Nat, NEW y \in Nat,
           b <= AtLeastZero(m - s) + y
    PROVE  AtLeastZero(b - a) <= AtLeastZero(m - (s + a)) + y
BY DEF AtLeastZero

\* A sum over the runs of a user, before and after a change for one run.
LEMMA UserSums ==
    ASSUME NEW f \in [Runs -> Nat], NEW g \in [Runs -> Nat], NEW r \in Runs,
           \A x \in Runs : x # r => f[x] = g[x], NEW u \in Users
    PROVE  /\ UserSum(f, u) \in Nat /\ UserSum(g, u) \in Nat
           /\ u # Owner[r] => UserSum(f, u) = UserSum(g, u)
           /\ u = Owner[r] => UserSum(f, u) - f[r] = UserSum(g, u) - g[r]
BY UsersTotals DEF UserSum

\* Every step keeps the sums.
LEMMA SumsStep ==
    ASSUME SumsInv, [Next]_vars
    PROVE  SumsInv'
<1>1. PaidInv /\ Books /\ Sums /\ BillInv /\ PaidInv' /\ Books'
  BY PaidStep, BooksStep DEF SumsInv, PaidInv
<1>2. CASE UNCHANGED <<wallet, ledger>>
  <2>1. \A x \in Runs : Open(x)' = Open(x) /\ Excess(x)' = Excess(x) /\ Repaid(x)' = Repaid(x)
    BY <1>2 DEF Open, Excess, Taken, Placed, Charged, Freed, Repaid, AmountOf, RowsOf
  <2>2. Opens' = Opens /\ Excesses' = Excesses /\ Repays' = Repays
    BY <2>1 DEF Opens, Excesses, Repays
  <2>3. ASSUME NEW u \in Users
        PROVE  /\ UserSum(Opens, u)' = UserSum(Opens, u)
               /\ UserSum(Excesses, u)' = UserSum(Excesses, u)
               /\ UserSum(Repays, u)' = UserSum(Repays, u)
    BY <2>2 DEF UserSum, RunsOf
  <2> QED
    BY <1>1, <1>2, <2>3 DEF SumsInv, Sums
<1>3. ASSUME NEW op \in Calls, NEW r \in Runs, NEW n \in {0} \cup Attempts, NEW a \in Nat,
             Proper(op, r, n, a)
      PROVE  SumsInv'
  <2>1. PICK f1 : f1 = Opens
    OBVIOUS
  <2>2. PICK f2 : f2 = Excesses
    OBVIOUS
  <2>3. PICK f3 : f3 = Repays
    OBVIOUS
  <2>4. PICK g1 : g1 = Opens'
    OBVIOUS
  <2>5. PICK g2 : g2 = Excesses'
    OBVIOUS
  <2>6. PICK g3 : g3 = Repays'
    OBVIOUS
  <2>12. Effective(op, r, n, a)
    BY <1>3 DEF Proper
  <2>7. IsFiniteSet(ledger) /\ ledger \subseteq LedgerRow
    BY <1>1 DEF PaidInv, BillInv, TypeOK
  <2>8. ASSUME NEW x \in Runs
        PROVE  Open(x)' \in Nat /\ Excess(x)' \in Nat /\ Repaid(x)' \in Nat
    <3>1. Placed(x)' \in Nat /\ Taken(x)' \in Nat /\ Repaid(x)' \in Nat
      BY <1>1, <2>12, AmountsAfter
    <3> QED
      BY <3>1 DEF Open, Excess, AtLeastZero
  <2>9. ASSUME NEW x \in Runs
        PROVE  Open(x) \in Nat /\ Excess(x) \in Nat /\ Repaid(x) \in Nat
    BY <2>7, AmountsNat
  <2>10. /\ f1 \in [Runs -> Nat] /\ f2 \in [Runs -> Nat] /\ f3 \in [Runs -> Nat]
         /\ g1 \in [Runs -> Nat] /\ g2 \in [Runs -> Nat] /\ g3 \in [Runs -> Nat]
         /\ f1[r] = Open(r) /\ f2[r] = Excess(r) /\ f3[r] = Repaid(r)
         /\ g1[r] = Open(r)' /\ g2[r] = Excess(r)' /\ g3[r] = Repaid(r)'
    BY <2>1, <2>2, <2>3, <2>4, <2>5, <2>6, <2>8, <2>9 DEF Opens, Excesses, Repays
  <2>11. \A x \in Runs : x # r => f1[x] = g1[x] /\ f2[x] = g2[x] /\ f3[x] = g3[x]
    <3>1. \A x \in Runs : x # r => /\ Open(x)' = Open(x) /\ Excess(x)' = Excess(x)
                                  /\ Repaid(x)' = Repaid(x)
      BY <1>1, <1>3, OpenAfter
    <3> QED
      BY <2>1, <2>2, <2>3, <2>4, <2>5, <2>6, <3>1 DEF Opens, Excesses, Repays
  <2>13. ASSUME NEW u \in Users
         PROVE  /\ wallet'[u].held <= UserSum(g1, u)
                /\ wallet'[u].held + UserSum(g2, u) >= UserSum(g1, u)
                /\ wallet'[u].balance <=
                     AtLeastZero(StarterBalance - wallet'[u].spent) + UserSum(g3, u)
    <3>1. PICK o \in Nat : o = UserSum(f1, u)
      BY <2>10, <2>11, UserSums
    <3>2. PICK x \in Nat : x = UserSum(f2, u)
      BY <2>10, <2>11, UserSums
    <3>3. PICK y \in Nat : y = UserSum(f3, u)
      BY <2>10, <2>11, UserSums
    <3>4. PICK o1 \in Nat : o1 = UserSum(g1, u)
      BY <2>10, <2>11, UserSums
    <3>5. PICK x1 \in Nat : x1 = UserSum(g2, u)
      BY <2>10, <2>11, UserSums
    <3>6. PICK y1 \in Nat : y1 = UserSum(g3, u)
      BY <2>10, <2>11, UserSums
    <3>7. u # Owner[r] => o = o1 /\ x = x1 /\ y = y1
      BY <2>10, <2>11, <3>1, <3>2, <3>3, <3>4, <3>5, <3>6, UserSums
    <3>8. u = Owner[r] => o - f1[r] = o1 - g1[r] /\ x - f2[r] = x1 - g2[r] /\ y - f3[r] = y1 - g3[r]
      <4>1. u = Owner[r] => o - f1[r] = o1 - g1[r]
        BY <2>10, <2>11, <3>1, <3>4, UserSums
      <4>2. u = Owner[r] => x - f2[r] = x1 - g2[r]
        BY <2>10, <2>11, <3>2, <3>5, UserSums
      <4>3. u = Owner[r] => y - f3[r] = y1 - g3[r]
        BY <2>10, <2>11, <3>3, <3>6, UserSums
      <4> QED
        BY <4>1, <4>2, <4>3
    <3>9. PICK w : w = wallet[u]
      OBVIOUS
    <3>10. PICK v : v = wallet'[u]
      OBVIOUS
    <3>11. /\ w.held <= o /\ w.held + x >= o
           /\ w.balance <= AtLeastZero(StarterBalance - w.spent) + y
      BY <1>1, <2>1, <2>2, <2>3, <3>1, <3>2, <3>3, <3>9 DEF Sums
    <3>12. /\ w.held \in Nat /\ w.balance \in Nat /\ w.spent \in Nat
           /\ u # Owner[r] => v = w
           /\ u = Owner[r] =>
                /\ v.held = IF op = "hold" THEN w.held + a ELSE AtLeastZero(w.held - a)
                /\ v.spent = w.spent + (IF op = "consume" THEN a ELSE 0)
                /\ v.balance = IF op = "consume" THEN AtLeastZero(w.balance - a)
                               ELSE IF op = "refund" THEN w.balance + a
                               ELSE w.balance
      <4>1. wallet[u].held \in Nat /\ wallet[u].balance \in Nat /\ wallet[u].spent \in Nat
        BY <1>1, <2>12, ColumnsAfter
      <4>2. u # Owner[r] => wallet'[u] = wallet[u]
        BY <1>1, <2>12, ColumnsAfter
      <4>3. u = Owner[r] =>
              wallet'[u].held = IF op = "hold" THEN wallet[u].held + a
                                ELSE AtLeastZero(wallet[u].held - a)
        BY <1>1, <2>12, ColumnsAfter
      <4>4. u = Owner[r] => wallet'[u].spent = wallet[u].spent + (IF op = "consume" THEN a ELSE 0)
        BY <1>1, <2>12, ColumnsAfter
      <4>5. u = Owner[r] =>
              wallet'[u].balance = IF op = "consume" THEN AtLeastZero(wallet[u].balance - a)
                                   ELSE IF op = "refund" THEN wallet[u].balance + a
                                   ELSE wallet[u].balance
        BY <1>1, <2>12, ColumnsAfter
      <4> QED
        BY <3>9, <3>10, <4>1, <4>2, <4>3, <4>4, <4>5
    <3>13. CASE u # Owner[r]
      BY <3>4, <3>5, <3>6, <3>7, <3>10, <3>11, <3>12, <3>13
    <3>14. CASE u = Owner[r]
      <4>1. v.held <= o1 /\ v.held + x1 >= o1
        <5>1. CASE op = "hold"
          <6>1. Open(r) = 0 /\ Excess(r) = 0 /\ Open(r)' = a /\ Excess(r)' = 0
            BY <1>1, <1>3, <5>1, OpenAfter
          <6>2. o1 = o + a /\ x1 = x /\ v.held = w.held + a
            BY <2>10, <3>8, <3>12, <3>14, <5>1, <6>1
          <6> QED
            BY <3>11, <3>12, <6>2
        <5>2. CASE op # "hold"
          <6>0. PICK p \in Nat, t \in Nat : p = Placed(r) /\ t = Taken(r)
            BY <1>1, <1>3, OpenAfter
          <6>1. /\ Open(r) = AtLeastZero(p - t) /\ Open(r)' = AtLeastZero(p - (t + a))
                /\ Excess(r) = AtLeastZero(t - p) /\ Excess(r)' = AtLeastZero((t + a) - p)
            BY <1>1, <1>3, <5>2, <6>0, OpenAfter
          <6>2. /\ o - AtLeastZero(p - t) = o1 - AtLeastZero(p - (t + a))
                /\ x - AtLeastZero(t - p) = x1 - AtLeastZero((t + a) - p)
            BY <2>10, <3>8, <3>14, <6>1
          <6>3. PICK h \in Nat : h = w.held
            BY <3>12
          <6>4. AtLeastZero(h - a) <= o1 /\ AtLeastZero(h - a) + x1 >= o1
            BY <3>11, <6>2, <6>3, TakenArithmetic
          <6> QED
            BY <3>12, <3>14, <5>2, <6>3, <6>4
        <5> QED
          BY <5>1, <5>2
      <4>2. v.balance <= AtLeastZero(StarterBalance - v.spent) + y1
        <5>1. PICK b \in Nat, s \in Nat : b = w.balance /\ s = w.spent
          BY <3>12
        <5>2. Repaid(r) \in Nat /\ Repaid(r)' = Repaid(r) + (IF op = "refund" THEN a ELSE 0)
          BY <1>1, <1>3, <2>9, OpenAfter
        <5>3. y1 = y + (IF op = "refund" THEN a ELSE 0)
          BY <2>10, <3>8, <3>14, <5>2
        <5>4. StarterBalance \in Nat /\ b <= AtLeastZero(StarterBalance - s) + y
          BY <3>11, <5>1
        <5>5. CASE op = "consume"
          <6>1. AtLeastZero(b - a) <= AtLeastZero(StarterBalance - (s + a)) + y
            BY <5>4, SpentArithmetic
          <6> QED
            BY <3>12, <3>14, <5>1, <5>3, <5>5, <6>1
        <5>6. CASE op # "consume"
          <6>1. v.spent = s /\ v.balance = b + (IF op = "refund" THEN a ELSE 0)
            BY <3>12, <3>14, <5>1, <5>6
          <6>2. AtLeastZero(StarterBalance - s) \in Nat
            BY DEF AtLeastZero
          <6> QED
            BY <5>3, <5>4, <6>1, <6>2
        <5> QED
          BY <5>5, <5>6
      <4> QED
        BY <3>4, <3>5, <3>6, <3>10, <4>1, <4>2
    <3> QED
      BY <3>13, <3>14
  <2>14. ASSUME NEW u \in Users
         PROVE  /\ UserSum(Opens, u)' = UserSum(g1, u)
                /\ UserSum(Excesses, u)' = UserSum(g2, u)
                /\ UserSum(Repays, u)' = UserSum(g3, u)
    BY <2>4, <2>5, <2>6 DEF UserSum, RunsOf
  <2> QED
    BY <1>1, <2>13, <2>14 DEF SumsInv, Sums
<1> QED
  BY <1>1, <1>2, <1>3, StepIsProper

-----------------------------------------------------------------------------
(***************************************************************************)
(* An engine that is not disturbed is the only one of its run, and no      *)
(* other runs beside it.                                                   *)
(***************************************************************************)

Alone ==
    \A e, f \in Engines :
        e # f /\ engine[e].pc = "running" /\ engine[f].pc = "running"
            => engine[e].run \in disturbed

OneServes ==
    \A e, f \in Engines :
        e # f /\ engine[e].pc # "idle" /\ engine[f].pc # "idle" /\ engine[e].run = engine[f].run
            => engine[e].run \in disturbed

\* Nothing is counted yet for an engine that has not started.
NotCounted ==
    \A e \in Engines : engine[e].pc = "scheduled" =>
        e \notin consume /\ \A f \in Engines : e \notin engine[f].saved

Shares == Alone /\ OneServes /\ NotCounted

LEMMA SharesStep ==
    ASSUME BillInv, Shares, [Next]_vars
    PROVE  Shares'
<1>1. /\ TypeOK /\ Alone /\ OneServes /\ NotCounted /\ disturbed \subseteq disturbed'
  BY DisturbedGrows DEF BillInv, Shares
<1>2. ASSUME UNCHANGED <<engine, consume>> PROVE Shares'
  BY <1>1, <1>2 DEF Shares, Alone, OneServes, NotCounted
<1>3. ASSUME NEW r \in Runs, NEW e \in Engines, ConfirmLaunches(r, e)
      PROVE  Shares'
  <2>1. PICK heldRu : Launched(r, e, heldRu)
    BY <1>3 DEF ConfirmLaunches, Launched
  <2>2. consume' = consume \ {e} /\ (Touched(r) => r \in disturbed')
    BY <1>3 DEF ConfirmLaunches
  <2>3. /\ engine'[e].pc = "scheduled" /\ engine'[e].run = r /\ engine'[e].saved = {}
        /\ \A f \in Engines : f # e => /\ engine'[f].pc = engine[f].pc
                                      /\ engine'[f].run = engine[f].run
                                      /\ engine'[f].saved = engine[f].saved \ {e}
    BY <1>1, <2>1, LaunchedEngines
  <2>4. \A f \in Engines : f # e /\ engine'[f].pc # "idle" /\ engine'[f].run = r => r \in disturbed'
    BY <2>2, <2>3 DEF Touched
  <2>5. Alone'
    BY <1>1, <2>3 DEF Alone
  <2>6. OneServes'
    BY <1>1, <2>3, <2>4 DEF OneServes
  <2>7. NotCounted'
    BY <1>1, <2>2, <2>3 DEF NotCounted
  <2> QED
    BY <2>5, <2>6, <2>7 DEF Shares
<1>4. ASSUME NEW e \in Engines, Start(e)
      PROVE  Shares'
  <2>1. /\ engine[e].pc = "scheduled" /\ consume' = consume \cup {e}
        /\ Running # {} => \A f \in Running \cup {e} : engine[f].run \in disturbed'
    BY <1>4 DEF Start
  <2>2. /\ engine'[e].run = engine[e].run /\ engine'[e].saved = consume
        /\ engine'[e].pc = "running"
        /\ \A f \in Engines : f # e => /\ engine'[f].pc = engine[f].pc
                                      /\ engine'[f].run = engine[f].run
                                      /\ engine'[f].saved = engine[f].saved
    BY <1>1, <1>4, StartedEngines DEF SameEngine
  <2>3. \A f \in Engines : f # e /\ engine'[f].pc = "running" =>
           engine'[f].run \in disturbed' /\ engine'[e].run \in disturbed'
    BY <2>1, <2>2 DEF Running
  <2>4. Alone'
    BY <1>1, <2>2, <2>3 DEF Alone
  <2>5. OneServes'
    BY <1>1, <2>1, <2>2 DEF OneServes
  <2>6. NotCounted'
    BY <1>1, <2>1, <2>2 DEF NotCounted
  <2> QED
    BY <2>4, <2>5, <2>6 DEF Shares
<1>5. ASSUME NEW e \in Engines, engine' = [engine EXCEPT ![e] = Idle],
             consume' = consume \/ consume' = engine[e].saved
      PROVE  Shares'
  <2>1. /\ engine'[e].pc = "idle" /\ engine'[e].saved = {}
        /\ \A f \in Engines : f # e => /\ engine'[f].pc = engine[f].pc
                                      /\ engine'[f].run = engine[f].run
                                      /\ engine'[f].saved = engine[f].saved
    <3>1. engine' = [engine EXCEPT ![e] = Idle] /\ TypeOK
      BY <1>1, <1>5
    <3>2. engine'[e].pc = "idle" /\ engine'[e].saved = {}
      BY ONLY <3>1, EndedEngines
    <3>3. \A f \in Engines : f # e => SameEngine(f)
      BY ONLY <3>1, EndedEngines
    <3> QED
      BY <3>2, <3>3 DEF SameEngine
  <2>2. Alone' /\ OneServes'
    BY <1>1, <2>1 DEF Alone, OneServes
  <2>3. NotCounted'
    BY <1>1, <1>5, <2>1 DEF NotCounted
  <2> QED
    BY <2>2, <2>3 DEF Shares
<1>6. ASSUME NEW e \in Engines, NEW n \in Attempts, NEW cost \in Costs, Consume(e, n, cost)
      PROVE  Shares'
  <2>1. cost \in Nat /\ consume' = consume /\ Counted(e, n, cost)
    BY <1>6 DEF Consume, Counted
  <2>2. \A f \in Engines : /\ engine'[f].pc = engine[f].pc
                           /\ engine'[f].run = engine[f].run
                           /\ engine'[f].saved = engine[f].saved
    BY <1>1, <2>1, CountedEngines
  <2>3. Alone' /\ OneServes'
    BY <1>1, <2>2 DEF Alone, OneServes
  <2>4. NotCounted'
    BY <1>1, <2>1, <2>2 DEF NotCounted
  <2> QED
    BY <2>3, <2>4 DEF Shares
<1>7. CASE Restart
  <2>1. \A e \in Engines : engine'[e].pc = "idle"
    BY <1>7, EngineStates DEF Restart, Idle, Scheduled
  <2> QED
    BY <2>1 DEF Shares, Alone, OneServes, NotCounted
<1>8. ASSUME NEW e \in Engines, SetupFails(e) \/ Crash(e) \/ \E final \in Finals : Finish(e, final)
      PROVE  Shares'
  BY <1>5, <1>8 DEF SetupFails, Crash, Finish, Returns
<1>9. ASSUME NEW r \in Runs, ConfirmHolds(r) \/ Sweep(r) PROVE Shares'
  BY <1>2, <1>9 DEF ConfirmHolds, Sweep
<1> QED
  BY <1>2, <1>3, <1>4, <1>6, <1>7, <1>8, <1>9 DEF Next, EngineStep, vars

-----------------------------------------------------------------------------
(***************************************************************************)
(* What an engine that is alone counts, and what it leaves behind.         *)
(***************************************************************************)

\* Engine e works on run r: nothing was given back, and it counts what is left.
AtWork(e, r) ==
    /\ engine[e].hold = P90[r] /\ ~Returned(r)
    /\ RowsOf("release", r) = {} /\ RowsOf("refund", r) = {}
    /\ engine[e].left = AtLeastZero(P90[r] - Charged(r))
    /\ \A row \in RowsOf("consume", r) : row.n \in engine[e].paid
    /\ engine[e].pc = "scheduled" => engine[e].paid = {}
    /\ engine[e].pc = "running" => e \in consume
    /\ engine[e].paid # {} => RowsOf("consume", r) # {}

Work ==
    \A e \in Engines, r \in Runs :
        engine[e].pc # "idle" /\ engine[e].run = r /\ r \notin disturbed => AtWork(e, r)

\* No more is released than is left, nothing is both refunded and released, and
\* a run that returned was paid from and has nothing left.
KeptRun(r) ==
    /\ Freed(r) <= AtLeastZero(P90[r] - Charged(r))
    /\ RowsOf("refund", r) # {} => Freed(r) = 0 /\ Repaid(r) <= P90[r]
    /\ Returned(r) => /\ RowsOf("refund", r) = {} /\ RowsOf("consume", r) # {}
                      /\ P90[r] <= Charged(r) + Freed(r)

Kept == \A r \in Runs : r \notin disturbed => KeptRun(r)

WorkInv == SumsInv /\ Shares /\ Work /\ Kept

SameRows(r) ==
    /\ RowsOf("consume", r)' = RowsOf("consume", r)
    /\ RowsOf("release", r)' = RowsOf("release", r)
    /\ RowsOf("refund", r)' = RowsOf("refund", r)

\* An engine's step does not concern engine f, but for what f saved.
SameWork(f) ==
    /\ engine'[f].pc = engine[f].pc /\ engine'[f].run = engine[f].run
    /\ engine'[f].hold = engine[f].hold /\ engine'[f].left = engine[f].left
    /\ engine'[f].paid = engine[f].paid

LEMMA SameAmounts ==
    ASSUME NEW r, SameRows(r)
    PROVE  Charged(r)' = Charged(r) /\ Freed(r)' = Freed(r) /\ Repaid(r)' = Repaid(r)
BY DEF SameRows, Charged, Freed, Repaid, AmountOf

LEMMA NothingSameRows ==
    ASSUME UNCHANGED ledger, NEW r
    PROVE  SameRows(r)
BY DEF SameRows, RowsOf

\* A call for one run leaves the rows of the others alone; a hold, those of all.
LEMMA OthersSameRows ==
    ASSUME PaidInv, NEW op \in Calls, NEW r \in Runs, NEW n \in {0} \cup Attempts,
           NEW a \in Nat, Effective(op, r, n, a), NEW x, x # r \/ op = "hold"
    PROVE  SameRows(x)
<1>1. WalletTypes /\ Solvent /\ KeyOnce
  BY DEF PaidInv, BillInv, TypeOK, WalletTypes
<1>2. PICK row \in LedgerRow : /\ ledger' = ledger \cup {row}
                               /\ row.op = op /\ row.run = r
  BY <1>1, EffectOnRows
<1> QED
  BY <1>2 DEF SameRows, RowsOf

LEMMA KeptStays ==
    ASSUME NEW r, KeptRun(r), SameRows(r), Returned(r)' => Returned(r)
    PROVE  KeptRun(r)'
<1>1. Charged(r)' = Charged(r) /\ Freed(r)' = Freed(r) /\ Repaid(r)' = Repaid(r)
  BY SameAmounts
<1>2. KeptRun(r)' <=>
        /\ Freed(r)' <= AtLeastZero(P90[r] - Charged(r)')
        /\ RowsOf("refund", r)' # {} => Freed(r)' = 0 /\ Repaid(r)' <= P90[r]
        /\ Returned(r)' => /\ RowsOf("refund", r)' = {} /\ RowsOf("consume", r)' # {}
                           /\ P90[r] <= Charged(r)' + Freed(r)'
  BY DEF KeptRun, AtLeastZero
<1> QED
  BY <1>1, <1>2 DEF KeptRun, SameRows

LEMMA AtWorkStays ==
    ASSUME NEW e \in Engines, NEW r, AtWork(e, r), SameWork(e), SameRows(r),
           Returned(r)' => Returned(r),
           engine[e].pc = "running" => e \in consume'
    PROVE  AtWork(e, r)'
<1>1. Charged(r)' = Charged(r)
  BY SameAmounts
<1>2. AtLeastZero(P90[r] - Charged(r))' = AtLeastZero(P90[r] - Charged(r))
  BY <1>1 DEF AtLeastZero
<1> QED
  BY <1>2 DEF AtWork, SameWork, SameRows

\* A row that is inserted does not make a run one that returned.
LEMMA InsertedNotReturned ==
    ASSUME TypeOK, NEW r \in Runs, RowInserted(r), NEW x \in Runs
    PROVE  Returned(x)' => Returned(x)
<1>1. status \in [Runs -> Statuses]
  BY DEF TypeOK
<1>2. status'[x] = status[x] \/ status'[x] = "running"
  BY <1>1 DEF RowInserted
<1> QED
  BY <1>2 DEF Returned

\* A final status concerns one run.
LEMMA FinalNotReturned ==
    ASSUME TypeOK, NEW r \in Runs, NEW final, FinalStatus(r, final), NEW x \in Runs, x # r
    PROVE  Returned(x)' => Returned(x)
<1>1. status \in [Runs -> Statuses]
  BY DEF TypeOK
<1>2. status'[x] = status[x]
  BY <1>1 DEF FinalStatus
<1> QED
  BY <1>2 DEF Returned

\* What holds whatever a step does.
LEMMA WorkFacts ==
    ASSUME WorkInv
    PROVE  /\ PaidInv /\ Books /\ BillInv /\ TypeOK /\ WalletTypes /\ Solvent /\ KeyOnce
           /\ IsFiniteSet(ledger) /\ ledger \subseteq LedgerRow
           /\ Alone /\ OneServes /\ NotCounted /\ Work /\ Kept
           /\ \A e \in Engines : engine[e].run \in Runs
           /\ "hold" \in Calls /\ "consume" \in Calls /\ "release" \in Calls /\ "refund" \in Calls
<1>1. PaidInv /\ BillInv /\ TypeOK
  BY DEF WorkInv, SumsInv, PaidInv, BillInv
<1> QED
  BY <1>1, EngineFields DEF WorkInv, SumsInv, PaidInv, BillInv, TypeOK, WalletTypes, Shares, Calls

\* Steps that book nothing but holds and change no engine.
LEMMA WorkQuiet ==
    ASSUME WorkInv, disturbed \subseteq disturbed', \A r \in Runs : SameRows(r),
           \A r \in Runs : Returned(r)' => Returned(r), UNCHANGED <<engine, consume>>
    PROVE  Work' /\ Kept'
<1>1. Work /\ Kept
  BY DEF WorkInv
<1>2. ASSUME NEW r \in Runs, r \notin disturbed' PROVE KeptRun(r)'
  <2>1. KeptRun(r)
    BY <1>1, <1>2 DEF Kept
  <2> QED
    BY <2>1, KeptStays
<1>3. ASSUME NEW e \in Engines, NEW r \in Runs, engine'[e].pc # "idle", engine'[e].run = r,
             r \notin disturbed'
      PROVE  AtWork(e, r)'
  <2>1. AtWork(e, r)
    BY <1>1, <1>3 DEF Work
  <2>2. SameWork(e) /\ (engine[e].pc = "running" => e \in consume')
    BY <2>1 DEF SameWork, AtWork
  <2> QED
    BY <2>1, <2>2, AtWorkStays
<1> QED
  BY <1>2, <1>3 DEF Kept, Work

\* A confirm books a hold or nothing.
LEMMA HoldSameRows ==
    ASSUME WorkInv, NEW r \in Runs, NEW heldRu, HoldPlaced(r, heldRu)
    PROVE  \A x \in Runs : SameRows(x)
<1>1. PaidInv /\ BillInv /\ "hold" \in Calls /\ P90[r] \in Nat
  BY WorkFacts
<1>2. UNCHANGED <<wallet, ledger>> \/ Effective("hold", r, 0, P90[r])
  BY <1>1, HoldIsProper DEF Proper
<1>3. ASSUME Effective("hold", r, 0, P90[r]), NEW x \in Runs PROVE SameRows(x)
  BY <1>1, <1>3, OthersSameRows
<1> QED
  BY <1>2, <1>3, NothingSameRows

LEMMA WorkConfirmHolds ==
    ASSUME WorkInv, NEW r \in Runs, ConfirmHolds(r)
    PROVE  Work' /\ Kept'
<1>1. HoldPlaced(r, P90[r]) /\ UNCHANGED <<status, engine, consume, disturbed>>
  BY DEF ConfirmHolds
<1>2. \A x \in Runs : SameRows(x)
  BY <1>1, HoldSameRows
<1>3. \A x \in Runs : Returned(x)' => Returned(x)
  BY <1>1 DEF Returned
<1>4. disturbed \subseteq disturbed' /\ UNCHANGED <<engine, consume>>
  BY <1>1
<1> QED
  BY <1>2, <1>3, <1>4, WorkQuiet

\* An engine is launched for an untouched run, or for one that is disturbed.
LEMMA WorkConfirmLaunches ==
    ASSUME WorkInv, NEW r \in Runs, NEW e \in Engines, ConfirmLaunches(r, e)
    PROVE  Work' /\ Kept'
<1>1. Work /\ Kept /\ TypeOK
  BY WorkFacts
<1>2. PICK heldRu : /\ HoldPlaced(r, heldRu) /\ Launched(r, e, heldRu)
                    /\ disturbed' = IF Touched(r) \/ heldRu # P90[r]
                                      THEN disturbed \cup {r} ELSE disturbed
  BY DEF ConfirmLaunches, Launched
<1>3. consume' = consume \ {e} /\ RowInserted(r)
  BY DEF ConfirmLaunches
<1>4. \A x \in Runs : SameRows(x) /\ (Returned(x)' => Returned(x))
  BY <1>1, <1>2, <1>3, HoldSameRows, InsertedNotReturned
<1>5. disturbed \subseteq disturbed'
  BY <1>2
<1>6. ASSUME NEW x \in Runs, x \notin disturbed' PROVE KeptRun(x) /\ KeptRun(x)'
  <2>1. KeptRun(x)
    BY <1>1, <1>5, <1>6 DEF Kept
  <2> QED
    BY <1>4, <2>1, KeptStays
<1>7. ASSUME NEW f \in Engines, NEW x \in Runs, engine'[f].pc # "idle", engine'[f].run = x,
             x \notin disturbed', f # e
      PROVE  AtWork(f, x)'
  <2>1. SameWork(f)
    BY <1>1, <1>2, <1>7, LaunchedEngines DEF SameWork
  <2>2. AtWork(f, x)
    BY <1>1, <1>5, <1>7, <2>1 DEF Work, SameWork
  <2>3. engine[f].pc = "running" => f \in consume'
    BY <1>3, <1>7, <2>2 DEF AtWork
  <2> QED
    BY <1>4, <2>1, <2>2, <2>3, AtWorkStays
<1>8. ASSUME r \notin disturbed' PROVE AtWork(e, r)'
  <2>1. ~Touched(r) /\ heldRu = P90[r]
    BY <1>2, <1>8
  <2>2. RowsOf("consume", r) = {} /\ RowsOf("release", r) = {} /\ RowsOf("refund", r) = {}
    BY <2>1 DEF Touched, RowsOf
  <2>3. ~Returned(r)
    BY <1>6, <1>8, <2>2 DEF KeptRun
  <2>4. /\ RowsOf("consume", r)' = {} /\ RowsOf("release", r)' = {} /\ RowsOf("refund", r)' = {}
        /\ ~Returned(r)'
    BY <1>4, <2>2, <2>3 DEF SameRows
  <2>5. Charged(r)' = 0
    BY <2>4, EmptyAmount DEF Charged, AmountOf
  <2>6. /\ engine'[e].pc = "scheduled" /\ engine'[e].hold = P90[r] /\ engine'[e].left = P90[r]
        /\ engine'[e].paid = {}
    BY <1>1, <1>2, <2>1, LaunchedEngines
  <2>7. P90[r] \in Nat /\ AtLeastZero(P90[r] - Charged(r))' = P90[r]
    BY <2>5 DEF AtLeastZero
  <2> QED
    BY <2>4, <2>6, <2>7 DEF AtWork
<1>9. engine'[e].run = r
  BY <1>1, <1>2, LaunchedEngines
<1> QED
  BY <1>6, <1>7, <1>8, <1>9 DEF Kept, Work

LEMMA WorkStart ==
    ASSUME WorkInv, NEW e \in Engines, Start(e)
    PROVE  Work' /\ Kept'
<1>1. Work /\ Kept /\ TypeOK /\ engine[e].run \in Runs
  BY WorkFacts
<1>2. /\ engine[e].pc = "scheduled" /\ consume' = consume \cup {e} /\ RowInserted(engine[e].run)
      /\ UNCHANGED ledger
  BY DEF Start
<1>3. disturbed \subseteq disturbed'
  BY DEF Start
<1>4. \A x \in Runs : SameRows(x) /\ (Returned(x)' => Returned(x))
  BY <1>1, <1>2, NothingSameRows, InsertedNotReturned
<1>5. ASSUME NEW x \in Runs, x \notin disturbed' PROVE KeptRun(x)'
  <2>1. KeptRun(x)
    BY <1>1, <1>3, <1>5 DEF Kept
  <2> QED
    BY <1>4, <2>1, KeptStays
<1>6. ASSUME NEW f \in Engines, NEW x \in Runs, engine'[f].pc # "idle", engine'[f].run = x,
             x \notin disturbed', f # e
      PROVE  AtWork(f, x)'
  <2>1. SameWork(f)
    BY <1>1, <1>6, StartedEngines DEF SameWork, SameEngine
  <2>2. AtWork(f, x)
    BY <1>1, <1>3, <1>6, <2>1 DEF Work, SameWork
  <2>3. engine[f].pc = "running" => f \in consume'
    BY <1>2, <1>6, <2>2 DEF AtWork
  <2> QED
    BY <1>4, <2>1, <2>2, <2>3, AtWorkStays
<1>7. ASSUME NEW x \in Runs, engine'[e].run = x, x \notin disturbed' PROVE AtWork(e, x)'
  <2>1. /\ engine'[e].pc = "running" /\ engine'[e].run = engine[e].run
        /\ engine'[e].hold = engine[e].hold /\ engine'[e].left = engine[e].left
        /\ engine'[e].paid = engine[e].paid
    BY <1>1, StartedEngines
  <2>2. AtWork(e, x)
    BY <1>1, <1>2, <1>3, <1>7, <2>1 DEF Work
  <2>3. SameRows(x) /\ ~Returned(x)'
    BY <1>4, <2>2 DEF AtWork
  <2>4. Charged(x)' = Charged(x)
    BY <2>3, SameAmounts
  <2>5. AtLeastZero(P90[x] - Charged(x))' = AtLeastZero(P90[x] - Charged(x))
    BY <2>4 DEF AtLeastZero
  <2> QED
    BY <1>2, <2>1, <2>2, <2>3, <2>5 DEF AtWork, SameRows
<1> QED
  BY <1>5, <1>6, <1>7 DEF Kept, Work

\* A step of engine e, of run r: the other runs, and the engines that are not
\* disturbed, are left alone.
LEMMA WorkOthers ==
    ASSUME WorkInv, NEW e \in Engines, NEW r \in Runs, r = engine[e].run, engine[e].pc # "idle",
           disturbed \subseteq disturbed',
           \A x \in Runs : x # r => SameRows(x) /\ (Returned(x)' => Returned(x)),
           \A f \in Engines : f # e =>
               engine'[f].pc = engine[f].pc /\ engine'[f].run = engine[f].run,
           \A f \in Engines : f # e /\ engine[f].pc # "idle" /\ engine[f].run \notin disturbed =>
               SameWork(f) /\ (engine[f].pc = "running" => f \in consume'),
           r \notin disturbed' => KeptRun(r)',
           engine'[e].pc # "idle" => engine'[e].run = r,
           r \notin disturbed' /\ engine'[e].pc # "idle" => AtWork(e, r)'
    PROVE  Work' /\ Kept'
<1>1. Work /\ Kept /\ OneServes
  BY WorkFacts
<1>2. ASSUME NEW x \in Runs, x \notin disturbed', x # r PROVE KeptRun(x)'
  <2>1. KeptRun(x)
    BY <1>1, <1>2 DEF Kept
  <2> QED
    BY <1>2, <2>1, KeptStays
<1>3. ASSUME NEW f \in Engines, NEW x \in Runs, engine'[f].pc # "idle", engine'[f].run = x,
             x \notin disturbed', f # e
      PROVE  AtWork(f, x)'
  <2>1. engine[f].pc # "idle" /\ engine[f].run = x /\ x \notin disturbed
    BY <1>3
  <2>2. AtWork(f, x) /\ x # r
    BY <1>1, <1>3, <2>1 DEF Work, OneServes
  <2>3. SameWork(f) /\ (engine[f].pc = "running" => f \in consume')
    BY <1>3, <2>1
  <2> QED
    BY <2>2, <2>3, AtWorkStays
<1>4. Kept'
  BY <1>2 DEF Kept
<1>5. Work'
  BY <1>3 DEF Work
<1> QED
  BY <1>4, <1>5

\* A call for a run: the rows of the other runs stay.
LEMMA CallSameRows ==
    ASSUME WorkInv, NEW op \in Calls, NEW r \in Runs, NEW n \in {0} \cup Attempts,
           NEW a \in Nat, WalletCall(op, r, n, a)
    PROVE  \A x \in Runs : x # r => SameRows(x)
<1>1. PaidInv
  BY WorkFacts
<1>2. UNCHANGED <<wallet, ledger>> \/ Effective(op, r, n, a)
  BY EffectiveOrNot DEF WalletCall
<1>3. ASSUME Effective(op, r, n, a), NEW x \in Runs, x # r PROVE SameRows(x)
  BY <1>1, <1>3, OthersSameRows
<1> QED
  BY <1>2, <1>3, NothingSameRows

\* A refund of the hold of an undisturbed engine's run.
LEMMA RefundKeeps ==
    ASSUME WorkInv, NEW e \in Engines, NEW r \in Runs, r = engine[e].run, engine[e].pc # "idle",
           WalletCall("refund", r, 0, engine[e].hold), disturbed \subseteq disturbed',
           Returned(r)' => Returned(r), r \notin disturbed'
    PROVE  KeptRun(r)'
<1>1. AtWork(e, r) /\ KeptRun(r)
  BY WorkFacts DEF Work, Kept
<1>2. Billed("refund", r, 0, engine[e].hold)
  BY DEF WalletCall
<1>3. engine[e].hold = P90[r] /\ P90[r] \in Nat /\ ~Returned(r) /\ ~Returned(r)'
  BY <1>1 DEF AtWork
<1>4. CASE UNCHANGED <<wallet, ledger>>
  BY <1>1, <1>3, <1>4, KeptStays, NothingSameRows
<1>5. CASE Effective("refund", r, 0, P90[r])
  <2>1. RowsOf("release", r) = {} /\ RowsOf("refund", r) = {}
    BY <1>1 DEF AtWork
  <2>2. Freed(r) = 0 /\ Repaid(r) = 0
    BY <2>1, EmptyAmount DEF Freed, Repaid
  <2>3. PaidInv /\ "refund" \in Calls /\ 0 \in {0} \cup Attempts
    BY WorkFacts
  <2>4. /\ Charged(r) \in Nat /\ Charged(r)' = Charged(r)
        /\ Freed(r)' = Freed(r) + 0 /\ Repaid(r)' = Repaid(r) + P90[r]
    BY <1>3, <1>5, <2>3, AmountsAfter
  <2>5. Freed(r)' = 0 /\ Repaid(r)' = P90[r]
    BY <1>3, <2>2, <2>4
  <2>6. Freed(r)' <= AtLeastZero(P90[r] - Charged(r))'
    BY <1>3, <2>4, <2>5 DEF AtLeastZero
  <2> QED
    BY <1>3, <2>5, <2>6 DEF KeptRun
<1> QED
  BY <1>2, <1>3, <1>4, <1>5, EffectiveOrNot

LEMMA WorkGivesUp ==
    ASSUME WorkInv, NEW e \in Engines, SetupFails(e) \/ Crash(e), disturbed \subseteq disturbed'
    PROVE  Work' /\ Kept'
<1>1. TypeOK /\ Alone /\ Work /\ engine[e].run \in Runs /\ "refund" \in Calls
      /\ engine[e].hold \in Nat
  BY WorkFacts, EngineFields
<1>2. PICK r \in Runs : r = engine[e].run
  BY <1>1
<1>3. /\ engine[e].pc # "idle" /\ engine' = [engine EXCEPT ![e] = Idle]
      /\ WalletCall("refund", r, 0, engine[e].hold)
      /\ RowInserted(r) \/ status' = status
      /\ consume' = consume \/ (engine[e].pc = "running" /\ consume' = engine[e].saved)
  BY <1>2 DEF SetupFails, Crash
<1>4. \A x \in Runs : Returned(x)' => Returned(x)
  BY <1>1, <1>3, InsertedNotReturned DEF Returned
<1>5. \A x \in Runs : x # r => SameRows(x)
  BY <1>1, <1>3, CallSameRows
<1>6. engine'[e].pc = "idle" /\ \A f \in Engines : f # e => SameEngine(f)
  BY <1>1, <1>3, EndedEngines
<1>7. ASSUME NEW f \in Engines, f # e, engine[f].pc # "idle", engine[f].run \notin disturbed
      PROVE  SameWork(f) /\ (engine[f].pc = "running" => f \in consume')
  <2>1. AtWork(f, engine[f].run)
    BY <1>1, <1>7, WorkFacts DEF Work
  <2>2. engine[f].pc = "running" => f \in consume /\ engine[e].pc # "running"
    BY <1>1, <1>7, <2>1 DEF AtWork, Alone
  <2> QED
    BY <1>3, <1>6, <1>7, <2>2 DEF SameEngine, SameWork
<1>8. r \notin disturbed' => KeptRun(r)'
  BY <1>2, <1>3, <1>4, RefundKeeps
<1>9. \A f \in Engines : f # e =>
        engine'[f].pc = engine[f].pc /\ engine'[f].run = engine[f].run
  BY <1>6 DEF SameEngine
<1> QED
  BY <1>2, <1>3, <1>4, <1>5, <1>6, <1>7, <1>8, <1>9, WorkOthers

\* What is left of the hold of an undisturbed run is released.
LEMMA FinishKeeps ==
    ASSUME WorkInv, NEW e \in Engines, NEW r \in Runs, r = engine[e].run, Returns(e),
           IF engine[e].left > 0
             THEN WalletCall("release", r, 0, engine[e].left)
             ELSE UNCHANGED <<wallet, ledger, disturbed>>,
           disturbed \subseteq disturbed', r \notin disturbed'
    PROVE  KeptRun(r)'
<1>1. AtWork(e, r)
  BY WorkFacts DEF Work, Returns
<1>2. PICK l : l = engine[e].left
  OBVIOUS
<1>3. /\ PaidInv /\ IsFiniteSet(ledger) /\ ledger \subseteq LedgerRow /\ P90[r] \in Nat /\ l \in Nat
      /\ "release" \in Calls /\ 0 \in {0} \cup Attempts
  BY <1>2, WorkFacts, EngineFields
<1>4. Charged(r) \in Nat
  BY <1>3, AmountsNat
<1>5. /\ RowsOf("release", r) = {} /\ RowsOf("refund", r) = {} /\ RowsOf("consume", r) # {}
      /\ l = AtLeastZero(P90[r] - Charged(r))
  BY <1>1, <1>2 DEF AtWork, Returns
<1>6. Freed(r) = 0
  BY <1>5, EmptyAmount DEF Freed
<1>7. /\ Charged(r)' = Charged(r) /\ Freed(r)' = l
      /\ RowsOf("refund", r)' = {} /\ RowsOf("consume", r)' # {}
  <2>1. CASE l > 0
    <3>1. Billed("release", r, 0, l)
      BY <1>2, <2>1 DEF WalletCall
    <3>2. ~HasKey("release", r, 0)
      BY <1>5 DEF HasKey
    <3>3. wallet[Owner[r]].exists
      BY WorkFacts DEF Books
    <3>4. UpdateMatches("release", wallet[Owner[r]], l)
      BY <3>3 DEF UpdateMatches, HoldOps
    <3>5. Effective("release", r, 0, l)
      BY <3>1, <3>2, <3>4 DEF Effective
    <3>6. Charged(r)' = Charged(r) + 0 /\ Freed(r)' = Freed(r) + l
      BY <1>3, <3>5, AmountsAfter
    <3>7. WalletTypes /\ Solvent /\ KeyOnce
      BY WorkFacts
    <3>8. RowsOf("refund", r)' = {} /\ RowsOf("consume", r)' # {}
      BY <1>3, <1>5, <3>5, <3>7, EffectOnSums
    <3> QED
      BY <1>3, <1>4, <1>6, <3>6, <3>8
  <2>2. CASE ~(l > 0)
    <3>1. SameRows(r)
      BY <1>2, <2>2, NothingSameRows
    <3> QED
      BY <1>3, <1>5, <1>6, <2>2, <3>1, SameAmounts DEF SameRows
  <2> QED
    BY <2>1, <2>2
<1>8. Freed(r)' <= AtLeastZero(P90[r] - Charged(r))' /\ P90[r] <= Charged(r)' + Freed(r)'
  BY <1>3, <1>4, <1>5, <1>7 DEF AtLeastZero
<1> QED
  BY <1>7, <1>8 DEF KeptRun

LEMMA WorkFinish ==
    ASSUME WorkInv, NEW e \in Engines, NEW final \in Finals, Finish(e, final),
           disturbed \subseteq disturbed'
    PROVE  Work' /\ Kept'
<1>1. TypeOK /\ Alone /\ Work /\ engine[e].run \in Runs /\ "release" \in Calls
      /\ engine[e].left \in Nat
  BY WorkFacts, EngineFields
<1>2. PICK r \in Runs : r = engine[e].run
  BY <1>1
<1>3. /\ engine[e].pc = "running" /\ Returns(e) /\ engine' = [engine EXCEPT ![e] = Idle]
      /\ FinalStatus(r, final)
      /\ IF engine[e].left > 0
           THEN WalletCall("release", r, 0, engine[e].left)
           ELSE UNCHANGED <<wallet, ledger, disturbed>>
  BY <1>2 DEF Finish, Returns
<1>4. \A x \in Runs : x # r => (Returned(x)' => Returned(x))
  BY <1>1, <1>3, FinalNotReturned
<1>5. \A x \in Runs : x # r => SameRows(x)
  BY <1>1, <1>3, CallSameRows, NothingSameRows
<1>6. engine'[e].pc = "idle" /\ \A f \in Engines : f # e => SameEngine(f)
  BY <1>1, <1>3, EndedEngines
<1>7. ASSUME NEW f \in Engines, f # e, engine[f].pc # "idle", engine[f].run \notin disturbed
      PROVE  SameWork(f) /\ (engine[f].pc = "running" => f \in consume')
  BY <1>1, <1>3, <1>6, <1>7 DEF SameEngine, SameWork, Alone
<1>8. r \notin disturbed' => KeptRun(r)'
  BY <1>2, <1>3, FinishKeeps
<1>9. \A f \in Engines : f # e =>
        engine'[f].pc = engine[f].pc /\ engine'[f].run = engine[f].run
  BY <1>6 DEF SameEngine
<1> QED
  BY <1>2, <1>3, <1>4, <1>5, <1>6, <1>7, <1>8, <1>9, WorkOthers

\* What an attempt costs is charged.
LEMMA PaidAfter ==
    ASSUME PaidInv, NEW r \in Runs, NEW n \in {0} \cup Attempts, NEW a \in Nat,
           Effective("consume", r, n, a)
    PROVE  Charged(r)' = Charged(r) + a
<1>1. PICK op \in Calls : op = "consume"
  BY DEF Calls
<1>2. Charged(r)' = Charged(r) + (IF op = "consume" /\ r = r THEN a ELSE 0)
  BY <1>1, AmountsAfter
<1> QED
  BY <1>1, <1>2

\* An attempt is paid from the hold of an undisturbed run.
LEMMA ConsumeKeeps ==
    ASSUME WorkInv, NEW e \in Engines, NEW r \in Runs, r = engine[e].run,
           NEW n \in Attempts, NEW cost \in Nat, engine[e].pc = "running", n \notin engine[e].paid,
           Counted(e, n, cost), WalletCall("consume", r, n, cost), UNCHANGED <<status, consume>>,
           disturbed \subseteq disturbed', r \notin disturbed'
    PROVE  KeptRun(r)' /\ AtWork(e, r)'
<1>1. AtWork(e, r)
  BY WorkFacts DEF Work
<1>2. PICK l : l = engine[e].left
  OBVIOUS
<1>3. /\ PaidInv /\ TypeOK /\ P90[r] \in Nat /\ n \in {0} \cup Attempts
      /\ IsFiniteSet(ledger) /\ ledger \subseteq LedgerRow /\ "consume" \in Calls
      /\ WalletTypes /\ Solvent /\ KeyOnce
  BY WorkFacts
<1>4. Charged(r) \in Nat
  BY <1>3, AmountsNat
<1>5. /\ RowsOf("release", r) = {} /\ RowsOf("refund", r) = {} /\ ~Returned(r)
      /\ engine[e].hold = P90[r] /\ l = AtLeastZero(P90[r] - Charged(r)) /\ e \in consume
      /\ \A row \in RowsOf("consume", r) : row.n \in engine[e].paid
  BY <1>1, <1>2 DEF AtWork
<1>6. Freed(r) = 0
  BY <1>5, EmptyAmount DEF Freed
<1>7. Effective("consume", r, n, cost)
  <2>1. Billed("consume", r, n, cost)
    BY DEF WalletCall
  <2>2. ~HasKey("consume", r, n)
    BY <1>5 DEF HasKey
  <2>3. wallet[Owner[r]].exists
    BY WorkFacts DEF Books
  <2>4. UpdateMatches("consume", wallet[Owner[r]], cost)
    BY <2>3 DEF UpdateMatches, HoldOps
  <2> QED
    BY <2>1, <2>2, <2>4 DEF Effective
<1>8. Charged(r)' = Charged(r) + cost /\ Freed(r)' = Freed(r) + 0
  <2>1. Charged(r)' = Charged(r) + cost
    BY <1>3, <1>7, PaidAfter
  <2>2. Freed(r)' = Freed(r) + 0
    BY <1>3, <1>7, AmountsAfter
  <2> QED
    BY <2>1, <2>2
<1>9. RowsOf("refund", r)' = {} /\ RowsOf("release", r)' = {} /\ RowsOf("consume", r)' # {}
  BY <1>3, <1>5, <1>7, EffectOnSums
<1>10. ~Returned(r)'
  BY <1>5 DEF Returned
<1>11. KeptRun(r)'
  <2>1. Freed(r)' <= AtLeastZero(P90[r] - Charged(r))'
    BY <1>3, <1>4, <1>6, <1>8 DEF AtLeastZero
  <2> QED
    BY <1>9, <1>10, <2>1 DEF KeptRun
<1>12. /\ engine'[e].pc = "running" /\ engine'[e].hold = engine[e].hold
       /\ engine'[e].left = AtLeastZero(l - cost) /\ engine'[e].paid = engine[e].paid \cup {n}
  <2>1. engine'[e].pc = engine[e].pc /\ engine'[e].hold = engine[e].hold
    BY <1>3, CountedEngines
  <2>2. engine'[e].left = AtLeastZero(engine[e].left - cost)
    BY <1>3, <1>5, CountedEngines
  <2>3. engine'[e].paid = engine[e].paid \cup {n}
    BY <1>3, CountedEngines
  <2> QED
    BY <1>2, <2>1, <2>2, <2>3
<1>13. engine'[e].left = AtLeastZero(P90[r] - Charged(r))'
  BY <1>3, <1>4, <1>5, <1>8, <1>12 DEF AtLeastZero
<1>14. \A row \in RowsOf("consume", r)' : row.n \in engine'[e].paid
  <2>1. PICK row \in LedgerRow : ledger' = ledger \cup {row} /\ row.n = n
    BY <1>3, <1>7, EffectOnRows
  <2>2. \A x \in RowsOf("consume", r)' : x \in RowsOf("consume", r) \/ x.n = n
    BY <2>1 DEF RowsOf
  <2> QED
    BY <1>5, <1>12, <2>2
<1>15. AtWork(e, r)'
  BY <1>5, <1>9, <1>10, <1>12, <1>13, <1>14 DEF AtWork
<1> QED
  BY <1>11, <1>15

LEMMA WorkConsume ==
    ASSUME WorkInv, NEW e \in Engines, NEW n \in Attempts, NEW cost \in Costs,
           Consume(e, n, cost), disturbed \subseteq disturbed'
    PROVE  Work' /\ Kept'
<1>1. TypeOK /\ Alone /\ NotCounted /\ Work /\ engine[e].run \in Runs /\ "consume" \in Calls
      /\ cost \in Nat /\ n \in {0} \cup Attempts
  BY WorkFacts
<1>2. PICK r \in Runs : r = engine[e].run
  BY <1>1
<1>3. /\ engine[e].pc = "running" /\ n \notin engine[e].paid /\ Counted(e, n, cost)
      /\ WalletCall("consume", r, n, cost) /\ UNCHANGED <<status, consume>>
  BY <1>2 DEF Consume, Counted
<1>4. \A x \in Runs : Returned(x)' => Returned(x)
  BY <1>3 DEF Returned
<1>5. \A x \in Runs : x # r => SameRows(x)
  BY <1>1, <1>3, CallSameRows
<1>6. ASSUME NEW f \in Engines
      PROVE  /\ engine'[f].pc = engine[f].pc /\ engine'[f].run = engine[f].run
             /\ engine'[f].hold = engine[f].hold
             /\ f \notin consume => engine'[f].left = engine[f].left
             /\ f # e => engine'[f].paid = engine[f].paid
  BY <1>1, <1>3, CountedEngines
<1>7. ASSUME NEW f \in Engines, f # e, engine[f].pc # "idle", engine[f].run \notin disturbed
      PROVE  SameWork(f) /\ (engine[f].pc = "running" => f \in consume')
  <2>1. engine[f].pc = "scheduled"
    <3>1. engine[f].pc # "running"
      BY <1>1, <1>3, <1>7 DEF Alone
    <3>2. engine[f] \in EngineState
      BY <1>1 DEF TypeOK
    <3> QED
      BY <1>7, <3>1, <3>2 DEF EngineState
  <2>2. f \notin consume
    BY <1>1, <2>1 DEF NotCounted
  <2> QED
    BY <1>6, <1>7, <2>1, <2>2 DEF SameWork
<1>8. r \notin disturbed' => KeptRun(r)' /\ AtWork(e, r)'
  BY <1>1, <1>2, <1>3, ConsumeKeeps
<1> QED
  BY <1>2, <1>3, <1>4, <1>5, <1>6, <1>7, <1>8, WorkOthers

\* A restart leaves no engine, a sweep leaves them all.
LEMMA WorkProcess ==
    ASSUME WorkInv, Restart \/ (\E r \in Runs : Sweep(r)) \/ UNCHANGED vars
    PROVE  Work' /\ Kept'
<1>1. Work /\ Kept /\ TypeOK
  BY WorkFacts
<1>2. UNCHANGED <<ledger, disturbed>>
  BY DEF Restart, Sweep, vars
<1>3. ASSUME NEW x \in Runs PROVE SameRows(x) /\ (Returned(x)' => Returned(x))
  <2>1. status'[x] = status[x] \/ status'[x] = "failed"
    BY <1>1 DEF Restart, Sweep, vars, TypeOK
  <2> QED
    BY <1>2, <2>1, NothingSameRows DEF Returned
<1>4. CASE UNCHANGED <<engine, consume>>
  BY <1>2, <1>3, <1>4, WorkQuiet
<1>5. CASE Restart
  <2>1. \A e \in Engines : engine'[e].pc = "idle"
    BY <1>5, EngineStates DEF Restart, Idle, Scheduled
  <2>2. ASSUME NEW x \in Runs, x \notin disturbed' PROVE KeptRun(x)'
    <3>1. KeptRun(x)
      BY <1>1, <1>2, <2>2 DEF Kept
    <3> QED
      BY <1>3, <3>1, KeptStays
  <2> QED
    BY <2>1, <2>2 DEF Work, Kept
<1> QED
  BY <1>4, <1>5 DEF Sweep, vars

\* Every step keeps the books, what engines count and what they leave.
LEMMA WorkStep ==
    ASSUME WorkInv, [Next]_vars
    PROVE  WorkInv'
<1>1. SumsInv' /\ Shares' /\ disturbed \subseteq disturbed'
  BY WorkFacts, SumsStep, SharesStep, DisturbedGrows DEF WorkInv
<1>2. ASSUME NEW r \in Runs, ConfirmHolds(r) \/ \E e \in Engines : ConfirmLaunches(r, e)
      PROVE  Work' /\ Kept'
  BY <1>2, WorkConfirmHolds, WorkConfirmLaunches
<1>3. ASSUME NEW e \in Engines, Start(e) \/ SetupFails(e) \/ Crash(e)
      PROVE  Work' /\ Kept'
  BY <1>1, <1>3, WorkStart, WorkGivesUp
<1>4. ASSUME NEW e \in Engines,
             \/ \E n \in Attempts, cost \in Costs : Consume(e, n, cost)
             \/ \E final \in Finals : Finish(e, final)
      PROVE  Work' /\ Kept'
  BY <1>1, <1>4, WorkConsume, WorkFinish
<1>5. Restart \/ (\E r \in Runs : Sweep(r)) \/ UNCHANGED vars => Work' /\ Kept'
  BY WorkProcess
<1>6. Work' /\ Kept'
  BY <1>2, <1>3, <1>4, <1>5 DEF Next, EngineStep
<1> QED
  BY <1>1, <1>6 DEF WorkInv

LEMMA WorkInit == Init => WorkInv
<1> SUFFICES ASSUME Init PROVE WorkInv
  OBVIOUS
<1>1. Idle.pc = "idle" /\ Idle.saved = {}
  BY EngineStates DEF Idle, Scheduled
<1>2. \A u \in Users : wallet[u].exists
  BY DEF Init, Starter
<1>3. \A r \in Runs : Unbooked(r) /\ ~HeldRun(r) /\ ~Returned(r)
  BY DEF Init, Unbooked, HeldRun, HasKey, RowsOf, Returned
<1>4. Books
  BY <1>1, <1>2, <1>3 DEF Init, Books
<1>5. ASSUME NEW r \in Runs
      PROVE  /\ Charged(r) = 0 /\ Freed(r) = 0 /\ Repaid(r) = 0 /\ Open(r) = 0 /\ Excess(r) = 0
             /\ RowsOf("refund", r) = {}
  BY <1>3, NothingCharged DEF Unbooked
<1>6. Kept
  <2> SUFFICES ASSUME NEW r \in Runs PROVE KeptRun(r)
    BY DEF Kept
  <2>1. 0 <= AtLeastZero(P90[r] - 0)
    BY DEF AtLeastZero
  <2> QED
    BY <1>3, <1>5, <2>1 DEF KeptRun
<1>7. Work /\ Shares
  BY <1>1 DEF Init, Work, Shares, Alone, OneServes, NotCounted
<1>8. ASSUME NEW u \in Users
      PROVE  /\ wallet[u].held <= UserSum(Opens, u)
             /\ wallet[u].held + UserSum(Excesses, u) >= UserSum(Opens, u)
             /\ wallet[u].balance <= AtLeastZero(StarterBalance - wallet[u].spent) + UserSum(Repays, u)
  <2>1. IsFiniteSet(RunsOf(u)) /\ RunsOf(u) \subseteq Runs
    BY FS_Subset DEF RunsOf
  <2>2. PICK f : f = [r \in RunsOf(u) |-> 0]
    OBVIOUS
  <2>3. SumFunction(f) = 0
    BY <2>1, <2>2, SumOfZeros
  <2>4. \A r \in RunsOf(u) : Opens[r] = 0 /\ Excesses[r] = 0 /\ Repays[r] = 0
    BY <1>5, <2>1 DEF Opens, Excesses, Repays
  <2>5. UserSum(Opens, u) = 0 /\ UserSum(Excesses, u) = 0 /\ UserSum(Repays, u) = 0
    BY <2>2, <2>3, <2>4 DEF UserSum
  <2>6. wallet[u].held = 0 /\ wallet[u].balance = StarterBalance /\ wallet[u].spent = 0
    BY DEF Init, Starter
  <2>7. AtLeastZero(StarterBalance - 0) = StarterBalance
    BY DEF AtLeastZero
  <2> QED
    BY <2>5, <2>6, <2>7
<1> QED
  BY <1>4, <1>6, <1>7, <1>8, PaidInit DEF WorkInv, SumsInv, Sums

\* The invariant of the holds.
LEMMA WorkCorrect == Spec => []WorkInv
<1>1. WorkInv /\ [Next]_vars => WorkInv'
  BY WorkStep
<1> QED
  BY <1>1, WorkInit, PTL DEF Spec

-----------------------------------------------------------------------------
(***************************************************************************)
(* What follows for the wallets.                                           *)
(***************************************************************************)

\* A run that returned undisturbed has nothing left of its hold, and nothing
\* was refunded for it.
LEMMA CleanIsSettled ==
    ASSUME WorkInv, NEW r \in Runs, Clean(r)
    PROVE  Open(r) = 0 /\ Repaid(r) = 0
<1>1. KeptRun(r) /\ Returned(r)
  BY DEF WorkInv, Kept, Clean
<1>2. RowsOf("refund", r) = {} /\ RowsOf("consume", r) # {} /\ P90[r] <= Charged(r) + Freed(r)
  BY <1>1 DEF KeptRun
<1>3. ~Unbooked(r)
  BY <1>2 DEF Unbooked, RowsOf
<1>4. Placed(r) = P90[r] /\ P90[r] \in Nat
  BY <1>3, WorkFacts DEF Books
<1>5. Repaid(r) = 0
  BY <1>2, EmptyAmount DEF Repaid
<1>6. Charged(r) \in Nat /\ Freed(r) \in Nat
  BY WorkFacts, AmountsNat
<1> QED
  BY <1>2, <1>4, <1>5, <1>6 DEF Open, Taken, AtLeastZero

\* Nothing is taken beyond the hold of a run that does not overdraw.
LEMMA NoExcess ==
    ASSUME WorkInv, NEW r \in Runs, ~Overdraws(r)
    PROVE  Excess(r) = 0
<1>1. /\ Charged(r) \in Nat /\ Freed(r) \in Nat /\ Repaid(r) \in Nat /\ Placed(r) \in Nat
      /\ P90[r] \in Nat
  BY WorkFacts, AmountsNat
<1>2. CASE Unbooked(r)
  BY <1>2, NothingCharged DEF Unbooked
<1>3. CASE ~Unbooked(r)
  <2>1. Placed(r) = P90[r]
    BY <1>3, WorkFacts DEF Books
  <2>2. /\ r \notin disturbed /\ Charged(r) <= Placed(r)
        /\ Charged(r) = 0 \/ RowsOf("refund", r) = {}
    BY <1>1 DEF Overdraws
  <2>3. /\ Freed(r) <= AtLeastZero(P90[r] - Charged(r))
        /\ RowsOf("refund", r) # {} => Freed(r) = 0 /\ Repaid(r) <= P90[r]
    BY <2>2 DEF WorkInv, Kept, KeptRun
  <2>4. RowsOf("refund", r) = {} => Repaid(r) = 0
    BY EmptyAmount DEF Repaid
  <2>5. Charged(r) + Freed(r) <= Placed(r)
    BY <1>1, <2>1, <2>2, <2>3 DEF AtLeastZero
  <2>6. Taken(r) <= Placed(r)
    <3>1. CASE RowsOf("refund", r) = {}
      BY <1>1, <2>4, <2>5, <3>1 DEF Taken
    <3>2. CASE RowsOf("refund", r) # {}
      BY <1>1, <2>1, <2>2, <2>3, <3>2 DEF Taken
    <3> QED
      BY <3>1, <3>2
  <2> QED
    BY <1>1, <2>6 DEF Excess, Taken, AtLeastZero
<1> QED
  BY <1>2, <1>3

\* wallet.release in run_engine_v2: of the balance of a user only that is held
\* that is left of the holds of runs that have not returned, or that were
\* disturbed: by an overlapping engine, a repeated confirm or a lost wallet
\* call.  For every set of faults, and any number of engines and runs.
THEOREM BillingOnlyDisturbedLeak == Spec => []OnlyDisturbedLeak
<1>1. ASSUME WorkInv PROVE OnlyDisturbedLeak
  <2> SUFFICES ASSUME NEW u \in Users
               PROVE  wallet[u].held <=
                        SumFunction([r \in RunsOf(u) |-> IF Clean(r) THEN 0 ELSE Open(r)])
    BY DEF OnlyDisturbedLeak
  <2>1. \A r \in RunsOf(u) : (IF Clean(r) THEN 0 ELSE Open(r)) = Opens[r]
    BY <1>1, CleanIsSettled DEF RunsOf, Opens
  <2>2. [r \in RunsOf(u) |-> IF Clean(r) THEN 0 ELSE Open(r)] = [r \in RunsOf(u) |-> Opens[r]]
    BY <2>1
  <2> QED
    BY <1>1, <2>2 DEF WorkInv, SumsInv, Sums, UserSum
<1> QED
  BY <1>1, WorkCorrect, PTL

\* "held_ru >= sum(active_holds.hold_amount)": what is left of the holds of a
\* user's runs is held of his balance, but for what was taken beyond their own
\* holds for runs that were disturbed, cost more than their estimate or were
\* refunded after they had paid.  For every set of faults.
THEOREM BillingHoldsCovered == Spec => []HoldsCovered
<1>1. ASSUME WorkInv PROVE HoldsCovered
  <2> SUFFICES ASSUME NEW u \in Users
               PROVE  wallet[u].held
                        + SumFunction([r \in RunsOf(u) |-> IF Overdraws(r) THEN Excess(r) ELSE 0])
                          >= LiveHolds(u)
    BY DEF HoldsCovered
  <2>1. \A r \in RunsOf(u) : /\ (IF Overdraws(r) THEN Excess(r) ELSE 0) = Excesses[r]
                             /\ Open(r) = Opens[r]
    BY <1>1, NoExcess DEF RunsOf, Excesses, Opens
  <2>2. [r \in RunsOf(u) |-> IF Overdraws(r) THEN Excess(r) ELSE 0] =
          [r \in RunsOf(u) |-> Excesses[r]]
    BY <2>1
  <2>3. [r \in RunsOf(u) |-> Open(r)] = [r \in RunsOf(u) |-> Opens[r]]
    BY <2>1
  <2> QED
    BY <1>1, <2>2, <2>3 DEF WorkInv, SumsInv, Sums, UserSum, LiveHolds
<1> QED
  BY <1>1, WorkCorrect, PTL

\* wallet.refund: a user has no more than what he has not spent of the starter
\* balance but for refunds, and only of runs that did not return, or that were
\* disturbed.  For every set of faults.
THEOREM BillingNothingMinted == Spec => []NothingMinted
<1>1. ASSUME WorkInv PROVE NothingMinted
  <2> SUFFICES ASSUME NEW u \in Users
               PROVE  wallet[u].balance <=
                        AtLeastZero(StarterBalance - wallet[u].spent)
                          + SumFunction([r \in RunsOf(u) |-> IF Clean(r) THEN 0 ELSE Repaid(r)])
    BY DEF NothingMinted
  <2>1. \A r \in RunsOf(u) : (IF Clean(r) THEN 0 ELSE Repaid(r)) = Repays[r]
    BY <1>1, CleanIsSettled DEF RunsOf, Repays
  <2>2. [r \in RunsOf(u) |-> IF Clean(r) THEN 0 ELSE Repaid(r)] = [r \in RunsOf(u) |-> Repays[r]]
    BY <2>1
  <2> QED
    BY <1>1, <2>2 DEF WorkInv, SumsInv, Sums, UserSum
<1> QED
  BY <1>1, WorkCorrect, PTL

=============================================================================
