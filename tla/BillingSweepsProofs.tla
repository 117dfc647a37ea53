------------------------ MODULE BillingSweepsProofs ------------------------
(***************************************************************************)
(* ProrationExact for any prices, any length of a billing period and any   *)
(* moment of a change: half-up rounding of a product of two integers, and  *)
(* the plans of subscription rows, from which the prices come.             *)
(***************************************************************************)
EXTENDS BillingSweeps, TLAPS

\* The rows whose plans are compared.
IInv == sub \in [Tenants -> SubRow] /\ ProrationExact

----------------------------------------------------------------------------
(* Arithmetic.                                                             *)

\* What integer division returns.
LEMMA Division ==
    ASSUME NEW n \in Nat, NEW d \in Nat \ {0}
    PROVE  /\ n \div d \in Nat
           /\ d * (n \div d) <= n
           /\ n < d * (n \div d) + d
  OBVIOUS

\* Products keep the order of their first factors.
LEMMA Products ==
    ASSUME NEW a \in Nat, NEW b \in Nat, NEW c \in Nat, a <= b
    PROVE  a * c \in Nat /\ a * c <= b * c
  OBVIOUS

\* The nearest whole number of Lengths to d times left, and no more than d.
LEMMA Nearest ==
    ASSUME NEW d \in Nat, NEW left \in 0..Length
    PROVE  LET q == (2 * (d * left) + Length) \div (2 * Length)
           IN  /\ q \in Nat /\ q <= d
               /\ -Length < 2 * (q * Length - d * left) /\ 2 * (q * Length - d * left) <= Length
<1> DEFINE n == d * left
           q == (2 * n + Length) \div (2 * Length)
<1>1. Length \in Nat /\ Length > 0
  BY PeriodHasLength
<1>2. n \in Nat /\ n <= d * Length
  <2>1. left \in Nat /\ left <= Length
    BY <1>1
  <2> QED
    BY <1>1, <2>1, Products
<1> HIDE DEF n
<1>3. 2 * n + Length \in Nat /\ 2 * Length \in Nat \ {0}
  BY <1>1, <1>2
<1>4. /\ q \in Nat
      /\ (2 * Length) * q <= 2 * n + Length
      /\ 2 * n + Length < (2 * Length) * q + 2 * Length
  BY <1>3, Division
<1> HIDE DEF q
<1>5. (2 * Length) * q = 2 * (q * Length) /\ q * Length \in Nat
  BY <1>1, <1>4
<1>6. -Length < 2 * (q * Length - n) /\ 2 * (q * Length - n) <= Length
  BY <1>1, <1>2, <1>4, <1>5
<1>7. q <= d
  <2> SUFFICES ASSUME d + 1 <= q PROVE FALSE
    BY <1>4
  <2>1. (d + 1) * Length <= q * Length
    BY <1>1, <1>4, Products
  <2>2. (d + 1) * Length = d * Length + Length
    BY <1>1
  <2> DEFINE x == q * Length
             y == d * Length
  <2>3. x \in Nat /\ y \in Nat /\ y + Length <= x /\ n <= y /\ 2 * (x - n) <= Length
    BY <1>1, <1>2, <1>5, <1>6, <2>1, <2>2
  <2> HIDE DEF x, y
  <2> QED
    BY <1>1, <1>2, <2>3
<1> QED
  BY <1>4, <1>6, <1>7 DEF n, q

\* What is recorded is exact, whatever the difference and the moment.
LEMMA NetExact ==
    ASSUME NEW delta \in Int, NEW left \in 0..Length
    PROVE  LET amount == Net(delta, left)
           IN  /\ amount \in Int
               /\ Abs(amount) <= Abs(delta) /\ amount * delta >= 0
               /\ -Length < 2 * (Abs(amount) * Length - Abs(delta) * left)
               /\ 2 * (Abs(amount) * Length - Abs(delta) * left) <= Length
<1> DEFINE d == Abs(delta)
           q == (2 * (d * left) + Length) \div (2 * Length)
           amount == Net(delta, left)
<1>1. Length \in Nat /\ Length > 0 /\ left \in Nat
  BY PeriodHasLength
<1>2. d \in Nat /\ (delta >= 0 => d = delta) /\ (delta < 0 => d = -delta)
  BY DEF Abs
<1> HIDE DEF d
<1>3. /\ q \in Nat /\ q <= d
      /\ -Length < 2 * (q * Length - d * left) /\ 2 * (q * Length - d * left) <= Length
  BY <1>2, Nearest
<1>4. CASE delta >= 0
  <2>1. delta * left >= 0 /\ delta * left = d * left
    BY <1>1, <1>2, <1>4
  <2>2. amount = q
    BY <1>1, <2>1 DEF Net, Rounded
  <2> HIDE DEF q, amount
  <2>3. Abs(amount) = q /\ amount * delta >= 0
    BY <1>2, <1>3, <1>4, <2>2 DEF Abs
  <2> QED
    BY <1>3, <2>2, <2>3 DEF amount, d
<1>5. CASE delta < 0 /\ left > 0
  <2>1. delta * left < 0 /\ delta * left = -(d * left) /\ d * left \in Nat
    BY <1>1, <1>2, <1>5
  <2>2. Length - 2 * (delta * left) = 2 * (d * left) + Length
    BY <1>1, <2>1
  <2>3. amount = -q
    BY <1>1, <2>1, <2>2 DEF Net, Rounded
  <2> HIDE DEF q, amount
  <2>4. Abs(amount) = q /\ amount * delta >= 0
    BY <1>2, <1>3, <1>5, <2>3 DEF Abs
  <2> QED
    BY <1>3, <2>3, <2>4 DEF amount, d
<1>6. CASE delta < 0 /\ left = 0
  <2>1. delta * left = 0 /\ d * left = 0
    BY <1>1, <1>2, <1>6
  <2>2. amount = q
    BY <1>1, <2>1 DEF Net, Rounded
  <2>3. q = 0
    <3> HIDE DEF q
    <3>1. q = 0 \/ q * Length >= Length
      BY <1>1, <1>3
    <3> QED
      BY <1>1, <1>3, <2>1, <3>1
  <2> HIDE DEF q, amount
  <2>4. Abs(amount) = q /\ amount * delta >= 0
    BY <1>2, <1>3, <2>2, <2>3 DEF Abs
  <2> QED
    BY <1>3, <2>2, <2>4 DEF amount, d
<1> QED
  BY <1>1, <1>4, <1>5, <1>6

\* What is left of a period is between nothing and all of it.
LEMMA RemainingType ==
    ASSUME NEW now \in Int
    PROVE  Remaining(now) \in 0..Length
  BY PeriodHasLength DEF Remaining, Lesser, Clamp

----------------------------------------------------------------------------
(* Every step keeps the invariant.                                         *)

\* A new record is exact.
LEMMA RecordExact ==
    ASSUME ProrationExact, NEW from \in Plans, NEW to \in Plans, NEW now \in Int, RecordFor(from, to, now)
    PROVE  ProrationExact'
<1>1. CASE prorated' = prorated
  BY <1>1 DEF ProrationExact
<1>2. CASE prorated' # prorated
  <2> DEFINE delta == Price[to] - Price[from]
             left == Remaining(now)
             amount == Net(delta, left)
  <2>1. delta \in Int
    BY PricesAreAmounts
  <2>2. left \in 0..Length
    BY RemainingType
  <2>3. prorated' = Proration(delta, left, amount)
    BY <1>2 DEF RecordFor
  <2> HIDE DEF delta, left
  <2>4. /\ Abs(amount) <= Abs(delta) /\ amount * delta >= 0
        /\ -Length < 2 * (Abs(amount) * Length - Abs(delta) * left)
        /\ 2 * (Abs(amount) * Length - Abs(delta) * left) <= Length
    BY <2>1, <2>2, NetExact
  <2> HIDE DEF amount
  <2>5. prorated'.delta = delta /\ prorated'.left = left /\ prorated'.amount = amount
    BY <2>3 DEF Proration
  <2>6. left >= 0
    BY <2>2, PeriodHasLength
  <2> QED
    BY <2>4, <2>5, <2>6 DEF ProrationExact
<1> QED
  BY <1>1, <1>2

\* The parts of a subscription row.
LEMMA RowParts ==
    ASSUME NEW r \in SubRow
    PROVE  /\ r.status # "NONE" => r.linked \in BOOLEAN /\ r.period \in 1..MaxPeriod /\ r.plan \in Plans /\ r.status \in Statuses
           /\ NoSub.status = "NONE" /\ (r # NoSub => r.status \in Statuses)
  BY DEF SubRow, NoSub, Sub, Statuses

\* A row written from its parts.
LEMMA MadeRow ==
    ASSUME NEW s \in Statuses, NEW b \in BOOLEAN, NEW p \in 1..MaxPeriod, NEW plan \in Plans
    PROVE  Sub(s, b, p, plan) \in SubRow
  BY DEF SubRow, Sub

\* Steps of workspaces and their subscriptions.
LEMMA Changings ==
    ASSUME IInv, NEW t \in Tenants, Changing(t)
    PROVE  IInv'
<1> USE DEF IInv
<1>1. sub[t] \in SubRow
  OBVIOUS
<1>2. CASE \E plan \in Plans, linked \in BOOLEAN, s \in {"TRIALING", "ACTIVE"} : Subscribe(t, s, linked, plan)
  <2> PICK plan \in Plans, linked \in BOOLEAN, s \in {"TRIALING", "ACTIVE"} : Subscribe(t, s, linked, plan)
    BY <1>2
  <2>1. 1 \in 1..MaxPeriod
    BY BoundsAreNumbers
  <2>2. Sub(s, linked, 1, plan) \in SubRow
    BY <2>1, MadeRow DEF Statuses
  <2> QED
    BY <2>2 DEF Subscribe, ProrationExact
<1>3. CASE \E s \in Statuses : Moves(t, s)
  <2> PICK s \in Statuses : Moves(t, s)
    BY <1>3
  <2>1. Sub(s, sub[t].linked, sub[t].period, sub[t].plan) \in SubRow
    BY <1>1, RowParts, MadeRow DEF Moves, Statuses
  <2> QED
    BY <2>1 DEF Moves, ProrationExact
<1>4. CASE Renews(t)
  <2>1. sub[t].period + 1 \in 1..MaxPeriod
    BY <1>1, <1>4, RowParts, BoundsAreNumbers DEF Renews
  <2>2. Sub("ACTIVE", sub[t].linked, sub[t].period + 1, sub[t].plan) \in SubRow
    BY <1>1, <1>4, <2>1, RowParts, MadeRow DEF Renews, Statuses
  <2> QED
    BY <1>4, <2>2 DEF Renews, ProrationExact
<1>5. CASE \E n \in 1..MaxSeats : SeatsChange(t, n)
  BY <1>5 DEF SeatsChange, ProrationExact
<1>6. CASE \E answer \in Answers : RemoteMoves(t, answer)
  BY <1>6 DEF RemoteMoves, ProrationExact
<1>7. CASE \E to \in Plans, now \in -1..(Length + 1) : ChangePlan(t, to, now)
  <2> PICK to \in Plans, now \in -1..(Length + 1) : ChangePlan(t, to, now)
    BY <1>7
  <2>1. now \in Int
    BY PeriodHasLength
  <2>2. sub[t].plan \in Plans /\ Sub(sub[t].status, sub[t].linked, sub[t].period, to) \in SubRow
    BY <1>1, RowParts, MadeRow DEF ChangePlan
  <2>3. sub' = [sub EXCEPT ![t] = Sub(sub[t].status, sub[t].linked, sub[t].period, to)]
        /\ RecordFor(sub[t].plan, to, now)
    BY DEF ChangePlan
  <2>4. ProrationExact'
    BY <2>1, <2>2, <2>3, RecordExact
  <2> QED
    BY <2>2, <2>3, <2>4
<1> QED
  BY <1>2, <1>3, <1>4, <1>5, <1>6, <1>7 DEF Changing

\* The sweeps write neither subscriptions nor prorations.
LEMMA Sweeps ==
    ASSUME IInv, (\E w \in Workers : Sweep(w)) \/ UNCHANGED vars
    PROVE  IInv'
<1>1. UNCHANGED <<sub, prorated>>
  BY DEF Sweep, Continue, Finish, InsertSnapshot, ReadPeriod, Reconcile, Dies, Start, Unavailable,
         vars, tenantVars
<1> QED
  BY <1>1 DEF IInv, ProrationExact

\* No plan has changed yet.
LEMMA InitIInv == Init => IInv
<1> SUFFICES ASSUME Init PROVE IInv
  OBVIOUS
<1>1. prorated.delta = 0 /\ prorated.left = 0 /\ prorated.amount = 0
  BY DEF Init, Proration
<1>2. ProrationExact
  BY <1>1, PeriodHasLength DEF ProrationExact, Abs
<1> QED
  BY <1>2 DEF Init, IInv, SubRow

\* Every step keeps the invariant.
LEMMA NextIInv == IInv /\ [Next]_vars => IInv'
<1> SUFFICES ASSUME IInv, [Next]_vars PROVE IInv'
  OBVIOUS
<1> QED
  BY Changings, Sweeps DEF Next

\* Every proration recorded is the nearest cent, whatever the prices, the
\* length of the period and the moment of the change.
THEOREM SpecProrationExact == Spec => []ProrationExact
<1>1. IInv => ProrationExact
  BY DEF IInv
<1> QED
  BY <1>1, InitIInv, NextIInv, PTL DEF Spec
=============================================================================
