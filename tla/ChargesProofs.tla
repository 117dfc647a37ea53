--------------------------- MODULE ChargesProofs ---------------------------
(***************************************************************************)
(* TypeOK, NegativeOnlyIfTorn, OneRateADay, CorrectionsTelescope and       *)
(* BillBalances, for any month, readings, rates, multipliers, keys and     *)
(* requests, and that the bill implements BillAccount.                     *)
(*                                                                         *)
(* Readings: they rise with the days, because each is compared with its    *)
(* nearest neighbours.  Tariffs: they are a chain, each ends where the     *)
(* next begins.  The bill: what is paid is a sum over the keys, and a      *)
(* step changes one of its terms.                                          *)
(***************************************************************************)
EXTENDS Charges, FiniteSetTheorems, WellFoundedInduction, TLAPS

----------------------------------------------------------------------------
(* Least elements.                                                         *)

\* Among natural numbers one is least.
LEMMA LeastNat ==
    ASSUME NEW T \in SUBSET Nat, T # {}
    PROVE  \E n \in T : \A m \in T : n <= m
<1>1. PICK n \in T : \A m \in T : ~(<<m, n>> \in OpToRel(<, Nat))
  BY NatLessThanWellFounded, WFMin
<1>2. \A m \in T : ~(m < n)
  BY <1>1 DEF OpToRel
<1>3. QED
  BY <1>2

\* A set of days has a first and a last.
LEMMA FirstAndLast ==
    ASSUME NEW T \in SUBSET Days, T # {}
    PROVE  /\ Max(T) \in T /\ \A d \in T : d <= Max(T)
           /\ Min(T) \in T /\ \A d \in T : Min(T) <= d
<1>1. LastDay \in Nat /\ T \subseteq Nat /\ \A d \in T : d <= LastDay
  BY CalendarFits DEF Days
<1>2. PICK m \in T : \A d \in T : m <= d
  BY <1>1, LeastNat
<1>3. \E x \in T : \A d \in T : x >= d
  <2> DEFINE U == {LastDay - d : d \in T}
  <2>1. U \in SUBSET Nat /\ U # {}
    BY <1>1
  <2>2. PICK u \in U : \A v \in U : u <= v
    BY <2>1, LeastNat
  <2>3. PICK x \in T : u = LastDay - x
    BY <2>2
  <2>4. \A d \in T : LastDay - x <= LastDay - d
    BY <2>2, <2>3
  <2>5. QED
    BY <2>4, <1>1
<1>4. Max(T) \in T /\ \A d \in T : Max(T) >= d
  BY <1>3 DEF Max
<1>5. Min(T) \in T /\ \A d \in T : Min(T) <= d
  BY <1>2 DEF Min
<1>6. QED
  BY <1>4, <1>5, <1>1

----------------------------------------------------------------------------
(* Sums over a finite set.  SumFunctionOnSet is defined by recursion over    *)
(* the subsets; that the recursion has a solution, and what the sum is, are  *)
(* shown by taking a smallest counterexample.                                *)

Pick(s) == CHOOSE x \in s : TRUE
Step(f, g, s) == IF s = {} THEN 0 ELSE f[Pick(s)] + g[s \ {Pick(s)}]
Adds(f, S, g) == g = [s \in S |-> Step(f, g, s)]

\* Choosing from a set that is not empty.
LEMMA Picked == ASSUME NEW s, s # {} PROVE Pick(s) \in s
  BY DEF Pick

\* The sum is what a function that adds up element by element says of the set.
LEMMA SumIsChosen ==
    ASSUME NEW f, NEW S
    PROVE  SumFunctionOnSet(f, S) = (CHOOSE g : Adds(f, SUBSET S, g))[S]
  BY DEF SumFunctionOnSet, FoldFunctionOnSet, MapThenFoldSet, Adds, Step, Pick

\* Among subsets of a finite set one is smallest.
LEMMA LeastSubset ==
    ASSUME NEW S, IsFiniteSet(S), NEW T \in SUBSET (SUBSET S), T # {}
    PROVE  \E s \in T : \A t \in T : ~(t \subseteq s /\ t # s)
<1>1. IsWellFoundedOn(StrictSubsetOrdering(S), SUBSET S)
  BY FS_StrictSubsetOrderingWellFounded, FS_FiniteSubsetsOfFinite
<1>2. PICK s \in T : \A t \in T : ~(<<t, s>> \in StrictSubsetOrdering(S))
  BY <1>1, WFMin
<1>3. ASSUME NEW t \in T, t \subseteq s, t # s
      PROVE  <<t, s>> \in StrictSubsetOrdering(S)
  BY <1>3 DEF StrictSubsetOrdering
<1>4. \A t \in T : ~(t \subseteq s /\ t # s)
  BY <1>2, <1>3
<1>5. QED
  BY <1>4

\* There is such a function: it is built up by the size of the sets.
LEMMA SumsExist ==
    ASSUME NEW S, IsFiniteSet(S), NEW f
    PROVE  \E g : Adds(f, SUBSET S, g)
<1> DEFINE Small(n) == {s \in SUBSET S : Cardinality(s) <= n}
           Bad == {n \in Nat : ~\E g : Adds(f, Small(n), g)}
<1>1. \A s \in SUBSET S : IsFiniteSet(s) /\ Cardinality(s) \in Nat /\ Cardinality(s) <= Cardinality(S)
  BY FS_Subset, FS_CardinalityType
<1>2. Bad = {}
  <2>1. SUFFICES ASSUME NEW n \in Bad, \A m \in Bad : n <= m PROVE FALSE
    BY LeastNat
  <2>2. PICK g : n # 0 => Adds(f, Small(n - 1), g)
    <3>1. CASE n = 0
      BY <3>1
    <3>2. CASE n # 0
      <4>1. n - 1 \in Nat /\ ~(n <= n - 1)
        BY <3>2
      <4>2. n - 1 \notin Bad
        <5> HIDE DEF Bad
        <5>1. QED
          BY <4>1, <2>1
      <4>3. \E g : Adds(f, Small(n - 1), g)
        BY <4>1, <4>2
      <4>4. QED
        BY <4>3
    <3>3. QED
      BY <3>1, <3>2
  <2> DEFINE h == [s \in Small(n) |-> Step(f, g, s)]
  <2>3. ASSUME NEW s \in Small(n) PROVE Step(f, g, s) = Step(f, h, s)
    <3>1. CASE s = {}
      BY <3>1 DEF Step
    <3>2. CASE s # {}
      <4> DEFINE r == s \ {Pick(s)}
      <4>1. r \in SUBSET S /\ Cardinality(r) = Cardinality(s) - 1 /\ Cardinality(s) # 0
        BY <1>1, <3>2, Picked, FS_RemoveElement, FS_EmptySet
      <4>2. n # 0 /\ r \in Small(n - 1) /\ r \in Small(n)
        BY <4>1, <1>1
      <4>3. g[r] = Step(f, g, r)
        BY <4>2, <2>2 DEF Adds
      <4>4. h[r] = Step(f, g, r)
        BY <4>2
      <4>5. QED
        BY <4>3, <4>4, <3>2 DEF Step
    <3>3. QED
      BY <3>1, <3>2
  <2>4. Adds(f, Small(n), h)
    BY <2>3 DEF Adds
  <2>5. QED
    BY <2>1, <2>4
<1>3. Cardinality(S) \in Nat /\ Small(Cardinality(S)) = SUBSET S
  BY <1>1, FS_CardinalityType
<1>4. QED
  BY <1>2, <1>3

\* Two functions that differ at one place have sums that differ as much.
LEMMA SumChanges ==
    ASSUME NEW S, IsFiniteSet(S), NEW f \in [S -> Int], NEW g \in [S -> Int],
           NEW k \in S, \A j \in S \ {k} : g[j] = f[j]
    PROVE  /\ SumFunctionOnSet(f, S) \in Int
           /\ f \in [S -> Nat] => SumFunctionOnSet(f, S) \in Nat
           /\ SumFunctionOnSet(g, S) = SumFunctionOnSet(f, S) + g[k] - f[k]
<1>1. PICK F : Adds(f, SUBSET S, F) /\ SumFunctionOnSet(f, S) = F[S]
  BY SumsExist, SumIsChosen
<1>2. PICK G : Adds(g, SUBSET S, G) /\ SumFunctionOnSet(g, S) = G[S]
  BY SumsExist, SumIsChosen
<1> DEFINE Good(s) == /\ F[s] \in Int
                      /\ f \in [S -> Nat] => F[s] \in Nat
                      /\ G[s] = F[s] + (IF k \in s THEN g[k] - f[k] ELSE 0)
           Bad == {s \in SUBSET S : ~Good(s)}
<1>3. Bad = {}
  <2>1. SUFFICES ASSUME Bad # {} PROVE FALSE
    OBVIOUS
  <2>2. PICK s \in Bad : \A t \in Bad : ~(t \subseteq s /\ t # s)
    <3>1. Bad \subseteq SUBSET S
      OBVIOUS
    <3> HIDE DEF Bad
    <3>2. QED
      BY <2>1, <3>1, LeastSubset
  <2>3. F[s] = Step(f, F, s) /\ G[s] = Step(g, G, s)
    BY <1>1, <1>2 DEF Adds
  <2>4. CASE s = {}
    BY <2>3, <2>4 DEF Step
  <2>5. CASE s # {}
    <3> DEFINE r == s \ {Pick(s)}
    <3>1. Pick(s) \in s /\ r \in SUBSET S
      BY <2>5, Picked
    <3>2. Good(r)
      <4>1. r \subseteq s /\ r # s
        BY <3>1
      <4>2. r \notin Bad
        <5> HIDE DEF Bad
        <5>1. QED
          BY <4>1, <2>2
      <4>3. QED
        BY <4>2, <3>1
    <3>3. F[s] = f[Pick(s)] + F[r] /\ G[s] = g[Pick(s)] + G[r]
      BY <2>3, <2>5 DEF Step
    <3>4. Good(s)
      BY <3>1, <3>2, <3>3
    <3>5. QED
      BY <3>4
  <2>6. QED
    BY <2>4, <2>5
<1>4. QED
  BY <1>1, <1>2, <1>3

\* A sum of zeros.
LEMMA SumOfZeros ==
    ASSUME NEW S, IsFiniteSet(S), NEW f, \A k \in S : f[k] = 0
    PROVE  SumFunctionOnSet(f, S) = 0
<1>1. PICK F : Adds(f, SUBSET S, F) /\ SumFunctionOnSet(f, S) = F[S]
  BY SumsExist, SumIsChosen
<1> DEFINE Bad == {s \in SUBSET S : F[s] # 0}
<1>2. Bad = {}
  <2>1. SUFFICES ASSUME Bad # {} PROVE FALSE
    OBVIOUS
  <2>2. PICK s \in Bad : \A t \in Bad : ~(t \subseteq s /\ t # s)
    <3>1. Bad \subseteq SUBSET S
      OBVIOUS
    <3> HIDE DEF Bad
    <3>2. QED
      BY <2>1, <3>1, LeastSubset
  <2>3. s # {} /\ F[s] = f[Pick(s)] + F[s \ {Pick(s)}]
    BY <1>1, <2>2 DEF Adds, Step
  <2>4. F[s \ {Pick(s)}] = 0 /\ Pick(s) \in S
    BY <2>2, <2>3, Picked
  <2>5. QED
    BY <2>2, <2>3, <2>4
<1>3. QED
  BY <1>1, <1>2

----------------------------------------------------------------------------
(* The invariant.                                                          *)

\* The meter never runs backwards.
Rising ==
    \A d, e \in Days :
        d <= e /\ reading[d] # None /\ reading[e] # None => reading[d] <= reading[e]

\* Each tariff ends before the next begins, and the day before unless it is the last.
Chain ==
    /\ \A t \in tariff : t.from <= t.to /\ (t.to = Open \/ \E s \in tariff : s.from = t.to + 1)
    /\ \A s, t \in tariff : s.from < t.from => s.to < t.from
    /\ \A s, t \in tariff : s.from = t.from => s = t

\* What is billed, corrected and paid.
Ledger ==
    /\ BillBalances
    /\ CorrectionsTelescope
    /\ \A k \in Keys : payment[k].status = "COMPLETED" => Issued
    /\ bill.status \in {"NONE", "DRAFT"} =>
           bill.paid = 0 /\ correction.readings = 0 /\ correction.adjusted = 0

IInv == TypeOK /\ Rising /\ Chain /\ Ledger

----------------------------------------------------------------------------
(* Readings.                                                               *)

\* The days of the two months.
LEMMA Calendar ==
    /\ FirstDay \in Nat /\ LastDay \in Nat /\ Days \subseteq Nat
    /\ Month \subseteq Days /\ LastDay \in Month
    /\ Open \in Nat /\ \A d \in Days : d < Open
  BY CalendarFits DEF Days, Month, Open

\* What was read is a value.
LEMMA ReadValues ==
    ASSUME TypeOK, NEW S \in SUBSET Days
    PROVE  /\ Read(S) \in SUBSET S
           /\ \A d \in Read(S) : reading[d] \in Values
  BY DEF TypeOK, Read

\* A reading no neighbour contradicts contradicts none.
LEMMA RisesEverywhere ==
    ASSUME TypeOK, Rising, NEW d \in Days, NEW v \in Values, Rises(d, v)
    PROVE  /\ \A e \in Days : e < d /\ reading[e] # None => reading[e] <= v
           /\ \A e \in Days : d < e /\ reading[e] # None => v <= reading[e]
<1>1. ASSUME NEW e \in Days, e < d, reading[e] # None
      PROVE  reading[e] <= v
  <2>1. e \in Before(d) /\ Before(d) \in SUBSET Days
    BY <1>1, CalendarFits DEF Before, Read, Days
  <2>2. Max(Before(d)) \in Before(d) /\ e <= Max(Before(d))
    BY <2>1, FirstAndLast
  <2>3. reading[Max(Before(d))] <= v /\ reading[Max(Before(d))] # None
    BY <2>1, <2>2 DEF Rises, Before, Read
  <2>4. reading[e] <= reading[Max(Before(d))]
    BY <1>1, <2>1, <2>2, <2>3 DEF Rising
  <2>5. reading[e] \in Values /\ reading[Max(Before(d))] \in Values
    BY <1>1, <2>1, <2>2, <2>3 DEF TypeOK
  <2>6. QED
    BY <2>3, <2>4, <2>5, BoundsAreNumbers DEF Values
<1>2. ASSUME NEW e \in Days, d < e, reading[e] # None
      PROVE  v <= reading[e]
  <2>1. e \in After(d) /\ After(d) \in SUBSET Days
    BY <1>2, CalendarFits DEF After, Read, Days
  <2>2. Min(After(d)) \in After(d) /\ Min(After(d)) <= e
    BY <2>1, FirstAndLast
  <2>3. v <= reading[Min(After(d))] /\ reading[Min(After(d))] # None
    BY <2>1, <2>2 DEF Rises, After, Read
  <2>4. reading[Min(After(d))] <= reading[e]
    BY <1>2, <2>1, <2>2, <2>3 DEF Rising
  <2>5. reading[e] \in Values /\ reading[Min(After(d))] \in Values
    BY <1>2, <2>1, <2>2, <2>3 DEF TypeOK
  <2>6. QED
    BY <2>3, <2>4, <2>5, BoundsAreNumbers DEF Values
<1>3. QED
  BY <1>1, <1>2

\* Nothing that was billed changes with a reading, a meter or a tariff.
LEMMA LedgerKept ==
    ASSUME Ledger, UNCHANGED ledgerVars
    PROVE  Ledger'
  BY DEF Ledger, BillBalances, CorrectionsTelescope, Issued, Paid, Recorded, Total, TotalOf,
         Charge, Settled, Bill, ledgerVars

\* The meter's own changes.
LEMMA MeterSteps ==
    ASSUME IInv, NEW m \in Multipliers, NEW active \in BOOLEAN,
           CreateMeter(m) \/ UpdateMeter(active, m)
    PROVE  IInv'
<1>1. meter' \in MeterRow
  <2>1. [active |-> TRUE, multiplier |-> m] \in MeterRow
    BY DEF MeterRow
  <2>2. [active |-> active, multiplier |-> m] \in MeterRow
    BY Zenon DEF MeterRow
  <2>3. QED
    BY <2>1, <2>2, Zenon DEF CreateMeter, UpdateMeter, Meter
<1>2. UNCHANGED <<reading, tariff, ledgerVars, job>>
  BY DEF CreateMeter, UpdateMeter
<1>3. TypeOK'
  BY <1>1, <1>2 DEF IInv, TypeOK, ledgerVars
<1>4. Rising' /\ Chain'
  BY <1>2 DEF IInv, Rising, Chain
<1>5. QED
  BY <1>2, <1>3, <1>4, LedgerKept DEF IInv

\* Entering and correcting a reading.
LEMMA ReadingSteps ==
    ASSUME IInv, NEW d \in Days, NEW v \in Values, RecordReading(d, v) \/ CorrectMeter(d, v)
    PROVE  IInv'
<1>1. /\ Rises(d, v) /\ reading' = [reading EXCEPT ![d] = v]
      /\ UNCHANGED <<meter, tariff, ledgerVars, job>>
  BY DEF RecordReading, CorrectMeter
<1>2. TypeOK'
  BY <1>1 DEF IInv, TypeOK, ledgerVars
<1>3. Rising'
  <2> SUFFICES ASSUME NEW e \in Days, NEW f \in Days, e <= f,
                      reading'[e] # None, reading'[f] # None
               PROVE  reading'[e] <= reading'[f]
    BY DEF Rising
  <2>1. reading \in [Days -> Values \cup {None}]
    BY DEF IInv, TypeOK
  <2>2. CASE e # d /\ f # d
    BY <1>1, <2>1, <2>2 DEF IInv, Rising
  <2>3. CASE e = d /\ f = d
    BY <1>1, <2>1, <2>3, BoundsAreNumbers DEF Values
  <2>4. CASE e = d /\ f # d
    BY <1>1, <2>1, <2>4, RisesEverywhere, Calendar DEF IInv
  <2>5. CASE e # d /\ f = d
    BY <1>1, <2>1, <2>5, RisesEverywhere, Calendar DEF IInv
  <2>6. QED
    BY <2>2, <2>3, <2>4, <2>5
<1>4. Chain'
  BY <1>1 DEF IInv, Chain
<1>5. QED
  BY <1>1, <1>2, <1>3, <1>4, LedgerKept DEF IInv

----------------------------------------------------------------------------
(* Tariffs.                                                                *)

\* The days of a tariff.
LEMMA TariffDates ==
    ASSUME TypeOK, NEW t \in tariff
    PROVE  /\ t \in TariffRow /\ t.from \in Days /\ t.from \in Nat
           /\ t.to \in Nat /\ t.to <= Open
<1>1. t \in TariffRow
  BY DEF TypeOK
<1>2. t.from \in Days /\ t.to \in Days \cup {Open}
  BY <1>1 DEF TariffRow
<1>3. Open \in Nat /\ \A d \in Days : d \in Nat /\ d < Open
  BY CalendarFits DEF Open, Days
<1>4. QED
  BY <1>1, <1>2, <1>3

\* Two tariffs are not in force on one day.
LEMMA OneInForce ==
    ASSUME TypeOK, Chain, NEW d \in Days, NEW s \in InForce(d), NEW t \in InForce(d)
    PROVE  s = t
<1>1. /\ s \in tariff /\ t \in tariff
      /\ s.from <= d /\ d <= s.to /\ t.from <= d /\ d <= t.to
  BY DEF InForce
<1>2. /\ s.from \in Nat /\ s.to \in Nat /\ t.from \in Nat /\ t.to \in Nat /\ d \in Nat
  BY <1>1, TariffDates, Calendar
<1>3. ~(s.from < t.from) /\ ~(t.from < s.from)
  BY <1>1, <1>2 DEF Chain
<1>4. QED
  BY <1>1, <1>2, <1>3 DEF Chain

\* From the first tariff on one is in force.
LEMMA SomeInForce ==
    ASSUME TypeOK, Chain, NEW d \in Days, NEW s \in tariff, s.from <= d
    PROVE  InForce(d) # {}
<1> DEFINE begun == {e \in Days : e <= d /\ \E t \in tariff : t.from = e}
<1>1. s.from \in begun
  BY DEF TypeOK, TariffRow
<1>2. Max(begun) \in begun /\ \A e \in begun : e <= Max(begun)
  BY <1>1, FirstAndLast
<1>3. PICK t \in tariff : t.from = Max(begun)
  BY <1>2
<1>4. /\ t.from \in Days /\ t.from \in Nat /\ t.to \in Nat /\ d \in Nat
      /\ t.from <= d /\ d < Open /\ Open \in Nat
  BY <1>2, <1>3, TariffDates, Calendar
<1>5. d <= t.to
  <2>1. CASE t.to = Open
    BY <2>1, <1>4
  <2>2. CASE t.to # Open
    <3>1. PICK r \in tariff : r.from = t.to + 1
      BY <2>2 DEF Chain
    <3>2. r.from \in Days /\ r.from \in Nat /\ t.from <= t.to
      BY <3>1, TariffDates DEF Chain
    <3>3. ~(r.from <= t.from)
      BY <1>4, <3>1, <3>2
    <3>4. r.from \notin begun
      BY <1>2, <1>3, <3>3
    <3>5. ~(r.from <= d)
      BY <3>1, <3>2, <3>4
    <3>6. QED
      BY <1>4, <3>1, <3>5
  <2>3. QED
    BY <2>1, <2>2
<1>6. QED
  BY <1>4, <1>5 DEF InForce

\* The tariff a bill is made at exists.
LEMMA ApplicableExists ==
    ASSUME TypeOK, Chain, NEW d \in Days, InForce(d) # {}
    PROVE  Applicable(d) \in InForce(d)
<1>1. PICK t \in InForce(d) : TRUE
  OBVIOUS
<1>2. \A s \in InForce(d) : s.from <= t.from
  <2> SUFFICES ASSUME NEW s \in InForce(d) PROVE s.from <= t.from
    OBVIOUS
  <2>1. s = t
    BY OneInForce
  <2>2. t.from \in Nat
    BY Calendar DEF InForce, TypeOK, TariffRow
  <2>3. QED
    BY <2>1, <2>2
<1>3. QED
  BY <1>2 DEF Applicable

\* A new tariff closes the chain's last link.
LEMMA TariffStep ==
    ASSUME IInv, NEW from \in TariffDays, NEW rate \in Rates, CreateTariff(from, rate)
    PROVE  IInv'
<1> DEFINE Rest(t) == IF Latest(t) /\ t.to >= from THEN Closed(t, from) ELSE t
           new == [from |-> from, to |-> Open, rate |-> rate]
<1>1. /\ \A t \in tariff : t.from < from
      /\ tariff' = {Rest(t) : t \in tariff} \cup {new}
      /\ UNCHANGED <<meter, reading, ledgerVars, job>>
  BY DEF CreateTariff
<1>2. from \in Days /\ from \in Nat /\ from < Open /\ Open \in Nat
  BY TariffDaysAreDays, Calendar DEF Days, Open
<1>3. \A t \in tariff :
          /\ t \in TariffRow /\ t.from \in Nat /\ t.to \in Nat /\ t.from < from
          /\ t.from <= t.to
  <2>1. TypeOK /\ Chain
    BY DEF IInv
  <2>2. QED
    BY <1>1, <2>1, TariffDates DEF Chain
<1>4. ASSUME NEW t \in tariff
      PROVE  /\ Rest(t).from = t.from /\ Rest(t).rate = t.rate
             /\ Rest(t).to \in Nat /\ t.from <= Rest(t).to /\ Rest(t).to <= t.to
             /\ Rest(t).to < from
             /\ Rest(t).to # t.to => Rest(t).to = from - 1
  <2>1. t = [from |-> t.from, to |-> t.to, rate |-> t.rate]
    BY <1>3 DEF TariffRow
  <2>2. CASE Latest(t) /\ t.to >= from
    <3>1. Rest(t) = [from |-> t.from, to |-> from - 1, rate |-> t.rate]
      BY <2>1, <2>2 DEF Closed
    <3>2. QED
      BY <3>1, <2>2, <1>2, <1>3
  <2>3. CASE Latest(t) /\ ~(t.to >= from)
    BY <2>3, <1>2, <1>3
  <2>4. CASE ~Latest(t)
    <3>1. PICK s \in tariff : ~(s.from <= t.from)
      BY <2>4 DEF Latest
    <3>2. t.to < s.from
      BY <3>1, <1>3 DEF IInv, Chain
    <3>3. QED
      BY <3>2, <2>4, <1>2, <1>3
  <2>5. QED
    BY <2>2, <2>3, <2>4
<1>5. \A t \in tariff : Rest(t) \in TariffRow
  <2> SUFFICES ASSUME NEW t \in tariff PROVE Rest(t) \in TariffRow
    OBVIOUS
  <2>1. CASE Rest(t) = t
    BY <2>1, <1>3
  <2>2. CASE Rest(t) = Closed(t, from)
    <3>1. Rest(t) = [from |-> t.from, to |-> from - 1, rate |-> t.rate]
      BY <2>2, <1>3 DEF Closed, TariffRow
    <3>2. from - 1 \in Days
      BY <1>2, <1>3, Calendar, CalendarFits DEF TariffRow, Days
    <3>3. QED
      BY <3>1, <3>2, <1>3 DEF TariffRow
  <2>3. QED
    BY <2>1, <2>2
<1>6. TypeOK'
  <2>1. new \in TariffRow
    BY <1>2 DEF TariffRow
  <2>2. QED
    BY <2>1, <1>1, <1>5 DEF IInv, TypeOK, ledgerVars
<1>7. Chain'
  <2>1. new.from = from /\ new.to = Open /\ new \in tariff'
    BY <1>1
  <2>2. ASSUME NEW t \in tariff'
        PROVE t.from <= t.to /\ (t.to = Open \/ \E s \in tariff' : s.from = t.to + 1)
    <3>1. CASE t = new
      BY <3>1, <1>2
    <3>2. CASE t # new
      <4>1. PICK u \in tariff : t = Rest(u)
        BY <3>2, <1>1
      <4>2. t.from <= t.to /\ t.to < from
        BY <4>1, <1>3, <1>4
      <4>3. CASE t.to # u.to
        <5>1. t.to = from - 1
          BY <4>1, <4>3, <1>4
        <5>2. new.from = t.to + 1
          BY <5>1, <2>1, <1>2
        <5>3. QED
          BY <4>2, <5>2, <2>1
      <4>4. CASE t.to = u.to
        <5>1. PICK s \in tariff : s.from = u.to + 1
          BY <4>2, <4>4, <1>2, <1>3, <4>1 DEF IInv, Chain
        <5>2. Rest(s) \in tariff' /\ Rest(s).from = t.to + 1
          BY <5>1, <4>4, <1>1, <1>4
        <5>3. QED
          BY <4>2, <5>2
      <4>5. QED
        BY <4>3, <4>4
    <3>3. QED
      BY <3>1, <3>2
  <2>3. ASSUME NEW s \in tariff', NEW t \in tariff', s.from < t.from
        PROVE  s.to < t.from
    <3>1. CASE s = new
      <4>1. t.from <= from /\ t.from \in Nat
        BY <1>1, <1>2, <1>3, <1>4, <2>1
      <4>2. QED
        BY <4>1, <3>1, <2>3, <2>1, <1>2
    <3>2. CASE s # new /\ t = new
      BY <3>2, <1>1, <1>4, <2>1
    <3>3. CASE s # new /\ t # new
      <4>1. PICK x \in tariff, y \in tariff : s = Rest(x) /\ t = Rest(y)
        BY <3>3, <1>1
      <4>2. x.from < y.from
        BY <4>1, <2>3, <1>4
      <4>3. x.to < y.from
        BY <4>2 DEF IInv, Chain
      <4>4. QED
        BY <4>1, <4>3, <1>3, <1>4
    <3>4. QED
      BY <3>1, <3>2, <3>3
  <2>4. ASSUME NEW s \in tariff', NEW t \in tariff', s.from = t.from
        PROVE  s = t
    <3>1. CASE s = new /\ t = new
      BY <3>1
    <3>2. CASE s # new /\ t # new
      <4>1. PICK x \in tariff, y \in tariff : s = Rest(x) /\ t = Rest(y)
        BY <3>2, <1>1
      <4>2. x.from = y.from
        BY <4>1, <2>4, <1>4
      <4>3. x = y
        BY <4>2 DEF IInv, Chain
      <4>4. QED
        BY <4>1, <4>3
    <3>3. CASE s # new /\ t = new
      BY <3>3, <2>1, <2>4, <1>1, <1>2, <1>3, <1>4
    <3>4. CASE s = new /\ t # new
      BY <3>4, <2>1, <2>4, <1>1, <1>2, <1>3, <1>4
    <3>5. QED
      BY <3>1, <3>2, <3>3, <3>4
  <2>5. QED
    BY <2>2, <2>3, <2>4 DEF Chain
<1>8. Rising'
  BY <1>1 DEF IInv, Rising
<1>9. QED
  BY <1>1, <1>6, <1>7, <1>8, LedgerKept DEF IInv

----------------------------------------------------------------------------
(* Requests and rows.                                                      *)

\* A step of a request that changes nothing else.
LEMMA JobStep ==
    ASSUME IInv, NEW w \in Workers, NEW j \in Jobs, Becomes(w, j), UNCHANGED <<meterVars, ledgerVars>>
    PROVE  IInv'
<1>1. job' \in [Workers -> Jobs] /\ UNCHANGED <<meter, reading, tariff>>
  BY DEF IInv, TypeOK, Becomes, meterVars
<1>2. TypeOK'
  BY <1>1 DEF IInv, TypeOK, ledgerVars
<1>3. Rising' /\ Chain'
  BY <1>1 DEF IInv, Rising, Chain
<1>4. QED
  BY <1>2, <1>3, LedgerKept DEF IInv

\* What requests become.
LEMMA JobsOf ==
    /\ Idle \in Jobs
    /\ \A k \in Keys, a \in Amounts : Paying(k, a) \in Jobs
    /\ Billing(Unmetered) \in Jobs
    /\ \A d \in Month, v \in Values, r \in Rates, m \in Multipliers : Billing(Seen(d, v, r, m)) \in Jobs
  BY DEF Jobs, Seen

\* What a generation has read is nothing, or a reading, a rate and a multiplier.
LEMMA SeenTyped ==
    ASSUME TypeOK, NEW w \in Workers, job[w].op = "bill", job[w].seen # Unmetered
    PROVE  /\ job[w].seen.day \in Month /\ job[w].seen.close \in Values
           /\ job[w].seen.rate \in Rates /\ job[w].seen.multiplier \in Multipliers
<1>1. job[w] \in Jobs
  BY DEF TypeOK
<1>2. job[w] # Idle /\ \A k \in Keys, a \in Amounts : job[w] # Paying(k, a)
  BY DEF Idle, Paying, Job
<1>3. PICK s \in {Unmetered} \cup [day : Month, close : Values, rate : Rates, multiplier : Multipliers] :
          job[w] = Billing(s)
  BY <1>1, <1>2 DEF Jobs
<1>4. job[w].seen = s
  BY <1>3 DEF Billing, Job
<1>5. QED
  BY <1>3, <1>4

\* A payment in the making has a key and an amount.
LEMMA PayingTyped ==
    ASSUME TypeOK, NEW w \in Workers, job[w].op = "pay"
    PROVE  job[w].key \in Keys /\ job[w].amount \in Amounts
<1>1. job[w] \in Jobs
  BY DEF TypeOK
<1>2. job[w] # Idle /\ \A s : job[w] # Billing(s)
  BY DEF Idle, Billing, Job
<1>3. PICK k \in Keys, a \in Amounts : job[w] = Paying(k, a)
  BY <1>1, <1>2 DEF Jobs
<1>4. QED
  BY <1>3 DEF Paying, Job

\* The opening reading exists, and is of a day before the closing one.
LEMMA OpeningsRead ==
    ASSUME TypeOK, NEW S \in SUBSET Days, NEW close, NEW d \in Openings(S, close)
    PROVE  d \in Days /\ reading[d] \in Values /\ (close \in S => d < close)
<1> DEFINE earlier == Read({e \in Days : \A f \in S : e < f})
           first == Read({e \in S : e < close})
<1>1. /\ earlier \in SUBSET Days /\ first \in SUBSET Days
      /\ \A e \in earlier \cup first : reading[e] \in Values
  BY ReadValues
<1>2. CASE earlier # {}
  <2>1. d = Max(earlier)
    BY <1>2 DEF Openings
  <2>2. d \in earlier
    BY <1>1, <1>2, <2>1, FirstAndLast
  <2>3. QED
    BY <1>1, <2>2 DEF Read
<1>3. CASE earlier = {}
  <2>1. first # {} /\ d = Min(first)
    BY <1>3 DEF Openings
  <2>2. d \in first
    BY <1>1, <2>1, FirstAndLast
  <2>3. QED
    BY <1>1, <2>2 DEF Read
<1>4. QED
  BY <1>2, <1>3

\* A line that is billed is one.
LEMMA LineTyped ==
    ASSUME TypeOK, NEW w \in Workers, job[w].op = "bill", NEW l \in LinesOf(job[w].seen)
    PROVE  l \in LineRow
<1> DEFINE s == job[w].seen
<1>1. CASE s = Unmetered
  BY <1>1 DEF LinesOf, LineRow
<1>2. CASE s # Unmetered
  <2>1. PICK d \in Openings(Month, s.day) :
            NoNegative(reading[d], s.close) /\ l = Line(reading[d], s.close, s.rate, s.multiplier)
    BY <1>2 DEF LinesOf
  <2>2. reading[d] \in Values
    BY OpeningsRead, Calendar
  <2>3. s.close \in Values /\ s.rate \in Rates /\ s.multiplier \in Multipliers
    BY <1>2, SeenTyped
  <2>4. QED
    BY <2>1, <2>2, <2>3 DEF Line, LineRow, NoNegative
<1>3. QED
  BY <1>1, <1>2

\* A bill settled is a bill.
LEMMA SettledRow ==
    ASSUME NEW total, NEW paid \in Nat
    PROVE  /\ Settled(total, paid) \in BillRow
           /\ Settled(total, paid).paid = paid
           /\ Settled(total, paid).status \in {"PUBLISHED", "PARTIALLY_PAID", "PAID"}
  BY DEF Settled, Bill, BillRow

\* What a line charges up to a reading.
LEMMA ChargeTyped ==
    ASSUME NEW l \in LineRow, NEW v \in Values
    PROVE  Charge(l, v) \in Int /\ (l.open <= v => Charge(l, v) >= 0)
<1>1. /\ l.open \in Nat /\ l.rate \in Nat /\ l.multiplier \in Nat /\ v \in Nat
  <2>1. v \in Nat /\ Values \subseteq Nat
    BY BoundsAreNumbers DEF Values
  <2>2. CASE l = NoLine
    BY <2>1, <2>2 DEF NoLine, Line
  <2>3. CASE l \in [open : Values, close : Values, rate : Rates, multiplier : Multipliers]
    BY <2>1, <2>3, RatesAreAmounts, MultipliersArePositive
  <2>4. QED
    BY <2>2, <2>3 DEF LineRow
<1> DEFINE units == (v - l.open) * l.multiplier
<1>2. v - l.open \in Int /\ (l.open <= v => v - l.open \in Nat)
  BY <1>1
<1>3. units \in Int /\ (l.open <= v => units \in Nat)
  BY <1>1, <1>2
<1>4. Charge(l, v) = units * l.rate
  BY DEF Charge
<1> HIDE DEF units
<1>5. units * l.rate \in Int /\ (l.open <= v => units * l.rate \in Nat)
  BY <1>1, <1>3
<1>6. QED
  BY <1>4, <1>5

\* The numbers of the bill.
LEMMA TotalTyped ==
    ASSUME TypeOK, NEW c \in CorrectionRow
    PROVE  /\ TotalOf(line, c) \in Int /\ bill.paid \in Nat
           /\ Charge(line, line.close) \in Int /\ Charge(line, line.close) >= 0
           /\ Charge(line, c.close) \in Int /\ c.readings \in Int /\ c.adjusted \in Int
<1>1. line \in LineRow /\ line.close \in Values /\ line.open <= line.close
  BY BoundsAreNumbers DEF TypeOK, LineRow, NoLine, Line, Values
<1>2. c.close \in Values /\ c.readings \in Int /\ c.adjusted \in Int
  BY BoundsAreNumbers DEF CorrectionRow
<1>3. Charge(line, line.close) \in Int /\ Charge(line, line.close) >= 0 /\ Charge(line, c.close) \in Int
  BY <1>1, <1>2, ChargeTyped
<1>4. bill.paid \in Nat
  BY DEF TypeOK, BillRow
<1>5. QED
  BY <1>2, <1>3, <1>4 DEF TotalOf

----------------------------------------------------------------------------
(* What is paid.                                                           *)

\* A payment recorded or voided changes the sum by its amount.
LEMMA PaidChanges ==
    ASSUME TypeOK, NEW k \in Keys, NEW p \in PaymentRow, payment' = [payment EXCEPT ![k] = p]
    PROVE  /\ Paid \in Nat /\ Paid' \in Nat /\ Recorded(k) \in Nat
           /\ Paid' = Paid - Recorded(k) + (IF p.status = "COMPLETED" THEN p.amount ELSE 0)
<1> DEFINE f == [j \in Keys |-> Recorded(j)]
           g == [j \in Keys |-> Recorded(j)']
<1>1. payment \in [Keys -> PaymentRow] /\ payment' \in [Keys -> PaymentRow]
  BY DEF TypeOK
<1>2. \A r \in PaymentRow : r.amount \in Nat
  BY BoundsAreNumbers DEF PaymentRow, NoPayment, Payment, Amounts
<1>3. f \in [Keys -> Nat] /\ g \in [Keys -> Nat]
  BY <1>1, <1>2 DEF Recorded
<1>4. \A j \in Keys \ {k} : g[j] = f[j]
  BY <1>1 DEF Recorded
<1>5. g[k] = IF p.status = "COMPLETED" THEN p.amount ELSE 0
  BY <1>1 DEF Recorded
<1>6. Paid = SumFunctionOnSet(f, Keys) /\ Paid' = SumFunctionOnSet(g, Keys)
  BY DEF Paid, SumFunction
<1>7. f[k] = Recorded(k)
  OBVIOUS
<1> HIDE DEF f, g
<1>8. /\ SumFunctionOnSet(f, Keys) \in Nat
      /\ SumFunctionOnSet(g, Keys) = SumFunctionOnSet(f, Keys) + g[k] - f[k]
  BY <1>3, <1>4, KeysAreFinite, SumChanges
<1>9. SumFunctionOnSet(g, Keys) \in Nat
  BY <1>3, <1>4, KeysAreFinite, SumChanges
<1>10. f[k] \in Nat /\ g[k] \in Nat
  BY <1>3
<1>11. QED
  BY <1>5, <1>6, <1>7, <1>8, <1>9, <1>10

\* A step that leaves the payments leaves their sum.
LEMMA PaidKept == ASSUME UNCHANGED payment PROVE Paid' = Paid
  BY DEF Paid, Recorded

----------------------------------------------------------------------------
(* Steps of the bill.                                                      *)

\* A status that is issued is one of three.
LEMMA IssuedStatuses ==
    /\ Issued <=> bill.status \in {"PUBLISHED", "PARTIALLY_PAID", "PAID"}
    /\ Issued' <=> bill'.status \in {"PUBLISHED", "PARTIALLY_PAID", "PAID"}
  BY DEF Issued

\* Reading what a bill is generated from.
LEMMA ReadClosingStep ==
    ASSUME IInv, NEW w \in Workers, ReadClosing(w)
    PROVE  IInv'
<1> DEFINE day == ClosingOf(Month)
<1>1. UNCHANGED <<meterVars, ledgerVars>>
  BY DEF ReadClosing
<1>2. CASE ~meter.active
  BY <1>1, <1>2, JobStep, JobsOf DEF ReadClosing
<1>3. CASE meter.active
  <2>1. TypeOK /\ Chain
    BY DEF IInv
  <2>2. Read(Month) # {} /\ InForce(LastDay) # {}
    BY <1>3 DEF ReadClosing
  <2>3. day \in Month /\ reading[day] \in Values
    <3>1. Read(Month) \in SUBSET Month /\ Read(Month) \in SUBSET Days
      BY <2>1, ReadValues, Calendar
    <3>2. day \in Read(Month)
      BY <2>2, <3>1, FirstAndLast DEF ClosingOf
    <3>3. QED
      BY <2>1, <3>1, <3>2, ReadValues, Calendar
  <2>4. Applicable(LastDay).rate \in Rates
    <3>1. Applicable(LastDay) \in InForce(LastDay)
      BY <2>1, <2>2, ApplicableExists, Calendar
    <3>2. Applicable(LastDay) \in TariffRow
      BY <2>1, <3>1 DEF InForce, TypeOK
    <3>3. QED
      BY <3>2 DEF TariffRow
  <2>5. meter.multiplier \in Multipliers
    BY <1>3, <2>1 DEF TypeOK, MeterRow, NoMeter, Meter
  <2>6. Billing(Seen(day, reading[day], Applicable(LastDay).rate, meter.multiplier)) \in Jobs
    BY <2>3, <2>4, <2>5, JobsOf
  <2>7. Becomes(w, Billing(Seen(day, reading[day], Applicable(LastDay).rate, meter.multiplier)))
    BY <1>3 DEF ReadClosing
  <2>8. QED
    BY <1>1, <2>6, <2>7, JobStep
<1>4. QED
  BY <1>2, <1>3

\* Requests that are refused or answered from what is there.
LEMMA RequestSteps ==
    ASSUME IInv, NEW w \in Workers,
           \/ NotGenerated(w) \/ AlreadyRecorded(w) \/ PaymentRefused(w)
           \/ \E k \in Keys, a \in Amounts : BeginPayment(w, k, a)
    PROVE  IInv'
<1>1. CASE NotGenerated(w) \/ AlreadyRecorded(w) \/ PaymentRefused(w)
  <2>1. Becomes(w, Idle) /\ UNCHANGED <<meterVars, ledgerVars>>
    BY <1>1 DEF NotGenerated, AlreadyRecorded, PaymentRefused
  <2>2. QED
    BY <2>1, JobStep, JobsOf
<1>2. ASSUME NEW k \in Keys, NEW a \in Amounts, BeginPayment(w, k, a) PROVE IInv'
  <2>1. Becomes(w, Paying(k, a)) /\ UNCHANGED <<meterVars, ledgerVars>>
    BY <1>2 DEF BeginPayment
  <2>2. Paying(k, a) \in Jobs
    BY JobsOf
  <2>3. QED
    BY <2>1, <2>2, JobStep
<1>3. QED
  BY <1>1, <1>2

\* The bill is created.
LEMMA GenerateStep ==
    ASSUME IInv, NEW w \in Workers, GenerateBill(w)
    PROVE  IInv'
<1>1. /\ job[w].op = "bill" /\ bill.status = "NONE" /\ line' \in LinesOf(job[w].seen)
      /\ bill' = Bill("DRAFT", 0) /\ correction' = Correction(line'.close, 0, 0)
      /\ job' = [job EXCEPT ![w] = Idle]
      /\ UNCHANGED <<meter, reading, tariff, payment>>
  BY DEF GenerateBill, Becomes, meterVars
<1>2. line' \in LineRow
  BY <1>1, LineTyped DEF IInv
<1>3. line'.close \in Values
  BY <1>2, BoundsAreNumbers DEF LineRow, NoLine, Line, Values
<1>4. TypeOK'
  <2>1. bill' \in BillRow
    BY <1>1 DEF Bill, BillRow
  <2>2. correction' \in CorrectionRow
    BY <1>1, <1>3, BoundsAreNumbers DEF Correction, CorrectionRow
  <2>3. job' \in [Workers -> Jobs]
    BY <1>1, JobsOf DEF IInv, TypeOK
  <2>4. QED
    BY <1>1, <1>2, <2>1, <2>2, <2>3 DEF IInv, TypeOK
<1>5. Ledger'
  <2>1. bill.paid = 0 /\ bill.paid = Paid /\ \A k \in Keys : payment[k].status # "COMPLETED"
    BY <1>1, IssuedStatuses DEF IInv, Ledger, BillBalances
  <2>2. bill'.paid = Paid' /\ bill'.status = "DRAFT" /\ bill'.paid = 0 /\ ~Issued'
    BY <1>1, <2>1, PaidKept, IssuedStatuses DEF Bill
  <2>3. correction'.readings = 0 /\ correction'.adjusted = 0 /\ correction'.close = line'.close
    BY <1>1 DEF Correction
  <2>4. Charge(line', line'.close) \in Int
    BY <1>2, <1>3, ChargeTyped
  <2>5. CorrectionsTelescope'
    BY <2>3, <2>4 DEF CorrectionsTelescope, Total, TotalOf
  <2>6. BillBalances'
    BY <2>2 DEF BillBalances
  <2>7. \A k \in Keys : payment'[k].status # "COMPLETED"
    BY <1>1, <2>1
  <2>8. QED
    BY <2>2, <2>3, <2>5, <2>6, <2>7 DEF Ledger
<1>6. Rising' /\ Chain'
  BY <1>1 DEF IInv, Rising, Chain
<1>7. QED
  BY <1>4, <1>5, <1>6 DEF IInv

\* A step that writes the bill's row and nothing else.
LEMMA BillRowStep ==
    ASSUME IInv, UNCHANGED <<meterVars, line, correction, payment, job>>, bill' \in BillRow, Ledger'
    PROVE  IInv'
<1>1. UNCHANGED <<meter, reading, tariff, line, correction, payment, job>>
  BY DEF meterVars
<1>2. TypeOK'
  BY <1>1 DEF IInv, TypeOK
<1>3. Rising' /\ Chain'
  BY <1>1 DEF IInv, Rising, Chain
<1>4. QED
  BY <1>2, <1>3 DEF IInv

\* The total does not depend on the bill's row.
LEMMA TotalKept ==
    ASSUME UNCHANGED <<line, correction>>
    PROVE  /\ Total' = Total
           /\ bill'.status # "NONE" /\ bill.status # "NONE" /\ CorrectionsTelescope
                  => CorrectionsTelescope'
  BY DEF Total, TotalOf, Charge, CorrectionsTelescope

\* A draft is issued.
LEMMA PublishStep ==
    ASSUME IInv, Publish
    PROVE  IInv'
<1>1. /\ bill.status = "DRAFT" /\ bill' = Settled(Total, 0)
      /\ UNCHANGED <<meterVars, line, correction, payment, job>>
  BY DEF Publish
<1>2. bill.paid = 0 /\ bill.paid = Paid /\ correction.readings = 0 /\ correction.adjusted = 0
  BY <1>1 DEF IInv, Ledger, BillBalances
<1>3. bill' \in BillRow /\ bill'.paid = 0 /\ Issued'
  BY <1>1, SettledRow, IssuedStatuses
<1>4. Total \in Int /\ 0 <= Total
  BY <1>2, TotalTyped DEF IInv, TypeOK, Total, TotalOf
<1>5. Total' = Total /\ Paid' = Paid /\ CorrectionsTelescope'
  BY <1>1, <1>3, TotalKept, PaidKept, IssuedStatuses DEF IInv, Ledger
<1>6. BillBalances'
  BY <1>1, <1>2, <1>3, <1>4, <1>5 DEF BillBalances, Settled
<1>7. Ledger'
  BY <1>3, <1>5, <1>6, IssuedStatuses DEF Ledger
<1>8. QED
  BY <1>1, <1>3, <1>7, BillRowStep

\* A bill nothing is paid of is cancelled.
LEMMA CancelStep ==
    ASSUME IInv, CancelBill
    PROVE  IInv'
<1>1. /\ bill.status # "NONE" /\ bill.paid = 0 /\ bill' = Bill("CANCELLED", bill.paid)
      /\ \A k \in Keys : payment[k].status # "COMPLETED"
      /\ UNCHANGED <<meterVars, line, correction, payment, job>>
  BY DEF CancelBill
<1>2. bill' \in BillRow /\ bill'.status = "CANCELLED" /\ bill'.paid = bill.paid /\ ~Issued'
  BY <1>1, IssuedStatuses DEF Bill, BillRow
<1>3. Paid' = Paid /\ CorrectionsTelescope'
  BY <1>1, <1>2, TotalKept, PaidKept DEF IInv, Ledger
<1>4. BillBalances'
  BY <1>2, <1>3 DEF IInv, Ledger, BillBalances
<1>5. Ledger'
  BY <1>1, <1>2, <1>3, <1>4 DEF Ledger
<1>6. QED
  BY <1>1, <1>2, <1>5, BillRowStep

\* A correction that leaves what is left of the bill at what was paid or more.
LEMMA CorrectStep ==
    ASSUME IInv, NEW c \in CorrectionRow, Corrects(c),
           c.readings + Charge(line, line.close) = Charge(line, c.close)
    PROVE  IInv'
<1>1. /\ Issued /\ 0 <= TotalOf(line, c) /\ bill.paid <= TotalOf(line, c)
      /\ correction' = c /\ bill' = Settled(TotalOf(line, c), bill.paid)
      /\ UNCHANGED <<meter, reading, tariff, line, payment, job>>
  BY DEF Corrects, AbovePaid, meterVars
<1>2. /\ TotalOf(line, c) \in Int /\ bill.paid \in Nat /\ c.readings \in Int /\ c.adjusted \in Int
      /\ Charge(line, line.close) \in Int /\ Charge(line, c.close) \in Int
  BY TotalTyped DEF IInv
<1>3. bill' \in BillRow /\ bill'.paid = bill.paid /\ Issued'
  BY <1>1, <1>2, SettledRow, IssuedStatuses
<1>4. TypeOK'
  BY <1>1, <1>3 DEF IInv, TypeOK
<1>5. Total' = TotalOf(line, c)
  BY <1>1 DEF Total, TotalOf, Charge
<1>6. CorrectionsTelescope'
  <2>1. TotalOf(line, c) = Charge(line, line.close) + c.readings + c.adjusted
    BY DEF TotalOf
  <2>2. TotalOf(line, c) - c.adjusted = Charge(line, c.close)
    BY <2>1, <1>2
  <2>3. Charge(line, correction.close)' = Charge(line, c.close)
    BY <1>1 DEF Charge
  <2>4. QED
    BY <1>1, <1>5, <2>2, <2>3 DEF CorrectionsTelescope
<1>7. BillBalances'
  <2>1. Paid' = Paid /\ bill.paid = Paid
    BY <1>1, PaidKept DEF IInv, Ledger, BillBalances
  <2>2. bill' = Settled(Total', bill'.paid)
    BY <1>1, <1>3, <1>5
  <2>3. QED
    BY <1>1, <1>3, <1>5, <2>1, <2>2 DEF BillBalances, Settled
<1>8. Ledger'
  BY <1>3, <1>6, <1>7, IssuedStatuses DEF Ledger
<1>9. Rising' /\ Chain'
  BY <1>1 DEF IInv, Rising, Chain
<1>10. QED
  BY <1>4, <1>8, <1>9 DEF IInv

\* The last correction of a reading is worth the difference to the first.
LEMMA Telescoped ==
    ASSUME IInv, bill.status # "NONE"
    PROVE  correction.readings + Charge(line, line.close) = Charge(line, correction.close)
<1>1. Total - correction.adjusted = Charge(line, correction.close)
  BY DEF IInv, Ledger, CorrectionsTelescope
<1>2. correction \in CorrectionRow
  BY DEF IInv, TypeOK
<1>3. /\ Charge(line, line.close) \in Int /\ correction.readings \in Int
      /\ correction.adjusted \in Int /\ Charge(line, correction.close) \in Int
  BY <1>2, TotalTyped DEF IInv
<1>4. QED
  BY <1>1, <1>3 DEF Total, TotalOf

\* What either kind of correction writes.
LEMMA CorrectionsTyped ==
    ASSUME IInv,
           \/ \E delta \in {-1, 1} :
                 correction.adjusted + delta \in -MaxAdjust..MaxAdjust /\ AdjustAmount(delta)
           \/ \E v \in Values : CorrectReading(v)
    PROVE  \E c \in CorrectionRow :
               Corrects(c) /\ c.readings + Charge(line, line.close) = Charge(line, c.close)
<1>1. correction \in CorrectionRow
  BY DEF IInv, TypeOK
<1>2. /\ Charge(line, line.close) \in Int /\ correction.readings \in Int
      /\ correction.adjusted \in -MaxAdjust..MaxAdjust
      /\ correction.close \in Values /\ Charge(line, correction.close) \in Int
  BY <1>1, TotalTyped DEF IInv, CorrectionRow
<1>3. ASSUME NEW delta \in {-1, 1}, correction.adjusted + delta \in -MaxAdjust..MaxAdjust,
             AdjustAmount(delta)
      PROVE  \E c \in CorrectionRow :
                 Corrects(c) /\ c.readings + Charge(line, line.close) = Charge(line, c.close)
  <2> DEFINE c == Correction(correction.close, correction.readings, correction.adjusted + delta)
  <2>1. c \in CorrectionRow /\ c.close = correction.close /\ c.readings = correction.readings
    BY <1>2, <1>3 DEF Correction, CorrectionRow
  <2>2. Corrects(c)
    BY <1>3 DEF AdjustAmount
  <2>3. bill.status # "NONE"
    BY <2>2, IssuedStatuses DEF Corrects
  <2>4. c.readings + Charge(line, line.close) = Charge(line, c.close)
    BY <2>1, <2>3, Telescoped
  <2> HIDE DEF c
  <2>5. QED
    BY <2>1, <2>2, <2>4
<1>4. ASSUME NEW v \in Values, CorrectReading(v)
      PROVE  \E c \in CorrectionRow :
                 Corrects(c) /\ c.readings + Charge(line, line.close) = Charge(line, c.close)
  <2> DEFINE c == Correction(v, correction.readings + CorrectedAmount(v) - EffectiveAmount,
                             correction.adjusted)
  <2>1. Charge(line, v) \in Int
    BY ChargeTyped DEF IInv, TypeOK
  <2>2. c \in CorrectionRow /\ c.close = v
    BY <1>2, <2>1 DEF Correction, CorrectionRow, CorrectedAmount, EffectiveAmount
  <2>3. Corrects(c)
    BY <1>4 DEF CorrectReading
  <2>4. bill.status # "NONE"
    BY <2>3, IssuedStatuses DEF Corrects
  <2>5. c.readings = correction.readings + Charge(line, v) - Charge(line, correction.close)
    BY DEF Correction, CorrectedAmount, EffectiveAmount
  <2>6. c.readings + Charge(line, line.close) = Charge(line, c.close)
    BY <1>2, <2>1, <2>2, <2>4, <2>5, Telescoped
  <2> HIDE DEF c
  <2>7. QED
    BY <2>2, <2>3, <2>6
<1>5. QED
  BY <1>3, <1>4

\* Both kinds of correction.
LEMMA CorrectionSteps ==
    ASSUME IInv,
           \/ \E delta \in {-1, 1} :
                 correction.adjusted + delta \in -MaxAdjust..MaxAdjust /\ AdjustAmount(delta)
           \/ \E v \in Values : CorrectReading(v)
    PROVE  IInv'
  BY CorrectionsTyped, CorrectStep

\* A step that writes one payment and the bill's row.
LEMMA PaymentStep ==
    ASSUME IInv, Issued, NEW k \in Keys, NEW p \in PaymentRow, NEW paid \in Nat,
           payment' = [payment EXCEPT ![k] = p], bill' = Settled(Total, paid),
           paid = Paid', paid <= Total,
           UNCHANGED <<meterVars, line, correction>>, job' \in [Workers -> Jobs]
    PROVE  IInv'
<1>1. UNCHANGED <<meter, reading, tariff, line, correction>>
  BY DEF meterVars
<1>2. bill' \in BillRow /\ bill'.paid = paid /\ Issued'
  BY SettledRow, IssuedStatuses
<1>3. TypeOK'
  BY <1>1, <1>2 DEF IInv, TypeOK
<1>4. Total' = Total /\ CorrectionsTelescope'
  BY <1>1, <1>2, TotalKept, IssuedStatuses DEF IInv, Ledger
<1>5. BillBalances'
  BY <1>2, <1>4 DEF BillBalances, Settled
<1>6. Ledger'
  BY <1>2, <1>4, <1>5, IssuedStatuses DEF Ledger
<1>7. Rising' /\ Chain'
  BY <1>1 DEF IInv, Rising, Chain
<1>8. QED
  BY <1>3, <1>6, <1>7 DEF IInv

\* A payment is recorded under a new key.
LEMMA RecordStep ==
    ASSUME IInv, NEW w \in Workers, RecordPayment(w)
    PROVE  IInv'
<1> DEFINE k == job[w].key
           a == job[w].amount
           p == Payment("COMPLETED", a)
<1>1. /\ job[w].op = "pay" /\ Payable /\ a <= Total - bill.paid /\ payment[k] = NoPayment
      /\ payment' = [payment EXCEPT ![k] = p]
      /\ bill' = Settled(Total, bill.paid + a)
      /\ job' = [job EXCEPT ![w] = Idle]
      /\ UNCHANGED <<meterVars, line, correction>>
  BY DEF RecordPayment, Accepts, NewKey, Becomes
<1>2. k \in Keys /\ a \in Amounts
  BY <1>1, PayingTyped DEF IInv
<1>3. a \in Nat /\ p \in PaymentRow /\ p.status = "COMPLETED" /\ p.amount = a
  BY <1>2, BoundsAreNumbers DEF Amounts, Payment, PaymentRow
<1>4. Recorded(k) = 0
  BY <1>1 DEF Recorded, NoPayment, Payment
<1>5. Total \in Int /\ bill.paid \in Nat /\ bill.paid = Paid
  BY TotalTyped DEF IInv, TypeOK, Total, Ledger, BillBalances
<1> HIDE DEF k, a, p
<1>6. Paid' = bill.paid + a
  <2>1. Paid' = Paid - Recorded(k) + a
    BY <1>1, <1>2, <1>3, PaidChanges DEF IInv
  <2>2. QED
    BY <2>1, <1>3, <1>4, <1>5
<1>7. bill.paid + a \in Nat /\ bill.paid + a <= Total
  BY <1>1, <1>3, <1>5
<1>8. Issued /\ job' \in [Workers -> Jobs]
  BY <1>1, JobsOf DEF Issued, Payable, IInv, TypeOK
<1>9. QED
  BY <1>1, <1>2, <1>3, <1>6, <1>7, <1>8, PaymentStep

\* A recorded payment is taken back.
LEMMA VoidStep ==
    ASSUME IInv, NEW k \in Keys, VoidPayment(k)
    PROVE  IInv'
<1> DEFINE p == Payment("VOIDED", payment[k].amount)
           paid == bill.paid - payment[k].amount
<1>1. /\ payment[k].status = "COMPLETED" /\ payment' = [payment EXCEPT ![k] = p]
      /\ bill' = Settled(Total, paid)
      /\ UNCHANGED <<meterVars, line, correction, job>>
  BY DEF VoidPayment
<1>2. payment[k] \in PaymentRow /\ payment[k] # NoPayment
  BY <1>1 DEF IInv, TypeOK, NoPayment, Payment
<1>3. payment[k].amount \in Amounts /\ payment[k].amount \in Nat
  BY <1>2, BoundsAreNumbers DEF PaymentRow, Amounts
<1>4. p \in PaymentRow /\ p.status # "COMPLETED"
  BY <1>3 DEF Payment, PaymentRow
<1>5. Recorded(k) = payment[k].amount
  BY <1>1 DEF Recorded
<1>6. /\ Issued /\ Total \in Int /\ bill.paid \in Nat /\ bill.paid = Paid /\ bill.paid <= Total
  BY <1>1, TotalTyped DEF IInv, TypeOK, Total, Ledger, BillBalances
<1> HIDE DEF p
<1>7. Paid' = Paid - Recorded(k) + 0 /\ Paid' \in Nat
  BY <1>1, <1>4, PaidChanges DEF IInv
<1>8. paid = Paid' /\ paid \in Nat /\ paid <= Total
  BY <1>3, <1>5, <1>6, <1>7
<1> HIDE DEF paid
<1>9. job' \in [Workers -> Jobs] /\ UNCHANGED <<meterVars, line, correction>>
  BY <1>1 DEF IInv, TypeOK
<1>10. QED
  BY <1>1, <1>4, <1>6, <1>8, <1>9, PaymentStep

----------------------------------------------------------------------------
(* The theorems.                                                           *)

\* Nothing read, billed or paid.
LEMMA InitIInv == Init => IInv
<1> SUFFICES ASSUME Init PROVE IInv
  OBVIOUS
<1>1. 0 \in Values
  BY BoundsAreNumbers DEF Values
<1>2. TypeOK
  <2>1. meter \in MeterRow /\ line \in LineRow /\ tariff \subseteq TariffRow
    BY DEF Init, MeterRow, LineRow
  <2>2. reading \in [Days -> Values \cup {None}] /\ payment \in [Keys -> PaymentRow]
    BY DEF Init, PaymentRow
  <2>3. bill \in BillRow
    BY DEF Init, Bill, BillRow
  <2>4. correction \in CorrectionRow
    BY <1>1, BoundsAreNumbers DEF Init, Correction, CorrectionRow
  <2>5. job \in [Workers -> Jobs]
    BY JobsOf DEF Init
  <2>6. QED
    BY <2>1, <2>2, <2>3, <2>4, <2>5 DEF TypeOK
<1>3. Rising /\ Chain
  BY DEF Init, Rising, Chain
<1>4. Ledger
  <2>1. \A k \in Keys : payment[k].status # "COMPLETED"
    BY DEF Init, NoPayment, Payment
  <2>2. Paid = 0
    <3> DEFINE f == [k \in Keys |-> Recorded(k)]
    <3>1. \A k \in Keys : f[k] = 0
      BY <2>1 DEF Recorded
    <3>2. Paid = SumFunctionOnSet(f, Keys)
      BY DEF Paid, SumFunction
    <3> HIDE DEF f
    <3>3. QED
      BY <3>1, <3>2, KeysAreFinite, SumOfZeros
  <2>3. bill.status = "NONE" /\ bill.paid = 0 /\ correction.readings = 0 /\ correction.adjusted = 0
    BY DEF Init, Bill, Correction
  <2>4. QED
    BY <2>1, <2>2, <2>3 DEF Ledger, BillBalances, CorrectionsTelescope, Issued
<1>5. QED
  BY <1>2, <1>3, <1>4 DEF IInv

\* Every step keeps the invariant.
LEMMA NextIInv == IInv /\ [Next]_vars => IInv'
<1> SUFFICES ASSUME IInv, [Next]_vars PROVE IInv'
  OBVIOUS
<1>1. CASE UNCHANGED vars
  <2>1. UNCHANGED <<meter, reading, tariff, ledgerVars, job>>
    BY <1>1 DEF vars, ledgerVars
  <2>2. TypeOK' /\ Rising' /\ Chain'
    BY <2>1 DEF IInv, TypeOK, Rising, Chain, ledgerVars
  <2>3. QED
    BY <2>1, <2>2, LedgerKept DEF IInv
<1>2. CASE Owner
  <2>1. CASE \E m \in Multipliers :
                \/ CreateMeter(m)
                \/ \E active \in BOOLEAN : WearsOut(active, m) /\ UpdateMeter(active, m)
    <3>1. PICK m \in Multipliers, active \in BOOLEAN : CreateMeter(m) \/ UpdateMeter(active, m)
      BY <2>1
    <3>2. QED
      BY <3>1, MeterSteps
  <2>2. CASE \E d \in Days, v \in Values : RecordReading(d, v) \/ CorrectMeter(d, v)
    BY <2>2, ReadingSteps
  <2>3. CASE \E from \in TariffDays, rate \in Rates : CreateTariff(from, rate)
    BY <2>3, TariffStep
  <2>4. CASE Publish \/ CancelBill
    BY <2>4, PublishStep, CancelStep
  <2>5. CASE \/ \E delta \in {-1, 1} :
                   correction.adjusted + delta \in -MaxAdjust..MaxAdjust /\ AdjustAmount(delta)
             \/ \E v \in Values : CorrectReading(v)
    BY <2>5, CorrectionSteps
  <2>6. CASE \E k \in Keys : VoidPayment(k)
    BY <2>6, VoidStep
  <2>7. QED
    BY <1>2, <2>1, <2>2, <2>3, <2>4, <2>5, <2>6 DEF Owner
<1>3. CASE \E w \in Workers : Ask(w) \/ Work(w)
  <2>1. PICK w \in Workers : Ask(w) \/ Work(w)
    BY <1>3
  <2>2. CASE Ask(w)
    BY <2>2, ReadClosingStep, RequestSteps DEF Ask
  <2>3. CASE Work(w)
    BY <2>3, GenerateStep, RecordStep, RequestSteps DEF Work
  <2>4. QED
    BY <2>1, <2>2, <2>3
<1>4. QED
  BY <1>1, <1>2, <1>3 DEF Next

\* The invariant holds throughout.
LEMMA SpecIInv == Spec => []IInv
<1>1. QED
  BY InitIInv, NextIInv, PTL DEF Spec

\* Every variable has its type: what a request read is a reading, a rate and a
\* multiplier, and what is paid never falls below zero.
THEOREM SpecTypeOK == Spec => []TypeOK
<1>1. IInv => TypeOK
  BY DEF IInv
<1>2. QED
  BY <1>1, SpecIInv, PTL

\* Readings rise with the days, so only a correction between its two queries
\* gives a generation a negative consumption.
LEMMA TornByCorrection == IInv => NegativeOnlyIfTorn
<1> SUFFICES ASSUME IInv PROVE NegativeOnlyIfTorn
  OBVIOUS
<1>1. TypeOK /\ Rising
  BY DEF IInv
<1>2. \A d, e \in Read(Days) : d <= e => reading[d] <= reading[e]
  BY <1>1 DEF Rising, Read
<1>3. ASSUME NEW w \in Workers, job[w].op = "bill", job[w].seen # Unmetered,
             reading[job[w].seen.day] = job[w].seen.close,
             NEW d \in Openings(Month, job[w].seen.day)
      PROVE  d < job[w].seen.day /\ NoNegative(reading[d], job[w].seen.close)
  <2> DEFINE day == job[w].seen.day
  <2>1. day \in Month /\ day \in Days /\ reading[day] \in Values
    BY <1>1, <1>3, SeenTyped, Calendar
  <2>2. d \in Days /\ reading[d] \in Values /\ d < day
    BY <1>1, <1>3, <2>1, OpeningsRead, Calendar
  <2>3. reading[d] # None /\ reading[day] # None /\ d <= day
    <3>1. reading[d] \in Int /\ reading[day] \in Int
      BY <2>1, <2>2, BoundsAreNumbers DEF Values
    <3>2. d <= day
      BY <2>1, <2>2, CalendarFits DEF Days
    <3> QED
      BY <3>1, <3>2, NoneIsNoNumber
  <2>4. reading[d] <= reading[day]
    BY <1>1, <2>1, <2>2, <2>3 DEF Rising
  <2> QED
    BY <1>3, <2>2, <2>4 DEF NoNegative
<1> QED
  BY <1>2, <1>3 DEF NegativeOnlyIfTorn

\* No two readings make a negative consumption, in whatever order they were
\* entered and corrected; what a generation is refused for is a correction of
\* its closing reading between its two queries.
THEOREM SpecNegativeOnlyIfTorn == Spec => []NegativeOnlyIfTorn
<1>1. QED
  BY TornByCorrection, SpecIInv, PTL

\* From the first tariff on every day has exactly one rate, whatever days tariffs
\* were given to begin on.
THEOREM SpecOneRateADay == Spec => []OneRateADay
<1>1. IInv => OneRateADay
  <2> SUFFICES ASSUME IInv, NEW d \in Days, NEW t \in tariff, t.from <= d
               PROVE  Cardinality(InForce(d)) = 1
    BY DEF OneRateADay
  <2>1. TypeOK /\ Chain
    BY DEF IInv
  <2>2. PICK s \in InForce(d) : TRUE
    BY <2>1, SomeInForce
  <2>3. InForce(d) = {s}
    BY <2>1, <2>2, OneInForce
  <2>4. QED
    BY <2>3, FS_Singleton
<1>2. QED
  BY <1>1, SpecIInv, PTL

\* However often an issued bill's closing reading is corrected, its electricity is
\* the last reading's at the rate and multiplier it was billed at.
THEOREM SpecCorrectionsTelescope == Spec => []CorrectionsTelescope
<1>1. IInv => CorrectionsTelescope
  BY DEF IInv, Ledger
<1>2. QED
  BY <1>1, SpecIInv, PTL

\* What is paid is the sum of the recorded payments, never more than the bill.
THEOREM SpecBillBalances == Spec => []BillBalances
<1>1. IInv => BillBalances
  BY DEF IInv, Ledger
<1>2. QED
  BY <1>1, SpecIInv, PTL
----------------------------------------------------------------------------
(* The bill of a meter is an account.                                      *)

Fates == [k \in Keys |-> Fate(payment[k].status)]
AmountsOf == [k \in Keys |-> payment[k].amount]

\* Nothing of the account moved, or a step of it was made.
Unmoved == UNCHANGED <<Fates, AmountsOf, Standing, Total>> /\ bill'.paid = bill.paid
AccountStep == Account!Next \/ Unmoved

\* A step that leaves the ledger leaves the account.
LEMMA LedgerUnmoved == ASSUME UNCHANGED ledgerVars PROVE AccountStep
  BY DEF ledgerVars, AccountStep, Unmoved, Fates, AmountsOf, Standing, Total, TotalOf, Charge

\* A step that leaves the payments leaves their fates.
LEMMA FatesKept == ASSUME UNCHANGED payment PROVE UNCHANGED <<Fates, AmountsOf>>
  BY DEF Fates, AmountsOf

\* A payment that is written moves its fate and its amount, and no other.
LEMMA FateMoves ==
    ASSUME payment \in [Keys -> PaymentRow], NEW k \in Keys, NEW p, payment' = [payment EXCEPT ![k] = p]
    PROVE  /\ Fates' = [Fates EXCEPT ![k] = Fate(p.status)]
           /\ AmountsOf' = [AmountsOf EXCEPT ![k] = p.amount]
<1>1. payment'[k] = p /\ \A j \in Keys \ {k} : payment'[j] = payment[j]
  OBVIOUS
<1>2. Fates' = [Fates EXCEPT ![k] = Fate(p.status)]
  BY <1>1 DEF Fates
<1>3. AmountsOf' = [AmountsOf EXCEPT ![k] = p.amount]
  BY <1>1 DEF AmountsOf
<1>4. QED
  BY <1>2, <1>3

\* An issued bill is open, and so is one that is settled.
LEMMA IssuedOpen ==
    /\ Issued => Standing = "open"
    /\ \A total : \A paid \in Nat : bill' = Settled(total, paid) => Standing' = "open" /\ bill'.paid = paid
<1>1. Issued => Standing = "open"
  BY DEF Issued, Standing
<1>2. ASSUME NEW total, NEW paid \in Nat, bill' = Settled(total, paid)
      PROVE  Standing' = "open" /\ bill'.paid = paid
  BY <1>2, SettledRow DEF Standing
<1>3. QED
  BY <1>1, <1>2

\* The line adds what it charges to a bill that owed nothing.
LEMMA GenerateAccounts ==
    ASSUME IInv, NEW w \in Workers, GenerateBill(w)
    PROVE  Account!Adjust
<1>1. /\ bill.status = "NONE" /\ bill' = Bill("DRAFT", 0) /\ correction' = Correction(line'.close, 0, 0)
      /\ UNCHANGED payment /\ bill.paid = 0
  BY DEF GenerateBill, IInv, Ledger
<1>2. IInv'
  BY GenerateStep
<1>3. line' \in LineRow /\ line'.close \in Values /\ line'.open <= line'.close
  BY <1>2, BoundsAreNumbers DEF IInv, TypeOK, LineRow, NoLine, Line, Values
<1>4. Charge(line', line'.close) \in Int /\ Charge(line', line'.close) >= 0
  BY <1>3, ChargeTyped
<1>5. Total' \in Nat
  BY <1>1, <1>4 DEF Total, TotalOf, Correction
<1>6. Standing = "open" /\ Standing' = "open" /\ bill'.paid = 0
  BY <1>1 DEF Standing, Bill
<1>7. QED
  BY <1>1, <1>5, <1>6, FatesKept DEF Account!Adjust, Fates, AmountsOf

\* Issuing a bill moves no money.
LEMMA PublishAccounts == ASSUME IInv, Publish PROVE Unmoved
<1>1. bill.status = "DRAFT" /\ bill.paid = 0 /\ bill' = Settled(Total, 0)
      /\ UNCHANGED <<line, correction, payment>>
  BY DEF Publish, IInv, Ledger
<1>2. Standing = "open" /\ Standing' = "open" /\ bill'.paid = 0
  BY <1>1, IssuedOpen DEF Standing
<1>3. QED
  BY <1>1, <1>2, TotalKept, FatesKept DEF Unmoved

\* A bill is cancelled when no payment of it is credited.
LEMMA CancelAccounts == ASSUME IInv, CancelBill PROVE Account!Cancel
<1>1. /\ bill.status # "CANCELLED" /\ bill' = Bill("CANCELLED", bill.paid)
      /\ \A k \in Keys : payment[k].status # "COMPLETED"
      /\ UNCHANGED <<line, correction, payment>>
  BY DEF CancelBill
<1>2. Standing = "open" /\ Standing' = "cancelled" /\ bill'.paid = bill.paid
  BY <1>1 DEF Standing, Bill
<1>3. \A k \in Keys : Fates[k] # "credited"
  BY <1>1 DEF Fates, Fate
<1>4. QED
  BY <1>1, <1>2, <1>3, TotalKept, FatesKept
  DEF Account!Cancel, Account!Payments, Fates, AmountsOf

\* Either correction is an adjustment that keeps the total above what is paid.
LEMMA CorrectAccounts ==
    ASSUME IInv, NEW c, Corrects(c), c \in CorrectionRow
    PROVE  Account!Adjust
<1>1. /\ Issued /\ 0 <= TotalOf(line, c) /\ bill.paid <= TotalOf(line, c)
      /\ correction' = c /\ bill' = Settled(TotalOf(line, c), bill.paid)
      /\ UNCHANGED <<line, payment>>
  BY DEF Corrects, AbovePaid
<1>2. TotalOf(line, c) \in Nat /\ bill.paid \in Nat
  BY <1>1, TotalTyped DEF IInv
<1>3. Total' = TotalOf(line, c)
  BY <1>1 DEF Total, TotalOf, Charge
<1>4. Standing = "open" /\ Standing' = "open" /\ bill'.paid = bill.paid
  BY <1>1, <1>2, IssuedOpen
<1>5. QED
  BY <1>1, <1>2, <1>3, <1>4, FatesKept DEF Account!Adjust, Fates, AmountsOf

\* A payment that is recorded is one whole credit within what is due.
LEMMA RecordAccounts ==
    ASSUME IInv, NEW w \in Workers, RecordPayment(w)
    PROVE  AccountStep
<1>a. PICK k : k = job[w].key
  OBVIOUS
<1>m. PICK a : a = job[w].amount
  OBVIOUS
<1> DEFINE p == Payment("COMPLETED", a)
<1>1. /\ job[w].op = "pay" /\ Payable /\ a <= Total - bill.paid /\ payment[k] = NoPayment
      /\ payment' = [payment EXCEPT ![k] = p] /\ bill' = Settled(Total, bill.paid + a)
      /\ UNCHANGED <<line, correction>>
  BY <1>a, <1>m DEF RecordPayment, Accepts, NewKey
<1>2. k \in Keys /\ a \in Amounts
  BY <1>a, <1>m, <1>1, PayingTyped DEF IInv
<1>3. /\ a \in 1..(Total - bill.paid) /\ bill.paid + a \in Nat
      /\ p.status = "COMPLETED" /\ p.amount = a
  <2>1. Total \in Int /\ bill.paid \in Nat
    BY TotalTyped DEF IInv, TypeOK, Total
  <2>2. QED
    BY <1>1, <1>2, <2>1, BoundsAreNumbers DEF Amounts, Payment
<1> HIDE DEF p
<1>4. Fates[k] = "new" /\ Fate("COMPLETED") = "credited"
  BY <1>1, <1>2 DEF Fates, Fate, NoPayment, Payment
<1>5. Fates' = [Fates EXCEPT ![k] = "credited"] /\ AmountsOf' = [AmountsOf EXCEPT ![k] = a]
  <2>1. Fates' = [Fates EXCEPT ![k] = Fate(p.status)] /\ AmountsOf' = [AmountsOf EXCEPT ![k] = p.amount]
    BY <1>1, <1>2, FateMoves DEF IInv, TypeOK
  <2>2. QED
    BY <2>1, <1>3, <1>4
<1>6. Standing = "open" /\ Standing' = "open" /\ bill'.paid = bill.paid + a
  BY <1>1, <1>3, IssuedOpen DEF Payable, Issued
<1>7. Account!Take(k, a)
  BY <1>1, <1>4, <1>5, <1>6, TotalKept DEF Account!Take, Fates, AmountsOf
<1>8. k \in Account!Payments
  BY <1>2 DEF Account!Payments
<1>9. \E x \in Account!Payments : \E m \in 1..(Total - bill.paid) : Account!Take(x, m)
  BY <1>3, <1>7, <1>8
<1>10. QED
  BY <1>9 DEF AccountStep, Account!Next

\* A void takes back what was credited.
LEMMA VoidAccounts ==
    ASSUME IInv, NEW k \in Keys, VoidPayment(k)
    PROVE  Account!Void(k)
<1> DEFINE p == Payment("VOIDED", payment[k].amount)
<1>1. /\ payment[k].status = "COMPLETED" /\ payment' = [payment EXCEPT ![k] = p]
      /\ bill' = Settled(Total, bill.paid - payment[k].amount) /\ Issued
      /\ UNCHANGED <<line, correction>>
  BY DEF VoidPayment, IInv, Ledger
<1>2. p.status = "VOIDED" /\ p.amount = payment[k].amount
  BY DEF Payment
<1>3. bill'.paid \in Nat
  BY VoidStep DEF IInv, TypeOK, BillRow
<1>4. bill'.paid = bill.paid - payment[k].amount
  BY <1>1 DEF Settled, Bill
<1>5. Standing = "open" /\ Standing' = "open"
  BY <1>1, <1>3, <1>4, IssuedOpen
<1> HIDE DEF p
<1>6. Fates[k] = "credited" /\ AmountsOf[k] = payment[k].amount /\ Fate("VOIDED") = "returned"
  BY <1>1 DEF Fates, AmountsOf, Fate
<1>7. Fates' = [Fates EXCEPT ![k] = "returned"] /\ AmountsOf' = [AmountsOf EXCEPT ![k] = AmountsOf[k]]
  <2>1. Fates' = [Fates EXCEPT ![k] = Fate(p.status)] /\ AmountsOf' = [AmountsOf EXCEPT ![k] = p.amount]
    BY <1>1, FateMoves DEF IInv, TypeOK
  <2>2. QED
    BY <2>1, <1>2, <1>6
<1>8. AmountsOf' = AmountsOf
  BY <1>7 DEF AmountsOf
<1>9. QED
  BY <1>1, <1>4, <1>5, <1>6, <1>7, <1>8, TotalKept DEF Account!Void, Fates, AmountsOf

\* Every step is one of the account's, or leaves it.
LEMMA StepAccounts == IInv /\ [Next]_vars => AccountStep
<1> SUFFICES ASSUME IInv, [Next]_vars PROVE AccountStep
  OBVIOUS
<1>1. CASE UNCHANGED vars
  BY <1>1, LedgerUnmoved DEF vars, ledgerVars
<1>2. CASE Owner
  <2>1. CASE \/ \E m \in Multipliers :
                   \/ CreateMeter(m)
                   \/ \E active \in BOOLEAN : WearsOut(active, m) /\ UpdateMeter(active, m)
             \/ \E d \in Days, v \in Values : RecordReading(d, v) \/ CorrectMeter(d, v)
             \/ \E from \in TariffDays, rate \in Rates : CreateTariff(from, rate)
    <3>1. UNCHANGED ledgerVars
      BY <2>1 DEF CreateMeter, UpdateMeter, RecordReading, CorrectMeter, CreateTariff
    <3>2. QED
      BY <3>1, LedgerUnmoved
  <2>2. CASE Publish
    BY <2>2, PublishAccounts DEF AccountStep
  <2>3. CASE CancelBill
    BY <2>3, CancelAccounts DEF AccountStep, Account!Next
  <2>4. CASE \/ \E delta \in {-1, 1} :
                   correction.adjusted + delta \in -MaxAdjust..MaxAdjust /\ AdjustAmount(delta)
             \/ \E v \in Values : CorrectReading(v)
    <3>1. PICK c \in CorrectionRow : Corrects(c)
      BY <2>4, CorrectionsTyped
    <3>2. QED
      BY <3>1, CorrectAccounts DEF AccountStep, Account!Next
  <2>5. CASE \E k \in Keys : VoidPayment(k)
    BY <2>5, VoidAccounts DEF AccountStep, Account!Next
  <2>6. QED
    BY <1>2, <2>1, <2>2, <2>3, <2>4, <2>5 DEF Owner
<1>3. CASE \E w \in Workers : Ask(w) \/ Work(w)
  <2>1. PICK w \in Workers : Ask(w) \/ Work(w)
    BY <1>3
  <2>2. CASE GenerateBill(w)
    BY <2>2, GenerateAccounts DEF AccountStep, Account!Next
  <2>3. CASE RecordPayment(w)
    BY <2>3, RecordAccounts
  <2>4. CASE Ask(w) \/ NotGenerated(w) \/ AlreadyRecorded(w) \/ PaymentRefused(w)
    <3>1. UNCHANGED ledgerVars
      BY <2>4 DEF Ask, ReadClosing, BeginPayment, NotGenerated, AlreadyRecorded, PaymentRefused
    <3>2. QED
      BY <3>1, LedgerUnmoved
  <2>5. QED
    BY <2>1, <2>2, <2>3, <2>4 DEF Work
<1>4. QED
  BY <1>1, <1>2, <1>3 DEF Next

\* Nothing is owed, paid or cancelled before the bill is there.
LEMMA InitAccounts == Init => Account!Init
<1> SUFFICES ASSUME Init PROVE Account!Init
  OBVIOUS
<1>1. bill.paid = 0 /\ Standing = "open" /\ Total = 0
  BY DEF Init, Bill, Standing, Total, TotalOf, Charge, NoLine, Line, Correction
<1>2. \A k \in Keys : Fate(payment[k].status) = "new" /\ payment[k].amount = 0
  BY DEF Init, Fate, NoPayment, Payment
<1>3. QED
  BY <1>1, <1>2 DEF Account!Init, Account!Payments

\* MeterService, BillCorrectionService and PaymentService implement the account
\* of a bill: every interleaving of generation, corrections of either kind,
\* payments with repeated keys, voids and cancellation is whole credits within
\* what is due, voids of what was credited, and adjustments that never take the
\* total below what is paid.
THEOREM ImplementsAccount == Spec => AccountSpec
<1>1. IInv /\ [Next]_vars => [Account!Next]_(Account!vars)
  BY StepAccounts DEF AccountStep, Unmoved, Fates, AmountsOf, Account!vars
<1>2. QED
  BY <1>1, InitIInv, NextIInv, InitAccounts, PTL DEF Spec, AccountSpec, Account!Spec
=============================================================================
