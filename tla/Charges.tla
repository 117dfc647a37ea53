------------------------------ MODULE Charges ------------------------------
(***************************************************************************)
(* From a meter's readings to the electricity of a bill, its corrections   *)
(* and the payments the owner records (MeterService, MeterReadingService,  *)
(* TariffService, electricity_for_period, BillCorrectionService and        *)
(* PaymentService in apps/properties/services.py), for one meter and one   *)
(* month's bill.                                                           *)
(*                                                                         *)
(* A change of the meter, a reading, a correction of one and a new tariff  *)
(* are each decided and written under one lock (the meter's row, the       *)
(* tenant's): one step.  Generating the bill reads the meter, the tariff   *)
(* and the closing reading, then the opening one, and locks nothing.       *)
(* Recording a payment looks its idempotency key up before it waits for    *)
(* the bill.                                                               *)
(*                                                                         *)
(* Multipliers and rates are whole numbers, so nothing is rounded; the     *)
(* bill has no line but the electricity and its corrections; a receipt is  *)
(* its payment's row written twice.  Drafts edited, regenerated and        *)
(* numbered are in BillingCycle, online payments of the same bill in       *)
(* OnlinePayments.                                                         *)
(***************************************************************************)
EXTENDS Integers, FiniteSets, FiniteSetsExt

CONSTANTS
    FirstDay,   \* of the billed month; the days before are the month before
    LastDay,    \* of the billed month, today
    MaxValue,   \* bound: what the meter can show
    Rates,      \* rates per unit that may be set
    Multipliers, \* multipliers the meter may have
    MaxAdjust,  \* bound: what amount adjustments add up to, either way
    TariffDays, \* bound: days on which a tariff may begin
    Keys,       \* idempotency keys that requests use
    Workers,    \* concurrent requests
    None

ASSUME CalendarFits == FirstDay \in Nat /\ LastDay \in Nat /\ 1 < FirstDay /\ FirstDay <= LastDay
ASSUME TariffDaysAreDays == TariffDays \subseteq 1..LastDay
ASSUME RatesAreAmounts == Rates \subseteq Nat
ASSUME MultipliersArePositive == Multipliers \subseteq Nat \ {0}
ASSUME NoneIsNoNumber == None \notin Int
ASSUME BoundsAreNumbers == MaxValue \in Nat /\ MaxAdjust \in Nat
ASSUME KeysAreFinite == IsFiniteSet(Keys)

Days == 1..LastDay
Month == FirstDay..LastDay
Values == 0..MaxValue
Open == LastDay + 1     \* a tariff with no effective_to

VARIABLES
    meter,      \* the Meter row: is_active and multiplier
    reading,    \* what the meter showed on a day
    tariff,     \* the Tariff rows
    bill,       \* status and amount_paid_cents
    line,       \* the electricity line of the bill
    correction, \* its corrections: the last reading, the sums of both kinds
    payment,    \* the payment recorded under a key
    job         \* what each request is doing

vars == <<meter, reading, tariff, bill, line, correction, payment, job>>

Amounts == 1..(MaxValue + MaxAdjust)
Bill(status, paid) == [status |-> status, paid |-> paid]
BillRow == [status : {"NONE", "DRAFT", "PUBLISHED", "PARTIALLY_PAID", "PAID", "CANCELLED"}, paid : Nat]
Meter(active, multiplier) == [active |-> active, multiplier |-> multiplier]
NoMeter == Meter(FALSE, 0)
MeterRow == {NoMeter} \cup [active : BOOLEAN, multiplier : Multipliers]
Line(open, close, rate, multiplier) ==
    [open |-> open, close |-> close, rate |-> rate, multiplier |-> multiplier]
NoLine == Line(0, 0, 0, 0)
LineRow ==
    {NoLine} \cup
    {l \in [open : Values, close : Values, rate : Rates, multiplier : Multipliers] : l.open <= l.close}
Correction(close, units, adjusted) == [close |-> close, readings |-> units, adjusted |-> adjusted]
CorrectionRow == [close : Values, readings : Int, adjusted : -MaxAdjust..MaxAdjust]
Payment(status, amount) == [status |-> status, amount |-> amount]
NoPayment == Payment("NONE", 0)
PaymentRow == {NoPayment} \cup [status : {"COMPLETED", "VOIDED"}, amount : Amounts]
TariffRow == [from : Days, to : Days \cup {Open}, rate : Rates]

\* The closing reading, its day, the rate and the multiplier that were read;
\* the opening reading is next.
Seen(day, close, rate, multiplier) ==
    [day |-> day, close |-> close, rate |-> rate, multiplier |-> multiplier]
Unmetered == Seen(0, 0, 0, 0)
Job(op, key, amount, seen) == [op |-> op, key |-> key, amount |-> amount, seen |-> seen]
Idle == Job("idle", None, 0, Unmetered)
Paying(k, amount) == Job("pay", k, amount, Unmetered)
Billing(seen) == Job("bill", None, 0, seen)
Jobs ==
    {Idle} \cup {Paying(k, a) : k \in Keys, a \in Amounts}
           \cup {Billing(s) : s \in {Unmetered} \cup
                     [day : Month, close : Values, rate : Rates, multiplier : Multipliers]}

Init ==
    /\ meter = NoMeter
    /\ reading = [d \in Days |-> None]
    /\ tariff = {}
    /\ bill = Bill("NONE", 0)
    /\ line = NoLine
    /\ correction = Correction(0, 0, 0)
    /\ payment = [k \in Keys |-> NoPayment]
    /\ job = [w \in Workers |-> Idle]

Becomes(w, j) == job' = [job EXCEPT ![w] = j]
meterVars == <<meter, reading, tariff>>
ledgerVars == <<bill, line, correction, payment>>

----------------------------------------------------------------------------
(* The meter, its readings and the tariffs.                                *)

CreateMeter(multiplier) ==
    /\ meter = NoMeter
    /\ meter' = Meter(TRUE, multiplier)
    /\ UNCHANGED <<reading, tariff, ledgerVars, job>>

\* Bound: multipliers rise, and a meter put out of use stays so.
WearsOut(active, multiplier) ==
    meter.multiplier <= multiplier /\ (active => meter.active)

\* Nothing that was read or billed is looked at.
UpdateMeter(active, multiplier) ==
    /\ meter # NoMeter /\ meter # Meter(active, multiplier)
    /\ meter' = Meter(active, multiplier)
    /\ UNCHANGED <<reading, tariff, ledgerVars, job>>

Read(S) == {d \in S : reading[d] # None}
Before(d) == Read(1..(d - 1))
After(d) == Read((d + 1)..LastDay)
\* Mutant: only the reading before is compared.
RisesFrom(d, v) == Before(d) # {} => reading[Max(Before(d))] <= v
\* _check_chronology, against the nearest reading on either side.
Rises(d, v) ==
    /\ Before(d) # {} => reading[Max(Before(d))] <= v
    /\ After(d) # {} => v <= reading[Min(After(d))]

\* An inactive meter is refused before its lock: a reading that an update
\* overtakes there is one made just before it.
RecordReading(d, v) ==
    /\ meter.active
    /\ reading[d] = None /\ Rises(d, v)
    /\ reading' = [reading EXCEPT ![d] = v]
    /\ UNCHANGED <<meter, tariff, ledgerVars, job>>

\* The correction row keeps the old value; no bill is touched.
CorrectMeter(d, v) ==
    /\ reading[d] \notin {None, v} /\ Rises(d, v)
    /\ reading' = [reading EXCEPT ![d] = v]
    /\ UNCHANGED <<meter, tariff, ledgerVars, job>>

\* Mutant: both rates apply on the day of the change.
ClosedLate(t, from) == [t EXCEPT !.to = from]
Closed(t, from) == [t EXCEPT !.to = from - 1]

Latest(t) == \A s \in tariff : s.from <= t.from

\* The current tariff ends on the day before the new one starts.
CreateTariff(from, rate) ==
    /\ \A t \in tariff : t.from < from
    /\ tariff' =
           {IF Latest(t) /\ t.to >= from THEN Closed(t, from) ELSE t : t \in tariff}
           \cup {[from |-> from, to |-> Open, rate |-> rate]}
    /\ UNCHANGED <<meter, reading, ledgerVars, job>>

\* TariffService.applicable.
InForce(d) == {t \in tariff : t.from <= d /\ d <= t.to}
Applicable(d) == CHOOSE t \in InForce(d) : \A s \in InForce(d) : s.from <= t.from

----------------------------------------------------------------------------
(* electricity_for_period.                                                 *)

ClosingOf(month) == Max(Read(month))
\* Before the period, or for a first month the earliest one in it.
Openings(month, close) ==
    LET earlier == Read({d \in Days : \A e \in month : d < e})
        first == Read({d \in month : d < close})
    IN  IF earlier # {} THEN {Max(earlier)}
        ELSE IF first # {} THEN {Min(first)} ELSE {}

----------------------------------------------------------------------------
(* The bill.                                                               *)

\* MISSING_TARIFF and MISSING_READING end the request: nothing is written.
\* An inactive meter is passed over.
ReadClosing(w) ==
    /\ job[w] = Idle /\ bill.status = "NONE"
    /\ meter.active => Read(Month) # {} /\ InForce(LastDay) # {}
    /\ LET day == ClosingOf(Month) IN
       Becomes(w, Billing(IF meter.active
                          THEN Seen(day, reading[day], Applicable(LastDay).rate, meter.multiplier)
                          ELSE Unmetered))
    /\ UNCHANGED <<meterVars, ledgerVars>>

\* Mutant: a negative consumption is billed.
AnyUnits(open, close) == open \in Values /\ close \in Values
NoNegative(open, close) == open <= close

\* The electricity line; none when there was no meter to read, and no bill
\* when there is no opening reading or a consumption is negative.
LinesOf(seen) ==
    IF seen = Unmetered THEN {NoLine}
    ELSE {Line(reading[d], seen.close, seen.rate, seen.multiplier) :
              d \in {e \in Openings(Month, seen.day) : NoNegative(reading[e], seen.close)}}

\* The one bill of the month is created, unless another request has.
GenerateBill(w) ==
    /\ job[w].op = "bill" /\ bill.status = "NONE"
    /\ line' \in LinesOf(job[w].seen)
    /\ bill' = Bill("DRAFT", 0)
    /\ correction' = Correction(line'.close, 0, 0)
    /\ Becomes(w, Idle)
    /\ UNCHANGED <<meterVars, payment>>

\* MISSING_OPENING_READING, NEGATIVE_CONSUMPTION, or the bill exists.
NotGenerated(w) ==
    /\ job[w].op = "bill"
    /\ bill.status # "NONE" \/ LinesOf(job[w].seen) = {}
    /\ Becomes(w, Idle)
    /\ UNCHANGED <<meterVars, ledgerVars>>

\* recompute_totals: the line and every correction's delta.
Charge(l, close) == (close - l.open) * l.multiplier * l.rate
TotalOf(l, c) == Charge(l, l.close) + c.readings + c.adjusted
Total == TotalOf(line, correction)

\* settle_status, for an issued bill.
Settled(total, paid) ==
    Bill(IF paid <= 0 THEN IF total = 0 THEN "PAID" ELSE "PUBLISHED"
         ELSE IF paid >= total THEN "PAID" ELSE "PARTIALLY_PAID", paid)

Issued == bill.status \in {"PUBLISHED", "PARTIALLY_PAID", "PAID"}
Payable == bill.status \in {"PUBLISHED", "PARTIALLY_PAID"}

Publish ==
    /\ bill.status = "DRAFT"
    /\ bill' = Settled(Total, 0)
    /\ UNCHANGED <<meterVars, line, correction, payment, job>>

CancelBill ==
    /\ bill.status \notin {"NONE", "CANCELLED"} /\ bill.paid = 0
    /\ \A k \in Keys : payment[k].status # "COMPLETED"
    /\ bill' = Bill("CANCELLED", bill.paid)
    /\ UNCHANGED <<meterVars, line, correction, payment, job>>

\* Mutant: a bill may be corrected below what was paid.
AboveZero(total) == 0 <= total
AbovePaid(total) == 0 <= total /\ bill.paid <= total

\* BillCorrectionService._apply.
Corrects(c) ==
    /\ Issued /\ AbovePaid(TotalOf(line, c))
    /\ correction' = c
    /\ bill' = Settled(TotalOf(line, c), bill.paid)
    /\ UNCHANGED <<meterVars, line, payment, job>>

AdjustAmount(delta) ==
    Corrects(Correction(correction.close, correction.readings, correction.adjusted + delta))

\* Mutants: the amount on the line, not the one last corrected to; the
\* multiplier that the meter has now.
LineAmount == Charge(line, line.close)
AmountNow(v) == Charge([line EXCEPT !.multiplier = meter.multiplier], v)
\* What the electricity amounts to after the last correction of its reading.
EffectiveAmount == Charge(line, correction.close)
CorrectedAmount(v) == Charge(line, v)

CorrectReading(v) ==
    /\ line # NoLine
    /\ v # correction.close /\ v >= line.open
    /\ Corrects(Correction(v,
           correction.readings + CorrectedAmount(v) - EffectiveAmount,
           correction.adjusted))

----------------------------------------------------------------------------
(* Payments.                                                               *)

\* A key that is known is answered at once; nothing is written.
BeginPayment(w, k, amount) ==
    /\ job[w] = Idle /\ bill.status # "NONE"
    /\ payment[k] = NoPayment
    /\ Becomes(w, Paying(k, amount))
    /\ UNCHANGED <<meterVars, ledgerVars>>

Accepts(w) == Payable /\ job[w].amount <= Total - bill.paid

\* Mutant: two payments may have one key.
AnyKey(k) == k \in Keys
NewKey(k) == payment[k] = NoPayment

RecordPayment(w) ==
    LET k == job[w].key IN
    /\ job[w].op = "pay" /\ Accepts(w) /\ NewKey(k)
    /\ payment' = [payment EXCEPT ![k] = Payment("COMPLETED", job[w].amount)]
    /\ bill' = Settled(Total, bill.paid + job[w].amount)
    /\ Becomes(w, Idle)
    /\ UNCHANGED <<meterVars, line, correction>>

\* The constraint refuses the insert and the payment that is there answers.
AlreadyRecorded(w) ==
    /\ job[w].op = "pay" /\ Accepts(w) /\ payment[job[w].key] # NoPayment
    /\ Becomes(w, Idle)
    /\ UNCHANGED <<meterVars, ledgerVars>>

\* BILL_NOT_PAYABLE and OVERPAYMENT.
PaymentRefused(w) ==
    /\ job[w].op = "pay" /\ ~Accepts(w)
    /\ Becomes(w, Idle)
    /\ UNCHANGED <<meterVars, ledgerVars>>

VoidPayment(k) ==
    /\ payment[k].status = "COMPLETED"
    /\ payment' = [payment EXCEPT ![k] = Payment("VOIDED", payment[k].amount)]
    /\ bill' = Settled(Total, bill.paid - payment[k].amount)
    /\ UNCHANGED <<meterVars, line, correction, job>>

----------------------------------------------------------------------------

Work(w) ==
    \/ GenerateBill(w) \/ NotGenerated(w)
    \/ RecordPayment(w) \/ AlreadyRecorded(w) \/ PaymentRefused(w)

Ask(w) ==
    \/ ReadClosing(w)
    \/ \E k \in Keys, a \in Amounts : BeginPayment(w, k, a)

Owner ==
    \/ \E m \in Multipliers :
          \/ CreateMeter(m)
          \/ \E active \in BOOLEAN : WearsOut(active, m) /\ UpdateMeter(active, m)
    \/ \E d \in Days, v \in Values : RecordReading(d, v) \/ CorrectMeter(d, v)
    \/ \E from \in TariffDays, rate \in Rates : CreateTariff(from, rate)
    \/ Publish \/ CancelBill
    \/ \E delta \in {-1, 1} :
          correction.adjusted + delta \in -MaxAdjust..MaxAdjust /\ AdjustAmount(delta)
    \/ \E v \in Values : CorrectReading(v)
    \/ \E k \in Keys : VoidPayment(k)

Next == Owner \/ \E w \in Workers : Ask(w) \/ Work(w)

Spec == Init /\ [][Next]_vars

----------------------------------------------------------------------------

\* Every variable has its type.
TypeOK ==
    /\ meter \in MeterRow
    /\ reading \in [Days -> Values \cup {None}]
    /\ tariff \subseteq TariffRow
    /\ bill \in BillRow
    /\ line \in LineRow
    /\ correction \in CorrectionRow
    /\ payment \in [Keys -> PaymentRow]
    /\ job \in [Workers -> Jobs]

\* Readings are entered for past days and corrected in any order, each compared
\* with its nearest neighbours only; yet no two of them, however far apart, make
\* a negative consumption.  A generation, whose two queries are of two moments,
\* meets one only when the closing reading it has was corrected before it looked
\* for the opening one.
NegativeOnlyIfTorn ==
    /\ \A d, e \in Read(Days) : d <= e => reading[d] <= reading[e]
    /\ \A w \in Workers :
          LET seen == job[w].seen IN
          (job[w].op = "bill" /\ seen # Unmetered /\ reading[seen.day] = seen.close)
              => \A d \in Openings(Month, seen.day) : d < seen.day /\ NoNegative(reading[d], seen.close)

\* "closing = the latest reading dated within [period_start, period_end]": not
\* when one was entered or corrected between the two queries.
BilledAsRead ==
    [][(bill.status = "NONE" /\ bill'.status = "DRAFT" /\ line' # NoLine)
          => line'.close = reading[ClosingOf(Month)]]_vars

\* From the first tariff on, every day has exactly one rate ("Ranges never
\* overlap per (workspace, utility)"), so a bill does not depend on which of
\* two rows the query returns.
OneRateADay ==
    \A d \in Days : (\E t \in tariff : t.from <= d) => Cardinality(InForce(d)) = 1

\* However often the closing reading of an issued bill is corrected, between
\* adjustments, payments and changes of the meter, its electricity amounts to
\* the last reading's consumption at the rate and the multiplier it was billed
\* at: the deltas never accumulate.
CorrectionsTelescope ==
    bill.status # "NONE" =>
        Total - correction.adjusted = Charge(line, correction.close)

Recorded(k) == IF payment[k].status = "COMPLETED" THEN payment[k].amount ELSE 0
Paid == SumFunction([k \in Keys |-> Recorded(k)])

\* What is paid is the sum of the recorded payments, each counted once however
\* its request was repeated, and never more than the bill, which is settled
\* accordingly after corrections and voids in any order.
BillBalances ==
    /\ bill.paid = Paid
    /\ Issued => bill.paid <= Total /\ bill = Settled(Total, bill.paid)

\* "A retried request with the same `idempotency_key` returns the original
\* payment": not the one that looked the key up before the first had committed
\* and found the bill paid by it.
RetryReturnsOriginal ==
    [][\A w \in Workers :
          (PaymentRefused(w) /\ job'[w] = Idle)
             => payment[job[w].key] = NoPayment \/ payment[job[w].key].amount # job[w].amount]_vars

\* What BillAccount says of a payment under a key, and of the bill.
Fate(s) == CASE s = "COMPLETED" -> "credited" [] s = "VOIDED" -> "returned" [] OTHER -> "new"
Standing == IF bill.status = "CANCELLED" THEN "cancelled" ELSE "open"

Account == INSTANCE BillAccount WITH
    Orders <- {},
    total <- Total,
    paid <- bill.paid,
    standing <- Standing,
    fate <- [k \in Keys |-> Fate(payment[k].status)],
    amount <- [k \in Keys |-> payment[k].amount]

\* Seen from its money, the bill of a meter with its corrections, payments and
\* voids is an account: nothing is credited twice or above the total, no
\* correction takes the total below what is paid, a void takes back once what
\* was credited, and nothing moves a cancelled bill.
AccountSpec == Account!Spec
=============================================================================
