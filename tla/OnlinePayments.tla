--------------------------- MODULE OnlinePayments ---------------------------
(***************************************************************************)
(* Online payment of one bill (apps/properties/online_payments.py, its     *)
(* webhook view and its sweep), interleaved with what the owner does to    *)
(* the same bill (apps/properties/services.py) and with Cashfree.          *)
(*                                                                         *)
(* The program runs in workers: a web request or the Celery sweep.  A      *)
(* worker is a program counter and the values it read earlier and still    *)
(* holds.  A transaction that locks two rows takes two steps, the second   *)
(* one acquires the last lock and commits; a transaction that locks one    *)
(* row is one step that waits for the row to be free.  Rows are locked by  *)
(* SELECT ... FOR UPDATE under READ COMMITTED, and PostgreSQL breaks a     *)
(* cycle of waiting transactions by aborting one of them.                  *)
(*                                                                         *)
(* Different bills share no row, so one bill is enough.  Left out: the     *)
(* audit rows, notifications and receipts, last_payment_status and         *)
(* failure_message (display only, hence webhooks of failed payments), the  *)
(* rate limit on reads of the provider (a worker may or may not ask), and  *)
(* the currency (a mismatch is treated as the amount's).                   *)
(***************************************************************************)
EXTENDS Integers, FiniteSets, FiniteSetsExt

CONSTANTS
    Attempts,      \* OnlinePaymentAttempt rows that may come to exist
    ProviderPays,  \* payments the provider may see, over all orders
    OwnerKeys,     \* idempotency keys of the owner's offline payments
    Workers,       \* concurrent requests and sweeps
    Acts,          \* what else happens: the owner's "refund", "adjust", "cancel", and
                   \* "mispay", a capture of another amount than the order's
    MaxTotal,      \* bound on a bill's total, in currency units
    MaxCrashes,    \* bound on the workers that die in the middle
    None           \* no row, no worker

ASSUME DistinctKeys == Attempts \cap OwnerKeys = {}
ASSUME KeysAreFinite == IsFiniteSet(Attempts) /\ IsFiniteSet(OwnerKeys)
ASSUME NoneIsNone == None \notin Attempts \cup ProviderPays \cup Workers
ASSUME MaxTotalNat == MaxTotal \in Nat \ {0}
ASSUME MaxCrashesNat == MaxCrashes \in Nat

VARIABLES
    bill,         \* the Bill row: status, total, paid
    payment,      \* Payment rows by idempotency key ("online:<attempt>", the owner's)
    attempt,      \* OnlinePaymentAttempt rows
    age,          \* how near each attempt is to its expires_at
    provider,     \* the provider's payments
    refunded,     \* the provider's refunds, one refund id per attempt
    hook,         \* PropertyPaymentWebhookEvent of each successful payment
    worker,       \* what each worker is doing
    billLock,     \* the worker whose transaction has the bill row
    attemptLock,  \* the worker whose transaction has each attempt row
    crashes

vars == <<bill, payment, attempt, age, provider, refunded, hook,
          worker, billLock, attemptLock, crashes>>
providerVars == <<age, provider, refunded>>

PaymentKeys == Attempts \cup OwnerKeys

BillStatuses == {"PUBLISHED", "PARTIALLY_PAID", "PAID", "CANCELLED"}
OpenBill == {"PUBLISHED", "PARTIALLY_PAID"}     \* OPEN_BILL_STATUSES
IssuedBill == OpenBill \cup {"PAID"}            \* ISSUED_BILL_STATUSES

Open == {"CREATED", "ACTIVE"}
Unapplied == {"UNAPPLIED", "REFUND_PENDING", "REFUNDED"}
AttemptStatuses ==
    {"NONE", "SUCCEEDED", "FAILED", "EXPIRED"} \cup Open \cup Unapplied

Due == bill.total - bill.paid
OpenAttempts == {a \in Attempts : attempt[a].status \in Open}
PaysOf(a) == {p \in ProviderPays : provider[p].order = a}
Captured(p) == provider[p].status = "SUCCESS"

Idle == [pc |-> "idle", job |-> "none", a |-> None, copy |-> "NONE", p |-> None,
         pays |-> {}, ripe |-> FALSE, result |-> "NONE"]
\* start() has not chosen or created its attempt yet
Choosing == {"clock", "query", "reconcileLock", "applyLock", "applyBill", "startBill", "startAttempt"}

BillRow == [status : BillStatuses, total : 0..MaxTotal, paid : Int]
PaymentRow == [status : {"NONE", "COMPLETED", "VOIDED"}, amount : Int]
AttemptRow ==
    [status : AttemptStatuses, amount : Int, session : BOOLEAN,
     ppid : ProviderPays \cup {None}, closed : {"no", "lapsed", "unasked", "replaced", "stuck"}]
ProviderPay ==
    [order : Attempts \cup {None}, exact : BOOLEAN,
     status : {"NONE", "PENDING", "SUCCESS", "FAILED"}]
ProgramPoints ==
    {"idle", "clock", "query", "reconcileLock", "applyLock", "applyBill", "startBill",
     "startAttempt", "createOrder", "activate", "reject", "stuck", "refundCall", "refundWrite"}
Jobs == {"none", "hook", "start", "reconcile", "refund"}
WorkerRow ==
    [pc : ProgramPoints, job : Jobs, a : Attempts \cup {None}, copy : {"NONE"} \cup Open,
     p : ProviderPays \cup {None}, pays : SUBSET ProviderPays, ripe : BOOLEAN,
     result : {"NONE", "PENDING", "SUCCESS"}]

TypeOK ==
    /\ bill \in BillRow
    /\ payment \in [PaymentKeys -> PaymentRow]
    /\ attempt \in [Attempts -> AttemptRow]
    /\ age \in [Attempts -> {"fresh", "closing", "lapsed"}]
    /\ provider \in [ProviderPays -> ProviderPay]
    /\ refunded \in [Attempts -> {"NONE", "PENDING", "SUCCESS"}]
    /\ hook \in [ProviderPays -> {"unsent", "stored", "done", "error"}]
    /\ worker \in [Workers -> WorkerRow]
    /\ billLock \in Workers \cup {None}
    /\ attemptLock \in [Attempts -> Workers \cup {None}]
    /\ crashes \in 0..MaxCrashes

Init ==
    /\ \E t \in 1..MaxTotal :
           bill = [status |-> "PUBLISHED", total |-> t, paid |-> 0]
    /\ payment = [k \in PaymentKeys |-> [status |-> "NONE", amount |-> 0]]
    /\ attempt = [a \in Attempts |-> [status |-> "NONE", amount |-> 0,
                                      session |-> FALSE, ppid |-> None,
                                      closed |-> "no"]]
    /\ age = [a \in Attempts |-> "fresh"]
    /\ provider = [p \in ProviderPays |->
                      [order |-> None, exact |-> TRUE, status |-> "NONE"]]
    /\ refunded = [a \in Attempts |-> "NONE"]
    /\ hook = [p \in ProviderPays |-> "unsent"]
    /\ worker = [w \in Workers |-> Idle]
    /\ billLock = None
    /\ attemptLock = [a \in Attempts |-> None]
    /\ crashes = 0

-----------------------------------------------------------------------------
(* Small steps several handlers share.                                     *)

\* BillService.settle_status: the status that follows from total and paid.
Settle(b) ==
    [b EXCEPT !.status =
        IF b.status = "CANCELLED" THEN "CANCELLED"
        ELSE IF b.paid <= 0 THEN (IF b.total = 0 THEN "PAID" ELSE "PUBLISHED")
        ELSE IF b.paid >= b.total THEN "PAID" ELSE "PARTIALLY_PAID"]

\* What a worker may turn to: a job at a point of its program, possibly on an
\* attempt; a reconciliation that has just read the row, and the clock after it; a
\* stored webhook; the next point of the same job; nothing captured; captures to apply;
\* the bill row to wait for.
Job(job, pc, a) == [Idle EXCEPT !.job = job, !.pc = pc, !.a = a]
Rereading(job, a) == [Idle EXCEPT !.job = job, !.pc = "clock", !.a = a,
                                  !.copy = attempt[a].status]
Timed(w, pc) == [worker[w] EXCEPT !.pc = pc, !.ripe = (age[worker[w].a] = "lapsed")]
Delivered(p) == [Idle EXCEPT !.job = "hook", !.pc = "applyLock", !.pays = {p}]
At(w, pc) == [worker[w] EXCEPT !.pc = pc]
Unpaid(w, ripe) == [worker[w] EXCEPT !.pc = "reconcileLock", !.ripe = ripe]
Paid(w, pays) == [worker[w] EXCEPT !.pc = "applyLock", !.pays = pays, !.p = None,
                                    !.copy = "NONE", !.ripe = FALSE]
Crediting(w, a, p) == [worker[w] EXCEPT !.pc = "applyBill", !.a = a, !.p = p]
Answered(w, result) == [worker[w] EXCEPT !.pc = "refundWrite", !.result = result]

Become(w, r) == worker' = [worker EXCEPT ![w] = r]

\* What an attempt row may become: created for the amount due; confirmed by the
\* provider; closed without money, and why; holding a capture; another status.
Opened(a) == [attempt[a] EXCEPT !.status = "CREATED", !.amount = Due]
Confirmed(a) == [attempt[a] EXCEPT !.status = "ACTIVE", !.session = TRUE]
Closed(a, why) == [attempt[a] EXCEPT !.status = "EXPIRED", !.closed = why]
Holding(a, p, s) == [attempt[a] EXCEPT !.status = s, !.ppid = p]
Turned(a, s) == [attempt[a] EXCEPT !.status = s]

Put(a, row) == attempt' = [attempt EXCEPT ![a] = row]

\* reconcile() returned: inside start() the checkout goes on, else the job is done.
AfterReconcile(w) ==
    IF worker[w].job = "start"
        THEN Job("start", "startBill", None)
        ELSE Idle

\* apply_payment() returned for p: the next success of reconcile's loop, or its end.
AfterApply(w, p) ==
    IF worker[w].pays = {p}
        THEN AfterReconcile(w)
        ELSE Paid(w, worker[w].pays \ {p})

\* The webhook view records the outcome on its event row.
HookOutcome(w, p, outcome) ==
    hook' = IF worker[w].job = "hook" THEN [hook EXCEPT ![p] = outcome] ELSE hook

-----------------------------------------------------------------------------
(* start(): a resident asks for a checkout.                                *)

\* Bound: a start is served only while every start before it can get a new row.
RoomToStart ==
    Cardinality({a \in Attempts : attempt[a].status = "NONE"}) >
    Cardinality({w \in Workers : worker[w].job = "start" /\ worker[w].pc \in Choosing})

\* An ACTIVE checkout is first reconciled with the provider.
StartBegin(w) ==
    /\ worker[w].pc = "idle"
    /\ RoomToStart
    /\ \/ /\ \A a \in OpenAttempts : attempt[a].status # "ACTIVE"
          /\ Become(w, Job("start", "startBill", None))
       \/ \E a \in OpenAttempts :
              /\ attempt[a].status = "ACTIVE"
              /\ Become(w, Rereading("start", a))
    /\ UNCHANGED <<bill, payment, attempt, hook, billLock, attemptLock, crashes>>
    /\ UNCHANGED providerVars

\* The row an insertion takes, of those that do not exist: which makes no difference.
NextRow == CHOOSE a \in Attempts : attempt[a].status = "NONE"

\* Mutant: the superseded checkout is left open.
CreateBeside(w, a, old) ==
    /\ attempt[a].status = "NONE" /\ a = NextRow
    /\ Put(a, Opened(a))
    /\ Become(w, Job("start", "createOrder", a))

\* A new CREATED row for the amount due, the old one closed; commit.
CreateAttempt(w, a, old) ==
    /\ attempt[a].status = "NONE" /\ a = NextRow
    /\ attempt' = [x \in Attempts |->
           IF x = a THEN Opened(x)
           ELSE IF x = old THEN Closed(x, "replaced")
           ELSE attempt[x]]
    /\ Become(w, Job("start", "createOrder", a))

\* Lock the bill; refuse when nothing is payable, else look for the open
\* attempt: none means a new one, one means its row has to be locked too.
StartLockBill(w) ==
    /\ worker[w].pc = "startBill"
    /\ billLock = None
    /\ \/ /\ bill.status \notin OpenBill \/ Due <= 0
          /\ Become(w, Idle)
          /\ UNCHANGED <<attempt, billLock>>
       \/ /\ bill.status \in OpenBill /\ Due > 0
          /\ OpenAttempts = {}
          /\ \E a \in Attempts : CreateAttempt(w, a, None)
          /\ UNCHANGED billLock
       \/ /\ bill.status \in OpenBill /\ Due > 0
          /\ \E a \in OpenAttempts :
                 Become(w, Job("start", "startAttempt", a))
          /\ billLock' = w
          /\ UNCHANGED attempt
    /\ UNCHANGED <<bill, payment, hook, attemptLock, crashes>>
    /\ UNCHANGED providerVars

\* The open attempt can be handed out again.
Reusable(a) == attempt[a].amount = Due /\ age[a] = "fresh"

\* The attempt row is free.  If it was closed while we waited the query no
\* longer returns it; if it does not fit it is replaced; else it is reused.
StartLockAttempt(w) ==
    LET a == worker[w].a IN
    /\ worker[w].pc = "startAttempt"
    /\ attemptLock[a] = None
    /\ billLock' = None
    /\ \/ /\ attempt[a].status \notin Open
          /\ \E b \in Attempts : CreateAttempt(w, b, None)
       \/ /\ attempt[a].status \in Open
          /\ ~Reusable(a)
          /\ \E b \in Attempts : CreateAttempt(w, b, a)
       \/ /\ attempt[a].status \in Open
          /\ Reusable(a)
          /\ Become(w, IF attempt[a].status = "ACTIVE"
                       THEN Idle
                       ELSE At(w, "createOrder"))
          /\ UNCHANGED attempt
    /\ UNCHANGED <<bill, payment, hook, attemptLock, crashes>>
    /\ UNCHANGED providerVars

\* _ensure_provider_order: the call to the provider, outside any transaction.
\* It may succeed (or find and read back the order another request created),
\* be refused, stay in conflict for too long, or end with an unknown outcome
\* that leaves the row CREATED.
CreateOrder(w) ==
    /\ worker[w].pc = "createOrder"
    /\ \/ \E pc \in {"activate", "reject", "stuck"} : Become(w, At(w, pc))
       \/ Become(w, Idle)
    /\ UNCHANGED <<bill, payment, attempt, hook, billLock, attemptLock, crashes>>
    /\ UNCHANGED providerVars

\* The second transaction of _ensure_provider_order: only a CREATED row moves.
Unconfirmed(a) == attempt[a].status = "CREATED"
FinishStart(w, pc, row) ==
    LET a == worker[w].a IN
    /\ worker[w].pc = pc
    /\ attemptLock[a] = None
    /\ IF Unconfirmed(a) THEN Put(a, row) ELSE UNCHANGED attempt
    /\ Become(w, Idle)
    /\ UNCHANGED <<bill, payment, hook, billLock, attemptLock, crashes>>
    /\ UNCHANGED providerVars

Activate(w) == FinishStart(w, "activate", Confirmed(worker[w].a))
RejectOrder(w) == FinishStart(w, "reject", Turned(worker[w].a, "FAILED"))
ExpireStuck(w) == FinishStart(w, "stuck", Closed(worker[w].a, "stuck"))

-----------------------------------------------------------------------------
(* reconcile(): the return page and the sweep.                             *)

\* Mutant: only confirmed checkouts are swept.
ActiveOnly == {a \in Attempts : attempt[a].status = "ACTIVE"}
\* The attempts a sweep or a return page looks at: the open ones.
Reconcilable == {a \in Attempts : attempt[a].status \in Open}

\* Re-read the row, without locking it.
ReconcileBegin(w) ==
    /\ worker[w].pc = "idle"
    /\ \E a \in Reconcilable : Become(w, Rereading("reconcile", a))
    /\ UNCHANGED <<bill, payment, attempt, hook, billLock, attemptLock, crashes>>
    /\ UNCHANGED providerVars

\* Read the clock.  Whether the provider is asked depends on the copy: for a row
\* that was CREATED when it was read it is not, whatever became of it since.
ReadClock(w) ==
    /\ worker[w].pc = "clock"
    /\ Become(w, Timed(w, IF worker[w].copy = "ACTIVE" THEN "query" ELSE "reconcileLock"))
    /\ UNCHANGED <<bill, payment, attempt, hook, billLock, attemptLock, crashes>>
    /\ UNCHANGED providerVars

\* gateway.get_payment_status: successes are applied, otherwise the attempt
\* may be expired unless a payment is pending.
QueryAnswered(w) ==
    LET a == worker[w].a
        successes == {p \in PaysOf(a) : Captured(p)}
        pending == \E p \in PaysOf(a) : provider[p].status = "PENDING" IN
    /\ worker[w].pc = "query"
    /\ \/ /\ successes # {}
          /\ Become(w, Paid(w, successes))
       \/ /\ successes = {}
          /\ Become(w, Unpaid(w, worker[w].ripe /\ ~pending))
    /\ UNCHANGED <<bill, payment, attempt, hook, billLock, attemptLock, crashes>>
    /\ UNCHANGED providerVars

\* An outage of the provider leaves the attempt as it was.
QueryOutage(w) ==
    /\ worker[w].pc = "query"
    /\ Become(w, AfterReconcile(w))
    /\ UNCHANGED <<bill, payment, attempt, hook, billLock, attemptLock, crashes>>
    /\ UNCHANGED providerVars

\* Mutant: the clock is read after the provider answered.
RipeNow(w) == attempt[worker[w].a].status \in Open /\ age[worker[w].a] = "lapsed"
\* Still open, and past expires_at before the provider was asked.
Ripe(w) == attempt[worker[w].a].status \in Open /\ worker[w].ripe

\* Why the attempt is given up: the provider knows no payment of it, or was not asked.
GivenUp(w) == IF worker[w].copy = "ACTIVE" THEN "lapsed" ELSE "unasked"

\* Nothing was captured: expire the attempt if it was past expires_at before
\* the provider was asked.
ReconcileLock(w) ==
    LET a == worker[w].a IN
    /\ worker[w].pc = "reconcileLock"
    /\ attemptLock[a] = None
    /\ IF Ripe(w)
           THEN Put(a, Closed(a, GivenUp(w))) ELSE UNCHANGED attempt
    /\ Become(w, AfterReconcile(w))
    /\ UNCHANGED <<bill, payment, hook, billLock, attemptLock, crashes>>
    /\ UNCHANGED providerVars

-----------------------------------------------------------------------------
(* The webhook and apply_payment().                                        *)

\* A verified delivery of a capture is stored under its dedupe key; a
\* redelivery collides with it and is answered without being processed.
HookStore(w, p) ==
    /\ worker[w].pc = "idle"
    /\ Captured(p)
    /\ hook[p] = "unsent"
    /\ hook' = [hook EXCEPT ![p] = "stored"]
    /\ Become(w, Delivered(p))
    /\ UNCHANGED <<bill, payment, attempt, billLock, attemptLock, crashes>>
    /\ UNCHANGED providerVars

\* The attempt keeps the capture, the bill is not credited: to be refunded.
Unapply(a, p) == Put(a, Holding(a, p, "UNAPPLIED"))

\* Mutant: an expired attempt "cannot settle", as its docstring says.
FinishedOrExpired(a) == attempt[a].status \in {"SUCCEEDED", "EXPIRED"} \cup Unapplied
\* The capture of this order has already been dealt with.
Finished(a) == attempt[a].status \in {"SUCCEEDED"} \cup Unapplied

\* Mutant: the captured amount is not compared.
FitsAnyway(p) == p \in ProviderPays
\* The captured amount and currency are the attempt's.
Fits(p) == provider[p].exact

\* Lock the attempt.  A finished attempt and a wrong amount end here, else
\* the transaction goes on to PaymentService.record with the row locked.
ApplyLock(w) ==
    /\ worker[w].pc = "applyLock"
    /\ \E p \in worker[w].pays :
       LET a == provider[p].order IN
       /\ attemptLock[a] = None
       /\ \/ /\ Finished(a)
             /\ Become(w, AfterApply(w, p))
             /\ HookOutcome(w, p, "done")
             /\ UNCHANGED <<attempt, attemptLock>>
          \/ /\ ~Finished(a)
             /\ ~Fits(p)
             /\ Unapply(a, p)
             /\ Become(w, AfterApply(w, p))
             /\ HookOutcome(w, p, "done")
             /\ UNCHANGED attemptLock
          \/ /\ ~Finished(a)
             /\ Fits(p)
             /\ attemptLock' = [attemptLock EXCEPT ![a] = w]
             /\ Become(w, Crediting(w, a, p))
             /\ UNCHANGED <<attempt, hook>>
    /\ UNCHANGED <<bill, payment, billLock, crashes>>
    /\ UNCHANGED providerVars

\* What a payment of `amount` does to the bill row and the payment table.
Credit(key, amount) ==
    /\ payment' = [payment EXCEPT ![key] = [status |-> "COMPLETED", amount |-> amount]]
    /\ bill' = Settle([bill EXCEPT !.paid = @ + amount])

\* PaymentService.record takes the amount: the bill is payable, nothing is overpaid.
Accepts(amount) == bill.status \in OpenBill /\ amount <= Due

\* Mutant: the attempt's row stays locked.
KeepLock(a) == attemptLock' = attemptLock
\* The transaction ends.
ReleaseLock(a) == attemptLock' = [attemptLock EXCEPT ![a] = None]

\* PaymentService.record under the bill lock, and the attempt's outcome; commit.
ApplyBill(w) ==
    LET a == worker[w].a
        p == worker[w].p IN
    /\ worker[w].pc = "applyBill"
    /\ billLock = None
    /\ \/ /\ Accepts(attempt[a].amount)
          /\ Credit(a, attempt[a].amount)
          /\ Put(a, Holding(a, p, "SUCCEEDED"))
       \/ /\ ~Accepts(attempt[a].amount)
          /\ Unapply(a, p)
          /\ UNCHANGED <<bill, payment>>
    /\ ReleaseLock(a)
    /\ Become(w, AfterApply(w, p))
    /\ HookOutcome(w, p, "done")
    /\ UNCHANGED <<billLock, crashes>>
    /\ UNCHANGED providerVars

-----------------------------------------------------------------------------
(* Transactions that do not end: deadlock victims and dead processes.      *)

Deadlocked(v, u) ==
    /\ worker[v].pc = "startAttempt" /\ billLock = v
    /\ worker[u].pc = "applyBill" /\ worker[u].a = worker[v].a
    /\ attemptLock[worker[v].a] = u

\* start() is the victim: its request fails and nothing of it is kept.
AbortStart(v) ==
    /\ \E u \in Workers : Deadlocked(v, u)
    /\ billLock' = None
    /\ Become(v, Idle)
    /\ UNCHANGED <<bill, payment, attempt, hook, attemptLock, crashes>>
    /\ UNCHANGED providerVars

\* The outcome the view records when processing raised.
Failure == "error"

\* apply_payment() is the victim: the webhook view records the error and
\* answers 200; in a request or in the sweep the error ends the job.
AbortApply(u) ==
    /\ \E v \in Workers : Deadlocked(v, u)
    /\ attemptLock' = [attemptLock EXCEPT ![worker[u].a] = None]
    /\ HookOutcome(u, worker[u].p, Failure)
    /\ Become(u, Idle)
    /\ UNCHANGED <<bill, payment, attempt, billLock, crashes>>
    /\ UNCHANGED providerVars

\* The process dies: its transaction is rolled back, its event row stays.
Crash(w) ==
    /\ worker[w].pc # "idle"
    /\ crashes < MaxCrashes
    /\ crashes' = crashes + 1
    /\ Become(w, Idle)
    /\ billLock' = IF billLock = w THEN None ELSE billLock
    /\ attemptLock' = [a \in Attempts |->
                          IF attemptLock[a] = w THEN None ELSE attemptLock[a]]
    /\ UNCHANGED <<bill, payment, attempt, hook>>
    /\ UNCHANGED providerVars

-----------------------------------------------------------------------------
(* refund(): the owner returns an UNAPPLIED capture.                       *)

\* Mutant: an expired checkout with a capture is refunded directly.
RefundableCapture(a) == /\ attempt[a].status \in {"UNAPPLIED", "REFUND_PENDING", "EXPIRED"}
                        /\ \E p \in PaysOf(a) : Captured(p)
\* Only money held for refund goes back.
Refundable(a) == attempt[a].status \in {"UNAPPLIED", "REFUND_PENDING"}

RefundBegin(w, a) ==
    /\ "refund" \in Acts
    /\ worker[w].pc = "idle"
    /\ attemptLock[a] = None
    /\ Refundable(a)
    /\ Put(a, Turned(a, "REFUND_PENDING"))
    /\ Become(w, Job("refund", "refundCall", a))
    /\ UNCHANGED <<bill, payment, hook, billLock, attemptLock, crashes>>
    /\ UNCHANGED providerVars

\* The same refund id every time: the provider refunds once and a repeated
\* call reads it back.  It may also refuse, or not answer.
RefundCall(w) ==
    LET a == worker[w].a IN
    /\ worker[w].pc = "refundCall"
    /\ \/ /\ \E answer \in {"PENDING", "SUCCESS"} :
                 refunded' = [refunded EXCEPT ![a] = IF @ = "NONE" THEN answer ELSE @]
          /\ \/ Become(w, Answered(w, refunded'[a]))
             \/ Become(w, Idle)
       \/ /\ refunded[a] = "NONE"
          /\ Become(w, Idle)
          /\ UNCHANGED refunded
    /\ UNCHANGED <<bill, payment, attempt, age, provider, hook,
                   billLock, attemptLock, crashes>>

\* Mutant: the provider's status goes to the wrong column.
WriteResult(a, r) == Put(a, Turned(a, r))
\* refund_status is what the provider said; only SUCCESS moves the status.
WriteRefund(a, r) ==
    IF r = "SUCCESS" THEN Put(a, Turned(a, "REFUNDED")) ELSE UNCHANGED attempt

RefundWrite(w) ==
    LET a == worker[w].a IN
    /\ worker[w].pc = "refundWrite"
    /\ attemptLock[a] = None
    /\ WriteRefund(a, worker[w].result)
    /\ Become(w, Idle)
    /\ UNCHANGED <<bill, payment, hook, billLock, attemptLock, crashes>>
    /\ UNCHANGED providerVars

-----------------------------------------------------------------------------
(* The owner's transactions on the bill; each locks the bill row only.     *)

OwnerStep == UNCHANGED <<attempt, hook, worker, billLock, attemptLock, crashes>>
             /\ UNCHANGED providerVars

RecordOffline(k, amount) ==
    /\ billLock = None
    /\ payment[k].status = "NONE"
    /\ Accepts(amount)
    /\ Credit(k, amount)
    /\ OwnerStep

\* Mutant: a voided payment can be voided again.
VoidableAgain(k) == payment[k].status # "NONE"
\* An offline payment that still counts; a second void changes nothing.
Voidable(k) == payment[k].status = "COMPLETED"

VoidOffline(k) ==
    /\ billLock = None
    /\ Voidable(k)
    /\ payment' = [payment EXCEPT ![k].status = "VOIDED"]
    /\ bill' = Settle([bill EXCEPT !.paid = @ - payment[k].amount])
    /\ OwnerStep

AdjustAmount(total) ==
    /\ "adjust" \in Acts
    /\ billLock = None
    /\ bill.status \in IssuedBill
    /\ total # bill.total
    /\ total >= bill.paid
    /\ bill' = Settle([bill EXCEPT !.total = total])
    /\ UNCHANGED payment
    /\ OwnerStep

\* Mutant: a bill that is partly paid can be cancelled.
Unsettled == bill.status # "PAID"
\* Nothing is recorded against the bill.
Uncredited == bill.paid <= 0 /\ \A k \in PaymentKeys : payment[k].status # "COMPLETED"

CancelBill ==
    /\ "cancel" \in Acts
    /\ billLock = None
    /\ bill.status # "CANCELLED"
    /\ Uncredited
    /\ bill' = [bill EXCEPT !.status = "CANCELLED"]
    /\ UNCHANGED payment
    /\ OwnerStep

-----------------------------------------------------------------------------
(* The world outside: the clock, the resident and Cashfree.                *)

WorldStep == UNCHANGED <<bill, payment, attempt, hook, worker, billLock, attemptLock, crashes>>

Tick(a) ==
    /\ attempt[a].status # "NONE"
    /\ age[a] # "lapsed"
    /\ age' = [age EXCEPT ![a] = IF @ = "fresh" THEN "closing" ELSE "lapsed"]
    /\ UNCHANGED <<provider, refunded>>
    /\ WorldStep

\* The resident pays in the provider's page: it needs the session, and the
\* provider takes no new payment after the order's expiry or once it is paid.
BeginPay(p, a) ==
    /\ provider[p].status = "NONE"
    /\ attempt[a].session
    /\ age[a] # "lapsed"
    /\ \A q \in PaysOf(a) : ~Captured(q)
    /\ \E exact \in {TRUE} \cup (IF "mispay" \in Acts THEN {FALSE} ELSE {}) :
           provider' = [provider EXCEPT ![p] =
               [order |-> a, exact |-> exact, status |-> "PENDING"]]
    /\ UNCHANGED <<age, refunded>>
    /\ WorldStep

EndPay(p) ==
    /\ provider[p].status = "PENDING"
    /\ \E s \in {"SUCCESS", "FAILED"} :
           provider' = [provider EXCEPT ![p].status = s]
    /\ UNCHANGED <<age, refunded>>
    /\ WorldStep

RefundClears(a) ==
    /\ refunded[a] = "PENDING"
    /\ refunded' = [refunded EXCEPT ![a] = "SUCCESS"]
    /\ UNCHANGED <<age, provider>>
    /\ WorldStep

-----------------------------------------------------------------------------
\* What a worker does, from the request or the sweep that wakes it to the end.
Begin(w) == \/ StartBegin(w)
            \/ ReconcileBegin(w)
            \/ \E p \in ProviderPays : HookStore(w, p)
            \/ \E a \in Attempts : RefundBegin(w, a)
Continue(w) ==
    \/ StartLockBill(w) \/ StartLockAttempt(w) \/ CreateOrder(w)
    \/ Activate(w) \/ RejectOrder(w) \/ ExpireStuck(w)
    \/ ReadClock(w) \/ QueryAnswered(w) \/ QueryOutage(w) \/ ReconcileLock(w)
    \/ ApplyLock(w) \/ ApplyBill(w)
    \/ RefundCall(w) \/ RefundWrite(w)
Abort(w) == AbortStart(w) \/ AbortApply(w)

Owner == \/ \E k \in OwnerKeys : VoidOffline(k) \/ \E m \in 1..MaxTotal : RecordOffline(k, m)
         \/ \E t \in 0..MaxTotal : AdjustAmount(t)
         \/ CancelBill
World == \/ \E a \in Attempts : Tick(a) \/ RefundClears(a)
         \/ \E p \in ProviderPays : EndPay(p) \/ \E a \in Attempts : BeginPay(p, a)

Next == \/ \E w \in Workers : Begin(w) \/ Continue(w) \/ Abort(w) \/ Crash(w)
        \/ Owner
        \/ World

Spec == Init /\ [][Next]_vars

\* PostgreSQL queues lock waiters and ends every deadlock; the beat schedule
\* runs the sweep again and again; the provider answers some of its queries,
\* decides every payment and delivers every webhook at least once; the clock
\* moves; and the resident stops pressing Pay at some point.  Nobody has to
\* start a checkout, pay, refund or edit the bill.
Fairness ==
    /\ <>[][\A w \in Workers : ~StartBegin(w)]_vars
    /\ \A w \in Workers : SF_vars(Continue(w))
    /\ WF_vars(\E w \in Workers : Abort(w))
    /\ SF_vars(\E w \in Workers : ReconcileBegin(w))
    /\ SF_vars(\E w \in Workers : QueryAnswered(w))
    /\ \A p \in ProviderPays :
           WF_vars(EndPay(p)) /\ SF_vars(\E w \in Workers : HookStore(w, p))
    /\ \A a \in Attempts : WF_vars(Tick(a))

FairSpec == Spec /\ Fairness

-----------------------------------------------------------------------------
(* Safety.                                                                 *)

\* bill.amount_paid_cents is exactly the completed payments, online and
\* offline, whatever transactions interleaved (record and void keep a running
\* total that nothing recomputes).
Recorded(k) == IF payment[k].status = "COMPLETED" THEN payment[k].amount ELSE 0
PaidIsRecorded == bill.paid = SumFunction([k \in PaymentKeys |-> Recorded(k)])

\* Online captures, offline payments, voids, corrections and cancellation
\* together never credit more than the total, and the status column says what
\* total and paid say.
NeverOverpaid ==
    /\ bill.paid <= bill.total
    /\ Settle(bill) = bill

\* Two starts, or a start and a reconciliation, never leave two open checkouts
\* of the bill: the constraint one_open_online_attempt_per_bill is never hit.
OneOpenAttempt == \A a, b \in OpenAttempts : a = b

\* The bill carries an online payment exactly for the attempts that succeeded,
\* and behind each there is one capture of that order and that amount.
CreditBacked ==
    \A a \in Attempts :
        /\ (payment[a].status = "COMPLETED") <=> (attempt[a].status = "SUCCEEDED")
        /\ attempt[a].status = "SUCCEEDED" =>
               /\ payment[a].amount = attempt[a].amount
               /\ attempt[a].ppid \in PaysOf(a)
               /\ Captured(attempt[a].ppid)
               /\ provider[attempt[a].ppid].exact

\* Money is sent back only for a capture that no bill was credited with, and
\* REFUNDED is written only when the provider says the refund went through.
RefundOnlyUncredited ==
    \A a \in Attempts :
        /\ refunded[a] # "NONE" =>
               /\ attempt[a].status \in {"REFUND_PENDING", "REFUNDED"}
               /\ payment[a].status = "NONE"
               /\ attempt[a].ppid \in PaysOf(a) /\ Captured(attempt[a].ppid)
        /\ attempt[a].status = "REFUNDED" => refunded[a] = "SUCCESS"

\* reconcile() never gives up an order it asked the provider about and that was or
\* may still be paid: it read the clock before it asked, and a pending payment holds
\* it back.  (An order it did not ask about, because its copy of the row was still
\* CREATED, may have been confirmed and paid since: see UnaskedUnpaid.)
LapsedUnpaid ==
    \A a \in Attempts : attempt[a].closed = "lapsed" /\ attempt[a].status = "EXPIRED" =>
        \A p \in PaysOf(a) : provider[p].status = "FAILED"

\* models.py: "EXPIRED  not paid before expiry".  Not so when reconcile() read the
\* row before the order was confirmed, and the clock after it was paid and lapsed.
UnaskedUnpaid ==
    \A a \in Attempts : attempt[a].closed = "unasked" /\ attempt[a].status = "EXPIRED" =>
        \A p \in PaysOf(a) : ~Captured(p)

\* The attempt holds this capture: its bill was credited with it, or it is set
\* aside for refund or refunded.
Accounted(p) ==
    \E a \in Attempts : /\ provider[p].order = a /\ attempt[a].ppid = p
                       /\ attempt[a].status \in Unapplied \cup {"SUCCEEDED"}

\* The attempt holds another capture of the order: this one is in excess, which
\* apply_payment notes in the audit log at most ("duplicate_capture").
Surplus(p) ==
    \E a \in Attempts : /\ provider[p].order = a /\ attempt[a].ppid \in PaysOf(a) \ {p}
                       /\ attempt[a].status \in Unapplied \cup {"SUCCEEDED"}

\* A webhook whose processing was reported as done left its capture on the bill or
\* held for refund, unless the order had been dealt with through another capture.
DoneMeansAccounted ==
    \A p \in ProviderPays : hook[p] = "done" => Accounted(p) \/ Surplus(p)

\* An attempt never reopens, credit and refund are final, and money held for
\* refund is never credited after all.
AttemptMoves ==
    [][\A a \in Attempts :
          LET s == attempt[a].status
              t == attempt'[a].status IN
          s # t => \/ s = "NONE" /\ t = "CREATED"
                   \/ s = "CREATED" /\ t \in {"ACTIVE", "FAILED"}
                   \/ s \in Open /\ t = "EXPIRED"
                   \/ s \in Open \cup {"EXPIRED", "FAILED"} /\ t \in {"SUCCEEDED", "UNAPPLIED"}
                   \/ s = "UNAPPLIED" /\ t = "REFUND_PENDING"
                   \/ s = "REFUND_PENDING" /\ t = "REFUNDED"]_attempt

\* models.py: "EXPIRED  not paid before expiry (or superseded); cannot settle".
ExpiredNeverSettles ==
    [][\A a \in Attempts :
          attempt[a].status = "EXPIRED" => attempt'[a].status # "SUCCEEDED"]_attempt

-----------------------------------------------------------------------------
(* Who waits for whom.                                                     *)

\* The row w locks next is in v's hands.
Waits(w, v) ==
    LET r == worker[w] IN
    \/ r.pc \in {"startBill", "applyBill"} /\ billLock = v
    \/ /\ r.pc \in {"startAttempt", "activate", "reject", "stuck", "reconcileLock", "refundWrite"}
       /\ attemptLock[r.a] = v
    \/ r.pc = "applyLock" /\ \E p \in r.pays : attemptLock[provider[p].order] = v

\* start() takes the bill and then the attempt, apply_payment the attempt and then
\* the bill.  However many requests and sweeps wait for one another in a circle,
\* two of them are a pair the database finds and breaks: no other deadlock exists.
DeadlocksBroken ==
    \A group \in SUBSET Workers :
        (group # {} /\ \A w \in group : \E v \in group : Waits(w, v))
            => \E v, u \in group : Deadlocked(v, u)

-----------------------------------------------------------------------------
(* Refinement.                                                             *)

\* What became of an attempt's money, and of an offline payment's.
AttemptFate(s) ==
    CASE s = "SUCCEEDED" -> "credited"
      [] s \in {"UNAPPLIED", "REFUND_PENDING"} -> "held"
      [] s = "REFUNDED" -> "returned"
      [] OTHER -> "new"
PaymentFate(s) ==
    CASE s = "COMPLETED" -> "credited" [] s = "VOIDED" -> "returned" [] OTHER -> "new"
Fate(k) ==
    IF k \in Attempts THEN AttemptFate(attempt[k].status) ELSE PaymentFate(payment[k].status)

Account == INSTANCE BillAccount WITH
    Orders <- Attempts,
    Keys <- OwnerKeys,
    total <- bill.total,
    paid <- bill.paid,
    standing <- IF bill.status = "CANCELLED" THEN "cancelled" ELSE "open",
    fate <- [k \in PaymentKeys |-> Fate(k)],
    amount <- [k \in PaymentKeys |-> payment[k].amount]

\* Seen from the account of the bill, every interleaving of checkouts, webhooks,
\* sweeps, refunds, deaths and the owner's corrections is a sequence of whole
\* credits within what is due, voids, holds and returns: nothing is credited
\* twice, partly, or after it was set aside to be returned.
AccountSpec == Account!Spec

-----------------------------------------------------------------------------
(* Liveness.                                                               *)

\* Every request and every sweep ends: a lock cycle between start (bill, then
\* attempt) and apply_payment (attempt, then bill) is always broken.
WorkersFinish == \A w \in Workers : []<>(worker[w].pc = "idle")

\* No checkout stays open for ever: it is paid, refused, replaced, or expired
\* by the sweep, even when the webhook and the browser never come back.
OpenAttemptsClose ==
    \A a \in Attempts : []<>(attempt[a].status \notin Open)

\* The event row was stored and the worker that was to process it is gone: a
\* redelivery collides with the row, so nothing processes it any more.
Abandoned(p) ==
    /\ hook[p] = "stored"
    /\ \A w \in Workers : worker[w].job = "hook" => p \notin worker[w].pays

\* Every capture ends on the bill or held for refund, or in excess of another of
\* its order, unless its one webhook failed or died after it was stored.  Those two
\* are where a capture can stay nowhere: only the sweep could still find it, and the
\* sweep looks at open attempts.
CapturesAccounted ==
    \A p \in ProviderPays :
        Captured(p) ~> (Accounted(p) \/ Surplus(p) \/ hook[p] = "error" \/ Abandoned(p))

\* online_payment_views.py: after a processing failure "the reconciliation
\* sweep, which asks Cashfree directly, finishes the job".
FailedHooksFinished ==
    \A p \in ProviderPays : hook[p] = "error" ~> Accounted(p)
=============================================================================
