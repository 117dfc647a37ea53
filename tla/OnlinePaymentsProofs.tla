------------------------ MODULE OnlinePaymentsProofs ------------------------
(***************************************************************************)
(* Proofs about OnlinePayments, for every set of attempts, provider        *)
(* payments and workers and every bound.  The inductive invariant is built *)
(* in layers; each layer is proved from the layers before it.              *)
(***************************************************************************)
EXTENDS OnlinePayments, FiniteSetTheorems, WellFoundedInduction, TLAPS

-----------------------------------------------------------------------------
(* The rows the steps write: what each constructor keeps and changes.      *)

LEMMA IdleRow ==
    /\ Idle \in WorkerRow
    /\ Idle.pc = "idle" /\ Idle.job = "none" /\ Idle.a = None /\ Idle.p = None
    /\ Idle.pays = {} /\ ~Idle.ripe /\ Idle.result = "NONE"
  BY DEF Idle, WorkerRow, ProgramPoints, Jobs

LEMMA JobRow ==
    ASSUME NEW job \in Jobs, NEW pc \in ProgramPoints, NEW a
    PROVE  LET r == Job(job, pc, a) IN
           /\ a \in Attempts \/ a = None => r \in WorkerRow
           /\ r.pc = pc /\ r.job = job /\ r.a = a
           /\ r.pays = {} /\ ~r.ripe
  BY DEF Job, Idle, WorkerRow

LEMMA RereadingRow ==
    ASSUME NEW job \in Jobs, NEW a \in Attempts, attempt[a].status \in Open
    PROVE  LET r == Rereading(job, a) IN
           /\ r \in WorkerRow
           /\ r.pc = "clock" /\ r.job = job /\ r.a = a /\ r.pays = {}
  BY DEF Rereading, Idle, WorkerRow, ProgramPoints

LEMMA TimedRow ==
    ASSUME NEW w \in Workers, worker[w] \in WorkerRow, NEW pc \in {"query", "reconcileLock"}
    PROVE  LET r == Timed(w, pc) IN
           /\ r \in WorkerRow
           /\ r.pc = pc /\ r.a = worker[w].a /\ r.pays = worker[w].pays
           /\ r.copy = worker[w].copy
           /\ r.ripe <=> (age[r.a] = "lapsed")
<1>1. (age[worker[w].a] = "lapsed") \in BOOLEAN
  OBVIOUS
<1>2. QED
  BY <1>1 DEF Timed, WorkerRow, ProgramPoints

\* The rows of requests and sweeps as the handlers write them.
LEMMA FreshRows ==
    /\ LET r == Job("start", "startBill", None) IN
           r \in WorkerRow /\ r.pc = "startBill" /\ r.job = "start" /\ r.pays = {}
    /\ \A a \in Attempts :
          /\ LET r == Job("start", "createOrder", a) IN
                 r \in WorkerRow /\ r.pc = "createOrder" /\ r.a = a /\ r.job = "start" /\ r.pays = {}
          /\ LET r == Job("start", "startAttempt", a) IN
                 r \in WorkerRow /\ r.pc = "startAttempt" /\ r.a = a /\ r.job = "start" /\ r.pays = {}
          /\ LET r == Job("refund", "refundCall", a) IN
                 r \in WorkerRow /\ r.pc = "refundCall" /\ r.a = a /\ r.job = "refund" /\ r.pays = {}
          /\ attempt[a].status \in Open => \A job \in {"start", "reconcile"} :
                 LET r == Rereading(job, a) IN
                 r \in WorkerRow /\ r.pc = "clock" /\ r.a = a /\ r.pays = {}
  BY JobRow, RereadingRow DEF ProgramPoints, Jobs

LEMMA DeliveredRow ==
    ASSUME NEW p \in ProviderPays
    PROVE  LET r == Delivered(p) IN
           /\ r \in WorkerRow
           /\ r.pc = "applyLock" /\ r.job = "hook" /\ r.pays = {p} /\ ~r.ripe
  BY DEF Delivered, Idle, WorkerRow, ProgramPoints, Jobs

LEMMA AtRow ==
    ASSUME NEW w \in Workers, worker[w] \in WorkerRow, NEW pc \in ProgramPoints
    PROVE  LET r == At(w, pc) IN
           /\ r \in WorkerRow
           /\ r.pc = pc /\ r.job = worker[w].job /\ r.a = worker[w].a
           /\ r.pays = worker[w].pays /\ r.ripe = worker[w].ripe
  BY DEF At, WorkerRow

LEMMA UnpaidRow ==
    ASSUME NEW w \in Workers, worker[w] \in WorkerRow, NEW ripe \in BOOLEAN
    PROVE  LET r == Unpaid(w, ripe) IN
           /\ r \in WorkerRow
           /\ r.pc = "reconcileLock" /\ r.job = worker[w].job /\ r.a = worker[w].a
           /\ r.pays = worker[w].pays /\ r.ripe = ripe /\ r.copy = worker[w].copy
  BY DEF Unpaid, WorkerRow, ProgramPoints

LEMMA PaidRow ==
    ASSUME NEW w \in Workers, worker[w] \in WorkerRow, NEW pays \in SUBSET ProviderPays
    PROVE  LET r == Paid(w, pays) IN
           /\ r \in WorkerRow
           /\ r.pc = "applyLock" /\ r.job = worker[w].job /\ r.a = worker[w].a
           /\ r.pays = pays /\ ~r.ripe
  BY DEF Paid, WorkerRow, ProgramPoints

LEMMA CreditingRow ==
    ASSUME NEW w \in Workers, worker[w] \in WorkerRow, NEW a \in Attempts, NEW p \in ProviderPays
    PROVE  LET r == Crediting(w, a, p) IN
           /\ r \in WorkerRow
           /\ r.pc = "applyBill" /\ r.job = worker[w].job /\ r.a = a /\ r.p = p
           /\ r.pays = worker[w].pays
  BY DEF Crediting, WorkerRow, ProgramPoints

LEMMA AnsweredRow ==
    ASSUME NEW w \in Workers, worker[w] \in WorkerRow, NEW result \in {"PENDING", "SUCCESS"}
    PROVE  LET r == Answered(w, result) IN
           /\ r \in WorkerRow
           /\ r.pc = "refundWrite" /\ r.a = worker[w].a /\ r.pays = worker[w].pays
           /\ r.result = result
  BY DEF Answered, WorkerRow, ProgramPoints

LEMMA AfterReconcileRow ==
    ASSUME NEW w \in Workers
    PROVE  LET r == AfterReconcile(w) IN
           /\ r \in WorkerRow
           /\ r.pc \in {"idle", "startBill"}
           /\ r.pays = {}
<1>1. None \in Attempts \cup {None} /\ "startBill" \in ProgramPoints /\ "start" \in Jobs
  BY DEF ProgramPoints, Jobs
<1>2. AfterReconcile(w) = Job("start", "startBill", None) \/ AfterReconcile(w) = Idle
  BY DEF AfterReconcile
<1>3. CASE AfterReconcile(w) = Job("start", "startBill", None)
  BY <1>1, <1>3, JobRow
<1>4. CASE AfterReconcile(w) = Idle
  BY <1>4, IdleRow
<1>5. QED
  BY <1>2, <1>3, <1>4

LEMMA AfterApplyRow ==
    ASSUME NEW w \in Workers, worker[w] \in WorkerRow, NEW p
    PROVE  LET r == AfterApply(w, p) IN
           /\ r \in WorkerRow
           /\ r.pc \in {"idle", "startBill", "applyLock"}
           /\ r.pays \subseteq worker[w].pays
<1>1. worker[w].pays \in SUBSET ProviderPays
  BY DEF WorkerRow
<1>2. worker[w].pays \ {p} \in SUBSET ProviderPays
  BY <1>1
<1>3. CASE worker[w].pays = {p}
  BY <1>3, AfterReconcileRow DEF AfterApply
<1>4. CASE worker[w].pays # {p}
  BY <1>2, <1>4, PaidRow DEF AfterApply
<1>5. QED
  BY <1>3, <1>4

LEMMA Becomes ==
    ASSUME worker \in [Workers -> WorkerRow], NEW w \in Workers, NEW r \in WorkerRow,
           Become(w, r)
    PROVE  /\ worker' \in [Workers -> WorkerRow]
           /\ worker'[w] = r
           /\ \A v \in Workers \ {w} : worker'[v] = worker[v]
  BY DEF Become

LEMMA AttemptRows ==
    ASSUME TypeOK, NEW a \in Attempts
    PROVE  /\ Opened(a) \in AttemptRow /\ Confirmed(a) \in AttemptRow
           /\ \A why \in {"lapsed", "unasked", "replaced", "stuck"} : Closed(a, why) \in AttemptRow
           /\ \A p \in ProviderPays \cup {None}, s \in AttemptStatuses : Holding(a, p, s) \in AttemptRow
           /\ \A s \in AttemptStatuses : Turned(a, s) \in AttemptRow
<1>1. attempt[a] \in AttemptRow /\ Due \in Int
  BY DEF TypeOK, BillRow, Due
<1>2. \A s \in AttemptStatuses : Turned(a, s) \in AttemptRow
  BY <1>1 DEF AttemptRow, Turned
<1>3. ASSUME NEW p \in ProviderPays \cup {None}, NEW s \in AttemptStatuses
      PROVE  Holding(a, p, s) \in AttemptRow
  BY <1>1 DEF AttemptRow, Holding
<1>4. ASSUME NEW why \in {"lapsed", "unasked", "replaced", "stuck"}
      PROVE  Closed(a, why) \in AttemptRow
  BY <1>1 DEF AttemptRow, Closed, AttemptStatuses
<1>5. Opened(a) \in AttemptRow
  BY <1>1 DEF AttemptRow, Opened, AttemptStatuses, Open
<1>6. Confirmed(a) \in AttemptRow
  BY <1>1 DEF AttemptRow, Confirmed, AttemptStatuses, Open
<1>7. QED
  BY <1>2, <1>3, <1>4, <1>5, <1>6

\* Each constructor changes what it names and keeps the rest of the row.
LEMMA AttemptFields ==
    ASSUME TypeOK, NEW a \in Attempts
    PROVE  /\ LET r == Opened(a) IN
              /\ r.status = "CREATED" /\ r.amount = Due /\ (r.session <=> attempt[a].session)
              /\ r.ppid = attempt[a].ppid /\ r.closed = attempt[a].closed
           /\ LET r == Confirmed(a) IN
              /\ r.status = "ACTIVE" /\ r.amount = attempt[a].amount /\ r.session
              /\ r.ppid = attempt[a].ppid /\ r.closed = attempt[a].closed
           /\ \A why \in {"lapsed", "unasked", "replaced", "stuck"} :
                 LET r == Closed(a, why) IN
                 /\ r.status = "EXPIRED" /\ r.amount = attempt[a].amount
                 /\ r.session <=> attempt[a].session
                 /\ r.ppid = attempt[a].ppid /\ r.closed = why
           /\ \A p, s :
                 LET r == Holding(a, p, s) IN
                 /\ r.status = s /\ r.amount = attempt[a].amount
                 /\ r.session <=> attempt[a].session
                 /\ r.ppid = p /\ r.closed = attempt[a].closed
           /\ \A s :
                 LET r == Turned(a, s) IN
                 /\ r.status = s /\ r.amount = attempt[a].amount
                 /\ r.session <=> attempt[a].session
                 /\ r.ppid = attempt[a].ppid /\ r.closed = attempt[a].closed
<1>1. attempt[a] \in AttemptRow
  BY DEF TypeOK
<1>2. QED
  BY <1>1 DEF AttemptRow, Opened, Confirmed, Closed, Holding, Turned

LEMMA Puts ==
    ASSUME attempt \in [Attempts -> AttemptRow], NEW a \in Attempts, NEW row \in AttemptRow,
           Put(a, row)
    PROVE  /\ attempt' \in [Attempts -> AttemptRow]
           /\ attempt'[a] = row
           /\ \A b \in Attempts \ {a} : attempt'[b] = attempt[b]
  BY DEF Put

\* settle_status changes only the status, and only to what total and paid say.
LEMMA SettleRow ==
    ASSUME NEW b \in BillRow
    PROVE  /\ Settle(b) \in BillRow
           /\ Settle(b).total = b.total /\ Settle(b).paid = b.paid
           /\ Settle(Settle(b)) = Settle(b)
           /\ Settle(b).status = "CANCELLED" <=> b.status = "CANCELLED"
  BY DEF Settle, BillRow, BillStatuses, OpenBill

-----------------------------------------------------------------------------
(* Types, and what a worker holds at each point of its program.            *)

\* Program points at which worker[w].a is the attempt the worker deals with.
HoldsAttempt == {"clock", "query", "reconcileLock", "applyBill", "startAttempt", "createOrder",
                 "activate", "reject", "stuck", "refundCall", "refundWrite"}

\* A worker past its first reads has an attempt.
WorkerHolds == \A w \in Workers : worker[w].pc \in HoldsAttempt => worker[w].a \in Attempts
\* A payment the provider knows belongs to an order.
PaysHaveOrders ==
    \A p \in ProviderPays : provider[p].status # "NONE" => provider[p].order \in Attempts
\* What a worker took for captured is captured.
PaysCaptured == \A w \in Workers : \A p \in worker[w].pays : Captured(p)

Typed == TypeOK /\ WorkerHolds /\ PaysHaveOrders /\ PaysCaptured

LEMMA TypedInit == Init => Typed
<1> SUFFICES ASSUME Init PROVE Typed
  OBVIOUS
<1>1. TypeOK
  BY MaxTotalNat, MaxCrashesNat
  DEF Init, TypeOK, Idle, PaymentKeys, BillStatuses, OpenBill, AttemptStatuses, ProgramPoints,
      Jobs, BillRow, PaymentRow, AttemptRow, ProviderPay, WorkerRow
<1>2. WorkerHolds /\ PaysHaveOrders /\ PaysCaptured
  BY DEF Init, WorkerHolds, PaysHaveOrders, PaysCaptured, HoldsAttempt, Idle
<1>3. QED
  BY <1>1, <1>2 DEF Typed

\* A worker turns to r, and the provider's payments stay: the worker part of Typed is kept.
LEMMA TypedWorker ==
    ASSUME Typed, NEW w \in Workers, NEW r \in WorkerRow, Become(w, r), UNCHANGED provider,
           r.pc \in HoldsAttempt => r.a \in Attempts,
           \A p \in r.pays : Captured(p)
    PROVE  worker' \in [Workers -> WorkerRow] /\ WorkerHolds' /\ PaysHaveOrders' /\ PaysCaptured'
<1>1. /\ worker' \in [Workers -> WorkerRow]
      /\ worker'[w] = r
      /\ \A v \in Workers \ {w} : worker'[v] = worker[v]
  BY Becomes DEF Typed, TypeOK
<1>2. QED
  BY <1>1 DEF Typed, WorkerHolds, PaysHaveOrders, PaysCaptured, Captured

LEMMA TypedStep == Typed /\ [Next]_vars => Typed'
<1> SUFFICES ASSUME Typed, [Next]_vars PROVE Typed'
  OBVIOUS
<1> USE DEF providerVars
<1>a. ASSUME NEW w \in Workers PROVE worker[w] \in WorkerRow
  BY DEF Typed, TypeOK
<1>1. ASSUME NEW w \in Workers, StartBegin(w) PROVE Typed'
  <2>1. PICK r \in WorkerRow : /\ Become(w, r)
                               /\ r.pc \in HoldsAttempt => r.a \in Attempts
                               /\ r.pays = {}
    BY <1>1, FreshRows DEF StartBegin, OpenAttempts, HoldsAttempt
  <2>2. QED
    BY <1>1, <2>1, TypedWorker DEF StartBegin, Typed, TypeOK
<1>2. ASSUME NEW w \in Workers, ReconcileBegin(w) PROVE Typed'
  <2>1. PICK r \in WorkerRow : Become(w, r) /\ r.a \in Attempts /\ r.pays = {}
    BY <1>2, FreshRows DEF ReconcileBegin, Reconcilable
  <2>2. QED
    BY <1>2, <2>1, TypedWorker DEF ReconcileBegin, Typed, TypeOK
<1>3. ASSUME NEW w \in Workers, NEW p \in ProviderPays, HookStore(w, p) PROVE Typed'
  BY <1>3, DeliveredRow, TypedWorker DEF HookStore, Typed, TypeOK, HoldsAttempt
<1>4. ASSUME NEW w \in Workers, NEW a \in Attempts, RefundBegin(w, a) PROVE Typed'
  <2>1. Turned(a, "REFUND_PENDING") \in AttemptRow
    BY AttemptRows DEF Typed, AttemptStatuses, Unapplied
  <2>2. attempt' \in [Attempts -> AttemptRow]
    BY <1>4, <2>1, Puts DEF RefundBegin, Typed, TypeOK
  <2>3. QED
    BY <1>4, <2>2, FreshRows, TypedWorker DEF RefundBegin, Typed, TypeOK
<1>5. ASSUME NEW w \in Workers, NEW a \in Attempts, NEW old, CreateAttempt(w, a, old),
             UNCHANGED provider
      PROVE  /\ attempt' \in [Attempts -> AttemptRow] /\ worker' \in [Workers -> WorkerRow]
             /\ WorkerHolds' /\ PaysHaveOrders' /\ PaysCaptured'
  <2>1. attempt' \in [Attempts -> AttemptRow]
    BY <1>5, AttemptRows DEF CreateAttempt, Typed, TypeOK
  <2>2. QED
    BY <1>5, <2>1, FreshRows, TypedWorker DEF CreateAttempt
<1>6. ASSUME NEW w \in Workers, StartLockBill(w) PROVE Typed'
  <2>1. CASE Become(w, Idle) /\ UNCHANGED <<attempt, billLock>>
    BY <1>6, <2>1, IdleRow, TypedWorker DEF StartLockBill, Typed, TypeOK, HoldsAttempt
  <2>2. ASSUME NEW a \in Attempts, CreateAttempt(w, a, None), UNCHANGED billLock PROVE Typed'
    BY <1>5, <1>6, <2>2 DEF StartLockBill, Typed, TypeOK
  <2>3. ASSUME NEW a \in Attempts, Become(w, Job("start", "startAttempt", a)), billLock' = w,
               UNCHANGED attempt
        PROVE  Typed'
    BY <1>6, <2>3, FreshRows, TypedWorker DEF StartLockBill, Typed, TypeOK
  <2>4. QED
    BY <1>6, <2>1, <2>2, <2>3 DEF StartLockBill, OpenAttempts
<1>7. ASSUME NEW w \in Workers, StartLockAttempt(w) PROVE Typed'
  <2>1. ASSUME NEW b \in Attempts, NEW old, CreateAttempt(w, b, old) PROVE Typed'
    BY <1>5, <1>7, <2>1 DEF StartLockAttempt, Typed, TypeOK
  <2>2. CASE Become(w, Idle) /\ UNCHANGED attempt
    BY <1>7, <2>2, IdleRow, TypedWorker DEF StartLockAttempt, Typed, TypeOK, HoldsAttempt
  <2>3. CASE Become(w, At(w, "createOrder")) /\ UNCHANGED attempt
    <3>1. LET r == At(w, "createOrder") IN
          r \in WorkerRow /\ r.a = worker[w].a /\ r.pays = worker[w].pays
      BY <1>a, AtRow DEF ProgramPoints
    <3>2. worker[w].a \in Attempts /\ \A p \in worker[w].pays : Captured(p)
      BY <1>7 DEF StartLockAttempt, Typed, WorkerHolds, HoldsAttempt, PaysCaptured
    <3>3. QED
      BY <1>7, <2>3, <3>1, <3>2, TypedWorker DEF StartLockAttempt, Typed, TypeOK
  <2>4. QED
    BY <1>7, <2>1, <2>2, <2>3 DEF StartLockAttempt
<1>8. ASSUME NEW w \in Workers, CreateOrder(w) PROVE Typed'
  <2>1. worker[w].a \in Attempts /\ \A p \in worker[w].pays : Captured(p)
    BY <1>8 DEF CreateOrder, Typed, WorkerHolds, HoldsAttempt, PaysCaptured
  <2>2. PICK r \in WorkerRow : /\ Become(w, r)
                               /\ r.pc \in HoldsAttempt => r.a \in Attempts
                               /\ \A p \in r.pays : Captured(p)
    <3>1. CASE Become(w, Idle)
      BY <3>1, IdleRow DEF HoldsAttempt
    <3>2. ASSUME NEW pc \in {"activate", "reject", "stuck"}, Become(w, At(w, pc))
          PROVE  \E r \in WorkerRow : /\ Become(w, r)
                                      /\ r.pc \in HoldsAttempt => r.a \in Attempts
                                      /\ \A p \in r.pays : Captured(p)
      BY <1>a, <2>1, <3>2, AtRow DEF ProgramPoints
    <3>3. QED
      BY <1>8, <3>1, <3>2 DEF CreateOrder
  <2>3. QED
    BY <1>8, <2>2, TypedWorker DEF CreateOrder, Typed, TypeOK
<1>9. ASSUME NEW w \in Workers, NEW pc, NEW row \in AttemptRow, FinishStart(w, pc, row),
             worker[w].a \in Attempts
      PROVE  Typed'
  <2>1. attempt' \in [Attempts -> AttemptRow]
    BY <1>9, Puts DEF FinishStart, Typed, TypeOK
  <2>2. QED
    BY <1>9, <2>1, IdleRow, TypedWorker DEF FinishStart, Typed, TypeOK, HoldsAttempt
<1>10. ASSUME NEW w \in Workers, Activate(w) \/ RejectOrder(w) \/ ExpireStuck(w) PROVE Typed'
  <2>1. worker[w].a \in Attempts
    BY <1>10 DEF Activate, RejectOrder, ExpireStuck, FinishStart, Typed, WorkerHolds, HoldsAttempt
  <2>2. /\ Confirmed(worker[w].a) \in AttemptRow
        /\ Turned(worker[w].a, "FAILED") \in AttemptRow
        /\ Closed(worker[w].a, "stuck") \in AttemptRow
    BY <2>1, AttemptRows DEF Typed, AttemptStatuses
  <2>3. QED
    BY <1>9, <1>10, <2>1, <2>2 DEF Activate, RejectOrder, ExpireStuck
<1>30. ASSUME NEW w \in Workers, ReadClock(w) PROVE Typed'
  <2>1. worker[w].a \in Attempts /\ \A p \in worker[w].pays : Captured(p)
    BY <1>30 DEF ReadClock, Typed, WorkerHolds, HoldsAttempt, PaysCaptured
  <2>2. PICK pc \in {"query", "reconcileLock"} : Become(w, Timed(w, pc))
    BY <1>30 DEF ReadClock
  <2>3. LET r == Timed(w, pc) IN r \in WorkerRow /\ r.a = worker[w].a /\ r.pays = worker[w].pays
    BY <1>a, TimedRow
  <2>4. QED
    BY <1>30, <2>1, <2>2, <2>3, TypedWorker DEF ReadClock, Typed, TypeOK
<1>11. ASSUME NEW w \in Workers, QueryAnswered(w) PROVE Typed'
  <2> DEFINE successes == {p \in PaysOf(worker[w].a) : Captured(p)}
             pending == \E p \in PaysOf(worker[w].a) : provider[p].status = "PENDING"
             paid == Paid(w, successes)
             unpaid == Unpaid(w, worker[w].ripe /\ ~pending)
  <2>1. worker[w].a \in Attempts /\ \A p \in worker[w].pays : Captured(p)
    BY <1>11 DEF QueryAnswered, Typed, WorkerHolds, HoldsAttempt, PaysCaptured
  <2>2. paid \in WorkerRow /\ paid.a = worker[w].a /\ paid.pays = successes
    BY <1>a, PaidRow DEF PaysOf
  <2>3. unpaid \in WorkerRow /\ unpaid.a = worker[w].a /\ unpaid.pays = worker[w].pays
    <3>1. (worker[w].ripe /\ ~pending) \in BOOLEAN
      OBVIOUS
    <3>2. QED
      BY <1>a, <3>1, UnpaidRow
  <2>4. Become(w, paid) \/ Become(w, unpaid)
    BY <1>11 DEF QueryAnswered
  <2>5. PICK r \in WorkerRow : /\ Become(w, r)
                               /\ r.a \in Attempts
                               /\ \A p \in r.pays : Captured(p)
    <3> HIDE DEF paid, unpaid
    <3>1. QED
      BY <2>1, <2>2, <2>3, <2>4
  <2>6. QED
    BY <1>11, <2>5, TypedWorker DEF QueryAnswered, Typed, TypeOK
<1>12. ASSUME NEW w \in Workers, NEW r, r = AfterReconcile(w), Become(w, r), UNCHANGED provider
       PROVE  worker' \in [Workers -> WorkerRow] /\ WorkerHolds' /\ PaysHaveOrders' /\ PaysCaptured'
  BY <1>12, AfterReconcileRow, TypedWorker DEF HoldsAttempt
<1>13. ASSUME NEW w \in Workers, QueryOutage(w) PROVE Typed'
  BY <1>12, <1>13 DEF QueryOutage, Typed, TypeOK
<1>14. ASSUME NEW w \in Workers, ReconcileLock(w) PROVE Typed'
  <2>1. worker[w].a \in Attempts
    BY <1>14 DEF ReconcileLock, Typed, WorkerHolds, HoldsAttempt
  <2>2. attempt' \in [Attempts -> AttemptRow]
    BY <1>14, <2>1, AttemptRows, Puts DEF ReconcileLock, GivenUp, Typed, TypeOK
  <2>3. QED
    BY <1>12, <1>14, <2>2 DEF ReconcileLock, Typed, TypeOK
<1>15. ASSUME NEW w \in Workers, NEW p \in worker[w].pays
       PROVE  p \in ProviderPays /\ Captured(p) /\ provider[p].order \in Attempts
  BY <1>a DEF WorkerRow, Typed, PaysCaptured, PaysHaveOrders, Captured
<1>16. ASSUME NEW w \in Workers, NEW p, NEW r, r = AfterApply(w, p),
              Become(w, r), UNCHANGED provider
       PROVE  worker' \in [Workers -> WorkerRow] /\ WorkerHolds' /\ PaysHaveOrders' /\ PaysCaptured'
  <2>1. /\ r \in WorkerRow
        /\ r.pc \in {"idle", "startBill", "applyLock"}
        /\ r.pays \subseteq worker[w].pays
    BY <1>a, <1>16, AfterApplyRow
  <2>2. QED
    BY <1>15, <1>16, <2>1, TypedWorker DEF HoldsAttempt
<1>17. ASSUME NEW w \in Workers, NEW p, NEW outcome \in {"done", "error"}, HookOutcome(w, p, outcome)
       PROVE  hook' \in [ProviderPays -> {"unsent", "stored", "done", "error"}]
  BY <1>17 DEF HookOutcome, Typed, TypeOK
<1>18. ASSUME NEW w \in Workers, ApplyLock(w) PROVE Typed'
  <2>1. PICK p \in worker[w].pays : LET a == provider[p].order IN
           \/ /\ Become(w, AfterApply(w, p))
              /\ HookOutcome(w, p, "done")
              /\ UNCHANGED attempt \/ Unapply(a, p)
              /\ UNCHANGED attemptLock
           \/ /\ attemptLock' = [attemptLock EXCEPT ![a] = w]
              /\ Become(w, Crediting(w, a, p))
              /\ UNCHANGED <<attempt, hook>>
    BY <1>18 DEF ApplyLock
  <2> DEFINE a == provider[p].order
  <2>2. p \in ProviderPays /\ a \in Attempts
    BY <1>15
  <2>3. Holding(a, p, "UNAPPLIED") \in AttemptRow
    BY <2>2, AttemptRows DEF Typed, AttemptStatuses, Unapplied
  <2>4. CASE /\ Become(w, AfterApply(w, p)) /\ HookOutcome(w, p, "done")
             /\ UNCHANGED attempt \/ Unapply(a, p)
             /\ UNCHANGED attemptLock
    <3>1. attempt' \in [Attempts -> AttemptRow]
      BY <2>2, <2>3, <2>4, Puts DEF Unapply, Typed, TypeOK
    <3>2. QED
      BY <1>16, <1>17, <1>18, <2>2, <2>4, <3>1 DEF ApplyLock, Typed, TypeOK
  <2>5. CASE /\ attemptLock' = [attemptLock EXCEPT ![a] = w]
             /\ Become(w, Crediting(w, a, p)) /\ UNCHANGED <<attempt, hook>>
    <3>1. LET r == Crediting(w, a, p) IN
          r \in WorkerRow /\ r.a = a /\ r.pays = worker[w].pays
      BY <1>a, <2>2, CreditingRow
    <3>2. QED
      BY <1>15, <1>18, <2>2, <2>5, <3>1, TypedWorker DEF ApplyLock, Typed, TypeOK
  <2>6. QED
    BY <2>1, <2>4, <2>5
<1>19. ASSUME NEW key \in PaymentKeys, NEW amount \in Int, Credit(key, amount)
       PROVE  payment' \in [PaymentKeys -> PaymentRow] /\ bill' \in BillRow
  <2>1. [status |-> "COMPLETED", amount |-> amount] \in PaymentRow
    BY DEF PaymentRow
  <2>2. [bill EXCEPT !.paid = @ + amount] \in BillRow
    BY DEF Typed, TypeOK, BillRow
  <2>3. QED
    BY <1>19, <2>1, <2>2, SettleRow DEF Credit, Typed, TypeOK
<1>20. ASSUME NEW w \in Workers, ApplyBill(w) PROVE Typed'
  <2> DEFINE a == worker[w].a
             p == worker[w].p
  <2>1. a \in Attempts /\ p \in ProviderPays \cup {None} /\ a \in PaymentKeys
    BY <1>a, <1>20 DEF ApplyBill, Typed, WorkerHolds, HoldsAttempt, WorkerRow, PaymentKeys
  <2>2. attempt[a].amount \in Int
    BY <2>1 DEF Typed, TypeOK, AttemptRow
  <2>3. payment' \in [PaymentKeys -> PaymentRow] /\ bill' \in BillRow
    BY <1>19, <1>20, <2>1, <2>2 DEF ApplyBill, Typed, TypeOK
  <2>4. attempt' \in [Attempts -> AttemptRow]
    <3>1. \A s \in {"SUCCEEDED", "UNAPPLIED"} : Holding(a, p, s) \in AttemptRow
      BY <2>1, AttemptRows DEF Typed, AttemptStatuses, Unapplied
    <3>2. PICK s \in {"SUCCEEDED", "UNAPPLIED"} : Put(a, Holding(a, p, s))
      BY <1>20 DEF ApplyBill, Unapply
    <3>3. QED
      BY <2>1, <3>1, <3>2, Puts DEF Typed, TypeOK
  <2>5. attemptLock' \in [Attempts -> Workers \cup {None}]
    BY <1>20 DEF ApplyBill, ReleaseLock, Typed, TypeOK
  <2>6. QED
    BY <1>16, <1>17, <1>20, <2>3, <2>4, <2>5 DEF ApplyBill, Typed, TypeOK
<1>21. ASSUME NEW w \in Workers, RefundCall(w) PROVE Typed'
  <2> DEFINE a == worker[w].a
  <2>1. a \in Attempts /\ \A p \in worker[w].pays : Captured(p)
    BY <1>21 DEF RefundCall, Typed, WorkerHolds, HoldsAttempt, PaysCaptured
  <2>2. refunded' \in [Attempts -> {"NONE", "PENDING", "SUCCESS"}]
    BY <1>21 DEF RefundCall, Typed, TypeOK
  <2>3. CASE Become(w, Idle)
    BY <1>21, <2>2, <2>3, IdleRow, TypedWorker DEF RefundCall, Typed, TypeOK, HoldsAttempt
  <2>4. CASE Become(w, Answered(w, refunded'[a])) /\ refunded'[a] \in {"PENDING", "SUCCESS"}
    <3>1. LET r == Answered(w, refunded'[a]) IN
          r \in WorkerRow /\ r.a = a /\ r.pays = worker[w].pays
      BY <1>a, <2>4, AnsweredRow
    <3>2. QED
      BY <1>21, <2>1, <2>2, <2>4, <3>1, TypedWorker DEF RefundCall, Typed, TypeOK
  <2>5. QED
    BY <1>21, <2>1, <2>3, <2>4 DEF RefundCall, Typed, TypeOK
<1>22. ASSUME NEW w \in Workers, RefundWrite(w) PROVE Typed'
  <2>1. worker[w].a \in Attempts
    BY <1>22 DEF RefundWrite, Typed, WorkerHolds, HoldsAttempt
  <2>2. attempt' \in [Attempts -> AttemptRow]
    BY <1>22, <2>1, AttemptRows, Puts DEF RefundWrite, WriteRefund, Typed, TypeOK, AttemptStatuses, Unapplied
  <2>3. QED
    BY <1>22, <2>2, IdleRow, TypedWorker DEF RefundWrite, Typed, TypeOK, HoldsAttempt
<1>23. ASSUME NEW w \in Workers, Abort(w) PROVE Typed'
  <2>1. CASE AbortStart(w)
    BY <2>1, IdleRow, TypedWorker DEF AbortStart, Typed, TypeOK, HoldsAttempt
  <2>2. CASE AbortApply(w)
    <3>1. attemptLock' \in [Attempts -> Workers \cup {None}]
      BY <2>2 DEF AbortApply, Typed, TypeOK
    <3>2. QED
      BY <1>17, <2>2, <3>1, IdleRow, TypedWorker DEF AbortApply, Failure, Typed, TypeOK, HoldsAttempt
  <2>3. QED
    BY <1>23, <2>1, <2>2 DEF Abort
<1>24. ASSUME NEW w \in Workers, Crash(w) PROVE Typed'
  <2>1. crashes' \in 0..MaxCrashes
    BY <1>24, MaxCrashesNat DEF Crash, Typed, TypeOK
  <2>2. attemptLock' \in [Attempts -> Workers \cup {None}]
    BY <1>24 DEF Crash, Typed, TypeOK
  <2>3. QED
    BY <1>24, <2>1, <2>2, IdleRow, TypedWorker DEF Crash, Typed, TypeOK, HoldsAttempt
<1>25. CASE Owner
  <2>1. ASSUME bill' \in BillRow, payment' \in [PaymentKeys -> PaymentRow], OwnerStep
        PROVE  Typed'
    BY <2>1 DEF OwnerStep, Typed, TypeOK, WorkerHolds, PaysHaveOrders, PaysCaptured, Captured
  <2>2. bill \in BillRow /\ payment \in [PaymentKeys -> PaymentRow]
    BY DEF Typed, TypeOK
  <2>3. ASSUME NEW k \in OwnerKeys, VoidOffline(k) PROVE Typed'
    <3>1. k \in PaymentKeys
      BY DEF PaymentKeys
    <3>2. [bill EXCEPT !.paid = @ - payment[k].amount] \in BillRow
      BY <2>2, <3>1 DEF BillRow, PaymentRow
    <3>3. payment' \in [PaymentKeys -> PaymentRow]
      BY <2>2, <2>3, <3>1 DEF VoidOffline, PaymentRow
    <3>4. QED
      BY <2>1, <2>3, <3>2, <3>3, SettleRow DEF VoidOffline
  <2>4. ASSUME NEW k \in OwnerKeys, NEW m \in 1..MaxTotal, RecordOffline(k, m) PROVE Typed'
    BY <1>19, <2>1, <2>4 DEF RecordOffline, PaymentKeys
  <2>5. ASSUME NEW t \in 0..MaxTotal, AdjustAmount(t) PROVE Typed'
    <3>1. [bill EXCEPT !.total = t] \in BillRow
      BY <2>2 DEF BillRow
    <3>2. QED
      BY <2>1, <2>2, <2>5, <3>1, SettleRow DEF AdjustAmount
  <2>6. ASSUME CancelBill PROVE Typed'
    <3>1. bill' \in BillRow
      BY <2>2, <2>6 DEF CancelBill, BillRow, BillStatuses
    <3>2. QED
      BY <2>1, <2>2, <2>6, <3>1 DEF CancelBill
  <2>7. QED
    BY <1>25, <2>3, <2>4, <2>5, <2>6 DEF Owner
<1>26. CASE World
  <2> USE DEF WorldStep, Typed, TypeOK, WorkerHolds, PaysHaveOrders, PaysCaptured, Captured
  <2>1. ASSUME NEW a \in Attempts, Tick(a) PROVE Typed'
    BY <2>1 DEF Tick
  <2>2. ASSUME NEW a \in Attempts, RefundClears(a) PROVE Typed'
    BY <2>2 DEF RefundClears
  <2>3. ASSUME NEW p \in ProviderPays, EndPay(p) PROVE Typed'
    BY <2>3 DEF EndPay, ProviderPay
  <2>4. ASSUME NEW p \in ProviderPays, NEW a \in Attempts, BeginPay(p, a) PROVE Typed'
    <3>1. PICK exact \in BOOLEAN :
             provider' = [provider EXCEPT ![p] = [order |-> a, exact |-> exact, status |-> "PENDING"]]
      BY <2>4 DEF BeginPay
    <3>2. QED
      BY <2>4, <3>1 DEF BeginPay, ProviderPay
  <2>5. QED
    BY <1>26, <2>1, <2>2, <2>3, <2>4 DEF World
<1>27. CASE UNCHANGED vars
  BY <1>27 DEF vars, Typed, TypeOK, WorkerHolds, PaysHaveOrders, PaysCaptured, Captured
<1>28. QED
  BY <1>1, <1>2, <1>3, <1>4, <1>6, <1>7, <1>8, <1>10, <1>11, <1>30, <1>13, <1>14, <1>18, <1>20, <1>21, <1>22, <1>23, <1>24,
     <1>25, <1>26, <1>27
  DEF Next, Begin, Continue

\* Type correctness: every row the handlers write stays in its table's domain.
THEOREM TypeCorrect == Spec => []TypeOK
<1>1. Typed => TypeOK
  BY DEF Typed
<1>2. QED
  BY <1>1, TypedInit, TypedStep, PTL DEF Spec

-----------------------------------------------------------------------------
(* What each step of a worker makes of it.                                 *)

\* Only w moves, and it becomes r.
Moves(w, r) == worker'[w] = r /\ \A v \in Workers \ {w} : worker'[v] = worker[v]

LEMMA Moved ==
    ASSUME Typed, NEW w \in Workers, NEW r \in WorkerRow, Become(w, r)
    PROVE  Moves(w, r)
  BY Becomes DEF Typed, TypeOK, Moves

LEMMA RowOf ==
    ASSUME Typed, NEW w \in Workers
    PROVE  worker[w] \in WorkerRow
  BY DEF Typed, TypeOK

LEMMA FinishMoves ==
    ASSUME Typed, NEW w \in Workers, Become(w, Idle)
    PROVE  \E r \in WorkerRow : Moves(w, r) /\ r.pc = "idle"
  BY IdleRow, Moved

LEMMA StartBeginMoves ==
    ASSUME Typed, NEW w \in Workers, StartBegin(w)
    PROVE  \E r \in WorkerRow :
              /\ Moves(w, r)
              /\ \/ r.pc = "startBill"
                 \/ r.pc = "clock" /\ r.a \in Attempts
  BY FreshRows, Moved DEF StartBegin, OpenAttempts

LEMMA ReconcileBeginMoves ==
    ASSUME Typed, NEW w \in Workers, ReconcileBegin(w)
    PROVE  \E r \in WorkerRow :
              Moves(w, r) /\ r.pc = "clock" /\ r.a \in Attempts
  BY FreshRows, Moved DEF ReconcileBegin, Reconcilable

LEMMA ReadClockMoves ==
    ASSUME Typed, NEW w \in Workers, ReadClock(w)
    PROVE  \E r \in WorkerRow :
              /\ Moves(w, r)
              /\ r.a = worker[w].a /\ (r.ripe <=> age[r.a] = "lapsed")
              /\ r.pc = "query" \/ (r.pc = "reconcileLock" /\ r.copy # "ACTIVE")
<1> DEFINE pc == IF worker[w].copy = "ACTIVE" THEN "query" ELSE "reconcileLock"
<1>1. PICK r : r = Timed(w, pc)
  OBVIOUS
<1>2. /\ r \in WorkerRow /\ r.pc = pc /\ r.a = worker[w].a
      /\ r.copy = worker[w].copy /\ (r.ripe <=> age[r.a] = "lapsed")
  BY <1>1, TimedRow, RowOf
<1>3. Moves(w, r)
  BY <1>1, <1>2, Moved DEF ReadClock
<1>4. QED
  BY <1>2, <1>3

LEMMA HookStoreMoves ==
    ASSUME Typed, NEW w \in Workers, NEW p \in ProviderPays, HookStore(w, p)
    PROVE  \E r \in WorkerRow : Moves(w, r) /\ r.pc = "applyLock"
  BY DeliveredRow, Moved DEF HookStore

LEMMA RefundBeginMoves ==
    ASSUME Typed, NEW w \in Workers, NEW a \in Attempts, RefundBegin(w, a)
    PROVE  \E r \in WorkerRow : Moves(w, r) /\ r.pc = "refundCall" /\ r.a = a
  BY FreshRows, Moved DEF RefundBegin

\* The worker is done, or goes to the provider with its attempt.
Orders(w) ==
    \E r \in WorkerRow : Moves(w, r) /\ (r.pc = "idle" \/ (r.pc = "createOrder" /\ r.a \in Attempts))

LEMMA CreateAttemptMoves ==
    ASSUME Typed, NEW w \in Workers, NEW a \in Attempts, NEW old, CreateAttempt(w, a, old)
    PROVE  Orders(w)
  BY FreshRows, Moved DEF CreateAttempt, Orders

LEMMA StartLockBillMoves ==
    ASSUME Typed, NEW w \in Workers, StartLockBill(w)
    PROVE  \/ /\ Orders(w)
              /\ UNCHANGED billLock
              /\ \/ UNCHANGED attempt
                 \/ OpenAttempts = {} /\ \E a \in Attempts : CreateAttempt(w, a, None)
           \/ /\ bill.status \in OpenBill /\ Due > 0
              /\ billLock' = w /\ UNCHANGED attempt
              /\ \E a \in OpenAttempts, r \in WorkerRow :
                    Moves(w, r) /\ r.pc = "startAttempt" /\ r.a = a
<1>1. CASE Become(w, Idle) /\ UNCHANGED <<attempt, billLock>>
  BY <1>1, FinishMoves DEF Orders
<1>2. ASSUME NEW a \in Attempts, CreateAttempt(w, a, None)
      PROVE  Orders(w)
  BY <1>2, CreateAttemptMoves
<1>3. ASSUME NEW a \in OpenAttempts, Become(w, Job("start", "startAttempt", a))
      PROVE  \E r \in WorkerRow : Moves(w, r) /\ r.pc = "startAttempt" /\ r.a = a
  BY <1>3, FreshRows, Moved DEF OpenAttempts
<1>4. QED
  BY <1>1, <1>2, <1>3 DEF StartLockBill

LEMMA StartLockAttemptMoves ==
    ASSUME Typed, NEW w \in Workers, StartLockAttempt(w)
    PROVE  Orders(w)
<1>1. worker[w].a \in Attempts
  BY DEF StartLockAttempt, Typed, WorkerHolds, HoldsAttempt
<1>2. CASE Become(w, Idle)
  BY <1>2, FinishMoves DEF Orders
<1>3. CASE Become(w, At(w, "createOrder"))
  <2>1. LET r == At(w, "createOrder") IN
        r \in WorkerRow /\ r.pc = "createOrder" /\ r.a = worker[w].a
    BY AtRow, RowOf DEF ProgramPoints
  <2>2. QED
    BY <1>1, <1>3, <2>1, Moved DEF Orders
<1>4. ASSUME NEW b \in Attempts, NEW old, CreateAttempt(w, b, old)
      PROVE  Orders(w)
  BY <1>4, CreateAttemptMoves
<1>5. QED
  BY <1>2, <1>3, <1>4 DEF StartLockAttempt

LEMMA CreateOrderMoves ==
    ASSUME Typed, NEW w \in Workers, CreateOrder(w)
    PROVE  \E r \in WorkerRow : Moves(w, r) /\ r.pc \in {"idle", "activate", "reject", "stuck"}
<1>1. CASE Become(w, Idle)
  BY <1>1, IdleRow, Moved
<1>2. ASSUME NEW pc \in {"activate", "reject", "stuck"}, Become(w, At(w, pc))
      PROVE  \E r \in WorkerRow : Moves(w, r) /\ r.pc \in {"idle", "activate", "reject", "stuck"}
  BY <1>2, AtRow, RowOf, Moved DEF ProgramPoints
<1>3. QED
  BY <1>1, <1>2 DEF CreateOrder

LEMMA QueryAnsweredMoves ==
    ASSUME Typed, NEW w \in Workers, QueryAnswered(w)
    PROVE  \E r \in WorkerRow :
              /\ Moves(w, r)
              /\ \/ r.pc = "applyLock"
                 \/ /\ r.pc = "reconcileLock" /\ r.a = worker[w].a
                    /\ r.ripe => /\ worker[w].ripe
                                 /\ \A p \in PaysOf(r.a) : provider[p].status \notin {"SUCCESS", "PENDING"}
<1> DEFINE successes == {p \in PaysOf(worker[w].a) : Captured(p)}
           pending == \E p \in PaysOf(worker[w].a) : provider[p].status = "PENDING"
           paid == Paid(w, successes)
           unpaid == Unpaid(w, worker[w].ripe /\ ~pending)
<1>1. CASE Become(w, paid)
  <2>1. successes \in SUBSET ProviderPays
    BY DEF PaysOf
  <2>2. paid \in WorkerRow /\ paid.pc = "applyLock"
    BY <2>1, PaidRow, RowOf
  <2> HIDE DEF paid
  <2>3. QED
    BY <1>1, <2>2, Moved
<1>2. CASE successes = {} /\ Become(w, unpaid)
  <2>1. (worker[w].ripe /\ ~pending) \in BOOLEAN
    OBVIOUS
  <2>2. /\ unpaid \in WorkerRow
        /\ unpaid.pc = "reconcileLock" /\ unpaid.a = worker[w].a
        /\ unpaid.ripe = (worker[w].ripe /\ ~pending)
    BY <2>1, UnpaidRow, RowOf
  <2>3. unpaid.ripe => /\ worker[w].ripe
                       /\ \A p \in PaysOf(unpaid.a) : provider[p].status \notin {"SUCCESS", "PENDING"}
    BY <1>2, <2>2 DEF Captured
  <2> HIDE DEF unpaid
  <2>4. QED
    BY <1>2, <2>2, <2>3, Moved
<1>3. QED
  BY <1>1, <1>2 DEF QueryAnswered

LEMMA ReconciledMoves ==
    ASSUME Typed, NEW w \in Workers, Become(w, AfterReconcile(w))
    PROVE  \E r \in WorkerRow : Moves(w, r) /\ r.pc \in {"idle", "startBill"}
  BY AfterReconcileRow, Moved

LEMMA AppliedMoves ==
    ASSUME Typed, NEW w \in Workers, NEW p, Become(w, AfterApply(w, p))
    PROVE  \E r \in WorkerRow : Moves(w, r) /\ r.pc \in {"idle", "startBill", "applyLock"}
  BY AfterApplyRow, RowOf, Moved

LEMMA CreditingMoves ==
    ASSUME Typed, NEW w \in Workers, NEW p \in worker[w].pays, NEW a \in Attempts,
           Become(w, Crediting(w, a, p))
    PROVE  \E r \in WorkerRow : /\ Moves(w, r)
                                /\ r.pc = "applyBill" /\ r.a = a /\ r.p = p
                                /\ r.pays = worker[w].pays
<1>1. p \in ProviderPays
  BY RowOf DEF WorkerRow
<1>2. QED
  BY <1>1, CreditingRow, RowOf, Moved

LEMMA RefundCallMoves ==
    ASSUME Typed, Typed', NEW w \in Workers, RefundCall(w)
    PROVE  \E r \in WorkerRow :
              /\ Moves(w, r)
              /\ \/ r.pc = "idle"
                 \/ r.pc = "refundWrite" /\ r.a = worker[w].a /\ r.result = refunded'[r.a]
<1>1. CASE Become(w, Idle)
  BY <1>1, IdleRow, Moved
<1>2. CASE Become(w, Answered(w, refunded'[worker[w].a])) /\ refunded'[worker[w].a] # "NONE"
  <2>1. worker[w].a \in Attempts
    BY DEF RefundCall, Typed, WorkerHolds, HoldsAttempt
  <2>2. refunded'[worker[w].a] \in {"PENDING", "SUCCESS"}
    BY <1>2, <2>1 DEF Typed, TypeOK
  <2>3. QED
    BY <1>2, <2>2, AnsweredRow, RowOf, Moved
<1>3. QED
  <2>1. worker[w].a \in Attempts
    BY DEF RefundCall, Typed, WorkerHolds, HoldsAttempt
  <2>2. QED
    BY <1>1, <1>2, <2>1 DEF RefundCall, Typed, TypeOK

-----------------------------------------------------------------------------
(* Row locks, and the checkout a transaction of start() found open.        *)

\* The holder of the bill row is the start between its two locks; the holder of
\* an attempt row is the apply_payment between its two locks.
LocksHeld ==
    /\ \A w \in Workers : billLock = w <=> worker[w].pc = "startAttempt"
    /\ \A w \in Workers, a \in Attempts :
          attemptLock[a] = w <=> worker[w].pc = "applyBill" /\ worker[w].a = a

\* While start() holds the bill no other checkout opens and the bill stays payable.
FoundOpen ==
    \A w \in Workers : worker[w].pc = "startAttempt" =>
        /\ \A a \in OpenAttempts : a = worker[w].a
        /\ bill.status \in OpenBill
        /\ Due > 0

Locked == LocksHeld /\ FoundOpen /\ OneOpenAttempt

\* Program points that hold a row.
HoldsRow == {"startAttempt", "applyBill"}

LEMMA LocksKept ==
    ASSUME Typed, LocksHeld, NEW w \in Workers, NEW r, Moves(w, r),
           worker[w].pc \notin HoldsRow, r.pc \notin HoldsRow, UNCHANGED <<billLock, attemptLock>>
    PROVE  LocksHeld'
  BY DEF LocksHeld, Moves, HoldsRow, Typed, TypeOK

LEMMA CheckoutKept ==
    ASSUME Typed, FoundOpen, OneOpenAttempt, NEW w \in Workers, NEW r, Moves(w, r),
           r.pc # "startAttempt", UNCHANGED bill,
           \A a \in Attempts : attempt'[a].status \in Open => attempt[a].status \in Open
    PROVE  FoundOpen' /\ OneOpenAttempt'
  BY DEF FoundOpen, OneOpenAttempt, OpenAttempts, Moves, Due

\* A step that moves one worker between points that hold no row, touches no lock
\* and opens no checkout.
LEMMA LockedKept ==
    ASSUME Typed, Locked, NEW w \in Workers, NEW r, Moves(w, r),
           worker[w].pc \notin HoldsRow, r.pc \notin HoldsRow, UNCHANGED <<bill, billLock, attemptLock>>,
           \A a \in Attempts : attempt'[a].status \in Open => attempt[a].status \in Open
    PROVE  Locked'
  BY LocksKept, CheckoutKept DEF Locked, HoldsRow

\* Only start() with the bill row free, or holding it, opens a checkout: no other is open.
LEMMA OpensAlone ==
    ASSUME Typed, NEW w \in Workers, NEW b \in Attempts, NEW old, CreateAttempt(w, b, old),
           \A a \in OpenAttempts : a = old
    PROVE  OneOpenAttempt'
<1>1. \A a \in Attempts \ {b} : attempt'[a].status \in Open => attempt[a].status \in Open /\ a # old
  <2>1. ASSUME NEW a \in Attempts, a = old, a # b PROVE attempt'[a].status \notin Open
    BY <2>1, AttemptFields DEF CreateAttempt, Open, Typed
  <2>2. ASSUME NEW a \in Attempts, a # old, a # b PROVE attempt'[a] = attempt[a]
    BY <2>2 DEF CreateAttempt
  <2>3. QED
    BY <2>1, <2>2
<1>2. QED
  BY <1>1 DEF OneOpenAttempt, OpenAttempts

\* Writing a status that is not open opens no checkout.
LEMMA PutsClosed ==
    ASSUME Typed, NEW a \in Attempts, NEW s \in AttemptStatuses \ Open,
           \/ Put(a, Turned(a, s))
           \/ \E p \in ProviderPays \cup {None} : Put(a, Holding(a, p, s))
    PROVE  \A b \in Attempts : attempt'[b].status \in Open => attempt[b].status \in Open
<1>1. CASE Put(a, Turned(a, s))
  <2>1. Turned(a, s) \in AttemptRow /\ Turned(a, s).status = s
    BY AttemptRows, AttemptFields DEF Typed
  <2>2. QED
    BY <1>1, <2>1, Puts DEF Typed, TypeOK
<1>2. ASSUME NEW p \in ProviderPays \cup {None}, Put(a, Holding(a, p, s))
      PROVE  \A b \in Attempts : attempt'[b].status \in Open => attempt[b].status \in Open
  <2>1. Holding(a, p, s) \in AttemptRow /\ Holding(a, p, s).status = s
    BY AttemptRows, AttemptFields DEF Typed
  <2>2. QED
    BY <1>2, <2>1, Puts DEF Typed, TypeOK
<1>3. QED
  BY <1>1, <1>2

LEMMA LockedInit == Init => Locked
  BY NoneIsNone DEF Init, Locked, LocksHeld, FoundOpen, OneOpenAttempt, OpenAttempts, Open, Idle

LEMMA LockedStep == Typed /\ Typed' /\ Locked /\ [Next]_vars => Locked'
<1> SUFFICES ASSUME Typed, Typed', Locked, [Next]_vars PROVE Locked'
  OBVIOUS
<1> USE DEF providerVars
<1>1. ASSUME NEW w \in Workers, StartBegin(w) PROVE Locked'
  BY <1>1, StartBeginMoves, LockedKept DEF StartBegin, HoldsRow
<1>2. ASSUME NEW w \in Workers, ReconcileBegin(w) PROVE Locked'
  BY <1>2, ReconcileBeginMoves, LockedKept DEF ReconcileBegin, HoldsRow
<1>3. ASSUME NEW w \in Workers, NEW p \in ProviderPays, HookStore(w, p) PROVE Locked'
  BY <1>3, HookStoreMoves, LockedKept DEF HookStore, HoldsRow
<1>4. ASSUME NEW w \in Workers, NEW a \in Attempts, RefundBegin(w, a) PROVE Locked'
  <2>1. \A b \in Attempts : attempt'[b].status \in Open => attempt[b].status \in Open
    BY <1>4, PutsClosed DEF RefundBegin, Open, AttemptStatuses, Unapplied
  <2>2. QED
    BY <1>4, <2>1, RefundBeginMoves, LockedKept DEF RefundBegin, HoldsRow
<1>5. ASSUME NEW w \in Workers, StartLockBill(w) PROVE Locked'
  <2> USE DEF Orders
  <2>1. billLock = None /\ worker[w].pc = "startBill"
    BY <1>5 DEF StartLockBill
  <2>2. CASE Orders(w) /\ UNCHANGED billLock
    <3>1. LocksHeld'
      BY <1>5, <2>1, <2>2, LocksKept DEF StartLockBill, HoldsRow, Locked
    <3>2. \A v \in Workers : worker'[v].pc # "startAttempt"
      BY <2>1, <2>2, NoneIsNone DEF Moves, Locked, LocksHeld
    <3>3. OneOpenAttempt'
      <4>1. CASE UNCHANGED attempt
        BY <4>1 DEF Locked, OneOpenAttempt, OpenAttempts
      <4>2. CASE OpenAttempts = {} /\ \E a \in Attempts : CreateAttempt(w, a, None)
        BY <4>2, OpensAlone
      <4>3. QED
        BY <1>5, <2>1, <2>2, <4>1, <4>2, StartLockBillMoves, NoneIsNone
    <3>4. QED
      BY <3>1, <3>2, <3>3 DEF Locked, FoundOpen
  <2>3. CASE /\ bill.status \in OpenBill /\ Due > 0
             /\ billLock' = w /\ UNCHANGED attempt
             /\ \E a \in OpenAttempts, r \in WorkerRow :
                   Moves(w, r) /\ r.pc = "startAttempt" /\ r.a = a
    <3>1. LocksHeld'
      BY <1>5, <2>1, <2>3, NoneIsNone DEF StartLockBill, Moves, Locked, LocksHeld
    <3>2. OneOpenAttempt'
      BY <2>3 DEF Locked, OneOpenAttempt, OpenAttempts
    <3>3. UNCHANGED bill
      BY <1>5 DEF StartLockBill
    <3>4. FoundOpen'
      BY <2>1, <2>3, <3>3, NoneIsNone DEF Moves, Locked, LocksHeld, FoundOpen, OneOpenAttempt, OpenAttempts, Due
    <3>5. QED
      BY <3>1, <3>2, <3>4 DEF Locked
  <2>4. QED
    BY <1>5, <2>2, <2>3, StartLockBillMoves
<1>6. ASSUME NEW w \in Workers, StartLockAttempt(w) PROVE Locked'
  <2>1. /\ worker[w].pc = "startAttempt" /\ billLock' = None
        /\ UNCHANGED <<bill, attemptLock>>
    BY <1>6 DEF StartLockAttempt
  <2>2. PICK r \in WorkerRow : Moves(w, r) /\ r.pc \in {"idle", "createOrder"}
    BY <1>6, StartLockAttemptMoves DEF Orders
  <2>3. \A v \in Workers : worker'[v].pc # "startAttempt"
    BY <2>1, <2>2 DEF Moves, Locked, LocksHeld
  <2>4. LocksHeld'
    BY <2>1, <2>2, <2>3, NoneIsNone DEF Moves, Locked, LocksHeld
  <2>5. \A a \in OpenAttempts : a = worker[w].a
    BY <2>1 DEF Locked, FoundOpen
  <2>6. OneOpenAttempt'
    <3>1. CASE UNCHANGED attempt
      BY <3>1 DEF Locked, OneOpenAttempt, OpenAttempts
    <3>2. ASSUME NEW b \in Attempts, CreateAttempt(w, b, worker[w].a) PROVE OneOpenAttempt'
      BY <2>5, <3>2, OpensAlone
    <3>3. ASSUME NEW b \in Attempts, CreateAttempt(w, b, None), attempt[worker[w].a].status \notin Open
          PROVE  OneOpenAttempt'
      <4>1. OpenAttempts = {}
        BY <2>5, <3>3 DEF OpenAttempts
      <4>2. QED
        BY <3>3, <4>1, OpensAlone
    <3>4. QED
      BY <1>6, <3>1, <3>2, <3>3 DEF StartLockAttempt
  <2>7. QED
    BY <2>3, <2>4, <2>6 DEF Locked, FoundOpen
<1>7. ASSUME NEW w \in Workers, CreateOrder(w) PROVE Locked'
  BY <1>7, CreateOrderMoves, LockedKept DEF CreateOrder, HoldsRow
<1>8. ASSUME NEW w \in Workers, Activate(w) \/ RejectOrder(w) \/ ExpireStuck(w) PROVE Locked'
  <2>1. /\ worker[w].pc \notin HoldsRow /\ worker[w].a \in Attempts
        /\ Become(w, Idle) /\ UNCHANGED <<bill, billLock, attemptLock>>
    BY <1>8 DEF Activate, RejectOrder, ExpireStuck, FinishStart, HoldsRow, Typed, WorkerHolds, HoldsAttempt
  <2>2. \A b \in Attempts : attempt'[b].status \in Open => attempt[b].status \in Open
    <3>1. \/ UNCHANGED attempt
          \/ /\ attempt[worker[w].a].status \in Open
             /\ \E row \in AttemptRow : Put(worker[w].a, row)
      BY <1>8, <2>1, AttemptRows
      DEF Activate, RejectOrder, ExpireStuck, FinishStart, Unconfirmed, Open, Typed, TypeOK, AttemptStatuses
    <3>2. QED
      BY <2>1, <3>1, Puts DEF Typed, TypeOK
  <2>3. QED
    BY <2>1, <2>2, FinishMoves, LockedKept DEF HoldsRow
<1>9. ASSUME NEW w \in Workers, QueryAnswered(w) PROVE Locked'
  BY <1>9, QueryAnsweredMoves, LockedKept DEF QueryAnswered, HoldsRow
<1>30. ASSUME NEW w \in Workers, ReadClock(w) PROVE Locked'
  BY <1>30, ReadClockMoves, LockedKept DEF ReadClock, HoldsRow
<1>10. ASSUME NEW w \in Workers, QueryOutage(w) PROVE Locked'
  BY <1>10, ReconciledMoves, LockedKept DEF QueryOutage, HoldsRow
<1>11. ASSUME NEW w \in Workers, ReconcileLock(w) PROVE Locked'
  <2>1. worker[w].a \in Attempts
    BY <1>11 DEF ReconcileLock, Typed, WorkerHolds, HoldsAttempt
  <2>2. \A b \in Attempts : attempt'[b].status \in Open => attempt[b].status \in Open
    BY <1>11, <2>1, AttemptFields, AttemptRows, Puts DEF ReconcileLock, GivenUp, Open, Typed, TypeOK
  <2>3. QED
    BY <1>11, <2>2, ReconciledMoves, LockedKept DEF ReconcileLock, HoldsRow
<1>12. ASSUME NEW w \in Workers, ApplyLock(w) PROVE Locked'
  <2>1. PICK p \in worker[w].pays : LET a == provider[p].order IN
           /\ attemptLock[a] = None
           /\ \/ /\ Become(w, AfterApply(w, p))
                 /\ UNCHANGED attempt \/ Unapply(a, p)
                 /\ UNCHANGED attemptLock
              \/ /\ attemptLock' = [attemptLock EXCEPT ![a] = w]
                 /\ Become(w, Crediting(w, a, p))
                 /\ UNCHANGED attempt
    BY <1>12 DEF ApplyLock
  <2> DEFINE a == provider[p].order
  <2>2. a \in Attempts /\ p \in ProviderPays
    BY RowOf DEF WorkerRow, Typed, PaysCaptured, PaysHaveOrders, Captured
  <2>3. worker[w].pc = "applyLock" /\ UNCHANGED <<bill, billLock>>
    BY <1>12 DEF ApplyLock
  <2>4. \A b \in Attempts : attempt'[b].status \in Open => attempt[b].status \in Open
    <3>1. CASE UNCHANGED attempt
      BY <3>1
    <3>2. CASE Unapply(a, p)
      BY <2>2, <3>2, PutsClosed DEF Unapply, Open, AttemptStatuses, Unapplied
    <3>3. QED
      BY <2>1, <3>1, <3>2
  <2>5. CASE Become(w, AfterApply(w, p)) /\ UNCHANGED attemptLock
    BY <2>3, <2>4, <2>5, AppliedMoves, LockedKept DEF HoldsRow
  <2>6. CASE /\ attemptLock' = [attemptLock EXCEPT ![a] = w]
             /\ Become(w, Crediting(w, a, p))
    <3>1. PICK r \in WorkerRow : Moves(w, r) /\ r.pc = "applyBill" /\ r.a = a
      BY <2>2, <2>6, CreditingMoves
    <3>2. LocksHeld'
      BY <2>1, <2>2, <2>3, <2>6, <3>1, NoneIsNone DEF Moves, Locked, LocksHeld, Typed, TypeOK
    <3>3. QED
      BY <2>3, <2>4, <3>1, <3>2, CheckoutKept DEF Locked
  <2>7. QED
    BY <2>1, <2>5, <2>6
<1>13. ASSUME NEW w \in Workers, ApplyBill(w) PROVE Locked'
  <2>1. /\ worker[w].pc = "applyBill" /\ billLock = None /\ UNCHANGED billLock
        /\ attemptLock' = [attemptLock EXCEPT ![worker[w].a] = None]
        /\ worker[w].a \in Attempts /\ worker[w].p \in ProviderPays \cup {None}
    BY <1>13, RowOf DEF ApplyBill, ReleaseLock, WorkerRow, Typed, WorkerHolds, HoldsAttempt
  <2>2. PICK r \in WorkerRow : Moves(w, r) /\ r.pc \in {"idle", "startBill", "applyLock"}
    BY <1>13, AppliedMoves DEF ApplyBill
  <2>3. LocksHeld'
    BY <2>1, <2>2, NoneIsNone DEF Moves, Locked, LocksHeld, Typed, TypeOK
  <2>4. \A v \in Workers : worker'[v].pc # "startAttempt"
    BY <2>1, <2>2, NoneIsNone DEF Moves, Locked, LocksHeld
  <2>5. \A b \in Attempts : attempt'[b].status \in Open => attempt[b].status \in Open
    <3>1. PICK s \in {"SUCCEEDED", "UNAPPLIED"} : Put(worker[w].a, Holding(worker[w].a, worker[w].p, s))
      BY <1>13 DEF ApplyBill, Unapply
    <3>2. s \in AttemptStatuses \ Open
      BY DEF Open, AttemptStatuses, Unapplied
    <3>3. QED
      BY <2>1, <3>1, <3>2, PutsClosed
  <2>6. QED
    BY <2>3, <2>4, <2>5 DEF Locked, FoundOpen, OneOpenAttempt, OpenAttempts
<1>14. ASSUME NEW w \in Workers, RefundCall(w) PROVE Locked'
  BY <1>14, RefundCallMoves, LockedKept DEF RefundCall, HoldsRow
<1>15. ASSUME NEW w \in Workers, RefundWrite(w) PROVE Locked'
  <2>1. worker[w].a \in Attempts
    BY <1>15 DEF RefundWrite, Typed, WorkerHolds, HoldsAttempt
  <2>2. \A b \in Attempts : attempt'[b].status \in Open => attempt[b].status \in Open
    BY <1>15, <2>1, PutsClosed DEF RefundWrite, WriteRefund, Open, AttemptStatuses, Unapplied
  <2>3. QED
    BY <1>15, <2>2, FinishMoves, LockedKept DEF RefundWrite, HoldsRow
<1>16. ASSUME NEW w \in Workers, AbortStart(w) PROVE Locked'
  <2>1. /\ worker[w].pc = "startAttempt" /\ billLock = w /\ billLock' = None
        /\ Become(w, Idle) /\ UNCHANGED <<bill, attempt, attemptLock>>
    BY <1>16 DEF AbortStart, Deadlocked
  <2>2. PICK r \in WorkerRow : Moves(w, r) /\ r.pc = "idle"
    BY <2>1, FinishMoves
  <2>3. LocksHeld'
    BY <2>1, <2>2, NoneIsNone DEF Moves, Locked, LocksHeld
  <2>4. QED
    BY <2>1, <2>2, <2>3, CheckoutKept DEF Locked
<1>17. ASSUME NEW w \in Workers, AbortApply(w) PROVE Locked'
  <2>1. /\ worker[w].pc = "applyBill" /\ attemptLock' = [attemptLock EXCEPT ![worker[w].a] = None]
        /\ worker[w].a \in Attempts
        /\ Become(w, Idle) /\ UNCHANGED <<bill, attempt, billLock>>
    BY <1>17 DEF AbortApply, Deadlocked, Typed, WorkerHolds, HoldsAttempt
  <2>2. PICK r \in WorkerRow : Moves(w, r) /\ r.pc = "idle"
    BY <2>1, FinishMoves
  <2>3. LocksHeld'
    BY <2>1, <2>2, NoneIsNone DEF Moves, Locked, LocksHeld, Typed, TypeOK
  <2>4. QED
    BY <2>1, <2>2, <2>3, CheckoutKept DEF Locked
<1>18. ASSUME NEW w \in Workers, Crash(w) PROVE Locked'
  <2>1. PICK r \in WorkerRow : Moves(w, r) /\ r.pc = "idle"
    BY <1>18, FinishMoves DEF Crash
  <2>2. LocksHeld'
    BY <1>18, <2>1, NoneIsNone DEF Crash, Moves, Locked, LocksHeld, Typed, TypeOK
  <2>3. QED
    BY <1>18, <2>1, <2>2, CheckoutKept DEF Crash, Locked
<1>19. ASSUME OwnerStep, billLock = None PROVE Locked'
  BY <1>19, NoneIsNone
  DEF OwnerStep, Locked, LocksHeld, FoundOpen, OneOpenAttempt, OpenAttempts
<1>20. CASE Owner
  BY <1>19, <1>20 DEF Owner, VoidOffline, RecordOffline, AdjustAmount, CancelBill
<1>21. ASSUME UNCHANGED <<bill, attempt, worker, billLock, attemptLock>> PROVE Locked'
  BY <1>21 DEF Locked, LocksHeld, FoundOpen, OneOpenAttempt, OpenAttempts, Due
<1>22. CASE World
  BY <1>21, <1>22 DEF World, WorldStep, Tick, RefundClears, EndPay, BeginPay
<1>23. CASE UNCHANGED vars
  BY <1>21, <1>23 DEF vars
<1>24. QED
  BY <1>1, <1>2, <1>3, <1>4, <1>5, <1>6, <1>7, <1>8, <1>9, <1>30, <1>10, <1>11, <1>12, <1>13, <1>14, <1>15, <1>16, <1>17,
     <1>18, <1>20, <1>22, <1>23
  DEF Next, Begin, Continue, Abort

\* The constraint one_open_online_attempt_per_bill is never hit, however starts,
\* sweeps, webhooks, deadlock victims and crashes interleave: start() looks for an
\* open checkout and creates one under the bill's row lock.
THEOREM OneCheckout == Spec => []OneOpenAttempt
<1>1. Typed /\ Locked /\ [Next]_vars => Typed' /\ Locked'
  BY TypedStep, LockedStep
<1>2. Locked => OneOpenAttempt
  BY DEF Locked
<1>3. QED
  BY <1>1, <1>2, TypedInit, LockedInit, PTL DEF Spec

\* What a worker waits for is held by a start between its two locks, or by an
\* apply_payment between its two.
LEMMA HolderOfRow ==
    ASSUME Typed, LocksHeld, NEW w \in Workers, NEW v \in Workers, Waits(w, v)
    PROVE  \/ worker[v].pc = "startAttempt" /\ billLock = v
           \/ worker[v].pc = "applyBill"
<1>1. CASE billLock = v
  BY <1>1 DEF LocksHeld
<1>2. ASSUME NEW a \in Attempts, attemptLock[a] = v
      PROVE  worker[v].pc = "applyBill"
  BY <1>2 DEF LocksHeld
<1>3. CASE worker[w].pc \in {"startAttempt", "activate", "reject", "stuck", "reconcileLock", "refundWrite"}
           /\ attemptLock[worker[w].a] = v
  BY <1>2, <1>3 DEF Typed, WorkerHolds, HoldsAttempt
<1>4. CASE \E p \in worker[w].pays : attemptLock[provider[p].order] = v
  <2>1. PICK p \in worker[w].pays : attemptLock[provider[p].order] = v
    BY <1>4
  <2>2. p \in ProviderPays /\ provider[p].status = "SUCCESS"
    BY <2>1 DEF Typed, TypeOK, WorkerRow, PaysCaptured, Captured
  <2> QED
    BY <1>2, <2>1, <2>2 DEF Typed, PaysHaveOrders
<1> QED
  BY <1>1, <1>3, <1>4 DEF Waits

\* However many requests, sweeps and attempts there are, every deadlock has a pair
\* in it that is broken: an apply_payment in the circle waits for the bill, so
\* the start that has it is in the circle too, and waits for an attempt.
THEOREM DeadlocksEnd == Spec => []DeadlocksBroken
<1>1. Typed /\ Locked => DeadlocksBroken
  <2> SUFFICES ASSUME Typed, LocksHeld, NEW group \in SUBSET Workers, group # {},
                      \A w \in group : \E v \in group : Waits(w, v)
               PROVE  \E v, u \in group : Deadlocked(v, u)
    BY DEF Locked, DeadlocksBroken
  <2>1. \E v \in group : worker[v].pc = "startAttempt" /\ billLock = v
    <3>1. PICK w \in group, v \in group : Waits(w, v)
      OBVIOUS
    <3>2. CASE worker[v].pc = "applyBill"
      <4>1. PICK u \in group : Waits(v, u)
        OBVIOUS
      <4>2. billLock = u
        BY <3>2, <4>1 DEF Waits
      <4> QED
        BY <4>2 DEF LocksHeld
    <3> QED
      BY <3>1, <3>2, HolderOfRow
  <2>2. PICK v \in group : worker[v].pc = "startAttempt" /\ billLock = v
    BY <2>1
  <2>3. PICK u \in group : Waits(v, u)
    BY <2>2
  <2>4. attemptLock[worker[v].a] = u
    BY <2>2, <2>3 DEF Waits
  <2>5. worker[v].a \in Attempts
    BY <2>2 DEF Typed, WorkerHolds, HoldsAttempt
  <2>6. worker[u].pc = "applyBill" /\ worker[u].a = worker[v].a
    BY <2>4, <2>5 DEF LocksHeld
  <2> QED
    BY <2>2, <2>4, <2>6 DEF Deadlocked
<1>2. Typed /\ Locked /\ [Next]_vars => Typed' /\ Locked'
  BY TypedStep, LockedStep
<1> QED
  BY <1>1, <1>2, TypedInit, LockedInit, PTL DEF Spec

-----------------------------------------------------------------------------
(* What a step makes of an attempt and its payment, of a provider payment, *)
(* of a refund and of a worker: the later layers use only these facts.     *)

\* apply_payment() in w ends the transaction that holds attempt a.
Settles(w, a) ==
    worker[w].pc = "applyBill" /\ worker[w].a = a /\ worker'[w].pc # "applyBill"

\* The attempt's row with its payment untouched ...
AttemptChange(a) ==
    LET row == attempt'[a] IN
    \/ row = attempt[a]
    \/ attempt[a].status = "NONE" /\ Due > 0 /\ row = Opened(a)
    \/ attempt[a].status = "CREATED" /\ row \in {Confirmed(a), Turned(a, "FAILED"), Closed(a, "stuck")}
    \/ attempt[a].status \in Open /\ row \in {Closed(a, "replaced"), Closed(a, "unasked")}
    \/ /\ attempt[a].status \in Open /\ row = Closed(a, "lapsed")
       /\ \E w \in Workers : /\ worker[w].pc = "reconcileLock" /\ worker[w].a = a
                             /\ worker[w].ripe /\ worker[w].copy = "ACTIVE"
    \/ /\ ~Finished(a) /\ attemptLock[a] = None
       /\ \E p \in PaysOf(a) : Captured(p) /\ row = Holding(a, p, "UNAPPLIED")
    \/ \E w \in Workers : Settles(w, a) /\ row = Holding(a, worker[w].p, "UNAPPLIED")
    \/ Refundable(a) /\ row = Turned(a, "REFUND_PENDING")
    \/ /\ row = Turned(a, "REFUNDED")
       /\ \E w \in Workers :
             worker[w].pc = "refundWrite" /\ worker[w].a = a /\ worker[w].result = "SUCCESS"

\* ... or with the bill credited.
RowChange(a) ==
    \/ payment'[a] = payment[a] /\ AttemptChange(a)
    \/ \E w \in Workers :
          /\ Settles(w, a)
          /\ attempt'[a] = Holding(a, worker[w].p, "SUCCEEDED")
          /\ payment'[a] = [status |-> "COMPLETED", amount |-> attempt[a].amount]

LEMMA CreateChange ==
    ASSUME Typed, NEW w \in Workers, NEW b \in Attempts, NEW old, CreateAttempt(w, b, old),
           Due > 0, UNCHANGED payment, old \in Attempts => attempt[old].status \in Open,
           NEW a \in Attempts
    PROVE  RowChange(a)
  BY DEF CreateAttempt, RowChange, AttemptChange

LEMMA PutChange ==
    ASSUME Typed, NEW b \in Attempts, NEW row \in AttemptRow, Put(b, row), UNCHANGED payment,
           attempt'[b] = row => AttemptChange(b),
           NEW a \in Attempts
    PROVE  RowChange(a)
  BY Puts DEF Typed, TypeOK, RowChange, AttemptChange

LEMMA RowStep == Typed /\ Typed' /\ Locked /\ [Next]_vars => \A a \in Attempts : RowChange(a)
<1> SUFFICES ASSUME Typed, Typed', Locked, [Next]_vars, NEW a \in Attempts PROVE RowChange(a)
  OBVIOUS
<1>1. ASSUME UNCHANGED <<attempt, payment>> PROVE RowChange(a)
  BY <1>1 DEF RowChange, AttemptChange
<1>2. ASSUME NEW w \in Workers, Begin(w) PROVE RowChange(a)
  <2>1. ASSUME NEW b \in Attempts, RefundBegin(w, b) PROVE RowChange(a)
    <3>1. Turned(b, "REFUND_PENDING") \in AttemptRow
      BY AttemptRows DEF Typed, AttemptStatuses, Unapplied
    <3>2. QED
      BY <2>1, <3>1, PutChange DEF RefundBegin, AttemptChange
  <2>2. QED
    BY <1>1, <1>2, <2>1 DEF Begin, StartBegin, ReconcileBegin, HookStore
<1>3. ASSUME NEW w \in Workers, StartLockBill(w) PROVE RowChange(a)
  <2>1. ASSUME NEW b \in Attempts, CreateAttempt(w, b, None), Due > 0 PROVE RowChange(a)
    BY <1>3, <2>1, CreateChange, NoneIsNone DEF StartLockBill
  <2>2. QED
    BY <1>1, <1>3, <2>1 DEF StartLockBill
<1>4. ASSUME NEW w \in Workers, StartLockAttempt(w) PROVE RowChange(a)
  <2>1. Due > 0
    BY <1>4 DEF StartLockAttempt, Locked, FoundOpen
  <2>2. ASSUME NEW b \in Attempts, NEW old, CreateAttempt(w, b, old),
               old \in Attempts => attempt[old].status \in Open
        PROVE  RowChange(a)
    BY <1>4, <2>1, <2>2, CreateChange DEF StartLockAttempt
  <2>3. QED
    BY <1>1, <1>4, <2>2, NoneIsNone DEF StartLockAttempt
<1>5. ASSUME NEW w \in Workers, Activate(w) \/ RejectOrder(w) \/ ExpireStuck(w) PROVE RowChange(a)
  <2> DEFINE b == worker[w].a
  <2>1. b \in Attempts /\ UNCHANGED payment
    BY <1>5 DEF Activate, RejectOrder, ExpireStuck, FinishStart, Typed, WorkerHolds, HoldsAttempt
  <2>2. {Confirmed(b), Turned(b, "FAILED"), Closed(b, "stuck")} \subseteq AttemptRow
    BY <2>1, AttemptRows DEF Typed, AttemptStatuses
  <2>3. \/ UNCHANGED attempt
        \/ /\ attempt[b].status = "CREATED"
           /\ \E row \in {Confirmed(b), Turned(b, "FAILED"), Closed(b, "stuck")} : Put(b, row)
    BY <1>5 DEF Activate, RejectOrder, ExpireStuck, FinishStart, Unconfirmed
  <2>4. ASSUME attempt[b].status = "CREATED",
               NEW row \in {Confirmed(b), Turned(b, "FAILED"), Closed(b, "stuck")}, Put(b, row)
        PROVE  RowChange(a)
    BY <2>1, <2>2, <2>4, PutChange DEF AttemptChange
  <2>5. QED
    BY <1>1, <2>1, <2>3, <2>4
<1>6. ASSUME NEW w \in Workers, ReconcileLock(w) PROVE RowChange(a)
  <2> DEFINE b == worker[w].a
  <2>1. b \in Attempts
    BY <1>6 DEF ReconcileLock, Typed, WorkerHolds, HoldsAttempt
  <2>2. Closed(b, "lapsed") \in AttemptRow /\ Closed(b, "unasked") \in AttemptRow
    BY <2>1, AttemptRows DEF Typed
  <2>3. CASE Ripe(w) /\ worker[w].copy = "ACTIVE"
    BY <1>6, <2>1, <2>2, <2>3, PutChange DEF ReconcileLock, GivenUp, Ripe, AttemptChange
  <2>4. CASE Ripe(w) /\ worker[w].copy # "ACTIVE"
    BY <1>6, <2>1, <2>2, <2>4, PutChange DEF ReconcileLock, GivenUp, Ripe, AttemptChange
  <2>5. QED
    BY <1>1, <1>6, <2>3, <2>4 DEF ReconcileLock
<1>7. ASSUME NEW w \in Workers, ApplyLock(w) PROVE RowChange(a)
  <2>1. PICK p \in worker[w].pays :
           \/ UNCHANGED attempt
           \/ /\ ~Finished(provider[p].order) /\ attemptLock[provider[p].order] = None
              /\ Unapply(provider[p].order, p)
    BY <1>7 DEF ApplyLock
  <2> DEFINE b == provider[p].order
  <2>2. b \in Attempts /\ p \in PaysOf(b) /\ Captured(p)
    BY RowOf DEF WorkerRow, Typed, PaysCaptured, PaysHaveOrders, Captured, PaysOf
  <2>3. Holding(b, p, "UNAPPLIED") \in AttemptRow
    BY <2>2, AttemptRows DEF PaysOf, Typed, AttemptStatuses, Unapplied
  <2>4. ASSUME ~Finished(b), attemptLock[b] = None, Unapply(b, p) PROVE RowChange(a)
    BY <1>7, <2>2, <2>3, <2>4, PutChange DEF ApplyLock, Unapply, AttemptChange
  <2>5. QED
    BY <1>1, <1>7, <2>1, <2>4 DEF ApplyLock
<1>8. ASSUME NEW w \in Workers, ApplyBill(w) PROVE RowChange(a)
  <2> DEFINE b == worker[w].a
             p == worker[w].p
  <2>1. Settles(w, b)
    BY <1>8, AppliedMoves DEF ApplyBill, Settles, Moves
  <2>2. b \in Attempts /\ p \in ProviderPays \cup {None}
    BY <1>8, RowOf DEF ApplyBill, Typed, WorkerHolds, HoldsAttempt, WorkerRow
  <2>3. Holding(b, p, "UNAPPLIED") \in AttemptRow /\ Holding(b, p, "SUCCEEDED") \in AttemptRow
    BY <2>2, AttemptRows DEF Typed, AttemptStatuses, Unapplied
  <2>4. CASE Unapply(b, p) /\ UNCHANGED payment
    BY <2>1, <2>2, <2>3, <2>4, PutChange DEF Unapply, AttemptChange
  <2>5. CASE Credit(b, attempt[b].amount) /\ Put(b, Holding(b, p, "SUCCEEDED"))
    <3>1. /\ payment'[b] = [status |-> "COMPLETED", amount |-> attempt[b].amount]
          /\ a # b => payment'[a] = payment[a]
      BY <2>2, <2>5 DEF Credit, Typed, TypeOK, PaymentKeys
    <3>2. attempt'[b] = Holding(b, p, "SUCCEEDED") /\ (a # b => attempt'[a] = attempt[a])
      BY <2>2, <2>3, <2>5, Puts DEF Typed, TypeOK
    <3>3. QED
      BY <2>1, <3>1, <3>2 DEF RowChange, AttemptChange
  <2>6. QED
    BY <1>8, <2>4, <2>5 DEF ApplyBill
<1>9. ASSUME NEW w \in Workers, RefundWrite(w) PROVE RowChange(a)
  <2> DEFINE b == worker[w].a
  <2>1. b \in Attempts
    BY <1>9 DEF RefundWrite, Typed, WorkerHolds, HoldsAttempt
  <2>2. Turned(b, "REFUNDED") \in AttemptRow
    BY <2>1, AttemptRows DEF Typed, AttemptStatuses, Unapplied
  <2>3. CASE worker[w].result = "SUCCESS"
    BY <1>9, <2>1, <2>2, <2>3, PutChange DEF RefundWrite, WriteRefund, AttemptChange
  <2>4. QED
    BY <1>1, <1>9, <2>3 DEF RefundWrite, WriteRefund
<1>10. ASSUME NEW w \in Workers, Continue(w) PROVE RowChange(a)
  BY <1>1, <1>3, <1>4, <1>5, <1>6, <1>7, <1>8, <1>9, <1>10
  DEF Continue, CreateOrder, ReadClock, QueryAnswered, QueryOutage, RefundCall
<1>11. ASSUME NEW w \in Workers, Abort(w) \/ Crash(w) PROVE RowChange(a)
  BY <1>1, <1>11 DEF Abort, AbortStart, AbortApply, Crash
<1>12. CASE Owner
  <2>1. UNCHANGED attempt
    BY <1>12 DEF Owner, OwnerStep, VoidOffline, RecordOffline, AdjustAmount, CancelBill
  <2>2. payment'[a] = payment[a]
    <3>1. a \in PaymentKeys /\ a \notin OwnerKeys
      BY DistinctKeys DEF PaymentKeys
    <3>2. CASE UNCHANGED payment
      BY <3>2
    <3>3. ASSUME NEW k \in OwnerKeys, VoidOffline(k) PROVE payment'[a] = payment[a]
      BY <3>1, <3>3 DEF VoidOffline
    <3>4. ASSUME NEW k \in OwnerKeys, NEW m, RecordOffline(k, m) PROVE payment'[a] = payment[a]
      BY <3>1, <3>4 DEF RecordOffline, Credit
    <3>5. QED
      BY <1>12, <3>2, <3>3, <3>4 DEF Owner, AdjustAmount, CancelBill
  <2>3. QED
    BY <2>1, <2>2 DEF RowChange, AttemptChange
<1>13. CASE World
  BY <1>1, <1>13 DEF World, WorldStep, Tick, RefundClears, EndPay, BeginPay
<1>14. CASE UNCHANGED vars
  BY <1>1, <1>14 DEF vars
<1>15. QED
  BY <1>2, <1>10, <1>11, <1>12, <1>13, <1>14 DEF Next

\* The provider's view of p: unchanged, a payment begun in an open session before
\* the order's expiry, or the outcome of one that was pending.
PayChange(p) ==
    \/ provider'[p] = provider[p]
    \/ \E a \in Attempts :
          /\ provider[p].status = "NONE" /\ attempt[a].session /\ age[a] # "lapsed"
          /\ provider'[p].order = a /\ provider'[p].status = "PENDING"
    \/ /\ provider[p].status = "PENDING" /\ provider'[p].status \in {"SUCCESS", "FAILED"}
       /\ provider'[p].order = provider[p].order
       /\ provider'[p].exact = provider[p].exact

LEMMA PayStep == Typed /\ [Next]_vars => \A p \in ProviderPays : PayChange(p)
<1> SUFFICES ASSUME Typed, [Next]_vars, NEW p \in ProviderPays PROVE PayChange(p)
  OBVIOUS
<1>1. CASE UNCHANGED provider
  BY <1>1 DEF PayChange
<1>2. ASSUME NEW q \in ProviderPays, NEW a \in Attempts, BeginPay(q, a) PROVE PayChange(p)
  BY <1>2 DEF BeginPay, PayChange, Typed, TypeOK, ProviderPay
<1>3. ASSUME NEW q \in ProviderPays, EndPay(q) PROVE PayChange(p)
  BY <1>3 DEF EndPay, PayChange, Typed, TypeOK, ProviderPay
<1>4. CASE World
  BY <1>1, <1>2, <1>3, <1>4 DEF World, Tick, RefundClears
<1>5. ASSUME NEW w \in Workers, Begin(w) \/ Continue(w) PROVE PayChange(p)
  BY <1>1, <1>5
  DEF Begin, Continue, providerVars, StartBegin, ReconcileBegin, HookStore, RefundBegin,
      StartLockBill, StartLockAttempt, CreateOrder, Activate, RejectOrder, ExpireStuck, FinishStart,
      ReadClock, QueryAnswered, QueryOutage, ReconcileLock, ApplyLock, ApplyBill, RefundCall, RefundWrite
<1>6. ASSUME NEW w \in Workers, Abort(w) \/ Crash(w) PROVE PayChange(p)
  BY <1>1, <1>6 DEF Abort, AbortStart, AbortApply, Crash, providerVars
<1>7. CASE Owner
  BY <1>1, <1>7 DEF Owner, OwnerStep, VoidOffline, RecordOffline, AdjustAmount, CancelBill, providerVars
<1>8. CASE UNCHANGED vars
  BY <1>1, <1>8 DEF vars
<1>9. QED
  BY <1>4, <1>5, <1>6, <1>7, <1>8 DEF Next

\* The provider's refund of a: unchanged, asked for by a refund in progress, or cleared.
RefundChange(a) ==
    \/ refunded'[a] = refunded[a]
    \/ \E w \in Workers : worker[w].pc = "refundCall" /\ worker[w].a = a /\ refunded[a] = "NONE"
    \/ refunded[a] = "PENDING" /\ refunded'[a] = "SUCCESS"

LEMMA RefundStep == Typed /\ [Next]_vars => \A a \in Attempts : RefundChange(a)
<1> SUFFICES ASSUME Typed, [Next]_vars, NEW a \in Attempts PROVE RefundChange(a)
  OBVIOUS
<1>1. CASE UNCHANGED refunded
  BY <1>1 DEF RefundChange
<1>2. ASSUME NEW w \in Workers, RefundCall(w) PROVE RefundChange(a)
  BY <1>2 DEF RefundCall, RefundChange, Typed, TypeOK
<1>3. ASSUME NEW b \in Attempts, RefundClears(b) PROVE RefundChange(a)
  BY <1>3 DEF RefundClears, RefundChange, Typed, TypeOK
<1>4. CASE World
  BY <1>1, <1>3, <1>4 DEF World, Tick, EndPay, BeginPay
<1>5. ASSUME NEW w \in Workers, Begin(w) \/ Continue(w) PROVE RefundChange(a)
  BY <1>1, <1>2, <1>5
  DEF Begin, Continue, providerVars, StartBegin, ReconcileBegin, HookStore, RefundBegin,
      StartLockBill, StartLockAttempt, CreateOrder, Activate, RejectOrder, ExpireStuck, FinishStart,
      ReadClock, QueryAnswered, QueryOutage, ReconcileLock, ApplyLock, ApplyBill, RefundWrite
<1>6. ASSUME NEW w \in Workers, Abort(w) \/ Crash(w) PROVE RefundChange(a)
  BY <1>1, <1>6 DEF Abort, AbortStart, AbortApply, Crash, providerVars
<1>7. CASE Owner
  BY <1>1, <1>7 DEF Owner, OwnerStep, VoidOffline, RecordOffline, AdjustAmount, CancelBill, providerVars
<1>8. CASE UNCHANGED vars
  BY <1>1, <1>8 DEF vars
<1>9. QED
  BY <1>4, <1>5, <1>6, <1>7, <1>8 DEF Next

\* Points of the program at which a worker relies on nothing it read before.
Fresh == {"idle", "clock", "startBill", "startAttempt", "createOrder", "activate", "reject", "stuck", "applyLock"}

\* A worker that a step moves to a point where it relies on an earlier read got
\* that read in this step, or had it.
WorkerChange(w) ==
    LET r == worker'[w] IN
    \/ r = worker[w]
    \/ r.pc \in Fresh
    \/ r.pc = "query" /\ (r.ripe => age[r.a] = "lapsed")
    \/ /\ r.pc = "reconcileLock"
       /\ r.ripe => \/ r.copy # "ACTIVE" /\ age[r.a] = "lapsed"
                    \/ /\ worker[w].pc = "query" /\ worker[w].ripe /\ worker[w].a = r.a
                       /\ \A p \in PaysOf(r.a) : provider[p].status \notin {"SUCCESS", "PENDING"}
       /\ UNCHANGED <<attempt, age, provider>>
    \/ /\ r.pc = "applyBill" /\ r.p \in r.pays /\ r.a = provider[r.p].order
       /\ Fits(r.p) /\ ~Finished(r.a)
       /\ UNCHANGED <<attempt, provider>>
    \/ r.pc = "refundCall" /\ r.a \in Attempts /\ attempt'[r.a].status = "REFUND_PENDING"
    \/ /\ r.pc = "refundWrite" /\ worker[w].pc = "refundCall" /\ r.a = worker[w].a
       /\ r.result = refunded'[r.a] /\ UNCHANGED attempt

LEMMA FreshChange ==
    ASSUME NEW w \in Workers, NEW r, Moves(w, r), r.pc \in Fresh, NEW v \in Workers
    PROVE  WorkerChange(v)
  BY DEF Moves, WorkerChange

LEMMA WorkerStep == Typed /\ Typed' /\ [Next]_vars => \A v \in Workers : WorkerChange(v)
<1> SUFFICES ASSUME Typed, Typed', [Next]_vars, NEW v \in Workers PROVE WorkerChange(v)
  OBVIOUS
<1>1. CASE UNCHANGED worker
  BY <1>1 DEF WorkerChange
<1>2. ASSUME NEW w \in Workers, Become(w, Idle) PROVE WorkerChange(v)
  BY <1>2, FinishMoves, FreshChange DEF Fresh
<1>3. ASSUME NEW w \in Workers, Begin(w) PROVE WorkerChange(v)
  <2>1. CASE StartBegin(w)
    BY <2>1, StartBeginMoves DEF Moves, WorkerChange, Fresh
  <2>2. CASE ReconcileBegin(w)
    BY <2>2, ReconcileBeginMoves, FreshChange DEF Fresh
  <2>3. ASSUME NEW p \in ProviderPays, HookStore(w, p) PROVE WorkerChange(v)
    BY <2>3, HookStoreMoves, FreshChange DEF Fresh
  <2>4. ASSUME NEW a \in Attempts, RefundBegin(w, a) PROVE WorkerChange(v)
    <3>1. Turned(a, "REFUND_PENDING") \in AttemptRow /\ Turned(a, "REFUND_PENDING").status = "REFUND_PENDING"
      BY AttemptRows, AttemptFields DEF Typed, AttemptStatuses, Unapplied
    <3>2. attempt'[a].status = "REFUND_PENDING"
      BY <2>4, <3>1, Puts DEF RefundBegin, Typed, TypeOK
    <3>3. QED
      BY <2>4, <3>2, RefundBeginMoves DEF Moves, WorkerChange
  <2>5. QED
    BY <1>3, <2>1, <2>2, <2>3, <2>4 DEF Begin
<1>4. ASSUME NEW w \in Workers, Orders(w) PROVE WorkerChange(v)
  BY <1>4, FreshChange DEF Orders, Fresh
<1>5. ASSUME NEW w \in Workers, Continue(w) PROVE WorkerChange(v)
  <2>1. CASE StartLockBill(w)
    BY <1>4, <2>1, StartLockBillMoves, FreshChange DEF Fresh
  <2>2. CASE StartLockAttempt(w)
    BY <1>4, <2>2, StartLockAttemptMoves
  <2>3. CASE CreateOrder(w)
    BY <2>3, CreateOrderMoves, FreshChange DEF Fresh
  <2>4. CASE Activate(w) \/ RejectOrder(w) \/ ExpireStuck(w) \/ RefundWrite(w)
    BY <1>2, <2>4 DEF Activate, RejectOrder, ExpireStuck, FinishStart, RefundWrite
  <2>11. CASE ReadClock(w)
    <3>1. UNCHANGED <<attempt, age, provider>>
      BY <2>11 DEF ReadClock, providerVars
    <3>2. QED
      BY <2>11, <3>1, ReadClockMoves DEF Moves, WorkerChange
  <2>5. CASE QueryAnswered(w)
    <3>1. worker[w].pc = "query" /\ UNCHANGED <<attempt, age, provider>>
      BY <2>5 DEF QueryAnswered, providerVars
    <3>2. QED
      BY <2>5, <3>1, QueryAnsweredMoves DEF Moves, WorkerChange, Fresh
  <2>6. CASE QueryOutage(w) \/ ReconcileLock(w)
    BY <2>6, ReconciledMoves, FreshChange DEF QueryOutage, ReconcileLock, Fresh
  <2>7. CASE ApplyLock(w)
    <3>1. PICK p \in worker[w].pays : LET a == provider[p].order IN
             \/ Become(w, AfterApply(w, p))
             \/ /\ Become(w, Crediting(w, a, p))
                /\ ~Finished(a) /\ Fits(p) /\ UNCHANGED <<attempt, provider>>
      BY <2>7 DEF ApplyLock, providerVars
    <3> DEFINE a == provider[p].order
    <3>2. CASE Become(w, AfterApply(w, p))
      BY <3>2, AppliedMoves, FreshChange DEF Fresh
    <3>3. CASE Become(w, Crediting(w, a, p)) /\ ~Finished(a) /\ Fits(p) /\ UNCHANGED <<attempt, provider>>
      <4>1. a \in Attempts
        BY RowOf DEF WorkerRow, Typed, PaysCaptured, PaysHaveOrders, Captured
      <4>2. PICK r \in WorkerRow : Moves(w, r) /\ r.pc = "applyBill" /\ r.a = a /\ r.p = p /\ r.pays = worker[w].pays
        BY <3>3, <4>1, CreditingMoves
      <4>3. QED
        BY <3>3, <4>2 DEF Moves, WorkerChange
    <3>4. QED
      BY <3>1, <3>2, <3>3
  <2>8. CASE ApplyBill(w)
    BY <2>8, AppliedMoves, FreshChange DEF ApplyBill, Fresh
  <2>9. CASE RefundCall(w)
    BY <2>9, RefundCallMoves DEF RefundCall, Moves, WorkerChange, Fresh
  <2>10. QED
    BY <1>5, <2>1, <2>2, <2>3, <2>4, <2>5, <2>6, <2>7, <2>8, <2>9, <2>11 DEF Continue
<1>6. ASSUME NEW w \in Workers, Abort(w) \/ Crash(w) PROVE WorkerChange(v)
  BY <1>2, <1>6 DEF Abort, AbortStart, AbortApply, Crash
<1>7. CASE Owner
  BY <1>1, <1>7 DEF Owner, OwnerStep, VoidOffline, RecordOffline, AdjustAmount, CancelBill
<1>8. CASE World
  BY <1>1, <1>8 DEF World, WorldStep, Tick, RefundClears, EndPay, BeginPay
<1>9. CASE UNCHANGED vars
  BY <1>1, <1>9 DEF vars
<1>10. QED
  BY <1>3, <1>5, <1>6, <1>7, <1>8, <1>9 DEF Next

-----------------------------------------------------------------------------
(* Captures and the rows that account for them.                            *)

\* The provider takes payments only for a confirmed order.
PaysNeedSession ==
    /\ \A a \in Attempts : attempt[a].session => attempt[a].status \notin {"NONE", "CREATED"}
    /\ \A p \in ProviderPays :
          IF provider[p].status = "NONE" THEN provider[p].order = None
          ELSE attempt[provider[p].order].session

\* Under its row lock the attempt is unfinished and the capture fits it.
CreditsItsCapture ==
    \A w \in Workers : worker[w].pc = "applyBill" =>
        /\ worker[w].p \in worker[w].pays
        /\ provider[worker[w].p].order = worker[w].a
        /\ Fits(worker[w].p)
        /\ ~Finished(worker[w].a)

\* An attempt's own payment is recorded at most once and never voided.
OnlinePaymentsStay == \A a \in Attempts : payment[a].status \in {"NONE", "COMPLETED"}

\* An attempt held for refund holds one of its captures.
HeldCapture ==
    \A a \in Attempts : attempt[a].status \in Unapplied =>
        attempt[a].ppid \in PaysOf(a) /\ Captured(attempt[a].ppid)

\* A refund in progress is of an attempt whose refund was asked for, and only
\* the provider's SUCCESS is carried to the row.
RefundInProgress ==
    \A w \in Workers :
        /\ worker[w].pc \in {"refundCall", "refundWrite"} =>
              attempt[worker[w].a].status \in {"REFUND_PENDING", "REFUNDED"}
        /\ worker[w].pc = "refundWrite" /\ worker[w].result = "SUCCESS" =>
              refunded[worker[w].a] = "SUCCESS"

\* What survives any change of an attempt row: a session, a finished attempt and
\* the capture it holds.
LEMMA RowMonotone ==
    ASSUME Typed, NEW a \in Attempts, RowChange(a)
    PROVE  attempt[a].session => attempt'[a].session
<1>1. attempt[a] \in AttemptRow
  BY DEF Typed, TypeOK
<1>2. QED
  BY <1>1, AttemptFields DEF Typed, RowChange, AttemptChange, AttemptRow

LEMMA SessionInit == Init => PaysNeedSession
  BY DEF Init, PaysNeedSession

LEMMA SessionStep == Typed /\ Typed' /\ Locked /\ PaysNeedSession /\ [Next]_vars => PaysNeedSession'
<1> SUFFICES ASSUME Typed, Typed', Locked, PaysNeedSession, [Next]_vars PROVE PaysNeedSession'
  OBVIOUS
<1>1. ASSUME NEW a \in Attempts, attempt'[a].session
      PROVE  attempt'[a].status \notin {"NONE", "CREATED"}
  <2>1. RowChange(a) /\ attempt[a] \in AttemptRow
    BY RowStep DEF Typed, TypeOK
  <2>2. attempt[a].session => attempt[a].status \notin {"NONE", "CREATED"}
    BY DEF PaysNeedSession
  <2>3. QED
    BY <1>1, <2>1, <2>2, AttemptFields
    DEF Typed, RowChange, AttemptChange, AttemptRow, Open
<1>2. ASSUME NEW p \in ProviderPays
      PROVE  IF provider'[p].status = "NONE" THEN provider'[p].order = None
             ELSE attempt'[provider'[p].order].session
  <2>1. PayChange(p)
    BY PayStep
  <2>2. \A a \in Attempts : attempt[a].session => attempt'[a].session
    BY RowStep, RowMonotone
  <2>3. QED
    BY <2>1, <2>2 DEF PayChange, PaysNeedSession, Typed, PaysHaveOrders
<1>3. QED
  BY <1>1, <1>2 DEF PaysNeedSession

\* A capture of an order stays one.
LEMMA CapturesStay ==
    ASSUME Typed, [Next]_vars, NEW p \in ProviderPays, NEW a \in Attempts, p \in PaysOf(a), Captured(p)
    PROVE  (p \in PaysOf(a) /\ Captured(p))' /\ provider'[p].exact = provider[p].exact
  BY PayStep DEF PayChange, PaysOf, Captured

\* The layers so far, as assumptions of a step.
Base == Typed /\ Locked /\ PaysNeedSession

LEMMA BaseStep == Base /\ [Next]_vars => Base'
  BY TypedStep, LockedStep, SessionStep DEF Base

LEMMA BaseInit == Init => Base
  BY TypedInit, LockedInit, SessionInit DEF Base

Books ==
    /\ CreditsItsCapture /\ OnlinePaymentsStay /\ HeldCapture
    /\ RefundInProgress /\ CreditBacked /\ RefundOnlyUncredited

LEMMA BooksInit == Init => Books
<1> SUFFICES ASSUME Init PROVE Books
  OBVIOUS
<1>1. CreditsItsCapture /\ RefundInProgress
  BY DEF Init, CreditsItsCapture, RefundInProgress, Idle
<1>2. OnlinePaymentsStay
  BY DEF Init, OnlinePaymentsStay, PaymentKeys
<1>3. HeldCapture /\ CreditBacked /\ RefundOnlyUncredited
  BY DEF Init, HeldCapture, CreditBacked, RefundOnlyUncredited, PaymentKeys, Unapplied
<1>4. QED
  BY <1>1, <1>2, <1>3 DEF Books

\* The transaction that ends brings a capture of its attempt, not yet accounted for.
LEMMA SettlesCapture ==
    ASSUME Base, Books, NEW w \in Workers, NEW a \in Attempts, Settles(w, a)
    PROVE  /\ worker[w].p \in PaysOf(a) /\ Captured(worker[w].p) /\ Fits(worker[w].p)
           /\ ~Finished(a)
<1>1. worker[w].pays \subseteq ProviderPays
  BY RowOf DEF Base, WorkerRow
<1>2. QED
  BY <1>1 DEF Settles, Base, Books, CreditsItsCapture, PaysOf, Typed, PaysCaptured

\* What a step makes of an attempt, with the invariants taken into account.
LEMMA RowCases ==
    ASSUME Base, Base', Books, [Next]_vars, NEW a \in Attempts
    PROVE  LET s == attempt[a].status
               t == attempt'[a].status IN
           \/ attempt'[a] = attempt[a] /\ payment'[a] = payment[a]
           \/ /\ payment'[a] = payment[a] /\ ~Finished(a)
              /\ t \in {"CREATED", "ACTIVE", "FAILED", "EXPIRED"}
           \/ /\ payment'[a] = payment[a] /\ ~Finished(a)
              /\ t = "UNAPPLIED"
              /\ attempt'[a].ppid \in PaysOf(a) /\ Captured(attempt'[a].ppid)
           \/ /\ payment'[a] = payment[a] /\ attempt'[a].ppid = attempt[a].ppid
              /\ Refundable(a) /\ t = "REFUND_PENDING"
           \/ /\ payment'[a] = payment[a] /\ attempt'[a].ppid = attempt[a].ppid
              /\ s \in {"REFUND_PENDING", "REFUNDED"} /\ refunded[a] = "SUCCESS" /\ t = "REFUNDED"
           \/ /\ ~Finished(a) /\ t = "SUCCEEDED"
              /\ payment'[a].status = "COMPLETED" /\ payment'[a].amount = attempt'[a].amount
              /\ attempt'[a].ppid \in PaysOf(a) /\ Captured(attempt'[a].ppid) /\ Fits(attempt'[a].ppid)
<1>1. RowChange(a) /\ attempt[a] \in AttemptRow
  BY RowStep DEF Base, Typed, TypeOK
<1>2. ASSUME NEW w \in Workers, Settles(w, a),
             attempt'[a] = Holding(a, worker[w].p, "SUCCEEDED"),
             payment'[a] = [status |-> "COMPLETED", amount |-> attempt[a].amount]
      PROVE  /\ ~Finished(a) /\ attempt'[a].status = "SUCCEEDED"
             /\ payment'[a].status = "COMPLETED" /\ payment'[a].amount = attempt'[a].amount
             /\ attempt'[a].ppid \in PaysOf(a) /\ Captured(attempt'[a].ppid) /\ Fits(attempt'[a].ppid)
  BY <1>2, SettlesCapture, AttemptFields DEF Base, Typed
<1>3. ASSUME NEW w \in Workers, Settles(w, a), attempt'[a] = Holding(a, worker[w].p, "UNAPPLIED")
      PROVE  /\ ~Finished(a) /\ attempt'[a].status = "UNAPPLIED"
             /\ attempt'[a].ppid \in PaysOf(a) /\ Captured(attempt'[a].ppid)
  BY <1>3, SettlesCapture, AttemptFields DEF Base, Typed
<1>4. ASSUME NEW w \in Workers, worker[w].pc = "refundWrite", worker[w].a = a,
             worker[w].result = "SUCCESS", attempt'[a] = Turned(a, "REFUNDED")
      PROVE  /\ attempt'[a].ppid = attempt[a].ppid /\ attempt'[a].status = "REFUNDED"
             /\ attempt[a].status \in {"REFUND_PENDING", "REFUNDED"} /\ refunded[a] = "SUCCESS"
  BY <1>4, AttemptFields DEF Base, Typed, Books, RefundInProgress
<1>5. CASE payment'[a] = payment[a] /\ AttemptChange(a)
  BY <1>1, <1>3, <1>4, <1>5, AttemptFields
  DEF AttemptChange, Base, Typed, Finished, Open, Unapplied, Refundable
<1>6. QED
  BY <1>1, <1>2, <1>5 DEF RowChange

LEMMA BooksStep == Base /\ Base' /\ Books /\ [Next]_vars => Books'
<1> SUFFICES ASSUME Base, Base', Books, [Next]_vars PROVE Books'
  OBVIOUS
<1>1. ASSUME NEW a \in Attempts, Finished(a) PROVE Finished(a)' /\ attempt'[a].ppid = attempt[a].ppid
  BY <1>1, RowCases DEF Finished, Unapplied
<1>2. ASSUME NEW a \in Attempts, attempt[a].status \in {"REFUND_PENDING", "REFUNDED"}
      PROVE  attempt'[a].status \in {"REFUND_PENDING", "REFUNDED"}
  BY <1>2, RowCases DEF Finished, Unapplied
<1>3. CreditsItsCapture'
  <2> SUFFICES ASSUME NEW w \in Workers, worker'[w].pc = "applyBill"
               PROVE  /\ worker'[w].p \in worker'[w].pays
                      /\ provider'[worker'[w].p].order = worker'[w].a
                      /\ Fits(worker[w].p)'
                      /\ ~Finished(worker[w].a)'
    BY DEF CreditsItsCapture
  <2>1. WorkerChange(w)
    BY WorkerStep DEF Base
  <2>2. CASE worker'[w] = worker[w]
    <3> DEFINE a == worker[w].a
               p == worker[w].p
    <3>1. /\ p \in worker[w].pays /\ provider[p].order = a /\ Fits(p) /\ ~Finished(a)
          /\ a \in Attempts /\ attemptLock[a] = w
      BY <2>2 DEF Books, CreditsItsCapture, Base, Typed, WorkerHolds, HoldsAttempt, Locked, LocksHeld
    <3>2. p \in PaysOf(a) /\ Captured(p)
      BY <3>1, RowOf DEF Base, Typed, PaysCaptured, PaysOf, WorkerRow
    <3>3. provider'[p].order = a /\ provider'[p].exact = provider[p].exact
      BY <3>1, <3>2, CapturesStay DEF Base, PaysOf
    <3>4. \A v \in Workers : ~Settles(v, a)
      BY <2>2, <3>1 DEF Settles, Base, Locked, LocksHeld
    <3>5. RowChange(a)
      BY <3>1, RowStep DEF Base
    <3>6. \A v \in Workers : worker[v].pc = "refundWrite" => worker[v].a # a
      BY <3>1 DEF Books, RefundInProgress, Finished, Unapplied
    <3>7. ~Finished(a)'
      <4>1. ~Refundable(a) /\ attemptLock[a] # None
        BY <3>1, NoneIsNone DEF Refundable, Finished, Unapplied
      <4>2. \/ attempt'[a] = attempt[a]
            \/ attempt'[a] \in {Opened(a), Confirmed(a), Turned(a, "FAILED")}
            \/ \E why \in {"lapsed", "unasked", "replaced", "stuck"} : attempt'[a] = Closed(a, why)
        BY <3>4, <3>5, <3>6, <4>1 DEF RowChange, AttemptChange
      <4>3. attempt'[a] = attempt[a] \/ attempt'[a].status \in {"CREATED", "ACTIVE", "FAILED", "EXPIRED"}
        BY <3>1, <4>2, AttemptFields DEF Base, Typed
      <4>4. CASE attempt'[a] = attempt[a]
        BY <2>2, <3>1, <4>4 DEF Finished
      <4>5. CASE attempt'[a].status \in {"CREATED", "ACTIVE", "FAILED", "EXPIRED"}
        BY <2>2, <4>5 DEF Finished, Unapplied
      <4> QED
        BY <4>3, <4>4, <4>5
    <3>8. QED
      BY <2>2, <3>1, <3>3, <3>7 DEF Fits
  <2>3. QED
    BY <2>1, <2>2 DEF WorkerChange, Fresh, Fits, Finished
<1>4. RefundInProgress'
  <2> SUFFICES ASSUME NEW w \in Workers
               PROVE  /\ worker'[w].pc \in {"refundCall", "refundWrite"} =>
                            attempt'[worker'[w].a].status \in {"REFUND_PENDING", "REFUNDED"}
                      /\ worker'[w].pc = "refundWrite" /\ worker'[w].result = "SUCCESS" =>
                            refunded'[worker'[w].a] = "SUCCESS"
    BY DEF RefundInProgress
  <2>1. WorkerChange(w)
    BY WorkerStep DEF Base
  <2>2. worker[w].pc \in {"refundCall", "refundWrite"} =>
           /\ worker[w].a \in Attempts
           /\ attempt[worker[w].a].status \in {"REFUND_PENDING", "REFUNDED"}
    BY DEF Base, Typed, WorkerHolds, HoldsAttempt, Books, RefundInProgress
  <2>3. \A a \in Attempts : refunded[a] = "SUCCESS" => refunded'[a] = "SUCCESS"
    BY RefundStep DEF RefundChange, Base
  <2>4. worker[w].pc = "refundWrite" /\ worker[w].result = "SUCCESS" => refunded[worker[w].a] = "SUCCESS"
    BY DEF Books, RefundInProgress
  <2>5. QED
    BY <1>2, <2>1, <2>2, <2>3, <2>4 DEF WorkerChange, Fresh
<1>5. OnlinePaymentsStay'
  <2> SUFFICES ASSUME NEW a \in Attempts PROVE payment'[a].status \in {"NONE", "COMPLETED"}
    BY DEF OnlinePaymentsStay
  <2>1. QED
    BY RowCases DEF Books, OnlinePaymentsStay
<1>6. HeldCapture'
  <2> SUFFICES ASSUME NEW a \in Attempts, attempt'[a].status \in Unapplied
               PROVE  (attempt[a].ppid \in PaysOf(a) /\ Captured(attempt[a].ppid))'
    BY DEF HeldCapture, Unapplied
  <2>1. attempt'[a].ppid \in PaysOf(a) /\ Captured(attempt'[a].ppid)
    BY RowCases DEF Books, HeldCapture, Unapplied, Refundable
  <2>2. attempt'[a].ppid \in ProviderPays
    BY <2>1 DEF PaysOf
  <2>3. QED
    BY <2>1, <2>2, CapturesStay DEF Base, PaysOf, Captured
<1>7. CreditBacked'
  <2> SUFFICES ASSUME NEW a \in Attempts
               PROVE  /\ (payment'[a].status = "COMPLETED") <=> (attempt'[a].status = "SUCCEEDED")
                      /\ attempt'[a].status = "SUCCEEDED" =>
                             /\ payment'[a].amount = attempt'[a].amount
                             /\ (attempt[a].ppid \in PaysOf(a) /\ Captured(attempt[a].ppid))'
                             /\ provider'[attempt'[a].ppid].exact
    BY DEF CreditBacked, PaysOf, Captured
  <2>1. /\ (payment[a].status = "COMPLETED") <=> (attempt[a].status = "SUCCEEDED")
        /\ attempt[a].status = "SUCCEEDED" =>
              /\ payment[a].amount = attempt[a].amount
              /\ attempt[a].ppid \in PaysOf(a) /\ Captured(attempt[a].ppid) /\ Fits(attempt[a].ppid)
    BY DEF Books, CreditBacked, Fits
  <2>2. (payment'[a].status = "COMPLETED") <=> (attempt'[a].status = "SUCCEEDED")
    BY <2>1, RowCases DEF Finished, Unapplied, Refundable
  <2>3. ASSUME attempt'[a].status = "SUCCEEDED"
        PROVE  /\ payment'[a].amount = attempt'[a].amount
               /\ attempt'[a].ppid \in PaysOf(a) /\ Captured(attempt'[a].ppid) /\ Fits(attempt'[a].ppid)
    BY <2>1, <2>3, RowCases
  <2>4. QED
    BY <2>2, <2>3, CapturesStay DEF Base, PaysOf, Captured, Fits
<1>8. RefundOnlyUncredited'
  <2> SUFFICES ASSUME NEW a \in Attempts
               PROVE  /\ refunded'[a] # "NONE" =>
                             /\ attempt'[a].status \in {"REFUND_PENDING", "REFUNDED"}
                             /\ payment'[a].status = "NONE"
                             /\ (attempt[a].ppid \in PaysOf(a) /\ Captured(attempt[a].ppid))'
                      /\ attempt'[a].status = "REFUNDED" => refunded'[a] = "SUCCESS"
    BY DEF RefundOnlyUncredited, PaysOf, Captured
  <2>1. refunded'[a] # "NONE" => attempt'[a].status \in {"REFUND_PENDING", "REFUNDED"}
    <3>1. RefundChange(a)
      BY RefundStep DEF Base
    <3>2. refunded[a] # "NONE" => attempt[a].status \in {"REFUND_PENDING", "REFUNDED"}
      BY DEF Books, RefundOnlyUncredited
    <3>3. \A w \in Workers : worker[w].pc = "refundCall" /\ worker[w].a = a =>
             attempt[a].status \in {"REFUND_PENDING", "REFUNDED"}
      BY DEF Books, RefundInProgress
    <3>4. QED
      BY <1>2, <3>1, <3>2, <3>3 DEF RefundChange
  <2>2. attempt'[a].status \in {"REFUND_PENDING", "REFUNDED"} =>
           /\ payment'[a].status = "NONE"
           /\ (attempt[a].ppid \in PaysOf(a) /\ Captured(attempt[a].ppid))'
    BY <1>5, <1>6, <1>7 DEF OnlinePaymentsStay, HeldCapture, CreditBacked, Unapplied
  <2>3. attempt'[a].status = "REFUNDED" => refunded'[a] = "SUCCESS"
    <3>1. refunded[a] = "SUCCESS" => refunded'[a] = "SUCCESS"
      BY RefundStep DEF RefundChange, Base
    <3>2. attempt[a].status = "REFUNDED" => refunded[a] = "SUCCESS"
      BY DEF Books, RefundOnlyUncredited
    <3>3. QED
      BY <3>1, <3>2, RowCases
  <2>4. QED
    BY <2>1, <2>2, <2>3
<1>9. QED
  BY <1>3, <1>4, <1>5, <1>6, <1>7, <1>8 DEF Books

\* Credit and refund exclude each other for every attempt: the bill carries an
\* online payment exactly for captures of its amount (apply_payment), and the
\* provider is asked for money back only when no bill was credited (refund).
THEOREM CapturesBacked == Spec => []CreditBacked
<1>1. Base /\ Books /\ [Next]_vars => Base' /\ Books'
  BY BaseStep, BooksStep
<1>2. Books => CreditBacked
  BY DEF Books
<1>3. QED
  BY <1>1, <1>2, BaseInit, BooksInit, PTL DEF Spec

\* No refund of credited money, and REFUNDED only on the provider's word.
THEOREM RefundsUncredited == Spec => []RefundOnlyUncredited
<1>1. Base /\ Books /\ [Next]_vars => Base' /\ Books'
  BY BaseStep, BooksStep
<1>2. Books => RefundOnlyUncredited
  BY DEF Books
<1>3. QED
  BY <1>1, <1>2, BaseInit, BooksInit, PTL DEF Spec

\* The life cycle of an attempt, in every step the program can take.
THEOREM AttemptsMove == Spec => AttemptMoves
<1>1. Base /\ Base' /\ Books /\ [Next]_vars =>
         [\A a \in Attempts :
             LET s == attempt[a].status
                 t == attempt'[a].status IN
             s # t => \/ s = "NONE" /\ t = "CREATED"
                      \/ s = "CREATED" /\ t \in {"ACTIVE", "FAILED"}
                      \/ s \in Open /\ t = "EXPIRED"
                      \/ s \in Open \cup {"EXPIRED", "FAILED"} /\ t \in {"SUCCEEDED", "UNAPPLIED"}
                      \/ s = "UNAPPLIED" /\ t = "REFUND_PENDING"
                      \/ s = "REFUND_PENDING" /\ t = "REFUNDED"]_attempt
  <2> SUFFICES ASSUME Base, Base', Books, [Next]_vars, NEW a \in Attempts
               PROVE  LET s == attempt[a].status
                          t == attempt'[a].status IN
                      s # t => \/ s = "NONE" /\ t = "CREATED"
                               \/ s = "CREATED" /\ t \in {"ACTIVE", "FAILED"}
                               \/ s \in Open /\ t = "EXPIRED"
                               \/ s \in Open \cup {"EXPIRED", "FAILED"} /\ t \in {"SUCCEEDED", "UNAPPLIED"}
                               \/ s = "UNAPPLIED" /\ t = "REFUND_PENDING"
                               \/ s = "REFUND_PENDING" /\ t = "REFUNDED"
    OBVIOUS
  <2>1. RowChange(a) /\ attempt[a].status \in AttemptStatuses
    BY RowStep DEF Base, Typed, TypeOK, AttemptRow
  <2>2. \A p \in PaysOf(a) : Captured(p) => attempt[a].status # "NONE"
    BY NoneIsNone DEF PaysOf, Captured, Base, PaysNeedSession
  <2>3. \A w \in Workers : Settles(w, a) => ~Finished(a) /\ attempt[a].status # "NONE"
    BY <2>2, SettlesCapture
  <2>4. \A w \in Workers : worker[w].pc = "refundWrite" /\ worker[w].a = a =>
           attempt[a].status \in {"REFUND_PENDING", "REFUNDED"}
    BY DEF Books, RefundInProgress
  <2>5. QED
    BY <2>1, <2>2, <2>3, <2>4, AttemptFields
    DEF RowChange, AttemptChange, Finished, Open, Unapplied, Refundable, AttemptStatuses, Base, Typed
<1>2. Base /\ Books /\ [Next]_vars => Base' /\ Books'
  BY BaseStep, BooksStep
<1>3. QED
  BY <1>1, <1>2, BaseInit, BooksInit, PTL DEF Spec, AttemptMoves

-----------------------------------------------------------------------------
(* Webhooks reported as processed.                                         *)

LEMMA FinishedStays ==
    ASSUME Base, Base', Books, [Next]_vars, NEW a \in Attempts, Finished(a)
    PROVE  Finished(a)'
  BY RowCases DEF Finished, Unapplied

\* The order of the capture is settled or held for refund.
Settled(p) == \E a \in Attempts : provider[p].order = a /\ Finished(a)

\* An attempt that is finished holds a capture of its order: this one, or another.
LEMMA SettledHolds ==
    ASSUME Books, NEW p \in ProviderPays
    PROVE  Settled(p) <=> Accounted(p) \/ Surplus(p)
  BY DEF Settled, Accounted, Surplus, Finished, Books, HeldCapture, CreditBacked

LEMMA SettledStays ==
    ASSUME Base, Base', Books, [Next]_vars, NEW p \in ProviderPays, Settled(p)
    PROVE  Settled(p)'
<1>1. PICK a \in Attempts : provider[p].order = a /\ Finished(a)
  BY DEF Settled, Finished
<1>2. provider'[p].order = a
  BY <1>1, PayStep, NoneIsNone DEF PayChange, Base, PaysNeedSession
<1>3. Finished(a)'
  BY <1>1, FinishedStays
<1>4. QED
  BY <1>2, <1>3 DEF Settled, Finished

\* The webhook of p is reported as done only by the step that accounts for it.
LEMMA HookStep ==
    ASSUME Base, Base', Books, [Next]_vars, NEW p \in ProviderPays,
           hook'[p] = "done", hook[p] # "done"
    PROVE  Settled(p)'
<1>1. ASSUME UNCHANGED hook PROVE Settled(p)'
  BY <1>1
<1>2. ASSUME NEW w \in Workers, NEW q, HookOutcome(w, q, "done"), q # p PROVE Settled(p)'
  BY <1>2 DEF HookOutcome, Base, Typed, TypeOK
<1>3. ASSUME NEW w \in Workers, ApplyLock(w) PROVE Settled(p)'
  <2>1. PICK q \in worker[w].pays :
           \/ /\ Finished(provider[q].order) \/ Unapply(provider[q].order, q)
              /\ HookOutcome(w, q, "done")
           \/ UNCHANGED hook
    BY <1>3 DEF ApplyLock
  <2> DEFINE a == provider[q].order
  <2>2. q \in ProviderPays /\ a \in Attempts /\ UNCHANGED provider
    BY <1>3, RowOf DEF ApplyLock, providerVars, WorkerRow, Base, Typed, PaysCaptured, PaysHaveOrders, Captured
  <2>3. CASE q = p /\ Finished(a)
    BY <2>2, <2>3, FinishedStays DEF Settled, Finished
  <2>4. CASE q = p /\ Unapply(a, q)
    <3>1. Holding(a, q, "UNAPPLIED") \in AttemptRow /\ Holding(a, q, "UNAPPLIED").status = "UNAPPLIED"
      BY <2>2, AttemptRows, AttemptFields DEF Base, Typed, AttemptStatuses, Unapplied
    <3>2. attempt'[a].status = "UNAPPLIED"
      BY <2>2, <2>4, <3>1, Puts DEF Unapply, Base, Typed, TypeOK
    <3>3. QED
      BY <2>2, <2>4, <3>2 DEF Settled, Finished, Unapplied
  <2>5. QED
    BY <1>1, <1>2, <2>1, <2>3, <2>4
<1>4. ASSUME NEW w \in Workers, ApplyBill(w) PROVE Settled(p)'
  <2> DEFINE a == worker[w].a
             q == worker[w].p
  <2>1. a \in Attempts /\ q \in ProviderPays /\ provider[q].order = a /\ UNCHANGED provider
    BY <1>4, RowOf
    DEF ApplyBill, providerVars, WorkerRow, Base, Typed, WorkerHolds, HoldsAttempt, Books, CreditsItsCapture
  <2>2. PICK s \in {"SUCCEEDED", "UNAPPLIED"} : Put(a, Holding(a, q, s))
    BY <1>4 DEF ApplyBill, Unapply
  <2>3. Holding(a, q, s) \in AttemptRow /\ Holding(a, q, s).status = s
    BY <2>1, AttemptRows, AttemptFields DEF Base, Typed, AttemptStatuses, Unapplied
  <2>4. attempt'[a].status = s
    BY <2>1, <2>2, <2>3, Puts DEF Base, Typed, TypeOK
  <2>5. CASE q = p
    BY <2>1, <2>4, <2>5 DEF Settled, Finished, Unapplied
  <2>6. QED
    BY <1>2, <1>4, <2>5 DEF ApplyBill
<1>5. ASSUME NEW w \in Workers, Begin(w) PROVE Settled(p)'
  BY <1>1, <1>5
  DEF Begin, StartBegin, ReconcileBegin, HookStore, RefundBegin, Base, Typed, TypeOK
<1>6. ASSUME NEW w \in Workers, Continue(w) PROVE Settled(p)'
  BY <1>1, <1>3, <1>4, <1>6
  DEF Continue, StartLockBill, StartLockAttempt, CreateOrder, Activate, RejectOrder, ExpireStuck, FinishStart,
      ReadClock, QueryAnswered, QueryOutage, ReconcileLock, RefundCall, RefundWrite
<1>7. ASSUME NEW w \in Workers, Abort(w) \/ Crash(w) PROVE Settled(p)'
  BY <1>1, <1>7
  DEF Abort, AbortStart, AbortApply, HookOutcome, Failure, Crash, Base, Typed, TypeOK
<1>8. CASE Owner \/ World
  BY <1>1, <1>8
  DEF Owner, OwnerStep, VoidOffline, RecordOffline, AdjustAmount, CancelBill,
      World, WorldStep, Tick, RefundClears, EndPay, BeginPay
<1>9. CASE UNCHANGED vars
  BY <1>1, <1>9 DEF vars
<1>10. QED
  BY <1>5, <1>6, <1>7, <1>8, <1>9 DEF Next

\* A webhook whose processing was reported as done left its capture settled on the
\* bill or held for refund, or found the order dealt with through another capture:
\* the 200 answered to Cashfree, which stops its retries, loses no first capture
\* of an order unless the event row says "error".
THEOREM HooksAccounted == Spec => []DoneMeansAccounted
<1>1. Init => DoneMeansAccounted
  BY DEF Init, DoneMeansAccounted
<1>2. Base /\ Base' /\ Books /\ Books' /\ DoneMeansAccounted /\ [Next]_vars => DoneMeansAccounted'
  <2> SUFFICES ASSUME Base, Base', Books, Books', DoneMeansAccounted, [Next]_vars
               PROVE  DoneMeansAccounted'
    OBVIOUS
  <2>1. ASSUME NEW p \in ProviderPays, hook[p] = "done" PROVE Settled(p)'
    BY <2>1, SettledStays, SettledHolds DEF DoneMeansAccounted
  <2>2. ASSUME NEW p \in ProviderPays, hook'[p] = "done" PROVE Settled(p)'
    BY <2>1, <2>2, HookStep
  <2>3. ASSUME NEW p \in ProviderPays, Settled(p)' PROVE Accounted(p)' \/ Surplus(p)'
    BY <2>3 DEF Settled, Accounted, Surplus, Finished, Books, HeldCapture, CreditBacked
  <2>4. QED
    BY <2>2, <2>3 DEF DoneMeansAccounted
<1>3. Base /\ Books /\ [Next]_vars => Base' /\ Books'
  BY BaseStep, BooksStep
<1>4. QED
  BY <1>1, <1>2, <1>3, BaseInit, BooksInit, PTL DEF Spec

-----------------------------------------------------------------------------
(* Money on the bill.                                                      *)

\* Amounts are of money that changed hands or is asked for.
Amounts ==
    /\ \A a \in Attempts : attempt[a].amount >= 0
    /\ \A k \in PaymentKeys : payment[k].amount >= 0

Credited == NeverOverpaid /\ Amounts

\* The bill a transaction leaves is settled, and paid within its total.
LEMMA SettledBill ==
    ASSUME NEW b \in BillRow, b.paid <= b.total, bill' = Settle(b)
    PROVE  NeverOverpaid'
  BY SettleRow DEF NeverOverpaid

LEMMA CreditWithin ==
    ASSUME Typed, NEW key, NEW amount \in Int, Credit(key, amount), amount <= Due
    PROVE  NeverOverpaid'
<1> DEFINE b == [bill EXCEPT !.paid = @ + amount]
<1>1. b \in BillRow /\ b.paid = bill.paid + amount /\ b.total = bill.total
  BY DEF Typed, TypeOK, BillRow
<1>2. b.paid <= b.total
  BY <1>1 DEF Due, Typed, TypeOK, BillRow
<1>3. QED
  BY <1>1, <1>2, SettledBill DEF Credit

LEMMA CreditedInit == Init => Credited
  BY MaxTotalNat DEF Init, Credited, NeverOverpaid, Amounts, Settle

LEMMA AmountsStep == Typed /\ Typed' /\ Locked /\ Amounts /\ [Next]_vars => Amounts'
<1> SUFFICES ASSUME Typed, Typed', Locked, Amounts, [Next]_vars PROVE Amounts'
  OBVIOUS
<1>1. ASSUME NEW a \in Attempts PROVE attempt'[a].amount >= 0 /\ payment'[a].amount >= 0
  <2>1. RowChange(a)
    BY RowStep
  <2>2. attempt[a].amount >= 0 /\ payment[a].amount >= 0
    BY DEF Amounts, PaymentKeys
  <2>3. attempt'[a].amount = attempt[a].amount \/ (attempt'[a].amount = Due /\ Due > 0)
    BY <2>1, AttemptFields DEF RowChange, AttemptChange, Typed
  <2>4. Due \in Int
    BY DEF Due, Typed, TypeOK, BillRow
  <2>5. payment'[a].amount = payment[a].amount \/ payment'[a].amount = attempt[a].amount
    BY <2>1 DEF RowChange
  <2>6. QED
    BY <2>2, <2>3, <2>4, <2>5
<1>2. ASSUME NEW k \in OwnerKeys PROVE payment'[k].amount >= 0
  <2>1. k \in PaymentKeys /\ k \notin Attempts /\ payment[k].amount >= 0
    BY DistinctKeys DEF Amounts, PaymentKeys
  <2>2. CASE payment'[k] = payment[k]
    BY <2>1, <2>2
  <2>3. CASE Owner
    <3>1. ASSUME NEW j \in OwnerKeys, VoidOffline(j) PROVE payment'[k].amount >= 0
      BY <2>1, <3>1 DEF VoidOffline, Typed, TypeOK, PaymentRow
    <3>2. ASSUME NEW j \in OwnerKeys, NEW m \in 1..MaxTotal, RecordOffline(j, m) PROVE payment'[k].amount >= 0
      BY <2>1, <3>2, MaxTotalNat DEF RecordOffline, Credit, Typed, TypeOK
    <3>3. QED
      BY <2>2, <2>3, <3>1, <3>2 DEF Owner, AdjustAmount, CancelBill
  <2>4. ASSUME NEW w \in Workers, ApplyBill(w) PROVE payment'[k] = payment[k]
    BY <2>1, <2>4 DEF ApplyBill, Credit, Typed, TypeOK, WorkerHolds, HoldsAttempt
  <2>5. ASSUME NEW w \in Workers, Continue(w) PROVE payment'[k] = payment[k]
    BY <2>4, <2>5
    DEF Continue, StartLockBill, StartLockAttempt, CreateOrder, Activate, RejectOrder, ExpireStuck, FinishStart,
        ReadClock, QueryAnswered, QueryOutage, ReconcileLock, ApplyLock, RefundCall, RefundWrite
  <2>6. ASSUME NEW w \in Workers, Begin(w) \/ Abort(w) \/ Crash(w) PROVE payment'[k] = payment[k]
    BY <2>6 DEF Begin, StartBegin, ReconcileBegin, HookStore, RefundBegin, Abort, AbortStart, AbortApply, Crash
  <2>7. CASE World \/ UNCHANGED vars
    BY <2>2, <2>7 DEF vars, World, WorldStep, Tick, RefundClears, EndPay, BeginPay
  <2>8. QED
    BY <2>2, <2>3, <2>5, <2>6, <2>7 DEF Next
<1>3. QED
  BY <1>1, <1>2 DEF Amounts, PaymentKeys

LEMMA OverpaidStep == Typed /\ Credited /\ [Next]_vars => NeverOverpaid'
<1> SUFFICES ASSUME Typed, Credited, [Next]_vars PROVE NeverOverpaid'
  OBVIOUS
<1>1. ASSUME UNCHANGED bill PROVE NeverOverpaid'
  BY <1>1 DEF Credited, NeverOverpaid, Settle
<1>2. bill \in BillRow /\ bill.paid <= bill.total
  BY DEF Typed, TypeOK, Credited, NeverOverpaid
<1>3. ASSUME NEW w \in Workers, ApplyBill(w) PROVE NeverOverpaid'
  <2>1. attempt[worker[w].a].amount \in Int
    BY <1>3 DEF ApplyBill, Typed, TypeOK, AttemptRow, WorkerHolds, HoldsAttempt
  <2>2. QED
    BY <1>1, <1>3, <2>1, CreditWithin DEF ApplyBill, Accepts
<1>4. ASSUME NEW k \in OwnerKeys, NEW m \in 1..MaxTotal, RecordOffline(k, m) PROVE NeverOverpaid'
  BY <1>4, CreditWithin DEF RecordOffline, Accepts
<1>5. ASSUME NEW k \in OwnerKeys, VoidOffline(k) PROVE NeverOverpaid'
  <2> DEFINE b == [bill EXCEPT !.paid = @ - payment[k].amount]
  <2>1. payment[k].amount \in Int /\ payment[k].amount >= 0
    BY DEF Typed, TypeOK, PaymentRow, PaymentKeys, Credited, Amounts
  <2>2. b \in BillRow /\ b.paid = bill.paid - payment[k].amount /\ b.total = bill.total
    BY <1>2, <2>1 DEF BillRow
  <2>3. b.paid <= b.total
    BY <1>2, <2>1, <2>2 DEF BillRow
  <2>4. QED
    BY <1>5, <2>2, <2>3, SettledBill DEF VoidOffline
<1>6. ASSUME NEW t \in 0..MaxTotal, AdjustAmount(t) PROVE NeverOverpaid'
  <2> DEFINE b == [bill EXCEPT !.total = t]
  <2>1. b \in BillRow /\ b.paid = bill.paid /\ b.total = t
    BY <1>2 DEF BillRow
  <2>2. b.paid <= b.total
    BY <1>2, <1>6, <2>1, MaxTotalNat DEF AdjustAmount, BillRow
  <2>3. QED
    BY <1>6, <2>1, <2>2, SettledBill DEF AdjustAmount
<1>7. ASSUME CancelBill PROVE NeverOverpaid'
  BY <1>2, <1>7 DEF CancelBill, Uncredited, NeverOverpaid, Settle, BillRow
<1>8. CASE Owner
  BY <1>4, <1>5, <1>6, <1>7, <1>8 DEF Owner
<1>9. ASSUME NEW w \in Workers, Begin(w) \/ Continue(w) PROVE NeverOverpaid'
  BY <1>1, <1>3, <1>9
  DEF Begin, Continue, StartBegin, ReconcileBegin, HookStore, RefundBegin,
      StartLockBill, StartLockAttempt, CreateOrder, Activate, RejectOrder, ExpireStuck, FinishStart,
      ReadClock, QueryAnswered, QueryOutage, ReconcileLock, ApplyLock, RefundCall, RefundWrite
<1>10. ASSUME NEW w \in Workers, Abort(w) \/ Crash(w) PROVE NeverOverpaid'
  BY <1>1, <1>10 DEF Abort, AbortStart, AbortApply, Crash
<1>11. CASE World \/ UNCHANGED vars
  BY <1>1, <1>11 DEF vars, World, WorldStep, Tick, RefundClears, EndPay, BeginPay
<1>12. QED
  BY <1>8, <1>9, <1>10, <1>11 DEF Next

\* No interleaving of online captures, offline payments, voids and corrections
\* credits a bill with more than its total, and its status stays the one
\* settle_status derives.
THEOREM NoOverpayment == Spec => []NeverOverpaid
<1>1. Base /\ Credited /\ [Next]_vars => Base' /\ Credited'
  BY BaseStep, AmountsStep, OverpaidStep DEF Base, Credited
<1>2. Credited => NeverOverpaid
  BY DEF Credited
<1>3. QED
  BY <1>1, <1>2, BaseInit, CreditedInit, PTL DEF Spec

-----------------------------------------------------------------------------
(* The clock and what reconcile() read before it asked.                    *)

AllFailed(a) == \A p \in PaysOf(a) : provider[p].status = "FAILED"

\* `ripe` was read from a clock that does not go back, and a ripe attempt that the
\* provider was asked about and that waits to be expired has no payment that was or
\* may be captured.
RipeIsLapsed ==
    \A w \in Workers : worker[w].ripe =>
        /\ worker[w].pc \in {"query", "reconcileLock"} => age[worker[w].a] = "lapsed"
        /\ worker[w].pc = "reconcileLock" /\ worker[w].copy = "ACTIVE" => AllFailed(worker[w].a)

ExpiredByClock ==
    \A a \in Attempts : attempt[a].closed = "lapsed" => age[a] = "lapsed"

Clocked == RipeIsLapsed /\ ExpiredByClock /\ LapsedUnpaid

LEMMA AgeStep ==
    ASSUME Typed, [Next]_vars, NEW a \in Attempts, age[a] = "lapsed"
    PROVE  age'[a] = "lapsed"
<1>1. ASSUME UNCHANGED age PROVE age'[a] = "lapsed"
  BY <1>1
<1>2. ASSUME NEW b \in Attempts, Tick(b) PROVE age'[a] = "lapsed"
  BY <1>2 DEF Tick, Typed, TypeOK
<1>3. CASE World \/ UNCHANGED vars
  BY <1>1, <1>2, <1>3 DEF vars, World, RefundClears, EndPay, BeginPay
<1>4. ASSUME NEW w \in Workers, Begin(w) \/ Continue(w) PROVE age'[a] = "lapsed"
  BY <1>1, <1>4
  DEF Begin, Continue, providerVars, StartBegin, ReconcileBegin, HookStore, RefundBegin,
      StartLockBill, StartLockAttempt, CreateOrder, Activate, RejectOrder, ExpireStuck, FinishStart,
      ReadClock, QueryAnswered, QueryOutage, ReconcileLock, ApplyLock, ApplyBill, RefundCall, RefundWrite
<1>5. ASSUME NEW w \in Workers, Abort(w) \/ Crash(w) PROVE age'[a] = "lapsed"
  BY <1>1, <1>5 DEF Abort, AbortStart, AbortApply, Crash, providerVars
<1>6. CASE Owner
  BY <1>1, <1>6 DEF Owner, OwnerStep, VoidOffline, RecordOffline, AdjustAmount, CancelBill, providerVars
<1>7. QED
  BY <1>3, <1>4, <1>5, <1>6 DEF Next

\* After the order's expiry a checkout without a live payment gets none.
LEMMA FailedStays ==
    ASSUME Base, [Next]_vars, NEW a \in Attempts, age[a] = "lapsed", AllFailed(a)
    PROVE  AllFailed(a)'
<1> SUFFICES ASSUME NEW p \in ProviderPays, provider'[p].order = a
             PROVE  provider'[p].status = "FAILED"
  BY DEF AllFailed, PaysOf
<1>1. PayChange(p)
  BY PayStep DEF Base
<1>2. provider[p].order = a => provider[p].status = "FAILED"
  BY DEF AllFailed, PaysOf
<1>3. QED
  BY <1>1, <1>2 DEF PayChange

LEMMA ClockedInit == Init => Clocked
  BY DEF Init, Clocked, RipeIsLapsed, ExpiredByClock, LapsedUnpaid, Idle

LEMMA ClockedStep == Base /\ Base' /\ Clocked /\ [Next]_vars => Clocked'
<1> SUFFICES ASSUME Base, Base', Clocked, [Next]_vars PROVE Clocked'
  OBVIOUS
<1>1. RipeIsLapsed'
  <2> SUFFICES ASSUME NEW w \in Workers, worker'[w].ripe, worker'[w].pc \in {"query", "reconcileLock"}
               PROVE  /\ age'[worker'[w].a] = "lapsed"
                      /\ worker'[w].pc = "reconcileLock" /\ worker'[w].copy = "ACTIVE" =>
                            AllFailed(worker[w].a)'
    BY DEF RipeIsLapsed
  <2> DEFINE a == worker'[w].a
  <2>1. a \in Attempts /\ WorkerChange(w)
    BY WorkerStep DEF Base, Typed, WorkerHolds, HoldsAttempt
  <2>2. CASE worker'[w] = worker[w]
    <3>1. age[a] = "lapsed" /\ (worker[w].pc = "reconcileLock" /\ worker[w].copy = "ACTIVE" => AllFailed(a))
      BY <2>2 DEF Clocked, RipeIsLapsed
    <3>2. /\ age'[a] = "lapsed"
          /\ worker[w].pc = "reconcileLock" /\ worker[w].copy = "ACTIVE" => AllFailed(worker[w].a)'
      BY <2>1, <2>2, <3>1, AgeStep, FailedStays DEF Base
    <3>3. QED
      BY <2>2, <3>2
  <2>3. CASE worker'[w].pc = "query" /\ age[a] = "lapsed"
    BY <2>1, <2>3, AgeStep DEF Base
  <2>4. CASE worker'[w].pc = "reconcileLock" /\ worker'[w].copy # "ACTIVE" /\ age[a] = "lapsed"
    BY <2>1, <2>4, AgeStep DEF Base
  <2>5. CASE /\ worker'[w].pc = "reconcileLock"
             /\ worker[w].pc = "query" /\ worker[w].ripe /\ worker[w].a = a
             /\ \A p \in PaysOf(a) : provider[p].status \notin {"SUCCESS", "PENDING"}
             /\ UNCHANGED <<attempt, age, provider>>
    <3>1. age[a] = "lapsed"
      BY <2>5 DEF Clocked, RipeIsLapsed
    <3>2. AllFailed(a)
      BY <2>1, <2>5, NoneIsNone DEF AllFailed, PaysOf, Base, Typed, TypeOK, ProviderPay, PaysNeedSession
    <3>3. QED
      BY <2>5, <3>1, <3>2 DEF AllFailed, PaysOf
  <2>6. QED
    BY <2>1, <2>2, <2>3, <2>4, <2>5 DEF WorkerChange, Fresh
<1>2. ASSUME NEW a \in Attempts, attempt'[a].closed = "lapsed", attempt[a].closed # "lapsed" \/ attempt[a].status # "EXPIRED",
             attempt'[a].status = "EXPIRED" \/ attempt[a].closed # "lapsed"
      PROVE  age[a] = "lapsed" /\ AllFailed(a)
  <2>1. RowChange(a)
    BY RowStep DEF Base
  <2>2. PICK w \in Workers : /\ worker[w].pc = "reconcileLock" /\ worker[w].a = a
                             /\ worker[w].ripe /\ worker[w].copy = "ACTIVE"
    BY <1>2, <2>1, AttemptFields DEF RowChange, AttemptChange, Base, Typed
  <2>3. QED
    BY <2>2 DEF Clocked, RipeIsLapsed
<1>3. ExpiredByClock'
  <2> SUFFICES ASSUME NEW a \in Attempts, attempt'[a].closed = "lapsed" PROVE age'[a] = "lapsed"
    BY DEF ExpiredByClock
  <2>1. age[a] = "lapsed"
    BY <1>2 DEF Clocked, ExpiredByClock
  <2>2. QED
    BY <2>1, AgeStep DEF Base
<1>4. LapsedUnpaid'
  <2> SUFFICES ASSUME NEW a \in Attempts, attempt'[a].closed = "lapsed", attempt'[a].status = "EXPIRED"
               PROVE  AllFailed(a)'
    BY DEF LapsedUnpaid, AllFailed, PaysOf
  <2>1. age[a] = "lapsed" /\ AllFailed(a)
    BY <1>2 DEF Clocked, ExpiredByClock, LapsedUnpaid, AllFailed
  <2>2. QED
    BY <2>1, FailedStays
<1>5. QED
  BY <1>1, <1>3, <1>4 DEF Clocked

\* reconcile() gives up no order it asked the provider about and that was or may
\* still be paid, for any number of requests and sweeps: the clock it compares with
\* expires_at was read before the provider was asked.  Nothing is said of an order it
\* did not ask about, because its copy of the row was still CREATED.
THEOREM LapsedAreUnpaid == Spec => []LapsedUnpaid
<1>1. Base /\ Clocked /\ [Next]_vars => Base' /\ Clocked'
  BY BaseStep, ClockedStep
<1>2. Clocked => LapsedUnpaid
  BY DEF Clocked
<1>3. QED
  BY <1>1, <1>2, BaseInit, ClockedInit, PTL DEF Spec

-----------------------------------------------------------------------------
(* The payment code implements the account of its bill: every step of any  *)
(* worker, of the owner and of the world is a step of BillAccount or       *)
(* leaves the account as it was.                                           *)

Fates == [k \in PaymentKeys |-> Fate(k)]
AmountsOf == [k \in PaymentKeys |-> payment[k].amount]
Standing == IF bill.status = "CANCELLED" THEN "cancelled" ELSE "open"

-----------------------------------------------------------------------------
(* Amounts.                                                                *)

\* A checkout is created for money that is due.
Priced == \A a \in Attempts : attempt[a].status # "NONE" => attempt[a].amount > 0

\* Everything a step of the account relies on.
Kept == Base /\ Books /\ Credited /\ Priced

\* An attempt with a capture exists.
LEMMA CapturesExist ==
    ASSUME Base, NEW a \in Attempts, NEW p \in PaysOf(a), Captured(p)
    PROVE  attempt[a].status # "NONE"
  BY DEF Base, PaysNeedSession, PaysOf, Captured

LEMMA CreditingExists ==
    ASSUME Base, Books, NEW w \in Workers, worker[w].pc = "applyBill"
    PROVE  /\ worker[w].a \in Attempts /\ worker[w].p \in PaysOf(worker[w].a)
           /\ Captured(worker[w].p)
           /\ attempt[worker[w].a].status # "NONE" /\ ~Finished(worker[w].a)
<1>1. worker[w].a \in Attempts /\ worker[w].pays \subseteq ProviderPays
  BY RowOf DEF Base, Typed, WorkerHolds, HoldsAttempt, WorkerRow
<1>2. worker[w].p \in PaysOf(worker[w].a) /\ Captured(worker[w].p) /\ ~Finished(worker[w].a)
  BY <1>1 DEF Base, Typed, PaysCaptured, Books, CreditsItsCapture, PaysOf
<1>3. QED
  BY <1>1, <1>2, CapturesExist

LEMMA PricedInit == Init => Priced
  BY DEF Init, Priced

LEMMA PricedStep == Base /\ Base' /\ Books /\ Priced /\ [Next]_vars => Priced'
<1> SUFFICES ASSUME Base, Base', Books, Priced, [Next]_vars,
                    NEW a \in Attempts, attempt'[a].status # "NONE"
             PROVE  attempt'[a].amount > 0
  BY DEF Priced
<1>1. RowChange(a)
  BY RowStep DEF Base
<1>2. CASE attempt[a].status # "NONE"
  <2>1. attempt[a].amount > 0
    BY <1>2 DEF Priced
  <2>2. attempt'[a].amount = attempt[a].amount \/ (attempt'[a].amount = Due /\ Due > 0)
    BY <1>1, AttemptFields DEF RowChange, AttemptChange, Base, Typed
  <2>3. QED
    BY <2>1, <2>2
<1>3. CASE attempt[a].status = "NONE"
  <2>1. ~\E p \in PaysOf(a) : Captured(p)
    BY <1>3, CapturesExist
  <2>2. ~\E w \in Workers : Settles(w, a)
    BY <1>3, CreditingExists DEF Settles
  <2>3. ~\E w \in Workers : worker[w].pc = "refundWrite" /\ worker[w].a = a
    BY <1>3 DEF Books, RefundInProgress
  <2>4. attempt'[a] = attempt[a] \/ (attempt'[a] = Opened(a) /\ Due > 0)
    BY <1>1, <1>3, <2>1, <2>2, <2>3 DEF RowChange, AttemptChange, Open, Refundable
  <2>5. QED
    BY <1>3, <2>4, AttemptFields DEF Base, Typed
<1>4. QED
  BY <1>2, <1>3

LEMMA KeptInit == Init => Kept
  BY BaseInit, BooksInit, CreditedInit, PricedInit DEF Kept

LEMMA KeptStep == Kept /\ [Next]_vars => Kept'
  BY BaseStep, BooksStep, AmountsStep, OverpaidStep, PricedStep DEF Kept, Base, Credited

-----------------------------------------------------------------------------
(* What the account sees of a step.                                        *)

\* Nothing of the account moved.
Unmoved == UNCHANGED <<Fates, AmountsOf>> /\ bill'.total = bill.total /\ bill'.paid = bill.paid
           /\ Standing' = Standing

LEMMA UnmovedStutters == Unmoved => UNCHANGED Account!vars
  BY DEF Unmoved, Fates, AmountsOf, Standing, Account!vars

LEMMA RowsUnmoved ==
    ASSUME UNCHANGED <<bill, payment, attempt>>
    PROVE  Unmoved
  BY DEF Unmoved, Fates, AmountsOf, Standing, Fate

\* Only attempt rows moved, none of them between two fates.
LEMMA SameFates ==
    ASSUME UNCHANGED <<bill, payment>>,
           \A a \in Attempts : AttemptFate(attempt'[a].status) = AttemptFate(attempt[a].status)
    PROVE  Unmoved
  BY DEF Unmoved, Fates, AmountsOf, Standing, Fate

LEMMA PutKeepsFate ==
    ASSUME Typed, UNCHANGED <<bill, payment>>, NEW b \in Attempts, NEW row \in AttemptRow, Put(b, row),
           AttemptFate(row.status) = AttemptFate(attempt[b].status)
    PROVE  Unmoved
<1>1. \A a \in Attempts : AttemptFate(attempt'[a].status) = AttemptFate(attempt[a].status)
  BY Puts DEF Typed, TypeOK
<1>2. QED
  BY <1>1, SameFates

\* One attempt got another fate.
LEMMA PutMovesFate ==
    ASSUME Typed, UNCHANGED <<bill, payment>>, NEW b \in Attempts, NEW row \in AttemptRow, Put(b, row)
    PROVE  /\ Fates' = [Fates EXCEPT ![b] = AttemptFate(row.status)]
           /\ UNCHANGED AmountsOf /\ Standing' = Standing
<1>1. attempt'[b] = row /\ \A a \in Attempts \ {b} : attempt'[a] = attempt[a]
  BY Puts DEF Typed, TypeOK
<1>2. ASSUME NEW k \in PaymentKeys
      PROVE  Fate(k)' = IF k = b THEN AttemptFate(row.status) ELSE Fate(k)
  BY <1>1 DEF Fate
<1>3. Fates' = [Fates EXCEPT ![b] = AttemptFate(row.status)]
  BY <1>2 DEF Fates, PaymentKeys
<1>4. QED
  BY <1>3 DEF AmountsOf, Standing

\* An offline payment got another fate.
LEMMA PaymentMovesFate ==
    ASSUME UNCHANGED attempt, NEW k \in OwnerKeys, NEW row,
           payment' = [payment EXCEPT ![k] = row], payment \in [PaymentKeys -> PaymentRow]
    PROVE  /\ Fates' = [Fates EXCEPT ![k] = PaymentFate(row.status)]
           /\ AmountsOf' = [AmountsOf EXCEPT ![k] = row.amount]
<1>1. k \in PaymentKeys /\ k \notin Attempts
  BY DistinctKeys DEF PaymentKeys
<1>2. payment'[k] = row /\ \A j \in PaymentKeys \ {k} : payment'[j] = payment[j]
  BY <1>1
<1>3. ASSUME NEW j \in PaymentKeys
      PROVE  Fate(j)' = IF j = k THEN PaymentFate(row.status) ELSE Fate(j)
  BY <1>1, <1>2 DEF Fate
<1>4. Fates' = [Fates EXCEPT ![k] = PaymentFate(row.status)]
  BY <1>1, <1>3 DEF Fates
<1>5. AmountsOf' = [AmountsOf EXCEPT ![k] = row.amount]
  BY <1>1, <1>2 DEF AmountsOf
<1>6. QED
  BY <1>4, <1>5

\* The money of a credit: what was due allows it and the bill stays open.
LEMMA CreditsBill ==
    ASSUME Typed, NEW key, NEW amount \in Int, Accepts(amount), Credit(key, amount)
    PROVE  /\ amount <= bill.total - bill.paid
           /\ bill'.paid = bill.paid + amount /\ bill'.total = bill.total
           /\ Standing = "open" /\ Standing' = "open"
<1> DEFINE b == [bill EXCEPT !.paid = @ + amount]
<1>1. bill \in BillRow
  BY DEF Typed, TypeOK
<1>2. b \in BillRow /\ b.paid = bill.paid + amount /\ b.total = bill.total /\ b.status = bill.status
  BY <1>1 DEF BillRow
<1>3. bill' = Settle(b)
  BY DEF Credit
<1>4. bill.status # "CANCELLED" /\ amount <= bill.total - bill.paid
  BY DEF Accepts, OpenBill, Due
<1> HIDE DEF b
<1>5. bill'.paid = b.paid /\ bill'.total = b.total /\ bill'.status # "CANCELLED"
  BY <1>2, <1>3, <1>4, SettleRow
<1>6. QED
  BY <1>2, <1>4, <1>5 DEF Standing

-----------------------------------------------------------------------------
(* The steps.                                                              *)

AccountStep == Account!Next \/ Unmoved

LEMMA CreateUnmoved ==
    ASSUME Typed, NEW w \in Workers, NEW b \in Attempts, NEW old, CreateAttempt(w, b, old),
           UNCHANGED <<bill, payment>>, old \in Attempts => attempt[old].status \in Open
    PROVE  Unmoved
<1>1. ASSUME NEW a \in Attempts
      PROVE  AttemptFate(attempt'[a].status) = AttemptFate(attempt[a].status)
  <2>1. \/ a = b /\ attempt'[a] = Opened(a)
        \/ a = old /\ attempt'[a] = Closed(a, "replaced")
        \/ attempt'[a] = attempt[a]
    BY DEF CreateAttempt
  <2>2. CASE a = b /\ attempt'[a] = Opened(a)
    BY <2>2, AttemptFields DEF Typed, CreateAttempt, AttemptFate
  <2>3. CASE a = old /\ attempt'[a] = Closed(a, "replaced")
    BY <2>3, AttemptFields DEF Typed, Open, AttemptFate
  <2>4. QED
    BY <2>1, <2>2, <2>3
<1>2. QED
  BY <1>1, SameFates

LEMMA UnapplyHolds ==
    ASSUME Typed, UNCHANGED <<bill, payment>>, NEW a \in Attempts, NEW p \in ProviderPays,
           ~Finished(a), Unapply(a, p)
    PROVE  Account!Hold(a)
<1>1. Holding(a, p, "UNAPPLIED") \in AttemptRow /\ Holding(a, p, "UNAPPLIED").status = "UNAPPLIED"
  BY AttemptRows, AttemptFields DEF Typed, AttemptStatuses, Unapplied
<1>2. /\ Fates' = [Fates EXCEPT ![a] = AttemptFate("UNAPPLIED")]
      /\ UNCHANGED AmountsOf /\ Standing' = Standing
  BY <1>1, PutMovesFate DEF Unapply
<1>3. AttemptFate("UNAPPLIED") = "held"
  BY DEF AttemptFate
<1>4. Fates[a] = "new"
  BY DEF Fates, Fate, AttemptFate, Finished, Unapplied, PaymentKeys
<1>5. QED
  BY <1>2, <1>3, <1>4 DEF Account!Hold, Fates, AmountsOf, Standing

\* apply_payment credits the whole attempt: Take.
LEMMA ApplyTakes ==
    ASSUME Kept, NEW w \in Workers, ApplyBill(w)
    PROVE  AccountStep
<1>a. PICK a \in Attempts : a = worker[w].a
  BY CreditingExists DEF ApplyBill, Kept
<1>m. PICK m \in Int : m = attempt[a].amount
  BY DEF Kept, Base, Typed, TypeOK, AttemptRow
<1> DEFINE p == worker[w].p
<1>1. /\ p \in ProviderPays /\ Typed
      /\ ~Finished(a) /\ attempt[a].status # "NONE"
  BY <1>a, CreditingExists DEF ApplyBill, Kept, Base, PaysOf
<1>2. CASE Unapply(a, p) /\ UNCHANGED <<bill, payment>>
  BY <1>1, <1>2, UnapplyHolds DEF AccountStep, Account!Next
<1>3. CASE Accepts(m) /\ Credit(a, m) /\ Put(a, Holding(a, p, "SUCCEEDED"))
  <2>1. m > 0
    BY <1>1, <1>m DEF Kept, Priced
  <2>2. /\ m <= bill.total - bill.paid
        /\ bill'.paid = bill.paid + m /\ bill'.total = bill.total
        /\ Standing = "open" /\ Standing' = "open"
    BY <1>1, <1>3, <2>1, CreditsBill
  <2>3. Holding(a, p, "SUCCEEDED") \in AttemptRow /\ Holding(a, p, "SUCCEEDED").status = "SUCCEEDED"
    BY <1>1, AttemptRows, AttemptFields DEF Typed, AttemptStatuses
  <2>4. attempt'[a].status = "SUCCEEDED" /\ \A b \in Attempts \ {a} : attempt'[b] = attempt[b]
    BY <1>1, <1>3, <2>3, Puts DEF Typed, TypeOK
  <2>5. /\ payment'[a] = [status |-> "COMPLETED", amount |-> m]
        /\ \A k \in PaymentKeys \ {a} : payment'[k] = payment[k]
    BY <1>1, <1>3 DEF Credit, Typed, TypeOK, PaymentKeys
  <2>6. ASSUME NEW k \in PaymentKeys
        PROVE  Fate(k)' = IF k = a THEN "credited" ELSE Fate(k)
    BY <1>1, <2>4, <2>5 DEF Fate, AttemptFate
  <2>7. Fates' = [Fates EXCEPT ![a] = "credited"]
    BY <1>1, <2>6 DEF Fates, PaymentKeys
  <2>8. AmountsOf' = [AmountsOf EXCEPT ![a] = m]
    <3>1. \A k \in PaymentKeys : payment'[k].amount = IF k = a THEN m ELSE payment[k].amount
      BY <2>5
    <3>2. QED
      BY <3>1 DEF AmountsOf
  <2>9. Fates[a] = "new"
    BY <1>1 DEF Fates, Fate, AttemptFate, Finished, Unapplied, PaymentKeys
  <2>10. Account!Take(a, m)
    BY <2>2, <2>7, <2>8, <2>9 DEF Account!Take, Fates, AmountsOf, Standing
  <2>11. a \in Account!Payments
    BY <1>1 DEF Account!Payments
  <2>12. m \in 1..(bill.total - bill.paid)
    BY <1>1, <2>1, <2>2 DEF Typed, TypeOK, BillRow
  <2>13. \E x \in Account!Payments : \E n \in 1..(bill.total - bill.paid) : Account!Take(x, n)
    BY <2>10, <2>11, <2>12
  <2>14. QED
    BY <2>13 DEF AccountStep, Account!Next
<1>4. QED
  BY <1>a, <1>m, <1>2, <1>3 DEF ApplyBill

LEMMA ApplyLockHolds ==
    ASSUME Kept, NEW w \in Workers, ApplyLock(w)
    PROVE  AccountStep
<1>1. PICK p \in worker[w].pays :
         UNCHANGED attempt \/ (~Finished(provider[p].order) /\ Unapply(provider[p].order, p))
  BY DEF ApplyLock
<1>2. p \in ProviderPays /\ provider[p].order \in Attempts /\ Typed
  BY RowOf DEF WorkerRow, Kept, Base, Typed, PaysCaptured, PaysHaveOrders, Captured
<1>3. QED
  BY <1>1, <1>2, UnapplyHolds, RowsUnmoved DEF ApplyLock, AccountStep, Account!Next

LEMMA RefundReturns ==
    ASSUME Kept, NEW w \in Workers, RefundWrite(w)
    PROVE  AccountStep
<1> DEFINE a == worker[w].a
<1>1. a \in Attempts /\ attempt[a].status \in {"REFUND_PENDING", "REFUNDED"} /\ Typed
  BY DEF RefundWrite, Kept, Base, Typed, WorkerHolds, HoldsAttempt, Books, RefundInProgress
<1>2. CASE UNCHANGED attempt
  BY <1>2, RowsUnmoved DEF RefundWrite, AccountStep
<1>3. CASE Put(a, Turned(a, "REFUNDED"))
  <2>1. Turned(a, "REFUNDED") \in AttemptRow /\ Turned(a, "REFUNDED").status = "REFUNDED"
    BY <1>1, AttemptRows, AttemptFields DEF Typed, AttemptStatuses, Unapplied
  <2>2. CASE attempt[a].status = "REFUNDED"
    BY <1>1, <1>3, <2>1, <2>2, PutKeepsFate DEF RefundWrite, AccountStep
  <2>3. CASE attempt[a].status = "REFUND_PENDING"
    <3>1. /\ Fates' = [Fates EXCEPT ![a] = AttemptFate("REFUNDED")]
          /\ UNCHANGED AmountsOf /\ Standing' = Standing /\ UNCHANGED bill
      BY <1>1, <1>3, <2>1, PutMovesFate DEF RefundWrite
    <3>2. AttemptFate("REFUNDED") = "returned" /\ Fates[a] = "held"
      BY <1>1, <2>3 DEF Fates, Fate, AttemptFate, PaymentKeys
    <3>3. Account!Return(a)
      BY <3>1, <3>2 DEF Account!Return, Fates, AmountsOf, Standing
    <3>4. QED
      BY <1>1, <3>3 DEF AccountStep, Account!Next
  <2>4. QED
    BY <1>1, <2>2, <2>3
<1>4. QED
  BY <1>2, <1>3 DEF RefundWrite, WriteRefund

LEMMA OwnerAccounts ==
    ASSUME Kept, Owner
    PROVE  AccountStep
<1>1. Typed /\ bill \in BillRow /\ bill.paid <= bill.total /\ UNCHANGED attempt
  BY DEF Kept, Base, Typed, TypeOK, Credited, NeverOverpaid, Owner, OwnerStep,
         VoidOffline, RecordOffline, AdjustAmount, CancelBill
<1>2. ASSUME NEW k \in OwnerKeys, NEW m \in 1..MaxTotal, RecordOffline(k, m) PROVE AccountStep
  <2>1. /\ m <= bill.total - bill.paid
        /\ bill'.paid = bill.paid + m /\ bill'.total = bill.total
        /\ Standing = "open" /\ Standing' = "open"
    BY <1>1, <1>2, CreditsBill DEF RecordOffline
  <2>2. payment' = [payment EXCEPT ![k] = [status |-> "COMPLETED", amount |-> m]]
    BY <1>2 DEF RecordOffline, Credit
  <2>3. /\ Fates' = [Fates EXCEPT ![k] = PaymentFate("COMPLETED")]
        /\ AmountsOf' = [AmountsOf EXCEPT ![k] = m]
    <3>1. PICK row : row = [status |-> "COMPLETED", amount |-> m]
      OBVIOUS
    <3>2. /\ Fates' = [Fates EXCEPT ![k] = PaymentFate(row.status)]
          /\ AmountsOf' = [AmountsOf EXCEPT ![k] = row.amount]
      BY <1>1, <2>2, <3>1, PaymentMovesFate DEF Typed, TypeOK
    <3>3. row.status = "COMPLETED" /\ row.amount = m
      BY <3>1
    <3>4. QED
      BY <3>2, <3>3
  <2>4. PaymentFate("COMPLETED") = "credited" /\ Fates[k] = "new"
    BY <1>2, DistinctKeys DEF RecordOffline, Fates, Fate, PaymentFate, PaymentKeys
  <2>5. Account!Take(k, m)
    BY <2>1, <2>3, <2>4 DEF Account!Take, Fates, AmountsOf, Standing
  <2>6. k \in Account!Payments /\ m \in 1..(bill.total - bill.paid)
    BY <1>1, <2>1, MaxTotalNat DEF Account!Payments, BillRow
  <2>7. QED
    BY <2>5, <2>6 DEF AccountStep, Account!Next
<1>3. ASSUME NEW k \in OwnerKeys, VoidOffline(k) PROVE AccountStep
  <2>0. PICK row : row = [payment[k] EXCEPT !.status = "VOIDED"]
    OBVIOUS
  <2> DEFINE b == [bill EXCEPT !.paid = @ - payment[k].amount]
  <2>1. payment[k] \in PaymentRow /\ payment[k].status = "COMPLETED" /\ payment' = [payment EXCEPT ![k] = row]
    BY <1>1, <1>3, <2>0 DEF VoidOffline, Voidable, Typed, TypeOK, PaymentKeys
  <2>2. row.status = "VOIDED" /\ row.amount = payment[k].amount
    BY <2>0, <2>1 DEF PaymentRow
  <2>3. /\ b \in BillRow /\ b.paid = bill.paid - payment[k].amount /\ b.total = bill.total
        /\ b.status = bill.status
    BY <1>1, <2>1 DEF BillRow, PaymentRow
  <2>4. bill' = Settle(b)
    BY <1>3 DEF VoidOffline
  <2> HIDE DEF b
  <2>5. /\ bill'.paid = bill.paid - payment[k].amount /\ bill'.total = bill.total
        /\ Standing' = Standing
    BY <2>3, <2>4, SettleRow DEF Standing
  <2>6. /\ Fates' = [Fates EXCEPT ![k] = PaymentFate("VOIDED")]
        /\ AmountsOf' = [AmountsOf EXCEPT ![k] = payment[k].amount]
    <3>1. /\ Fates' = [Fates EXCEPT ![k] = PaymentFate(row.status)]
          /\ AmountsOf' = [AmountsOf EXCEPT ![k] = row.amount]
      BY <1>1, <2>1, PaymentMovesFate DEF Typed, TypeOK
    <3>2. QED
      BY <2>2, <3>1
  <2>7. /\ PaymentFate("VOIDED") = "returned" /\ Fates[k] = "credited"
        /\ AmountsOf[k] = payment[k].amount /\ AmountsOf' = AmountsOf
    BY <2>1, <2>6, DistinctKeys DEF Fates, Fate, PaymentFate, PaymentKeys, AmountsOf
  <2>8. Account!Void(k)
    BY <2>5, <2>6, <2>7 DEF Account!Void, Fates, AmountsOf, Standing
  <2>9. QED
    BY <2>8 DEF AccountStep, Account!Next
<1>4. ASSUME NEW t \in 0..MaxTotal, AdjustAmount(t) PROVE AccountStep
  <2> DEFINE b == [bill EXCEPT !.total = t]
  <2>1. b \in BillRow /\ b.paid = bill.paid /\ b.total = t /\ b.status = bill.status
    BY <1>1, <1>4 DEF BillRow
  <2>2. bill' = Settle(b) /\ bill.status # "CANCELLED" /\ bill.paid <= t /\ t \in Nat
    BY <1>1, <1>4, MaxTotalNat DEF AdjustAmount, IssuedBill, OpenBill, BillRow
  <2> HIDE DEF b
  <2>3. /\ bill'.paid = bill.paid /\ bill'.total = t
        /\ Standing = "open" /\ Standing' = "open"
    BY <2>1, <2>2, SettleRow DEF Standing
  <2>4. UNCHANGED <<Fates, AmountsOf>>
    BY <1>1, <1>4 DEF AdjustAmount, Fates, Fate, AmountsOf
  <2>5. Account!Adjust
    BY <2>2, <2>3, <2>4 DEF Account!Adjust, Fates, AmountsOf, Standing
  <2>6. QED
    BY <2>5 DEF AccountStep, Account!Next
<1>5. ASSUME CancelBill PROVE AccountStep
  <2>1. /\ bill'.status = "CANCELLED" /\ bill'.paid = bill.paid /\ bill'.total = bill.total
        /\ bill.status # "CANCELLED"
    BY <1>1, <1>5 DEF CancelBill, BillRow
  <2>2. UNCHANGED <<Fates, AmountsOf>>
    BY <1>1, <1>5 DEF CancelBill, Fates, Fate, AmountsOf
  <2>3. ASSUME NEW k \in PaymentKeys PROVE Fates[k] # "credited"
    <3>1. payment[k].status # "COMPLETED"
      BY <1>5 DEF CancelBill, Uncredited
    <3>2. k \in Attempts => attempt[k].status # "SUCCEEDED"
      BY <3>1 DEF Kept, Books, CreditBacked
    <3>3. QED
      BY <3>1, <3>2 DEF Fates, Fate, AttemptFate, PaymentFate
  <2>4. Account!Cancel
    BY <2>1, <2>2, <2>3 DEF Account!Cancel, Account!Payments, PaymentKeys, Fates, AmountsOf, Standing
  <2>5. QED
    BY <2>4 DEF AccountStep, Account!Next
<1>6. QED
  BY <1>2, <1>3, <1>4, <1>5 DEF Owner

LEMMA StepAccounts == Kept /\ [Next]_vars => AccountStep
<1> SUFFICES ASSUME Kept, [Next]_vars PROVE AccountStep
  OBVIOUS
<1>1. ASSUME UNCHANGED <<bill, payment, attempt>> PROVE AccountStep
  BY <1>1, RowsUnmoved DEF AccountStep
<1>2. Typed /\ Locked
  BY DEF Kept, Base
<1>3. ASSUME NEW w \in Workers, Begin(w) PROVE AccountStep
  <2>1. ASSUME NEW a \in Attempts, RefundBegin(w, a) PROVE AccountStep
    <3>1. Turned(a, "REFUND_PENDING") \in AttemptRow /\ Turned(a, "REFUND_PENDING").status = "REFUND_PENDING"
      BY <1>2, AttemptRows, AttemptFields DEF Typed, AttemptStatuses, Unapplied
    <3>2. AttemptFate("REFUND_PENDING") = AttemptFate(attempt[a].status)
      BY <2>1 DEF RefundBegin, Refundable, AttemptFate
    <3>3. QED
      BY <1>2, <2>1, <3>1, <3>2, PutKeepsFate DEF RefundBegin, AccountStep
  <2>2. QED
    BY <1>1, <1>3, <2>1 DEF Begin, StartBegin, ReconcileBegin, HookStore
<1>4. ASSUME NEW w \in Workers, StartLockBill(w) \/ StartLockAttempt(w) PROVE AccountStep
  <2>1. \/ UNCHANGED attempt
        \/ \E b \in Attempts, old \in OpenAttempts \cup {None} : CreateAttempt(w, b, old)
    BY <1>2, <1>4 DEF StartLockBill, StartLockAttempt, OpenAttempts, Typed, WorkerHolds, HoldsAttempt
  <2>2. ASSUME NEW b \in Attempts, NEW old \in OpenAttempts \cup {None}, CreateAttempt(w, b, old)
        PROVE  AccountStep
    BY <1>2, <1>4, <2>2, CreateUnmoved, NoneIsNone DEF StartLockBill, StartLockAttempt, OpenAttempts, AccountStep
  <2>3. QED
    BY <1>1, <1>4, <2>1, <2>2 DEF StartLockBill, StartLockAttempt
<1>5. ASSUME NEW w \in Workers, Activate(w) \/ RejectOrder(w) \/ ExpireStuck(w) PROVE AccountStep
  <2> DEFINE b == worker[w].a
  <2>1. b \in Attempts /\ UNCHANGED <<bill, payment>>
    BY <1>2, <1>5 DEF Activate, RejectOrder, ExpireStuck, FinishStart, Typed, WorkerHolds, HoldsAttempt
  <2>2. \/ UNCHANGED attempt
        \/ /\ attempt[b].status = "CREATED"
           /\ \E row \in {Confirmed(b), Turned(b, "FAILED"), Closed(b, "stuck")} : Put(b, row)
    BY <1>5 DEF Activate, RejectOrder, ExpireStuck, FinishStart, Unconfirmed
  <2>3. ASSUME attempt[b].status = "CREATED",
               NEW row \in {Confirmed(b), Turned(b, "FAILED"), Closed(b, "stuck")}, Put(b, row)
        PROVE  AccountStep
    <3>1. row \in AttemptRow /\ row.status \in {"ACTIVE", "FAILED", "EXPIRED"}
      BY <1>2, <2>1, AttemptRows, AttemptFields DEF Typed, AttemptStatuses
    <3>2. AttemptFate(row.status) = AttemptFate(attempt[b].status)
      BY <2>3, <3>1 DEF AttemptFate
    <3>3. QED
      BY <1>2, <2>1, <2>3, <3>1, <3>2, PutKeepsFate DEF AccountStep
  <2>4. QED
    BY <1>1, <2>1, <2>2, <2>3
<1>6. ASSUME NEW w \in Workers, ReconcileLock(w) PROVE AccountStep
  <2> DEFINE b == worker[w].a
  <2>1. b \in Attempts /\ UNCHANGED <<bill, payment>>
    BY <1>2, <1>6 DEF ReconcileLock, Typed, WorkerHolds, HoldsAttempt
  <2>2. Closed(b, GivenUp(w)) \in AttemptRow /\ Closed(b, GivenUp(w)).status = "EXPIRED"
    BY <1>2, <2>1, AttemptRows, AttemptFields DEF GivenUp, Typed
  <2>3. CASE Ripe(w)
    <3>1. AttemptFate("EXPIRED") = AttemptFate(attempt[b].status)
      BY <2>3 DEF Ripe, Open, AttemptFate
    <3>2. QED
      BY <1>2, <1>6, <2>1, <2>2, <2>3, <3>1, PutKeepsFate DEF ReconcileLock, AccountStep
  <2>4. QED
    BY <1>1, <1>6, <2>3 DEF ReconcileLock
<1>7. ASSUME NEW w \in Workers, Continue(w) PROVE AccountStep
  BY <1>1, <1>4, <1>5, <1>6, <1>7, ApplyLockHolds, ApplyTakes, RefundReturns
  DEF Continue, CreateOrder, ReadClock, QueryAnswered, QueryOutage, RefundCall
<1>8. ASSUME NEW w \in Workers, Abort(w) \/ Crash(w) PROVE AccountStep
  BY <1>1, <1>8 DEF Abort, AbortStart, AbortApply, Crash
<1>9. CASE World \/ UNCHANGED vars
  BY <1>1, <1>9 DEF vars, World, WorldStep, Tick, RefundClears, EndPay, BeginPay
<1>10. QED
  BY <1>3, <1>7, <1>8, <1>9, OwnerAccounts DEF Next

LEMMA InitAccounts == Init => Account!Init
<1> SUFFICES ASSUME Init PROVE Account!Init
  OBVIOUS
<1>1. bill.total \in Nat \ {0} /\ bill.paid = 0 /\ bill.status = "PUBLISHED"
  BY MaxTotalNat DEF Init
<1>2. \A k \in PaymentKeys : Fate(k) = "new" /\ payment[k].amount = 0
  BY DEF Init, Fate, AttemptFate, PaymentFate, PaymentKeys
<1>3. QED
  BY <1>1, <1>2 DEF Account!Init, Account!Payments, PaymentKeys

\* The checkouts, webhooks, sweeps, refunds, deadlock victims and dying workers of
\* apps/properties/online_payments.py, together with the owner's transactions of
\* services.py, implement the account of the bill: whole credits within what is
\* due, captures set aside and returned, and nothing credited after cancellation.
THEOREM ImplementsAccount == Spec => AccountSpec
<1>1. Kept /\ [Next]_vars => [Account!Next]_(Account!vars)
  BY StepAccounts, UnmovedStutters DEF AccountStep
<1>2. QED
  BY <1>1, KeptInit, KeptStep, InitAccounts, PTL DEF Spec, AccountSpec, Account!Spec

-----------------------------------------------------------------------------
(* Sums over a finite set.  SumFunctionOnSet is defined by recursion over    *)
(* the subsets; that the recursion has a solution, and what the sum is, are  *)
(* shown by taking a smallest counterexample.                                *)

\* Among natural numbers one is least.
LEMMA LeastNat ==
    ASSUME NEW T \in SUBSET Nat, T # {}
    PROVE  \E n \in T : \A m \in T : n <= m
<1>1. PICK n \in T : \A m \in T : ~(<<m, n>> \in OpToRel(<, Nat))
  BY NatLessThanWellFounded, WFMin
<1>2. \A m \in T : ~(m < n)
  BY <1>1 DEF OpToRel
<1>3. QED
  BY <1>2

Pick(s) == CHOOSE x \in s : TRUE
Step(f, g, s) == IF s = {} THEN 0 ELSE f[Pick(s)] + g[s \ {Pick(s)}]
Adds(f, S, g) == g = [s \in S |-> Step(f, g, s)]

\* Choosing from a set that is not empty.
LEMMA Picked == ASSUME NEW s, s # {} PROVE Pick(s) \in s
  BY DEF Pick

\* The sum is what a function that adds up element by element says of the set.
LEMMA SumIsChosen ==
    ASSUME NEW f, NEW S
    PROVE  SumFunctionOnSet(f, S) = (CHOOSE g : Adds(f, SUBSET S, g))[S]
  BY DEF SumFunctionOnSet, FoldFunctionOnSet, MapThenFoldSet, Adds, Step, Pick

\* Among subsets of a finite set one is smallest.
LEMMA LeastSubset ==
    ASSUME NEW S, IsFiniteSet(S), NEW T \in SUBSET (SUBSET S), T # {}
    PROVE  \E s \in T : \A t \in T : ~(t \subseteq s /\ t # s)
<1>1. IsWellFoundedOn(StrictSubsetOrdering(S), SUBSET S)
  BY FS_StrictSubsetOrderingWellFounded, FS_FiniteSubsetsOfFinite
<1>2. PICK s \in T : \A t \in T : ~(<<t, s>> \in StrictSubsetOrdering(S))
  BY <1>1, WFMin
<1>3. ASSUME NEW t \in T, t \subseteq s, t # s
      PROVE  <<t, s>> \in StrictSubsetOrdering(S)
  BY <1>3 DEF StrictSubsetOrdering
<1>4. \A t \in T : ~(t \subseteq s /\ t # s)
  BY <1>2, <1>3
<1>5. QED
  BY <1>4

\* There is such a function: it is built up by the size of the sets.
LEMMA SumsExist ==
    ASSUME NEW S, IsFiniteSet(S), NEW f
    PROVE  \E g : Adds(f, SUBSET S, g)
<1> DEFINE Small(n) == {s \in SUBSET S : Cardinality(s) <= n}
           Bad == {n \in Nat : ~\E g : Adds(f, Small(n), g)}
<1>1. \A s \in SUBSET S : IsFiniteSet(s) /\ Cardinality(s) \in Nat /\ Cardinality(s) <= Cardinality(S)
  BY FS_Subset, FS_CardinalityType
<1>2. Bad = {}
  <2>1. SUFFICES ASSUME NEW n \in Bad, \A m \in Bad : n <= m PROVE FALSE
    BY LeastNat
  <2>2. PICK g : n # 0 => Adds(f, Small(n - 1), g)
    <3>1. CASE n = 0
      BY <3>1
    <3>2. CASE n # 0
      <4>1. n - 1 \in Nat /\ ~(n <= n - 1)
        BY <3>2
      <4>2. n - 1 \notin Bad
        <5> HIDE DEF Bad
        <5>1. QED
          BY <4>1, <2>1
      <4>3. \E g : Adds(f, Small(n - 1), g)
        BY <4>1, <4>2
      <4>4. QED
        BY <4>3
    <3>3. QED
      BY <3>1, <3>2
  <2> DEFINE h == [s \in Small(n) |-> Step(f, g, s)]
  <2>3. ASSUME NEW s \in Small(n) PROVE Step(f, g, s) = Step(f, h, s)
    <3>1. CASE s = {}
      BY <3>1 DEF Step
    <3>2. CASE s # {}
      <4> DEFINE r == s \ {Pick(s)}
      <4>1. r \in SUBSET S /\ Cardinality(r) = Cardinality(s) - 1 /\ Cardinality(s) # 0
        BY <1>1, <3>2, Picked, FS_RemoveElement, FS_EmptySet
      <4>2. n # 0 /\ r \in Small(n - 1) /\ r \in Small(n)
        BY <4>1, <1>1
      <4>3. g[r] = Step(f, g, r)
        BY <4>2, <2>2 DEF Adds
      <4>4. h[r] = Step(f, g, r)
        BY <4>2
      <4>5. QED
        BY <4>3, <4>4, <3>2 DEF Step
    <3>3. QED
      BY <3>1, <3>2
  <2>4. Adds(f, Small(n), h)
    BY <2>3 DEF Adds
  <2>5. QED
    BY <2>1, <2>4
<1>3. Cardinality(S) \in Nat /\ Small(Cardinality(S)) = SUBSET S
  BY <1>1, FS_CardinalityType
<1>4. QED
  BY <1>2, <1>3

\* Two functions that differ at one place have sums that differ as much.
LEMMA SumChanges ==
    ASSUME NEW S, IsFiniteSet(S), NEW f \in [S -> Int], NEW g \in [S -> Int],
           NEW k \in S, \A j \in S \ {k} : g[j] = f[j]
    PROVE  /\ SumFunctionOnSet(f, S) \in Int
           /\ f \in [S -> Nat] => SumFunctionOnSet(f, S) \in Nat
           /\ SumFunctionOnSet(g, S) = SumFunctionOnSet(f, S) + g[k] - f[k]
<1>1. PICK F : Adds(f, SUBSET S, F) /\ SumFunctionOnSet(f, S) = F[S]
  BY SumsExist, SumIsChosen
<1>2. PICK G : Adds(g, SUBSET S, G) /\ SumFunctionOnSet(g, S) = G[S]
  BY SumsExist, SumIsChosen
<1> DEFINE Good(s) == /\ F[s] \in Int
                      /\ f \in [S -> Nat] => F[s] \in Nat
                      /\ G[s] = F[s] + (IF k \in s THEN g[k] - f[k] ELSE 0)
           Bad == {s \in SUBSET S : ~Good(s)}
<1>3. Bad = {}
  <2>1. SUFFICES ASSUME Bad # {} PROVE FALSE
    OBVIOUS
  <2>2. PICK s \in Bad : \A t \in Bad : ~(t \subseteq s /\ t # s)
    <3>1. Bad \subseteq SUBSET S
      OBVIOUS
    <3> HIDE DEF Bad
    <3>2. QED
      BY <2>1, <3>1, LeastSubset
  <2>3. F[s] = Step(f, F, s) /\ G[s] = Step(g, G, s)
    BY <1>1, <1>2 DEF Adds
  <2>4. CASE s = {}
    BY <2>3, <2>4 DEF Step
  <2>5. CASE s # {}
    <3> DEFINE r == s \ {Pick(s)}
    <3>1. Pick(s) \in s /\ r \in SUBSET S
      BY <2>5, Picked
    <3>2. Good(r)
      <4>1. r \subseteq s /\ r # s
        BY <3>1
      <4>2. r \notin Bad
        <5> HIDE DEF Bad
        <5>1. QED
          BY <4>1, <2>2
      <4>3. QED
        BY <4>2, <3>1
    <3>3. F[s] = f[Pick(s)] + F[r] /\ G[s] = g[Pick(s)] + G[r]
      BY <2>3, <2>5 DEF Step
    <3>4. Good(s)
      BY <3>1, <3>2, <3>3
    <3>5. QED
      BY <3>4
  <2>6. QED
    BY <2>4, <2>5
<1>4. QED
  BY <1>1, <1>2, <1>3

\* A sum of zeros.
LEMMA SumOfZeros ==
    ASSUME NEW S, IsFiniteSet(S), NEW f, \A k \in S : f[k] = 0
    PROVE  SumFunctionOnSet(f, S) = 0
<1>1. PICK F : Adds(f, SUBSET S, F) /\ SumFunctionOnSet(f, S) = F[S]
  BY SumsExist, SumIsChosen
<1> DEFINE Bad == {s \in SUBSET S : F[s] # 0}
<1>2. Bad = {}
  <2>1. SUFFICES ASSUME Bad # {} PROVE FALSE
    OBVIOUS
  <2>2. PICK s \in Bad : \A t \in Bad : ~(t \subseteq s /\ t # s)
    <3>1. Bad \subseteq SUBSET S
      OBVIOUS
    <3> HIDE DEF Bad
    <3>2. QED
      BY <2>1, <3>1, LeastSubset
  <2>3. s # {} /\ F[s] = f[Pick(s)] + F[s \ {Pick(s)}]
    BY <1>1, <2>2 DEF Adds, Step
  <2>4. F[s \ {Pick(s)}] = 0 /\ Pick(s) \in S
    BY <2>2, <2>3, Picked
  <2>5. QED
    BY <2>2, <2>3, <2>4
<1>3. QED
  BY <1>1, <1>2

-----------------------------------------------------------------------------
(* The bill's running total.                                               *)

\* What the payment table says was paid.
TablePaid == SumFunction([k \in PaymentKeys |-> Recorded(k)])

LEMMA PaymentsAmount == Typed => [k \in PaymentKeys |-> Recorded(k)] \in [PaymentKeys -> Int]
  BY DEF Typed, TypeOK, PaymentRow, Recorded

\* One row of the payment table changes: the total changes as that row does.
LEMMA PaidChanges ==
    ASSUME Typed, Typed', NEW k \in PaymentKeys, \A j \in PaymentKeys \ {k} : payment'[j] = payment[j]
    PROVE  TablePaid' = TablePaid + Recorded(k)' - Recorded(k)
<1> DEFINE f == [j \in PaymentKeys |-> Recorded(j)]
           g == [j \in PaymentKeys |-> Recorded(j)']
<1>1. f \in [PaymentKeys -> Int] /\ g \in [PaymentKeys -> Int]
  BY PaymentsAmount DEF Typed, TypeOK, PaymentRow, Recorded
<1>2. \A j \in PaymentKeys \ {k} : g[j] = f[j]
  BY DEF Recorded
<1>3. IsFiniteSet(PaymentKeys)
  BY KeysAreFinite, FS_Union DEF PaymentKeys
<1>4. TablePaid = SumFunctionOnSet(f, PaymentKeys) /\ TablePaid' = SumFunctionOnSet(g, PaymentKeys)
  BY DEF TablePaid, SumFunction
<1>5. f[k] = Recorded(k) /\ g[k] = Recorded(k)'
  OBVIOUS
<1> HIDE DEF f, g
<1>6. SumFunctionOnSet(g, PaymentKeys) = SumFunctionOnSet(f, PaymentKeys) + g[k] - f[k]
  BY <1>1, <1>2, <1>3, SumChanges
<1>7. QED
  BY <1>4, <1>5, <1>6

LEMMA PaidKept == ASSUME UNCHANGED payment PROVE TablePaid' = TablePaid
  BY DEF TablePaid, Recorded

\* A payment that was not counted is counted: on the bill and in the table.
LEMMA CreditRecorded ==
    ASSUME Typed, Typed', PaidIsRecorded, NEW k \in PaymentKeys, NEW amount \in Int,
           payment[k].status # "COMPLETED", Accepts(amount), Credit(k, amount)
    PROVE  PaidIsRecorded'
<1>1. bill'.paid = bill.paid + amount
  BY CreditsBill
<1>2. /\ payment'[k] = [status |-> "COMPLETED", amount |-> amount]
      /\ \A j \in PaymentKeys \ {k} : payment'[j] = payment[j]
  BY DEF Credit, Typed, TypeOK
<1>3. Recorded(k) = 0 /\ Recorded(k)' = amount
  BY <1>2 DEF Recorded
<1>4. TablePaid' = TablePaid + amount - 0
  BY <1>2, <1>3, PaidChanges
<1>5. bill.paid = TablePaid /\ bill.paid \in Int
  BY DEF PaidIsRecorded, TablePaid, Typed, TypeOK, BillRow
<1>6. bill'.paid = TablePaid'
  BY <1>1, <1>4, <1>5
<1>7. QED
  BY <1>6 DEF PaidIsRecorded, TablePaid

LEMMA RecordedStep == Kept /\ Kept' /\ PaidIsRecorded /\ [Next]_vars => PaidIsRecorded'
<1> SUFFICES ASSUME Kept, Kept', PaidIsRecorded, [Next]_vars PROVE PaidIsRecorded'
  OBVIOUS
<1>1. Typed /\ Typed' /\ bill \in BillRow /\ payment \in [PaymentKeys -> PaymentRow]
  BY DEF Kept, Base, Typed, TypeOK
<1>2. ASSUME UNCHANGED payment, bill'.paid = bill.paid PROVE PaidIsRecorded'
  <2>1. TablePaid' = TablePaid
    BY <1>2, PaidKept
  <2>2. QED
    BY <1>2, <2>1 DEF PaidIsRecorded, TablePaid
<1>3. ASSUME NEW w \in Workers, ApplyBill(w) PROVE PaidIsRecorded'
  <2>a. PICK a \in Attempts : a = worker[w].a
    BY <1>3, CreditingExists DEF ApplyBill, Kept
  <2>m. PICK m \in Int : m = attempt[a].amount
    BY <1>1 DEF Typed, TypeOK, AttemptRow
  <2>1. payment[a].status # "COMPLETED" /\ a \in PaymentKeys
    BY <1>3, <2>a, CreditingExists DEF ApplyBill, Kept, Books, CreditBacked, Finished, PaymentKeys
  <2>2. CASE Accepts(m) /\ Credit(a, m)
    BY <1>1, <2>1, <2>2, CreditRecorded
  <2>3. CASE UNCHANGED <<bill, payment>>
    BY <1>2, <2>3
  <2>4. QED
    BY <1>3, <2>a, <2>m, <2>2, <2>3 DEF ApplyBill
<1>4. ASSUME NEW k \in OwnerKeys, NEW m \in 1..MaxTotal, RecordOffline(k, m) PROVE PaidIsRecorded'
  <2>1. k \in PaymentKeys /\ m \in Int /\ payment[k].status # "COMPLETED"
    BY <1>4 DEF RecordOffline, PaymentKeys
  <2>2. QED
    BY <1>1, <1>4, <2>1, CreditRecorded DEF RecordOffline
<1>5. ASSUME NEW k \in OwnerKeys, VoidOffline(k) PROVE PaidIsRecorded'
  <2> DEFINE b == [bill EXCEPT !.paid = @ - payment[k].amount]
  <2>1. /\ k \in PaymentKeys /\ payment[k].status = "COMPLETED" /\ payment[k].amount \in Int
        /\ \A j \in PaymentKeys \ {k} : payment'[j] = payment[j]
        /\ payment'[k].status = "VOIDED"
    BY <1>1, <1>5 DEF VoidOffline, Voidable, PaymentKeys, PaymentRow
  <2>2. Recorded(k) = payment[k].amount /\ Recorded(k)' = 0
    BY <2>1 DEF Recorded
  <2>3. b \in BillRow /\ b.paid = bill.paid - payment[k].amount /\ bill' = Settle(b)
    BY <1>1, <1>5, <2>1 DEF BillRow, VoidOffline
  <2> HIDE DEF b
  <2>4. bill'.paid = bill.paid - payment[k].amount
    BY <2>3, SettleRow
  <2>5. TablePaid' = TablePaid + Recorded(k)' - Recorded(k)
    BY <1>1, <2>1, PaidChanges
  <2>6. bill.paid = TablePaid /\ bill.paid \in Int
    BY <1>1 DEF PaidIsRecorded, TablePaid, BillRow
  <2>7. bill'.paid = TablePaid'
    BY <2>1, <2>2, <2>4, <2>5, <2>6
  <2>8. QED
    BY <2>7 DEF PaidIsRecorded, TablePaid
<1>6. ASSUME NEW t \in 0..MaxTotal, AdjustAmount(t) PROVE PaidIsRecorded'
  <2> DEFINE b == [bill EXCEPT !.total = t]
  <2>1. b \in BillRow /\ b.paid = bill.paid /\ bill' = Settle(b) /\ UNCHANGED payment
    BY <1>1, <1>6 DEF AdjustAmount, BillRow
  <2> HIDE DEF b
  <2>2. bill'.paid = bill.paid
    BY <2>1, SettleRow
  <2>3. QED
    BY <1>2, <2>1, <2>2
<1>7. ASSUME CancelBill PROVE PaidIsRecorded'
  BY <1>1, <1>2, <1>7 DEF CancelBill, BillRow
<1>8. ASSUME UNCHANGED <<bill, payment>> PROVE PaidIsRecorded'
  BY <1>2, <1>8
<1>9. CASE Owner
  BY <1>4, <1>5, <1>6, <1>7, <1>9 DEF Owner
<1>10. ASSUME NEW w \in Workers, Begin(w) \/ Abort(w) \/ Crash(w) PROVE PaidIsRecorded'
  BY <1>8, <1>10 DEF Begin, StartBegin, ReconcileBegin, HookStore, RefundBegin, Abort, AbortStart,
                     AbortApply, Crash
<1>11. ASSUME NEW w \in Workers, Continue(w) PROVE PaidIsRecorded'
  BY <1>3, <1>8, <1>11
  DEF Continue, StartLockBill, StartLockAttempt, CreateOrder, Activate, RejectOrder, ExpireStuck,
      FinishStart, ReadClock, QueryAnswered, QueryOutage, ReconcileLock, ApplyLock, RefundCall, RefundWrite
<1>12. CASE World \/ UNCHANGED vars
  BY <1>8, <1>12 DEF vars, World, WorldStep, Tick, RefundClears, EndPay, BeginPay
<1>13. QED
  BY <1>9, <1>10, <1>11, <1>12 DEF Next

LEMMA RecordedInit == Init => PaidIsRecorded
<1> SUFFICES ASSUME Init PROVE PaidIsRecorded
  OBVIOUS
<1> DEFINE f == [k \in PaymentKeys |-> Recorded(k)]
<1>1. \A k \in PaymentKeys : f[k] = 0
  BY DEF Init, Recorded
<1>2. IsFiniteSet(PaymentKeys)
  BY KeysAreFinite, FS_Union DEF PaymentKeys
<1>3. PaidIsRecorded <=> bill.paid = SumFunctionOnSet(f, PaymentKeys)
  BY DEF PaidIsRecorded, SumFunction
<1> HIDE DEF f
<1>4. SumFunctionOnSet(f, PaymentKeys) = 0
  BY <1>1, <1>2, SumOfZeros
<1>5. QED
  BY <1>3, <1>4 DEF Init

\* amount_paid_cents, which apply_payment, the owner's payments and voids only add
\* to and take from, is at every moment the sum of the completed payments, for any
\* number of payments, workers, deaths and aborted transactions.
THEOREM PaymentsRecorded == Spec => []PaidIsRecorded
<1>1. Kept /\ PaidIsRecorded /\ [Next]_vars => Kept' /\ PaidIsRecorded'
  BY KeptStep, RecordedStep
<1>2. QED
  BY <1>1, KeptInit, RecordedInit, PTL DEF Spec
=============================================================================
