--------------------------- MODULE BillingSweeps ---------------------------
(***************************************************************************)
(* The daily usage snapshot, the hourly reconciliation with the provider   *)
(* and the proration recorded when a plan changes (UsageMeteringService,   *)
(* ReconciliationService, ProrationService in apps/billing/services.py,    *)
(* the tasks of apps/billing/tasks.py under their advisory locks).         *)
(*                                                                         *)
(* A run takes its job's lock or ends at once, lists its tenants and goes  *)
(* through them; workspaces, subscriptions and the provider go on in the   *)
(* meantime.  The snapshot reads a subscription's period and then counts;  *)
(* reconciliation compares the status it listed with the provider's now.   *)
(*                                                                         *)
(* Changes of subscriptions that other modules describe in detail are here *)
(* single steps.  Tenants are taken in any order (the code's is that of    *)
(* their creation).  Audit rows and the counts a run reports are left out. *)
(***************************************************************************)
EXTENDS Integers, FiniteSets

CONSTANTS
    Tenants,
    Workers,      \* Celery workers
    Plans,
    Price,        \* of each plan
    Currency,     \* of each plan
    Length,       \* of a billing period, in clock ticks
    MaxPeriod,    \* bound: billing periods
    MaxSeats,     \* bound: active members of a workspace
    MaxChanges,   \* bound: steps of workspaces, subscriptions and provider
    MaxFailures,  \* bound: runs that die and rows that fail
    None

ASSUME PricesAreAmounts == Price \in [Plans -> Nat]
ASSUME PeriodHasLength == Length \in Nat \ {0}
ASSUME BoundsAreNumbers ==
    MaxPeriod \in Nat \ {0} /\ MaxSeats \in Nat \ {0} /\ MaxChanges \in Nat /\ MaxFailures \in Nat

VARIABLES
    sub,       \* the Subscription row of a tenant
    seats,     \* its active memberships
    usage,     \* its UsageRecord of a period
    remote,    \* what the provider says of its subscription
    found,     \* its latest ReconciliationDiscrepancy
    prorated,  \* the latest ProrationRecord
    lock,      \* the run that holds a job's advisory lock
    run,       \* what each worker is doing
    changes, failures

tenantVars == <<sub, seats, remote, prorated, changes>>
vars == <<tenantVars, usage, found, lock, run, failures>>

Jobs == {"meter_usage", "reconcile_subscriptions"}
Statuses == {"TRIALING", "ACTIVE", "PAST_DUE", "CANCELED"}
RemoteStatuses == {"ACTIVE", "PAST_DUE", "CANCELED", "PENDING", "UNKNOWN"}
Answers == RemoteStatuses \cup {"NONE"}     \* NONE: it has no such subscription

Sub(status, linked, period, plan) ==
    [status |-> status, linked |-> linked, period |-> period, plan |-> plan]
NoSub == Sub("NONE", FALSE, 0, None)
\* linked: it has an external_subscription_id.
SubRow == {NoSub} \cup [status : Statuses, linked : BOOLEAN, period : 1..MaxPeriod, plan : Plans]

Discrepancy(category, local, provider) ==
    [category |-> category, localStatus |-> local, providerStatus |-> provider]
NoDiscrepancy == Discrepancy("NONE", "NONE", "NONE")
DiscrepancyRow ==
    {NoDiscrepancy} \cup
    [category : {"STATUS_MISMATCH", "LOCAL_CANCELED_PROVIDER_ACTIVE", "PROVIDER_NOT_FOUND"},
     localStatus : Statuses, providerStatus : Answers]

\* delta, left and amount: price difference, time remaining, what is recorded.
Proration(delta, left, amount) == [delta |-> delta, left |-> left, amount |-> amount]
ProrationRow == [delta : Int, left : 0..Length, amount : Int]

\* todo: the tenants left, each with the status that was listed; at: the
\* tenant whose period was read.
Run(job, todo, at, period) == [job |-> job, todo |-> todo, at |-> at, period |-> period]
Nothing == [t \in Tenants |-> "NONE"]
Idle == Run("idle", Nothing, None, 0)
RunState == [job : Jobs \cup {"idle"}, todo : [Tenants -> Statuses \cup {"NONE"}],
             at : Tenants \cup {None}, period : 0..MaxPeriod]

Init ==
    /\ sub = [t \in Tenants |-> NoSub]
    /\ seats = [t \in Tenants |-> 1]
    /\ usage = [t \in Tenants |-> [p \in 1..MaxPeriod |-> 0]]
    /\ remote = [t \in Tenants |-> "ACTIVE"]
    /\ found = [t \in Tenants |-> NoDiscrepancy]
    /\ prorated = Proration(0, 0, 0)
    /\ lock = [j \in Jobs |-> None]
    /\ run = [w \in Workers |-> Idle]
    /\ changes = 0 /\ failures = 0

----------------------------------------------------------------------------
(* Workspaces, subscriptions and the provider.                             *)

Changes == changes < MaxChanges /\ changes' = changes + 1
sweepVars == <<usage, found, lock, run, failures>>

Subscribe(t, status, linked, plan) ==
    /\ Changes /\ sub[t] = NoSub
    /\ sub' = [sub EXCEPT ![t] = Sub(status, linked, 1, plan)]
    /\ UNCHANGED <<sweepVars, seats, remote, prorated>>

\* LEGAL_TRANSITIONS.
Legal == [s \in Statuses |->
    CASE s = "TRIALING" -> {"ACTIVE", "CANCELED"}
      [] s = "ACTIVE"   -> {"PAST_DUE", "CANCELED"}
      [] s = "PAST_DUE" -> {"ACTIVE", "CANCELED"}
      [] s = "CANCELED" -> {}]

Moves(t, s) ==
    /\ Changes /\ sub[t] # NoSub /\ s \in Legal[sub[t].status]
    /\ sub' = [sub EXCEPT ![t] = Sub(s, sub[t].linked, sub[t].period, sub[t].plan)]
    /\ UNCHANGED <<sweepVars, seats, remote, prorated>>

\* A CHARGED webhook; it revives a subscription that is past due or on trial.
Renews(t) ==
    /\ Changes /\ sub[t].status \notin {"NONE", "CANCELED"} /\ sub[t].period < MaxPeriod
    /\ sub' = [sub EXCEPT ![t] = Sub("ACTIVE", sub[t].linked, sub[t].period + 1, sub[t].plan)]
    /\ UNCHANGED <<sweepVars, seats, remote, prorated>>

SeatsChange(t, n) ==
    /\ Changes /\ n # seats[t]
    /\ seats' = [seats EXCEPT ![t] = n]
    /\ UNCHANGED <<sweepVars, sub, remote, prorated>>

RemoteMoves(t, answer) ==
    /\ Changes /\ answer # remote[t]
    /\ remote' = [remote EXCEPT ![t] = answer]
    /\ UNCHANGED <<sweepVars, sub, seats, prorated>>

----------------------------------------------------------------------------
(* Plan changes.                                                           *)

Lesser(a, b) == IF a <= b THEN a ELSE b
Clamp(n) == IF n < 0 THEN 0 ELSE n
\* now counts from the start of the period.
Remaining(now) == Clamp(Lesser(Length - now, Length))

\* Mutant: Python's floor division.
Floored(n, d) == (2 * n + d) \div (2 * d)
\* ROUND_HALF_UP: to the nearest, ties away from zero.
Rounded(n, d) == IF n >= 0 THEN (2 * n + d) \div (2 * d) ELSE -((d - 2 * n) \div (2 * d))

Net(delta, left) == Rounded(delta * left, Length)

\* Nothing for the same plan or another currency.
Prorates(from, to) == from # to /\ Currency[from] = Currency[to]

\* A row of its own savepoint; whatever fails, nothing is raised.
RecordFor(from, to, now) ==
    LET delta == Price[to] - Price[from] IN
    \/ /\ Prorates(from, to)
       /\ prorated' = Proration(delta, Remaining(now), Net(delta, Remaining(now)))
    \/ prorated' = prorated

\* change_plan: whatever becomes of the record, the plan changes.
ChangePlan(t, to, now) ==
    /\ Changes /\ sub[t].status \notin {"NONE", "CANCELED"}
    /\ sub' = [sub EXCEPT ![t] = Sub(sub[t].status, sub[t].linked, sub[t].period, to)]
    /\ RecordFor(sub[t].plan, to, now)
    /\ UNCHANGED <<sweepVars, seats, remote>>

----------------------------------------------------------------------------
(* Runs.                                                                   *)

Becomes(w, r) == run' = [run EXCEPT ![w] = r]
Without(r, t) == Run(r.job, [r.todo EXCEPT ![t] = "NONE"], None, 0)
Left(w) == {t \in Tenants : run[w].todo[t] # "NONE"}

Lists(j, t) == IF j = "meter_usage" \/ sub[t].linked THEN sub[t].status ELSE "NONE"

\* Beat, a retry or the management command; advisory_lock lets one run in.
Start(w, j) ==
    /\ run[w] = Idle /\ lock[j] = None
    /\ lock' = [lock EXCEPT ![j] = w]
    /\ Becomes(w, Run(j, [t \in Tenants |-> Lists(j, t)], None, 0))
    /\ UNCHANGED <<tenantVars, usage, found, failures>>

\* Mutant: a run that dies leaves the lock behind.
LockKept(j) == lock
Unlocked(j) == [lock EXCEPT ![j] = None]

Finish(w) ==
    /\ run[w] # Idle /\ Left(w) = {}
    /\ lock' = Unlocked(run[w].job) /\ Becomes(w, Idle)
    /\ UNCHANGED <<tenantVars, usage, found, failures>>

\* An exception the sweep does not catch, or the worker's death: the finally
\* clause or the end of the session lets go of the lock.
Dies(w) ==
    /\ run[w] # Idle /\ failures < MaxFailures
    /\ lock' = Unlocked(run[w].job) /\ Becomes(w, Idle)
    /\ failures' = failures + 1
    /\ UNCHANGED <<tenantVars, usage, found>>

\* record_snapshot reads the current period,
ReadPeriod(w, t) ==
    /\ run[w].job = "meter_usage" /\ run[w].at = None /\ t \in Left(w)
    /\ Becomes(w, Run("meter_usage", run[w].todo, t, sub[t].period))
    /\ UNCHANGED <<tenantVars, usage, found, lock, failures>>

Count(t) == seats[t]

\* then counts and inserts; a row that is there is not refreshed.
InsertSnapshot(w) ==
    LET t == run[w].at
        p == run[w].period
    IN
    /\ t # None
    /\ usage' = IF usage[t][p] = 0 THEN [usage EXCEPT ![t][p] = Count(t)] ELSE usage
    /\ Becomes(w, Without(run[w], t))
    /\ UNCHANGED <<tenantVars, found, lock, failures>>

\* _LOCAL_STATUS.
Normal(s) == IF s = "TRIALING" THEN "ACTIVE" ELSE s

\* Mutant: subscriptions that have ended here are skipped.
DiffersLive(local, answer) == local # "CANCELED" /\ Normal(local) # answer
Differs(local, answer) == Normal(local) # answer

Category(local, answer) ==
    IF answer = "NONE" THEN "PROVIDER_NOT_FOUND"
    ELSE IF local = "CANCELED" THEN "LOCAL_CANCELED_PROVIDER_ACTIVE"
    ELSE "STATUS_MISMATCH"
RowFor(local, answer) == Discrepancy(Category(local, answer), local, answer)

\* reconcile_subscription on the row as it was listed.
Reconcile(w, t) ==
    LET local == run[w].todo[t] IN
    /\ run[w].job = "reconcile_subscriptions" /\ t \in Left(w)
    /\ found' = IF Differs(local, remote[t])
                THEN [found EXCEPT ![t] = RowFor(local, remote[t])] ELSE found
    /\ Becomes(w, Without(run[w], t))
    /\ UNCHANGED <<tenantVars, usage, lock, failures>>

\* ProviderUnavailable, or an exception for this row: the sweep goes on.
Unavailable(w, t) ==
    /\ run[w].job = "reconcile_subscriptions" /\ t \in Left(w) /\ failures < MaxFailures
    /\ Becomes(w, Without(run[w], t))
    /\ failures' = failures + 1
    /\ UNCHANGED <<tenantVars, usage, found, lock>>

----------------------------------------------------------------------------

Continue(w) ==
    \/ Finish(w) \/ InsertSnapshot(w)
    \/ \E t \in Tenants : ReadPeriod(w, t) \/ Reconcile(w, t)

Sweep(w) ==
    \/ Continue(w) \/ Dies(w)
    \/ \E j \in Jobs : Start(w, j)
    \/ \E t \in Tenants : Unavailable(w, t)

Changing(t) ==
    \/ \E plan \in Plans, linked \in BOOLEAN, s \in {"TRIALING", "ACTIVE"} : Subscribe(t, s, linked, plan)
    \/ \E s \in Statuses : Moves(t, s)
    \/ Renews(t)
    \/ \E n \in 1..MaxSeats : SeatsChange(t, n)
    \/ \E answer \in Answers : RemoteMoves(t, answer)
    \/ \E to \in Plans, now \in -1..(Length + 1) : ChangePlan(t, to, now)

Next == (\E t \in Tenants : Changing(t)) \/ (\E w \in Workers : Sweep(w))

Spec == Init /\ [][Next]_vars

\* A run that started goes on; beat fires each job again and again and, with a
\* worker for each, one is there to take it.
Fairness ==
    /\ \A w \in Workers : WF_vars(Continue(w))
    /\ \A j \in Jobs : WF_vars(\E w \in Workers : Start(w, j))
FairSpec == Spec /\ Fairness

----------------------------------------------------------------------------

\* Every variable has its type.
TypeOK ==
    /\ sub \in [Tenants -> SubRow]
    /\ seats \in [Tenants -> 1..MaxSeats]
    /\ usage \in [Tenants -> [1..MaxPeriod -> 0..MaxSeats]]
    /\ remote \in [Tenants -> Answers]
    /\ found \in [Tenants -> DiscrepancyRow]
    /\ prorated \in ProrationRow
    /\ lock \in [Jobs -> Workers \cup {None}]
    /\ run \in [Workers -> RunState]
    /\ changes \in 0..MaxChanges /\ failures \in 0..MaxFailures

Abs(n) == IF n < 0 THEN -n ELSE n
\* What is recorded is the nearest cent to the price difference times what is
\* left of the period, never more than the difference, nothing once the period
\* is over, and the same for an upgrade and for the downgrade that undoes it.
ProrationExact ==
    LET exact == Abs(prorated.delta) * prorated.left
        cents == Abs(prorated.amount)
    IN  /\ prorated.left >= 0 /\ cents <= Abs(prorated.delta)
        /\ prorated.amount * prorated.delta >= 0
        /\ -Length < 2 * (cents * Length - exact) /\ 2 * (cents * Length - exact) <= Length

\* The period a workspace is in is snapshot before it ends or however long it
\* lasts, whichever runs died, were turned away by the lock, or read the
\* period that had just ended (snapshot_all_subscribed).
SnapshotTaken ==
    \A t \in Tenants, p \in 1..MaxPeriod :
        sub[t].period = p ~> (usage[t][p] # 0 \/ sub[t].period # p)

Diverges(t) == sub[t].linked /\ Normal(sub[t].status) # remote[t]
\* A divergence from the provider that lasts is recorded as what it is, past
\* outages, dead runs and sweeps that listed an older status; one in which the
\* provider may still charge a canceled workspace included (reconcile_all).
DriftFound ==
    \A t \in Tenants :
        Diverges(t) ~> (~Diverges(t) \/ found[t] = RowFor(sub[t].status, remote[t]))

\* Both sweeps catch up with the workspaces.
SweepsCatchUp == SnapshotTaken /\ DriftFound
=============================================================================
