# A verification development for Tenora

Tenora (`src/`) is a multi-tenant rental business application: a Django/DRF
backend under `src/apps`, a Celery beat schedule, and a React front end.  Owners
manage properties, leases and meters, bill their residents once a month and take
their payments, partly online through Cashfree.  Owners themselves subscribe to
Tenora, through a second Cashfree (or Razorpay) integration.

The backend runs many workers (web requests and Celery tasks) against one
PostgreSQL database under READ COMMITTED.  There is no `ATOMIC_REQUESTS`: each
service function opens its own transaction, locks the rows it decides about with
`SELECT ... FOR UPDATE`, and calls providers outside any transaction.  What can
go wrong is therefore nearly always the same kind of thing: a decision made on
something read before the lock, or before an answer from outside, and acted on
after it.  That is what these specifications are about.

This directory holds TLA+ modules translated from the source, TLC
configurations that check them on small instances, and TLAPS proofs for every
instance.  `PROJECT.json` lists components, runs, the source lines behind each
definition, hazards, findings and theorems in machine-readable form.

## 1. Inventory

Paths are relative to `src/`.  "Hard" names what tests hardly reach.

### 1.1 Online resident payments
`apps/properties/online_payments.py`, `online_payment_views.py`, `gateway/`,
`tasks.py`
* State: `OnlinePaymentAttempt` (status, amount, session, provider payment,
  expiry), `PropertyPaymentWebhookEvent`, and the `Bill` and `Payment` rows it
  shares with 1.2.
* Operations: `start` (reuse or replace the open attempt, then create the
  provider order outside the transaction and write its answer in a second one),
  `reconcile` (return page, sweep), the webhook view (store once, process),
  `apply_payment`, `refund`.
* Interacts with `PaymentService.record`, Cashfree, the beat schedule.
* Hard: webhook, browser, sweep and second clicks race; orders that are replaced
  but still paid; late, repeated or failing webhooks; a lock order that can
  deadlock; refunds with unknown outcomes.
* Correct when: one checkout is open per bill; each capture ends credited, in
  whole and once, or held for refund (one order captured twice is beyond the
  code, see 3.2); nothing is refunded that was credited; every checkout is
  eventually closed.

### 1.2 Payments, receipts and corrections of a bill
`apps/properties/services.py` (`PaymentService`, `ReceiptService`,
`BillCorrectionService`)
* State: `Bill` (total, paid, status), `Payment` (idempotency key, status),
  `Receipt`, `BillCorrection`, `MeterReading`.
* Operations: `record`, `void`, `adjust_amount`, `correct_reading`, `issue`.
* Hard: retries with an idempotency key racing the first call; the running total
  `amount_paid_cents`; a chain of corrections of one reading.
* Correct when: the running total is the completed payments, never above the
  total; a key is recorded once; corrections telescope.

### 1.3 Bills, billing cycles and number sequences
`apps/properties/services.py` (`SequenceService`, `BillService`,
`BillingCycleService`)
* State: `BillingCycle`, `Bill`, `BillLineItem`, `WorkspaceSequence`.
* Operations: `open`, `generate` (with regeneration), line items, `publish`,
  `publish_all`, `cancel`, `close`.
* Hard: `generate` and `publish_all` are loops of transactions over things read
  earlier; a regeneration races a publication; several publications take numbers.
* Correct when: a resident has one live bill for a unit and month; numbers are
  unique; totals are the lines; an issued bill is history.

### 1.4 Leases, units, meters, readings and tariffs
`apps/properties/services.py` (`PropertyService`, `UnitService`, `LeaseService`,
`MeterReadingService`, `TariffService`, `electricity_for_period`),
`calculations.py`
* State: `Property.is_active`, `Unit.status`, `Lease`, `MeterReading`, `Tariff`.
* Operations: create, update and end a lease, update a unit; record and correct
  readings; create a tariff; choose the readings and tariff of a month.
* Hard: lease and unit locks taken in both orders; unit status written from two
  sides; readings entered for past days; boundary days of a tariff.
* Correct when: a unit is occupied exactly by its one active lease; leases are
  created apart; no month's consumption is negative; one rate a day.

### 1.5 Workspace subscriptions
`apps/billing/services.py`, `views.py`, `gateway/cashfree.py`
* State: `Subscription`, `SubscriptionCheckout`, `WebhookEvent`,
  `Plan` with its provider plan id.
* Operations: checkout, confirm, webhook record and process, activated, charged,
  cancelled, payment trouble, `process_pending`, PATCH (cancel), `change_plan`,
  `apply_upgrade`, `sync_plan`.
* Hard: events that arrive early, twice, late or in another order; PATCH writes a
  row it read without a lock; an upgrade replaces the mandate being charged.
* Correct when: the owner holds one live mandate and Tenora knows it, an
  activation is not lost, a charge moves the period once, the plan is the one the
  mandate pays, and the status moves by its table.

### 1.6 Metering, proration and subscription reconciliation
`apps/billing/services.py` (`UsageMeteringService`, `ProrationService`,
`ReconciliationService`)
* State: `UsageRecord`, `ProrationRecord`, `ReconciliationDiscrepancy`.
* Operations: `snapshot_all_subscribed`, `record_for_plan_change`,
  `reconcile_all`.
* Hard: sweeps over rows they listed earlier; runs that die; half cents.
* Correct when: every period is snapshot, lasting drift is recorded as what it
  is, a proration is exact to the cent.

### 1.7 Scheduled sweeps and advisory locks
`apps/billing/tasks.py`, `locks.py`, `apps/properties/tasks.py`.  Five beat tasks
take a PostgreSQL session lock so that two beats do not run one sweep twice.
Hard: a run that dies must not keep the lock; the bodies must be correct without it.

### 1.8 Workspaces, memberships and invitations
`apps/tenants/services.py`, `limits.py`, `users/account.py`
* State: `Tenant`, `Membership` (role, status), `Resident`, `Invitation`.
* Operations: create, close, leave, remove, transfer, invite, cancel, respond,
  suspend, the platform's role change, the deletion of an account.
* Hard: seat and workspace limits counted under different locks; transfers
  racing; an invitation answered while its workspace closes (opposite lock order).
* Correct when: an open workspace has an active owner; limits hold; an invitation
  is answered once; the tables agree about who is in.

### 1.9 Platform control plane
`apps/platform/services.py`.  Operator roles (one active root must remain),
suspension, the status override, the plan catalogue and its synchronisation.
Hard: two roots demoting each other; a second synchronisation, or an edit, during
the provider call of the first.

### 1.10 Accounts and email verification
`apps/users/services.py`, `account.py`, `auth.py`.  State: `User`,
`EmailVerificationToken`, refresh tokens.  Operations: register, issue, resend,
verify, both sign-ins, log-out, delete.  Hard: every request is several statements;
deletion races promotion, sign-in and resends.  Correct when: nobody comes in
unverified, a root remains.

### 1.11 The rest
Tenant resolution (`tenants/authentication.py`, `permissions.py`): stateless
checks, the guards of the handlers above.  Notifications, reminders, aging
(`notifications/services.py`, `properties/reminders.py`, `aging.py`): messages and
displays.  Provider adapters: what their calls may answer is a choice of the
actions that call them.  Browser session (`frontend/src/lib/auth/refresh.ts`,
`api-client.ts`, `TenantProvider.tsx`): a coalesced token refresh against logout,
login and another tab.  Views, serializers, reports, documents, components:
translation of requests and reads, no state of their own.

## 2. Plan

| # | Module | What it models | Abstract specification | State |
|---|---|---|---|---|
| 1 | `OnlinePayments` | 1.1 with the owner's transactions of 1.2 | `BillAccount` | checked, proved |
| 2 | `BillingCycle` | 1.3 | | checked, proved |
| 3 | `Subscriptions` | 1.5 | | checked, proved |
| 4 | `Workspaces` | 1.8, suspension and workspace roles of 1.9 | | checked, proved |
| 5 | `Accounts` | 1.10, operator roles of 1.9 | | checked, proved |
| 6 | `Leases` | units and leases of 1.4 | | checked, proved |
| 7 | `Charges` | readings and tariffs of 1.4, 1.2 for one bill | `BillAccount` | checked, proved |
| 8 | `BillingSweeps` | 1.6, the lock of 1.7 | | checked, proration proved |

Left to do: the plan catalogue (1.9), receipts (1.2), reminders (1.11).

Modules are written to be proved about: constants with named assumptions, one
action per operation, named row constructors, no `RECURSIVE`.

## 3. OnlinePayments

### 3.1 Correspondence
One bill is enough: different bills share no row.  `attempt`, `payment`, `hook`
and `bill` are tables or rows; `provider` and `refunded` are Cashfree's books;
`age[a]` is the clock against `expires_at` (`closing`: too little time is left to
hand the checkout out again).  `worker[w]` is a request or a sweep: a program
counter, and what it read earlier and still acts on.

A transaction that locks one row is one step that waits for the row.  `start`
(bill, then attempt) and `apply_payment` (attempt, then bill in `record`) lock two
and take two steps, so the opposite order is real: `AbortStart` and `AbortApply`
are PostgreSQL choosing its victim.  Calls to Cashfree are steps outside every
lock; they may succeed, be refused, fail, or end unknown.  `Crash` kills a worker
anywhere: its transaction is gone, what was committed stays.

| Code | Actions |
|---|---|
| `start` and `_ensure_provider_order` | `StartBegin`, `StartLockBill`, `StartLockAttempt`, `CreateOrder`, `Activate` / `RejectOrder` / `ExpireStuck` |
| `reconcile`, `reconcile_open` | `ReconcileBegin` (the row), `ReadClock`, `QueryAnswered` / `QueryOutage`, `ReconcileLock` |
| webhook view | `HookStore`, then `apply_payment`; outcome in `HookOutcome`, `AbortApply` |
| `apply_payment`, `_unapply` | `ApplyLock`, `ApplyBill` |
| `refund` | `RefundBegin`, `RefundCall`, `RefundWrite` |
| `record`, `void`, `adjust_amount`, `BillService.cancel` | `RecordOffline`, `VoidOffline`, `AdjustAmount`, `CancelBill` |
| Cashfree, resident, clock | `BeginPay`, `EndPay`, `RefundClears`, `Tick` |

`reconcile` reads the row and then the clock, and asks the provider only if its copy of
the row is ACTIVE.  A copy that is still CREATED is not asked about, so an order that was
confirmed, paid and ran out between the two reads is expired unseen: `closed` keeps
apart what was expired after an answer (`"lapsed"`) from what was expired unasked.

Simplified: the clock of `start` is read at its last lock, not just before it;
the outcome of a webhook is written with the commit of `apply_payment`; a new row is the
first free one (`NextRow`), which makes no difference.  Left out: audit rows,
notifications, receipts, display columns (`last_payment_status`,
`failure_message`, `refund_status`), the rate limit (a worker may or may not ask),
currencies (a mismatch is treated as the amount's), a provider payment id that
two orders share.

### 3.2 Runs
| Run | Shows | Instance |
|---|---|---|
| `checkout_race` | types, one open checkout, no expiry of what was asked about and may be paid, refunds only of uncredited captures, webhook outcomes | 2 workers, 2 attempts, 1 capture, 1 death, all of `Acts`, total 1; 1.9 million states |
| `checkout_account` | the running total, captures behind online payments, the refinement of `BillAccount` | 1 worker, 2 attempts, 2 captures, 1 offline payment, total up to 2; 2.3 million states |
| `checkout_live` | requests end, checkouts close, captures are accounted for | 2 workers, 2 attempts, 1 capture, 1 death; 132,491 states |
| `failed_hook` | finding: a failed webhook whose capture nobody looks at again | as `checkout_live`, no death |

Two workers are the most that one lock order or one stale read needs: every
hazard of this module is between two transactions.  Two attempts give an old
order that is replaced and paid; a third repeats the second.  A total of 2 gives
partial payment, and corrections up and down.  `checkout_account` has one
worker because its questions are about the order of commits (the owner's
transactions interleave with every step of the worker), and keeps two captures,
of one order or of two.  `Acts` lists what the owner and the resident may do besides paying
the amount due: refunds, corrections, cancellation, and the capture of another amount
(`mispay`).  `checkout_live` has none of them, they only add ways to close a bill; one death
is what one capture needs to be stranded.  `MaxTotal`, `MaxCrashes` and `RoomToStart` (a start is served while
there is a row for it) are the bounds on counters.  No state constraint is used.
Deadlock is not checked: when the resident has left and the clocks have run out
the system may really stop.

`CapturesAccounted` names the three ways in which a capture ends neither on the bill nor
held for refund.  Its webhook failed and said so (`error`, section 11).  The worker died
after `HookStore` had stored the event (`Abandoned`): redeliveries collide with the stored
row, so nothing processes it, and if the order is closed meanwhile no sweep does.  Or the
order had been dealt with through another capture (`Surplus`): `apply_payment` notes a
second capture of a settled order in the audit log (`duplicate_capture`) and of a held one
nowhere, and returns; `DoneMeansAccounted` excepts it too.  Both properties are per capture.

Fairness (`Fairness`): lock queues are served and deadlocks broken (PostgreSQL);
the sweep runs again and again (beat schedule); the provider answers some
queries and decides every payment; each webhook is delivered at least once;
clocks move; the resident at some point stops pressing Pay.  Nothing else is fair:
nobody has to pay, click, refund or edit.

### 3.3 Proofs
`OnlinePaymentsProofs` proves, for any number of workers, attempts, payments and
deaths: `TypeOK`, `OneOpenAttempt`, `CreditBacked`, `RefundOnlyUncredited`,
`DoneMeansAccounted`, `NeverOverpaid`, `LapsedUnpaid` and the action property
`AttemptMoves`.  None but `TypeOK` is inductive alone; the argument is layered:

1. `Typed`, then `Locked`: who holds a row is exactly the worker whose program
   counter says it is between its two locks.  This is what makes a row
   read under a lock still true at the commit.
2. `PaysNeedSession`: only an order with a session is paid, so a row that was
   refused never has a capture.  With `Locked` this gives `OneOpenAttempt`.
3. `Books`: a worker about to credit still holds a capture of its attempt's
   order; online payments are never voided; a held capture is behind every
   unapplied row, and a refund in progress is of such a row.  This gives
   `CreditBacked` and `RefundOnlyUncredited`, and with the webhooks' own clause
   `DoneMeansAccounted`.
4. `Credited`: amounts and what is due, for `NeverOverpaid`.
5. `Clocked`: a worker that found an attempt past its expiry before it asked the
   provider keeps finding that no new payment can begin, and one that asked had an
   ACTIVE copy, for `LapsedUnpaid`.

Each action is reduced to a "change lemma" (what changed in the rows) before the
layers are checked, so that a layer's proof is about four kinds of change and not
twenty actions.

The same module proves `ImplementsAccount == Spec => AccountSpec`: seen
from the bill, every interleaving is a sequence of whole credits within what is
due, voids, captures held and returned, corrections and one cancellation
(`BillAccount`).  The mapping reads the fate of an order off its attempt's
status and the fate of an offline payment off its own.

`PaymentsRecorded` is `PaidIsRecorded`: `amount_paid_cents`, which every writer
changes by one payment and nothing recomputes, is the sum over the payment table.  A
step changes one row of the table (`PaidChanges`), and of `Books` it needs that the
attempt about to be credited was not credited before.  What a sum over a finite set is
has to be shown first: the library's folds are defined by recursion over subsets, and
induction over sets is not available to the provers, but a smallest counterexample is
(`LeastSubset`, from the library's well-founded orders).  `SumsExist`
shows that the recursion has a solution, `SumChanges` that a sum changes as much as the
one term that changes.

`DeadlocksEnd` is about any number of waiters (`DeadlocksBroken`), where a run has two or
three.  `start` takes the bill and then the attempt, `apply_payment` the attempt and then the
bill; a circle of waiters must leave the bill's holder waiting for an attempt, and by
`Locked` the attempt's holder can then only wait for the bill: two of the circle are a pair
that `Abort` ends.

The proofs assume the named ASSUMEs of `OnlinePayments` only; that the tables are finite
(`KeysAreFinite`) is used by the sum alone.  The liveness properties are model-checked
only.

## 4. BillingCycle

### 4.1 Correspondence
`cycle` is the month, `bill` the rows, `next` the sequence row.  `generate` and
`publish_all` are loops of transactions, so each runs in a worker that keeps
what it read: `FindExisting` (the live bill of the next lease), `CollectDraft` and
`DeleteDraft` (a Django queryset delete first selects the rows the filter matches, because
bills have dependants, and then deletes them by id), `CreateBill` (a missing
reading or tariff, or the unique constraint, skips the lease).  `PublishLock` takes
the bill's row and reads the sequence (`get_or_create`); `PublishCommit` reads the
sequence again under its lock, numbers and commits.  The owner's operations
lock one row each: one step.

A bill's amounts are its lines: `base`, a manual charge or discount, a
correction, at most one of each kind, worth 1.  `Tenancy` maps a lease to its unit
and resident: two leases of one tenancy are a renewal in mid-month.  `Place` is
the order in which the leases are listed.

Simplified: the deletion of a bill and its lines is one step; which readings
and tariff apply is a choice; voids are left to `OnlinePayments`; snapshots,
audit and the progress report are left out.

### 4.2 Runs
| Run | Shows | Instance |
|---|---|---|
| `billing_month` | types, unique numbers, one live bill per tenancy, totals and statuses, history of issued bills | 2 workers, 3 leases (2 of one tenancy), 2 bill rows, any deaths |

Two bill rows are enough for two publications that take numbers at once, and for
a row deleted or cancelled beside its replacement.  The run states safety only:
nothing obliges an owner to publish, so nothing is fair; the month may stop
anywhere, so deadlock is not checked.

### 4.3 Proofs
`BillingCycleProofs`: `TypeOK`, `NumbersUnique`, `OneLiveBill`, `BillsAddUp` and
`IssuedHistory` for any leases, bills, requests and kinds of line.  The induction keeps `Numbering` (who is about
to number a bill holds its row, and it is still a DRAFT) and `Unnumbered` (a draft has no
number); every other writer of the bill needs the row's lock, so nothing comes between
the two transactions' statements.  `NumbersUnique` also says that each number given out is
some bill's: a publication that fails or dies rolls its number back with the rest.  That is
what the code does; the docstring promises unique numbers and allows gaps.

`BillsAddUp` is a second layer (`AddsUp`, row by row).  A total is a count: lines that add
less lines that reduce, so a line more makes it differ by that line's amount
(`SumOfMore`).  A correction is accepted on the total that is there plus the line, and then
the total is computed again from the lines; that the two agree is what keeps what is paid
within the total.  A publication finds its draft unpaid and unnumbered because of `Numbering`.
`TypeOK` comes last: a total is not negative because it is at least what is paid.

`SpecBillsMove` is the life of a bill as one action property (`BillsMove`): issued once, from
a draft, with the number the sequence has next, and cancelled or deleted only while unpaid.
A cancelled bill comes to life again in no interleaving.  The steps are sorted by what they do to a
bill (`NextMoves`), after `Numbering` has shown that a publication's bill is a draft.

## 5. Subscriptions

### 5.1 Correspondence
One workspace: workspaces share no row of this component.  `sub` and `checkout`
are its `Subscription` and `SubscriptionCheckout` rows; `mandate` is Cashfree's
book of subscriptions, with the checkout link the owner may still use; `event[e]`
is a webhook from the moment the provider generates it (`SENT`) through its
`WebhookEvent` row (`STORED`, `PROCESSED`).  An event's number is its
`event_created_at`, so `last_event_at` is the number of an event.

| Code | Actions |
|---|---|
| `StartCheckoutView.post`, `CheckoutService.create_checkout` | `StartCheckout`, then `ReuseCheckout` / `RefuseCheckout` / `LockCheckout`, `CreateMandate` / `CreateFails`, `SaveCheckout` |
| `confirm_checkout` | `ConfirmCheckout`, `SaveConfirmed` |
| `record_event` | `Deliver` |
| `process_event` (webhook, redelivery, `process_pending`) | `ProcessMatched`; or `ProcessUnmatched`, `LookAgain`, then `WriteLate`, or `Insert` and `Converge` |
| the two PATCH views: `transition_status`, the plan | `ReadSubscription`, then `TransitionStatus` / `ChangePlan` / `Refuse` |
| Cashfree, the owner, the bank, the clock | `Authorise`, `Activate`, `Charge`, `ChargeFails`, `EndMandate`, `HourPasses`, `DayPasses`, `MonthPasses` |

When `process_event` finds the subscription of the event it decides and writes
under that row's lock: one step.  When it does not, the handler looks again
without a lock, and everything after that acts on a copy: three steps at most,
with other webhooks, sweeps and PATCHes between them.  The PATCH views are two
steps for the same reason.  `create_checkout` holds the checkout row (`lock`) over
the provider call.  `save(update_fields)` is modelled field by field: `Written`,
`Converged` and the PATCH actions write their fields into the row as it is now.

Some behaviours that the code has and the model keeps: a `CANCELLED` event is not
subject to the staleness test; a cancellation that comes before its activation is
dropped and the activation then subscribes; `confirm_checkout` also confirms a
mandate nobody has authorised; an activation of a mandate for the plan the
subscription already has does not adopt the mandate; cancelling in Tenora does
not end the mandate (the adapter has no such call).

Simplified: two events are never generated at the same instant; links lapse when
the checkout grows stale (both settings default to 60 minutes), which is one
step.  Left out: event types nothing handles, plan synchronisation, proration,
audit, the Razorpay adapter (same port).

### 5.2 Runs
| Run | Shows | Instance |
|---|---|---|
| `subscription_moves` | types, one live mandate and it is on record, activations not lost, charges counted once, moves of the plan | 2 workers, 2 plans, 2 mandates, 3 events, 1 PATCH, with or without an older subscription |
| `subscription_live` | every stored event is settled | 2 workers, 1 mandate, 2 events, 1 death, 2 months |

Two mandates are an upgrade or a replaced checkout; three events are an
activation, an activation or charge that overtakes it, and a third one stale or not;
two workers are the most that one lock or one copy needs.  `MaxEvents`,
`MaxMonth`, `MaxPatches` and `MaxCrashes` bound what the environment does and
appear in guards only.  (Four events without PATCHes, and three events with a
PATCH and a death, were also run without a violation: too long to repeat each
time.)  The mandates and the workers are symmetric in the safety run.  Deadlock is
not checked: when the provider and the owner are done, nothing need happen.

Fairness: a worker that has begun goes on (`WF` of `Continue`); the sweep comes back
to every stored event, whatever else the workers are doing (`SF` of `Process`,
`process_pending` on the beat schedule); days pass.  Nothing is asked of the
provider or the owner.

### 5.3 Proofs
`SubscriptionsProofs` proves the five safety properties of `subscription_moves`, and
`LegalMoves`, for every set of plans, mandates and workers and every bound.  `StepKind` first shows
that a step is one of twenty kinds of change of the rows and keeps the types;
the parts of `Inv` are then proved about the kinds:

1. `OnRecord`: the worker in `create` or `save` holds the lock and there is no live
   mandate while it does; a stale checkout has no open link.  That is why replacing
   a stale checkout whose mandate is not authorised leaves nothing behind.
2. `Bought`, `Known`, `InHand`: a mandate's plan is fixed and is the checkout's; an
   activation exists only of a mandate that was authorised; the event in a worker's
   hands is stored, and in no other's.
3. `Subscribed`: with 1 and 2, an activation whose mandate is live finds the
   subscription or the checkout.
4. `Charged`: the periods of the row and of every copy are within the calendar
   plus the undated charges processed.

`AppliedOnce` (`EffectsOnce`) is that an event has its effect once: a step that changes the
subscription is a PATCH or marks exactly one stored event processed, and processed is
for good.  It rests on `InHand`: an event in two workers' hands would be applied twice.

Liveness (`EventsSettle`) is model-checked only.

## 6. Workspaces

### 6.1 Correspondence
`tenant`, `member`, `profile` and `invite` are the tables; `deleted` the users with
a `deleted_at`; `job[w]` a request, with what it read.  A handler whose reads
are all under locks it keeps is one step, taken when the locks are free (`TenantFree`,
`MemberFree`, `InviteFree`, `UserFree`: locks are held by requests in the middle of
their transaction, so a lock is a fact about `job`, not a variable).

| Code | Actions |
|---|---|
| `create_tenant` | `BeginCreate`, `CreateLocks` (and the limit), `CreateCounts`, then `CreateTenant` / `CreateRefused` |
| `close_workspace` | `CloseLocks`, then `CloseWorkspace` |
| `transfer_ownership` | `BeginTransfer`, `TransferLocks`, `TransferLimit`, `TransferCounts`, then `TransferOwnership` / `TransferRefused` |
| `InvitationService.create`, `cancel`, expiry | `BeginInvite`, then `CreateInvitation` / `InviteRefused`; `CancelInvitation`; `Lapses`, `ExpireStale` |
| `respond` | `BeginAnswer`, `AnswerLocks`, then `Accept` / `Decline` / `AcceptRefused` |
| leave, remove, `set_role`, suspension | `Leave`, `Remove`, `SetRole`, `SetActive`: one step each |
| `delete_account` | `DeleteLocks`, `DeleteMembers`, `DeleteAccount` |
| PostgreSQL | `Abort`, when requests wait for each other |

Paid and unpaid workspaces are a constant: a change of plan removes nothing
(`LimitsKept` speaks of growth).  LEFT and REMOVED are one status.

The limit of owned workspaces is read, the workspaces are counted and the owner's row is
written in three statements under the lock of the account's row, which `set_role` does not
take; they are three steps.  `overtaken` is a history variable, read by no action: the requests between the
first and the last of them while a root changed a role of the account they count.

### 6.2 Run
`workspace_roles`: three people, two workspaces (one invites and fills up, one is
paid and may be suspended while it is open), two invitations, two requests; limits of one
and two; 1,387,640 states.
It checks types, `RosterAgrees` (closed workspaces are empty; nobody has two
pending invitations, or one beside a membership, or a profile without one),
`OwnerKept`, `LimitsKept`, `AnsweredOnce`.  Two requests are what a lock cycle or a
stale count needs, three people an owner, a member and an invited one.  The
sets' members that play no part in a constant are symmetric.  Only safety: nobody is obliged to
answer or leave.

`LimitsKept` names the exceptions the code makes: a root's `set_role`, which
counts nothing; an owner's row that comes back by an invitation; and a workspace granted
to an account whose role a root changed after its workspaces were counted (`overtaken`),
which can exceed the limit by the step that creates or transfers it.  `OwnerKept` names one: a
deletion checks ownership once and then ends memberships statement by statement.

### 6.3 Proofs
`WorkspacesProofs` proves every property of the run for any people, workspaces,
invitations, requests and limits; people and workspaces are finite (`FinitelyMany`), which
only the counts of `LimitsKept` need.  `RosterAgrees` is not inductive: closing a workspace
ends one membership and leaves it empty only because the others are gone since the check
was made.  The invariant adds what holds that together:

1. `Fits`: what a request in the middle of its transaction has read is still so: no
   other member in a workspace being closed, the target of a transfer still a resident,
   the invitation being answered still pending;
2. `Apart`: two requests do not hold one workspace, one invitation or one membership;
3. `Nowhere`: a workspace never created has no rows.

Steps are sorted by what they do to the rows.  `FewerMembers` covers those that let
nobody in (leaving, removal, role changes, suspension, closing, transfer, deletion,
every answer but an acceptance); creating, inviting and accepting are proved one by one.
The case that carries the proof is a writer that meets a request in the middle: it waits for
the lock of the row, so what the other has read stands.  The action properties follow
from what each writer does to the rows (`OwnerStep`, `AnswerStep`, `ResidentStep`,
`OwnedStep`).

`SpecDeletedIsAlone` bounds the disagreement about `DeletedOwnsNothing` (11): a deleted
account is in a workspace only if it owns it and nobody else is there, comes in or is
invited.  Four facts make `DeletedIsAlone` inductive: nobody is inviting to such a workspace
(`Alone`); what a deleted account was still answering was cancelled with it
(`NotAnswered`); one is invited to workspaces that exist (`InvitesIn`); the rows a deletion has
updated are all there are when it commits, because who comes in waits for the user's row
(`EndsAll`, `ComesIn`).

## 7. Accounts

### 7.1 Correspondence
`account` is the User table, `token` the verification tokens, `signedIn` the users
with a refresh token that is not blacklisted.  Nothing here runs in one transaction
per request, so registering (`Register`, `IssueToken`), resending (`BeginResend`,
`InvalidateTokens`, `IssueToken`), verifying, Google (`BeginGoogle`, `LinkGoogle`,
`Mint`) and deleting are several steps, and a worker may die between any two
(`Dies`).  The bootstrap command creates the operator (`CreateOperator`), or reads the
account and later saves the flags it lacked, over whatever happened in between
(`BeginPromote`, `Promote`).  `UpdateRoles` locks every root's row in order and decides: one step.  A
deletion is three (`DeleteLocks`, `DeleteChecks`, `DeleteAccount`): it locks its user
first and the roots next, so two roots deleting themselves end with `Abort`.

### 7.2 Run
`account_roster`: two accounts, two tokens, two requests, both accounts possible
operators; 1,126,938 states.  It checks types, `SignInGate`, `RootRemains`: once there is an active
root, none of role changes, deactivations and deletions takes the last one.  Two tokens are
those of two requests at once, or an old one and its successor; with three, so that a resend
meets the tokens of two others, the run was also completed without a violation (3,254,603
states).  `SignInGate` is about the address: an account disabled between the check
and the minting does get a session, whose first use is refused.

### 7.3 Proofs
`AccountsProofs`: `TypeOK`, `SignInGate`, `RootRemains`, `VerifiedByToken` and
`DeadlocksBroken`, for any users, tokens, operators and workers.  The invariant beside the types: `Minting` (an account a request
has checked for a sign-in is still verified, not erased, when it is served),
`Known` (requests and tokens are of existing accounts), and for the roots `Leaves` and `OneErases`: a
root about to be erased is not the last one, and it is the only one being
erased, because its deletion holds the rows of all roots.  A promotion saves flags that it
read earlier, but it only raises them and waits for a row that is being erased, so it takes
no root and makes no erasure worse.

`VerifiedByToken`: an address becomes verified by spending a token that is its own and was
not spent before, by Google, at creation or by the deployment, and stays so until
it is erased; `VerifyKnows` keeps a token and the account it was issued to together
while a request is between them, and a promotion to the operator it was begun for.  `DeadlocksBroken`: a deletion waits for the rows of all
roots and blocks with a root's row that it holds, so any two of a circle block each other.

## 8. Leases

### 8.1 Correspondence
One property; `unit`, `lease` are the rows, `today` the server's date.
`LeaseService.create` locks the unit and checks the other leases without locking
them (`BeginCreate`, `CreateLocks`), and inserts in a later statement (`CreateLease` /
`CreateRefused`); the insert waits on the one-active-lease index for a lease that is being
ended, while `end` holds the lease (`EndLocks`) and wants the unit
(`EndLease`): the cycle ends with `InsertFails` or `Fails`.  `UpdateUnit` is the
owner's manual status.

### 8.2 Run and proofs
`lease_calendar`: two units, three leases with every start, end and open end over
three days, two requests; 731,458 states.  Three leases on one unit are a past, a present and a
future one.  It checks types, `OccupiedByOne` and `CreatedApart`: what was checked when the
unit was locked still holds when the lease is inserted, because whoever writes a lease of
the unit has the unit's lock when it commits, `create` from the start and `end` at last.
Without the unit's lock two creations pass their checks together, and only
active leases have a constraint that would refuse the second.

`LeasesProofs`: `TypeOK`, `OccupiedByOne`, `CreatedApart` and `LeasesMove`, for any units,
leases, days and workers.  The invariant: a lease that is being ended is still the active one of the
unit to be vacated (`EndsActive`: its row is held), a lease being created is still unwritten
(`CreatesNew`), and no two requests are about one lease (`OneJobEach`).  `CreatedApart`
needs two facts more (`Checked`): no two requests are between check and insert for one
unit, and the row about to be inserted still fits the unit's leases.  `LeasesMove` follows from it: no
lease is ended twice, revived or moved, although `EndLease` writes the row its request
read before it waited for the unit.

## 9. Charges

### 9.1 Correspondence
One meter, two months, the bill of the second.  A change of the meter, a reading, the correction of one and a
new tariff are each decided and written under one lock: one step
(`CreateMeter`, `UpdateMeter`, `RecordReading`, `CorrectMeter`, `CreateTariff`).  `electricity_for_period` locks
nothing and makes two queries, so `generate` is `ReadClosing`, which also reads the meter
and the tariff, then `GenerateBill` or `NotGenerated`, with readings entered and corrected
and the meter changed in between; a meter out of use is passed over, and the bill has no
electricity then.
`BillCorrectionService` is `AdjustAmount` and `CorrectReading` (both through
`Corrects`).  `record` looks the idempotency key up before it waits for the bill:
`BeginPayment`, then `RecordPayment`, `AlreadyRecorded` (the unique constraint) or
`PaymentRefused`; `VoidPayment` and `CancelBill` are one step each.

Simplified: whole multipliers and rates (nothing is rounded), one line, one meter, and
one bill, which is not regenerated (that is section 4).

What the months of a meter cover together is not a property of this code: a reading entered
late for a month that is billed, or a back-dated one that becomes the opening of the next
month, is not charged by anybody.  What holds is weaker.  `NegativeOnlyIfTorn` is about the
readings and about the pair a generation makes of them in two queries;
`CorrectionsTelescope` is about what the bill says.

### 9.2 Run
`month_charges`: four days of which two are billed, readings of 0 and 1, one rate, two
multipliers, an adjustment up or down, one key, two requests; 819,296 states.
Two days in each month give a first, a last and an only reading; tariffs may begin on
two days (`TariffDays`), one in each month: the first is closed by the second. Three
days, which give a tariff closed between two others, were run without a violation and
take too long to repeat each time; the proof is for any. The meter's multiplier only
rises and a meter put out of use stays so (`WearsOut`): a bill already made sees no
difference, one not yet made sees every meter. Two readings are equal or rise; a third
value repeats that. Two requests with one key are a retry beside the first call; two
payments that together exceed the bill are in `checkout_account`, and with two keys this
run was also completed without a violation (2,245,948 states).
It checks types, `NegativeOnlyIfTorn` (no later reading is below an earlier one, however
far apart; a generation meets a negative consumption, which it refuses, only if its closing
reading was corrected between its queries), `OneRateADay`, `CorrectionsTelescope` and
`BillBalances`.  A pair that is torn without being negative is billed as it is: section 11.
Safety only: nobody has to read a meter or pay.

### 9.3 Proofs
`ChargesProofs` proves every property of the run for any calendar, readings, rates,
multipliers, keys and requests.  `NegativeOnlyIfTorn` and `OneRateADay` are not inductive; the
invariant says how the rows are related:

1. `Rising`: readings rise with the days, all of them.  The code compares a reading with its
   nearest neighbours only (`Rises`); `RisesEverywhere` is why that is enough.
   `NegativeOnlyIfTorn` follows: an opening is an earlier reading than the closing one, so
   only a closing value that is not the row's any more can be below it (`TornByCorrection`).
2. `Chain`: each tariff but the last ends on the day before another begins, and no two overlap.
   `create` refuses a day that is not after every beginning and closes the open tariff on
   the day before, which keeps the chain; a day has at most one rate because no two overlap
   (`OneInForce`), and at least one because the first gap would be a link that is missing.
3. `Ledger`: `BillBalances` and `CorrectionsTelescope`, and that money is recorded only
   against an issued bill.  A correction is taken from what the line was corrected to, so
   the differences telescope; a payment is one term of the sum (section 3.3), and its key
   was free when the row was inserted.

Assumed: the calendar's days are numbers, rates are not negative, multipliers are positive,
and finitely many keys are in use (`KeysAreFinite`).

The same module proves `ImplementsAccount == Spec => AccountSpec`. Generating the bill
and correcting it are the account's `Adjust`; publishing it, and every step of the
meter, the tariffs and the refused or repeated requests, leave the account alone. So
both models of one bill, this one and `OnlinePayments`, promise the same of its money.
No run repeats this: to see it on an instance, add `PROPERTY AccountSpec` to
`MonthCharges.cfg` with `FirstDay = 2`, `LastDay = 2`, `MaxValue = 2`, `Multipliers =
{1}`, `TariffDays = {1}` and `Keys = {k1, k2}` (205,476 states, no violation).

## 10. BillingSweeps

### 10.1 Correspondence
`run[w]` is a Celery task: its job, the tenants it listed and has not done (each with
the status it listed), and the tenant whose period it has read.  `lock` is the
PostgreSQL session lock of `advisory_lock`: taken by `Start` or the task ends at once, let go by
`Finish`, by an exception or by the end of the session (`Dies`).
`snapshot_all_subscribed` is `ReadPeriod`, then `InsertSnapshot` (`get_or_create`: a row that
exists is left alone), with seats and periods moving in between;
`reconcile_all` is `Reconcile`, which compares the listed status with the provider's
answer now, or `Unavailable`.  `ChangePlan` records a proration in a
savepoint of its own (`RecordFor`), to the cent with ROUND_HALF_UP.
Subscriptions move by single steps here (`Subscribe`, `Moves`, `Renews`); section 5
has them in detail.

### 10.2 Run
`billing_sweeps`: two workspaces, two workers, two plans, a period of four ticks, two periods,
two seats, two changes and one failure; 64,596 states.  Two changes are a renewal
or a divergence while a sweep runs, and the one before it; a failure is a dead run or an
outage.  A period of four ticks with prices 2 and 7 has exact halves, both signs and
both ends of the clock.  It checks `ProrationExact` and `SweepsCatchUp`, which is
`SnapshotTaken` and `DriftFound`.

Fairness: a run that started goes on, and beat fires each job again and again with a
worker there to take it (the beat schedule; a failed run is simply followed by the next).  Failures
are bounded: no sweep catches up with a provider that never answers.  Nothing is
asked of the workspaces or the provider.

### 10.3 Proof
`BillingSweepsProofs` proves `ProrationExact` for any plans, prices, length of period and
moment: `Division` and `Nearest` are the lemmas about the integer division of `Rounded`, and
the sign, the bound and the symmetry follow from them.  The liveness properties are
model-checked only.

## 11. Disagreements

One run shows a disagreement in full.  `failed_hook`: when processing a stored
webhook raises, the view answers 200 and says that "the reconciliation sweep, which
asks Cashfree directly, finishes the job"; the sweep looks at open attempts only, and
the start that won the deadlock may have just closed this one.

Others are stated as formulas beside the code they are about and have no run of their own.
TLC finds each violated when it is named in a configuration with the values given.

| Formula | What a comment or doc says | What the code does | Values |
|---|---|---|---|
| `OnlinePayments!ExpiredNeverSettles` | `properties/models.py`: EXPIRED "cannot settle" | a late capture is credited (useful; the docstring is wrong) | `CheckoutLive.cfg`, PROPERTY |
| `OnlinePayments!UnaskedUnpaid` | `properties/models.py`: EXPIRED is "not paid before expiry" | `reconcile` does not ask about an order its copy has as CREATED: confirmed, paid and run out before the clock is read, it is expired unseen | `CheckoutRace.cfg`, INVARIANT |
| `BillingCycle!IssuedOnRecord` | README: issued bills are immutable history | `filter(pk, status=DRAFT).delete()` is two statements; a publication between them is deleted | `BillingMonth.cfg` with two leases, PROPERTY |
| `BillingCycle!ClosedHasNoDrafts` | `close`: publish or cancel the drafts "before closing" | `generate` tests the status of a cycle it never locks | the same, INVARIANT |
| `Subscriptions!MismatchIsInFlight` | `create_checkout`: refused as "already in flight" | nothing retires the checkout its activation completed, so every upgrade through it is refused | `SubscriptionMoves.cfg`, `Seeds = {}`, `MaxEvents = 1`, no PATCH, one worker |
| `Subscriptions!CanceledIsTerminal` | "CANCELED: set(),  # terminal" | `transition_status` saves an object read without a lock over a cancellation | `SubscriptionMoves.cfg`, `Seeds = {}`, one mandate, PROPERTY |
| `Workspaces!DeletedOwnsNothing` | `users/account.py`: deletion refused when it would orphan a workspace | `create_tenant` locks the user's row without looking at it, so one that waited there for the deletion creates a workspace | `WorkspaceRoles.cfg`, INVARIANT |
| `Accounts!OnlyNewest` | `users/services.py`: repeats "leave only the newest token valid" | two resends invalidate first and issue second, and leave two | `AccountRoster.cfg`, INVARIANT |
| `Leases!LeasesApart` | `properties/models.py`: overlap with ended leases "is checked" | `end` with a later date does not look at the lease that follows | `LeaseCalendar.cfg`, one unit, two leases, one worker, INVARIANT |
| `Charges!BilledAsRead` | `electricity_for_period`: closing is "the latest reading dated within" the period | the closing reading and its opening are two queries: a reading entered or corrected between them, or before the bill is inserted, is not the one billed | `MonthCharges.cfg`, PROPERTY |
| `Charges!RetryReturnsOriginal` | `PaymentService.record`: a retry "returns the original payment" | the key is looked up before the lock: an overlapping retry is refused as an overpayment | `MonthCharges.cfg`, one key, `LastDay = 3`, PROPERTY |

One more is in code that no module models: `PlanManagementService` tests
`external_plan_id` on the row the view read and then calls the provider without a
lock (`platform/services.py`, `sync_plan` in `billing/services.py`): a double click makes two
provider plans, of which the second is kept, although the docstring says that it cannot.

## 12. Not modelled, and only model-checked
Not modelled: the plan catalogue and its synchronisation (one row, edited by
operators; described above); receipts and their numbers; rendered documents and reports;
reminders, notifications and aging (messages and displays: they change nothing that
is modelled, and a unique key refuses duplicates); the browser's session; views and
serializers, except where a view reads what a service later decides about; signatures and
wire formats of providers; audit rows.

Left out as well: the Django admin (`config/urls.py`).  A superuser can edit users,
workspaces, memberships, plans, subscriptions, checkouts and provider events there, row by
row and without the services' locks and checks: remove the last root or the last owner, for
one.  The properties are about the services.

Model-checked only: liveness (`WorkersFinish`, `OpenAttemptsClose`,
`CapturesAccounted`, `EventsSettle`, `SweepsCatchUp`), which needs fairness and `ENABLED`.
Every invariant, every other action property and the refinement that a run checks are
proved for all values of the constants.

Proved only, and part of no run's question: `ChargesProofs!ImplementsAccount` (9.3),
`DeadlocksEnd`, `SpecBillsMove`, `AppliedOnce`, `SpecDeletedIsAlone`, `SpecVerifiedByToken`,
`SpecDeadlocksBroken` and `SpecLeasesMove`; each formula was checked on its run's instance
before it was proved.

## 13. Running
    tlc -workers 2 -config CheckoutRace.cfg MCOnlinePayments
    tlapm OnlinePaymentsProofs.tla

`PROJECT.json` names the module and the configuration of every run and the module
of every theorem.
