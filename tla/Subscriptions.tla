--------------------------- MODULE Subscriptions ---------------------------
(***************************************************************************)
(* A workspace's subscription to Tenora (apps/billing/services.py, the     *)
(* Cashfree adapter, the two PATCH endpoints): a checkout raises a mandate *)
(* at the provider, the owner authorises it there, and the provider's      *)
(* webhooks, stored once and processed inline or by the sweep, create the  *)
(* subscription and move it.                                               *)
(*                                                                         *)
(* Processing locks the event row and then the subscription whose mandate  *)
(* the event names.  When one is found everything is decided and written   *)
(* under that lock: one step.  When none is, the handler looks again       *)
(* without a lock and acts later on what it read, as the PATCH endpoints   *)
(* do: those operations are several steps and carry a copy of the row.     *)
(*                                                                         *)
(* One workspace.  Events are numbered in the order the provider generates *)
(* them, so an event's number is its event_created_at; no two are          *)
(* generated at the same instant.  Left out: events Tenora has no handler  *)
(* for (they change nothing), audit rows, proration records.               *)
(***************************************************************************)
EXTENDS Integers, FiniteSets

CONSTANTS
    Plans,        \* synced plans whose codes have a known tier
    Tier,         \* of each plan: 1 for BASIC, 2 for PRO
    Seeds,        \* plans of subscriptions that predate the provider
    Mandates,     \* provider subscriptions that may come to exist
    MaxEvents,    \* bound: events the provider generates
    MaxMonth,     \* bound: months
    MaxPatches,   \* bound: subscription changes by the owner or an operator
    MaxCrashes,   \* bound: requests or sweeps that die
    Undated,      \* whether a charge may come without its billing period
    Workers,      \* concurrent requests, webhooks and sweeps
    None

ASSUME TierOfPlan == Tier \in [Plans -> 1..2]
ASSUME BoundsAreNat ==
    MaxEvents \in Nat /\ MaxMonth \in Nat /\ MaxPatches \in Nat /\ MaxCrashes \in Nat
ASSUME UndatedIsChoice == Undated \subseteq {TRUE}
ASSUME SeedsArePlans == Seeds \subseteq Plans
ASSUME NoneIsNone ==
    None \notin Plans \cup Mandates \cup Workers \cup Nat \cup {"NONE", "TRIALING", "ACTIVE", "PAST_DUE", "CANCELED"}

VARIABLES
    sub,          \* the Subscription row
    checkout,     \* the SubscriptionCheckout row; plan None before there is one
    lock,         \* the worker whose transaction has the checkout row
    mandate,      \* the provider's subscriptions
    event,        \* webhook deliveries and WebhookEvent rows
    month,        \* the provider's calendar, in billing periods
    worker,       \* what each request, webhook or sweep is doing
    patches, crashes

vars == <<sub, checkout, lock, mandate, event, month, worker, patches, crashes>>

Events == 1..MaxEvents
EventTypes == {"ACTIVATED", "CHARGED", "PAYMENT_TROUBLE", "CANCELLED"}
Statuses == {"TRIALING", "ACTIVE", "PAST_DUE", "CANCELED"}

\* LEGAL_TRANSITIONS.
Legal == [s \in Statuses |->
    CASE s = "TRIALING" -> {"ACTIVE", "CANCELED"}
      [] s = "ACTIVE"   -> {"PAST_DUE", "CANCELED"}
      [] s = "PAST_DUE" -> {"ACTIVE", "CANCELED"}
      [] s = "CANCELED" -> {}]

NoSub == [status |-> "NONE", plan |-> None, ext |-> None, mark |-> 0, period |-> 0]
Seeded(p) == [NoSub EXCEPT !.status = "TRIALING", !.plan = p]
\* mark is last_event_at, 0 for null; period is the current billing period.
SubRow == [status : Statuses \cup {"NONE"}, plan : Plans \cup {None},
           ext : Mandates \cup {None}, mark : Nat, period : Nat]

NoCheckout == [plan |-> None, ext |-> None, confirmed |-> FALSE, stale |-> FALSE]
CheckoutRow == [plan : Plans \cup {None}, ext : Mandates \cup {None},
                confirmed : BOOLEAN, stale : BOOLEAN]

\* session: the checkout link; the owner has it once the checkout is saved.
NoMandate == [state |-> "NONE", plan |-> None, session |-> "none"]
MandateRow == [state : {"NONE", "INITIALIZED", "BANK_APPROVAL_PENDING", "ACTIVE", "ON_HOLD", "CANCELLED"},
               plan : Plans \cup {None}, session : {"none", "made", "open", "lapsed"}]

\* period: the month charged for, None when the payload carries no dates;
\* old: received more than 24 hours ago.
NoEvent == [state |-> "NONE", type |-> None, ext |-> None, period |-> None, old |-> FALSE]
EventRow == [state : {"NONE", "SENT", "STORED", "PROCESSED"}, type : EventTypes \cup {None},
             ext : Mandates \cup {None}, period : Nat \cup {None}, old : BOOLEAN]

Idle == [pc |-> "idle", plan |-> None, mandate |-> None, event |-> None, copy |-> NoSub]
WorkerRow ==
    [pc : {"idle", "start", "create", "save", "confirm", "patch",
           "unmatched", "late", "insert", "converge"},
     plan : Plans \cup {None}, mandate : Mandates \cup {None},
     event : Events \cup {None}, copy : SubRow]

TypeOK ==
    /\ sub \in SubRow
    /\ checkout \in CheckoutRow
    /\ lock \in Workers \cup {None}
    /\ mandate \in [Mandates -> MandateRow]
    /\ event \in [Events -> EventRow]
    /\ month \in Nat
    /\ worker \in [Workers -> WorkerRow]
    /\ patches \in 0..MaxPatches
    /\ crashes \in 0..MaxCrashes

Init ==
    /\ sub \in {NoSub} \cup {Seeded(p) : p \in Seeds}
    /\ checkout = NoCheckout
    /\ lock = None
    /\ mandate = [m \in Mandates |-> NoMandate]
    /\ event = [e \in Events |-> NoEvent]
    /\ month = 0
    /\ worker = [w \in Workers |-> Idle]
    /\ patches = 0
    /\ crashes = 0

Become(w, r) == worker' = [worker EXCEPT ![w] = r]

\* What a worker goes on with.
Starting(p) == [Idle EXCEPT !.pc = "start", !.plan = p]
Confirming == [Idle EXCEPT !.pc = "confirm"]
Patching == [Idle EXCEPT !.pc = "patch", !.copy = sub]
Unmatched(e) == [Idle EXCEPT !.pc = "unmatched", !.event = e]
At(w, pc) == [worker[w] EXCEPT !.pc = pc]
Saving(w, m) == [At(w, "save") EXCEPT !.mandate = m]
Inserting(w) == [At(w, "insert") EXCEPT !.plan = checkout.plan]
Holding(w, pc) == [At(w, pc) EXCEPT !.copy = sub]

-----------------------------------------------------------------------------
(* The provider, and time.                                                 *)

Sent(type, m, period) ==
    [state |-> "SENT", type |-> type, ext |-> m, period |-> period, old |-> FALSE]

\* The next event, about m.
Emit(type, m, period) ==
    \E e \in Events :
        /\ event[e].state = "NONE"
        /\ \A f \in 1..(e - 1) : event[f].state # "NONE"
        /\ event' = [event EXCEPT ![e] = Sent(type, m, period)]

Turn(m, states, state) ==
    /\ mandate[m].state \in states
    /\ mandate' = [mandate EXCEPT ![m].state = state]
    /\ UNCHANGED <<sub, checkout, lock, month, worker, patches, crashes>>

\* The owner completes the provider's page; the bank may take days.
Authorise(m) ==
    /\ mandate[m].session = "open"
    /\ Turn(m, {"INITIALIZED"}, "BANK_APPROVAL_PENDING")
    /\ UNCHANGED event

\* The bank approves, or a mandate on hold is resumed.
Activate(m) ==
    Turn(m, {"BANK_APPROVAL_PENDING", "ON_HOLD"}, "ACTIVE") /\ Emit("ACTIVATED", m, None)

\* A renewal, or a retry of one that failed.
Charge(m) ==
    /\ Turn(m, {"ACTIVE", "ON_HOLD"}, "ACTIVE")
    /\ \E period \in {month} \cup {None : u \in Undated} : Emit("CHARGED", m, period)

ChargeFails(m) ==
    Turn(m, {"ACTIVE", "ON_HOLD"}, "ON_HOLD") /\ Emit("PAYMENT_TROUBLE", m, None)

EndMandate(m) ==
    Turn(m, {"BANK_APPROVAL_PENDING", "ACTIVE", "ON_HOLD"}, "CANCELLED") /\ Emit("CANCELLED", m, None)

\* Deliveries are accepted in any order, or never.
Deliver(e) ==
    /\ event[e].state = "SENT"
    /\ event' = [event EXCEPT ![e].state = "STORED"]
    /\ UNCHANGED <<sub, checkout, lock, mandate, month, worker, patches, crashes>>

\* Checkout links close (CASHFREE_SUBSCRIPTION_SESSION_TTL_MINUTES) and the
\* checkout is as old (SUBSCRIPTION_CHECKOUT_STALE_AFTER_MINUTES).
LinksLapse ==
    /\ mandate' = [m \in Mandates |->
           IF mandate[m].session = "none" THEN mandate[m]
           ELSE [mandate[m] EXCEPT !.session = "lapsed"]]
    /\ checkout' = [checkout EXCEPT !.stale = (checkout.ext # None)]

EventsAge == event' = [e \in Events |->
    IF event[e].state = "STORED" THEN [event[e] EXCEPT !.old = TRUE] ELSE event[e]]

HourPasses ==
    /\ LinksLapse
    /\ UNCHANGED <<sub, lock, event, month, worker, patches, crashes>>

DayPasses ==
    /\ LinksLapse
    /\ EventsAge
    /\ UNCHANGED <<sub, lock, month, worker, patches, crashes>>

MonthPasses ==
    /\ month < MaxMonth
    /\ month' = month + 1
    /\ LinksLapse
    /\ EventsAge
    /\ UNCHANGED <<sub, lock, worker, patches, crashes>>

-----------------------------------------------------------------------------
(* Checkout.                                                               *)

\* StartCheckoutView: the subscription is read before anything is locked.
\* PlanChangePolicy.classify lets only a plan of a higher tier through.
Upgrade(from, to) == Tier[to] > Tier[from]
Startable(p) ==
    sub.status # "CANCELED" /\ (sub.status # "NONE" => Upgrade(sub.plan, p))

StartCheckout(w, p) ==
    /\ worker[w].pc = "idle"
    /\ Startable(p)
    /\ Become(w, Starting(p))
    /\ UNCHANGED <<sub, checkout, lock, mandate, event, month, patches, crashes>>

\* Mutant: the provider is not asked.
StaleIsDead == ~checkout.confirmed /\ checkout.stale
\* _is_abandoned, when the provider can be reached.
Abandoned ==
    /\ ~checkout.confirmed
    /\ checkout.stale
    /\ mandate[checkout.ext].state \in {"NONE", "INITIALIZED", "CANCELLED"}

\* A checkout of the same plan is opened again.
ReuseCheckout(w) ==
    /\ worker[w].pc = "start"
    /\ lock = None
    /\ checkout.ext # None /\ checkout.plan = worker[w].plan
    /\ Become(w, Idle)
    /\ UNCHANGED <<sub, checkout, lock, mandate, event, month, patches, crashes>>

\* CheckoutPlanMismatch.  A provider that cannot be reached counts as a live
\* checkout, so this may happen to an abandoned one too.
RefuseCheckout(w) ==
    /\ worker[w].pc = "start"
    /\ lock = None
    /\ checkout.ext # None /\ checkout.plan # worker[w].plan
    /\ Become(w, Idle)
    /\ UNCHANGED <<sub, checkout, lock, mandate, event, month, patches, crashes>>

\* The row is locked over the provider call.
LockCheckout(w) ==
    /\ worker[w].pc = "start"
    /\ lock = None
    /\ \/ checkout.ext = None
       \/ checkout.plan # worker[w].plan /\ Abandoned
    /\ lock' = w
    /\ Become(w, At(w, "create"))
    /\ UNCHANGED <<sub, checkout, mandate, event, month, patches, crashes>>

Created(p) == [state |-> "INITIALIZED", plan |-> p, session |-> "made"]

CreateMandate(w) ==
    /\ worker[w].pc = "create"
    /\ \E m \in Mandates :
        /\ mandate[m].state = "NONE"
        /\ mandate' = [mandate EXCEPT ![m] = Created(worker[w].plan)]
        /\ Become(w, Saving(w, m))
    /\ UNCHANGED <<sub, checkout, lock, event, month, patches, crashes>>

\* ProviderUnavailable or SubscriberContactRequired: rolled back.
CreateFails(w) ==
    /\ worker[w].pc = "create"
    /\ lock' = None
    /\ Become(w, Idle)
    /\ UNCHANGED <<sub, checkout, mandate, event, month, patches, crashes>>

\* The commit, and the response that hands the owner the link.
SaveCheckout(w) ==
    LET m == worker[w].mandate IN
    /\ worker[w].pc = "save"
    /\ checkout' = [plan |-> worker[w].plan, ext |-> m, confirmed |-> FALSE, stale |-> FALSE]
    /\ mandate' = IF mandate[m].session = "made" THEN [mandate EXCEPT ![m].session = "open"]
                  ELSE mandate
    /\ lock' = None
    /\ Become(w, Idle)
    /\ UNCHANGED <<sub, event, month, patches, crashes>>

\* ConfirmCheckoutView reads the row unlocked and asks the provider, for whom
\* a mandate that was never authorised is PENDING too.
ConfirmCheckout(w) ==
    /\ worker[w].pc = "idle"
    /\ checkout.ext # None /\ ~checkout.confirmed
    /\ mandate[checkout.ext].state \in {"INITIALIZED", "BANK_APPROVAL_PENDING", "ACTIVE"}
    /\ Become(w, Confirming)
    /\ UNCHANGED <<sub, checkout, lock, mandate, event, month, patches, crashes>>

SaveConfirmed(w) ==
    /\ worker[w].pc = "confirm"
    /\ lock = None
    /\ checkout' = [checkout EXCEPT !.confirmed = TRUE, !.stale = FALSE]
    /\ Become(w, Idle)
    /\ UNCHANGED <<sub, lock, mandate, event, month, patches, crashes>>

-----------------------------------------------------------------------------
(* The owner's and the operator's changes: read unlocked, written later.   *)

ReadSubscription(w) ==
    /\ worker[w].pc = "idle"
    /\ sub.status # "NONE"
    /\ patches < MaxPatches
    /\ patches' = patches + 1
    /\ Become(w, Patching)
    /\ UNCHANGED <<sub, checkout, lock, mandate, event, month, crashes>>

TransitionStatus(w) ==
    /\ worker[w].pc = "patch"
    /\ \E status \in Legal[worker[w].copy.status] : sub' = [sub EXCEPT !.status = status]
    /\ Become(w, Idle)
    /\ UNCHANGED <<checkout, lock, mandate, event, month, patches, crashes>>

\* The operator only; the owner's PATCH of the plan changes nothing.
ChangePlan(w) ==
    /\ worker[w].pc = "patch"
    /\ worker[w].copy.status # "CANCELED"
    /\ \E p \in Plans : sub' = [sub EXCEPT !.plan = p]
    /\ Become(w, Idle)
    /\ UNCHANGED <<checkout, lock, mandate, event, month, patches, crashes>>

Refuse(w) ==
    /\ worker[w].pc = "patch"
    /\ Become(w, Idle)
    /\ UNCHANGED <<sub, checkout, lock, mandate, event, month, patches, crashes>>

-----------------------------------------------------------------------------
(* Processing an event (WebhookProcessingService.process_event).           *)

\* Mutant: all the fields are saved.
SaveAll(done, row) == [row EXCEPT !.status = done.status, !.period = done.period]

\* What a handler does to the subscription it read: the fields it writes,
\* None for the ones it does not; applied is FALSE for a no-op.
NoOp == [applied |-> FALSE, status |-> None, period |-> None]
Write(status, period) == [applied |-> TRUE, status |-> status, period |-> period]

HandleActivated(row) ==
    IF row.status \in {"ACTIVE", "CANCELED"} THEN NoOp ELSE Write("ACTIVE", None)

HandleCharged(row, ev) ==
    LET period == IF ev.period = None THEN row.period + 1 ELSE ev.period IN
    IF row.status = "CANCELED" \/ period < row.period THEN NoOp
    ELSE Write(IF row.status = "ACTIVE" THEN None ELSE "ACTIVE", period)

HandleTrouble(row) == IF row.status = "ACTIVE" THEN Write("PAST_DUE", None) ELSE NoOp

HandleCancelled(row) == IF row.status = "CANCELED" THEN NoOp ELSE Write("CANCELED", None)

Handle(row, ev) ==
    CASE ev.type = "ACTIVATED" -> HandleActivated(row)
      [] ev.type = "CHARGED" -> HandleCharged(row, ev)
      [] ev.type = "PAYMENT_TROUBLE" -> HandleTrouble(row)
      [] OTHER -> HandleCancelled(row)

Written(done, row) ==
    [row EXCEPT !.status = IF done.status = None THEN @ ELSE done.status,
                !.period = IF done.period = None THEN @ ELSE done.period]

Stale(e) == event[e].type # "CANCELLED" /\ e < sub.mark
Advance(row, e) == [row EXCEPT !.mark = IF e > @ THEN e ELSE @]

\* Mutants: an event is not marked; a charge is kept for ever; the checkout
\* is the workspace's, or must be CONFIRMED.
NotMarked(e) == UNCHANGED event
NeverGivenUp(e) == FALSE
TenantCheckout(ext) == checkout.ext # None
ConfirmedCheckout(ext) == checkout.ext = ext /\ checkout.confirmed

EventLocked(e) == \E w \in Workers : worker[w].event = e
Processed(e) == event' = [event EXCEPT ![e].state = "PROCESSED"]
GivenUp(e) == event[e].old           \* UNMATCHED_CHARGED_RETRY_WINDOW
CheckoutFor(ext) == checkout.ext = ext

\* The whole transaction, when the event's mandate is the subscription's.
Apply(e) ==
    LET done == Handle(sub, event[e]) IN
    /\ sub' = IF Stale(e) \/ ~done.applied THEN sub ELSE Advance(Written(done, sub), e)
    /\ Processed(e)

\* A first delivery, a redelivery and the sweep are the same: a processed
\* event is skipped.
ProcessMatched(w, e) ==
    /\ worker[w].pc = "idle"
    /\ event[e].state = "STORED" /\ ~EventLocked(e)
    /\ sub.ext = event[e].ext
    /\ Apply(e)
    /\ UNCHANGED <<checkout, lock, mandate, month, worker, patches, crashes>>

ProcessUnmatched(w, e) ==
    /\ worker[w].pc = "idle"
    /\ event[e].state = "STORED" /\ ~EventLocked(e)
    /\ sub.ext # event[e].ext
    /\ Become(w, Unmatched(e))
    /\ UNCHANGED <<sub, checkout, lock, mandate, event, month, patches, crashes>>

\* The handler's own reads.  It may find a subscription by now; a first
\* activation looks for the checkout, a charge is kept for a day, and any
\* other event is done with.
LookAgain(w) ==
    LET e == worker[w].event
        ev == event[e]
        found == sub.ext = ev.ext
    IN
    /\ worker[w].pc = "unmatched"
    /\ \/ /\ found
          /\ Become(w, Holding(w, "late"))
          /\ UNCHANGED event
       \/ /\ ~found /\ ev.type = "ACTIVATED" /\ CheckoutFor(ev.ext)
          /\ Become(w, Inserting(w))
          /\ UNCHANGED event
       \/ /\ ~found
          /\ ev.type = "ACTIVATED" => ~CheckoutFor(ev.ext)
          /\ ev.type = "CHARGED" => GivenUp(e)
          /\ Become(w, Idle)
          /\ Processed(e)
       \/ /\ ~found /\ ev.type = "CHARGED" /\ ~GivenUp(e)
          /\ Become(w, Idle)
          /\ UNCHANGED event
    /\ UNCHANGED <<sub, checkout, lock, mandate, month, patches, crashes>>

\* The mark is not advanced: no subscription was locked.
WriteLate(w) ==
    /\ worker[w].pc = "late"
    /\ sub' = Written(Handle(worker[w].copy, event[worker[w].event]), sub)
    /\ Processed(worker[w].event)
    /\ Become(w, Idle)
    /\ UNCHANGED <<checkout, lock, mandate, month, patches, crashes>>

\* create_subscription and the move to ACTIVE; the one-to-one constraint on
\* the workspace sends a second one to the row that is there.
Insert(w) ==
    LET e == worker[w].event IN
    /\ worker[w].pc = "insert"
    /\ IF sub.status = "NONE"
       THEN /\ sub' = [status |-> "ACTIVE", plan |-> worker[w].plan, ext |-> event[e].ext,
                       mark |-> 0, period |-> month]
            /\ Processed(e)
            /\ Become(w, Idle)
       ELSE /\ Become(w, Holding(w, "converge"))
            /\ UNCHANGED <<sub, event>>
    /\ UNCHANGED <<checkout, lock, mandate, month, patches, crashes>>

\* apply_upgrade and the move to ACTIVE, both from the copy.  An upgrade of a
\* canceled subscription is an illegal transition, which ends the event.
Converged(copy, plan, ext) ==
    LET upgrade == Upgrade(copy.plan, plan) IN
    IF copy.status = "CANCELED" THEN sub
    ELSE [sub EXCEPT !.plan = IF upgrade THEN plan ELSE @,
                     !.ext = IF upgrade THEN ext ELSE @,
                     !.status = IF copy.status = "ACTIVE" THEN @ ELSE "ACTIVE"]

Converge(w) ==
    LET e == worker[w].event IN
    /\ worker[w].pc = "converge"
    /\ sub' = Converged(worker[w].copy, worker[w].plan, event[e].ext)
    /\ Processed(e)
    /\ Become(w, Idle)
    /\ UNCHANGED <<checkout, lock, mandate, month, patches, crashes>>

\* A dead worker's transaction is rolled back; a mandate it made stays.
Crash(w) ==
    /\ worker[w].pc # "idle"
    /\ crashes < MaxCrashes
    /\ crashes' = crashes + 1
    /\ lock' = IF lock = w THEN None ELSE lock
    /\ Become(w, Idle)
    /\ UNCHANGED <<sub, checkout, mandate, event, month, patches>>

-----------------------------------------------------------------------------
Provider ==
    \/ \E m \in Mandates :
        Authorise(m) \/ Activate(m) \/ Charge(m) \/ ChargeFails(m) \/ EndMandate(m)
    \/ \E e \in Events : Deliver(e)
    \/ HourPasses \/ DayPasses \/ MonthPasses

\* A request or sweep that has begun goes on.
Continue(w) ==
    \/ ReuseCheckout(w) \/ RefuseCheckout(w) \/ LockCheckout(w)
    \/ CreateMandate(w) \/ CreateFails(w) \/ SaveCheckout(w) \/ SaveConfirmed(w)
    \/ TransitionStatus(w) \/ ChangePlan(w) \/ Refuse(w)
    \/ LookAgain(w) \/ WriteLate(w) \/ Insert(w) \/ Converge(w)

Begin(w) ==
    \/ \E p \in Plans : StartCheckout(w, p)
    \/ ConfirmCheckout(w)
    \/ ReadSubscription(w)

Process(w, e) == ProcessMatched(w, e) \/ ProcessUnmatched(w, e)

Next ==
    \/ Provider
    \/ \E w \in Workers :
        Begin(w) \/ Continue(w) \/ Crash(w) \/ \E e \in Events : Process(w, e)

Spec == Init /\ [][Next]_vars

\* Requests end; the sweep comes back to every pending event, whatever else
\* the workers do; days pass.  Nothing is asked of the provider or the owner.
Fairness ==
    /\ \A w \in Workers : WF_vars(Continue(w))
    /\ \A e \in Events : SF_vars(\E w \in Workers : Process(w, e))
    /\ WF_vars(DayPasses)
FairSpec == Spec /\ Fairness

-----------------------------------------------------------------------------
(* What is claimed.                                                        *)

\* The provider may take money under m, now or once the owner goes on.
Live(m) ==
    \/ mandate[m].state = "INITIALIZED" /\ mandate[m].session = "open"
    \/ mandate[m].state \in {"BANK_APPROVAL_PENDING", "ACTIVE", "ON_HOLD"}

\* A mandate the owner can still authorise, or has authorised, is the one on
\* the checkout row: double clicks, replaced checkouts, dead requests and
\* slow banks never leave the owner with two mandates, nor with one that
\* Tenora has forgotten (create_checkout, _is_abandoned).
LiveMandateOnRecord == \A m \in Mandates : Live(m) => checkout.ext = m

\* Once the activation of a live mandate is done with, the workspace has a
\* subscription: no order of deliveries, sweeps and crashes discards the
\* activation the owner authorised (_handle_activated).
ActivationSubscribes ==
    \A e \in Events :
        (event[e].state = "PROCESSED" /\ event[e].type = "ACTIVATED" /\ Live(event[e].ext))
            => sub.status # "NONE"

\* Each charge without dates moves the period once, whatever is redelivered,
\* swept or retried: the period is never ahead of the calendar by more than
\* the charges counted (process_event marks and applies in one transaction).
UndatedCounted ==
    {e \in Events : event[e].state = "PROCESSED" /\ event[e].type = "CHARGED" /\ event[e].period = None}
ChargesCountOnce == sub.period <= month + Cardinality(UndatedCounted)

\* The step of a worker that acts on a subscription it read before.
ActsOnCopy(w) ==
    worker[w].pc \in {"patch", "late", "converge"} /\ worker'[w].pc = "idle"

\* The plan changes by an operator, or to the plan of an authorised mandate,
\* which the subscription then bills against: the first one, or an upgrade of
\* the plan that was read.  A checkout, a click, a refused or abandoned
\* upgrade and an activation of a re-pointed checkout change nothing.
PlanIsAuthorised ==
    LET m == sub'.ext IN
    /\ m # None
    /\ mandate[m].state \notin {"NONE", "INITIALIZED"}
    /\ mandate[m].plan = sub'.plan
PlanStep ==
    sub'.plan # sub.plan =>
        \/ \E w \in Workers : ActsOnCopy(w) /\ worker[w].pc = "patch"
        \/ PlanIsAuthorised /\ sub.status = "NONE"
        \/ PlanIsAuthorised
           /\ \E w \in Workers : ActsOnCopy(w) /\ Upgrade(worker[w].copy.plan, sub'.plan)
PaidPlan == [][PlanStep]_vars

\* The status moves by the transition table, from the row or, in the steps
\* that hold no lock, from the copy they read: what is decided under the
\* subscription's lock never leaves CANCELED nor skips a state.
StatusStep ==
    (sub.status # "NONE" /\ sub'.status # sub.status) =>
        \/ sub'.status \in Legal[sub.status]
        \/ \E w \in Workers : ActsOnCopy(w) /\ sub'.status \in Legal[worker[w].copy.status]
LegalMoves == [][StatusStep]_vars

\* The subscription changes by a PATCH or with one event that is marked
\* PROCESSED in the same step, and stays so: redeliveries, the sweep and two
\* workers at once never apply an event twice, nor two of them as one.
Applies(e) == event[e].state = "STORED" /\ event'[e].state = "PROCESSED"
EffectStep ==
    /\ sub' # sub => \/ \E w \in Workers : ActsOnCopy(w) /\ worker[w].pc = "patch"
                     \/ \E e \in Events : Applies(e)
    /\ \A e \in Events : event[e].state = "PROCESSED" => event'[e].state = "PROCESSED"
    /\ \A e, f \in Events : Applies(e) /\ Applies(f) => e = f
EffectsOnce == [][EffectStep]_vars

\* A stored event is not pending for ever: it is applied, found to change
\* nothing, or given up after a day.
EventsSettle ==
    \A e \in Events : event[e].state = "STORED" ~> event[e].state = "PROCESSED"

\* What the comments say and the code does not do.

\* "CANCELED: set(),  # terminal".
CanceledIsTerminal == [][sub.status = "CANCELED" => sub'.status = "CANCELED"]_vars

\* "A checkout for a different plan is already in flight for this tenant":
\* what is refused for that is not the checkout the subscription came from.
MismatchIsInFlight ==
    \A w \in Workers :
        (worker[w].pc = "start" /\ lock = None /\ checkout.ext # None
            /\ checkout.plan # worker[w].plan /\ checkout.stale /\ ~Abandoned)
        => sub.ext # checkout.ext
=============================================================================
