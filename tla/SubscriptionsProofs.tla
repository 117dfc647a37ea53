------------------------ MODULE SubscriptionsProofs ------------------------
(***************************************************************************)
(* Proofs about Subscriptions, for every set of plans, mandates and        *)
(* workers and every bound.  First what the rows a step writes look like,  *)
(* then what a step may do to the mandates, the events and the rows, then  *)
(* the invariants.                                                         *)
(***************************************************************************)
EXTENDS Subscriptions, FiniteSetTheorems, TLAPS

-----------------------------------------------------------------------------
(* Rows.                                                                   *)

LEMMA NoneIsNew ==
    /\ None \notin Plans /\ None \notin Mandates /\ None \notin Workers
    /\ None \notin Events /\ None \notin Statuses /\ None # "NONE"
    /\ Events \subseteq Nat
<1>1. None \notin Nat /\ MaxEvents \in Nat
  BY NoneIsNone, BoundsAreNat
<1>2. Events \subseteq Nat
  BY <1>1 DEF Events
<1>3. QED
  BY <1>1, <1>2, NoneIsNone DEF Statuses

LEMMA NoSubRow == NoSub \in SubRow
  BY DEF NoSub, SubRow

LEMMA Becomes ==
    ASSUME worker \in [Workers -> WorkerRow], NEW w \in Workers, NEW r \in WorkerRow,
           Become(w, r)
    PROVE  /\ worker' \in [Workers -> WorkerRow]
           /\ worker'[w] = r
           /\ \A v \in Workers : v # w => worker'[v] = worker[v]
  BY DEF Become

-----------------------------------------------------------------------------
(* What a handler decides, and what that makes of a subscription.          *)

Done == [applied : BOOLEAN, status : Statuses \cup {None}, period : Nat \cup {None}]

LEMMA NoOpDone == NoOp \in Done /\ NoOp.status = None /\ NoOp.period = None
  BY DEF NoOp, Done

LEMMA WriteDone ==
    ASSUME NEW status \in Statuses \cup {None}, NEW period \in Nat \cup {None}
    PROVE  /\ Write(status, period) \in Done
           /\ Write(status, period).status = status /\ Write(status, period).period = period
  BY DEF Write, Done

LEMMA StatusDone ==
    ASSUME NEW status \in Statuses
    PROVE  /\ Write(status, None) \in Done
           /\ Write(status, None).status = status /\ Write(status, None).period = None
  BY DEF Write, Done

\* The period a charge moves a subscription to.
ChargedFor(row, ev) == IF ev.period = None THEN row.period + 1 ELSE ev.period

\* Whatever is written is a legal transition of the row the handler read.
LEMMA Handled ==
    ASSUME NEW row \in SubRow, NEW ev \in EventRow
    PROVE  LET done == Handle(row, ev) IN
           /\ done \in Done
           /\ (done.status # None /\ row.status # "NONE") => done.status \in Legal[row.status]
           /\ \/ done.period = None
              \/ ev.type = "CHARGED" /\ done.period = ChargedFor(row, ev)
<1> DEFINE done == Handle(row, ev)
<1>0. row.status \in Statuses \cup {"NONE"} /\ row.period \in Nat
  BY DEF SubRow
<1>1. CASE ev.type = "ACTIVATED"
  <2>1. done = HandleActivated(row)
    BY <1>1 DEF Handle
  <2>2. CASE row.status \in {"ACTIVE", "CANCELED"}
    BY <2>1, <2>2, NoOpDone DEF HandleActivated
  <2>3. CASE row.status \notin {"ACTIVE", "CANCELED"}
    <3>1. done = Write("ACTIVE", None)
      BY <2>1, <2>3 DEF HandleActivated
    <3>2. done \in Done /\ done.status = "ACTIVE" /\ done.period = None
      BY <3>1, StatusDone DEF Statuses
    <3>3. row.status # "NONE" => "ACTIVE" \in Legal[row.status]
      BY <1>0, <2>3 DEF Legal, Statuses
    <3>4. QED
      BY <3>2, <3>3
  <2>4. QED
    BY <2>2, <2>3
<1>2. CASE ev.type = "CHARGED"
  <2> DEFINE period == IF ev.period = None THEN row.period + 1 ELSE ev.period
  <2>1. done = HandleCharged(row, ev)
    BY <1>2 DEF Handle
  <2>2. period \in Nat
    BY <1>0 DEF EventRow
  <2>3. CASE row.status = "CANCELED" \/ period < row.period
    BY <2>1, <2>3, NoOpDone DEF HandleCharged
  <2>4. CASE ~(row.status = "CANCELED" \/ period < row.period)
    <3> DEFINE status == IF row.status = "ACTIVE" THEN None ELSE "ACTIVE"
    <3>1. done = Write(status, period)
      BY <2>1, <2>4 DEF HandleCharged
    <3>2. status \in Statuses \cup {None}
      BY DEF Statuses
    <3>0. period = ChargedFor(row, ev)
      BY DEF ChargedFor
    <3>3. (status # None /\ row.status # "NONE") => status \in Legal[row.status]
      BY <1>0, <2>4 DEF Legal, Statuses
    <3> HIDE DEF period, status
    <3>4. done \in Done /\ done.status = status /\ done.period = period
      BY <3>1, <3>2, <2>2, WriteDone
    <3>5. QED
      BY <1>2, <3>0, <3>3, <3>4
  <2>5. QED
    BY <2>3, <2>4
<1>3. CASE ev.type = "PAYMENT_TROUBLE"
  <2>1. done = HandleTrouble(row)
    BY <1>3 DEF Handle
  <2>2. CASE row.status # "ACTIVE"
    BY <2>1, <2>2, NoOpDone DEF HandleTrouble
  <2>3. CASE row.status = "ACTIVE"
    <3>1. done = Write("PAST_DUE", None)
      BY <2>1, <2>3 DEF HandleTrouble
    <3>2. done \in Done /\ done.status = "PAST_DUE" /\ done.period = None
      BY <3>1, StatusDone DEF Statuses
    <3>3. "PAST_DUE" \in Legal[row.status]
      BY <2>3 DEF Legal, Statuses
    <3>4. QED
      BY <3>2, <3>3
  <2>4. QED
    BY <2>2, <2>3
<1>4. CASE ev.type \notin {"ACTIVATED", "CHARGED", "PAYMENT_TROUBLE"}
  <2>1. done = HandleCancelled(row)
    BY <1>4 DEF Handle
  <2>2. CASE row.status = "CANCELED"
    BY <2>1, <2>2, NoOpDone DEF HandleCancelled
  <2>3. CASE row.status # "CANCELED"
    <3>1. done = Write("CANCELED", None)
      BY <2>1, <2>3 DEF HandleCancelled
    <3>2. done \in Done /\ done.status = "CANCELED" /\ done.period = None
      BY <3>1, StatusDone DEF Statuses
    <3>3. row.status # "NONE" => "CANCELED" \in Legal[row.status]
      BY <1>0, <2>3 DEF Legal, Statuses
    <3>4. QED
      BY <3>2, <3>3
  <2>4. QED
    BY <2>2, <2>3
<1>5. QED
  BY <1>1, <1>2, <1>3, <1>4

LEMMA WrittenRow ==
    ASSUME NEW row \in SubRow, NEW done \in Done
    PROVE  LET r == Written(done, row) IN
           /\ r \in SubRow
           /\ r.plan = row.plan /\ r.ext = row.ext /\ r.mark = row.mark
           /\ r.status = IF done.status = None THEN row.status ELSE done.status
           /\ r.period = IF done.period = None THEN row.period ELSE done.period
           /\ row.status # "NONE" => r.status # "NONE"
  BY DEF Written, Done, SubRow, Statuses

LEMMA AdvancedRow ==
    ASSUME NEW row \in SubRow, NEW e \in Events
    PROVE  LET r == Advance(row, e) IN
           /\ r \in SubRow
           /\ r.plan = row.plan /\ r.ext = row.ext /\ r.status = row.status /\ r.period = row.period
  BY NoneIsNew DEF Advance, SubRow

\* The upgrade an activation makes of the subscription it found.
LEMMA ConvergedRow ==
    ASSUME sub \in SubRow, NEW copy \in SubRow, NEW plan \in Plans \cup {None},
           NEW ext \in Mandates \cup {None},
           NEW r, r = Converged(copy, plan, ext)
    PROVE  /\ r \in SubRow /\ r.mark = sub.mark /\ r.period = sub.period
           /\ \/ r.plan = sub.plan /\ r.ext = sub.ext
              \/ r.plan = plan /\ r.ext = ext /\ Upgrade(copy.plan, plan)
           /\ \/ r.status = sub.status
              \/ r.status = "ACTIVE" /\ copy.status \notin {"ACTIVE", "CANCELED"}
<1>1. CASE copy.status = "CANCELED"
  BY <1>1 DEF Converged
<1> DEFINE status == IF copy.status = "ACTIVE" THEN sub.status ELSE "ACTIVE"
<1>0. status \in Statuses \cup {"NONE"}
  BY DEF SubRow, Statuses
<1>2. CASE copy.status # "CANCELED" /\ ~Upgrade(copy.plan, plan)
  <2>1. r = [sub EXCEPT !.status = status]
    BY <1>2 DEF Converged, SubRow
  <2>2. r \in SubRow /\ r.mark = sub.mark /\ r.period = sub.period /\ r.plan = sub.plan
        /\ r.ext = sub.ext /\ r.status = status
    <3> HIDE DEF status
    <3>1. QED
      BY <2>1, <1>0 DEF SubRow
  <2>3. QED
    BY <1>2, <2>2
<1>3. CASE copy.status # "CANCELED" /\ Upgrade(copy.plan, plan)
  <2>1. r = [sub EXCEPT !.plan = plan, !.ext = ext, !.status = status]
    BY <1>3 DEF Converged, SubRow
  <2>2. r \in SubRow /\ r.mark = sub.mark /\ r.period = sub.period /\ r.plan = plan
        /\ r.ext = ext /\ r.status = status
    <3> HIDE DEF status
    <3>1. QED
      BY <2>1, <1>0 DEF SubRow
  <2>3. QED
    BY <1>3, <2>2
<1>4. QED
  BY <1>1, <1>2, <1>3

-----------------------------------------------------------------------------
(* What a step may do.  Each action is one of the kinds below; the         *)
(* invariants are proved about the kinds.                                  *)

Handling == {"unmatched", "late", "insert", "converge"}
Sound(r) ==
    /\ r.pc \in Handling => r.event \in Events
    /\ r.pc = "save" => r.mandate \in Mandates
    /\ r.pc = "patch" => r.copy.status \in Statuses
Typed ==
    /\ TypeOK
    /\ \A w \in Workers : Sound(worker[w])

\* w goes on with a row that holds no event and no copy.
Others(w) == \A v \in Workers : v # w => worker'[v] = worker[v]
Rested(w, pcs) ==
    /\ Others(w)
    /\ worker'[w].pc \in pcs /\ worker'[w].event = None /\ worker'[w].copy = NoSub
Carried(w) ==
    /\ Others(w)
    /\ worker'[w].event = worker[w].event

\* e goes from a state to another; nothing else of an event changes.
SameEvent(e) ==
    /\ event'[e].type = event[e].type /\ event'[e].ext = event[e].ext
    /\ event'[e].period = event[e].period
EventDone(e) ==
    /\ event'[e].state = "PROCESSED" /\ SameEvent(e)
    /\ \A f \in Events : f # e => event'[f] = event[f]

Emitted(m) ==
    \E e \in Events :
        /\ event[e].state = "NONE"
        /\ event'[e].state = "SENT" /\ event'[e].ext = m
        /\ event'[e].type = "ACTIVATED" => mandate'[m].state = "ACTIVE"
        /\ event'[e].period \in {None, month}
        /\ \A f \in Events : f # e => event'[f] = event[f]
Turned(m) ==
    /\ Live(m)
    /\ mandate[m].state # "NONE"
    /\ mandate'[m].state \in {"BANK_APPROVAL_PENDING", "ACTIVE", "ON_HOLD", "CANCELLED"}
    /\ mandate'[m].plan = mandate[m].plan /\ mandate'[m].session = mandate[m].session
    /\ \A n \in Mandates : n # m => mandate'[n] = mandate[n]
    /\ event' = event \/ Emitted(m)
    /\ UNCHANGED <<sub, checkout, lock, month, worker>>
Delivered ==
    /\ \A e \in Events :
        /\ SameEvent(e)
        /\ \/ event'[e].state = event[e].state
           \/ event[e].state = "SENT" /\ event'[e].state = "STORED"
    /\ UNCHANGED <<sub, checkout, lock, mandate, month, worker>>
Lapsed ==
    /\ \A m \in Mandates :
        /\ mandate'[m].state = mandate[m].state /\ mandate'[m].plan = mandate[m].plan
        /\ mandate'[m].session \in {"none", "lapsed"}
    /\ checkout'.ext = checkout.ext /\ checkout'.plan = checkout.plan
    /\ \A e \in Events : SameEvent(e) /\ event'[e].state = event[e].state
    /\ month' \in {month, month + 1}
    /\ UNCHANGED <<sub, lock, worker>>

\* A request begins, ends or dies without having changed a row.
Rests(w) ==
    /\ Rested(w, {"idle", "start", "confirm"})
    /\ lock' = lock \/ (lock' = None /\ (lock = w \/ worker[w].pc = "create"))
    /\ UNCHANGED <<sub, checkout, mandate, event, month>>
Reads(w) ==
    /\ Others(w)
    /\ worker'[w].pc = "patch" /\ worker'[w].event = None /\ worker'[w].copy = sub
    /\ sub.status # "NONE"
    /\ UNCHANGED <<sub, checkout, lock, mandate, event, month>>
Locks(w) ==
    /\ Carried(w)
    /\ worker[w].pc = "start" /\ worker'[w].pc = "create" /\ worker'[w].copy = worker[w].copy
    /\ lock = None /\ lock' = w
    /\ checkout.ext = None \/ Abandoned
    /\ UNCHANGED <<sub, checkout, mandate, event, month>>
Creates(w, m) ==
    /\ Carried(w)
    /\ worker[w].pc = "create" /\ worker'[w].pc = "save" /\ worker'[w].copy = worker[w].copy
    /\ worker'[w].plan = worker[w].plan /\ worker'[w].mandate = m
    /\ mandate[m].state = "NONE"
    /\ mandate'[m].state = "INITIALIZED" /\ mandate'[m].session = "made"
    /\ mandate'[m].plan = worker[w].plan
    /\ \A n \in Mandates : n # m => mandate'[n] = mandate[n]
    /\ UNCHANGED <<sub, checkout, lock, event, month>>
Saves(w) ==
    /\ Rested(w, {"idle"})
    /\ worker[w].pc = "save"
    /\ checkout'.plan = worker[w].plan /\ checkout'.ext = worker[w].mandate /\ checkout'.stale = FALSE
    /\ LET m == worker[w].mandate IN
        /\ mandate'[m].state = mandate[m].state /\ mandate'[m].plan = mandate[m].plan
        /\ \A n \in Mandates : n # m => mandate'[n] = mandate[n]
    /\ lock' = None
    /\ UNCHANGED <<sub, event, month>>
Confirms(w) ==
    /\ Rested(w, {"idle"})
    /\ checkout'.ext = checkout.ext /\ checkout'.plan = checkout.plan /\ checkout'.stale = FALSE
    /\ UNCHANGED <<sub, lock, mandate, event, month>>
Changes(w) ==
    /\ Rested(w, {"idle"})
    /\ worker[w].pc = "patch"
    /\ sub'.ext = sub.ext /\ sub'.period = sub.period
    /\ \/ sub'.plan = sub.plan /\ sub'.status \in Legal[worker[w].copy.status]
       \/ sub'.status = sub.status
    /\ UNCHANGED <<checkout, lock, mandate, event, month>>

\* What a handler that read row wrote for e.
Handles(row, e) ==
    /\ sub'.plan = sub.plan /\ sub'.ext = sub.ext
    /\ \/ sub'.status = sub.status
       \/ row.status # "NONE" => sub'.status \in Legal[row.status]
    /\ sub.status # "NONE" => sub'.status # "NONE"
    /\ \/ sub'.period = sub.period
       \/ event[e].type = "CHARGED" /\ sub'.period = ChargedFor(row, event[e])
Matches(e) ==
    /\ event[e].state = "STORED" /\ ~EventLocked(e)
    /\ sub.ext = event[e].ext
    /\ Handles(sub, e)
    /\ EventDone(e)
    /\ UNCHANGED <<checkout, lock, mandate, month, worker>>
Takes(w, e) ==
    /\ Others(w)
    /\ worker'[w].pc = "unmatched" /\ worker'[w].event = e /\ worker'[w].copy = NoSub
    /\ event[e].state = "STORED" /\ ~EventLocked(e)
    /\ UNCHANGED <<sub, checkout, lock, mandate, event, month>>
Finds(w) ==
    /\ Carried(w)
    /\ worker[w].pc = "unmatched" /\ worker'[w].pc = "late" /\ worker'[w].copy = sub
    /\ sub.ext = event[worker[w].event].ext
    /\ UNCHANGED <<sub, checkout, lock, mandate, event, month>>
FindsCheckout(w) ==
    /\ Carried(w)
    /\ worker[w].pc = "unmatched" /\ worker'[w].pc = "insert" /\ worker'[w].copy = worker[w].copy
    /\ worker'[w].plan = checkout.plan
    /\ event[worker[w].event].type = "ACTIVATED" /\ checkout.ext = event[worker[w].event].ext
    /\ UNCHANGED <<sub, checkout, lock, mandate, event, month>>
Drops(w) ==
    /\ Rested(w, {"idle"})
    /\ worker[w].pc = "unmatched"
    /\ event[worker[w].event].type = "ACTIVATED" => checkout.ext # event[worker[w].event].ext
    /\ EventDone(worker[w].event)
    /\ UNCHANGED <<sub, checkout, lock, mandate, month>>
HandlesLate(w) ==
    /\ Rested(w, {"idle"})
    /\ worker[w].pc = "late"
    /\ Handles(worker[w].copy, worker[w].event)
    /\ EventDone(worker[w].event)
    /\ UNCHANGED <<checkout, lock, mandate, month>>
Inserts(w) ==
    /\ Rested(w, {"idle"})
    /\ worker[w].pc = "insert"
    /\ sub.status = "NONE"
    /\ sub'.status = "ACTIVE" /\ sub'.plan = worker[w].plan /\ sub'.period = month
    /\ sub'.ext = event[worker[w].event].ext
    /\ EventDone(worker[w].event)
    /\ UNCHANGED <<checkout, lock, mandate, month>>
Collides(w) ==
    /\ Carried(w)
    /\ worker[w].pc = "insert" /\ worker'[w].pc = "converge"
    /\ worker'[w].plan = worker[w].plan /\ worker'[w].copy = sub
    /\ sub.status # "NONE"
    /\ UNCHANGED <<sub, checkout, lock, mandate, event, month>>
Converges(w) ==
    /\ Rested(w, {"idle"})
    /\ worker[w].pc = "converge"
    /\ sub'.period = sub.period
    /\ \/ sub'.plan = sub.plan /\ sub'.ext = sub.ext
       \/ /\ sub'.plan = worker[w].plan /\ sub'.ext = event[worker[w].event].ext
          /\ Upgrade(worker[w].copy.plan, worker[w].plan)
    /\ \/ sub'.status = sub.status
       \/ sub'.status = "ACTIVE" /\ worker[w].copy.status \notin {"ACTIVE", "CANCELED"}
    /\ EventDone(worker[w].event)
    /\ UNCHANGED <<checkout, lock, mandate, month>>

Kept == UNCHANGED <<sub, checkout, lock, mandate, event, month, worker>>
KindOfWorker(w) ==
    \/ Rests(w) \/ Reads(w) \/ Locks(w) \/ (\E m \in Mandates : Creates(w, m)) \/ Saves(w)
    \/ Confirms(w) \/ Changes(w)
    \/ (\E e \in Events : Takes(w, e)) \/ Finds(w) \/ FindsCheckout(w) \/ Drops(w)
    \/ HandlesLate(w) \/ Inserts(w) \/ Collides(w) \/ Converges(w)
Kind ==
    \/ Kept \/ (\E m \in Mandates : Turned(m)) \/ Delivered \/ Lapsed
    \/ (\E e \in Events : Matches(e)) \/ (\E w \in Workers : KindOfWorker(w))

LEMMA EmitKind ==
    ASSUME Typed, NEW type \in EventTypes, NEW m \in Mandates, NEW period \in {None, month},
           Emit(type, m, period), type = "ACTIVATED" => mandate'[m].state = "ACTIVE"
    PROVE  event' \in [Events -> EventRow] /\ Emitted(m)
<1>1. PICK e \in Events :
        event[e].state = "NONE" /\ event' = [event EXCEPT ![e] = Sent(type, m, period)]
  BY DEF Emit
<1> DEFINE r == Sent(type, m, period)
<1>2. event \in [Events -> EventRow] /\ month \in Nat
  BY DEF Typed, TypeOK
<1>3. r \in EventRow /\ r.state = "SENT" /\ r.ext = m /\ r.type = type /\ r.period = period
  BY <1>2 DEF Sent, EventRow
<1> HIDE DEF r
<1>4. event'[e] = r /\ \A f \in Events : f # e => event'[f] = event[f]
  BY <1>1, <1>2 DEF r
<1>5. event' \in [Events -> EventRow]
  BY <1>1, <1>2, <1>3 DEF r
<1>6. QED
  BY <1>1, <1>3, <1>4, <1>5 DEF Emitted

LEMMA TurnKind ==
    ASSUME Typed, NEW m \in Mandates, NEW states,
           NEW state \in {"BANK_APPROVAL_PENDING", "ACTIVE", "ON_HOLD", "CANCELLED"},
           Turn(m, states, state), Live(m),
           event' \in [Events -> EventRow], event' = event \/ Emitted(m)
    PROVE  Typed' /\ Turned(m)
<1>1. mandate \in [Mandates -> MandateRow]
  BY DEF Typed, TypeOK
<1>2. mandate' = [mandate EXCEPT ![m].state = state]
  BY DEF Turn
<1>3. /\ mandate' \in [Mandates -> MandateRow]
      /\ mandate'[m].state = state
      /\ mandate'[m].plan = mandate[m].plan /\ mandate'[m].session = mandate[m].session
      /\ \A n \in Mandates : n # m => mandate'[n] = mandate[n]
  BY <1>1, <1>2 DEF MandateRow
<1>4. UNCHANGED <<sub, checkout, lock, month, worker, patches, crashes>>
  BY DEF Turn
<1>5. Typed'
  BY <1>3, <1>4 DEF Typed, TypeOK
<1>6. mandate[m].state # "NONE"
  BY DEF Live
<1>7. QED
  BY <1>3, <1>4, <1>5, <1>6 DEF Turned

\* The provider's actions.
LEMMA MandateKind ==
    ASSUME Typed, NEW m \in Mandates,
           Authorise(m) \/ Activate(m) \/ Charge(m) \/ ChargeFails(m) \/ EndMandate(m)
    PROVE  Typed' /\ Turned(m)
<1>0. event \in [Events -> EventRow] /\ mandate \in [Mandates -> MandateRow] /\ month \in Nat
  BY DEF Typed, TypeOK
<1>1. CASE Authorise(m)
  <2>1. Live(m) /\ event' = event /\ Turn(m, {"INITIALIZED"}, "BANK_APPROVAL_PENDING")
    BY <1>1 DEF Authorise, Turn, Live
  <2>2. QED
    BY <1>0, <2>1, TurnKind
<1>2. CASE Activate(m)
  <2>1. /\ Live(m) /\ Emit("ACTIVATED", m, None)
        /\ Turn(m, {"BANK_APPROVAL_PENDING", "ON_HOLD"}, "ACTIVE")
    BY <1>2 DEF Activate, Turn, Live
  <2>2. mandate'[m].state = "ACTIVE"
    BY <1>0, <2>1 DEF Turn, MandateRow
  <2>3. event' \in [Events -> EventRow] /\ Emitted(m)
    BY <2>1, <2>2, EmitKind DEF EventTypes
  <2>4. QED
    BY <2>1, <2>3, TurnKind
<1>3. CASE Charge(m)
  <2>1. Live(m) /\ Turn(m, {"ACTIVE", "ON_HOLD"}, "ACTIVE")
    BY <1>3 DEF Charge, Turn, Live
  <2>2. PICK period \in {None, month} : Emit("CHARGED", m, period)
    BY <1>3 DEF Charge
  <2>3. event' \in [Events -> EventRow] /\ Emitted(m)
    BY <2>2, EmitKind DEF EventTypes
  <2>4. QED
    BY <2>1, <2>3, TurnKind
<1>4. CASE ChargeFails(m)
  <2>1. /\ Live(m) /\ Emit("PAYMENT_TROUBLE", m, None)
        /\ Turn(m, {"ACTIVE", "ON_HOLD"}, "ON_HOLD")
    BY <1>4 DEF ChargeFails, Turn, Live
  <2>2. event' \in [Events -> EventRow] /\ Emitted(m)
    BY <2>1, EmitKind DEF EventTypes
  <2>3. QED
    BY <2>1, <2>2, TurnKind
<1>5. CASE EndMandate(m)
  <2>1. /\ Live(m) /\ Emit("CANCELLED", m, None)
        /\ Turn(m, {"BANK_APPROVAL_PENDING", "ACTIVE", "ON_HOLD"}, "CANCELLED")
    BY <1>5 DEF EndMandate, Turn, Live
  <2>2. event' \in [Events -> EventRow] /\ Emitted(m)
    BY <2>1, EmitKind DEF EventTypes
  <2>3. QED
    BY <2>1, <2>2, TurnKind
<1>6. QED
  BY <1>1, <1>2, <1>3, <1>4, <1>5

LEMMA EventMoves ==
    ASSUME Typed, NEW e \in Events, NEW state \in {"STORED", "PROCESSED"},
           event' = [event EXCEPT ![e].state = state]
    PROVE  /\ event' \in [Events -> EventRow]
           /\ event'[e].state = state /\ SameEvent(e)
           /\ \A f \in Events : f # e => event'[f] = event[f]
  BY DEF Typed, TypeOK, EventRow, SameEvent

LEMMA DeliverKind ==
    ASSUME Typed, NEW e \in Events, Deliver(e)
    PROVE  Typed' /\ Delivered
<1>1. /\ event' \in [Events -> EventRow]
      /\ event'[e].state = "STORED" /\ SameEvent(e)
      /\ \A f \in Events : f # e => event'[f] = event[f]
  BY EventMoves DEF Deliver
<1>2. \A f \in Events : f # e => SameEvent(f)
  BY <1>1 DEF SameEvent
<1>3. Delivered
  <2>1. \A f \in Events :
          event'[f].state = event[f].state \/ (event[f].state = "SENT" /\ event'[f].state = "STORED")
    BY <1>1 DEF Deliver
  <2>2. \A f \in Events : SameEvent(f)
    BY <1>1, <1>2
  <2>3. UNCHANGED <<sub, checkout, lock, mandate, month, worker>>
    BY DEF Deliver
  <2>4. QED
    BY <2>1, <2>2, <2>3 DEF Delivered
<1>4. Typed'
  BY <1>1 DEF Typed, TypeOK, Deliver
<1>5. QED
  BY <1>3, <1>4

LEMMA LapseKind ==
    ASSUME Typed, HourPasses \/ DayPasses \/ MonthPasses
    PROVE  Typed' /\ Lapsed
<1>0. /\ mandate \in [Mandates -> MandateRow] /\ event \in [Events -> EventRow]
      /\ checkout \in CheckoutRow /\ month \in Nat
  BY DEF Typed, TypeOK
<1>1. LinksLapse /\ (UNCHANGED event \/ EventsAge) /\ month' \in {month, month + 1}
      /\ UNCHANGED <<sub, lock, worker, patches, crashes>>
  BY DEF HourPasses, DayPasses, MonthPasses
<1>2. \A m \in Mandates : LET r == mandate[m] IN
        /\ [r EXCEPT !.session = "lapsed"] \in MandateRow
        /\ [r EXCEPT !.session = "lapsed"].state = r.state
        /\ [r EXCEPT !.session = "lapsed"].plan = r.plan
        /\ [r EXCEPT !.session = "lapsed"].session = "lapsed"
  BY <1>0 DEF MandateRow
<1>3. /\ mandate' \in [Mandates -> MandateRow]
      /\ \A m \in Mandates :
          /\ mandate'[m].state = mandate[m].state /\ mandate'[m].plan = mandate[m].plan
          /\ mandate'[m].session \in {"none", "lapsed"}
  BY <1>0, <1>1, <1>2 DEF LinksLapse
<1>4. checkout' \in CheckoutRow /\ checkout'.ext = checkout.ext /\ checkout'.plan = checkout.plan
  <2> DEFINE stale == (checkout.ext # None)
  <2>1. checkout' = [checkout EXCEPT !.stale = stale] /\ stale \in BOOLEAN
    BY <1>1 DEF LinksLapse
  <2> HIDE DEF stale
  <2>2. QED
    BY <1>0, <2>1 DEF CheckoutRow
<1>5. event' \in [Events -> EventRow] /\ \A e \in Events : SameEvent(e) /\ event'[e].state = event[e].state
  <2>1. CASE UNCHANGED event
    BY <1>0, <2>1 DEF SameEvent
  <2>2. CASE EventsAge
    <3>1. \A e \in Events : LET r == event[e] IN
            /\ [r EXCEPT !.old = TRUE] \in EventRow
            /\ [r EXCEPT !.old = TRUE].state = r.state
            /\ [r EXCEPT !.old = TRUE].type = r.type
            /\ [r EXCEPT !.old = TRUE].ext = r.ext
            /\ [r EXCEPT !.old = TRUE].period = r.period
      BY <1>0 DEF EventRow
    <3>2. QED
      BY <1>0, <2>2, <3>1 DEF EventsAge, SameEvent
  <2>3. QED
    BY <1>1, <2>1, <2>2
<1>6. Typed'
  <2>1. month' \in Nat
    BY <1>0, <1>1
  <2>2. QED
    BY <1>1, <1>3, <1>4, <1>5, <2>1 DEF Typed, TypeOK
<1>7. Lapsed
  BY <1>1, <1>3, <1>4, <1>5 DEF Lapsed
<1>8. QED
  BY <1>6, <1>7

-----------------------------------------------------------------------------
(* The workers' actions.                                                   *)

\* A worker's next row leaves the workers typed.
LEMMA WorkersTyped ==
    ASSUME Typed, NEW w \in Workers, NEW r \in WorkerRow, Become(w, r),
           Sound(r)
    PROVE  /\ worker' \in [Workers -> WorkerRow]
           /\ worker'[w] = r /\ Others(w)
           /\ \A v \in Workers : Sound(worker'[v])
<1>1. worker \in [Workers -> WorkerRow]
  BY DEF Typed, TypeOK
<1>2. /\ worker' \in [Workers -> WorkerRow] /\ worker'[w] = r
      /\ \A v \in Workers : v # w => worker'[v] = worker[v]
  BY <1>1, Becomes
<1>3. QED
  BY <1>2 DEF Others, Typed

LEMMA RestRows ==
    ASSUME Typed
    PROVE  /\ Idle \in WorkerRow /\ Idle.pc = "idle"
           /\ Idle.event = None /\ Idle.copy = NoSub
           /\ \A p \in Plans :
               /\ Starting(p) \in WorkerRow /\ Starting(p).pc = "start"
               /\ Starting(p).event = None /\ Starting(p).copy = NoSub
           /\ Confirming \in WorkerRow /\ Confirming.pc = "confirm"
           /\ Confirming.event = None /\ Confirming.copy = NoSub
           /\ Patching \in WorkerRow /\ Patching.pc = "patch"
           /\ Patching.event = None /\ Patching.copy = sub
           /\ \A e \in Events :
               /\ Unmatched(e) \in WorkerRow /\ Unmatched(e).pc = "unmatched"
               /\ Unmatched(e).event = e /\ Unmatched(e).copy = NoSub
<1>1. sub \in SubRow
  BY DEF Typed, TypeOK
<1>2. Idle \in WorkerRow /\ Idle.pc = "idle" /\ Idle.event = None /\ Idle.copy = NoSub
  BY NoSubRow DEF Idle, WorkerRow
<1>3. \A p \in Plans :
        /\ Starting(p) \in WorkerRow /\ Starting(p).pc = "start"
        /\ Starting(p).event = None /\ Starting(p).copy = NoSub
  BY NoSubRow DEF Starting, Idle, WorkerRow
<1>4. /\ Confirming \in WorkerRow /\ Confirming.pc = "confirm"
      /\ Confirming.event = None /\ Confirming.copy = NoSub
  BY NoSubRow DEF Confirming, Idle, WorkerRow
<1>5. /\ Patching \in WorkerRow /\ Patching.pc = "patch"
      /\ Patching.event = None /\ Patching.copy = sub
  BY <1>1, NoSubRow DEF Patching, Idle, WorkerRow
<1>6. \A e \in Events :
        /\ Unmatched(e) \in WorkerRow /\ Unmatched(e).pc = "unmatched"
        /\ Unmatched(e).event = e /\ Unmatched(e).copy = NoSub
  BY NoSubRow DEF Unmatched, Idle, WorkerRow
<1>7. QED
  BY <1>2, <1>3, <1>4, <1>5, <1>6

LEMMA NextRows ==
    ASSUME Typed, NEW w \in Workers
    PROVE  /\ LET r == At(w, "create") IN
               /\ r \in WorkerRow /\ r.pc = "create"
               /\ r.event = worker[w].event /\ r.copy = worker[w].copy
           /\ \A m \in Mandates : LET r == Saving(w, m) IN
               /\ r \in WorkerRow /\ r.pc = "save" /\ r.mandate = m
               /\ r.plan = worker[w].plan /\ r.event = worker[w].event /\ r.copy = worker[w].copy
           /\ LET r == Inserting(w) IN
               /\ r \in WorkerRow /\ r.pc = "insert" /\ r.plan = checkout.plan
               /\ r.event = worker[w].event /\ r.copy = worker[w].copy
           /\ \A pc \in {"late", "converge"} : LET r == Holding(w, pc) IN
               /\ r \in WorkerRow /\ r.pc = pc /\ r.plan = worker[w].plan
               /\ r.event = worker[w].event /\ r.copy = sub
<1>1. sub \in SubRow /\ checkout \in CheckoutRow /\ worker[w] \in WorkerRow
  BY DEF Typed, TypeOK
<1>2. QED
  BY <1>1 DEF At, Saving, Inserting, Holding, WorkerRow, CheckoutRow

\* A worker that changes no row.
LEMMA Becoming ==
    ASSUME Typed, NEW w \in Workers, NEW r \in WorkerRow, Become(w, r),
           Sound(r),
           lock' \in Workers \cup {None}, patches' \in 0..MaxPatches, crashes' \in 0..MaxCrashes,
           UNCHANGED <<sub, checkout, mandate, event, month>>
    PROVE  Typed' /\ worker'[w] = r /\ Others(w)
<1>1. /\ worker' \in [Workers -> WorkerRow]
      /\ worker'[w] = r /\ Others(w)
      /\ \A v \in Workers : Sound(worker'[v])
  BY WorkersTyped
<1>2. QED
  BY <1>1 DEF Typed, TypeOK

LEMMA CountersTyped ==
    ASSUME Typed
    PROVE  patches \in 0..MaxPatches /\ crashes \in 0..MaxCrashes /\ lock \in Workers \cup {None}
  BY DEF Typed, TypeOK

LEMMA RestKind ==
    ASSUME Typed, NEW w \in Workers,
           \/ \E p \in Plans : StartCheckout(w, p)
           \/ ConfirmCheckout(w) \/ ReuseCheckout(w) \/ RefuseCheckout(w)
           \/ CreateFails(w) \/ Refuse(w) \/ Crash(w)
    PROVE  Typed' /\ Rests(w)
<1>1. /\ UNCHANGED <<sub, checkout, mandate, event, month>>
      /\ patches' = patches /\ crashes' \in {crashes} \cup {c \in {crashes + 1} : crashes < MaxCrashes}
      /\ lock' = lock \/ (lock' = None /\ (lock = w \/ worker[w].pc = "create"))
  BY DEF StartCheckout, ConfirmCheckout, ReuseCheckout, RefuseCheckout, CreateFails, Refuse, Crash
<1>2. PICK r \in {Idle, Confirming} \cup {Starting(p) : p \in Plans} : Become(w, r)
  BY DEF StartCheckout, ConfirmCheckout, ReuseCheckout, RefuseCheckout, CreateFails, Refuse, Crash
<1>3. r \in WorkerRow /\ r.pc \in {"idle", "start", "confirm"} /\ r.event = None /\ r.copy = NoSub
  BY RestRows
<1>4. lock' \in Workers \cup {None} /\ patches' \in 0..MaxPatches /\ crashes' \in 0..MaxCrashes
  BY <1>1, CountersTyped, BoundsAreNat
<1>5. Typed' /\ worker'[w] = r /\ Others(w)
  BY <1>1, <1>2, <1>3, <1>4, Becoming DEF Handling, Sound
<1>6. QED
  BY <1>1, <1>3, <1>5 DEF Rests, Rested

LEMMA ReadKind ==
    ASSUME Typed, NEW w \in Workers, ReadSubscription(w)
    PROVE  Typed' /\ Reads(w)
<1>1. /\ UNCHANGED <<sub, checkout, lock, mandate, event, month>> /\ crashes' = crashes
      /\ patches' \in 0..MaxPatches /\ Become(w, Patching) /\ sub.status # "NONE"
  BY CountersTyped, BoundsAreNat DEF ReadSubscription
<1>2. Sound(Patching)
  BY <1>1, RestRows DEF Sound, Handling, Typed, TypeOK, SubRow
<1>3. Typed' /\ worker'[w] = Patching /\ Others(w)
  BY <1>1, <1>2, CountersTyped, RestRows, Becoming
<1>4. QED
  BY <1>1, <1>3, RestRows DEF Reads

LEMMA LockKind ==
    ASSUME Typed, NEW w \in Workers, LockCheckout(w)
    PROVE  Typed' /\ Locks(w)
<1> DEFINE r == At(w, "create")
<1>1. /\ UNCHANGED <<sub, checkout, mandate, event, month, patches, crashes>>
      /\ lock = None /\ lock' = w /\ worker[w].pc = "start"
      /\ checkout.ext = None \/ Abandoned
      /\ Become(w, r)
  BY DEF LockCheckout
<1>2. /\ r \in WorkerRow /\ r.pc = "create"
      /\ r.event = worker[w].event /\ r.copy = worker[w].copy
  BY NextRows
<1> HIDE DEF r
<1>3. Typed' /\ worker'[w] = r /\ Others(w)
  BY <1>1, <1>2, CountersTyped, Becoming DEF Handling, Sound
<1>4. QED
  BY <1>1, <1>2, <1>3 DEF Locks, Carried

LEMMA CreateKind ==
    ASSUME Typed, NEW w \in Workers, CreateMandate(w)
    PROVE  Typed' /\ \E m \in Mandates : Creates(w, m)
<1>1. PICK m \in Mandates :
        /\ mandate[m].state = "NONE"
        /\ mandate' = [mandate EXCEPT ![m] = Created(worker[w].plan)]
        /\ Become(w, Saving(w, m))
  BY DEF CreateMandate
<1> DEFINE r == Saving(w, m)
           c == Created(worker[w].plan)
<1>2. /\ UNCHANGED <<sub, checkout, lock, event, month, patches, crashes>>
      /\ worker[w].pc = "create"
  BY DEF CreateMandate
<1>3. /\ r \in WorkerRow /\ r.pc = "save" /\ r.mandate = m
      /\ r.plan = worker[w].plan /\ r.event = worker[w].event /\ r.copy = worker[w].copy
  BY NextRows
<1>4. /\ c \in MandateRow /\ c.state = "INITIALIZED" /\ c.session = "made"
      /\ c.plan = worker[w].plan
  BY DEF Created, MandateRow, Typed, TypeOK, WorkerRow
<1> HIDE DEF r, c
<1>5. /\ worker' \in [Workers -> WorkerRow] /\ worker'[w] = r /\ Others(w)
      /\ \A v \in Workers : Sound(worker'[v])
  <2>1. Become(w, r)
    BY <1>1 DEF r
  <2>2. QED
    BY <1>3, <2>1, WorkersTyped DEF Handling, Sound
<1>6. /\ mandate' \in [Mandates -> MandateRow] /\ mandate'[m] = c
      /\ \A n \in Mandates : n # m => mandate'[n] = mandate[n]
  <2>1. mandate' = [mandate EXCEPT ![m] = c] /\ mandate \in [Mandates -> MandateRow]
    BY <1>1 DEF c, Typed, TypeOK
  <2>2. QED
    BY <1>4, <2>1
<1>7. Typed'
  BY <1>2, <1>5, <1>6 DEF Typed, TypeOK
<1>8. Creates(w, m)
  BY <1>1, <1>2, <1>3, <1>4, <1>5, <1>6 DEF Creates, Carried
<1>9. QED
  BY <1>7, <1>8

LEMMA SaveKind ==
    ASSUME Typed, NEW w \in Workers, SaveCheckout(w)
    PROVE  Typed' /\ Saves(w)
<1> DEFINE m == worker[w].mandate
           c == [plan |-> worker[w].plan, ext |-> m, confirmed |-> FALSE, stale |-> FALSE]
<1>0. /\ worker[w] \in WorkerRow /\ mandate \in [Mandates -> MandateRow]
      /\ worker[w].pc = "save" /\ m \in Mandates
  BY DEF SaveCheckout, Typed, TypeOK, Sound
<1>1. /\ UNCHANGED <<sub, event, month, patches, crashes>>
      /\ lock' = None /\ Become(w, Idle) /\ checkout' = c
  BY DEF SaveCheckout
<1>2. c \in CheckoutRow /\ c.plan = worker[w].plan /\ c.ext = m /\ c.stale = FALSE
  BY <1>0 DEF CheckoutRow, WorkerRow
<1>3. /\ mandate' \in [Mandates -> MandateRow]
      /\ mandate'[m].state = mandate[m].state /\ mandate'[m].plan = mandate[m].plan
      /\ \A n \in Mandates : n # m => mandate'[n] = mandate[n]
  <2>1. CASE mandate[m].session = "made"
    <3>1. mandate' = [mandate EXCEPT ![m].session = "open"]
      BY <2>1 DEF SaveCheckout
    <3> HIDE DEF m
    <3>2. QED
      BY <1>0, <3>1 DEF MandateRow
  <2>2. CASE mandate[m].session # "made"
    BY <1>0, <2>2 DEF SaveCheckout
  <2>3. QED
    BY <2>1, <2>2
<1>4. /\ worker' \in [Workers -> WorkerRow] /\ worker'[w] = Idle /\ Others(w)
      /\ \A v \in Workers : Sound(worker'[v])
  BY <1>1, RestRows, WorkersTyped DEF Handling, Sound
<1> HIDE DEF c
<1>5. Typed'
  BY <1>1, <1>2, <1>3, <1>4 DEF Typed, TypeOK
<1>6. Rested(w, {"idle"})
  BY <1>4, RestRows DEF Rested
<1>7. QED
  BY <1>0, <1>1, <1>2, <1>3, <1>5, <1>6 DEF Saves

LEMMA ConfirmKind ==
    ASSUME Typed, NEW w \in Workers, SaveConfirmed(w)
    PROVE  Typed' /\ Confirms(w)
<1>1. /\ UNCHANGED <<sub, lock, mandate, event, month, patches, crashes>>
      /\ Become(w, Idle)
      /\ checkout' = [checkout EXCEPT !.confirmed = TRUE, !.stale = FALSE]
  BY DEF SaveConfirmed
<1>2. /\ checkout' \in CheckoutRow /\ checkout'.ext = checkout.ext
      /\ checkout'.plan = checkout.plan /\ checkout'.stale = FALSE
  BY <1>1 DEF Typed, TypeOK, CheckoutRow
<1>4. /\ worker' \in [Workers -> WorkerRow] /\ worker'[w] = Idle /\ Others(w)
      /\ \A v \in Workers : Sound(worker'[v])
  BY <1>1, RestRows, WorkersTyped DEF Handling, Sound
<1>5. Typed'
  BY <1>1, <1>2, <1>4 DEF Typed, TypeOK
<1>6. QED
  BY <1>1, <1>2, <1>4, <1>5, RestRows DEF Confirms, Rested

-----------------------------------------------------------------------------
(* Changes of the subscription, and the processing of events.              *)

\* A step of w that changes the subscription and perhaps ends an event.
LEMMA Ending ==
    ASSUME Typed, NEW w \in Workers, Become(w, Idle),
           sub' \in SubRow, event' \in [Events -> EventRow],
           UNCHANGED <<checkout, lock, mandate, month, patches, crashes>>
    PROVE  Typed' /\ Rested(w, {"idle"})
<1>1. /\ worker' \in [Workers -> WorkerRow] /\ worker'[w] = Idle /\ Others(w)
      /\ \A v \in Workers : Sound(worker'[v])
  BY RestRows, WorkersTyped DEF Handling, Sound
<1>2. QED
  BY <1>1, RestRows DEF Typed, TypeOK, Rested

LEMMA ChangeKind ==
    ASSUME Typed, NEW w \in Workers, TransitionStatus(w) \/ ChangePlan(w)
    PROVE  Typed' /\ Changes(w)
<1>0. sub \in SubRow /\ event \in [Events -> EventRow] /\ worker[w].copy \in SubRow
  BY DEF Typed, TypeOK, WorkerRow
<1>1. /\ UNCHANGED <<checkout, lock, mandate, event, month, patches, crashes>>
      /\ worker[w].pc = "patch" /\ Become(w, Idle)
  BY DEF TransitionStatus, ChangePlan
<1>2. /\ sub' \in SubRow
      /\ sub'.ext = sub.ext /\ sub'.period = sub.period
      /\ \/ sub'.plan = sub.plan /\ sub'.status \in Legal[worker[w].copy.status]
         \/ sub'.status = sub.status
  <2>1. CASE TransitionStatus(w)
    <3>1. PICK status \in Legal[worker[w].copy.status] : sub' = [sub EXCEPT !.status = status]
      BY <2>1 DEF TransitionStatus
    <3>2. status \in Statuses
      <4>1. worker[w].copy.status \in Statuses
        BY <1>1 DEF Typed, Sound
      <4>2. QED
        BY <4>1 DEF Legal, Statuses
    <3>3. QED
      BY <1>0, <3>1, <3>2 DEF SubRow
  <2>2. CASE ChangePlan(w)
    <3>1. PICK p \in Plans : sub' = [sub EXCEPT !.plan = p]
      BY <2>2 DEF ChangePlan
    <3>2. QED
      BY <1>0, <3>1 DEF SubRow
  <2>3. QED
    BY <2>1, <2>2
<1>3. Typed' /\ Rested(w, {"idle"})
  BY <1>0, <1>1, <1>2, Ending
<1>4. QED
  BY <1>1, <1>2, <1>3 DEF Changes

LEMMA ProcessedKind ==
    ASSUME Typed, NEW e \in Events, Processed(e)
    PROVE  event' \in [Events -> EventRow] /\ EventDone(e)
<1>1. /\ event' \in [Events -> EventRow]
      /\ event'[e].state = "PROCESSED" /\ SameEvent(e)
      /\ \A f \in Events : f # e => event'[f] = event[f]
  BY EventMoves DEF Processed
<1>2. QED
  BY <1>1 DEF EventDone

\* What is written of a handler's decision about the row it read.
LEMMA HandleKind ==
    ASSUME Typed, NEW row \in SubRow, NEW e \in Events, NEW done, done = Handle(row, event[e]),
           NEW r \in SubRow, r = Written(done, sub),
           sub' \in SubRow, sub'.plan = r.plan, sub'.ext = r.ext, sub'.status = r.status,
           sub'.period = r.period
    PROVE  Handles(row, e)
<1>0. sub \in SubRow /\ event[e] \in EventRow
  BY DEF Typed, TypeOK
<1>1. /\ done \in Done
      /\ (done.status # None /\ row.status # "NONE") => done.status \in Legal[row.status]
      /\ \/ done.period = None
         \/ event[e].type = "CHARGED" /\ done.period = ChargedFor(row, event[e])
  BY <1>0, Handled
<1>2. /\ r.plan = sub.plan /\ r.ext = sub.ext
      /\ r.status = IF done.status = None THEN sub.status ELSE done.status
      /\ r.period = IF done.period = None THEN sub.period ELSE done.period
      /\ sub.status # "NONE" => r.status # "NONE"
  BY <1>0, <1>1, WrittenRow
<1>3. sub'.status = sub.status \/ (row.status # "NONE" => sub'.status \in Legal[row.status])
  BY <1>1, <1>2
<1>4. sub'.period = sub.period \/ (event[e].type = "CHARGED" /\ sub'.period = ChargedFor(row, event[e]))
  BY <1>1, <1>2
<1>5. QED
  BY <1>2, <1>3, <1>4 DEF Handles

LEMMA MatchKind ==
    ASSUME Typed, NEW w \in Workers, NEW e \in Events, ProcessMatched(w, e)
    PROVE  Typed' /\ Matches(e)
<1> DEFINE done == Handle(sub, event[e])
           r == Written(done, sub)
<1>0. sub \in SubRow /\ event[e] \in EventRow
  BY DEF Typed, TypeOK
<1>1. /\ event[e].state = "STORED" /\ ~EventLocked(e) /\ sub.ext = event[e].ext
      /\ UNCHANGED <<checkout, lock, mandate, month, worker, patches, crashes>>
      /\ Processed(e)
      /\ sub' = sub \/ sub' = Advance(r, e)
  BY DEF ProcessMatched, Apply
<1>2. event' \in [Events -> EventRow] /\ EventDone(e)
  BY <1>1, ProcessedKind
<1>3. done \in Done
  BY <1>0, Handled
<1>4. r \in SubRow
  BY <1>0, <1>3, WrittenRow
<1>5. sub' \in SubRow /\ Handles(sub, e)
  <2>1. CASE sub' = sub
    BY <1>0, <2>1 DEF Handles
  <2>2. CASE sub' = Advance(r, e)
    <3>1. /\ sub' \in SubRow /\ sub'.plan = r.plan /\ sub'.ext = r.ext
          /\ sub'.status = r.status /\ sub'.period = r.period
      <4> HIDE DEF r
      <4>1. QED
        BY <1>4, <2>2, AdvancedRow
    <3>2. Handles(sub, e)
      <4>1. PICK d : d = done
        OBVIOUS
      <4>2. PICK s \in SubRow : s = r /\ s = Written(d, sub)
        BY <1>4, <4>1
      <4> HIDE DEF done, r
      <4>3. d = Handle(sub, event[e])
        BY <4>1 DEF done
      <4>4. QED
        BY <1>0, <3>1, <4>2, <4>3, HandleKind
    <3>3. QED
      BY <3>1, <3>2
  <2>3. QED
    BY <1>1, <2>1, <2>2
<1>6. Typed'
  BY <1>1, <1>2, <1>5 DEF Typed, TypeOK
<1>7. QED
  BY <1>1, <1>2, <1>5, <1>6 DEF Matches

LEMMA TakeKind ==
    ASSUME Typed, NEW w \in Workers, NEW e \in Events, ProcessUnmatched(w, e)
    PROVE  Typed' /\ Takes(w, e)
<1>1. /\ UNCHANGED <<sub, checkout, lock, mandate, event, month, patches, crashes>>
      /\ Become(w, Unmatched(e)) /\ event[e].state = "STORED" /\ ~EventLocked(e)
  BY DEF ProcessUnmatched
<1>2. Typed' /\ worker'[w] = Unmatched(e) /\ Others(w)
  BY <1>1, RestRows, CountersTyped, Becoming DEF Sound
<1>3. QED
  BY <1>1, <1>2, RestRows DEF Takes

LEMMA HandlingEvent ==
    ASSUME Typed, NEW w \in Workers, worker[w].pc \in Handling
    PROVE  worker[w].event \in Events
  BY DEF Typed, Sound

LEMMA LookKind ==
    ASSUME Typed, NEW w \in Workers, LookAgain(w)
    PROVE  Typed' /\ (Finds(w) \/ FindsCheckout(w) \/ Drops(w) \/ Rests(w))
<1> DEFINE e == worker[w].event
<1>0. worker[w].pc = "unmatched" /\ e \in Events
  BY HandlingEvent DEF LookAgain, Handling
<1>1. UNCHANGED <<sub, checkout, lock, mandate, month, patches, crashes>>
  BY DEF LookAgain
<1>2. CASE sub.ext = event[e].ext /\ Become(w, Holding(w, "late")) /\ UNCHANGED event
  <2> DEFINE r == Holding(w, "late")
  <2>1. r \in WorkerRow /\ r.pc = "late" /\ r.event = worker[w].event /\ r.copy = sub
    BY NextRows
  <2>2. Become(w, r)
    BY <1>2
  <2> HIDE DEF r
  <2>3. Typed' /\ worker'[w] = r /\ Others(w)
    BY <1>0, <1>1, <1>2, <2>1, <2>2, CountersTyped, Becoming DEF Sound
  <2>4. Finds(w)
    BY <1>0, <1>1, <1>2, <2>1, <2>3 DEF Finds, Carried
  <2>5. QED
    BY <2>3, <2>4
<1>3. CASE /\ event[e].type = "ACTIVATED" /\ CheckoutFor(event[e].ext)
           /\ Become(w, Inserting(w)) /\ UNCHANGED event
  <2> DEFINE r == Inserting(w)
  <2>1. /\ r \in WorkerRow /\ r.pc = "insert" /\ r.plan = checkout.plan
        /\ r.event = worker[w].event /\ r.copy = worker[w].copy
    BY NextRows
  <2>2. Become(w, r)
    BY <1>3
  <2> HIDE DEF r
  <2>3. Typed' /\ worker'[w] = r /\ Others(w)
    BY <1>0, <1>1, <1>3, <2>1, <2>2, CountersTyped, Becoming DEF Sound
  <2>4. FindsCheckout(w)
    BY <1>0, <1>1, <1>3, <2>1, <2>3 DEF FindsCheckout, Carried, CheckoutFor
  <2>5. QED
    BY <2>3, <2>4
<1>4. CASE /\ event[e].type = "ACTIVATED" => ~CheckoutFor(event[e].ext)
           /\ Become(w, Idle) /\ Processed(e)
  <2>1. event' \in [Events -> EventRow] /\ EventDone(e)
    BY <1>0, <1>4, ProcessedKind
  <2>2. sub' \in SubRow
    BY <1>1 DEF Typed, TypeOK
  <2>3. Typed' /\ Rested(w, {"idle"})
    BY <1>1, <1>4, <2>1, <2>2, Ending
  <2>4. Drops(w)
    BY <1>0, <1>1, <1>4, <2>1, <2>3 DEF Drops, CheckoutFor
  <2>5. QED
    BY <2>3, <2>4
<1>5. CASE Become(w, Idle) /\ UNCHANGED event
  <2>1. Typed' /\ worker'[w] = Idle /\ Others(w)
    BY <1>1, <1>5, RestRows, CountersTyped, Becoming DEF Sound, Handling
  <2>2. Rests(w)
    BY <1>1, <1>5, <2>1, RestRows DEF Rests, Rested
  <2>3. QED
    BY <2>1, <2>2
<1>6. QED
  BY <1>2, <1>3, <1>4, <1>5 DEF LookAgain

LEMMA LateKind ==
    ASSUME Typed, NEW w \in Workers, WriteLate(w)
    PROVE  Typed' /\ HandlesLate(w)
<1> DEFINE e == worker[w].event
           copy == worker[w].copy
<1>0. /\ worker[w].pc = "late" /\ e \in Events /\ sub \in SubRow /\ copy \in SubRow
      /\ event[e] \in EventRow
  BY HandlingEvent DEF WriteLate, Handling, Typed, TypeOK, WorkerRow
<1>1. /\ UNCHANGED <<checkout, lock, mandate, month, patches, crashes>>
      /\ Become(w, Idle) /\ Processed(e)
      /\ sub' = Written(Handle(copy, event[e]), sub)
  BY DEF WriteLate
<1>2. PICK done \in Done : done = Handle(copy, event[e])
  BY <1>0, Handled
<1>3. sub' \in SubRow /\ sub' = Written(done, sub)
  BY <1>0, <1>1, <1>2, WrittenRow
<1>4. Handles(copy, e)
  <2> HIDE DEF copy, e
  <2>1. QED
    BY <1>0, <1>2, <1>3, HandleKind
<1>5. event' \in [Events -> EventRow] /\ EventDone(e)
  BY <1>0, <1>1, ProcessedKind
<1>6. Typed' /\ Rested(w, {"idle"})
  BY <1>1, <1>3, <1>5, Ending
<1>7. QED
  BY <1>0, <1>1, <1>4, <1>5, <1>6 DEF HandlesLate

LEMMA InsertKind ==
    ASSUME Typed, NEW w \in Workers, Insert(w)
    PROVE  Typed' /\ (Inserts(w) \/ Collides(w))
<1> DEFINE e == worker[w].event
<1>0. /\ worker[w].pc = "insert" /\ e \in Events /\ sub \in SubRow /\ worker[w] \in WorkerRow
      /\ event[e] \in EventRow /\ month \in Nat
  BY HandlingEvent DEF Insert, Handling, Typed, TypeOK
<1>1. UNCHANGED <<checkout, lock, mandate, month, patches, crashes>>
  BY DEF Insert
<1>2. CASE sub.status = "NONE"
  <2>1. /\ sub' = [status |-> "ACTIVE", plan |-> worker[w].plan, ext |-> event[e].ext,
                   mark |-> 0, period |-> month]
        /\ Processed(e) /\ Become(w, Idle)
    BY <1>2 DEF Insert
  <2>2. /\ sub' \in SubRow /\ sub'.status = "ACTIVE" /\ sub'.plan = worker[w].plan
        /\ sub'.period = month /\ sub'.ext = event[e].ext
    BY <1>0, <2>1 DEF SubRow, Statuses, WorkerRow, EventRow
  <2>3. event' \in [Events -> EventRow] /\ EventDone(e)
    BY <1>0, <2>1, ProcessedKind
  <2>4. Typed' /\ Rested(w, {"idle"})
    BY <1>1, <2>1, <2>2, <2>3, Ending
  <2>5. Inserts(w)
    BY <1>0, <1>1, <1>2, <2>2, <2>3, <2>4 DEF Inserts
  <2>6. QED
    BY <2>4, <2>5
<1>3. CASE sub.status # "NONE"
  <2> DEFINE r == Holding(w, "converge")
  <2>1. /\ r \in WorkerRow /\ r.pc = "converge" /\ r.plan = worker[w].plan
        /\ r.event = worker[w].event /\ r.copy = sub
    BY NextRows
  <2>2. Become(w, r) /\ UNCHANGED <<sub, event>>
    BY <1>3 DEF Insert
  <2> HIDE DEF r
  <2>3. Typed' /\ worker'[w] = r /\ Others(w)
    BY <1>0, <1>1, <2>1, <2>2, CountersTyped, Becoming DEF Sound
  <2>4. Collides(w)
    BY <1>0, <1>1, <1>3, <2>1, <2>2, <2>3 DEF Collides, Carried
  <2>5. QED
    BY <2>3, <2>4
<1>4. QED
  BY <1>2, <1>3

LEMMA ConvergeKind ==
    ASSUME Typed, NEW w \in Workers, Converge(w)
    PROVE  Typed' /\ Converges(w)
<1> DEFINE e == worker[w].event
           copy == worker[w].copy
           plan == worker[w].plan
<1>0. /\ worker[w].pc = "converge" /\ e \in Events /\ sub \in SubRow /\ copy \in SubRow
      /\ plan \in Plans \cup {None} /\ event[e].ext \in Mandates \cup {None}
  BY HandlingEvent DEF Converge, Handling, Typed, TypeOK, WorkerRow, EventRow
<1>1. /\ UNCHANGED <<checkout, lock, mandate, month, patches, crashes>>
      /\ Become(w, Idle) /\ Processed(e)
      /\ sub' = Converged(copy, plan, event[e].ext)
  BY DEF Converge
<1> HIDE DEF copy, plan
<1>2. PICK ext \in Mandates \cup {None} : ext = event[e].ext
  BY <1>0
<1>3. /\ sub' \in SubRow /\ sub'.period = sub.period
      /\ \/ sub'.plan = sub.plan /\ sub'.ext = sub.ext
         \/ sub'.plan = plan /\ sub'.ext = ext /\ Upgrade(copy.plan, plan)
      /\ \/ sub'.status = sub.status
         \/ sub'.status = "ACTIVE" /\ copy.status \notin {"ACTIVE", "CANCELED"}
  BY <1>0, <1>1, <1>2, ConvergedRow
<1>4. event' \in [Events -> EventRow] /\ EventDone(e)
  BY <1>0, <1>1, ProcessedKind
<1>5. Typed' /\ Rested(w, {"idle"})
  BY <1>1, <1>3, <1>4, Ending
<1>6. QED
  BY <1>0, <1>1, <1>2, <1>3, <1>4, <1>5 DEF Converges, copy, plan

\* Every step is of one of the kinds, and keeps the types.
LEMMA StepKind ==
    ASSUME Typed, [Next]_vars
    PROVE  Typed' /\ Kind
<1>1. CASE UNCHANGED vars
  <2>1. UNCHANGED <<sub, checkout, lock, mandate, event, month, worker, patches, crashes>>
    BY <1>1 DEF vars
  <2>2. Typed'
    BY <2>1 DEF Typed, TypeOK
  <2>3. QED
    BY <2>1, <2>2 DEF Kind, Kept
<1>2. CASE Provider
  <2>1. CASE \E m \in Mandates :
          Authorise(m) \/ Activate(m) \/ Charge(m) \/ ChargeFails(m) \/ EndMandate(m)
    BY <2>1, MandateKind DEF Kind
  <2>2. CASE \E e \in Events : Deliver(e)
    BY <2>2, DeliverKind DEF Kind
  <2>3. CASE HourPasses \/ DayPasses \/ MonthPasses
    BY <2>3, LapseKind DEF Kind
  <2>4. QED
    BY <1>2, <2>1, <2>2, <2>3 DEF Provider
<1>3. ASSUME NEW w \in Workers, Begin(w)
      PROVE  Typed' /\ Kind
  <2>1. Typed' /\ (Rests(w) \/ Reads(w))
    BY <1>3, RestKind, ReadKind DEF Begin
  <2>2. QED
    BY <2>1 DEF Kind, KindOfWorker
<1>4. ASSUME NEW w \in Workers, Continue(w)
      PROVE  Typed' /\ Kind
  <2>1. CASE ReuseCheckout(w) \/ RefuseCheckout(w) \/ CreateFails(w) \/ Refuse(w)
    <3>1. Typed' /\ Rests(w)
      BY <2>1, RestKind
    <3>2. QED
      BY <3>1 DEF Kind, KindOfWorker
  <2>2. CASE LockCheckout(w)
    BY <2>2, LockKind DEF Kind, KindOfWorker
  <2>3. CASE CreateMandate(w)
    BY <2>3, CreateKind DEF Kind, KindOfWorker
  <2>4. CASE SaveCheckout(w)
    BY <2>4, SaveKind DEF Kind, KindOfWorker
  <2>5. CASE SaveConfirmed(w)
    BY <2>5, ConfirmKind DEF Kind, KindOfWorker
  <2>6. CASE TransitionStatus(w) \/ ChangePlan(w)
    BY <2>6, ChangeKind DEF Kind, KindOfWorker
  <2>7. CASE LookAgain(w)
    BY <2>7, LookKind DEF Kind, KindOfWorker
  <2>8. CASE WriteLate(w)
    BY <2>8, LateKind DEF Kind, KindOfWorker
  <2>9. CASE Insert(w)
    BY <2>9, InsertKind DEF Kind, KindOfWorker
  <2>10. CASE Converge(w)
    BY <2>10, ConvergeKind DEF Kind, KindOfWorker
  <2>11. QED
    BY <1>4, <2>1, <2>2, <2>3, <2>4, <2>5, <2>6, <2>7, <2>8, <2>9, <2>10 DEF Continue
<1>5. ASSUME NEW w \in Workers, Crash(w)
      PROVE  Typed' /\ Kind
  <2>1. Typed' /\ Rests(w)
    BY <1>5, RestKind
  <2>2. QED
    BY <2>1 DEF Kind, KindOfWorker
<1>6. ASSUME NEW w \in Workers, NEW e \in Events, Process(w, e)
      PROVE  Typed' /\ Kind
  BY <1>6, MatchKind, TakeKind DEF Process, Kind, KindOfWorker
<1>7. QED
  BY <1>1, <1>2, <1>3, <1>4, <1>5, <1>6 DEF Next

-----------------------------------------------------------------------------
(* One live mandate, on record.                                            *)

OnRecord ==
    /\ \A w \in Workers : worker[w].pc \in {"create", "save"} =>
        lock = w /\ \A m \in Mandates : ~Live(m)
    /\ checkout.stale => \A m \in Mandates : mandate[m].session # "open"
    /\ LiveMandateOnRecord

\* A step that leaves the mandates and the locks alone.
Aside(w) ==
    /\ Others(w)
    /\ worker'[w].pc \notin {"create", "save"}
    /\ checkout'.ext = checkout.ext
    /\ checkout'.stale = checkout.stale \/ checkout'.stale = FALSE
    /\ UNCHANGED <<lock, mandate>>

LEMMA AsideKind ==
    ASSUME NEW w \in Workers,
           \/ Reads(w) \/ Confirms(w) \/ Changes(w) \/ (\E e \in Events : Takes(w, e))
           \/ Finds(w) \/ FindsCheckout(w) \/ Drops(w)
           \/ HandlesLate(w) \/ Inserts(w) \/ Collides(w) \/ Converges(w)
    PROVE  Aside(w)
  BY DEF Aside, Reads, Confirms, Changes, Takes, Finds, FindsCheckout, Drops, HandlesLate,
         Inserts, Collides, Converges, Rested, Carried

LEMMA MandateNotNone == \A m \in Mandates : m # None
  BY NoneIsNew

\* Only saving a checkout makes a mandate live.
LEMMA LiveKept ==
    ASSUME Typed, Kind
    PROVE  \/ \A m \in Mandates : Live(m)' => Live(m)
           \/ \E w \in Workers :
               /\ Saves(w)
               /\ \A m \in Mandates : m # worker[w].mandate => (Live(m)' => Live(m))
<1>1. CASE UNCHANGED mandate
  BY <1>1 DEF Live
<1>2. ASSUME NEW m \in Mandates, Turned(m)
      PROVE  \A n \in Mandates : Live(n)' => Live(n)
  BY <1>2 DEF Turned, Live
<1>3. CASE Lapsed
  BY <1>3 DEF Lapsed, Live
<1>4. ASSUME NEW w \in Workers, NEW m \in Mandates, Creates(w, m)
      PROVE  \A n \in Mandates : Live(n)' => Live(n)
  BY <1>4 DEF Creates, Live
<1>5. ASSUME NEW w \in Workers, Saves(w)
      PROVE  \A m \in Mandates : m # worker[w].mandate => (Live(m)' => Live(m))
  BY <1>5 DEF Saves, Live
<1>6. ASSUME NEW w \in Workers, KindOfWorker(w)
      PROVE  UNCHANGED mandate \/ Saves(w) \/ \E m \in Mandates : Creates(w, m)
  <2>1. CASE Rests(w) \/ Locks(w)
    BY <2>1 DEF Rests, Locks
  <2>2. QED
    BY <1>6, <2>1, AsideKind DEF KindOfWorker, Aside
<1>7. ASSUME Kept \/ Delivered \/ \E e \in Events : Matches(e)
      PROVE  UNCHANGED mandate
  BY <1>7 DEF Kept, Delivered, Matches
<1>8. QED
  BY <1>1, <1>2, <1>3, <1>4, <1>5, <1>6, <1>7 DEF Kind

LEMMA OnRecordKept ==
    ASSUME Typed, OnRecord, Kind
    PROVE  OnRecord'
<1>0. /\ checkout \in CheckoutRow /\ mandate \in [Mandates -> MandateRow]
      /\ \A v \in Workers : worker[v] \in WorkerRow
  BY DEF Typed, TypeOK
<1>1. CASE Kept \/ (\E m \in Mandates : Turned(m)) \/ Delivered \/ (\E e \in Events : Matches(e))
  <2>1. /\ \A m \in Mandates : Live(m)' => Live(m)
        /\ UNCHANGED <<checkout, lock, worker>>
        /\ \A m \in Mandates : mandate'[m].session = mandate[m].session
    BY <1>1 DEF Kept, Turned, Delivered, Matches, Live
  <2>2. QED
    BY <2>1 DEF OnRecord, LiveMandateOnRecord
<1>2. CASE Lapsed
  <2>1. \A m \in Mandates : Live(m)' => Live(m)
    BY <1>2 DEF Lapsed, Live
  <2>2. UNCHANGED <<lock, worker>> /\ checkout'.ext = checkout.ext
        /\ \A m \in Mandates : mandate'[m].session # "open"
    BY <1>2 DEF Lapsed
  <2>3. QED
    BY <2>1, <2>2 DEF OnRecord, LiveMandateOnRecord
<1>3. ASSUME NEW w \in Workers, KindOfWorker(w)
      PROVE  OnRecord'
  <2>1. CASE Aside(w)
    <3>1. \A m \in Mandates : Live(m)' = Live(m)
      BY <2>1 DEF Aside, Live
    <3>2. \A v \in Workers : worker'[v].pc \in {"create", "save"} => worker'[v] = worker[v]
      BY <2>1 DEF Aside, Others
    <3>3. QED
      BY <2>1, <3>1, <3>2 DEF Aside, OnRecord, LiveMandateOnRecord
  <2>2. CASE Rests(w)
    <3>1. /\ UNCHANGED <<checkout, mandate>> /\ \A m \in Mandates : Live(m)' = Live(m)
      BY <2>2 DEF Rests, Live
    <3>2. \A v \in Workers : worker'[v].pc \in {"create", "save"} =>
            v # w /\ worker'[v] = worker[v]
      BY <2>2 DEF Rests, Rested, Others
    <3>3. \A v \in Workers : (worker'[v].pc \in {"create", "save"}) => lock' = v
      BY <2>2, <3>2 DEF Rests, OnRecord
    <3>4. QED
      BY <3>1, <3>2, <3>3 DEF OnRecord, LiveMandateOnRecord
  <2>3. CASE Locks(w)
    <3>1. UNCHANGED <<checkout, mandate>> /\ \A m \in Mandates : Live(m)' = Live(m)
      BY <2>3 DEF Locks, Live
    <3>2. \A m \in Mandates : ~Live(m)
      <4>1. SUFFICES ASSUME NEW m \in Mandates, Live(m)
                     PROVE  FALSE
        OBVIOUS
      <4>2. checkout.ext = m /\ Abandoned
        BY <2>3, <4>1, MandateNotNone DEF OnRecord, LiveMandateOnRecord, Locks
      <4>3. mandate[m].session # "open" /\ mandate[m].state \in {"NONE", "INITIALIZED", "CANCELLED"}
        BY <4>2 DEF Abandoned, OnRecord
      <4>4. QED
        BY <4>1, <4>3 DEF Live
    <3>3. \A v \in Workers : v # w => worker'[v].pc \notin {"create", "save"}
      BY <2>3, NoneIsNew DEF Locks, Carried, Others, OnRecord
    <3>4. QED
      BY <2>3, <3>1, <3>2, <3>3 DEF Locks, OnRecord, LiveMandateOnRecord
  <2>4. ASSUME NEW m \in Mandates, Creates(w, m)
        PROVE  OnRecord'
    <3>1. \A n \in Mandates : ~Live(n) /\ ~Live(n)'
      BY <2>4 DEF Creates, OnRecord, Live
    <3>2. \A n \in Mandates : mandate'[n].session = "open" => mandate[n].session = "open"
      BY <2>4 DEF Creates
    <3>3. \A v \in Workers : worker'[v].pc \in {"create", "save"} => lock' = v
      BY <2>4 DEF Creates, Carried, Others, OnRecord
    <3>4. UNCHANGED checkout
      BY <2>4 DEF Creates
    <3>5. QED
      BY <3>1, <3>2, <3>3, <3>4 DEF OnRecord, LiveMandateOnRecord
  <2>5. CASE Saves(w)
    <3>1. \A m \in Mandates : Live(m)' => m = worker[w].mandate
      BY <2>5 DEF Saves, OnRecord, Live
    <3>2. \A v \in Workers : worker'[v].pc \notin {"create", "save"}
      BY <2>5 DEF Saves, Rested, Others, OnRecord
    <3>3. checkout'.ext = worker[w].mandate /\ checkout'.stale = FALSE
      BY <2>5 DEF Saves
    <3>4. ~checkout'.stale
      BY <3>3
    <3>5. QED
      BY <3>1, <3>2, <3>3, <3>4 DEF OnRecord, LiveMandateOnRecord
  <2>6. QED
    BY <1>3, <2>1, <2>2, <2>3, <2>4, <2>5, AsideKind DEF KindOfWorker
<1>4. QED
  BY <1>1, <1>2, <1>3 DEF Kind

-----------------------------------------------------------------------------
(* What was bought: plans of mandates and checkouts, and the events.       *)

Bought ==
    /\ checkout.ext # None =>
        mandate[checkout.ext].plan = checkout.plan /\ mandate[checkout.ext].state # "NONE"
    /\ \A w \in Workers : worker[w].pc = "save" =>
        /\ mandate[worker[w].mandate].plan = worker[w].plan
        /\ mandate[worker[w].mandate].state # "NONE"

Known ==
    \A e \in Events : event[e].state # "NONE" =>
        /\ event[e].ext \in Mandates
        /\ event[e].type = "ACTIVATED" => mandate[event[e].ext].state \notin {"NONE", "INITIALIZED"}

InHand ==
    /\ \A w \in Workers : worker[w].pc \in Handling => event[worker[w].event].state = "STORED"
    /\ \A w \in Workers : worker[w].pc \in {"insert", "converge"} =>
        /\ event[worker[w].event].type = "ACTIVATED"
        /\ mandate[event[worker[w].event].ext].plan = worker[w].plan
    /\ \A v, w \in Workers :
        (v # w /\ worker[v].pc \in Handling /\ worker[w].pc \in Handling)
            => worker[v].event # worker[w].event

\* A mandate keeps its plan and never goes back; an event keeps what it says.
Grown ==
    /\ \A m \in Mandates : mandate[m].state # "NONE" =>
        /\ mandate'[m].plan = mandate[m].plan /\ mandate'[m].state # "NONE"
        /\ mandate[m].state # "INITIALIZED" => mandate'[m].state # "INITIALIZED"
    /\ \A e \in Events : event[e].state # "NONE" => SameEvent(e) /\ event'[e].state # "NONE"

LEMMA UnchangedGrows ==
    /\ UNCHANGED mandate => \A m \in Mandates : mandate[m].state # "NONE" =>
        /\ mandate'[m].plan = mandate[m].plan /\ mandate'[m].state # "NONE"
        /\ mandate[m].state # "INITIALIZED" => mandate'[m].state # "INITIALIZED"
    /\ UNCHANGED event =>
        \A e \in Events : event[e].state # "NONE" => SameEvent(e) /\ event'[e].state # "NONE"
  BY DEF SameEvent

LEMMA DoneGrows ==
    ASSUME NEW e \in Events, EventDone(e)
    PROVE  \A f \in Events : event[f].state # "NONE" => SameEvent(f) /\ event'[f].state # "NONE"
  BY DEF EventDone, SameEvent

LEMMA Growing ==
    ASSUME Typed, Kind
    PROVE  Grown
<1>1. CASE Kept
  BY <1>1, UnchangedGrows DEF Kept, Grown
<1>2. ASSUME NEW m \in Mandates, Turned(m)
      PROVE  Grown
  <2>1. \A e \in Events : event[e].state # "NONE" => SameEvent(e) /\ event'[e].state # "NONE"
    <3>1. CASE event' = event
      BY <3>1, UnchangedGrows
    <3>2. CASE Emitted(m)
      BY <3>2 DEF Emitted, SameEvent
    <3>3. QED
      BY <1>2, <3>1, <3>2 DEF Turned
  <2>2. QED
    BY <1>2, <2>1 DEF Turned, Grown
<1>3. CASE Delivered
  <2>1. \A e \in Events : event[e].state # "NONE" => SameEvent(e) /\ event'[e].state # "NONE"
    BY <1>3 DEF Delivered
  <2>2. QED
    BY <1>3, <2>1, UnchangedGrows DEF Delivered, Grown
<1>4. CASE Lapsed
  BY <1>4 DEF Lapsed, Grown
<1>5. ASSUME NEW e \in Events, Matches(e)
      PROVE  Grown
  BY <1>5, UnchangedGrows, DoneGrows DEF Matches, Grown
<1>6. ASSUME NEW w \in Workers, KindOfWorker(w)
      PROVE  Grown
  <2>1. CASE \/ Rests(w) \/ Reads(w) \/ Locks(w) \/ Confirms(w) \/ Changes(w)
             \/ (\E e \in Events : Takes(w, e)) \/ Finds(w) \/ FindsCheckout(w) \/ Collides(w)
    <3>1. UNCHANGED <<mandate, event>>
      BY <2>1 DEF Rests, Reads, Locks, Confirms, Changes, Takes, Finds, FindsCheckout, Collides
    <3>2. QED
      BY <3>1, UnchangedGrows DEF Grown
  <2>2. CASE Drops(w) \/ HandlesLate(w) \/ Inserts(w) \/ Converges(w)
    <3>1. UNCHANGED mandate /\ EventDone(worker[w].event) /\ worker[w].pc \in Handling
      BY <2>2 DEF Drops, HandlesLate, Inserts, Converges, Handling
    <3>2. QED
      BY <3>1, HandlingEvent, UnchangedGrows, DoneGrows DEF Grown
  <2>3. ASSUME NEW m \in Mandates, Creates(w, m)
        PROVE  Grown
    BY <2>3, UnchangedGrows DEF Creates, Grown
  <2>4. CASE Saves(w)
    BY <2>4, UnchangedGrows DEF Saves, Grown
  <2>5. QED
    BY <1>6, <2>1, <2>2, <2>3, <2>4 DEF KindOfWorker
<1>7. QED
  BY <1>1, <1>2, <1>3, <1>4, <1>5, <1>6 DEF Kind

\* Only an event that is stored, and in no other worker's hands, is done with.
LEMMA EventKinds ==
    ASSUME Typed, InHand, Kind
    PROVE  \/ UNCHANGED event
           \/ \E m \in Mandates : Turned(m) /\ Emitted(m)
           \/ Delivered \/ Lapsed
           \/ \E e \in Events : event[e].state = "STORED" /\ EventDone(e)
<1>1. ASSUME NEW m \in Mandates, Turned(m)
      PROVE  UNCHANGED event \/ (Turned(m) /\ Emitted(m))
  BY <1>1 DEF Turned
<1>2. ASSUME NEW e \in Events, Matches(e)
      PROVE  event[e].state = "STORED" /\ EventDone(e)
  BY <1>2 DEF Matches
<1>3. ASSUME NEW w \in Workers, KindOfWorker(w)
      PROVE  UNCHANGED event \/ \E e \in Events : event[e].state = "STORED" /\ EventDone(e)
  <2>1. CASE \/ Rests(w) \/ Reads(w) \/ Locks(w) \/ Confirms(w) \/ Changes(w)
             \/ (\E e \in Events : Takes(w, e)) \/ Finds(w) \/ FindsCheckout(w) \/ Collides(w)
             \/ (\E m \in Mandates : Creates(w, m)) \/ Saves(w)
    BY <2>1 DEF Rests, Reads, Locks, Confirms, Changes, Takes, Finds, FindsCheckout, Collides,
                Creates, Saves
  <2>2. CASE Drops(w) \/ HandlesLate(w) \/ Inserts(w) \/ Converges(w)
    <3>1. EventDone(worker[w].event) /\ worker[w].pc \in Handling
      BY <2>2 DEF Drops, HandlesLate, Inserts, Converges, Handling
    <3>2. QED
      BY <3>1, HandlingEvent DEF InHand
  <2>3. QED
    BY <1>3, <2>1, <2>2 DEF KindOfWorker
<1>4. Kept => UNCHANGED event
  BY DEF Kept
<1>5. QED
  BY <1>1, <1>2, <1>3, <1>4 DEF Kind

LEMMA KnownKept ==
    ASSUME Typed, InHand, Known, Kind
    PROVE  Known'
<1>0. Grown
  BY Growing
<1>1. \A e \in Events : (event[e].state = "NONE" /\ event'[e].state # "NONE") =>
        /\ event'[e].ext \in Mandates
        /\ event'[e].type = "ACTIVATED" => mandate'[event'[e].ext].state \notin {"NONE", "INITIALIZED"}
  <2>1. CASE UNCHANGED event
    BY <2>1
  <2>2. ASSUME NEW m \in Mandates, Turned(m), Emitted(m)
        PROVE  \A e \in Events : (event[e].state = "NONE" /\ event'[e].state # "NONE") =>
                event'[e].ext = m /\ mandate'[m].state \notin {"NONE", "INITIALIZED"}
    BY <2>2 DEF Turned, Emitted
  <2>3. CASE Delivered \/ Lapsed
    BY <2>3 DEF Delivered, Lapsed
  <2>4. ASSUME NEW e \in Events, EventDone(e), event[e].state = "STORED"
        PROVE  \A f \in Events : event[f].state = "NONE" => event'[f].state = "NONE"
    BY <2>4 DEF EventDone
  <2>5. QED
    BY <2>1, <2>2, <2>3, <2>4, EventKinds
<1>2. QED
  BY <1>0, <1>1 DEF Known, Grown, SameEvent

LEMMA BoughtKept ==
    ASSUME Typed, OnRecord, InHand, Bought, Kind
    PROVE  Bought'
<1>0. Grown /\ checkout.ext \in Mandates \cup {None}
      /\ \A w \in Workers : worker[w].pc = "save" => worker[w].mandate \in Mandates
  BY Growing DEF Typed, TypeOK, CheckoutRow, Sound
<1>1. ASSUME UNCHANGED worker, checkout'.ext = checkout.ext, checkout'.plan = checkout.plan
      PROVE  Bought'
  BY <1>0, <1>1 DEF Bought, Grown
<1>2. ASSUME NEW w \in Workers, Others(w), worker'[w].pc # "save",
             checkout'.ext = checkout.ext, checkout'.plan = checkout.plan
      PROVE  Bought'
  BY <1>0, <1>2 DEF Bought, Grown, Others
<1>3. ASSUME NEW w \in Workers, KindOfWorker(w)
      PROVE  Bought'
  <2>1. CASE \/ Rests(w) \/ Locks(w) \/ Reads(w) \/ Confirms(w) \/ Changes(w)
             \/ (\E e \in Events : Takes(w, e)) \/ Finds(w) \/ FindsCheckout(w) \/ Drops(w)
             \/ HandlesLate(w) \/ Inserts(w) \/ Collides(w) \/ Converges(w)
    <3>1. /\ Others(w) /\ worker'[w].pc # "save"
          /\ checkout'.ext = checkout.ext /\ checkout'.plan = checkout.plan
      BY <2>1 DEF Rests, Locks, Reads, Confirms, Changes, Takes, Finds, FindsCheckout, Drops,
                  HandlesLate, Inserts, Collides, Converges, Rested, Carried
    <3>2. QED
      BY <1>2, <3>1
  <2>2. ASSUME NEW m \in Mandates, Creates(w, m)
        PROVE  Bought'
    BY <1>0, <2>2 DEF Creates, Carried, Others, Bought, Grown
  <2>3. CASE Saves(w)
    <3>1. \A v \in Workers : worker'[v].pc # "save"
      BY <2>3 DEF Saves, Rested, Others, OnRecord
    <3>2. /\ mandate'[checkout'.ext].plan = checkout'.plan
          /\ mandate'[checkout'.ext].state # "NONE"
      BY <1>0, <2>3 DEF Saves, Bought
    <3>3. QED
      BY <3>1, <3>2 DEF Bought
  <2>4. QED
    BY <1>3, <2>1, <2>2, <2>3 DEF KindOfWorker
<1>4. CASE Kept \/ (\E m \in Mandates : Turned(m)) \/ Delivered \/ Lapsed \/ \E e \in Events : Matches(e)
  <2>1. UNCHANGED worker /\ checkout'.ext = checkout.ext /\ checkout'.plan = checkout.plan
    BY <1>4 DEF Kept, Turned, Delivered, Lapsed, Matches
  <2>2. QED
    BY <1>1, <2>1
<1>5. QED
  BY <1>3, <1>4 DEF Kind

\* The event in a worker's hands is not touched by anybody else.
LEMMA InHandKept ==
    ASSUME Typed, Bought, Known, InHand, Kind
    PROVE  InHand'
<1>0. Grown
  BY Growing
<1>h. \A w \in Workers : worker[w].pc \in Handling =>
        /\ worker[w].event \in Events /\ event[worker[w].event].state # "NONE"
        /\ event[worker[w].event].ext \in Mandates
        /\ event[worker[w].event].type = "ACTIVATED" =>
            mandate[event[worker[w].event].ext].state # "NONE"
  BY HandlingEvent DEF InHand, Known
\* A worker that keeps its row keeps its event as long as that stays stored.
<1>1. ASSUME NEW w \in Workers, worker'[w] = worker[w], worker[w].pc \in Handling
      PROVE  worker[w].pc \in {"insert", "converge"} =>
              /\ event'[worker[w].event].type = "ACTIVATED"
              /\ mandate'[event'[worker[w].event].ext].plan = worker[w].plan
  BY <1>0, <1>1, <1>h DEF InHand, Grown, SameEvent
<1>2. ASSUME UNCHANGED worker,
             \A e \in Events : event[e].state = "STORED" =>
                event'[e].state = "STORED" \/ ~EventLocked(e)
      PROVE  InHand'
  <2>1. \A w \in Workers : worker[w].pc \in Handling => event'[worker[w].event].state = "STORED"
    BY <1>2, <1>h DEF InHand, EventLocked
  <2>2. \A w \in Workers : worker[w].pc \in {"insert", "converge"} => worker[w].pc \in Handling
    BY DEF Handling
  <2>3. QED
    BY <1>1, <1>2, <2>1, <2>2 DEF InHand
<1>3. ASSUME NEW w \in Workers, Others(w), worker'[w].pc \notin Handling,
             \/ UNCHANGED event
             \/ worker[w].pc \in Handling /\ EventDone(worker[w].event)
      PROVE  InHand'
  <2>1. \A v \in Workers : worker'[v].pc \in Handling =>
          v # w /\ worker'[v] = worker[v] /\ event'[worker[v].event].state = "STORED"
    BY <1>3, <1>h DEF Others, InHand, EventDone
  <2>2. \A v \in Workers : worker'[v].pc \in {"insert", "converge"} => worker'[v].pc \in Handling
    BY DEF Handling
  <2>3. QED
    BY <1>1, <2>1, <2>2 DEF InHand
<1>4. ASSUME NEW w \in Workers, Carried(w), worker[w].pc \in Handling, UNCHANGED <<event, mandate>>,
             worker'[w].pc \in {"insert", "converge"} =>
              /\ event[worker[w].event].type = "ACTIVATED"
              /\ mandate[event[worker[w].event].ext].plan = worker'[w].plan
      PROVE  InHand'
  BY <1>4 DEF InHand, Carried, Others
<1>5. CASE Kept \/ (\E m \in Mandates : Turned(m)) \/ Delivered \/ Lapsed \/ \E e \in Events : Matches(e)
  <2>1. UNCHANGED worker
    BY <1>5 DEF Kept, Turned, Delivered, Lapsed, Matches
  <2>2. \A e \in Events : event[e].state = "STORED" =>
          event'[e].state = "STORED" \/ ~EventLocked(e)
    BY <1>5 DEF Kept, Turned, Emitted, Delivered, Lapsed, Matches, EventDone
  <2>3. QED
    BY <1>2, <2>1, <2>2
<1>6. ASSUME NEW w \in Workers, KindOfWorker(w)
      PROVE  InHand'
  <2>1. CASE \/ Rests(w) \/ Reads(w) \/ Locks(w) \/ Confirms(w) \/ Changes(w)
             \/ (\E m \in Mandates : Creates(w, m)) \/ Saves(w)
    <3>1. Others(w) /\ worker'[w].pc \notin Handling /\ UNCHANGED event
      BY <2>1 DEF Rests, Reads, Locks, Confirms, Changes, Creates, Saves, Rested, Carried, Handling
    <3>2. QED
      BY <1>3, <3>1
  <2>2. CASE Drops(w) \/ HandlesLate(w) \/ Inserts(w) \/ Converges(w)
    <3>1. /\ Others(w) /\ worker'[w].pc \notin Handling
          /\ worker[w].pc \in Handling /\ EventDone(worker[w].event)
      BY <2>2 DEF Drops, HandlesLate, Inserts, Converges, Rested, Handling
    <3>2. QED
      BY <1>3, <3>1
  <2>3. ASSUME NEW e \in Events, Takes(w, e)
        PROVE  InHand'
    <3>1. \A v \in Workers : worker[v].event # e
      BY <2>3 DEF Takes, EventLocked
    <3>2. QED
      BY <2>3, <3>1 DEF Takes, Others, InHand
  <2>4. CASE Finds(w)
    BY <1>4, <2>4 DEF Finds, Handling
  <2>5. CASE FindsCheckout(w)
    <3>1. checkout.ext \in Mandates /\ mandate[checkout.ext].plan = checkout.plan
      BY <1>h, <2>5, NoneIsNew DEF FindsCheckout, Handling, Bought
    <3>2. QED
      BY <1>4, <2>5, <3>1 DEF FindsCheckout, Handling
  <2>6. CASE Collides(w)
    BY <1>4, <2>6 DEF Collides, Handling, InHand
  <2>7. QED
    BY <1>6, <2>1, <2>2, <2>3, <2>4, <2>5, <2>6 DEF KindOfWorker
<1>7. QED
  BY <1>5, <1>6 DEF Kind

-----------------------------------------------------------------------------
(* The subscription.                                                       *)

Subscribed ==
    /\ sub.ext # None => sub.status # "NONE"
    /\ \A w \in Workers : worker[w].pc \in {"late", "converge"} =>
        sub.status # "NONE" /\ worker[w].copy.status # "NONE"
    /\ ActivationSubscribes

\* A subscription that is there stays.
LEMMA StatusKept ==
    ASSUME Typed, Kind, sub.status # "NONE"
    PROVE  sub'.status # "NONE"
<1>1. ASSUME NEW w \in Workers, Changes(w)
      PROVE  sub'.status # "NONE"
  <2>1. worker[w].copy.status \in Statuses
    BY <1>1 DEF Changes, Typed, Sound
  <2>2. \A s \in Statuses : "NONE" \notin Legal[s]
    BY DEF Statuses, Legal
  <2>3. QED
    BY <1>1, <2>1, <2>2 DEF Changes
<1>2. ASSUME NEW w \in Workers, KindOfWorker(w), ~Changes(w)
      PROVE  sub'.status # "NONE"
  BY <1>2 DEF KindOfWorker, Rests, Reads, Locks, Creates, Saves, Confirms, Takes, Finds,
              FindsCheckout, Drops, HandlesLate, Handles, Inserts, Collides, Converges
<1>3. CASE Kept \/ (\E m \in Mandates : Turned(m)) \/ Delivered \/ Lapsed \/ \E e \in Events : Matches(e)
  BY <1>3 DEF Kept, Turned, Delivered, Lapsed, Matches, Handles
<1>4. QED
  BY <1>1, <1>2, <1>3 DEF Kind

\* The subscription gets a mandate only with a status.
LEMMA SubscribedRow ==
    ASSUME Typed, InHand, Known, Subscribed, Kind
    PROVE  sub'.ext # None => sub'.status # "NONE"
<1>1. CASE sub.status # "NONE"
  BY <1>1, StatusKept
<1>2. CASE sub.status = "NONE"
  <2>0. sub.ext = None
    BY <1>2 DEF Subscribed
  <2>1. ASSUME NEW w \in Workers, KindOfWorker(w)
        PROVE  sub'.ext # None => sub'.status # "NONE"
    <3>1. CASE Converges(w)
      BY <1>2, <3>1 DEF Converges, Subscribed
    <3>2. CASE Inserts(w)
      BY <3>2 DEF Inserts
    <3>3. CASE ~Converges(w) /\ ~Inserts(w)
      BY <2>0, <2>1, <3>3 DEF KindOfWorker, Rests, Reads, Locks, Creates, Saves, Confirms, Changes,
              Takes, Finds, FindsCheckout, Drops, HandlesLate, Handles, Collides
    <3>4. QED
      BY <3>1, <3>2, <3>3
  <2>2. CASE Kept \/ (\E m \in Mandates : Turned(m)) \/ Delivered \/ Lapsed \/ \E e \in Events : Matches(e)
    BY <2>0, <2>2 DEF Kept, Turned, Delivered, Lapsed, Matches, Handles
  <2>3. QED
    BY <2>1, <2>2 DEF Kind
<1>3. QED
  BY <1>1, <1>2

\* What a worker copied is of a subscription.
LEMMA CopiesKept ==
    ASSUME Typed, InHand, Known, Subscribed, Kind
    PROVE  \A w \in Workers : worker'[w].pc \in {"late", "converge"} =>
            sub'.status # "NONE" /\ worker'[w].copy.status # "NONE"
<1>0. ASSUME NEW w \in Workers, worker'[w] = worker[w], worker'[w].pc \in {"late", "converge"}
      PROVE  sub'.status # "NONE" /\ worker'[w].copy.status # "NONE"
  BY <1>0, StatusKept DEF Subscribed
<1>1. CASE UNCHANGED worker
  BY <1>0, <1>1
<1>2. ASSUME NEW w \in Workers, KindOfWorker(w)
      PROVE  \A v \in Workers : worker'[v].pc \in {"late", "converge"} =>
              sub'.status # "NONE" /\ worker'[v].copy.status # "NONE"
  <2>1. \A v \in Workers : v # w => worker'[v] = worker[v]
    BY <1>2 DEF KindOfWorker, Rests, Reads, Locks, Creates, Saves, Confirms, Changes, Takes, Finds,
            FindsCheckout, Drops, HandlesLate, Inserts, Collides, Converges, Rested, Carried, Others
  <2>2. CASE Finds(w)
    <3>1. sub.ext \in Mandates
      BY <2>2, HandlingEvent DEF Finds, InHand, Known, Handling
    <3>2. sub.status # "NONE" /\ UNCHANGED sub /\ worker'[w].copy = sub
      BY <2>2, <3>1, NoneIsNew DEF Finds, Subscribed
    <3>3. QED
      BY <1>0, <2>1, <3>2
  <2>3. CASE Collides(w)
    BY <1>0, <2>1, <2>3 DEF Collides
  <2>4. CASE ~Finds(w) /\ ~Collides(w)
    <3>1. worker'[w].pc \notin {"late", "converge"}
      BY <1>2, <2>4 DEF KindOfWorker, Rests, Reads, Locks, Creates, Saves, Confirms, Changes, Takes,
              FindsCheckout, Drops, HandlesLate, Inserts, Converges, Rested
    <3>2. QED
      BY <1>0, <2>1, <3>1
  <2>5. QED
    BY <2>2, <2>3, <2>4
<1>3. CASE Kept \/ (\E m \in Mandates : Turned(m)) \/ Delivered \/ Lapsed \/ \E e \in Events : Matches(e)
  BY <1>1, <1>3 DEF Kept, Turned, Delivered, Lapsed, Matches
<1>4. QED
  BY <1>2, <1>3 DEF Kind

\* An activation is done with only when the subscription is there, or its
\* mandate is not on record.
LEMMA ActivationKept ==
    ASSUME Typed, OnRecord, OnRecord', Known, InHand, Subscribed, Kind
    PROVE  ActivationSubscribes'
<1>1. SUFFICES ASSUME NEW e \in Events, event'[e].state = "PROCESSED",
                      event'[e].type = "ACTIVATED", Live(event[e].ext)'
               PROVE  sub'.status # "NONE"
  BY DEF ActivationSubscribes
<1>2. CASE sub.status # "NONE"
  BY <1>2, StatusKept
<1>3. CASE sub.status = "NONE" /\ event[e].state = "PROCESSED"
  <2>1. /\ event[e].type = "ACTIVATED" /\ event'[e].ext = event[e].ext
        /\ event[e].ext \in Mandates
        /\ mandate[event[e].ext].state \notin {"NONE", "INITIALIZED"}
    BY <1>1, <1>3, Growing DEF Grown, SameEvent, Known
  <2>m. PICK m \in Mandates : m = event[e].ext
    BY <2>1
  <2>2. ~Live(m)
    BY <1>3, <2>1, <2>m DEF Subscribed, ActivationSubscribes
  <2>3. Live(m)'
    BY <1>1, <2>1, <2>m DEF Live
  <2>4. PICK w \in Workers : Saves(w) /\ worker[w].mandate = m
    BY <2>2, <2>3, LiveKept
  <2>5. mandate'[m].state = mandate[m].state
    BY <2>4 DEF Saves
  <2>6. QED
    BY <2>1, <2>m, <2>2, <2>3, <2>5 DEF Live
<1>4. CASE sub.status = "NONE" /\ event[e].state # "PROCESSED"
  <2>1. CASE \E f \in Events : Matches(f)
    <3>1. PICK f \in Events : Matches(f)
      BY <2>1
    <3>2. f = e
      BY <1>1, <1>4, <3>1 DEF Matches, EventDone
    <3>3. sub.ext \in Mandates
      BY <3>1, <3>2 DEF Matches, Known
    <3>4. QED
      BY <1>4, <3>3, NoneIsNew DEF Subscribed
  <2>2. ASSUME NEW w \in Workers, Drops(w)
        PROVE  FALSE
    <3>1. worker[w].event = e
      BY <1>1, <1>4, <2>2 DEF Drops, EventDone
    <3>2. event'[e].ext = event[e].ext /\ event[e].type = "ACTIVATED" /\ event[e].ext \in Mandates
      BY <1>1, <2>2, <3>1 DEF Drops, EventDone, SameEvent, InHand, Known, Handling
    <3>m. PICK m \in Mandates : m = event[e].ext
      BY <3>2
    <3>3. checkout'.ext # m
      BY <2>2, <3>1, <3>2, <3>m DEF Drops
    <3>4. Live(m)'
      BY <1>1, <3>2, <3>m DEF Live
    <3>5. QED
      BY <3>3, <3>4 DEF OnRecord, LiveMandateOnRecord
  <2>3. ASSUME NEW w \in Workers, KindOfWorker(w), ~Drops(w)
        PROVE  sub'.status # "NONE"
    <3>1. CASE HandlesLate(w) \/ Converges(w)
      BY <1>4, <3>1 DEF HandlesLate, Converges, Subscribed
    <3>2. CASE Inserts(w)
      BY <3>2 DEF Inserts
    <3>3. CASE ~(HandlesLate(w) \/ Converges(w) \/ Inserts(w))
      <4>1. UNCHANGED event
        BY <2>3, <3>3 DEF KindOfWorker, Rests, Reads, Locks, Creates, Saves, Confirms, Changes, Takes,
               Finds, FindsCheckout, Collides
      <4>2. QED
        BY <1>1, <1>4, <4>1
    <3>4. QED
      BY <3>1, <3>2, <3>3
  <2>4. CASE Kept \/ (\E m \in Mandates : Turned(m)) \/ Delivered \/ Lapsed
    <3>1. event'[e].state # "PROCESSED" \/ event'[e].state = event[e].state
      BY <2>4 DEF Kept, Turned, Emitted, Delivered, Lapsed
    <3>2. QED
      BY <1>1, <1>4, <3>1
  <2>5. QED
    BY <2>1, <2>2, <2>3, <2>4 DEF Kind
<1>5. QED
  BY <1>2, <1>3, <1>4

LEMMA SubscribedKept ==
    ASSUME Typed, OnRecord, OnRecord', Known, InHand, Subscribed, Kind
    PROVE  Subscribed'
  BY SubscribedRow, CopiesKept, ActivationKept DEF Subscribed

-----------------------------------------------------------------------------
(* Charges and periods.                                                    *)

Counted == month + Cardinality(UndatedCounted)

Charged ==
    /\ \A e \in Events : event[e].period # None => event[e].period <= month
    /\ sub.period <= Counted
    /\ \A w \in Workers : worker[w].copy.period <= Counted

LEMMA Undateds ==
    /\ IsFiniteSet(UndatedCounted) /\ Cardinality(UndatedCounted) \in Nat
    /\ IsFiniteSet(UndatedCounted') /\ Cardinality(UndatedCounted') \in Nat
<1>1. IsFiniteSet(Events)
  BY FS_Interval, BoundsAreNat DEF Events
<1>2. UndatedCounted \subseteq Events /\ UndatedCounted' \subseteq Events
  BY DEF UndatedCounted
<1>3. QED
  BY <1>1, <1>2, FS_Subset, FS_CardinalityType

\* The count never falls, and rises when an undated charge is done with.
LEMMA CountGrows ==
    ASSUME Typed, InHand, Kind
    PROVE  /\ Counted \in Nat /\ Counted' \in Nat /\ Counted <= Counted'
           /\ month' \in Nat
           /\ \A e \in Events :
               (/\ event[e].state = "STORED" /\ EventDone(e)
                /\ event[e].type = "CHARGED" /\ event[e].period = None)
               => Counted + 1 <= Counted'
<1>0. month \in Nat /\ month' \in Nat /\ month <= month'
  <2>1. month \in Nat
    BY DEF Typed, TypeOK
  <2>2. CASE Lapsed
    BY <2>1, <2>2 DEF Lapsed
  <2>3. CASE ~Lapsed
    <3>1. month' = month
      BY <2>3 DEF Kind, KindOfWorker, Kept, Turned, Delivered, Matches, Rests, Reads, Locks, Creates,
             Saves, Confirms, Changes, Takes, Finds, FindsCheckout, Drops, HandlesLate, Inserts,
             Collides, Converges
    <3>2. QED
      BY <2>1, <3>1
  <2>4. QED
    BY <2>2, <2>3
<1>1. UndatedCounted \subseteq UndatedCounted'
  <2>1. SUFFICES ASSUME NEW e \in Events, event[e].state = "PROCESSED"
                 PROVE  event'[e].state = "PROCESSED" /\ SameEvent(e)
    BY DEF UndatedCounted, SameEvent
  <2>2. SameEvent(e)
    BY <2>1, Growing DEF Grown
  <2>3. event'[e].state = "PROCESSED"
    BY <2>1, EventKinds DEF Emitted, Delivered, Lapsed, EventDone
  <2>4. QED
    BY <2>2, <2>3
<1>2. Cardinality(UndatedCounted) <= Cardinality(UndatedCounted')
  BY <1>1, Undateds, FS_Subset
<1>3. Counted \in Nat /\ Counted' \in Nat /\ Counted <= Counted'
  BY <1>0, <1>2, Undateds DEF Counted
<1>4. ASSUME NEW e \in Events, event[e].state = "STORED", EventDone(e),
             event[e].type = "CHARGED", event[e].period = None
      PROVE  Counted + 1 <= Counted'
  <2>1. e \notin UndatedCounted /\ e \in UndatedCounted'
    BY <1>4 DEF UndatedCounted, EventDone, SameEvent
  <2>2. Cardinality(UndatedCounted \cup {e}) = Cardinality(UndatedCounted) + 1
    BY <2>1, Undateds, FS_AddElement
  <2>3. UndatedCounted \cup {e} \subseteq UndatedCounted'
    BY <1>1, <2>1
  <2>4. Cardinality(UndatedCounted \cup {e}) <= Cardinality(UndatedCounted')
    BY <2>3, Undateds, FS_Subset
  <2>5. QED
    BY <1>0, <2>2, <2>4, Undateds DEF Counted
<1>5. QED
  BY <1>0, <1>3, <1>4

\* A handled charge moves the period within what is counted.
LEMMA HandledPeriod ==
    ASSUME Typed, InHand, Charged, Kind, NEW e \in Events, NEW row \in SubRow,
           row.period <= Counted, event[e].state = "STORED", EventDone(e), Handles(row, e)
    PROVE  sub'.period <= Counted'
<1>0. /\ sub.period \in Nat /\ row.period \in Nat /\ month \in Nat
      /\ event[e].period \in Nat \cup {None} /\ Counted <= Counted' /\ Counted \in Nat /\ Counted' \in Nat
  BY CountGrows DEF Typed, TypeOK, SubRow, EventRow
<1>1. CASE sub'.period = sub.period
  BY <1>0, <1>1 DEF Charged
<1>2. CASE event[e].type = "CHARGED" /\ sub'.period = ChargedFor(row, event[e])
  <2>1. CASE event[e].period = None
    <3>1. sub'.period = row.period + 1 /\ Counted + 1 <= Counted'
      BY <1>2, <2>1, CountGrows DEF ChargedFor
    <3>2. QED
      BY <1>0, <3>1
  <2>2. CASE event[e].period # None
    <3>1. sub'.period = event[e].period /\ event[e].period <= month /\ event[e].period \in Nat
      BY <1>0, <1>2, <2>2 DEF ChargedFor, Charged
    <3>2. month <= Counted
      BY <1>0, Undateds DEF Counted
    <3>3. QED
      BY <1>0, <3>1, <3>2
  <2>3. QED
    BY <2>1, <2>2
<1>3. QED
  BY <1>1, <1>2 DEF Handles

LEMMA PeriodKept ==
    ASSUME Typed, InHand, Charged, Kind
    PROVE  sub'.period <= Counted'
<1>0. /\ sub \in SubRow /\ month \in Nat /\ Counted \in Nat /\ Counted' \in Nat /\ Counted <= Counted'
      /\ sub.period \in Nat
      /\ \A w \in Workers : worker[w].copy \in SubRow
  BY CountGrows DEF Typed, TypeOK, WorkerRow, SubRow
<1>1. CASE sub'.period = sub.period
  BY <1>0, <1>1 DEF Charged
<1>2. ASSUME NEW e \in Events, Matches(e)
      PROVE  sub'.period <= Counted'
  <2>1. event[e].state = "STORED" /\ EventDone(e) /\ Handles(sub, e) /\ sub.period <= Counted
    BY <1>2 DEF Matches, Charged
  <2>2. QED
    BY <1>0, <2>1, HandledPeriod
<1>3. ASSUME NEW w \in Workers, HandlesLate(w)
      PROVE  sub'.period <= Counted'
  <2>1. /\ worker[w].event \in Events /\ event[worker[w].event].state = "STORED"
        /\ EventDone(worker[w].event) /\ Handles(worker[w].copy, worker[w].event)
        /\ worker[w].copy.period <= Counted
    BY <1>3, HandlingEvent DEF HandlesLate, Handling, InHand, Charged
  <2>2. QED
    BY <1>0, <2>1, HandledPeriod
<1>4. ASSUME NEW w \in Workers, Inserts(w)
      PROVE  sub'.period <= Counted'
  <2>1. sub'.period = month /\ month <= Counted
    BY <1>0, <1>4, Undateds DEF Inserts, Counted
  <2>2. QED
    BY <1>0, <2>1
<1>5. ASSUME NEW w \in Workers, KindOfWorker(w), ~HandlesLate(w), ~Inserts(w)
      PROVE  sub'.period = sub.period
  BY <1>5 DEF KindOfWorker, Rests, Reads, Locks, Creates, Saves, Confirms, Changes, Takes, Finds,
          FindsCheckout, Drops, Collides, Converges
<1>6. CASE Kept \/ (\E m \in Mandates : Turned(m)) \/ Delivered \/ Lapsed
  BY <1>1, <1>6 DEF Kept, Turned, Delivered, Lapsed
<1>7. QED
  BY <1>1, <1>2, <1>3, <1>4, <1>5, <1>6 DEF Kind

LEMMA ChargedKept ==
    ASSUME Typed, InHand, Charged, Kind
    PROVE  Charged'
<1>0. /\ sub.period \in Nat /\ month \in Nat /\ month' \in Nat
      /\ Counted \in Nat /\ Counted' \in Nat /\ Counted <= Counted'
      /\ \A w \in Workers : worker[w].copy.period \in Nat
      /\ \A e \in Events : event[e].period \in Nat \cup {None}
  <2>1. /\ sub \in SubRow /\ month \in Nat /\ event \in [Events -> EventRow]
        /\ \A w \in Workers : worker[w].copy \in SubRow
    BY DEF Typed, TypeOK, WorkerRow
  <2>2. \A e \in Events : event[e].period \in Nat \cup {None}
    BY <2>1 DEF EventRow
  <2>3. QED
    BY <2>1, <2>2, CountGrows DEF SubRow
<1>1. \A e \in Events : event'[e].period # None => event'[e].period <= month'
  <2>1. CASE Lapsed
    BY <1>0, <2>1 DEF Lapsed, SameEvent, Charged
  <2>2. CASE ~Lapsed
    <3>1. month' = month
      BY <2>2 DEF Kind, KindOfWorker, Kept, Turned, Delivered, Matches, Rests, Reads, Locks, Creates,
             Saves, Confirms, Changes, Takes, Finds, FindsCheckout, Drops, HandlesLate, Inserts,
             Collides, Converges
    <3>2. \A e \in Events : event'[e].period \in {event[e].period, None, month}
      BY <2>2, EventKinds DEF Emitted, Delivered, EventDone, SameEvent
    <3>3. QED
      BY <1>0, <3>1, <3>2 DEF Charged
  <2>3. QED
    BY <2>1, <2>2
<1>2. \A w \in Workers : worker'[w].copy.period <= Counted'
  <2>0. NoSub.period = 0
    BY DEF NoSub
  <2>1. \A w \in Workers : worker'[w].copy \in {worker[w].copy, sub, NoSub}
    <3>1. ASSUME NEW w \in Workers, KindOfWorker(w)
          PROVE  \A v \in Workers : worker'[v].copy \in {worker[v].copy, sub, NoSub}
      BY <3>1 DEF KindOfWorker, Rests, Reads, Locks, Creates, Saves, Confirms, Changes, Takes, Finds,
              FindsCheckout, Drops, HandlesLate, Inserts, Collides, Converges, Rested, Carried, Others
    <3>2. CASE Kept \/ (\E m \in Mandates : Turned(m)) \/ Delivered \/ Lapsed \/ \E e \in Events : Matches(e)
      BY <3>2 DEF Kept, Turned, Delivered, Lapsed, Matches
    <3>3. QED
      BY <3>1, <3>2 DEF Kind
  <2>2. QED
    BY <1>0, <2>0, <2>1 DEF Charged
<1>3. QED
  BY <1>1, <1>2, PeriodKept DEF Charged

-----------------------------------------------------------------------------
(* The moves of the plan and of the status.                                *)

LEMMA PlanMoves ==
    ASSUME Typed, Known, InHand, Kind
    PROVE  PlanStep
<1>1. SUFFICES ASSUME sub'.plan # sub.plan
               PROVE  \/ \E w \in Workers : ActsOnCopy(w) /\ worker[w].pc = "patch"
                      \/ PlanIsAuthorised /\ sub.status = "NONE"
                      \/ /\ PlanIsAuthorised
                         /\ \E w \in Workers :
                             ActsOnCopy(w) /\ Upgrade(worker[w].copy.plan, sub'.plan)
  BY DEF PlanStep
<1>2. ASSUME NEW w \in Workers, worker[w].pc \in {"insert", "converge"},
             sub'.plan = worker[w].plan, sub'.ext = event[worker[w].event].ext
      PROVE  PlanIsAuthorised
  <2>1. /\ sub'.ext \in Mandates
        /\ mandate[sub'.ext].state \notin {"NONE", "INITIALIZED"}
        /\ mandate[sub'.ext].plan = sub'.plan
    BY <1>2, HandlingEvent DEF InHand, Known, Handling
  <2>2. QED
    BY <2>1, NoneIsNew DEF PlanIsAuthorised
<1>3. ASSUME NEW w \in Workers, Changes(w)
      PROVE  ActsOnCopy(w) /\ worker[w].pc = "patch"
  BY <1>3 DEF Changes, Rested, ActsOnCopy
<1>4. ASSUME NEW w \in Workers, Inserts(w)
      PROVE  PlanIsAuthorised /\ sub.status = "NONE"
  BY <1>2, <1>4 DEF Inserts
<1>5. ASSUME NEW w \in Workers, Converges(w)
      PROVE  /\ PlanIsAuthorised
             /\ ActsOnCopy(w) /\ Upgrade(worker[w].copy.plan, sub'.plan)
  <2>1. /\ worker[w].pc = "converge"
        /\ sub'.plan = worker[w].plan /\ sub'.ext = event[worker[w].event].ext
        /\ Upgrade(worker[w].copy.plan, worker[w].plan)
    BY <1>1, <1>5 DEF Converges
  <2>2. ActsOnCopy(w)
    BY <1>5 DEF Converges, Rested, ActsOnCopy
  <2>3. QED
    BY <1>2, <2>1, <2>2
<1>6. ASSUME NEW w \in Workers, KindOfWorker(w), ~Changes(w), ~Inserts(w), ~Converges(w)
      PROVE  FALSE
  BY <1>1, <1>6 DEF KindOfWorker, Rests, Reads, Locks, Creates, Saves, Confirms, Takes, Finds,
          FindsCheckout, Drops, HandlesLate, Handles, Collides
<1>7. ~(Kept \/ (\E m \in Mandates : Turned(m)) \/ Delivered \/ Lapsed \/ \E e \in Events : Matches(e))
  BY <1>1 DEF Kept, Turned, Delivered, Lapsed, Matches, Handles
<1>8. QED
  BY <1>3, <1>4, <1>5, <1>6, <1>7 DEF Kind

LEMMA StatusMoves ==
    ASSUME Typed, Subscribed, Kind
    PROVE  StatusStep
<1>1. SUFFICES ASSUME sub.status # "NONE", sub'.status # sub.status
               PROVE  \/ sub'.status \in Legal[sub.status]
                      \/ \E w \in Workers : ActsOnCopy(w) /\ sub'.status \in Legal[worker[w].copy.status]
  BY DEF StatusStep
<1>2. ASSUME NEW e \in Events, Matches(e)
      PROVE  sub'.status \in Legal[sub.status]
  BY <1>1, <1>2 DEF Matches, Handles
<1>3. ASSUME NEW w \in Workers, Changes(w) \/ HandlesLate(w) \/ Converges(w)
      PROVE  ActsOnCopy(w) /\ sub'.status \in Legal[worker[w].copy.status]
  <2>1. ActsOnCopy(w)
    BY <1>3 DEF Changes, HandlesLate, Converges, Rested, ActsOnCopy
  <2>2. CASE Changes(w)
    BY <1>1, <2>1, <2>2 DEF Changes
  <2>3. CASE HandlesLate(w)
    <3>1. worker[w].copy.status # "NONE" /\ Handles(worker[w].copy, worker[w].event)
      BY <2>3 DEF HandlesLate, Subscribed
    <3>2. QED
      BY <1>1, <2>1, <3>1 DEF Handles
  <2>4. CASE Converges(w)
    <3>1. /\ sub'.status = "ACTIVE" /\ worker[w].copy.status \notin {"ACTIVE", "CANCELED", "NONE"}
          /\ worker[w].copy.status \in Statuses \cup {"NONE"}
      BY <1>1, <2>4 DEF Converges, Subscribed, Typed, TypeOK, WorkerRow, SubRow
    <3>2. \A s \in Statuses \ {"ACTIVE", "CANCELED"} : "ACTIVE" \in Legal[s]
      BY DEF Statuses, Legal
    <3>3. sub'.status \in Legal[worker[w].copy.status]
      BY <3>1, <3>2
    <3>4. QED
      BY <2>1, <3>3
  <2>5. QED
    BY <1>3, <2>2, <2>3, <2>4
<1>4. ASSUME NEW w \in Workers, KindOfWorker(w), ~Changes(w), ~HandlesLate(w), ~Converges(w)
      PROVE  FALSE
  BY <1>1, <1>4 DEF KindOfWorker, Rests, Reads, Locks, Creates, Saves, Confirms, Takes, Finds,
          FindsCheckout, Drops, Inserts, Collides
<1>5. ~(Kept \/ (\E m \in Mandates : Turned(m)) \/ Delivered \/ Lapsed)
  BY <1>1 DEF Kept, Turned, Delivered, Lapsed
<1>6. QED
  BY <1>2, <1>3, <1>4, <1>5 DEF Kind

\* An event's one effect is in the step that marks it.
LEMMA EffectMoves ==
    ASSUME Typed, InHand, Kind
    PROVE  EffectStep
<1> DEFINE Once == /\ \A e \in Events : event[e].state = "PROCESSED" => event'[e].state = "PROCESSED"
                   /\ \A e, f \in Events : Applies(e) /\ Applies(f) => e = f
<1>1. ASSUME sub' # sub
      PROVE  \/ \E w \in Workers : ActsOnCopy(w) /\ worker[w].pc = "patch"
             \/ \E e \in Events : Applies(e)
  <2>1. ASSUME NEW e \in Events, Matches(e)
        PROVE  Applies(e)
    BY <2>1 DEF Matches, EventDone, Applies
  <2>2. ASSUME NEW w \in Workers, Changes(w)
        PROVE  ActsOnCopy(w) /\ worker[w].pc = "patch"
    BY <2>2 DEF Changes, Rested, ActsOnCopy
  <2>3. ASSUME NEW w \in Workers, HandlesLate(w) \/ Inserts(w) \/ Converges(w)
        PROVE  \E e \in Events : Applies(e)
    <3>1. EventDone(worker[w].event) /\ worker[w].pc \in Handling
      BY <2>3 DEF HandlesLate, Inserts, Converges, Handling
    <3>2. worker[w].event \in Events /\ event[worker[w].event].state = "STORED"
      BY <3>1, HandlingEvent DEF InHand
    <3>3. QED
      BY <3>1, <3>2 DEF EventDone, Applies
  <2>4. ASSUME NEW w \in Workers, KindOfWorker(w), ~Changes(w), ~HandlesLate(w), ~Inserts(w), ~Converges(w)
        PROVE  FALSE
    BY <1>1, <2>4 DEF KindOfWorker, Rests, Reads, Locks, Creates, Saves, Confirms, Takes, Finds,
            FindsCheckout, Drops, Collides
  <2>5. ~(Kept \/ (\E m \in Mandates : Turned(m)) \/ Delivered \/ Lapsed)
    BY <1>1 DEF Kept, Turned, Delivered, Lapsed
  <2>6. QED
    BY <2>1, <2>2, <2>3, <2>4, <2>5 DEF Kind
<1>2. Once
  <2>1. CASE UNCHANGED event \/ Delivered \/ Lapsed
    BY <2>1 DEF Delivered, Lapsed, Applies
  <2>2. ASSUME NEW m \in Mandates, Emitted(m)
        PROVE  Once
    BY <2>2 DEF Emitted, Applies
  <2>3. ASSUME NEW e \in Events, event[e].state = "STORED", EventDone(e)
        PROVE  Once
    BY <2>3 DEF EventDone, Applies
  <2>4. QED
    BY <2>1, <2>2, <2>3, EventKinds
<1>3. QED
  BY <1>1, <1>2 DEF EffectStep

-----------------------------------------------------------------------------
(* The invariant, and what it gives.                                       *)

Inv == Typed /\ OnRecord /\ Bought /\ Known /\ InHand /\ Subscribed /\ Charged

LEMMA InitInv ==
    ASSUME Init
    PROVE  Inv
<1>1. sub \in SubRow /\ sub.ext = None /\ sub.period = 0
  <2>1. CASE sub = NoSub
    BY <2>1, NoSubRow DEF NoSub
  <2>2. ASSUME NEW p \in Seeds, sub = Seeded(p)
        PROVE  sub \in SubRow /\ sub.ext = None /\ sub.period = 0
    BY <2>2, SeedsArePlans DEF Seeded, NoSub, SubRow, Statuses
  <2>3. QED
    BY <2>1, <2>2 DEF Init
<1>2. /\ checkout \in CheckoutRow /\ checkout.ext = None /\ ~checkout.stale
  BY DEF Init, NoCheckout, CheckoutRow
<1>3. /\ mandate \in [Mandates -> MandateRow] /\ \A m \in Mandates : mandate[m].state = "NONE"
  BY DEF Init, NoMandate, MandateRow
<1>4. /\ event \in [Events -> EventRow]
      /\ \A e \in Events : event[e].state = "NONE" /\ event[e].period = None
  BY DEF Init, NoEvent, EventRow
<1>5. /\ worker \in [Workers -> WorkerRow]
      /\ \A w \in Workers : worker[w].pc = "idle" /\ worker[w].copy.period = 0
  BY NoSubRow DEF Init, Idle, NoSub, WorkerRow
<1>6. Typed
  BY <1>1, <1>2, <1>3, <1>4, <1>5, BoundsAreNat DEF Typed, TypeOK, Sound, Handling, Init
<1>7. OnRecord
  BY <1>2, <1>3, <1>5 DEF OnRecord, LiveMandateOnRecord, Live
<1>8. Bought /\ Known /\ InHand
  BY <1>2, <1>4, <1>5 DEF Bought, Known, InHand, Handling
<1>9. Subscribed
  BY <1>1, <1>4, <1>5 DEF Subscribed, ActivationSubscribes
<1>10. Charged
  <2>1. 0 <= Counted
    BY Undateds DEF Counted, Init
  <2>2. QED
    BY <1>1, <1>4, <1>5, <2>1 DEF Charged
<1>11. QED
  BY <1>6, <1>7, <1>8, <1>9, <1>10 DEF Inv

LEMMA InvKept ==
    ASSUME Inv, [Next]_vars
    PROVE  Inv'
<1>1. Typed' /\ Kind
  BY StepKind DEF Inv
<1>2. OnRecord'
  BY <1>1, OnRecordKept DEF Inv
<1>3. Bought' /\ Known' /\ InHand'
  BY <1>1, BoughtKept, KnownKept, InHandKept DEF Inv
<1>4. Subscribed'
  BY <1>1, <1>2, SubscribedKept DEF Inv
<1>5. Charged'
  BY <1>1, ChargedKept DEF Inv
<1>6. QED
  BY <1>1, <1>2, <1>3, <1>4, <1>5 DEF Inv

\* Every part of the invariant holds at once: a step keeps one part by the others.
THEOREM Invariance == Spec => []Inv
  BY InitInv, InvKept, PTL DEF Spec

\* The rows have the types declared for them, whatever is interleaved with
\* the PATCH endpoints, the webhooks and the sweep.
THEOREM RowsTyped == Spec => []TypeOK
<1>1. Inv => TypeOK
  BY DEF Inv, Typed
<1>2. QED
  BY <1>1, Invariance, PTL

\* However requests, deaths, slow banks and lapsing links interleave in
\* create_checkout, the owner holds at most the mandate on the checkout row.
THEOREM OneLiveMandate == Spec => []LiveMandateOnRecord
<1>1. Inv => LiveMandateOnRecord
  BY DEF Inv, OnRecord
<1>2. QED
  BY <1>1, Invariance, PTL

\* _handle_activated never discards the activation of a live mandate.
THEOREM ActivationsKept == Spec => []ActivationSubscribes
<1>1. Inv => ActivationSubscribes
  BY DEF Inv, Subscribed
<1>2. QED
  BY <1>1, Invariance, PTL

\* process_event applies each undated charge once.
THEOREM ChargesOnce == Spec => []ChargesCountOnce
<1>1. Inv => ChargesCountOnce
  BY DEF Inv, Charged, Counted, ChargesCountOnce
<1>2. QED
  BY <1>1, Invariance, PTL

\* The plan of a subscription is one that its mandate pays, or the operator's.
THEOREM PlanPaid == Spec => PaidPlan
<1>1. Inv /\ [Next]_vars => [PlanStep]_vars
  BY StepKind, PlanMoves DEF Inv
<1>2. QED
  BY <1>1, Invariance, PTL DEF Spec, PaidPlan

\* Under the subscription's lock every move is of LEGAL_TRANSITIONS.
THEOREM StatusLegal == Spec => LegalMoves
<1>1. Inv /\ [Next]_vars => [StatusStep]_vars
  BY StepKind, StatusMoves DEF Inv
<1>2. QED
  BY <1>1, Invariance, PTL DEF Spec, LegalMoves

\* process_event marks an event and applies it in one transaction: whatever is
\* delivered twice, swept or retried, each event changes the subscription once.
THEOREM AppliedOnce == Spec => EffectsOnce
<1>1. Inv /\ [Next]_vars => [EffectStep]_vars
  BY StepKind, EffectMoves DEF Inv
<1>2. QED
  BY <1>1, Invariance, PTL DEF Spec, EffectsOnce
=============================================================================
