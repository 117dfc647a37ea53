---------------------------- MODULE BillingCycle ----------------------------
(***************************************************************************)
(* One month of a workspace's billing (apps/properties/services.py,        *)
(* SequenceService, BillService and BillingCycleService): opening the      *)
(* cycle, generating and regenerating draft bills from the leases, editing *)
(* and publishing them, numbering, corrections, cancellation, closing.     *)
(*                                                                         *)
(* generate and publish_all are loops of many transactions, so each is a   *)
(* worker that remembers what it read: the cycle's status is read once,    *)
(* before anything is locked; the bill found for a lease, the draft the    *)
(* delete collected and the list of drafts to publish are all acted on     *)
(* later.  Every other operation locks one row and commits: one step.      *)
(*                                                                         *)
(* A bill's amounts are its lines: the ones it is generated with are one   *)
(* line "base", a manual charge or discount is one line each, and so is    *)
(* each correction; there are no two of a kind (a bound).  Left out: the   *)
(* audit rows, notifications, snapshot columns and the progress report.    *)
(***************************************************************************)
EXTENDS Integers, FiniteSets, FiniteSetsExt

CONSTANTS
    Leases,      \* the leases that are billable in the month
    Tenancy,     \* of each lease: its (unit, resident)
    Place,       \* of each lease: where the order by property and unit puts it
    Bills,       \* Bill rows that may come to exist
    Workers,     \* concurrent generate, publish and publish_all requests
    ManualLines, \* kinds of lines added by hand, some of {"charge", "discount"}
    CorrectionLines, \* kinds of corrections, some of {"increase", "decrease"}
    None         \* no row, no worker

ASSUME TenancyIsFunction == DOMAIN Tenancy = Leases
ASSUME PlaceIsNat == Place \in [Leases -> Nat]
ASSUME NoneIsNone == None \notin Bills \cup Leases \cup Workers

ASSUME LineKindsKnown ==
    ManualLines \subseteq {"charge", "discount"} /\ CorrectionLines \subseteq {"increase", "decrease"}

VARIABLES
    cycle,       \* the BillingCycle row: "NONE" before it is opened
    bill,        \* Bill rows
    next,        \* next_value of the workspace's bill sequence
    worker,      \* what each request is doing
    billLock     \* the worker whose transaction has each bill row

vars == <<cycle, bill, next, worker, billLock>>

OpenBill == {"PUBLISHED", "PARTIALLY_PAID"}     \* OPEN_BILL_STATUSES
IssuedBill == OpenBill \cup {"PAID"}            \* ISSUED_BILL_STATUSES
LiveBill == {"DRAFT"} \cup IssuedBill           \* what the unique constraint counts
BillStatuses == LiveBill \cup {"NONE", "CANCELLED", "DELETED"}

LineKinds == {"base"} \cup ManualLines \cup CorrectionLines
Reductions == {"discount", "decrease"}
Amount(line) == IF line \in Reductions THEN -1 ELSE 1
Sum(lines) == Cardinality(lines \ Reductions) - Cardinality(lines \cap Reductions)

NoBill == [status |-> "NONE", lease |-> None, lines |-> {}, total |-> 0, paid |-> 0, number |-> 0]
BillRow == [status : BillStatuses, lease : Leases \cup {None}, lines : SUBSET LineKinds,
            total : Nat, paid : Nat, number : Nat]

Idle == [pc |-> "idle", leases |-> {}, drafts |-> {}, regenerate |-> FALSE,
         lease |-> None, bill |-> None, seen |-> 0]
WorkerRow ==
    [pc : {"idle", "lease", "collect", "delete", "create", "publish", "number"},
     leases : SUBSET Leases,      \* generate: leases still to do
     drafts : SUBSET Bills,       \* publish_all: drafts still to publish
     regenerate : BOOLEAN,
     lease : Leases \cup {None}, bill : Bills \cup {None},
     seen : Nat]                  \* next_value as get_or_create returned it

TypeOK ==
    /\ cycle \in {"NONE", "OPEN", "CLOSED"}
    /\ bill \in [Bills -> BillRow]
    /\ next \in Nat \ {0}
    /\ worker \in [Workers -> WorkerRow]
    /\ billLock \in [Bills -> Workers \cup {None}]

Init ==
    /\ cycle = "NONE"
    /\ bill = [b \in Bills |-> NoBill]
    /\ next = 1
    /\ worker = [w \in Workers |-> Idle]
    /\ billLock = [b \in Bills |-> None]

-----------------------------------------------------------------------------
(* Small steps several operations share.                                   *)

Become(w, r) == worker' = [worker EXCEPT ![w] = r]
Put(b, row) == bill' = [bill EXCEPT ![b] = row]
Drafts == {b \in Bills : bill[b].status = "DRAFT"}

\* BillService.settle_status, for a bill that is not a draft.
Settled(row) ==
    [row EXCEPT !.status =
        IF row.status = "CANCELLED" THEN "CANCELLED"
        ELSE IF row.paid = 0 THEN (IF row.total = 0 THEN "PAID" ELSE "PUBLISHED")
        ELSE IF row.paid >= row.total THEN "PAID" ELSE "PARTIALLY_PAID"]

\* Mutant: the total is left as it was.
KeepTotal(row) == row
\* BillService.recompute_totals.
Recomputed(row) == [row EXCEPT !.total = Sum(row.lines)]

\* Mutant: a discount may exceed the charges.
AnyTotal(lines) == lines \subseteq LineKinds
\* Otherwise NEGATIVE_TOTAL.
Chargeable(lines) == Sum(lines) >= 0

\* Another bill of the same unit and resident is live: the partial unique
\* constraint on (unit, resident, period_start).
Billed(lease) ==
    \E b \in Bills : bill[b].status \in LiveBill /\ Tenancy[bill[b].lease] = Tenancy[lease]

-----------------------------------------------------------------------------
(* The cycle.                                                              *)

\* Get or create; the unique constraint on the month makes a second open a read.
OpenCycle ==
    /\ cycle = "NONE"
    /\ cycle' = "OPEN"
    /\ UNCHANGED <<bill, next, worker, billLock>>

\* The cycle's row is locked, its bills are only looked at.
Close ==
    /\ cycle = "OPEN"
    /\ Drafts = {}
    /\ cycle' = "CLOSED"
    /\ UNCHANGED <<bill, next, worker, billLock>>

-----------------------------------------------------------------------------
(* generate(): one lease after another, in transactions of their own.      *)

\* The request's cycle object was read by the view: its status is tested here and
\* never again.
GenerateBegin(w) ==
    /\ worker[w].pc = "idle"
    /\ cycle = "OPEN"
    /\ \E regenerate \in BOOLEAN :
           Become(w, [Idle EXCEPT !.pc = "lease", !.leases = Leases, !.regenerate = regenerate])
    /\ UNCHANGED <<cycle, bill, next, billLock>>

NextLease(w) ==
    IF worker[w].leases = {} THEN Idle
    ELSE [worker[w] EXCEPT !.pc = "lease", !.lease = None, !.bill = None]

Skip(w) == Become(w, NextLease(w))

\* The next lease in the list; leases of one unit come in any order.
Upcoming(w) == {l \in worker[w].leases : \A k \in worker[w].leases : Place[l] <= Place[k]}

\* Look for the live bill of the next lease: none, create one; a draft, when
\* regenerating, is to be deleted first; any other is skipped.
FindExisting(w) ==
    /\ worker[w].pc = "lease"
    /\ IF worker[w].leases = {} THEN Become(w, Idle)
       ELSE \E l \in Upcoming(w) :
           LET turn == [worker[w] EXCEPT !.leases = @ \ {l}, !.lease = l]
               existing == {b \in Bills : /\ bill[b].status \in LiveBill
                                          /\ Tenancy[bill[b].lease] = Tenancy[l]} IN
           \/ /\ existing = {}
              /\ Become(w, [turn EXCEPT !.pc = "create"])
           \/ \E b \in existing :
              Become(w, IF bill[b].status = "DRAFT" /\ worker[w].regenerate
                        THEN [turn EXCEPT !.pc = "collect", !.bill = b]
                        ELSE [turn EXCEPT !.lease = None])
    /\ UNCHANGED <<cycle, bill, next, billLock>>

\* The queryset delete first selects the row, if it is still a draft ...
CollectDraft(w) ==
    LET b == worker[w].bill IN
    /\ worker[w].pc = "collect"
    /\ Become(w, [worker[w] EXCEPT !.pc = IF bill[b].status = "DRAFT" THEN "delete" ELSE "create"])
    /\ UNCHANGED <<cycle, bill, next, billLock>>

\* Payments and corrections refer to the bill, ON DELETE nothing.
Referenced(b) == bill[b].paid > 0 \/ bill[b].lines \cap CorrectionLines # {}

\* ... and then deletes it by its id, whatever became of it, unless rows that
\* refer to it were added: then the request fails.
DeleteDraft(w) ==
    LET b == worker[w].bill IN
    /\ worker[w].pc = "delete"
    /\ billLock[b] = None
    /\ \/ /\ Referenced(b)
          /\ Become(w, Idle)
          /\ UNCHANGED bill
       \/ /\ ~Referenced(b)
          /\ bill' = [bill EXCEPT ![b].status = "DELETED"]
          /\ Become(w, [worker[w] EXCEPT !.pc = "create"])
    /\ UNCHANGED <<cycle, next, billLock>>

\* Mutant: what was found is trusted, the constraint is not there.
TrustFound(lease) == lease \in Leases
\* The insert passes the unique constraint.
Insertable(lease) == ~Billed(lease)

\* generate_for_lease: readings or a tariff may be missing; the insert may hit
\* the unique constraint; both are reported and the loop goes on.
CreateBill(w) ==
    LET l == worker[w].lease IN
    /\ worker[w].pc = "create"
    /\ \/ Skip(w) /\ UNCHANGED bill
       \/ /\ Insertable(l)
          /\ \E b \in Bills, lines \in {{}, {"base"}} :
                 /\ bill[b].status = "NONE"
                 /\ Put(b, Recomputed([NoBill EXCEPT !.status = "DRAFT", !.lease = l, !.lines = lines]))
          /\ Skip(w)
    /\ UNCHANGED <<cycle, next, billLock>>

-----------------------------------------------------------------------------
(* publish() and publish_all().                                            *)

PublishBegin(w) ==
    /\ worker[w].pc = "idle"
    /\ \E drafts \in {{b} : b \in {c \in Bills : bill[c].status # "NONE"}} \cup {Drafts} :
           drafts # {} /\ Become(w, [Idle EXCEPT !.pc = "publish", !.drafts = drafts])
    /\ UNCHANGED <<cycle, bill, next, billLock>>

\* Lock the bill.  An issued one is left alone; a cancelled or deleted one fails
\* the request, and the drafts after it are not published.
PublishLock(w) ==
    /\ worker[w].pc = "publish"
    /\ IF worker[w].drafts = {} THEN Become(w, Idle) /\ UNCHANGED billLock
       ELSE \E b \in worker[w].drafts :
           /\ billLock[b] = None
           /\ \/ /\ bill[b].status \in IssuedBill
                 /\ Become(w, [worker[w] EXCEPT !.drafts = @ \ {b}])
                 /\ UNCHANGED billLock
              \/ /\ bill[b].status \in {"CANCELLED", "DELETED"}
                 /\ Become(w, Idle)
                 /\ UNCHANGED billLock
              \/ /\ bill[b].status = "DRAFT"
                 /\ billLock' = [billLock EXCEPT ![b] = w]
                 /\ Become(w, [worker[w] EXCEPT !.pc = "number", !.drafts = @ \ {b},
                                                !.bill = b, !.seen = next])
    /\ UNCHANGED <<cycle, bill, next>>

\* Mutant: the row get_or_create returned is used, not the locked one.
SeenValue(w) == worker[w].seen
\* SequenceService.next_value reads the sequence row again under its lock.
NextValue(w) == next

\* Take the number, issue the bill, commit.
PublishCommit(w) ==
    LET b == worker[w].bill IN
    /\ worker[w].pc = "number"
    /\ Put(b, Settled([bill[b] EXCEPT !.status = "PUBLISHED", !.number = NextValue(w)]))
    /\ next' = NextValue(w) + 1
    /\ billLock' = [billLock EXCEPT ![b] = None]
    /\ Become(w, [worker[w] EXCEPT !.pc = "publish", !.bill = None, !.seen = 0])
    /\ UNCHANGED cycle

\* A worker dies; its open transaction is rolled back.
Crash(w) ==
    /\ worker[w].pc # "idle"
    /\ Become(w, Idle)
    /\ billLock' = [b \in Bills |-> IF billLock[b] = w THEN None ELSE billLock[b]]
    /\ UNCHANGED <<cycle, bill, next>>

-----------------------------------------------------------------------------
(* What the owner does to one bill, under its row lock.                    *)

OwnerStep(b) == billLock[b] = None /\ UNCHANGED <<cycle, next, worker, billLock>>

\* Mutant: lines of an issued bill are edited too.
EditableLive(b) == bill[b].status \in LiveBill
Editable(b) == bill[b].status = "DRAFT"

AddLine(b, line) ==
    /\ OwnerStep(b)
    /\ Editable(b)
    /\ line \notin bill[b].lines
    /\ Chargeable(bill[b].lines \cup {line})
    /\ Put(b, Recomputed([bill[b] EXCEPT !.lines = @ \cup {line}]))

RemoveLine(b, line) ==
    /\ OwnerStep(b)
    /\ Editable(b)
    /\ line \in bill[b].lines
    /\ Chargeable(bill[b].lines \ {line})
    /\ Put(b, Recomputed([bill[b] EXCEPT !.lines = @ \ {line}]))

\* BillCorrectionService: one more line, never below what is paid.
Correct(b, line) ==
    /\ OwnerStep(b)
    /\ bill[b].status \in IssuedBill
    /\ line \notin bill[b].lines
    /\ bill[b].total + Amount(line) >= bill[b].paid
    /\ Put(b, Settled(Recomputed([bill[b] EXCEPT !.lines = @ \cup {line}])))

CancelBill(b) ==
    /\ OwnerStep(b)
    /\ bill[b].status \in LiveBill
    /\ bill[b].paid = 0
    /\ bill' = [bill EXCEPT ![b].status = "CANCELLED"]

\* A payment, online or recorded by the owner.
Pay(b, m) ==
    /\ OwnerStep(b)
    /\ bill[b].status \in OpenBill
    /\ m <= bill[b].total - bill[b].paid
    /\ Put(b, Settled([bill[b] EXCEPT !.paid = @ + m]))

-----------------------------------------------------------------------------
Generate(w) == \/ GenerateBegin(w) \/ FindExisting(w) \/ CollectDraft(w)
               \/ DeleteDraft(w) \/ CreateBill(w)
Publish(w) == PublishBegin(w) \/ PublishLock(w) \/ PublishCommit(w)
Edit(b) == \/ \E line \in ManualLines : AddLine(b, line)
           \/ \E line \in LineKinds : RemoveLine(b, line)
           \/ \E line \in CorrectionLines : Correct(b, line)
           \/ CancelBill(b)
           \/ \E m \in 1..2 : Pay(b, m)

Next == \/ OpenCycle \/ Close
        \/ \E w \in Workers : Generate(w) \/ Publish(w) \/ Crash(w)
        \/ \E b \in Bills : Edit(b)

Spec == Init /\ [][Next]_vars

-----------------------------------------------------------------------------
(* Safety.                                                                 *)

WasIssued(b) == bill[b].number # 0

\* Bills published at the same time, by several requests, never share a number,
\* and no number is taken twice even when the bill that had it is cancelled or
\* deleted: the sequence is ahead of every number it gave out.  A publication
\* that fails or dies gives its number back: each one is some bill's.
NumbersUnique ==
    /\ \A b, c \in Bills : WasIssued(b) =>
           /\ bill[b].number < next
           /\ bill[c].number = bill[b].number => b = c
    /\ \A n \in 1..(next - 1) : \E b \in Bills : bill[b].number = n

\* However many generations and regenerations run together, a unit and resident
\* have one live bill for the month.
OneLiveBill ==
    \A b, c \in Bills :
        (/\ bill[b].status \in LiveBill /\ bill[c].status \in LiveBill
         /\ Tenancy[bill[b].lease] = Tenancy[bill[c].lease]) => b = c

\* models.py: every total is derivable from the bill's visible lines; what is
\* paid never exceeds it, only issued bills carry a number, and the status
\* column says what total and paid say.
BillsAddUp ==
    \A b \in Bills :
        /\ bill[b].total = Sum(bill[b].lines)
        /\ bill[b].paid <= bill[b].total
        /\ bill[b].status = "DRAFT" => ~WasIssued(b) /\ bill[b].paid = 0
        /\ bill[b].status \in IssuedBill => WasIssued(b) /\ Settled(bill[b]) = bill[b]

\* An issued bill keeps its number, its lease and the lines it was issued with,
\* is never a draft again, and once money or a correction refers to it it is
\* not deleted, whatever a regeneration read before.
IssuedHistory ==
    [][\A b \in Bills : WasIssued(b) =>
          /\ bill'[b].number = bill[b].number
          /\ bill'[b].lease = bill[b].lease
          /\ bill'[b].lines \ CorrectionLines = bill[b].lines \ CorrectionLines
          /\ bill[b].lines \subseteq bill'[b].lines
          /\ bill'[b].status # "DRAFT"
          /\ bill'[b].status = "DELETED" /\ bill[b].status # "DELETED" => ~Referenced(b)]_bill

\* A bill is issued once, from a draft and with the next number, although the
\* row is written in a later step than it was locked in; a bill that is cancelled
\* or deleted had no payment, and is never live again.
BillsMove ==
    [][\A b \in Bills :
          LET s == bill[b].status
              t == bill'[b].status IN
          s # t => \/ s = "NONE" /\ t = "DRAFT"
                   \/ s = "DRAFT" /\ t \in IssuedBill /\ bill'[b].number = next /\ next' = next + 1
                   \/ s \in IssuedBill /\ t \in IssuedBill
                   \/ /\ s \in LiveBill \cup {"CANCELLED"} /\ t \in {"CANCELLED", "DELETED"}
                      /\ bill[b].paid = 0]_vars

\* README: "Issued bills are immutable history", and change only through a
\* correction or a payment.
IssuedOnRecord ==
    [][\A b \in Bills : WasIssued(b) /\ bill[b].status # "DELETED" => bill'[b].status # "DELETED"]_bill

\* services.py: "Publish or cancel the remaining draft bills before closing."
ClosedHasNoDrafts == cycle = "CLOSED" => Drafts = {}
=============================================================================
