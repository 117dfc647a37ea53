------------------------------- MODULE Leases -------------------------------
(***************************************************************************)
(* The units of one property and the leases that occupy them               *)
(* (PropertyService, UnitService and LeaseService in                       *)
(* apps/properties/services.py).                                           *)
(*                                                                         *)
(* Creating a lease locks its unit, looks at the unit's other leases       *)
(* without locking them and inserts; ending one locks the lease first and  *)
(* its unit next.  A lease that is being ended is still ACTIVE to          *)
(* everybody else, and holds up an insert that the one-active-lease        *)
(* constraint compares with it: the two requests can wait for each other.  *)
(*                                                                         *)
(* The resident, the rent and the deposit are data here: LeaseService.     *)
(* update writes nothing else, and bills copy them (BillingCycle).         *)
(***************************************************************************)
EXTENDS Naturals

CONSTANTS
    Units,      \* units that may be created
    LeaseIds,   \* leases that may be created
    Workers,    \* concurrent requests
    LastDay,    \* bound: the calendar is 1..LastDay
    None

ASSUME CalendarIsFinite == LastDay \in Nat \ {0}
ASSUME NoneIsNothing == None \notin Units \cup LeaseIds

Days == 1..LastDay
Never == LastDay + 1    \* the end of a lease with no end date

VARIABLES
    today,      \* server_today
    open,       \* the property's is_active
    unit,       \* status of each unit, "NONE" before it is created
    lease,      \* the lease rows
    job         \* what each request is doing

vars == <<today, open, unit, lease, job>>

Manual == {"VACANT", "MAINTENANCE", "INACTIVE"}
UnitStatus == {"NONE", "OCCUPIED"} \cup Manual

Lease(u, from, to, status) == [unit |-> u, from |-> from, to |-> to, status |-> status]
NoLease == Lease(None, 1, Never, "NONE")
LeaseRow ==
    {NoLease} \cup
    {l \in [unit : Units, from : Days, to : Days \cup {Never}, status : {"ACTIVE", "ENDED"}] :
        l.from <= l.to}

\* row: the lease to be written; of a request for a unit, the unit only.
Job(op, l, row) == [op |-> op, lease |-> l, row |-> row]
Idle == Job("idle", None, NoLease)
NewUnit(u) == Job("unit", None, Lease(u, 1, Never, "NONE"))
Jobs ==
    {Idle} \cup {NewUnit(u) : u \in Units} \cup
    [op : {"create", "insert", "end"}, lease : LeaseIds, row : LeaseRow \ {NoLease}]

Init ==
    /\ today = 1
    /\ open = TRUE
    /\ unit = [u \in Units |-> "NONE"]
    /\ lease = [l \in LeaseIds |-> NoLease]
    /\ job = [w \in Workers |-> Idle]

Does(w, op) == job[w].op = op
Becomes(w, j) == job' = [job EXCEPT ![w] = j]
End(w) == Becomes(w, Idle) /\ UNCHANGED <<today, open, unit, lease>>

Active(u) == {l \in LeaseIds : lease[l].status = "ACTIVE" /\ lease[l].unit = u}
\* Mutant: nobody waits for the unit.
UnitThere(u) == unit[u] # "NONE"
\* select_for_update on the unit and on the lease.
UnitFree(u) == \A w \in Workers : ~(Does(w, "insert") /\ job[w].row.unit = u)
LeaseFree(l) == \A w \in Workers : ~(Does(w, "end") /\ job[w].lease = l)

Tomorrow ==
    /\ today < LastDay
    /\ today' = today + 1
    /\ UNCHANGED <<open, unit, lease, job>>

----------------------------------------------------------------------------
(* The property and its units.                                             *)

\* Refused only while a lease is active somewhere in the property.
SetOpen(active) ==
    /\ ~active => \A u \in Units : Active(u) = {}
    /\ open' = active
    /\ UNCHANGED <<today, unit, lease, job>>

\* The property was read active; it may not be any more when the unit is there.
BeginUnit(w, u) ==
    /\ job[w] = Idle /\ open /\ unit[u] = "NONE"
    /\ Becomes(w, NewUnit(u))
    /\ UNCHANGED <<today, open, unit, lease>>

CreateUnit(w) ==
    LET u == job[w].row.unit IN
    /\ Does(w, "unit") /\ unit[u] = "NONE"
    /\ unit' = [unit EXCEPT ![u] = "VACANT"]
    /\ Becomes(w, Idle)
    /\ UNCHANGED <<today, open, lease>>

DuplicateUnit(w) == Does(w, "unit") /\ unit[job[w].row.unit] # "NONE" /\ End(w)

\* Mutant: a lease whose last day has passed does not count.
UnletToday(u) == \A l \in Active(u) : lease[l].to < today
Unlet(u) == Active(u) = {}

\* Occupancy is set by leases; a unit with an active one keeps its status.
UpdateUnit(u, status) ==
    /\ unit[u] # "NONE" /\ UnitFree(u)
    /\ status \in Manual \ {unit[u]} /\ Unlet(u)
    /\ unit' = [unit EXCEPT ![u] = status]
    /\ UNCHANGED <<today, open, lease, job>>

----------------------------------------------------------------------------
(* Creating a lease.                                                       *)

StatusFrom(to) == IF to < today THEN "ENDED" ELSE "ACTIVE"

\* The dates are checked, and the status chosen, before anything is locked.
BeginCreate(w, l, row) ==
    /\ job[w] = Idle
    /\ lease[l] = NoLease /\ \A v \in Workers : job[v].lease # l
    /\ unit[row.unit] # "NONE"
    /\ row.status = StatusFrom(row.to)
    /\ Becomes(w, Job("create", l, row))
    /\ UNCHANGED <<today, open, unit, lease>>

Overlaps(a, b) == a.unit = b.unit /\ a.from <= b.to /\ b.from <= a.to
Fits(row) == \A l \in LeaseIds : lease[l] # NoLease => ~Overlaps(lease[l], row)
\* one_active_lease_per_unit: an active lease that ends before this one begins.
Clashes(row) == IF row.status = "ACTIVE" THEN Active(row.unit) ELSE {}

Occupied(row, status) == IF row.status = "ACTIVE" THEN "OCCUPIED" ELSE status

\* The unit is locked, and kept, and its other leases are looked at.
CreateLocks(w) ==
    LET row == job[w].row IN
    /\ Does(w, "create") /\ UnitFree(row.unit)
    /\ unit[row.unit] # "INACTIVE" /\ Fits(row)
    /\ Becomes(w, Job("insert", job[w].lease, row))
    /\ UNCHANGED <<today, open, unit, lease>>

CreateLease(w) ==
    LET row == job[w].row IN
    /\ Does(w, "insert") /\ Clashes(row) = {}
    /\ lease' = [lease EXCEPT ![job[w].lease] = row]
    /\ unit' = [unit EXCEPT ![row.unit] = Occupied(row, @)]
    /\ Becomes(w, Idle)
    /\ UNCHANGED <<today, open>>

CreateRefused(w) ==
    LET row == job[w].row IN
    /\ \/ Does(w, "create") /\ UnitFree(row.unit) /\ (unit[row.unit] = "INACTIVE" \/ ~Fits(row))
       \/ Does(w, "insert") /\ \E l \in Clashes(row) : LeaseFree(l)
    /\ End(w)

\* An insert that clashes with a lease being ended waits for the request that
\* ends it, which waits for the unit: the insert is the victim, or is refused
\* once the other request is.  Or its worker dies.
InsertFails(w) == Does(w, "insert") /\ End(w)

----------------------------------------------------------------------------
(* Ending one.                                                             *)

\* Mutant: the dates are not compared.
AnyDay(l, to) == to \in Days
LastDayOf(l, to) == to >= lease[l].from

\* The lease is locked, found active and written, and not yet committed.
EndLocks(w, l, to) ==
    /\ job[w] = Idle
    /\ LeaseFree(l) /\ lease[l].status = "ACTIVE" /\ LastDayOf(l, to)
    /\ Becomes(w, Job("end", l, Lease(lease[l].unit, lease[l].from, to, "ENDED")))
    /\ UNCHANGED <<today, open, unit, lease>>

Vacated(status) == IF status = "OCCUPIED" THEN "VACANT" ELSE status

EndLease(w) ==
    LET row == job[w].row IN
    /\ Does(w, "end") /\ UnitFree(row.unit)
    /\ lease' = [lease EXCEPT ![job[w].lease] = row]
    /\ unit' = [unit EXCEPT ![row.unit] = Vacated(@)]
    /\ Becomes(w, Idle)
    /\ UNCHANGED <<today, open>>

\* A victim, or a worker that dies: nothing of its transaction is committed.
Fails(w) == Does(w, "end") /\ End(w)

----------------------------------------------------------------------------

Work(w) ==
    \/ CreateUnit(w) \/ DuplicateUnit(w)
    \/ CreateLocks(w) \/ CreateLease(w) \/ CreateRefused(w) \/ InsertFails(w) \/ EndLease(w) \/ Fails(w)

Ask(w) ==
    \/ \E u \in Units : BeginUnit(w, u)
    \/ \E l \in LeaseIds :
          \/ \E row \in LeaseRow \ {NoLease} : BeginCreate(w, l, row)
          \/ \E to \in Days : EndLocks(w, l, to)

Next ==
    \/ Tomorrow
    \/ \E active \in BOOLEAN : SetOpen(active)
    \/ \E u \in Units, s \in Manual : UpdateUnit(u, s)
    \/ \E w \in Workers : Ask(w) \/ Work(w)

Spec == Init /\ [][Next]_vars

----------------------------------------------------------------------------

\* Every variable has its type.
TypeOK ==
    /\ today \in Days
    /\ open \in BOOLEAN
    /\ unit \in [Units -> UnitStatus]
    /\ lease \in [LeaseIds -> LeaseRow]
    /\ job \in [Workers -> Jobs]

\* A unit is OCCUPIED exactly while one lease of it is active, although the
\* one is written by lease requests, the other by unit requests too, and each
\* reads the other's rows: no lost lease, no unit occupied for nobody.
OccupiedByOne ==
    \A u \in Units :
        /\ unit[u] = "OCCUPIED" <=> Active(u) # {}
        /\ \A l, m \in Active(u) : l = m

\* Two leases of one unit that are checked at the same time are not both
\* created on the same days: the second is inserted over the leases its check
\* has seen, and over no other, though only active leases have a constraint
\* and an insert may wait for a request that ends one.
CreatedApart ==
    [][\A l, m \in LeaseIds :
          (l # m /\ lease[l] = NoLease /\ lease'[l] # NoLease /\ lease[m] # NoLease)
             => ~Overlaps(lease'[l], lease'[m])]_vars

\* A lease row is created once and ended once, on the unit and from the day it
\* was created with, although what is written was made before the request
\* waited for the unit: no lease is ended twice, revived or moved.
LeasesMove ==
    [][\A l \in LeaseIds : lease'[l] # lease[l] =>
          \/ lease[l] = NoLease
          \/ /\ lease[l].status = "ACTIVE" /\ lease'[l].status = "ENDED"
             /\ lease'[l].unit = lease[l].unit /\ lease'[l].from = lease[l].from]_vars

\* "Date overlap against historical (ENDED) leases is checked by LeaseService
\* under a row lock on the unit": ending a lease later than it was to end does
\* not look at the leases that follow it.
LeasesApart ==
    \A l, m \in LeaseIds :
        (l # m /\ lease[l] # NoLease /\ lease[m] # NoLease) => ~Overlaps(lease[l], lease[m])
=============================================================================
