---------------------------- MODULE LeasesProofs ----------------------------
(***************************************************************************)
(* The types of Leases, OccupiedByOne, CreatedApart and LeasesMove, for    *)
(* any units, leases, requests and calendar.                               *)
(*                                                                         *)
(* OccupiedByOne is not inductive: a request ends its lease with the row   *)
(* it read when it locked it, so the induction needs what requests in the  *)
(* middle still know about the rows, and that no two write one lease.      *)
(* CreatedApart needs in addition what the lock on a unit keeps from the   *)
(* check to the insert.                                                    *)
(***************************************************************************)
EXTENDS Leases, TLAPS

Creates(w) == job[w].op \in {"create", "insert"}

\* The lease a request ends is still active, on the unit it will vacate.
EndsActive ==
    \A w \in Workers : Does(w, "end") =>
        /\ lease[job[w].lease].status = "ACTIVE"
        /\ lease[job[w].lease].unit = job[w].row.unit
        /\ lease[job[w].lease].from = job[w].row.from
        /\ job[w].row.status = "ENDED"

\* The lease a request creates is not there yet.
CreatesNew ==
    \A w \in Workers : Creates(w) => lease[job[w].lease] = NoLease

OneJobEach ==
    \A v, w \in Workers : v # w /\ job[v].lease = job[w].lease => job[v].lease = None

Requests == EndsActive /\ CreatesNew /\ OneJobEach

IInv == TypeOK /\ OccupiedByOne /\ Requests

----------------------------------------------------------------------------
(* Rows and requests by their parts.                                       *)

\* A lease row is empty or has a unit, and is active or ended.
LEMMA RowParts ==
    ASSUME NEW r \in LeaseRow
    PROVE  /\ r = NoLease \/ (r.unit \in Units /\ r.status \in {"ACTIVE", "ENDED"})
           /\ NoLease.status = "NONE"
  BY DEF LeaseRow, NoLease, Lease

\* A request is idle, for a unit, or has a lease and a row.
LEMMA JobParts ==
    ASSUME NEW j \in Jobs
    PROVE  \/ j.op = "idle" /\ j.lease = None
           \/ j.op = "unit" /\ j.row.unit \in Units /\ j.lease = None
           \/ /\ j.op \in {"create", "insert", "end"}
              /\ j.lease \in LeaseIds
              /\ j.row \in LeaseRow /\ j.row # NoLease
<1>1. CASE \E u \in Units : j = NewUnit(u)
  BY <1>1 DEF NewUnit, Job, Lease
<1>2. CASE j \in [op : {"create", "insert", "end"}, lease : LeaseIds, row : LeaseRow \ {NoLease}]
  BY <1>2
<1>3. CASE j = Idle
  BY <1>3 DEF Idle, Job
<1> QED
  BY <1>1, <1>2, <1>3 DEF Jobs

\* The parts of a request made here.
LEMMA MadeJob ==
    ASSUME NEW op \in {"create", "insert", "end"}, NEW l \in LeaseIds, NEW row \in LeaseRow,
           row # NoLease
    PROVE  /\ Job(op, l, row) \in Jobs
           /\ Job(op, l, row).op = op
           /\ Job(op, l, row).lease = l
           /\ Job(op, l, row).row = row
  BY DEF Job, Jobs

\* The idle request, and one for a unit, have no lease.
LEMMA NoLeaseJobs ==
    /\ Idle \in Jobs /\ Idle.op = "idle" /\ Idle.lease = None
    /\ \A u \in Units :
          NewUnit(u) \in Jobs /\ NewUnit(u).op = "unit" /\ NewUnit(u).lease = None
  BY DEF Idle, NewUnit, Job, Jobs, LeaseRow, Lease, NoLease

\* Active only looks at the lease rows.
LEMMA ActiveKept ==
    ASSUME UNCHANGED lease, NEW u \in Units
    PROVE  Active(u)' = Active(u)
  BY DEF Active

----------------------------------------------------------------------------
(* A request that ends touches no other request's lease.                   *)

\* A request ends; of the leases only its own may have changed.
LEMMA RequestEnds ==
    ASSUME TypeOK, Requests, NEW w \in Workers, Becomes(w, Idle),
           \A l \in LeaseIds : l # job[w].lease => lease'[l] = lease[l]
    PROVE  /\ job' \in [Workers -> Jobs]
           /\ Requests'
<1>1. job' \in [Workers -> Jobs]
  BY NoLeaseJobs DEF Becomes, TypeOK
<1>2. job'[w] = Idle /\ \A v \in Workers : v # w => job'[v] = job[v]
  BY DEF Becomes, TypeOK
<1>3. \A v \in Workers : v # w /\ job[v].lease \in LeaseIds => lease'[job[v].lease] = lease[job[v].lease]
  BY NoneIsNothing DEF Requests, OneJobEach
<1>4. EndsActive'
  BY <1>2, <1>3, NoLeaseJobs, JobParts DEF EndsActive, Requests, Does, TypeOK
<1>5. CreatesNew'
  BY <1>2, <1>3, NoLeaseJobs, JobParts DEF CreatesNew, Requests, Creates, TypeOK
<1>6. OneJobEach'
  BY <1>2, NoLeaseJobs DEF OneJobEach, Requests
<1> QED
  BY <1>1, <1>4, <1>5, <1>6 DEF Requests

\* An idle request starts, on a lease nobody else has.
LEMMA RequestBegins ==
    ASSUME TypeOK, Requests, NEW w \in Workers, NEW j \in Jobs, Becomes(w, j), UNCHANGED lease,
           \A v \in Workers : v # w => job[v].lease # j.lease \/ j.lease = None,
           j.op = "end" =>
               /\ lease[j.lease].status = "ACTIVE"
               /\ lease[j.lease].unit = j.row.unit
               /\ lease[j.lease].from = j.row.from
               /\ j.row.status = "ENDED",
           j.op \in {"create", "insert"} => lease[j.lease] = NoLease
    PROVE  /\ job' \in [Workers -> Jobs]
           /\ Requests'
<1>1. job' \in [Workers -> Jobs]
  BY DEF Becomes, TypeOK
<1>2. job'[w] = j /\ \A v \in Workers : v # w => job'[v] = job[v]
  BY DEF Becomes, TypeOK
<1>3. EndsActive'
  BY <1>2 DEF EndsActive, Requests, Does
<1>4. CreatesNew'
  BY <1>2 DEF CreatesNew, Requests, Creates
<1>5. OneJobEach'
  BY <1>2 DEF OneJobEach, Requests
<1> QED
  BY <1>1, <1>3, <1>4, <1>5 DEF Requests

----------------------------------------------------------------------------
(* Occupancy, when lease rows do not change and when one does.             *)

\* Only a unit without an active lease may change its status, and not to
\* OCCUPIED.
LEMMA OccupancyKept ==
    ASSUME OccupiedByOne, UNCHANGED lease,
           \A u \in Units : unit'[u] = unit[u] \/ (Active(u) = {} /\ unit'[u] # "OCCUPIED" /\ unit[u] # "OCCUPIED")
    PROVE  OccupiedByOne'
  BY ActiveKept DEF OccupiedByOne

\* A lease of a unit nobody occupies is added, and the unit set accordingly.
LEMMA OccupancyCreated ==
    ASSUME TypeOK, OccupiedByOne,
           NEW l \in LeaseIds, NEW row \in LeaseRow, row.unit \in Units, row.status \in {"ACTIVE", "ENDED"},
           lease[l] = NoLease, Clashes(row) = {},
           lease' = [lease EXCEPT ![l] = row],
           unit' = [unit EXCEPT ![row.unit] = Occupied(row, @)]
    PROVE  OccupiedByOne'
<1>1. lease[l].status = "NONE" /\ lease'[l] = row /\ \A m \in LeaseIds : m # l => lease'[m] = lease[m]
  BY RowParts DEF TypeOK
<1>2. unit'[row.unit] = Occupied(row, unit[row.unit])
      /\ \A u \in Units : u # row.unit => unit'[u] = unit[u]
  BY DEF TypeOK
<1>3. CASE row.status = "ACTIVE"
  <2>1. Active(row.unit)' = {l} /\ \A u \in Units : u # row.unit => Active(u)' = Active(u)
    BY <1>1, <1>3 DEF Active, Clashes
  <2> QED
    BY <1>2, <1>3, <2>1 DEF OccupiedByOne, Occupied
<1>4. CASE row.status = "ENDED"
  <2>1. \A u \in Units : Active(u)' = Active(u)
    BY <1>1, <1>4 DEF Active
  <2> QED
    BY <1>2, <1>4, <2>1 DEF OccupiedByOne, Occupied
<1> QED
  BY <1>3, <1>4

\* The one active lease of a unit ends, and the unit is vacated.
LEMMA OccupancyEnded ==
    ASSUME TypeOK, OccupiedByOne,
           NEW l \in LeaseIds, NEW row \in LeaseRow, row.unit \in Units, row.status = "ENDED",
           lease[l].status = "ACTIVE", lease[l].unit = row.unit,
           lease' = [lease EXCEPT ![l] = row],
           unit' = [unit EXCEPT ![row.unit] = Vacated(@)]
    PROVE  OccupiedByOne'
<1>1. lease'[l] = row /\ \A m \in LeaseIds : m # l => lease'[m] = lease[m]
  BY DEF TypeOK
<1>2. unit'[row.unit] = Vacated(unit[row.unit])
      /\ \A u \in Units : u # row.unit => unit'[u] = unit[u]
  BY DEF TypeOK
<1>3. Active(row.unit) = {l}
  BY DEF Active, OccupiedByOne
<1>4. Active(row.unit)' = {} /\ \A u \in Units : u # row.unit => Active(u)' = Active(u)
  BY <1>1, <1>3 DEF Active
<1> QED
  BY <1>2, <1>3, <1>4 DEF OccupiedByOne, Vacated

----------------------------------------------------------------------------
(* Every step keeps the invariant.                                         *)

\* Nothing has happened yet.
LEMMA InitIInv == Init => IInv
<1> SUFFICES ASSUME Init PROVE IInv
  OBVIOUS
<1>1. TypeOK
  BY CalendarIsFinite, NoLeaseJobs DEF Init, TypeOK, Days, UnitStatus, LeaseRow
<1>2. OccupiedByOne
  BY RowParts DEF Init, OccupiedByOne, Active, LeaseRow
<1>3. Requests
  BY NoLeaseJobs DEF Init, Requests, EndsActive, CreatesNew, OneJobEach, Does, Creates
<1> QED
  BY <1>1, <1>2, <1>3 DEF IInv

\* The calendar, the property and the owner's own changes of a unit.
LEMMA OutsideSteps ==
    ASSUME IInv,
           \/ Tomorrow
           \/ \E active \in BOOLEAN : SetOpen(active)
           \/ \E u \in Units, s \in Manual : UpdateUnit(u, s)
           \/ UNCHANGED vars
    PROVE  IInv'
<1> USE DEF IInv
<1>1. UNCHANGED <<lease, job>>
  BY DEF Tomorrow, SetOpen, UpdateUnit, vars
<1>2. Requests'
  BY <1>1 DEF Requests, EndsActive, CreatesNew, OneJobEach, Does, Creates
<1>3. CASE UNCHANGED unit /\ today' \in Days /\ open' \in BOOLEAN
  BY <1>1, <1>2, <1>3, OccupancyKept DEF TypeOK
<1>4. CASE Tomorrow
  BY <1>3, <1>4, CalendarIsFinite DEF Tomorrow, TypeOK, Days
<1>5. CASE \E active \in BOOLEAN : SetOpen(active)
  BY <1>3, <1>5 DEF SetOpen, TypeOK
<1>6. CASE UNCHANGED vars
  BY <1>3, <1>6 DEF vars, TypeOK
<1>7. CASE \E u \in Units, s \in Manual : UpdateUnit(u, s)
  <2> PICK u \in Units, s \in Manual : UpdateUnit(u, s)
    BY <1>7
  <2>1. unit' \in [Units -> UnitStatus] /\ UNCHANGED <<today, open>>
    BY DEF UpdateUnit, TypeOK, UnitStatus
  <2>2. unit'[u] # "OCCUPIED" /\ Active(u) = {} /\ \A v \in Units : v # u => unit'[v] = unit[v]
    BY DEF UpdateUnit, TypeOK, Unlet, Manual
  <2>3. OccupiedByOne'
    BY <1>1, <2>2, OccupancyKept DEF OccupiedByOne
  <2> QED
    BY <1>1, <1>2, <2>1, <2>3 DEF TypeOK
<1> QED
  BY <1>4, <1>5, <1>6, <1>7

\* Requests that begin.
LEMMA Asks ==
    ASSUME IInv, NEW w \in Workers, Ask(w)
    PROVE  IInv'
<1> USE DEF IInv
<1>1. UNCHANGED <<today, open, unit, lease>>
  BY DEF Ask, BeginUnit, BeginCreate, EndLocks
<1>2. OccupiedByOne'
  BY <1>1, OccupancyKept
<1>3. job' \in [Workers -> Jobs] /\ Requests'
  <2>1. CASE \E u \in Units : BeginUnit(w, u)
    BY <2>1, <1>1, RequestBegins, NoLeaseJobs DEF BeginUnit
  <2>2. CASE \E l \in LeaseIds, row \in LeaseRow \ {NoLease} : BeginCreate(w, l, row)
    <3> PICK l \in LeaseIds, row \in LeaseRow \ {NoLease} : BeginCreate(w, l, row)
      BY <2>2
    <3> DEFINE j == Job("create", l, row)
    <3>1. j \in Jobs /\ j.op = "create" /\ j.lease = l /\ j.row = row
      BY MadeJob
    <3>2. Becomes(w, j) /\ lease[l] = NoLease /\ \A v \in Workers : job[v].lease # l
      BY DEF BeginCreate
    <3> HIDE DEF j
    <3> QED
      BY <1>1, <3>1, <3>2, RequestBegins
  <2>3. CASE \E l \in LeaseIds, to \in Days : EndLocks(w, l, to)
    <3> PICK l \in LeaseIds, to \in Days : EndLocks(w, l, to)
      BY <2>3
    <3> DEFINE row == Lease(lease[l].unit, lease[l].from, to, "ENDED")
               j == Job("end", l, row)
    <3>1. lease[l] \in LeaseRow /\ lease[l].status = "ACTIVE" /\ lease[l].from <= to
      BY DEF EndLocks, LastDayOf, TypeOK
    <3>2. /\ row \in LeaseRow /\ row.status = "ENDED" /\ row # NoLease
          /\ row.unit = lease[l].unit /\ row.from = lease[l].from
      BY <3>1 DEF LeaseRow, NoLease, Lease
    <3> HIDE DEF row
    <3>3. j \in Jobs /\ j.op = "end" /\ j.lease = l /\ j.row = row
      BY <3>2, MadeJob
    <3>4. Becomes(w, j) /\ LeaseFree(l)
      BY DEF EndLocks, row
    <3>5. \A v \in Workers : job[v].lease # l
      <4> SUFFICES ASSUME NEW v \in Workers, job[v].lease = l PROVE FALSE
        OBVIOUS
      <4>1. job[v] \in Jobs /\ ~Does(v, "end")
        BY <3>4 DEF TypeOK, LeaseFree
      <4>2. ~Creates(v)
        BY <3>1, RowParts DEF Requests, CreatesNew
      <4> QED
        BY <4>1, <4>2, JobParts, NoneIsNothing DEF Does, Creates
    <3> HIDE DEF j
    <3> QED
      BY <1>1, <3>1, <3>2, <3>3, <3>4, <3>5, RequestBegins
  <2> QED
    BY <2>1, <2>2, <2>3 DEF Ask
<1> QED
  BY <1>1, <1>2, <1>3 DEF TypeOK

\* A request that ends without a write.
LEMMA Ends ==
    ASSUME IInv, NEW w \in Workers, End(w)
    PROVE  IInv'
<1>1. UNCHANGED <<today, open, unit, lease>> /\ Becomes(w, Idle)
  BY DEF End
<1>2. OccupiedByOne'
  BY <1>1, OccupancyKept DEF IInv
<1>3. job' \in [Workers -> Jobs] /\ Requests'
  BY <1>1, RequestEnds DEF IInv
<1> QED
  BY <1>1, <1>2, <1>3 DEF IInv, TypeOK

\* A request that ends by creating a lease.
LEMMA Created ==
    ASSUME IInv, NEW w \in Workers, CreateLease(w)
    PROVE  IInv'
<1> DEFINE l == job[w].lease
           row == job[w].row
<1> USE DEF IInv
<1>1. l \in LeaseIds /\ row \in LeaseRow /\ row # NoLease /\ lease[l] = NoLease
  BY JobParts DEF CreateLease, Does, TypeOK, Requests, CreatesNew, Creates
<1>2. row.unit \in Units /\ row.status \in {"ACTIVE", "ENDED"}
  BY <1>1, RowParts
<1>3. /\ Clashes(row) = {}
      /\ lease' = [lease EXCEPT ![l] = row]
      /\ unit' = [unit EXCEPT ![row.unit] = Occupied(row, @)]
      /\ Becomes(w, Idle)
      /\ UNCHANGED <<today, open>>
  BY DEF CreateLease
<1>4. job' \in [Workers -> Jobs] /\ Requests'
  <2>1. \A m \in LeaseIds : m # l => lease'[m] = lease[m]
    BY <1>3 DEF TypeOK
  <2> QED
    BY <1>3, <2>1, RequestEnds
<1>5. lease' \in [LeaseIds -> LeaseRow]
  BY <1>1, <1>3 DEF TypeOK
<1>6. unit' \in [Units -> UnitStatus]
  BY <1>2, <1>3 DEF TypeOK, UnitStatus, Occupied
<1> HIDE DEF l, row
<1>7. OccupiedByOne'
  BY <1>1, <1>2, <1>3, OccupancyCreated
<1> QED
  BY <1>3, <1>4, <1>5, <1>6, <1>7 DEF TypeOK

\* A request that ends by ending a lease.
LEMMA Ended ==
    ASSUME IInv, NEW w \in Workers, EndLease(w)
    PROVE  IInv'
<1> DEFINE l == job[w].lease
           row == job[w].row
<1> USE DEF IInv
<1>1. l \in LeaseIds /\ row \in LeaseRow /\ row # NoLease
  BY JobParts DEF EndLease, Does, TypeOK
<1>2. row.unit \in Units /\ row.status = "ENDED" /\ lease[l].status = "ACTIVE" /\ lease[l].unit = row.unit
  BY <1>1, RowParts DEF EndLease, Requests, EndsActive
<1>3. /\ lease' = [lease EXCEPT ![l] = row]
      /\ unit' = [unit EXCEPT ![row.unit] = Vacated(@)]
      /\ Becomes(w, Idle)
      /\ UNCHANGED <<today, open>>
  BY DEF EndLease
<1>4. job' \in [Workers -> Jobs] /\ Requests'
  <2>1. \A m \in LeaseIds : m # l => lease'[m] = lease[m]
    BY <1>3 DEF TypeOK
  <2> QED
    BY <1>3, <2>1, RequestEnds
<1>5. lease' \in [LeaseIds -> LeaseRow]
  BY <1>1, <1>3 DEF TypeOK
<1>6. unit' \in [Units -> UnitStatus]
  BY <1>2, <1>3 DEF TypeOK, UnitStatus, Vacated, Manual
<1> HIDE DEF l, row
<1>7. OccupiedByOne'
  BY <1>1, <1>2, <1>3, OccupancyEnded
<1> QED
  BY <1>3, <1>4, <1>5, <1>6, <1>7 DEF TypeOK

\* Requests that go on.
LEMMA Works ==
    ASSUME IInv, NEW w \in Workers, Work(w)
    PROVE  IInv'
<1> USE DEF IInv
<1>1. CASE DuplicateUnit(w) \/ CreateRefused(w) \/ InsertFails(w) \/ Fails(w)
  BY <1>1, Ends DEF DuplicateUnit, CreateRefused, InsertFails, Fails
<1>2. CASE CreateLease(w)
  BY <1>2, Created
<1>3. CASE EndLease(w)
  BY <1>3, Ended
<1>4. CASE CreateUnit(w)
  <2> DEFINE u == job[w].row.unit
  <2>1. u \in Units
    BY <1>4, JobParts DEF CreateUnit, Does, TypeOK
  <2>2. unit' = [unit EXCEPT ![u] = "VACANT"] /\ unit[u] = "NONE" /\ Becomes(w, Idle)
        /\ UNCHANGED <<today, open, lease>>
    BY <1>4 DEF CreateUnit
  <2> HIDE DEF u
  <2>3. unit' \in [Units -> UnitStatus] /\ unit'[u] = "VACANT"
        /\ \A v \in Units : v # u => unit'[v] = unit[v]
    BY <2>1, <2>2 DEF TypeOK, UnitStatus, Manual
  <2>4. OccupiedByOne'
    BY <2>1, <2>2, <2>3, OccupancyKept DEF OccupiedByOne
  <2>5. job' \in [Workers -> Jobs] /\ Requests'
    BY <2>2, RequestEnds
  <2> QED
    BY <2>2, <2>3, <2>4, <2>5 DEF TypeOK
<1>5. CASE CreateLocks(w)
  <2> DEFINE l == job[w].lease
             row == job[w].row
             j == Job("insert", l, row)
  <2>1. l \in LeaseIds /\ row \in LeaseRow /\ row # NoLease /\ lease[l] = NoLease
    BY <1>5, JobParts DEF CreateLocks, Does, TypeOK, Requests, CreatesNew, Creates
  <2>2. j \in Jobs /\ j.op = "insert" /\ j.lease = l
    BY <2>1, MadeJob
  <2>3. Becomes(w, j) /\ UNCHANGED <<today, open, unit, lease>>
    BY <1>5 DEF CreateLocks
  <2>4. \A v \in Workers : v # w => job[v].lease # l
    BY <2>1, NoneIsNothing DEF Requests, OneJobEach
  <2> HIDE DEF j
  <2>5. job' \in [Workers -> Jobs] /\ Requests'
    BY <2>1, <2>2, <2>3, <2>4, RequestBegins
  <2>6. OccupiedByOne'
    BY <2>3, OccupancyKept
  <2> QED
    BY <2>3, <2>5, <2>6 DEF TypeOK
<1> QED
  BY <1>1, <1>2, <1>3, <1>4, <1>5 DEF Work

\* Every step of the system.
LEMMA NextIInv == IInv /\ [Next]_vars => IInv'
<1> SUFFICES ASSUME IInv, [Next]_vars PROVE IInv'
  OBVIOUS
<1> QED
  BY OutsideSteps, Asks, Works DEF Next

\* The invariant holds throughout.
LEMMA SpecIInv == Spec => []IInv
  BY InitIInv, NextIInv, PTL DEF Spec

\* Every variable keeps its type.
THEOREM SpecTypeOK == Spec => []TypeOK
<1>1. IInv => TypeOK
  BY DEF IInv
<1> QED
  BY <1>1, SpecIInv, PTL

\* A unit is OCCUPIED exactly while one lease of it is active, whatever unit
\* and lease requests run at the same time.
THEOREM SpecOccupiedByOne == Spec => []OccupiedByOne
<1>1. IInv => OccupiedByOne
  BY DEF IInv
<1> QED
  BY <1>1, SpecIInv, PTL

----------------------------------------------------------------------------
(* Leases are created apart.                                               *)

\* What one step may not do.
Apart ==
    \A l, m \in LeaseIds :
        (l # m /\ lease[l] = NoLease /\ lease'[l] # NoLease /\ lease[m] # NoLease)
           => ~Overlaps(lease'[l], lease'[m])

\* Only the request that holds a unit inserts into it or ends a lease of it.
UnitsApart ==
    \A v, w \in Workers : v # w /\ Does(v, "insert") /\ Does(w, "insert")
                              => job[v].row.unit # job[w].row.unit

\* What the check of a request that is about to insert has found is still so.
StillFits == \A w \in Workers : Does(w, "insert") => Fits(job[w].row)

Checked == UnitsApart /\ StillFits

\* The steps that write leases, and what they write.
LEMMA LeaseWriters ==
    ASSUME IInv, [Next]_vars
    PROVE  \/ UNCHANGED lease
           \/ \E w \in Workers :
                 /\ CreateLease(w) \/ EndLease(w)
                 /\ lease' = [lease EXCEPT ![job[w].lease] = job[w].row]
  BY DEF Next, Ask, Work, Tomorrow, SetOpen, UpdateUnit, BeginUnit, CreateUnit, DuplicateUnit,
         BeginCreate, CreateLocks, CreateLease, CreateRefused, InsertFails, EndLocks, EndLease,
         Fails, End, vars

\* A request comes to insert only by the check; it then holds the unit.
LEMMA Inserting ==
    ASSUME IInv, [Next]_vars
    PROVE  \/ \A w \in Workers : Does(w, "insert")' => job'[w] = job[w]
           \/ \E v \in Workers : /\ CreateLocks(v) /\ job'[v].row = job[v].row
                                 /\ \A w \in Workers : w # v => job'[w] = job[w]
<1>1. \A w \in Workers : \A j : Becomes(w, j) =>
          job'[w] = j /\ \A v \in Workers : v # w => job'[v] = job[v]
  BY DEF Becomes, IInv, TypeOK
<1>2. ASSUME NEW w \in Workers, Ask(w)
      PROVE  \A v \in Workers : Does(v, "insert")' => job'[v] = job[v]
  <2>1. \A u, l, row : /\ NewUnit(u).op # "insert" /\ Job("create", l, row).op # "insert"
                        /\ Job("end", l, row).op # "insert"
    BY DEF NewUnit, Job
  <2>2. \/ \E u : Becomes(w, NewUnit(u))
        \/ \E l, row : Becomes(w, Job("create", l, row)) \/ Becomes(w, Job("end", l, row))
    BY <1>2 DEF Ask, BeginUnit, BeginCreate, EndLocks
  <2> QED
    BY <1>1, <2>1, <2>2 DEF Does
<1>3. ASSUME NEW w \in Workers, Work(w), ~CreateLocks(w)
      PROVE  \A v \in Workers : Does(v, "insert")' => job'[v] = job[v]
  <2>1. Becomes(w, Idle)
    BY <1>3 DEF Work, CreateUnit, DuplicateUnit, CreateLease, CreateRefused, InsertFails, EndLease,
                Fails, End
  <2> QED
    BY <1>1, <2>1, NoLeaseJobs DEF Does
<1>4. ASSUME NEW w \in Workers, CreateLocks(w)
      PROVE  job'[w].row = job[w].row /\ \A v \in Workers : v # w => job'[v] = job[v]
  BY <1>1, <1>4 DEF CreateLocks, Job
<1>5. CASE UNCHANGED job
  BY <1>5
<1> QED
  BY <1>2, <1>3, <1>4, <1>5 DEF Next, Tomorrow, SetOpen, UpdateUnit, vars

\* While a request holds a unit, no lease of the unit is created or ended but
\* the one it inserts.
LEMMA NextChecked == IInv /\ Checked /\ [Next]_vars => Checked'
<1> SUFFICES ASSUME IInv, Checked, [Next]_vars PROVE Checked'
  OBVIOUS
<1>1. UnitsApart'
  <2>1. CASE \A w \in Workers : Does(w, "insert")' => job'[w] = job[w]
    BY <2>1 DEF Checked, UnitsApart, Does
  <2>2. ASSUME NEW v \in Workers, CreateLocks(v), job'[v].row = job[v].row,
               \A w \in Workers : w # v => job'[w] = job[w]
        PROVE  UnitsApart'
    BY <2>2 DEF Checked, UnitsApart, Does, CreateLocks, UnitFree
  <2> QED
    BY <2>1, <2>2, Inserting
<1>2. ASSUME NEW w \in Workers, Does(w, "insert")'
      PROVE  job'[w].row = job[w].row /\ Fits(job[w].row)
  <2>1. CASE job'[w] = job[w]
    BY <1>2, <2>1 DEF Checked, StillFits, Does
  <2>2. CASE CreateLocks(w) /\ job'[w].row = job[w].row
    BY <2>2 DEF CreateLocks
  <2> QED
    BY <1>2, <2>1, <2>2, Inserting
<1>3. ASSUME NEW w \in Workers, Does(w, "insert")', ~UNCHANGED lease
      PROVE  Fits(job[w].row)'
  <2>1. PICK v \in Workers : /\ CreateLease(v) \/ EndLease(v)
                             /\ lease' = [lease EXCEPT ![job[v].lease] = job[v].row]
    BY <1>3, LeaseWriters
  <2>2. Becomes(v, Idle)
    BY <2>1 DEF CreateLease, EndLease
  <2>3. w # v /\ job'[w] = job[w] /\ Does(w, "insert")
    BY <1>3, <2>2, NoLeaseJobs DEF Becomes, Does, IInv, TypeOK
  <2>4. job[v].row.unit # job[w].row.unit
    BY <2>1, <2>3 DEF Checked, UnitsApart, CreateLease, EndLease, UnitFree
  <2>5. \A m \in LeaseIds : lease'[m] = lease[m] \/ lease'[m] = job[v].row
    BY <2>1 DEF IInv, TypeOK
  <2>6. ASSUME NEW m \in LeaseIds, lease'[m] # NoLease
        PROVE  ~Overlaps(lease'[m], job[w].row)
    <3>1. CASE lease'[m] = lease[m]
      BY <1>2, <1>3, <2>6, <3>1 DEF Fits
    <3>2. CASE lease'[m] = job[v].row
      BY <2>4, <3>2 DEF Overlaps
    <3> QED
      BY <2>5, <3>1, <3>2
  <2> QED
    BY <2>3, <2>6 DEF Fits
<1>4. StillFits'
  BY <1>2, <1>3 DEF StillFits, Fits
<1> QED
  BY <1>1, <1>4 DEF Checked

\* Only CreateLease adds a lease, and it has looked at all the others.
LEMMA StepApart == IInv /\ Checked /\ [Next]_vars => Apart
<1> SUFFICES ASSUME IInv, Checked, [Next]_vars,
                    NEW l \in LeaseIds, NEW m \in LeaseIds, l # m,
                    lease[l] = NoLease, lease'[l] # NoLease, lease[m] # NoLease
             PROVE  ~Overlaps(lease'[l], lease'[m])
  BY DEF Apart
<1>1. PICK w \in Workers : /\ CreateLease(w) \/ EndLease(w)
                           /\ lease' = [lease EXCEPT ![job[w].lease] = job[w].row]
  BY LeaseWriters
<1>2. l = job[w].lease /\ lease'[l] = job[w].row /\ lease'[m] = lease[m]
  BY <1>1 DEF IInv, TypeOK
<1>3. ~EndLease(w)
  BY <1>2, RowParts DEF EndLease, IInv, TypeOK, Requests, EndsActive
<1>4. Fits(job[w].row)
  BY <1>1, <1>3 DEF CreateLease, Checked, StillFits
<1> QED
  BY <1>2, <1>4, RowParts DEF Fits, Overlaps, IInv, TypeOK

\* Two leases of one unit that are checked at the same time are not both
\* created on the same days.
THEOREM SpecCreatedApart == Spec => CreatedApart
<1>1. IInv /\ Checked /\ [Next]_vars => [Apart]_vars
  BY StepApart
<1>2. Init => Checked
  BY NoLeaseJobs DEF Init, Checked, UnitsApart, StillFits, Does
<1> QED
  BY <1>1, <1>2, NextChecked, SpecIInv, PTL DEF Spec, CreatedApart, Apart

----------------------------------------------------------------------------
(* Leases are created once and ended once.                                 *)

\* What one step may do to a lease.
Moves ==
    \A l \in LeaseIds : lease'[l] # lease[l] =>
        \/ lease[l] = NoLease
        \/ /\ lease[l].status = "ACTIVE" /\ lease'[l].status = "ENDED"
           /\ lease'[l].unit = lease[l].unit /\ lease'[l].from = lease[l].from

\* A request writes the lease it has, and knows what the row still says.
LEMMA StepMoves == IInv /\ [Next]_vars => Moves
<1> SUFFICES ASSUME IInv, [Next]_vars, NEW l \in LeaseIds, lease'[l] # lease[l], lease[l] # NoLease
             PROVE  /\ lease[l].status = "ACTIVE" /\ lease'[l].status = "ENDED"
                    /\ lease'[l].unit = lease[l].unit /\ lease'[l].from = lease[l].from
  BY DEF Moves
<1>1. PICK w \in Workers : CreateLease(w) \/ EndLease(w)
  BY DEF Next, Ask, Work, Tomorrow, SetOpen, UpdateUnit, BeginUnit, CreateUnit, DuplicateUnit,
         BeginCreate, CreateLocks, CreateRefused, InsertFails, EndLocks, Fails, End, vars
<1>2. lease' = [lease EXCEPT ![job[w].lease] = job[w].row]
  BY <1>1 DEF CreateLease, EndLease
<1>3. l = job[w].lease /\ lease'[l] = job[w].row
  BY <1>2 DEF IInv, TypeOK
<1>4. ~CreateLease(w)
  BY <1>3 DEF CreateLease, Does, IInv, Requests, CreatesNew, Creates
<1>5. Does(w, "end")
  BY <1>1, <1>4 DEF EndLease
<1> QED
  BY <1>3, <1>5 DEF IInv, Requests, EndsActive

\* A lease row is created once and ended once, on its unit and from its first
\* day, whatever requests wait for the unit in between.
THEOREM SpecLeasesMove == Spec => LeasesMove
<1>1. IInv /\ [Next]_vars => [Moves]_vars
  BY StepMoves
<1> QED
  BY <1>1, SpecIInv, PTL DEF Spec, LeasesMove, Moves
=============================================================================
