-------------------------- MODULE WorkspacesProofs --------------------------
(***************************************************************************)
(* The types and the properties of Workspaces, for any people, workspaces, *)
(* invitations, requests and limits: RosterAgrees, OwnerKept, LimitsKept,  *)
(* AnsweredOnce and DeletedIsAlone.                                        *)
(*                                                                         *)
(* A request in the middle of its transaction relies on what it read under *)
(* the locks it holds.  The induction says what that is (Fits) and that no *)
(* two requests hold one lock (Apart); every writer waits for the locks of *)
(* the rows it writes, or would be the victim of the deadlock.             *)
(***************************************************************************)
EXTENDS Workspaces, FiniteSetTheorems, TLAPS

\* What a request in the middle of a transaction has read is still so.
Fits(j) ==
    /\ j.op = "closing" => /\ member[j.tenant][j.actor] # NoRow
                           /\ \A u \in Users : u # j.actor => ~Active(j.tenant, u)
    /\ j.op \in {"transfer"} \cup Handover => j.user # j.actor
    /\ j.op \in Handover => Resides(j.tenant, j.user)
    /\ j.op \in {"answer", "answering"} => /\ invite[j.invite] # NoInvite
                                           /\ invite[j.invite].user = j.actor
    /\ j.op = "answering" => invite[j.invite].status = "PENDING"
    /\ j.op = "erasing" => \A t \in j.found : member[t][j.actor] # NoRow

\* Requests that hold a User row, and whose.
HasAccount(j) == j.op \in {"counting", "creating", "offering", "handing", "deleting", "erasing"}
Account(j) == IF j.op \in {"offering", "handing"} THEN j.user ELSE j.actor

\* Two requests do not hold one tenant, invitation, membership or account.
Apart(i, j) ==
    /\ i.op \in {"closing"} \cup Handover /\ j.op \in {"closing"} \cup Handover => i.tenant # j.tenant
    /\ i.op = "answering" /\ j.op = "answering" => i.invite # j.invite
    /\ i.op \in Handover /\ j.op = "erasing" => ~(i.tenant \in j.found /\ i.user = j.actor)
    /\ HasAccount(i) /\ HasAccount(j) => Account(i) # Account(j)

Requests ==
    /\ \A w \in Workers : Fits(job[w])
    /\ \A v, w \in Workers : v # w => Apart(job[v], job[w])

\* A workspace that was never created has no rows.
Nowhere ==
    \A t \in Tenants : tenant[t] = "NONE" =>
        /\ Pending(t) = {}
        /\ \A u \in Users : member[t][u] = NoRow /\ profile[t][u] = "NONE"

IInv == TypeOK /\ Nowhere /\ RosterAgrees /\ Requests

USE DEF Handover

----------------------------------------------------------------------------
(* Rows and requests by their parts.                                       *)

\* The parts of a membership.
LEMMA RowParts ==
    ASSUME NEW role, NEW status
    PROVE  Row(role, status).role = role /\ Row(role, status).status = status
  BY DEF Row

\* What a membership row can be.
LEMMA MemberParts ==
    ASSUME NEW r \in MemberRow
    PROVE  /\ r = NoRow \/ (r.role \in {"OWNER", "MEMBER"} /\ r.status \in {"ACTIVE", "ENDED"})
           /\ r.status = "ACTIVE" => r = Row(r.role, "ACTIVE") /\ r.role \in {"OWNER", "MEMBER"}
           /\ NoRow.status = "NONE" /\ NoRow.role = "NONE"
<1>1. NoRow.status = "NONE" /\ NoRow.role = "NONE"
  BY DEF NoRow, Row
<1>2. r = NoRow \/ r \in [role : {"OWNER", "MEMBER"}, status : {"ACTIVE", "ENDED"}]
  BY DEF MemberRow
<1>3. CASE r = NoRow
  BY <1>1, <1>3
<1>4. CASE r \in [role : {"OWNER", "MEMBER"}, status : {"ACTIVE", "ENDED"}]
  BY <1>1, <1>4 DEF Row
<1> QED
  BY <1>2, <1>3, <1>4

\* Rows that are written.
LEMMA MadeRow ==
    ASSUME NEW role \in {"OWNER", "MEMBER"}, NEW status \in {"ACTIVE", "ENDED"}
    PROVE  /\ Row(role, status) \in MemberRow
           /\ Row(role, status) # NoRow
           /\ NoRow \in MemberRow
  BY DEF Row, MemberRow, NoRow

\* The roles are not mixed up.
LEMMA TwoRoles ==
    /\ Row("OWNER", "ACTIVE") # Row("MEMBER", "ACTIVE")
    /\ \A role, other : Row(role, "ENDED") # Row(other, "ACTIVE")
  BY DEF Row

\* The parts of an invitation.
LEMMA InviteParts ==
    ASSUME NEW i \in InviteRow
    PROVE  /\ i = NoInvite \/ (/\ i.tenant \in Tenants /\ i.user \in Users /\ i.lapsed \in BOOLEAN
                               /\ i.status \in {"PENDING", "ACCEPTED", "DECLINED", "CANCELLED", "EXPIRED"})
           /\ NoInvite.status = "NONE"
  BY DEF InviteRow, NoInvite, Invitation

\* Invitations that are written.
LEMMA MadeInvite ==
    ASSUME NEW t \in Tenants, NEW u \in Users, NEW lapsed \in BOOLEAN,
           NEW status \in {"PENDING", "ACCEPTED", "DECLINED", "CANCELLED", "EXPIRED"}
    PROVE  /\ Invitation(t, u, status, lapsed) \in InviteRow
           /\ Invitation(t, u, status, lapsed) # NoInvite
           /\ Invitation(t, u, status, lapsed).tenant = t
           /\ Invitation(t, u, status, lapsed).user = u
           /\ Invitation(t, u, status, lapsed).status = status
  BY DEF Invitation, InviteRow, NoInvite

\* The parts of a request.
LEMMA MadeJob ==
    ASSUME NEW op, NEW t, NEW a, NEW u, NEW i, NEW found
    PROVE  /\ Job(op, t, a, u, i, found).op = op
           /\ Job(op, t, a, u, i, found).tenant = t
           /\ Job(op, t, a, u, i, found).actor = a
           /\ Job(op, t, a, u, i, found).user = u
           /\ Job(op, t, a, u, i, found).invite = i
           /\ Job(op, t, a, u, i, found).found = found
  BY DEF Job

\* What a request of each kind names.
LEMMA JobParts ==
    ASSUME NEW j \in Jobs
    PROVE  /\ j.op \in {"create", "counting", "creating", "closing", "transfer", "invite"} \cup Handover =>
                 j.tenant \in Tenants
           /\ j.op \in {"create", "counting", "creating", "closing", "transfer", "answer",
                        "answering", "deleting", "erasing"} \cup Handover => j.actor \in Users
           /\ j.op \in {"transfer", "invite"} \cup Handover => j.user \in Users
           /\ j.op \in {"answer", "answering"} => j.invite \in Invites
           /\ j.op \in {"erasing", "counting", "creating", "offering", "handing"} => j.found \subseteq Tenants
           /\ HasAccount(j) => Account(j) \in Users
  BY DEF Jobs, Job, Idle, HasAccount, Account

\* The idle request has read nothing and holds nothing.
LEMMA IdleParts ==
    /\ Idle \in Jobs /\ Idle.op = "idle"
    /\ Fits(Idle) /\ \A j : Apart(Idle, j) /\ Apart(j, Idle)
<1>1. Idle \in Jobs /\ Idle.op = "idle"
  BY DEF Jobs, Idle, Job
<1> QED
  BY <1>1 DEF Fits, Apart, HasAccount

\* One membership is written.
LEMMA WrittenRow ==
    ASSUME TypeOK, NEW t \in Tenants, NEW u \in Users, NEW r \in MemberRow,
           member' = [member EXCEPT ![t][u] = r]
    PROVE  /\ member' \in [Tenants -> [Users -> MemberRow]]
           /\ member'[t][u] = r
           /\ \A s \in Tenants, v \in Users : s # t \/ v # u => member'[s][v] = member[s][v]
  BY DEF TypeOK

\* One profile is written.
LEMMA WrittenProfile ==
    ASSUME TypeOK, NEW t \in Tenants, NEW u \in Users, NEW p \in {"NONE", "ACTIVE", "INACTIVE"},
           profile' = [profile EXCEPT ![t][u] = p]
    PROVE  /\ profile' \in [Tenants -> [Users -> {"NONE", "ACTIVE", "INACTIVE"}]]
           /\ profile'[t][u] = p
           /\ \A s \in Tenants, v \in Users : s # t \/ v # u => profile'[s][v] = profile[s][v]
  BY DEF TypeOK

\* One invitation is answered; it keeps its workspace and its user.
LEMMA WrittenAnswer ==
    ASSUME TypeOK, NEW i \in Invites, invite[i] # NoInvite,
           NEW status \in {"ACCEPTED", "DECLINED", "CANCELLED", "EXPIRED"},
           invite' = Answered(i, status)
    PROVE  /\ invite' \in [Invites -> InviteRow]
           /\ invite'[i] # NoInvite
           /\ invite'[i].status = status
           /\ invite'[i].tenant = invite[i].tenant /\ invite'[i].user = invite[i].user
           /\ \A k \in Invites : k # i => invite'[k] = invite[k]
<1> DEFINE r == Invitation(invite[i].tenant, invite[i].user, status, FALSE)
<1>1. invite[i].tenant \in Tenants /\ invite[i].user \in Users
  BY InviteParts DEF TypeOK
<1>2. /\ r \in InviteRow /\ r # NoInvite /\ r.status = status
      /\ r.tenant = invite[i].tenant /\ r.user = invite[i].user
  BY <1>1 DEF Invitation, InviteRow, NoInvite
<1>3. invite' = [invite EXCEPT ![i] = r]
  BY DEF Answered
<1> HIDE DEF r
<1> QED
  BY <1>2, <1>3 DEF TypeOK

----------------------------------------------------------------------------
(* Steps that write no row.                                                *)

\* A request reads, takes locks that are free, or ends.
LEMMA Quiet ==
    ASSUME IInv, NEW w \in Workers, NEW j \in Jobs, Becomes(w, j) \/ (j = Idle /\ End(w)),
           UNCHANGED <<tenant, suspended, member, profile, invite, deleted>>,
           Fits(j), \A v \in Workers : v # w => Apart(job[v], j) /\ Apart(j, job[v])
    PROVE  IInv'
<1> USE DEF IInv
<1>1. /\ job' \in [Workers -> Jobs] /\ job'[w] = j /\ \A v \in Workers : v # w => job'[v] = job[v]
      /\ overtaken' \subseteq Workers
  BY DEF Becomes, End, TypeOK
<1>2. TypeOK'
  BY <1>1 DEF TypeOK
<1>3. Nowhere' /\ RosterAgrees'
  BY DEF Nowhere, RosterAgrees, ClosedIsEmpty, InOrOut, Pending, Active
<1>4. \A i : Fits(i) => Fits(i)'
  BY DEF Fits, Active, Resides
<1>5. \A v \in Workers : Fits(job'[v])
  BY <1>1 DEF Requests
<1>6. \A v, x \in Workers : v # x => Apart(job'[v], job'[x])
  BY <1>1 DEF Requests
<1>7. Requests'
  BY <1>4, <1>5, <1>6 DEF Requests
<1> QED
  BY <1>2, <1>3, <1>7

\* A request ends and writes nothing.
LEMMA Ends ==
    ASSUME IInv, NEW w \in Workers, Refuse(w)
    PROVE  IInv'
  BY IdleParts, Quiet DEF Refuse

\* Requests that begin.
LEMMA Asks ==
    ASSUME IInv, NEW w \in Workers, Ask(w)
    PROVE  IInv'
<1> USE DEF IInv
<1>1. CASE \E a \in Users, t \in Tenants : BeginCreate(w, a, t)
  <2> PICK a \in Users, t \in Tenants : BeginCreate(w, a, t)
    BY <1>1
  <2> DEFINE j == Job("create", t, a, None, None, {})
  <2>1. j \in Jobs
    BY DEF Jobs
  <2>2. j.op = "create"
    BY MadeJob
  <2>3. Becomes(w, j) /\ UNCHANGED <<tenant, suspended, member, profile, invite, deleted>>
    BY DEF BeginCreate, Begin
  <2> HIDE DEF j
  <2>4. Fits(j) /\ \A i : Apart(i, j) /\ Apart(j, i)
    BY <2>2 DEF Fits, Apart, HasAccount
  <2> QED
    BY <2>1, <2>3, <2>4, Quiet
<1>2. CASE \E a \in Users, t \in Tenants : CloseLocks(w, a, t)
  <2> PICK a \in Users, t \in Tenants : CloseLocks(w, a, t)
    BY <1>2
  <2> DEFINE j == Job("closing", t, a, None, None, {})
  <2>1. j \in Jobs
    BY DEF Jobs
  <2>2. j.op = "closing" /\ j.tenant = t /\ j.actor = a
    BY MadeJob
  <2>3. Becomes(w, j) /\ UNCHANGED <<tenant, suspended, member, profile, invite, deleted>>
    BY DEF CloseLocks, Begin
  <2> HIDE DEF j
  <2>4. member[t][a] # NoRow
    BY RowParts, MemberParts DEF CloseLocks, ResolvesOwner, Owns, TypeOK
  <2>5. Fits(j)
    BY <2>2, <2>4 DEF Fits, CloseLocks
  <2>6. \A v \in Workers : Apart(job[v], j) /\ Apart(j, job[v])
    BY <2>2 DEF Apart, CloseLocks, TenantFree, HoldsTenant, HasAccount
  <2> QED
    BY <2>1, <2>3, <2>5, <2>6, Quiet
<1>3. CASE \E a \in Users, t \in Tenants, u \in Users : BeginTransfer(w, a, t, u)
  <2> PICK a \in Users, t \in Tenants, u \in Users : BeginTransfer(w, a, t, u)
    BY <1>3
  <2> DEFINE j == Job("transfer", t, a, u, None, {})
  <2>1. j \in Jobs
    BY DEF Jobs
  <2>2. j.op = "transfer" /\ j.actor = a /\ j.user = u /\ u # a
    BY MadeJob DEF BeginTransfer
  <2>3. Becomes(w, j) /\ UNCHANGED <<tenant, suspended, member, profile, invite, deleted>>
    BY DEF BeginTransfer, Begin
  <2> HIDE DEF j
  <2>4. Fits(j) /\ \A i : Apart(i, j) /\ Apart(j, i)
    BY <2>2 DEF Fits, Apart, HasAccount
  <2> QED
    BY <2>1, <2>3, <2>4, Quiet
<1>4. CASE \E a \in Users, t \in Tenants, u \in Users : BeginInvite(w, a, t, u)
  <2> PICK a \in Users, t \in Tenants, u \in Users : BeginInvite(w, a, t, u)
    BY <1>4
  <2> DEFINE j == Job("invite", t, None, u, None, {})
  <2>1. j \in Jobs
    BY DEF Jobs
  <2>2. j.op = "invite"
    BY MadeJob
  <2>3. Becomes(w, j) /\ UNCHANGED <<tenant, suspended, member, profile, invite, deleted>>
    BY DEF BeginInvite, Begin
  <2> HIDE DEF j
  <2>4. Fits(j) /\ \A i : Apart(i, j) /\ Apart(j, i)
    BY <2>2 DEF Fits, Apart, HasAccount
  <2> QED
    BY <2>1, <2>3, <2>4, Quiet
<1>5. CASE \E i \in Invites : BeginAnswer(w, i)
  <2> PICK i \in Invites : BeginAnswer(w, i)
    BY <1>5
  <2> DEFINE a == invite[i].user
             j == Job("answer", None, a, None, i, {})
  <2>1. invite[i] # NoInvite /\ a \in Users
    BY InviteParts DEF BeginAnswer, TypeOK
  <2>2. Becomes(w, j) /\ UNCHANGED <<tenant, suspended, member, profile, invite, deleted>>
    BY DEF BeginAnswer, Begin
  <2> HIDE DEF a
  <2>3. j \in Jobs
    BY <2>1 DEF Jobs
  <2>4. j.op = "answer" /\ j.actor = a /\ j.invite = i
    BY MadeJob
  <2> HIDE DEF j
  <2>5. Fits(j)
    BY <2>1, <2>4 DEF Fits, a
  <2>6. \A k : Apart(k, j) /\ Apart(j, k)
    BY <2>4 DEF Apart, HasAccount
  <2> QED
    BY <2>2, <2>3, <2>5, <2>6, Quiet
<1>6. CASE \E u \in Users : DeleteLocks(w, u)
  <2> PICK u \in Users : DeleteLocks(w, u)
    BY <1>6
  <2> DEFINE j == Job("deleting", None, u, None, None, {})
  <2>1. j \in Jobs
    BY DEF Jobs
  <2>2. j.op = "deleting" /\ j.actor = u
    BY MadeJob
  <2>3. Becomes(w, j) /\ UNCHANGED <<tenant, suspended, member, profile, invite, deleted>> /\ UserFree(u)
    BY DEF DeleteLocks, Begin
  <2> HIDE DEF j
  <2>4. Fits(j)
    BY <2>2 DEF Fits
  <2>5. \A v \in Workers : Apart(job[v], j) /\ Apart(j, job[v])
    BY <2>2, <2>3 DEF Apart, HasAccount, Account, UserFree, HoldsUser, Deletes, Counts
  <2> QED
    BY <2>1, <2>3, <2>4, <2>5, Quiet
<1> QED
  BY <1>1, <1>2, <1>3, <1>4, <1>5, <1>6 DEF Ask

\* Requests that lock an account, and count its workspaces.
LEMMA Checks ==
    ASSUME IInv, NEW w \in Workers,
           CreateLocks(w) \/ CreateCounts(w) \/ TransferLimit(w) \/ TransferCounts(w)
    PROVE  IInv'
<1> USE DEF IInv
<1>1. /\ job[w] \in Jobs /\ Fits(job[w]) /\ UNCHANGED <<tenant, suspended, member, profile, invite, deleted>>
      /\ \A v \in Workers : v # w => Apart(job[v], job[w]) /\ Apart(job[w], job[v])
  BY DEF TypeOK, Requests, CreateLocks, CreateCounts, TransferLimit, TransferCounts
<1>2. CASE CreateLocks(w) \/ CreateCounts(w)
  <2>1. PICK t \in Tenants, u \in Users, found \in SUBSET Tenants, op \in {"counting", "creating"} :
            /\ Becomes(w, Job(op, t, u, None, None, found))
            /\ \A v \in Workers : v # w => ~HoldsUser(v, u)
    <3>1. job[w].tenant \in Tenants /\ job[w].actor \in Users /\ Entitled(job[w].actor) \in SUBSET Tenants
      BY <1>1, <1>2, JobParts, TenantSets DEF CreateLocks, CreateCounts, Does, Entitled
    <3>2. CASE CreateLocks(w)
      BY <3>1, <3>2 DEF CreateLocks, UserFree
    <3>3. CASE CreateCounts(w)
      <4>1. job[w].op = "counting" /\ job[w].found \in SUBSET Tenants
        BY <1>1, <3>3, JobParts DEF CreateCounts, Does
      <4>2. \A v \in Workers : v # w => ~HoldsUser(v, job[w].actor)
        BY <1>1, <4>1 DEF Apart, HasAccount, Account, HoldsUser, Deletes, Counts
      <4> QED
        BY <3>1, <3>3, <4>1, <4>2 DEF CreateCounts
    <3> QED
      BY <1>2, <3>2, <3>3
  <2> DEFINE j == Job(op, t, u, None, None, found)
  <2>2. j \in Jobs
    BY DEF Jobs
  <2>3. j.op \in {"counting", "creating"} /\ j.actor = u
    BY MadeJob
  <2>4. Becomes(w, j)
    BY <2>1
  <2> HIDE DEF j
  <2>5. Fits(j)
    BY <2>3 DEF Fits
  <2>6. \A v \in Workers : v # w => Apart(job[v], j) /\ Apart(j, job[v])
    BY <2>1, <2>3 DEF Apart, HasAccount, Account, HoldsUser, Deletes, Counts
  <2> QED
    BY <1>1, <2>2, <2>4, <2>5, <2>6, Quiet
<1>3. CASE TransferLimit(w) \/ TransferCounts(w)
  <2>1. job[w].op \in Handover /\ job[w].tenant \in Tenants /\ job[w].actor \in Users /\ job[w].user \in Users
    BY <1>1, <1>3, JobParts DEF TransferLimit, TransferCounts, Does
  <2>2. PICK t \in Tenants, a \in Users, u \in Users, found \in SUBSET Tenants, op \in {"offering", "handing"} :
            /\ t = job[w].tenant /\ a = job[w].actor /\ u = job[w].user
            /\ Becomes(w, Job(op, t, a, u, None, found))
            /\ \A v \in Workers : v # w => ~HoldsUser(v, u)
    <3>1. CASE TransferLimit(w)
      <4>1. Entitled(job[w].user) \in SUBSET Tenants
        BY TenantSets DEF Entitled
      <4>2. \A v \in Workers : v # w => ~HoldsUser(v, job[w].user)
        BY <3>1 DEF TransferLimit, Does, Blocked, Blocks
      <4> QED
        BY <2>1, <3>1, <4>1, <4>2 DEF TransferLimit
    <3>2. CASE TransferCounts(w)
      <4>1. job[w].op = "offering" /\ job[w].found \in SUBSET Tenants
        BY <1>1, <3>2, JobParts DEF TransferCounts, Does
      <4>2. \A v \in Workers : v # w => ~HoldsUser(v, job[w].user)
        BY <1>1, <4>1 DEF Apart, HasAccount, Account, HoldsUser, Deletes, Counts
      <4> QED
        BY <2>1, <3>2, <4>1, <4>2 DEF TransferCounts
    <3> QED
      BY <1>3, <3>1, <3>2
  <2> DEFINE j == Job(op, t, a, u, None, found)
  <2>3. j \in Jobs
    BY DEF Jobs
  <2>4. j.op \in {"offering", "handing"} /\ j.tenant = t /\ j.actor = a /\ j.user = u
    BY MadeJob
  <2>5. Becomes(w, j)
    BY <2>2
  <2> HIDE DEF j
  <2>6. Fits(j)
    BY <1>1, <2>1, <2>2, <2>4 DEF Fits
  <2>7. \A v \in Workers : v # w => Apart(job[v], j) /\ Apart(j, job[v])
    BY <1>1, <2>1, <2>2, <2>4 DEF Apart, HasAccount, Account, HoldsUser, Deletes, Counts
  <2> QED
    BY <1>1, <2>3, <2>5, <2>6, <2>7, Quiet
<1> QED
  BY <1>2, <1>3

\* Requests that take their locks, or select the rows they will update.
LEMMA Locks ==
    ASSUME IInv, NEW w \in Workers, TransferLocks(w) \/ AnswerLocks(w) \/ DeleteMembers(w)
    PROVE  IInv'
<1> USE DEF IInv
<1> job[w] \in Jobs /\ UNCHANGED <<tenant, suspended, member, profile, invite, deleted>>
  BY DEF TypeOK, TransferLocks, AnswerLocks, DeleteMembers
<1>1. CASE End(w)
  BY <1>1, IdleParts, Quiet
<1>2. CASE TransferLocks(w) /\ ~End(w)
  <2> DEFINE t == job[w].tenant
             a == job[w].actor
             u == job[w].user
             j == Job("transferring", t, a, u, None, {})
  <2>1. t \in Tenants /\ a \in Users /\ u \in Users
    BY <1>2, JobParts DEF TransferLocks, Does
  <2>2. Becomes(w, j) /\ Resides(t, u) /\ TenantFree(t) /\ MemberFree(t, u)
    BY <1>2 DEF TransferLocks
  <2>3. u # a
    BY <1>2 DEF TransferLocks, Does, Requests, Fits
  <2> HIDE DEF t, a, u
  <2>4. j \in Jobs
    BY <2>1 DEF Jobs
  <2>5. j.op = "transferring" /\ j.tenant = t /\ j.actor = a /\ j.user = u
    BY MadeJob
  <2> HIDE DEF j
  <2>6. Fits(j)
    BY <2>2, <2>3, <2>5 DEF Fits
  <2>7. \A v \in Workers : Apart(job[v], j) /\ Apart(j, job[v])
    BY <2>2, <2>5 DEF Apart, TenantFree, HoldsTenant, MemberFree, HoldsMember, HasAccount
  <2> QED
    BY <2>2, <2>4, <2>6, <2>7, Quiet
<1>3. CASE AnswerLocks(w) /\ ~End(w)
  <2> DEFINE a == job[w].actor
             i == job[w].invite
             j == Job("answering", None, a, None, i, {})
  <2>1. a \in Users /\ i \in Invites
    BY <1>3, JobParts DEF AnswerLocks, Does
  <2>2. Becomes(w, j) /\ InviteFree(i) /\ invite[i].status = "PENDING"
    BY <1>3 DEF AnswerLocks, StillPending
  <2>3. invite[i] # NoInvite /\ invite[i].user = a
    BY <1>3 DEF AnswerLocks, Does, Requests, Fits
  <2> HIDE DEF a, i
  <2>4. j \in Jobs
    BY <2>1 DEF Jobs
  <2>5. j.op = "answering" /\ j.actor = a /\ j.invite = i
    BY MadeJob
  <2> HIDE DEF j
  <2>6. Fits(j)
    BY <2>2, <2>3, <2>5 DEF Fits
  <2>7. \A v \in Workers : Apart(job[v], j) /\ Apart(j, job[v])
    BY <2>2, <2>5 DEF Apart, InviteFree, HoldsInvite, HasAccount
  <2> QED
    BY <2>2, <2>4, <2>6, <2>7, Quiet
<1>4. CASE DeleteMembers(w) /\ ~End(w)
  <2> DEFINE u == job[w].actor
             found == {t \in Tenants : Active(t, u)}
             j == Job("erasing", None, u, None, None, found)
  <2>1. u \in Users
    BY <1>4, JobParts DEF DeleteMembers, Does
  <2>2. Becomes(w, j)
    BY <1>4 DEF DeleteMembers
  <2>3. \A t \in Tenants, v \in Workers : Active(t, u) /\ v # w => ~HoldsMember(v, t, u)
    BY <1>4 DEF DeleteMembers, Does, Blocked, Blocks
  <2> HIDE DEF u
  <2>4. \A t \in found : member[t][u] # NoRow
    BY <2>1, MemberParts DEF Active, TypeOK
  <2>5. found \in SUBSET Tenants /\ \A t \in found : Active(t, u)
    OBVIOUS
  <2> HIDE DEF found
  <2>6. j \in Jobs /\ j.op = "erasing" /\ j.actor = u /\ j.found = found
    BY <2>1, <2>5, MadeJob DEF Jobs
  <2> HIDE DEF j
  <2>7. Fits(j)
    BY <2>4, <2>6 DEF Fits
  <2>8. \A v \in Workers : v # w /\ HasAccount(job[v]) => Account(job[v]) # u
    BY <1>4 DEF DeleteMembers, Does, Requests, Apart, HasAccount, Account, u
  <2>9. \A v \in Workers : v # w => Apart(job[v], j) /\ Apart(j, job[v])
    BY <2>3, <2>5, <2>6, <2>8 DEF Apart, HoldsMember, Account
  <2> QED
    BY <2>2, <2>6, <2>7, <2>9, Quiet
<1> QED
  BY <1>1, <1>2, <1>3, <1>4

----------------------------------------------------------------------------
(* Steps that write rows.                                                  *)

\* Requests that go on still find what they read, when nobody who is not the
\* holder of a lock has written what it protects.
LEMMA Undisturbed ==
    ASSUME IInv, TypeOK',
           \A v \in Workers : job'[v] = job[v] \/ job'[v] = Idle,
           \A t \in Tenants, u \in Users : member[t][u] # NoRow => member'[t][u] # NoRow,
           \A i \in Invites : invite[i] # NoInvite =>
               invite'[i] # NoInvite /\ invite'[i].user = invite[i].user,
           \A v \in Workers : job'[v] = job[v] /\ Does(v, "closing") =>
               \A u \in Users : member'[job[v].tenant][u].status = "ACTIVE" => Active(job[v].tenant, u),
           \A v \in Workers : job'[v] = job[v] /\ job[v].op \in Handover =>
               member'[job[v].tenant][job[v].user] = Row("MEMBER", "ACTIVE"),
           \A v \in Workers : job'[v] = job[v] /\ Does(v, "answering") =>
               invite'[job[v].invite].status = "PENDING"
    PROVE  Requests'
<1>1. \A v \in Workers : Fits(job[v]) /\ job[v] \in Jobs
  BY DEF IInv, TypeOK, Requests
<1>2. ASSUME NEW v \in Workers PROVE Fits(job[v])'
  <2>1. CASE job'[v] = Idle
    BY <2>1, IdleParts DEF Fits
  <2>2. CASE job'[v] = job[v] /\ job[v] # Idle
    <3>1. PICK j \in Jobs : j = job[v]
      BY <1>1
    <3>2. /\ Fits(j) /\ job'[v] = j
          /\ j.op = "closing" => \A u \in Users : member'[j.tenant][u].status = "ACTIVE" => Active(j.tenant, u)
          /\ j.op \in Handover => member'[j.tenant][j.user] = Row("MEMBER", "ACTIVE")
          /\ j.op = "answering" => invite'[j.invite].status = "PENDING"
      BY <1>1, <2>2, <3>1 DEF Does
    <3>3. j.op = "closing" =>
             member'[j.tenant][j.actor] # NoRow /\ \A u \in Users : u # j.actor => ~Active(j.tenant, u)'
      BY <3>2, JobParts DEF Fits, Active
    <3>4. j.op \in {"transfer"} \cup Handover => j.user # j.actor
      BY <3>2 DEF Fits
    <3>5. j.op \in {"answer", "answering"} => invite'[j.invite] # NoInvite /\ invite'[j.invite].user = j.actor
      BY <3>2, JobParts DEF Fits
    <3>6. j.op = "erasing" => \A t \in j.found : member'[t][j.actor] # NoRow
      BY <3>2, JobParts DEF Fits
    <3>7. Fits(j)'
      BY <3>2, <3>3, <3>4, <3>5, <3>6 DEF Fits, Resides
    <3> QED
      BY <3>2, <3>7 DEF Fits
  <2> QED
    BY <2>1, <2>2
<1>3. \A v, w \in Workers : v # w => Apart(job'[v], job'[w])
  BY IdleParts DEF IInv, Requests
<1> QED
  BY <1>2, <1>3 DEF Requests

\* What is left running when a request ends.
LEMMA OthersGoOn ==
    ASSUME TypeOK, NEW w \in Workers, End(w)
    PROVE  /\ job' \in [Workers -> Jobs]
           /\ job'[w] = Idle
           /\ \A v \in Workers : v # w => job'[v] = job[v]
           /\ \A v \in Workers : job'[v] = job[v] \/ job'[v] = Idle
           /\ \A v \in Workers : job'[v] = job[v] => v # w \/ job[v] = Idle
           /\ overtaken' \subseteq Workers
  BY IdleParts DEF End, TypeOK

\* The same rows are there.
SameRows ==
    /\ \A t \in Tenants, u \in Users : member'[t][u] = NoRow <=> member[t][u] = NoRow
    /\ \A t \in Tenants, u \in Users : profile[t][u] = "NONE" => profile'[t][u] = "NONE"
    /\ \A i \in Invites : invite[i] # NoInvite =>
           /\ invite'[i] # NoInvite
           /\ invite'[i].user = invite[i].user /\ invite'[i].tenant = invite[i].tenant

\* Nobody comes in, and who goes out leaves no profile behind.
FewerIn ==
    /\ \A t \in Tenants, u \in Users : member'[t][u].status = "ACTIVE" => Active(t, u)
    /\ \A t \in Tenants, u \in Users : tenant'[t] = "OPEN" /\ profile'[t][u] = "ACTIVE" =>
           profile[t][u] = "ACTIVE" /\ (Active(t, u) => member'[t][u].status = "ACTIVE")
    /\ \A i \in Invites : invite'[i].status = "PENDING" => invite[i].status = "PENDING"

\* Workspaces are closed empty, and not opened.
ClosedOnly ==
    \A t \in Tenants :
        /\ tenant'[t] = "NONE" <=> tenant[t] = "NONE"
        /\ tenant'[t] = "OPEN" => tenant[t] = "OPEN"
        /\ tenant'[t] = "CLOSED" /\ tenant[t] # "CLOSED" =>
               /\ \A i \in Invites : invite'[i].tenant = t => invite'[i].status # "PENDING"
               /\ \A u \in Users : member'[t][u].status # "ACTIVE"

\* Steps that let nobody in.
LEMMA FewerMembers ==
    ASSUME IInv, TypeOK', SameRows, FewerIn, ClosedOnly,
           \A v \in Workers : job'[v] = job[v] \/ job'[v] = Idle,
           \A v \in Workers : job'[v] = job[v] /\ job[v].op \in Handover =>
               member'[job[v].tenant][job[v].user] = Row("MEMBER", "ACTIVE"),
           \A v \in Workers : job'[v] = job[v] /\ Does(v, "answering") =>
               invite'[job[v].invite].status = "PENDING"
    PROVE  IInv'
<1> USE DEF IInv
<1>1. \A i \in Invites : invite'[i].status = "PENDING" =>
          /\ invite[i].status = "PENDING"
          /\ invite'[i].user = invite[i].user /\ invite'[i].tenant = invite[i].tenant
          /\ invite[i].tenant \in Tenants /\ invite[i].user \in Users
  BY InviteParts DEF TypeOK, FewerIn, SameRows
<1>2. \A t \in Tenants : \A i \in Pending(t)' : i \in Pending(t) /\ invite'[i].user = invite[i].user
  BY <1>1 DEF Pending
<1>3. Nowhere'
  BY <1>2 DEF Nowhere, SameRows, ClosedOnly
<1>4. ClosedIsEmpty'
  <2> SUFFICES ASSUME NEW t \in Tenants, tenant'[t] = "CLOSED"
               PROVE  Pending(t)' = {} /\ \A u \in Users : member'[t][u].status # "ACTIVE"
    BY DEF ClosedIsEmpty, Active
  <2>1. CASE tenant[t] = "CLOSED"
    BY <1>2, <2>1 DEF RosterAgrees, ClosedIsEmpty, FewerIn
  <2>2. CASE tenant[t] # "CLOSED"
    BY <2>2 DEF ClosedOnly, Pending
  <2> QED
    BY <2>1, <2>2
<1>5. InOrOut'
  <2>1. ASSUME NEW t \in Tenants, NEW i \in Pending(t)'
        PROVE  /\ member'[t][invite'[i].user].status # "ACTIVE"
               /\ \A k \in Pending(t)' \ {i} : invite'[k].user # invite'[i].user
    <3>1. i \in Invites /\ invite'[i].status = "PENDING" /\ invite[i].user \in Users
      BY <1>1, <2>1 DEF Pending
    <3>2. i \in Pending(t) /\ invite'[i].user = invite[i].user /\ ~Active(t, invite[i].user)
      BY <1>2, <2>1 DEF RosterAgrees, InOrOut
    <3> QED
      BY <1>2, <2>1, <3>1, <3>2 DEF RosterAgrees, InOrOut, FewerIn
  <2>2. \A t \in Tenants : tenant'[t] = "OPEN" =>
            \A u \in Users : profile'[t][u] = "ACTIVE" => member'[t][u].status = "ACTIVE"
    BY DEF RosterAgrees, InOrOut, FewerIn, ClosedOnly
  <2> QED
    BY <2>1, <2>2 DEF InOrOut, Active
<1>6. Requests'
  <2>1. \A v \in Workers : job'[v] = job[v] /\ Does(v, "closing") =>
            \A u \in Users : member'[job[v].tenant][u].status = "ACTIVE" => Active(job[v].tenant, u)
    BY JobParts DEF FewerIn, Does, TypeOK
  <2> QED
    BY <2>1, Undisturbed DEF SameRows
<1> QED
  BY <1>3, <1>4, <1>5, <1>6 DEF RosterAgrees

\* Steps that write invitations only, and make none pending.
LEMMA FewerPending ==
    ASSUME IInv, UNCHANGED <<tenant, suspended, member, profile, deleted>>,
           job' \in [Workers -> Jobs], \A v \in Workers : job'[v] = job[v] \/ job'[v] = Idle,
           overtaken' \subseteq Workers,
           invite' \in [Invites -> InviteRow],
           \A i \in Invites : invite[i] # NoInvite =>
               /\ invite'[i] # NoInvite
               /\ invite'[i].user = invite[i].user /\ invite'[i].tenant = invite[i].tenant,
           \A i \in Invites : invite'[i].status = "PENDING" => invite[i].status = "PENDING",
           \A v \in Workers : job'[v] = job[v] /\ Does(v, "answering") =>
               invite'[job[v].invite].status = "PENDING"
    PROVE  IInv'
<1>1. TypeOK'
  BY DEF IInv, TypeOK
<1>2. SameRows /\ FewerIn /\ ClosedOnly
  BY DEF SameRows, FewerIn, ClosedOnly, Active
<1>3. \A v \in Workers : job'[v] = job[v] /\ job[v].op \in Handover =>
          member'[job[v].tenant][job[v].user] = Row("MEMBER", "ACTIVE")
  BY DEF IInv, Requests, Fits, Does, Resides
<1> QED
  BY <1>1, <1>2, <1>3, FewerMembers

\* A pending invitation that nobody else is answering.
LEMMA AnsweredAlone ==
    ASSUME IInv, job' \in [Workers -> Jobs], \A v \in Workers : job'[v] = job[v] \/ job'[v] = Idle,
           overtaken' \subseteq Workers,
           UNCHANGED <<tenant, suspended, member, profile, deleted>>,
           NEW i \in Invites, invite[i].status = "PENDING",
           NEW status \in {"ACCEPTED", "DECLINED", "CANCELLED", "EXPIRED"},
           invite' = Answered(i, status),
           \A v \in Workers : job'[v] = job[v] => ~HoldsInvite(v, i)
    PROVE  IInv'
<1>1. invite[i] # NoInvite
  BY InviteParts DEF IInv, TypeOK
<1>2. /\ invite' \in [Invites -> InviteRow]
      /\ invite'[i] # NoInvite /\ invite'[i].status = status
      /\ invite'[i].tenant = invite[i].tenant /\ invite'[i].user = invite[i].user
      /\ \A k \in Invites : k # i => invite'[k] = invite[k]
  BY <1>1, WrittenAnswer DEF IInv
<1>3. \A k \in Invites : invite'[k].status = "PENDING" => invite[k].status = "PENDING"
  BY <1>2
<1>4. \A v \in Workers : job'[v] = job[v] /\ Does(v, "answering") =>
          invite'[job[v].invite].status = "PENDING"
  <2> SUFFICES ASSUME NEW v \in Workers, job'[v] = job[v], Does(v, "answering")
               PROVE  invite'[job[v].invite].status = "PENDING"
    OBVIOUS
  <2>1. job[v].invite \in Invites /\ invite[job[v].invite].status = "PENDING"
    BY JobParts DEF IInv, TypeOK, Requests, Fits, Does
  <2>2. job[v].invite # i
    BY DEF HoldsInvite, Does
  <2> QED
    BY <1>2, <2>1, <2>2
<1>5. \A k \in Invites : invite[k] # NoInvite =>
          /\ invite'[k] # NoInvite
          /\ invite'[k].user = invite[k].user /\ invite'[k].tenant = invite[k].tenant
  BY <1>2
<1> QED
  BY <1>2, <1>3, <1>4, <1>5, FewerPending

\* Invitations lapse, expire, are cancelled and declined.
LEMMA InviteSteps ==
    ASSUME IInv,
           \/ \E i \in Invites : Lapses(i) \/ ExpireStale(i) \/ \E a \in Users : CancelInvitation(a, i)
           \/ \E w \in Workers : Decline(w)
    PROVE  IInv'
<1> USE DEF IInv
<1>1. CASE \E i \in Invites : Lapses(i)
  <2> PICK i \in Invites : Lapses(i)
    BY <1>1
  <2> DEFINE r == Invitation(invite[i].tenant, invite[i].user, "PENDING", TRUE)
  <2>1. invite[i].tenant \in Tenants /\ invite[i].user \in Users /\ invite[i].status = "PENDING"
    BY InviteParts DEF Lapses, TypeOK
  <2>2. /\ r \in InviteRow /\ r # NoInvite /\ r.status = "PENDING"
        /\ r.tenant = invite[i].tenant /\ r.user = invite[i].user
    BY <2>1 DEF Invitation, InviteRow, NoInvite
  <2>3. invite' = [invite EXCEPT ![i] = r] /\ UNCHANGED <<tenant, suspended, member, profile, deleted, job, overtaken>>
    BY DEF Lapses
  <2> HIDE DEF r
  <2>4. invite' \in [Invites -> InviteRow] /\ invite'[i] = r /\ \A k \in Invites : k # i => invite'[k] = invite[k]
    BY <2>2, <2>3 DEF TypeOK
  <2>5. \A v \in Workers : Does(v, "answering") => invite'[job[v].invite].status = "PENDING"
    <3>1. \A v \in Workers : Does(v, "answering") =>
              job[v].invite \in Invites /\ invite[job[v].invite].status = "PENDING"
      BY JobParts DEF TypeOK, Requests, Fits, Does
    <3> QED
      BY <2>2, <2>4, <3>1
  <2>6. job' \in [Workers -> Jobs] /\ overtaken' \subseteq Workers /\ \A v \in Workers : job'[v] = job[v]
    BY <2>3 DEF TypeOK
  <2>7. \A k \in Invites : invite[k] # NoInvite =>
          /\ invite'[k] # NoInvite
          /\ invite'[k].user = invite[k].user /\ invite'[k].tenant = invite[k].tenant
    BY <2>2, <2>4
  <2>8. \A k \in Invites : invite'[k].status = "PENDING" => invite[k].status = "PENDING"
    BY <2>1, <2>4
  <2> QED
    BY <2>3, <2>4, <2>5, <2>6, <2>7, <2>8, FewerPending
<1>2. CASE \E i \in Invites : ExpireStale(i) \/ \E a \in Users : CancelInvitation(a, i)
  <2> PICK i \in Invites : ExpireStale(i) \/ \E a \in Users : CancelInvitation(a, i)
    BY <1>2
  <2>1. PICK status \in {"CANCELLED", "EXPIRED"} : invite' = Answered(i, status)
    BY DEF ExpireStale, CancelInvitation
  <2>2. /\ invite[i].status = "PENDING" /\ InviteFree(i)
        /\ UNCHANGED <<tenant, suspended, member, profile, deleted, job, overtaken>>
    BY DEF ExpireStale, CancelInvitation
  <2>3. job' \in [Workers -> Jobs] /\ overtaken' \subseteq Workers /\ \A v \in Workers : job'[v] = job[v] /\ ~HoldsInvite(v, i)
    BY <2>2 DEF TypeOK, InviteFree
  <2> QED
    BY <2>1, <2>2, <2>3, AnsweredAlone
<1>3. CASE \E w \in Workers : Decline(w)
  <2> PICK w \in Workers : Decline(w)
    BY <1>3
  <2> DEFINE i == job[w].invite
  <2>1. i \in Invites /\ invite[i].status = "PENDING" /\ Does(w, "answering")
    BY JobParts DEF Decline, TypeOK, Requests, Fits, Does
  <2>2. invite' = Answered(i, "DECLINED") /\ End(w) /\ UNCHANGED <<tenant, suspended, member, profile, deleted>>
    BY DEF Decline
  <2>3. \A v \in Workers : v # w => ~HoldsInvite(v, i)
    BY <2>1 DEF Requests, Apart, HoldsInvite, Does
  <2>4. ~HoldsInvite(w, i)'
    BY <2>2, OthersGoOn, IdleParts DEF HoldsInvite
  <2>5. \A v \in Workers : job'[v] = job[v] => ~HoldsInvite(v, i)
    BY <2>2, <2>3, OthersGoOn, IdleParts DEF HoldsInvite
  <2> HIDE DEF i
  <2> QED
    BY <2>1, <2>2, <2>5, OthersGoOn, AnsweredAlone
<1> QED
  BY <1>1, <1>2, <1>3

\* An invitation is made; the lapsed ones of the workspace expire.
LEMMA InviteMade ==
    ASSUME IInv, NEW w \in Workers, NEW i \in Invites, CreateInvitation(w, i)
    PROVE  IInv'
<1> USE DEF IInv
<1>1. PICK t \in Tenants, u \in Users : t = job[w].tenant /\ u = job[w].user
  BY JobParts DEF CreateInvitation, Does, TypeOK
<1> DEFINE old(k) == Invitation(t, invite[k].user, "EXPIRED", FALSE)
           new == Invitation(t, u, "PENDING", FALSE)
<1>2. /\ invite[i] = NoInvite /\ tenant[t] = "OPEN" /\ ~Active(t, u) /\ ~Invited(t, u)
      /\ \A k \in Lapsed(t) : InviteFree(k)
      /\ End(w) /\ UNCHANGED <<tenant, suspended, member, profile, deleted>>
  BY <1>1 DEF CreateInvitation, TakesMembers
<1>3. invite' = [k \in Invites |-> IF k = i THEN new ELSE IF k \in Lapsed(t) THEN old(k) ELSE invite[k]]
  BY <1>1 DEF CreateInvitation
<1>4. \A k \in Lapsed(t) : /\ k \in Invites /\ k # i /\ invite[k].tenant = t /\ invite[k].user \in Users
                           /\ invite[k].status = "PENDING"
  BY <1>2, InviteParts DEF Lapsed, Pending, TypeOK
<1>5. \A k \in Lapsed(t) : /\ old(k) \in InviteRow /\ old(k) # NoInvite /\ old(k).status = "EXPIRED"
                           /\ old(k).tenant = invite[k].tenant /\ old(k).user = invite[k].user
  BY <1>1, <1>4 DEF Invitation, InviteRow, NoInvite
<1>6. /\ new \in InviteRow /\ new # NoInvite /\ new.status = "PENDING" /\ new.tenant = t /\ new.user = u
  BY <1>1 DEF Invitation, InviteRow, NoInvite
<1> HIDE DEF old, new
<1>7. /\ invite' \in [Invites -> InviteRow] /\ invite'[i] = new
      /\ \A k \in Invites : k # i =>
            /\ k \notin Lapsed(t) => invite'[k] = invite[k]
            /\ k \in Lapsed(t) => invite'[k] = old(k)
            /\ invite'[k].user = invite[k].user /\ invite'[k].tenant = invite[k].tenant
            /\ invite'[k].status = "PENDING" => invite[k].status = "PENDING" /\ k \notin Lapsed(t)
            /\ invite[k] # NoInvite => invite'[k] # NoInvite
  <2>1. invite' \in [Invites -> InviteRow]
    BY <1>3, <1>5, <1>6 DEF TypeOK
  <2> QED
    BY <1>3, <1>4, <1>5, <2>1
<1>8. TypeOK'
  BY <1>2, <1>7, OthersGoOn DEF TypeOK
<1>9. \A s \in Tenants : Pending(s)' \subseteq Pending(s) \cup {i} /\ (i \in Pending(s)' => s = t)
  BY <1>6, <1>7 DEF Pending
<1>10. Nowhere' /\ ClosedIsEmpty'
  <2>1. \A s \in Tenants : s # t => Pending(s)' \subseteq Pending(s)
    BY <1>9
  <2> QED
    BY <1>2, <2>1 DEF Nowhere, RosterAgrees, ClosedIsEmpty, Active
<1>11. InOrOut'
  <2>1. ASSUME NEW s \in Tenants, NEW k \in Pending(s)'
        PROVE  member[s][invite'[k].user].status # "ACTIVE"
    <3>1. CASE k = i
      BY <1>2, <1>6, <1>7, <1>9, <2>1, <3>1 DEF Active
    <3>2. CASE k # i
      BY <1>7, <1>9, <2>1, <3>2 DEF RosterAgrees, InOrOut, Active, Pending
    <3> QED
      BY <3>1, <3>2
  <2>2. ASSUME NEW k \in Pending(t)', k # i PROVE invite'[k].user # u
    <3>1. k \in Invites /\ invite'[k].status = "PENDING"
      BY <2>2 DEF Pending
    <3>2. k \in Pending(t) /\ k \notin Lapsed(t) /\ invite'[k].user = invite[k].user
      BY <1>1, <1>7, <1>9, <2>2, <3>1
    <3>3. k \in Reserved(t)
      BY <3>2 DEF Reserved, Lapsed
    <3> QED
      BY <1>2, <3>2, <3>3 DEF Invited
  <2>3. ASSUME NEW s \in Tenants, NEW k \in Pending(s)', NEW l \in Pending(s)', k # l
        PROVE  invite'[k].user # invite'[l].user
    <3>1. CASE k = i \/ l = i
      <4>1. s = t /\ invite'[i].user = u
        BY <1>6, <1>7, <1>9, <2>3, <3>1
      <4>2. CASE k = i
        BY <2>2, <2>3, <4>1, <4>2
      <4>3. CASE l = i
        BY <2>2, <2>3, <4>1, <4>3
      <4> QED
        BY <3>1, <4>2, <4>3
    <3>2. CASE k # i /\ l # i
      <4>1. k \in Pending(s) /\ l \in Pending(s) /\ k \in Invites /\ l \in Invites
        BY <1>9, <2>3, <3>2 DEF Pending
      <4> QED
        BY <1>7, <2>3, <3>2, <4>1 DEF RosterAgrees, InOrOut
    <3> QED
      BY <3>1, <3>2
  <2>4. \A s \in Tenants : tenant'[s] = "OPEN" =>
            \A x \in Users : profile'[s][x] = "ACTIVE" => member'[s][x].status = "ACTIVE"
    BY <1>2 DEF RosterAgrees, InOrOut, Active
  <2> QED
    BY <1>2, <2>1, <2>3, <2>4 DEF InOrOut, Active
<1>12. Requests'
  <2>1. \A v \in Workers : job'[v] = job[v] /\ Does(v, "answering") =>
            invite'[job[v].invite].status = "PENDING"
    <3> SUFFICES ASSUME NEW v \in Workers, Does(v, "answering")
                 PROVE  invite'[job[v].invite].status = "PENDING"
      OBVIOUS
    <3>1. job[v].invite \in Invites /\ invite[job[v].invite].status = "PENDING"
      BY JobParts DEF TypeOK, Requests, Fits, Does
    <3>2. job[v].invite # i /\ job[v].invite \notin Lapsed(t)
      <4>1. invite[i].status # "PENDING"
        BY <1>2, InviteParts DEF TypeOK
      <4>2. \A k \in Lapsed(t) : job[v].invite # k
        BY <1>2 DEF InviteFree, HoldsInvite, Does
      <4> QED
        BY <3>1, <4>1, <4>2
    <3> QED
      BY <1>7, <3>1, <3>2
  <2>2. \A v \in Workers : job'[v] = job[v] /\ job[v].op \in Handover =>
            member'[job[v].tenant][job[v].user] = Row("MEMBER", "ACTIVE")
    BY <1>2 DEF Requests, Fits, Does, Resides
  <2>3. \A k \in Invites : invite[k] # NoInvite => invite'[k] # NoInvite /\ invite'[k].user = invite[k].user
    BY <1>2, <1>7
  <2> QED
    BY <1>2, <1>8, <2>1, <2>2, <2>3, OthersGoOn, Undisturbed DEF Active
<1> QED
  BY <1>8, <1>10, <1>11, <1>12 DEF RosterAgrees

----------------------------------------------------------------------------
(* Memberships that end or change.                                         *)

\* A request that goes on answering still finds its invitation unanswered.
StillAnswers ==
    \A v \in Workers : job'[v] = job[v] /\ Does(v, "answering") => invite'[job[v].invite].status = "PENDING"

\* A transfer that goes on still finds its target a member.
StillResides ==
    \A v \in Workers : job'[v] = job[v] /\ job[v].op \in Handover =>
        member'[job[v].tenant][job[v].user] = Row("MEMBER", "ACTIVE")

\* What requests in the middle of a transaction have read, one by one.
LEMMA Read ==
    ASSUME IInv, NEW v \in Workers
    PROVE  /\ Does(v, "answering") =>
                 job[v].invite \in Invites /\ invite[job[v].invite].status = "PENDING"
           /\ job[v].op \in Handover =>
                 /\ job[v].tenant \in Tenants /\ job[v].user \in Users
                 /\ member[job[v].tenant][job[v].user] = Row("MEMBER", "ACTIVE")
  BY JobParts DEF IInv, TypeOK, Requests, Fits, Does, Resides

\* Nothing is answered when no invitation is written.
LEMMA NothingAnswered ==
    ASSUME IInv, UNCHANGED invite
    PROVE  StillAnswers
  BY Read DEF StillAnswers

\* A membership ends, or changes its role, at the wish of one request.
LEMMA MemberSteps ==
    ASSUME IInv, NEW t \in Tenants, NEW u \in Users,
           \/ Leave(t, u) \/ \E a \in Users : Remove(t, a, u)
           \/ \E role \in {"OWNER", "MEMBER"} : SetRole(t, u, role)
    PROVE  IInv'
<1> USE DEF IInv
<1>1. PICK r \in MemberRow, p \in {"NONE", "ACTIVE", "INACTIVE"} :
          /\ member' = [member EXCEPT ![t][u] = r]
          /\ profile' = [profile EXCEPT ![t][u] = p]
          /\ r # NoRow /\ member[t][u] # NoRow
          /\ r.status = "ACTIVE" => Active(t, u)
          /\ profile[t][u] = "NONE" => p = "NONE"
          /\ p = "ACTIVE" => p = profile[t][u] /\ r.status = "ACTIVE"
  <2> DEFINE was == member[t][u]
             old == profile[t][u]
  <2>1. was \in MemberRow /\ old \in {"NONE", "ACTIVE", "INACTIVE"}
    BY DEF TypeOK
  <2>2. CASE \E role \in {"OWNER", "MEMBER"} : SetRole(t, u, role)
    <3> PICK role \in {"OWNER", "MEMBER"} : SetRole(t, u, role)
      BY <2>2
    <3> DEFINE r == Row(role, "ACTIVE")
    <3>1. Active(t, u) /\ member' = [member EXCEPT ![t][u] = r] /\ UNCHANGED profile
      BY DEF SetRole
    <3>2. r \in MemberRow /\ r # NoRow /\ was # NoRow
      BY <2>1, <3>1, MadeRow, MemberParts DEF Active
    <3>3. profile' = [profile EXCEPT ![t][u] = old]
      BY <3>1 DEF TypeOK
    <3>4. r.status = "ACTIVE"
      BY RowParts
    <3> HIDE DEF r
    <3> QED
      BY <2>1, <3>1, <3>2, <3>3, <3>4
  <2>3. CASE Leave(t, u) \/ \E a \in Users : Remove(t, a, u)
    <3> DEFINE r == Row(was.role, "ENDED")
               p == EndedProfile(old)
    <3>1. was.status = "ACTIVE"
      BY <2>3, RowParts DEF Leave, Remove, Resolves, Active, Resides
    <3>2. r \in MemberRow /\ r # NoRow /\ was # NoRow /\ r.status = "ENDED"
      BY <2>1, <3>1, MadeRow, MemberParts, RowParts
    <3>3. p \in {"NONE", "INACTIVE"} /\ (old = "NONE" => p = "NONE")
      BY <2>1 DEF EndedProfile
    <3>4. member' = [member EXCEPT ![t][u] = r] /\ profile' = [profile EXCEPT ![t][u] = p]
      BY <2>3 DEF Leave, Remove, EndMembership
    <3> HIDE DEF r, p
    <3> QED
      BY <3>1, <3>2, <3>3, <3>4
  <2> QED
    BY <2>2, <2>3
<1>2. UNCHANGED <<tenant, invite, deleted, job, suspended>> /\ MemberFree(t, u) /\ overtaken' \subseteq Workers
  BY DEF Leave, Remove, SetRole, TypeOK
<1>3. /\ member' \in [Tenants -> [Users -> MemberRow]] /\ member'[t][u] = r
      /\ \A s \in Tenants, v \in Users : s # t \/ v # u => member'[s][v] = member[s][v]
  BY <1>1 DEF TypeOK
<1>4. /\ profile' \in [Tenants -> [Users -> {"NONE", "ACTIVE", "INACTIVE"}]] /\ profile'[t][u] = p
      /\ \A s \in Tenants, v \in Users : s # t \/ v # u => profile'[s][v] = profile[s][v]
  BY <1>1 DEF TypeOK
<1>5. TypeOK'
  BY <1>2, <1>3, <1>4 DEF TypeOK
<1>6. SameRows
  BY <1>1, <1>2, <1>3, <1>4 DEF SameRows
<1>7. FewerIn
  BY <1>1, <1>2, <1>3, <1>4 DEF FewerIn, Active
<1>8. ClosedOnly
  BY <1>2 DEF ClosedOnly
<1>9. StillResides
  <2> SUFFICES ASSUME NEW v \in Workers, job[v].op \in Handover
               PROVE  member'[job[v].tenant][job[v].user] = Row("MEMBER", "ACTIVE")
    BY DEF StillResides
  <2>1. job[v].tenant # t \/ job[v].user # u
    BY <1>2 DEF MemberFree, HoldsMember, Does
  <2> QED
    BY <1>3, <2>1, Read
<1>10. StillAnswers
  BY <1>2, NothingAnswered
<1> QED
  BY <1>2, <1>5, <1>6, <1>7, <1>8, <1>9, <1>10, FewerMembers DEF StillResides, StillAnswers

\* A workspace is closed: its pending invitations and its last membership end.
LEMMA Closes ==
    ASSUME IInv, NEW w \in Workers, CloseWorkspace(w)
    PROVE  IInv'
<1> USE DEF IInv
<1> DEFINE t == job[w].tenant
           a == job[w].actor
           was == member[t][a]
           r == Row(was.role, "ENDED")
           gone(i) == Invitation(t, invite[i].user, "CANCELLED", FALSE)
<1>1. /\ t \in Tenants /\ a \in Users /\ was # NoRow /\ Does(w, "closing") /\ job[w].op = "closing"
      /\ \A u \in Users : u # a => ~Active(t, u)
  BY JobParts DEF CloseWorkspace, Does, TypeOK, Requests, Fits
<1>2. /\ End(w) /\ UNCHANGED <<suspended, profile, deleted>>
      /\ tenant' = [tenant EXCEPT ![t] = "CLOSED"]
      /\ member' = [member EXCEPT ![t][a] = r]
      /\ invite' = [i \in Invites |-> IF i \in Pending(t) THEN gone(i) ELSE invite[i]]
  BY DEF CloseWorkspace
<1>3. \A v \in Workers : v # w => \A i \in Pending(t) : ~HoldsInvite(v, i)
  BY <1>1 DEF CloseWorkspace, Blocked, Blocks
<1>4. \A v \in Workers : v # w /\ job[v].op \in Handover => job[v].tenant # t
  BY <1>1 DEF Requests, Apart, Does
<1>5. was \in MemberRow
  BY <1>1 DEF TypeOK
<1> HIDE DEF t, a
<1>6. r \in MemberRow /\ r # NoRow /\ r.status = "ENDED"
  BY <1>1, <1>5, MadeRow, MemberParts, RowParts
<1>7. \A i \in Pending(t) : /\ i \in Invites /\ gone(i) \in InviteRow /\ gone(i) # NoInvite /\ gone(i).status = "CANCELLED"
                            /\ gone(i).tenant = t /\ gone(i).user = invite[i].user /\ invite[i].tenant = t
  <2> SUFFICES ASSUME NEW i \in Pending(t)
               PROVE  /\ i \in Invites /\ gone(i) \in InviteRow /\ gone(i) # NoInvite /\ gone(i).status = "CANCELLED"
                      /\ gone(i).tenant = t /\ gone(i).user = invite[i].user /\ invite[i].tenant = t
    OBVIOUS
  <2>1. i \in Invites /\ invite[i].user \in Users /\ invite[i].tenant = t
    BY InviteParts DEF Pending, TypeOK
  <2> QED
    BY <1>1, <2>1 DEF Invitation, InviteRow, NoInvite
<1> HIDE DEF r, gone
<1>8. /\ member' \in [Tenants -> [Users -> MemberRow]] /\ member'[t][a] = r
      /\ \A s \in Tenants, v \in Users : s # t \/ v # a => member'[s][v] = member[s][v]
  <2>1. t \in Tenants /\ a \in Users /\ TypeOK /\ r \in MemberRow /\ member' = [member EXCEPT ![t][a] = r]
    BY <1>1, <1>2, <1>6
  <2> QED
    BY ONLY <2>1 DEF TypeOK
<1>9. /\ invite' \in [Invites -> InviteRow]
      /\ \A i \in Invites : /\ i \in Pending(t) => invite'[i] = gone(i)
                            /\ i \notin Pending(t) => invite'[i] = invite[i]
  BY <1>2, <1>7 DEF TypeOK
<1>10. TypeOK'
  BY <1>1, <1>2, <1>8, <1>9, OthersGoOn DEF TypeOK
<1>11. tenant[t] # "NONE" /\ tenant'[t] = "CLOSED" /\ \A s \in Tenants : s # t => tenant'[s] = tenant[s]
  BY <1>1, <1>2 DEF Nowhere, TypeOK
<1>12. SameRows
  BY <1>1, <1>2, <1>6, <1>7, <1>8, <1>9 DEF SameRows
<1>13. FewerIn
  <2>1. \A s \in Tenants, u \in Users : member'[s][u].status = "ACTIVE" => Active(s, u)
    BY <1>6, <1>8 DEF Active
  <2>2. \A s \in Tenants, u \in Users : tenant'[s] = "OPEN" /\ profile'[s][u] = "ACTIVE" =>
           profile[s][u] = "ACTIVE" /\ (Active(s, u) => member'[s][u].status = "ACTIVE")
    BY <1>2, <1>8, <1>11 DEF Active
  <2>3. \A i \in Invites : invite'[i].status = "PENDING" => invite[i].status = "PENDING"
    BY <1>7, <1>9
  <2> QED
    BY <2>1, <2>2, <2>3 DEF FewerIn
<1>14. ClosedOnly
  <2>1. \A i \in Invites : invite'[i].tenant = t => invite'[i].status # "PENDING"
    BY <1>7, <1>9 DEF Pending
  <2>2. \A u \in Users : member'[t][u].status # "ACTIVE"
    BY <1>1, <1>6, <1>8 DEF Active
  <2> QED
    BY <1>11, <2>1, <2>2 DEF ClosedOnly
<1>15. StillResides
  BY <1>1, <1>2, <1>4, <1>8, Read, OthersGoOn, IdleParts DEF StillResides, Does
<1>16. StillAnswers
  <2> SUFFICES ASSUME NEW v \in Workers, job'[v] = job[v], Does(v, "answering")
               PROVE  invite'[job[v].invite].status = "PENDING"
    BY DEF StillAnswers
  <2>1. v # w
    BY <1>2, OthersGoOn, IdleParts DEF Does
  <2>2. job[v].invite \notin Pending(t)
    BY <1>3, <2>1 DEF HoldsInvite, Does
  <2> QED
    BY <1>9, <2>2, Read
<1> QED
  BY <1>2, <1>10, <1>12, <1>13, <1>14, <1>15, <1>16, OthersGoOn, FewerMembers DEF StillResides, StillAnswers

\* What a transfer of ownership writes.
Transferred(w, t, a, u) ==
    /\ job[w].op = "handing" /\ job[w].tenant = t /\ job[w].actor = a /\ job[w].user = u /\ u # a
    /\ member[t][u] = Row("MEMBER", "ACTIVE") /\ Active(t, a)
    /\ \A v \in Workers : v # w => ~HoldsUser(v, a)
    /\ member' \in [Tenants -> [Users -> MemberRow]]
    /\ member'[t][u] = Row("OWNER", "ACTIVE") /\ member'[t][a] = Row("MEMBER", "ACTIVE")
    /\ \A s \in Tenants, v \in Users : s # t \/ v \notin {u, a} => member'[s][v] = member[s][v]
    /\ End(w) /\ UNCHANGED <<tenant, suspended, profile, invite, deleted>>

\* A transfer's two rows are written together.
LEMMA TransferRows ==
    ASSUME IInv, NEW w \in Workers, TransferOwnership(w)
    PROVE  \E t \in Tenants, a \in Users, u \in Users : Transferred(w, t, a, u)
<1>1. job[w].op = "handing" /\ job[w] \in Jobs /\ Fits(job[w]) /\ TypeOK
  BY DEF TransferOwnership, Does, IInv, TypeOK, Requests
<1>2. PICK t \in Tenants, a \in Users, u \in Users :
          t = job[w].tenant /\ a = job[w].actor /\ u = job[w].user
  BY <1>1, JobParts
<1>3. u # a /\ member[t][u] = Row("MEMBER", "ACTIVE")
  BY <1>1, <1>2 DEF Fits, Resides
<1>4. /\ Active(t, a) /\ End(w) /\ UNCHANGED <<tenant, suspended, profile, invite, deleted>>
      /\ member' = [member EXCEPT ![t][u] = Row("OWNER", "ACTIVE"), ![t][a] = Row("MEMBER", "ACTIVE")]
  BY <1>2 DEF TransferOwnership
<1>9. \A v \in Workers : v # w => ~HoldsUser(v, a)
  BY <1>1, <1>2 DEF TransferOwnership, Blocked, Blocks
<1>5. PICK ro \in MemberRow, rm \in MemberRow : ro = Row("OWNER", "ACTIVE") /\ rm = Row("MEMBER", "ACTIVE")
  BY MadeRow
<1>6. member' = [member EXCEPT ![t][u] = ro, ![t][a] = rm]
  BY <1>4, <1>5
<1>7. /\ member' \in [Tenants -> [Users -> MemberRow]] /\ member'[t][u] = ro /\ member'[t][a] = rm
      /\ \A s \in Tenants, v \in Users : s # t \/ v \notin {u, a} => member'[s][v] = member[s][v]
  BY ONLY <1>1, <1>3, <1>6, t \in Tenants, u \in Users, a \in Users, ro \in MemberRow, rm \in MemberRow DEF TypeOK
<1>8. Transferred(w, t, a, u)
  BY <1>1, <1>2, <1>3, <1>4, <1>5, <1>7, <1>9 DEF Transferred
<1> QED
  BY <1>8

\* Ownership goes to the member whose row the transfer holds.
LEMMA Transfers ==
    ASSUME IInv, NEW w \in Workers, TransferOwnership(w)
    PROVE  IInv'
<1> USE DEF IInv
<1>1. PICK t \in Tenants, a \in Users, u \in Users : Transferred(w, t, a, u)
  BY TransferRows
<1> USE DEF Transferred
<1>2. TypeOK'
  BY <1>1, OthersGoOn DEF TypeOK
<1>3. /\ member[t][u].status = "ACTIVE" /\ member'[t][u].status = "ACTIVE"
      /\ member[t][a].status = "ACTIVE" /\ member'[t][a].status = "ACTIVE"
  BY <1>1, RowParts DEF Active
<1>4. \A s \in Tenants, v \in Users : member'[s][v].status = "ACTIVE" <=> Active(s, v)
  BY <1>1, <1>3 DEF Active
<1>5. SameRows
  <2>1. NoRow.status = "NONE"
    BY MemberParts DEF TypeOK
  <2> QED
    BY <1>1, <1>3, <2>1 DEF SameRows
<1>6. FewerIn
  BY <1>1, <1>4 DEF FewerIn, RosterAgrees, InOrOut
<1>7. ClosedOnly
  BY <1>1 DEF ClosedOnly
<1>8. StillResides
  <2> SUFFICES ASSUME NEW v \in Workers, job'[v] = job[v], job[v].op \in Handover
               PROVE  member'[job[v].tenant][job[v].user] = Row("MEMBER", "ACTIVE")
    BY DEF StillResides
  <2>1. v # w
    BY <1>1, OthersGoOn, IdleParts DEF Does
  <2>2. job[v].tenant # t
    BY <1>1, <2>1 DEF Requests, Apart, Does
  <2> QED
    BY <1>1, <2>2, Read
<1>9. StillAnswers
  BY <1>1, NothingAnswered
<1> QED
  BY <1>1, <1>2, <1>5, <1>6, <1>7, <1>8, <1>9, OthersGoOn, FewerMembers DEF StillResides, StillAnswers

\* What the deletion of an account writes.
Erased(w, u, found) ==
    /\ job[w].op = "erasing" /\ job[w].actor = u /\ job[w].found = found
    /\ \A t \in found : member[t][u] # NoRow
    /\ member' \in [Tenants -> [Users -> MemberRow]]
    /\ \A t \in found : member'[t][u] = Row(member[t][u].role, "ENDED")
    /\ \A s \in Tenants, v \in Users : s \notin found \/ v # u => member'[s][v] = member[s][v]
    /\ profile' \in [Tenants -> [Users -> {"NONE", "ACTIVE", "INACTIVE"}]]
    /\ \A s \in Tenants : profile'[s][u] = EndedProfile(profile[s][u])
    /\ \A s \in Tenants, v \in Users : v # u => profile'[s][v] = profile[s][v]
    /\ invite' \in [Invites -> InviteRow]
    /\ \A i \in Invites : IF invite[i].user = u /\ invite[i].status = "PENDING"
           THEN /\ invite'[i].status = "CANCELLED" /\ invite'[i] # NoInvite
                /\ invite'[i].user = u /\ invite'[i].tenant = invite[i].tenant
                /\ \A v \in Workers : v # w => ~HoldsInvite(v, i)
           ELSE invite'[i] = invite[i]
    /\ deleted' = deleted \cup {u}
    /\ End(w) /\ UNCHANGED <<tenant, suspended>>

\* What the deletion of an account writes.
LEMMA DeletionRows ==
    ASSUME IInv, NEW w \in Workers, DeleteAccount(w)
    PROVE  \E u \in Users, found \in SUBSET Tenants : Erased(w, u, found)
<1>1. job[w].op = "erasing" /\ job[w] \in Jobs /\ Fits(job[w]) /\ TypeOK /\ ~Blocked(w)
  BY DEF DeleteAccount, Does, IInv, TypeOK, Requests
<1>2. PICK u \in Users, found \in SUBSET Tenants : u = job[w].actor /\ found = job[w].found
  BY <1>1, JobParts
<1>3. \A t \in found : member[t][u] # NoRow
  BY <1>1, <1>2 DEF Fits
<1>4. /\ member' = [t \in Tenants |-> IF t \in found THEN [member[t] EXCEPT ![u] = Row(@.role, "ENDED")]
                                      ELSE member[t]]
      /\ profile' = [t \in Tenants |-> [profile[t] EXCEPT ![u] = EndedProfile(@)]]
      /\ invite' = [i \in Invites |-> IF invite[i].user = u /\ invite[i].status = "PENDING"
                                      THEN Invitation(invite[i].tenant, u, "CANCELLED", FALSE)
                                      ELSE invite[i]]
      /\ deleted' = deleted \cup {u} /\ End(w) /\ UNCHANGED <<tenant, suspended>>
  BY <1>2 DEF DeleteAccount
<1>5. \A t \in found : Row(member[t][u].role, "ENDED") \in MemberRow
  BY <1>1, <1>3, MemberParts, MadeRow DEF TypeOK
<1>6. /\ member' \in [Tenants -> [Users -> MemberRow]]
      /\ \A t \in found : member'[t][u] = Row(member[t][u].role, "ENDED")
      /\ \A s \in Tenants, v \in Users : s \notin found \/ v # u => member'[s][v] = member[s][v]
  BY <1>1, <1>4, <1>5 DEF TypeOK
<1>7. \A t \in Tenants : EndedProfile(profile[t][u]) \in {"NONE", "ACTIVE", "INACTIVE"}
  BY <1>1 DEF EndedProfile, TypeOK
<1>8. /\ profile' \in [Tenants -> [Users -> {"NONE", "ACTIVE", "INACTIVE"}]]
      /\ \A s \in Tenants : profile'[s][u] = EndedProfile(profile[s][u])
      /\ \A s \in Tenants, v \in Users : v # u => profile'[s][v] = profile[s][v]
  BY <1>1, <1>4, <1>7 DEF TypeOK
<1>9. \A i \in Invites : invite[i].status = "PENDING" => invite[i].tenant \in Tenants
  BY <1>1, InviteParts DEF TypeOK
<1>10. \A i \in Invites : invite[i].status = "PENDING" =>
          LET r == Invitation(invite[i].tenant, u, "CANCELLED", FALSE)
          IN  r \in InviteRow /\ r # NoInvite /\ r.status = "CANCELLED" /\ r.user = u /\ r.tenant = invite[i].tenant
  BY <1>9 DEF Invitation, InviteRow, NoInvite
<1>11. invite' \in [Invites -> InviteRow]
  BY <1>1, <1>4, <1>10 DEF TypeOK
<1>12. \A i \in Invites : invite[i].user = u /\ invite[i].status = "PENDING" =>
           \A v \in Workers : v # w => ~HoldsInvite(v, i)
  BY <1>1, <1>2 DEF Blocked, Blocks
<1>13. \A i \in Invites : IF invite[i].user = u /\ invite[i].status = "PENDING"
                      THEN /\ invite'[i].status = "CANCELLED" /\ invite'[i] # NoInvite
                           /\ invite'[i].user = u /\ invite'[i].tenant = invite[i].tenant
                           /\ \A v \in Workers : v # w => ~HoldsInvite(v, i)
                      ELSE invite'[i] = invite[i]
  BY <1>4, <1>10, <1>12
<1>14. Erased(w, u, found)
  BY <1>1, <1>2, <1>3, <1>4, <1>6, <1>8, <1>11, <1>13 DEF Erased
<1> QED
  BY <1>14

\* An account is deleted with its memberships, profiles and invitations.
LEMMA DeletesRows ==
    ASSUME IInv, NEW w \in Workers, DeleteAccount(w)
    PROVE  IInv'
<1> USE DEF IInv
<1>1. PICK u \in Users, found \in SUBSET Tenants : Erased(w, u, found)
  BY DeletionRows
<1> USE DEF Erased
<1>2. TypeOK'
  BY <1>1, OthersGoOn DEF TypeOK
<1>3. \A t \in found : member'[t][u].status = "ENDED" /\ member'[t][u] # NoRow
  BY <1>1, RowParts, MadeRow, MemberParts DEF TypeOK
<1>4. \A t \in Tenants : profile'[t][u] # "ACTIVE" /\ (profile[t][u] = "NONE" => profile'[t][u] = "NONE")
  BY <1>1 DEF EndedProfile, TypeOK
<1>5. SameRows
  BY <1>1, <1>3, <1>4 DEF SameRows
<1>6. FewerIn
  BY <1>1, <1>3, <1>4 DEF FewerIn, Active
<1>7. ClosedOnly
  BY <1>1 DEF ClosedOnly
<1>8. StillResides
  <2> SUFFICES ASSUME NEW v \in Workers, job'[v] = job[v], job[v].op \in Handover
               PROVE  member'[job[v].tenant][job[v].user] = Row("MEMBER", "ACTIVE")
    BY DEF StillResides
  <2>1. v # w
    BY <1>1, OthersGoOn, IdleParts DEF Does
  <2>2. ~(job[v].tenant \in found /\ job[v].user = u)
    BY <1>1, <2>1 DEF Requests, Apart, Does
  <2> QED
    BY <1>1, <2>2, Read
<1>9. StillAnswers
  <2> SUFFICES ASSUME NEW v \in Workers, job'[v] = job[v], Does(v, "answering")
               PROVE  invite'[job[v].invite].status = "PENDING"
    BY DEF StillAnswers
  <2>1. v # w
    BY <1>1, OthersGoOn, IdleParts DEF Does
  <2>2. HoldsInvite(v, job[v].invite)
    BY DEF HoldsInvite, Does
  <2> QED
    BY <1>1, <2>1, <2>2, Read
<1> QED
  BY <1>1, <1>2, <1>5, <1>6, <1>7, <1>8, <1>9, OthersGoOn, FewerMembers DEF StillResides, StillAnswers

----------------------------------------------------------------------------
(* People who come in.                                                     *)

\* What the creation of a workspace writes.
Created(w, t, u) ==
    /\ job[w].op = "creating" /\ job[w].tenant = t /\ job[w].actor = u
    /\ tenant[t] = "NONE"
    /\ tenant' \in [Tenants -> {"NONE", "OPEN", "CLOSED"}] /\ tenant'[t] = "OPEN"
    /\ \A s \in Tenants : s # t => tenant'[s] = tenant[s]
    /\ member' \in [Tenants -> [Users -> MemberRow]] /\ member'[t][u] = Row("OWNER", "ACTIVE")
    /\ \A s \in Tenants, v \in Users : s # t \/ v # u => member'[s][v] = member[s][v]
    /\ End(w) /\ UNCHANGED <<suspended, profile, invite, deleted>>

\* The owner's row of a new workspace.
LEMMA CreationRows ==
    ASSUME IInv, NEW w \in Workers, CreateTenant(w)
    PROVE  \E t \in Tenants, u \in Users : Created(w, t, u)
<1>1. job[w].op = "creating" /\ job[w] \in Jobs /\ TypeOK
  BY DEF CreateTenant, Does, IInv, TypeOK
<1>2. PICK t \in Tenants, u \in Users : t = job[w].tenant /\ u = job[w].actor
  BY <1>1, JobParts
<1>3. PICK r \in MemberRow : r = Row("OWNER", "ACTIVE")
  BY MadeRow
<1>4. /\ tenant[t] = "NONE" /\ End(w) /\ UNCHANGED <<suspended, profile, invite, deleted>>
      /\ tenant' = [tenant EXCEPT ![t] = "OPEN"] /\ member' = [member EXCEPT ![t][u] = r]
  BY <1>2, <1>3 DEF CreateTenant
<1>5. /\ tenant' \in [Tenants -> {"NONE", "OPEN", "CLOSED"}] /\ tenant'[t] = "OPEN"
      /\ \A s \in Tenants : s # t => tenant'[s] = tenant[s]
  BY <1>1, <1>4 DEF TypeOK
<1>6. /\ member' \in [Tenants -> [Users -> MemberRow]] /\ member'[t][u] = r
      /\ \A s \in Tenants, v \in Users : s # t \/ v # u => member'[s][v] = member[s][v]
  BY <1>1, <1>4 DEF TypeOK
<1>7. Created(w, t, u)
  BY <1>1, <1>2, <1>3, <1>4, <1>5, <1>6 DEF Created
<1> QED
  BY <1>7

\* A workspace is created where there was no row.
LEMMA Creates ==
    ASSUME IInv, NEW w \in Workers, CreateTenant(w)
    PROVE  IInv'
<1> USE DEF IInv
<1>1. PICK t \in Tenants, u \in Users : Created(w, t, u)
  BY CreationRows
<1> USE DEF Created
<1>2. TypeOK'
  BY <1>1, OthersGoOn DEF TypeOK
<1>3. /\ Pending(t) = {} /\ \A v \in Users : member[t][v] = NoRow /\ profile[t][v] = "NONE"
      /\ NoRow.status = "NONE" /\ NoRow # Row("OWNER", "ACTIVE") /\ NoRow # Row("MEMBER", "ACTIVE")
  BY <1>1, MadeRow, MemberParts DEF Nowhere, TypeOK
<1>4. \A s \in Tenants : Pending(s)' = Pending(s)
  BY <1>1 DEF Pending
<1>5. Nowhere'
  BY <1>1, <1>4 DEF Nowhere
<1>6. ClosedIsEmpty'
  BY <1>1, <1>4 DEF RosterAgrees, ClosedIsEmpty, Active
<1>7. InOrOut'
  <2>1. ASSUME NEW s \in Tenants, NEW i \in Pending(s)
        PROVE  /\ member'[s][invite[i].user].status # "ACTIVE"
               /\ \A k \in Pending(s) \ {i} : invite[k].user # invite[i].user
    <3>1. s # t /\ invite[i].user \in Users
      BY <1>3, <2>1, InviteParts DEF Pending, TypeOK
    <3> QED
      BY <1>1, <2>1, <3>1 DEF RosterAgrees, InOrOut, Active
  <2>2. ASSUME NEW s \in Tenants, tenant'[s] = "OPEN", NEW v \in Users, profile[s][v] = "ACTIVE"
        PROVE  member'[s][v].status = "ACTIVE"
    <3>1. s # t
      BY <1>3, <2>2
    <3> QED
      BY <1>1, <2>2, <3>1 DEF RosterAgrees, InOrOut, Active
  <2> QED
    BY <1>1, <1>4, <2>1, <2>2 DEF InOrOut, Active
<1>8. \A v \in Workers : Does(v, "closing") => job[v].tenant \in Tenants /\ job[v].tenant # t
  BY <1>3, JobParts DEF Requests, Fits, Does, TypeOK
<1>9. \A v \in Workers : job[v].op \in Handover => job[v].tenant # t
  BY <1>3, Read
<1>10. StillResides /\ StillAnswers
  BY <1>1, <1>9, Read, NothingAnswered DEF StillResides
<1>11. \A s \in Tenants, v \in Users : member[s][v] # NoRow => member'[s][v] # NoRow
  BY <1>1, <1>3
<1>12. \A v \in Workers : job'[v] = job[v] /\ Does(v, "closing") =>
           \A x \in Users : member'[job[v].tenant][x].status = "ACTIVE" => Active(job[v].tenant, x)
  BY <1>1, <1>8 DEF Active
<1>13. Requests'
  BY <1>1, <1>2, <1>10, <1>11, <1>12, OthersGoOn, Undisturbed DEF StillResides, StillAnswers
<1> QED
  BY <1>2, <1>5, <1>6, <1>7, <1>13 DEF RosterAgrees

\* What an accepted invitation writes.
Accepted(w, i, t, u, role) ==
    /\ job[w].op = "answering" /\ job[w].invite = i
    /\ invite[i].status = "PENDING" /\ invite[i].tenant = t /\ invite[i].user = u
    /\ tenant[t] = "OPEN" /\ SeatToTake(t)
    /\ role = "OWNER" <=> member[t][u].role = "OWNER"
    /\ member' \in [Tenants -> [Users -> MemberRow]] /\ member'[t][u] = Row(role, "ACTIVE")
    /\ \A s \in Tenants, v \in Users : s # t \/ v # u => member'[s][v] = member[s][v]
    /\ profile' \in [Tenants -> [Users -> {"NONE", "ACTIVE", "INACTIVE"}]] /\ profile'[t][u] = "ACTIVE"
    /\ \A s \in Tenants, v \in Users : s # t \/ v # u => profile'[s][v] = profile[s][v]
    /\ invite' \in [Invites -> InviteRow] /\ invite'[i].status = "ACCEPTED" /\ invite'[i] # NoInvite
    /\ invite'[i].tenant = t /\ invite'[i].user = u
    /\ \A k \in Invites : k # i => invite'[k] = invite[k]
    /\ \A v \in Workers : v # w => ~HoldsTenant(v, t) /\ ~HoldsInvite(v, i)
    /\ End(w) /\ UNCHANGED <<tenant, suspended, deleted>>

\* What an accepted invitation writes.
LEMMA AcceptRows ==
    ASSUME IInv, NEW w \in Workers, Accept(w)
    PROVE  \E i \in Invites, t \in Tenants, u \in Users, role \in {"OWNER", "MEMBER"} : Accepted(w, i, t, u, role)
<1>1. job[w].op = "answering" /\ job[w] \in Jobs /\ Fits(job[w]) /\ TypeOK /\ ~Blocked(w)
  BY DEF Accept, Does, IInv, TypeOK, Requests
<1>2. PICK i \in Invites, u \in Users : i = job[w].invite /\ u = job[w].actor
  BY <1>1, JobParts
<1>3. invite[i].status = "PENDING" /\ invite[i].user = u /\ invite[i] # NoInvite
  BY <1>1, <1>2 DEF Fits
<1>4. PICK t \in Tenants : t = invite[i].tenant
  BY <1>1, <1>3, InviteParts DEF TypeOK
<1>5. PICK role \in {"OWNER", "MEMBER"} : role = RoleOnReturn(member[t][u])
  BY DEF RoleOnReturn
<1>6. role = "OWNER" <=> member[t][u].role = "OWNER"
  BY <1>5 DEF RoleOnReturn
<1>7. PICK r \in MemberRow : r = Row(role, "ACTIVE")
  BY MadeRow
<1>8. /\ tenant[t] = "OPEN" /\ SeatToTake(t) /\ End(w) /\ UNCHANGED <<tenant, suspended, deleted>>
      /\ member' = [member EXCEPT ![t][u] = r] /\ profile' = [profile EXCEPT ![t][u] = "ACTIVE"]
      /\ invite' = Answered(i, "ACCEPTED")
  BY <1>2, <1>4, <1>5, <1>7 DEF Accept, TakesMembers
<1>9. /\ member' \in [Tenants -> [Users -> MemberRow]] /\ member'[t][u] = r
      /\ \A s \in Tenants, v \in Users : s # t \/ v # u => member'[s][v] = member[s][v]
  BY <1>1, <1>8 DEF TypeOK
<1>10. /\ profile' \in [Tenants -> [Users -> {"NONE", "ACTIVE", "INACTIVE"}]] /\ profile'[t][u] = "ACTIVE"
       /\ \A s \in Tenants, v \in Users : s # t \/ v # u => profile'[s][v] = profile[s][v]
  BY <1>1, <1>8 DEF TypeOK
<1>11. /\ invite' \in [Invites -> InviteRow] /\ invite'[i].status = "ACCEPTED" /\ invite'[i] # NoInvite
       /\ invite'[i].tenant = t /\ invite'[i].user = u
       /\ \A k \in Invites : k # i => invite'[k] = invite[k]
  BY <1>1, <1>3, <1>4, <1>8, WrittenAnswer
<1>12. \A v \in Workers : v # w => ~HoldsTenant(v, t) /\ ~HoldsInvite(v, i)
  BY <1>1, <1>2, <1>4 DEF Blocked, Blocks, IInv, Requests, Apart, HoldsInvite
<1>13. Accepted(w, i, t, u, role)
  BY <1>1, <1>2, <1>3, <1>4, <1>6, <1>7, <1>8, <1>9, <1>10, <1>11, <1>12 DEF Accepted
<1> QED
  BY <1>13

\* An invitation lets its user in, while nobody closes or transfers the workspace.
LEMMA Accepts ==
    ASSUME IInv, NEW w \in Workers, Accept(w)
    PROVE  IInv'
<1> USE DEF IInv
<1>1. PICK i \in Invites, t \in Tenants, u \in Users, role \in {"OWNER", "MEMBER"} : Accepted(w, i, t, u, role)
  BY AcceptRows
<1> USE DEF Accepted
<1>2. TypeOK'
  BY <1>1, OthersGoOn DEF TypeOK
<1>3. member'[t][u].status = "ACTIVE" /\ member'[t][u] # NoRow
  BY <1>1, RowParts, MadeRow
<1>4. \A s \in Tenants : Pending(s)' = Pending(s) \ {i}
  BY <1>1 DEF Pending
<1>5. \A k \in Invites : k # i => invite'[k].user = invite[k].user
  BY <1>1
<1>6. Nowhere' /\ ClosedIsEmpty'
  <2>1. \A s \in Tenants : tenant'[s] # "OPEN" =>
            /\ s # t /\ tenant[s] = tenant'[s] /\ Pending(s)' \subseteq Pending(s)
            /\ \A v \in Users : member'[s][v] = member[s][v] /\ profile'[s][v] = profile[s][v]
    BY <1>1, <1>4
  <2> QED
    BY <2>1 DEF Nowhere, RosterAgrees, ClosedIsEmpty, Active
<1>7. InOrOut'
  <2>1. ASSUME NEW s \in Tenants, NEW k \in Pending(s), k # i
        PROVE  member'[s][invite[k].user].status # "ACTIVE"
    <3>1. k \in Invites /\ invite[k].user \in Users /\ ~Active(s, invite[k].user)
      BY <2>1, InviteParts DEF Pending, TypeOK, RosterAgrees, InOrOut
    <3>2. s # t \/ invite[k].user # u
      BY <1>1, <2>1 DEF RosterAgrees, InOrOut, Pending
    <3> QED
      BY <1>1, <3>1, <3>2 DEF Active
  <2>2. ASSUME NEW s \in Tenants, NEW k \in Pending(s) \ {i}, NEW l \in Pending(s) \ {i}, k # l
        PROVE  invite'[k].user # invite'[l].user
    BY <1>5, <2>2 DEF RosterAgrees, InOrOut, Pending
  <2>3. ASSUME NEW s \in Tenants, tenant'[s] = "OPEN", NEW v \in Users, profile'[s][v] = "ACTIVE"
        PROVE  member'[s][v].status = "ACTIVE"
    BY <1>1, <1>3, <2>3 DEF RosterAgrees, InOrOut, Active
  <2>4. \A s \in Tenants : \A k \in Pending(s) \ {i} : k \in Invites /\ invite'[k].user = invite[k].user
    BY <1>5 DEF Pending
  <2> QED
    BY <1>4, <2>1, <2>2, <2>3, <2>4 DEF InOrOut, Active
<1>8. \A v \in Workers : job'[v] = job[v] /\ Does(v, "closing") =>
           \A x \in Users : member'[job[v].tenant][x].status = "ACTIVE" => Active(job[v].tenant, x)
  <2> SUFFICES ASSUME NEW v \in Workers, job'[v] = job[v], Does(v, "closing"), NEW x \in Users
               PROVE  member'[job[v].tenant][x].status = "ACTIVE" => Active(job[v].tenant, x)
    OBVIOUS
  <2>1. v # w
    BY <1>1, OthersGoOn, IdleParts DEF Does
  <2>2. job[v].tenant \in Tenants /\ job[v].tenant # t
    BY <1>1, <2>1, JobParts DEF HoldsTenant, Does, TypeOK
  <2> QED
    BY <1>1, <2>2 DEF Active
<1>9. StillResides
  <2> SUFFICES ASSUME NEW v \in Workers, job'[v] = job[v], job[v].op \in Handover
               PROVE  member'[job[v].tenant][job[v].user] = Row("MEMBER", "ACTIVE")
    BY DEF StillResides
  <2>1. v # w
    BY <1>1, OthersGoOn, IdleParts DEF Does
  <2>2. job[v].tenant # t
    BY <1>1, <2>1 DEF HoldsTenant, Does
  <2> QED
    BY <1>1, <2>2, Read
<1>10. StillAnswers
  <2> SUFFICES ASSUME NEW v \in Workers, job'[v] = job[v], Does(v, "answering")
               PROVE  invite'[job[v].invite].status = "PENDING"
    BY DEF StillAnswers
  <2>1. v # w
    BY <1>1, OthersGoOn, IdleParts DEF Does
  <2>2. job[v].invite # i
    BY <1>1, <2>1 DEF HoldsInvite, Does
  <2> QED
    BY <1>1, <2>2, Read
<1>11. \A s \in Tenants, v \in Users : member[s][v] # NoRow => member'[s][v] # NoRow
  BY <1>1, <1>3
<1>12. \A k \in Invites : invite[k] # NoInvite => invite'[k] # NoInvite /\ invite'[k].user = invite[k].user
  BY <1>1
<1>13. Requests'
  BY <1>1, <1>2, <1>8, <1>9, <1>10, <1>11, <1>12, OthersGoOn, Undisturbed DEF StillResides, StillAnswers
<1> QED
  BY <1>2, <1>6, <1>7, <1>13 DEF RosterAgrees

----------------------------------------------------------------------------
(* The invariant.                                                          *)

\* The platform suspends a workspace or lets it go on.
LEMMA Suspends ==
    ASSUME IInv, NEW t \in Tenants, SetActive(t)
    PROVE  IInv'
<1>1. UNCHANGED <<tenant, member, profile, invite, deleted, job, overtaken>> /\ suspended' \subseteq Tenants
  BY DEF SetActive, IInv, TypeOK
<1>2. TypeOK'
  BY <1>1 DEF IInv, TypeOK
<1>3. SameRows /\ FewerIn /\ ClosedOnly
  BY <1>1 DEF SameRows, FewerIn, ClosedOnly, Active, IInv, RosterAgrees, InOrOut
<1>4. StillResides /\ StillAnswers
  BY <1>1, Read DEF StillResides, StillAnswers
<1> QED
  BY <1>1, <1>2, <1>3, <1>4, FewerMembers DEF StillResides, StillAnswers

\* Every step keeps the invariant.
LEMMA NextIInv == IInv /\ [Next]_vars => IInv'
<1> SUFFICES ASSUME IInv, [Next]_vars PROVE IInv'
  OBVIOUS
<1>1. CASE UNCHANGED vars
  <2>1. UNCHANGED <<tenant, suspended, member, profile, invite, deleted, job, overtaken>>
    BY <1>1 DEF vars
  <2>2. TypeOK'
    BY <2>1 DEF IInv, TypeOK
  <2>3. SameRows /\ FewerIn /\ ClosedOnly
    BY <2>1 DEF SameRows, FewerIn, ClosedOnly, Active, IInv, RosterAgrees, InOrOut
  <2>4. StillResides /\ StillAnswers
    BY <2>1, Read DEF StillResides, StillAnswers
  <2> QED
    BY <2>1, <2>2, <2>3, <2>4, FewerMembers DEF StillResides, StillAnswers
<1>2. CASE AtOnce
  <2>1. CASE \E t \in Tenants, u \in Users :
                \/ Leave(t, u) \/ \E a \in Users : Remove(t, a, u)
                \/ \E role \in {"OWNER", "MEMBER"} : SetRole(t, u, role)
    BY <2>1, MemberSteps
  <2>2. CASE \E t \in Tenants : SetActive(t)
    BY <2>2, Suspends
  <2>3. CASE \E i \in Invites : Lapses(i) \/ ExpireStale(i) \/ \E a \in Users : CancelInvitation(a, i)
    BY <2>3, InviteSteps
  <2> QED
    BY <1>2, <2>1, <2>2, <2>3 DEF AtOnce
<1>3. ASSUME NEW w \in Workers, Ask(w) PROVE IInv'
  BY <1>3, Asks
<1>4. ASSUME NEW w \in Workers, Work(w) PROVE IInv'
  <2>1. CASE Refuse(w)
    BY <2>1, Ends
  <2>2. CASE CreateRefused(w) \/ TransferRefused(w) \/ InviteRefused(w) \/ AcceptRefused(w) \/ Abort(w)
    BY <2>1, <2>2 DEF CreateRefused, TransferRefused, InviteRefused, AcceptRefused, Abort
  <2>3. CASE CreateTenant(w) \/ CloseWorkspace(w) \/ TransferOwnership(w) \/ Accept(w) \/ DeleteAccount(w)
    BY <2>3, Creates, Closes, Transfers, Accepts, DeletesRows
  <2>4. CASE TransferLocks(w) \/ AnswerLocks(w) \/ DeleteMembers(w)
    BY <2>4, Locks
  <2>7. CASE CreateLocks(w) \/ CreateCounts(w) \/ TransferLimit(w) \/ TransferCounts(w)
    BY <2>7, Checks
  <2>5. CASE \E i \in Invites : CreateInvitation(w, i)
    BY <2>5, InviteMade
  <2>6. CASE Decline(w)
    BY <2>6, InviteSteps
  <2> QED
    BY <1>4, <2>2, <2>3, <2>4, <2>5, <2>6, <2>7 DEF Work
<1> QED
  BY <1>1, <1>2, <1>3, <1>4 DEF Next

\* Nothing exists yet.
LEMMA InitIInv == Init => IInv
<1> SUFFICES ASSUME Init PROVE IInv
  OBVIOUS
<1>1. NoRow \in MemberRow /\ NoRow.status = "NONE"
  BY DEF MemberRow, NoRow, Row
<1>2. NoInvite \in InviteRow /\ NoInvite.status = "NONE"
  BY DEF InviteRow, NoInvite, Invitation
<1>3. TypeOK
  BY <1>1, <1>2, IdleParts DEF Init, TypeOK
<1>4. \A t \in Tenants : Pending(t) = {}
  BY <1>2 DEF Init, Pending
<1>5. Nowhere /\ RosterAgrees
  BY <1>1, <1>4 DEF Init, Nowhere, RosterAgrees, ClosedIsEmpty, InOrOut, Active
<1>6. Requests
  BY IdleParts DEF Init, Requests
<1> QED
  BY <1>3, <1>5, <1>6 DEF IInv

\* The invariant holds throughout.
LEMMA SpecIInv == Spec => []IInv
  BY InitIInv, NextIInv, PTL DEF Spec

\* Every variable keeps its type.
THEOREM SpecTypeOK == Spec => []TypeOK
<1>1. IInv => TypeOK
  BY DEF IInv
<1> QED
  BY <1>1, SpecIInv, PTL

\* The tables agree about who is in a workspace, and a closed one stays empty.
THEOREM SpecRosterAgrees == Spec => []RosterAgrees
<1>1. IInv => RosterAgrees
  BY DEF IInv
<1> QED
  BY <1>1, SpecIInv, PTL

----------------------------------------------------------------------------
(* What a step may do.                                                     *)

\* The steps that write memberships or open and close workspaces.
LEMMA MemberWriters ==
    ASSUME [Next]_vars
    PROVE  \/ UNCHANGED <<tenant, member>>
           \/ \E t \in Tenants, u \in Users :
                 \/ Leave(t, u) \/ \E a \in Users : Remove(t, a, u)
                 \/ \E role \in {"OWNER", "MEMBER"} : SetRole(t, u, role)
           \/ \E w \in Workers : \/ CreateTenant(w) \/ CloseWorkspace(w) \/ TransferOwnership(w)
                                 \/ Accept(w) \/ DeleteAccount(w)
<1>1. CASE UNCHANGED vars
  BY <1>1 DEF vars
<1>2. CASE AtOnce
  BY <1>2 DEF AtOnce, SetActive, Lapses, ExpireStale, CancelInvitation
<1>3. ASSUME NEW w \in Workers, Ask(w) PROVE UNCHANGED <<tenant, member>>
  BY <1>3 DEF Ask, BeginCreate, CloseLocks, BeginTransfer, BeginInvite, BeginAnswer, DeleteLocks, Begin
<1>4. ASSUME NEW w \in Workers, Work(w)
      PROVE  \/ UNCHANGED <<tenant, member>>
             \/ CreateTenant(w) \/ CloseWorkspace(w) \/ TransferOwnership(w) \/ Accept(w) \/ DeleteAccount(w)
  BY <1>4 DEF Work, CreateRefused, CreateLocks, CreateCounts, TransferLocks, TransferLimit,
              TransferCounts, TransferRefused, CreateInvitation, InviteRefused,
              AnswerLocks, Decline, AcceptRefused, DeleteMembers, Abort, Refuse
<1> QED
  BY <1>1, <1>2, <1>3, <1>4 DEF Next

\* The steps that write invitations.
LEMMA InviteWriters ==
    ASSUME [Next]_vars
    PROVE  \/ UNCHANGED invite
           \/ \E i \in Invites : Lapses(i) \/ ExpireStale(i) \/ \E a \in Users : CancelInvitation(a, i)
           \/ \E w \in Workers : \/ \E i \in Invites : CreateInvitation(w, i)
                                 \/ Decline(w) \/ Accept(w) \/ CloseWorkspace(w) \/ DeleteAccount(w)
<1>1. CASE UNCHANGED vars
  BY <1>1 DEF vars
<1>2. CASE AtOnce
  BY <1>2 DEF AtOnce, SetActive, Leave, Remove, SetRole
<1>3. ASSUME NEW w \in Workers, Ask(w) PROVE UNCHANGED invite
  BY <1>3 DEF Ask, BeginCreate, CloseLocks, BeginTransfer, BeginInvite, BeginAnswer, DeleteLocks, Begin
<1>4. ASSUME NEW w \in Workers, Work(w)
      PROVE  \/ UNCHANGED invite
             \/ \E i \in Invites : CreateInvitation(w, i)
             \/ Decline(w) \/ Accept(w) \/ CloseWorkspace(w) \/ DeleteAccount(w)
  BY <1>4 DEF Work, CreateTenant, CreateRefused, CreateLocks, CreateCounts, TransferLocks, TransferLimit,
              TransferCounts, TransferOwnership, TransferRefused,
              InviteRefused, AnswerLocks, AcceptRefused, DeleteMembers, Abort, Refuse
<1> QED
  BY <1>1, <1>2, <1>3, <1>4 DEF Next

\* A membership that ends, or whose role changes.
LEMMA ChangedRow ==
    ASSUME IInv, NEW t \in Tenants, NEW u \in Users,
           \/ Leave(t, u) \/ \E a \in Users : Remove(t, a, u)
           \/ \E role \in {"OWNER", "MEMBER"} : SetRole(t, u, role)
    PROVE  /\ UNCHANGED <<tenant, job>>
           /\ \A s \in Tenants, v \in Users : s # t \/ v # u => member'[s][v] = member[s][v]
           /\ Owns(t, u) => OtherOwner(t, u)
           /\ member'[t][u] = Row("MEMBER", "ACTIVE") => Owns(t, u)
<1>1. TypeOK /\ member[t][u] \in MemberRow
  BY DEF IInv, TypeOK
<1>2. UNCHANGED <<tenant, job>>
  BY DEF Leave, Remove, SetRole
<1>3. CASE Leave(t, u) \/ \E a \in Users : Remove(t, a, u)
  <2>1. member' = [member EXCEPT ![t][u] = Row(member[t][u].role, "ENDED")]
    BY <1>3 DEF Leave, Remove, EndMembership
  <2>2. \A s \in Tenants, v \in Users : s # t \/ v # u => member'[s][v] = member[s][v]
    BY <1>1, <2>1 DEF TypeOK
  <2>3. member'[t][u] = Row(member[t][u].role, "ENDED")
    BY <1>1, <2>1 DEF TypeOK
  <2>4. Owns(t, u) => OtherOwner(t, u)
    BY <1>3, TwoRoles DEF Leave, Remove, Resides, Owns
  <2> QED
    BY <1>2, <2>2, <2>3, <2>4, TwoRoles
<1>4. CASE \E role \in {"OWNER", "MEMBER"} : SetRole(t, u, role)
  <2> PICK role \in {"OWNER", "MEMBER"} : SetRole(t, u, role)
    BY <1>4
  <2>1. member' = [member EXCEPT ![t][u] = Row(role, "ACTIVE")] /\ Active(t, u) /\ member[t][u].role # role
    BY DEF SetRole
  <2>2. \A s \in Tenants, v \in Users : s # t \/ v # u => member'[s][v] = member[s][v]
    BY <1>1, <2>1 DEF TypeOK
  <2>3. member'[t][u] = Row(role, "ACTIVE")
    BY <1>1, <2>1 DEF TypeOK
  <2>4. Owns(t, u) => role = "MEMBER"
    BY <2>1, RowParts DEF Owns
  <2>5. role = "MEMBER" => OtherOwner(t, u) /\ Owns(t, u)
    BY <1>1, <2>1, MemberParts DEF SetRole, Owns, Active
  <2> QED
    BY <1>2, <2>2, <2>3, <2>4, <2>5, TwoRoles
<1> QED
  BY <1>3, <1>4

\* What closing a workspace does to it and to the memberships.
LEMMA ClosedRows ==
    ASSUME IInv, NEW w \in Workers, CloseWorkspace(w)
    PROVE  /\ \A s \in Tenants : tenant'[s] = "OPEN" => tenant[s] = "OPEN" /\ s # job[w].tenant
           /\ \A s \in Tenants, v \in Users :
                 \/ member'[s][v] = member[s][v]
                 \/ s = job[w].tenant /\ \E role : member'[s][v] = Row(role, "ENDED")
<1>1. TypeOK /\ job[w].tenant \in Tenants /\ job[w].actor \in Users
  BY JobParts DEF IInv, TypeOK, CloseWorkspace, Does
<1>2. PICK t \in Tenants, a \in Users : t = job[w].tenant /\ a = job[w].actor
  BY <1>1
<1>3. /\ tenant' = [tenant EXCEPT ![t] = "CLOSED"]
      /\ member' = [member EXCEPT ![t][a] = Row(member[t][a].role, "ENDED")]
  BY <1>2 DEF CloseWorkspace
<1>4. \A s \in Tenants : tenant'[s] = IF s = t THEN "CLOSED" ELSE tenant[s]
  BY <1>1, <1>3 DEF TypeOK
<1>5. /\ member'[t][a] = Row(member[t][a].role, "ENDED")
      /\ \A s \in Tenants, v \in Users : s # t \/ v # a => member'[s][v] = member[s][v]
  BY <1>1, <1>3 DEF TypeOK
<1> QED
  BY <1>2, <1>4, <1>5

\* A step keeps an owner of a workspace that it does not close.
LEMMA OwnerStep ==
    ASSUME IInv, [Next]_vars, NEW t \in Tenants, NEW o \in Users, Owns(t, o), tenant'[t] = "OPEN"
    PROVE  \/ \E u \in Users : member'[t][u] = Row("OWNER", "ACTIVE")
           \/ \E w \in Workers : Does(w, "erasing") /\ t \in job[w].found /\ job'[w] = Idle
<1>1. member[t][o] = Row("OWNER", "ACTIVE") /\ TypeOK
  BY DEF Owns, IInv
<1>2. CASE UNCHANGED <<tenant, member>>
  BY <1>1, <1>2
<1>3. ASSUME NEW s \in Tenants, NEW u \in Users,
             \/ Leave(s, u) \/ \E a \in Users : Remove(s, a, u)
             \/ \E role \in {"OWNER", "MEMBER"} : SetRole(s, u, role)
      PROVE  \E v \in Users : member'[t][v] = Row("OWNER", "ACTIVE")
  <2>1. CASE s = t /\ u = o
    <3>1. PICK v \in Users \ {o} : Owns(t, v)
      BY <1>3, <2>1, ChangedRow DEF OtherOwner
    <3> QED
      BY <1>3, <2>1, <3>1, ChangedRow DEF Owns
  <2>2. CASE s # t \/ u # o
    BY <1>1, <1>3, <2>2, ChangedRow
  <2> QED
    BY <2>1, <2>2
<1>4. ASSUME NEW w \in Workers, CreateTenant(w)
      PROVE  \E v \in Users : member'[t][v] = Row("OWNER", "ACTIVE")
  <2>1. PICK s \in Tenants, u \in Users : Created(w, s, u)
    BY <1>4, CreationRows
  <2>2. s # t
    BY <1>1, <2>1, MadeRow DEF Created, IInv, Nowhere
  <2> QED
    BY <1>1, <2>1, <2>2 DEF Created
<1>5. ASSUME NEW w \in Workers, CloseWorkspace(w)
      PROVE  \E v \in Users : member'[t][v] = Row("OWNER", "ACTIVE")
  BY <1>1, <1>5, ClosedRows
<1>6. ASSUME NEW w \in Workers, TransferOwnership(w)
      PROVE  \E v \in Users : member'[t][v] = Row("OWNER", "ACTIVE")
  <2>1. PICK s \in Tenants, a \in Users, u \in Users : Transferred(w, s, a, u)
    BY <1>6, TransferRows
  <2> QED
    BY <1>1, <2>1 DEF Transferred
<1>7. ASSUME NEW w \in Workers, Accept(w)
      PROVE  \E v \in Users : member'[t][v] = Row("OWNER", "ACTIVE")
  <2>1. PICK i \in Invites, s \in Tenants, u \in Users, role \in {"OWNER", "MEMBER"} : Accepted(w, i, s, u, role)
    BY <1>7, AcceptRows
  <2> QED
    BY <1>1, <2>1, RowParts DEF Accepted
<1>8. ASSUME NEW w \in Workers, DeleteAccount(w)
      PROVE  \/ \E v \in Users : member'[t][v] = Row("OWNER", "ACTIVE")
             \/ Does(w, "erasing") /\ t \in job[w].found /\ job'[w] = Idle
  <2>1. PICK u \in Users, found \in SUBSET Tenants : Erased(w, u, found)
    BY <1>8, DeletionRows
  <2> QED
    BY <1>1, <2>1, OthersGoOn DEF Erased, Does
<1> QED
  BY <1>2, <1>3, <1>4, <1>5, <1>6, <1>7, <1>8, MemberWriters

\* An open workspace keeps an owner, whichever requests overlap, but for the
\* deletion of an account that became the owner behind its back.
THEOREM SpecOwnerKept == Spec => OwnerKept
<1>1. IInv /\ [Next]_vars =>
        [\A t \in Tenants :
            /\ \E u \in Users : Owns(t, u)
            /\ tenant'[t] = "OPEN"
            => \/ \E u \in Users : Owns(t, u)'
               \/ \E w \in Workers : Does(w, "erasing") /\ t \in job[w].found /\ job'[w] = Idle]_vars
  BY OwnerStep DEF Owns
<1> QED
  BY <1>1, SpecIInv, PTL DEF Spec, OwnerKept

\* A step that touches an invitation finds it pending, or makes it; only an
\* acceptance accepts it, and lets its user in.
LEMMA AnswerStep ==
    ASSUME IInv, [Next]_vars, NEW i \in Invites, invite'[i] # invite[i]
    PROVE  /\ invite[i].status \in {"NONE", "PENDING"}
           /\ invite'[i].status = "ACCEPTED" =>
                 /\ member'[invite'[i].tenant][invite'[i].user].status = "ACTIVE"
                 /\ profile'[invite'[i].tenant][invite'[i].user] = "ACTIVE"
<1>1. TypeOK /\ NoInvite.status = "NONE"
  BY InviteParts DEF IInv, TypeOK
<1>2. ASSUME NEW k \in Invites, Lapses(k) \/ ExpireStale(k) \/ \E a \in Users : CancelInvitation(a, k)
      PROVE  invite[i].status = "PENDING" /\ invite'[i].status # "ACCEPTED"
  <2>1. \E status \in {"PENDING", "EXPIRED", "CANCELLED"}, lapsed \in BOOLEAN :
            invite' = [invite EXCEPT ![k] = Invitation(invite[k].tenant, invite[k].user, status, lapsed)]
    <3>1. CASE Lapses(k)
      BY <3>1 DEF Lapses
    <3>2. CASE ExpireStale(k)
      BY <3>2 DEF ExpireStale, Answered
    <3>3. CASE \E a \in Users : CancelInvitation(a, k)
      BY <3>3 DEF CancelInvitation, Answered
    <3> QED
      BY <1>2, <3>1, <3>2, <3>3
  <2>2. i = k /\ invite'[i].status \in {"PENDING", "EXPIRED", "CANCELLED"}
    BY <1>1, <2>1 DEF TypeOK, Invitation
  <2> QED
    BY <1>2, <2>2 DEF Lapses, ExpireStale, CancelInvitation
<1>3. ASSUME NEW w \in Workers, NEW k \in Invites, CreateInvitation(w, k)
      PROVE  invite[i].status \in {"NONE", "PENDING"} /\ invite'[i].status # "ACCEPTED"
  <2>1. PICK t, u : t = job[w].tenant /\ u = job[w].user
    OBVIOUS
  <2>2. /\ invite[k] = NoInvite
        /\ invite' = [n \in Invites |-> IF n = k THEN Invitation(t, u, "PENDING", FALSE)
                                        ELSE IF n \in Lapsed(t)
                                             THEN Invitation(t, invite[n].user, "EXPIRED", FALSE)
                                             ELSE invite[n]]
    BY <1>3, <2>1 DEF CreateInvitation
  <2>3. i = k \/ i \in Lapsed(t)
    BY <2>2
  <2>4. invite'[i].status \in {"PENDING", "EXPIRED"}
    BY <2>2, <2>3 DEF Invitation
  <2> QED
    BY <1>1, <2>2, <2>3, <2>4 DEF Lapsed, Pending
<1>4. ASSUME NEW w \in Workers, Decline(w)
      PROVE  invite[i].status = "PENDING" /\ invite'[i].status # "ACCEPTED"
  <2>1. PICK k \in Invites : k = job[w].invite /\ invite[k].status = "PENDING"
    BY <1>4, Read DEF Decline
  <2>2. invite' = [invite EXCEPT ![k] = Invitation(invite[k].tenant, invite[k].user, "DECLINED", FALSE)]
    BY <1>4, <2>1 DEF Decline, Answered
  <2>3. i = k /\ invite'[i].status = "DECLINED"
    BY <1>1, <2>2 DEF TypeOK, Invitation
  <2> QED
    BY <2>1, <2>3
<1>5. ASSUME NEW w \in Workers, Accept(w)
      PROVE  /\ invite[i].status = "PENDING"
             /\ member'[invite'[i].tenant][invite'[i].user].status = "ACTIVE"
             /\ profile'[invite'[i].tenant][invite'[i].user] = "ACTIVE"
  <2>1. PICK k \in Invites, t \in Tenants, u \in Users, role \in {"OWNER", "MEMBER"} : Accepted(w, k, t, u, role)
    BY <1>5, AcceptRows
  <2> QED
    BY <2>1, RowParts DEF Accepted
<1>6. ASSUME NEW w \in Workers, CloseWorkspace(w)
      PROVE  invite[i].status = "PENDING" /\ invite'[i].status # "ACCEPTED"
  <2>1. PICK t : t = job[w].tenant
    OBVIOUS
  <2>2. invite' = [n \in Invites |-> IF n \in Pending(t)
                                     THEN Invitation(t, invite[n].user, "CANCELLED", FALSE)
                                     ELSE invite[n]]
    BY <1>6, <2>1 DEF CloseWorkspace
  <2>3. i \in Pending(t)
    BY <2>2
  <2> QED
    BY <2>2, <2>3 DEF Pending, Invitation
<1>7. ASSUME NEW w \in Workers, DeleteAccount(w)
      PROVE  invite[i].status = "PENDING" /\ invite'[i].status # "ACCEPTED"
  <2>1. PICK u \in Users, found \in SUBSET Tenants : Erased(w, u, found)
    BY <1>7, DeletionRows
  <2> QED
    BY <2>1 DEF Erased
<1> QED
  BY <1>2, <1>3, <1>4, <1>5, <1>6, <1>7, InviteWriters

\* An answer, a cancellation or an expiry is final, and an acceptance lets its
\* user in with the same commit.
THEOREM SpecAnsweredOnce == Spec => AnsweredOnce
<1>1. IInv /\ [Next]_vars =>
        [\A i \in Invites :
            /\ invite[i].status \notin {"NONE", "PENDING"} => invite'[i] = invite[i]
            /\ invite'[i].status = "ACCEPTED" /\ invite'[i] # invite[i] => Joined(i)']_vars
  BY AnswerStep DEF Joined, Active
<1> QED
  BY <1>1, SpecIInv, PTL DEF Spec, AnsweredOnce

----------------------------------------------------------------------------
(* The limits.                                                             *)

\* How a step can add a resident.
LEMMA ResidentStep ==
    ASSUME IInv, [Next]_vars, NEW t \in Tenants
    PROVE  \/ Residents(t)' \subseteq Residents(t)
           \/ SeatToTake(t) /\ \E u \in Users : Residents(t)' \subseteq Residents(t) \cup {u}
           \/ \E u \in Users : Owns(t, u) /\ Resides(t, u)'
<1> DEFINE Gained == \E u \in Users : Owns(t, u) /\ member'[t][u] = Row("MEMBER", "ACTIVE")
           Within(S) == \A u \in Users \ S :
                            member'[t][u] = Row("MEMBER", "ACTIVE") => member[t][u] = Row("MEMBER", "ACTIVE")
<1>1. TypeOK
  BY DEF IInv
<1>2. CASE UNCHANGED <<tenant, member>>
  BY <1>2 DEF Residents, Resides
<1>3. ASSUME NEW s \in Tenants, NEW u \in Users,
             \/ Leave(s, u) \/ \E a \in Users : Remove(s, a, u)
             \/ \E role \in {"OWNER", "MEMBER"} : SetRole(s, u, role)
      PROVE  Within({}) \/ Gained
  BY <1>3, ChangedRow
<1>4. ASSUME NEW w \in Workers, CreateTenant(w) PROVE Within({})
  <2>1. PICK s \in Tenants, u \in Users : Created(w, s, u)
    BY <1>4, CreationRows
  <2> QED
    BY <2>1, TwoRoles DEF Created
<1>5. ASSUME NEW w \in Workers, CloseWorkspace(w) PROVE Within({})
  BY <1>5, ClosedRows, TwoRoles
<1>6. ASSUME NEW w \in Workers, TransferOwnership(w) PROVE Within({}) \/ Gained
  <2>1. PICK s \in Tenants, a \in Users, u \in Users : Transferred(w, s, a, u)
    BY <1>6, TransferRows
  <2>2. member[s][a] \in MemberRow /\ member[s][a].status = "ACTIVE"
    BY <1>1, <2>1 DEF Transferred, Active, TypeOK
  <2>3. member[s][a] = Row("MEMBER", "ACTIVE") \/ Owns(s, a)
    BY <2>2, MemberParts DEF Owns
  <2> QED
    BY <2>1, <2>3, TwoRoles DEF Transferred
<1>7. ASSUME NEW w \in Workers, Accept(w)
      PROVE  Within({}) \/ (SeatToTake(t) /\ \E u \in Users : Within({u}))
  <2>1. PICK i \in Invites, s \in Tenants, u \in Users, role \in {"OWNER", "MEMBER"} : Accepted(w, i, s, u, role)
    BY <1>7, AcceptRows
  <2>2. CASE s = t
    BY <2>1, <2>2 DEF Accepted
  <2>3. CASE s # t
    BY <2>1, <2>3 DEF Accepted
  <2> QED
    BY <2>2, <2>3
<1>8. ASSUME NEW w \in Workers, DeleteAccount(w) PROVE Within({})
  <2>1. PICK u \in Users, found \in SUBSET Tenants : Erased(w, u, found)
    BY <1>8, DeletionRows
  <2> QED
    BY <2>1, TwoRoles DEF Erased
<1>9. Within({}) => Residents(t)' \subseteq Residents(t)
  BY DEF Residents, Resides
<1>10. \A u \in Users : Within({u}) => Residents(t)' \subseteq Residents(t) \cup {u}
  BY DEF Residents, Resides
<1>11. Gained => \E u \in Users : Owns(t, u) /\ Resides(t, u)'
  BY DEF Resides
<1> HIDE DEF Gained, Within
<1> QED
  BY <1>2, <1>3, <1>4, <1>5, <1>6, <1>7, <1>8, <1>9, <1>10, <1>11, MemberWriters

\* A request that has counted, and commits with this step.
Granted(w, u) == Counts(w, u) /\ job[w].op \in {"creating", "handing"} /\ job'[w] = Idle

\* How a step can add a workspace to those a user owns.
LEMMA OwnedStep ==
    ASSUME IInv, [Next]_vars, NEW u \in Users
    PROVE  \/ Owned(u)' \subseteq Owned(u)
           \/ (\E w \in Workers : Granted(w, u)) /\ \E t \in Tenants : Owned(u)' \subseteq Owned(u) \cup {t}
           \/ \E t \in Tenants : SetRole(t, u, "OWNER")
           \/ \E t \in Tenants : member[t][u].role = "OWNER" /\ ~Active(t, u) /\ Owns(t, u)'
<1> DEFINE Back == \E t \in Tenants : /\ member[t][u].role = "OWNER" /\ ~Active(t, u)
                                      /\ member'[t][u] = Row("OWNER", "ACTIVE")
           Within(S) == \A t \in Tenants \ S :
                            tenant'[t] = "OPEN" /\ member'[t][u] = Row("OWNER", "ACTIVE") =>
                            tenant[t] = "OPEN" /\ member[t][u] = Row("OWNER", "ACTIVE")
<1>1. TypeOK
  BY DEF IInv
<1>2. CASE UNCHANGED <<tenant, member>>
  BY <1>2 DEF Owned, Owns
<1>3. ASSUME NEW s \in Tenants, NEW v \in Users,
             \/ Leave(s, v) \/ \E a \in Users : Remove(s, a, v)
             \/ \E role \in {"OWNER", "MEMBER"} : SetRole(s, v, role)
      PROVE  Within({}) \/ SetRole(s, u, "OWNER")
  <2>1. CASE v # u
    BY <1>3, <2>1, ChangedRow
  <2>2. CASE v = u /\ (Leave(s, v) \/ \E a \in Users : Remove(s, a, v))
    <3>1. member' = [member EXCEPT ![s][u] = Row(member[s][u].role, "ENDED")]
      BY <2>2 DEF Leave, Remove, EndMembership
    <3>2. member'[s][u] = Row(member[s][u].role, "ENDED")
      BY <1>1, <3>1 DEF TypeOK
    <3> QED
      BY <1>3, <2>2, <3>2, ChangedRow, TwoRoles
  <2>3. CASE v = u /\ \E role \in {"OWNER", "MEMBER"} : SetRole(s, v, role)
    <3>1. PICK role \in {"OWNER", "MEMBER"} : SetRole(s, u, role)
      BY <2>3
    <3>2. CASE role = "MEMBER"
      <4>1. member' = [member EXCEPT ![s][u] = Row("MEMBER", "ACTIVE")]
        BY <3>1, <3>2 DEF SetRole
      <4>2. member'[s][u] = Row("MEMBER", "ACTIVE")
        BY <1>1, <4>1 DEF TypeOK
      <4> QED
        BY <1>3, <2>3, <4>2, ChangedRow, TwoRoles
    <3> QED
      BY <3>1, <3>2
  <2> QED
    BY <1>3, <2>1, <2>2, <2>3
<1>4. ASSUME NEW w \in Workers, CreateTenant(w)
      PROVE  Within({}) \/ (Granted(w, u) /\ \E t \in Tenants : Within({t}))
  <2>1. PICK s \in Tenants, v \in Users : Created(w, s, v)
    BY <1>4, CreationRows
  <2>2. CASE u = v
    <3>1. job'[w] = Idle
      BY <1>1, <2>1, OthersGoOn DEF Created
    <3>2. Granted(w, u)
      BY <2>1, <2>2, <3>1 DEF Created, Granted, Counts
    <3>3. Within({s})
      BY <2>1, <2>2 DEF Created
    <3> QED
      BY <3>2, <3>3
  <2>3. CASE u # v
    <3>1. member'[s][u] = NoRow /\ NoRow # Row("OWNER", "ACTIVE")
      BY <2>1, <2>3, MadeRow DEF Created, IInv, Nowhere
    <3> QED
      BY <2>1, <2>3, <3>1 DEF Created
  <2> QED
    BY <2>2, <2>3
<1>5. ASSUME NEW w \in Workers, CloseWorkspace(w) PROVE Within({})
  BY <1>5, ClosedRows, TwoRoles
<1>6. ASSUME NEW w \in Workers, TransferOwnership(w)
      PROVE  Within({}) \/ (Granted(w, u) /\ \E t \in Tenants : Within({t}))
  <2>1. PICK s \in Tenants, a \in Users, v \in Users : Transferred(w, s, a, v)
    BY <1>6, TransferRows
  <2>2. CASE u = v
    <3>1. job'[w] = Idle
      BY <1>1, <2>1, OthersGoOn DEF Transferred
    <3>2. Granted(w, u)
      BY <2>1, <2>2, <3>1 DEF Transferred, Granted, Counts
    <3>3. Within({s})
      BY <2>1, <2>2 DEF Transferred
    <3> QED
      BY <3>2, <3>3
  <2>3. CASE u # v
    BY <2>1, <2>3, TwoRoles DEF Transferred
  <2> QED
    BY <2>2, <2>3
<1>7. ASSUME NEW w \in Workers, Accept(w) PROVE Within({}) \/ Back
  <2>1. PICK i \in Invites, s \in Tenants, v \in Users, role \in {"OWNER", "MEMBER"} : Accepted(w, i, s, v, role)
    BY <1>7, AcceptRows
  <2>2. CASE u # v \/ role = "MEMBER"
    BY <2>1, <2>2, TwoRoles DEF Accepted
  <2>3. CASE u = v /\ role = "OWNER"
    <3>1. member[s][u].role = "OWNER"
      BY <2>1, <2>3 DEF Accepted
    <3>2. Active(s, u) => member[s][u] = Row("OWNER", "ACTIVE")
      BY <1>1, <3>1, MemberParts DEF Active, TypeOK
    <3> QED
      BY <2>1, <2>3, <3>1, <3>2 DEF Accepted
  <2> QED
    BY <2>2, <2>3
<1>8. ASSUME NEW w \in Workers, DeleteAccount(w) PROVE Within({})
  <2>1. PICK v \in Users, found \in SUBSET Tenants : Erased(w, v, found)
    BY <1>8, DeletionRows
  <2> QED
    BY <2>1, TwoRoles DEF Erased
<1>9. Within({}) => Owned(u)' \subseteq Owned(u)
  BY DEF Owned, Owns
<1>10. \A t \in Tenants : Within({t}) => Owned(u)' \subseteq Owned(u) \cup {t}
  BY DEF Owned, Owns
<1>11. Back => \E t \in Tenants : member[t][u].role = "OWNER" /\ ~Active(t, u) /\ Owns(t, u)'
  BY DEF Owns
<1> HIDE DEF Back, Within
<1> QED
  BY <1>2, <1>3, <1>4, <1>5, <1>6, <1>7, <1>8, <1>9, <1>10, <1>11, MemberWriters

\* While a request holds an account's row, nobody but itself and a root adds to
\* the workspaces the account owns, and nobody but a root takes one from them.
LEMMA LockedRows ==
    ASSUME IInv, [Next]_vars, NEW x \in Workers, NEW u \in Users, Counts(x, u), job'[x] # Idle,
           \A t \in Tenants, role \in {"OWNER", "MEMBER"} : ~SetRole(t, u, role)
    PROVE  /\ \A t \in Tenants : member'[t][u] = Row("OWNER", "ACTIVE") <=> Owns(t, u)
           /\ Owned(u)' \subseteq Owned(u)
<1> DEFINE Same == \A t \in Tenants : member'[t][u] = Row("OWNER", "ACTIVE") <=> Owns(t, u)
           Fewer == \A t \in Tenants : tenant'[t] = "OPEN" /\ Owns(t, u) => tenant[t] = "OPEN"
<1>1. /\ TypeOK /\ HoldsUser(x, u) /\ HasAccount(job[x]) /\ Account(job[x]) = u
      /\ \A w \in Workers : w # x => Apart(job[x], job[w])
  BY DEF IInv, HoldsUser, Deletes, Counts, HasAccount, Account, Requests
<1>2. CASE UNCHANGED <<tenant, member>>
  BY <1>2 DEF Owned, Owns
<1>3. ASSUME NEW s \in Tenants, NEW v \in Users,
             \/ Leave(s, v) \/ \E a \in Users : Remove(s, a, v)
             \/ \E role \in {"OWNER", "MEMBER"} : SetRole(s, v, role)
      PROVE  Same /\ Fewer
  <2>1. v # u
    BY <1>1, <1>3 DEF Leave, Remove, UserFree
  <2> QED
    BY <1>3, <2>1, ChangedRow DEF Owns
<1>4. ASSUME NEW w \in Workers, End(w)
      PROVE  w # x
  BY <1>1, <1>4, OthersGoOn
<1>5. ASSUME NEW w \in Workers, CreateTenant(w)
      PROVE  Same /\ Fewer
  <2>1. PICK s \in Tenants, v \in Users : Created(w, s, v)
    BY <1>5, CreationRows
  <2>2. v # u
    BY <1>1, <1>4, <2>1 DEF Created, Apart, HasAccount, Account
  <2>3. ~Owns(s, u)
    BY <2>1, MadeRow DEF Created, IInv, Nowhere, Owns
  <2> QED
    BY <2>1, <2>2, <2>3 DEF Created, Owns
<1>6. ASSUME NEW w \in Workers, CloseWorkspace(w)
      PROVE  Same /\ Fewer
  <2>1. PICK t \in Tenants, a \in Users : t = job[w].tenant /\ a = job[w].actor
    BY <1>1, <1>6, JobParts DEF CloseWorkspace, Does, TypeOK
  <2>2. End(w) /\ member' = [member EXCEPT ![t][a] = Row(member[t][a].role, "ENDED")]
    BY <1>6, <2>1 DEF CloseWorkspace
  <2>3. a # u
    BY <1>1, <1>4, <1>6, <2>1, <2>2 DEF CloseWorkspace, Blocked, Blocks, Does
  <2>4. \A s \in Tenants : member'[s][u] = member[s][u]
    BY <1>1, <2>2, <2>3 DEF TypeOK
  <2> QED
    BY <1>6, <2>4, ClosedRows DEF Owns
<1>7. ASSUME NEW w \in Workers, TransferOwnership(w)
      PROVE  Same /\ Fewer
  <2>1. PICK s \in Tenants, a \in Users, v \in Users : Transferred(w, s, a, v)
    BY <1>7, TransferRows
  <2>2. v # u
    BY <1>1, <1>4, <2>1 DEF Transferred, Apart, HasAccount, Account
  <2>3. a # u
    BY <1>1, <1>4, <2>1 DEF Transferred
  <2> QED
    BY <2>1, <2>2, <2>3 DEF Transferred, Owns
<1>8. ASSUME NEW w \in Workers, Accept(w)
      PROVE  Same /\ Fewer
  <2>1. PICK i \in Invites, s \in Tenants, v \in Users, role \in {"OWNER", "MEMBER"} : Accepted(w, i, s, v, role)
    BY <1>8, AcceptRows
  <2>2. job[w].actor = v /\ ~Blocked(w) /\ End(w) /\ job[w].op = "answering"
    BY <1>8, <2>1 DEF Accept, Accepted, IInv, Requests, Fits
  <2>3. v # u
    BY <1>1, <1>4, <2>2 DEF Blocked, Blocks
  <2> QED
    BY <2>1, <2>3 DEF Accepted, Owns
<1>9. ASSUME NEW w \in Workers, DeleteAccount(w)
      PROVE  Same /\ Fewer
  <2>1. PICK v \in Users, found \in SUBSET Tenants : Erased(w, v, found)
    BY <1>9, DeletionRows
  <2>2. v # u
    BY <1>1, <1>4, <2>1 DEF Erased, Apart, HasAccount, Account
  <2> QED
    BY <2>1, <2>2 DEF Erased, Owns
<1>10. Same /\ Fewer => Owned(u)' \subseteq Owned(u)
  BY DEF Owned, Owns
<1> HIDE DEF Same, Fewer
<1>11. Same /\ Fewer
  <2>1. UNCHANGED <<tenant, member>> => Same /\ Fewer
    BY <1>2 DEF Same, Fewer, Owns
  <2> QED
    BY <2>1, <1>3, <1>5, <1>6, <1>7, <1>8, <1>9, MemberWriters
<1> QED
  BY <1>10, <1>11 DEF Same

\* A request begins with none of the locks of a limit's check.
LEMMA Begins ==
    ASSUME IInv, NEW w \in Workers, Ask(w)
    PROVE  job'[w].op \notin {"counting", "creating", "offering", "handing"}
<1>1. \E op \in {"create", "closing", "transfer", "invite", "answer", "deleting"} : \E t, a, u, i :
          job' = [job EXCEPT ![w] = Job(op, t, a, u, i, {})]
  BY DEF Ask, BeginCreate, CloseLocks, BeginTransfer, BeginInvite, BeginAnswer, DeleteLocks, Begin, Becomes
<1>2. PICK op \in {"create", "closing", "transfer", "invite", "answer", "deleting"} :
          \E t, a, u, i : job' = [job EXCEPT ![w] = Job(op, t, a, u, i, {})]
  BY <1>1
<1> QED
  BY <1>2, MadeJob DEF IInv, TypeOK

\* Who takes a limit's check one step further, and who forgets that it has been
\* overtaken.
LEMMA NextCheck ==
    ASSUME IInv, [Next]_vars, NEW x \in Workers
    PROVE  /\ job'[x] # job[x] /\ job'[x].op \in {"counting", "creating", "offering", "handing"} =>
                  CreateLocks(x) \/ CreateCounts(x) \/ TransferLimit(x) \/ TransferCounts(x)
           /\ x \in overtaken => x \in overtaken' \/ job'[x] = Idle
<1>1. TypeOK
  BY DEF IInv
<1>2. ASSUME NEW w \in Workers, NEW j, Becomes(w, j)
      PROVE  UNCHANGED overtaken /\ job'[w] = j /\ \A v \in Workers : v # w => job'[v] = job[v]
  BY <1>1, <1>2 DEF Becomes, TypeOK
<1>3. ASSUME NEW w \in Workers, End(w)
      PROVE  /\ overtaken' = overtaken \ {w} /\ job'[w].op = "idle" /\ job'[w] = Idle
             /\ \A v \in Workers : v # w => job'[v] = job[v]
  BY <1>1, <1>3, IdleParts DEF End, TypeOK
<1>4. CASE AtOnce \/ UNCHANGED vars
  <2>1. job' = job /\ overtaken \subseteq overtaken'
    BY <1>4 DEF AtOnce, Leave, Remove, SetRole, SetActive, Lapses, ExpireStale, CancelInvitation, vars
  <2> QED
    BY <2>1
<1>5. ASSUME NEW w \in Workers, Ask(w)
      PROVE  /\ job'[w].op \notin {"counting", "creating", "offering", "handing"}
             /\ UNCHANGED overtaken /\ \A v \in Workers : v # w => job'[v] = job[v]
  <2>1. \E j : Becomes(w, j)
    BY <1>5 DEF Ask, BeginCreate, CloseLocks, BeginTransfer, BeginInvite, BeginAnswer, DeleteLocks, Begin
  <2> QED
    BY <1>2, <1>5, <2>1, Begins
<1>6. ASSUME NEW w \in Workers, Work(w)
      PROVE  \/ End(w)
             \/ CreateLocks(w) \/ CreateCounts(w) \/ TransferLimit(w) \/ TransferCounts(w)
             \/ TransferLocks(w) \/ AnswerLocks(w) \/ DeleteMembers(w)
  BY <1>6 DEF Work, CreateTenant, CreateRefused, CloseWorkspace, TransferOwnership,
              TransferRefused, CreateInvitation, InviteRefused, Decline, Accept, AcceptRefused,
              DeleteAccount, Abort, Refuse
<1>7. ASSUME NEW w \in Workers, TransferLocks(w) \/ AnswerLocks(w) \/ DeleteMembers(w), ~End(w)
      PROVE  /\ job'[w].op \notin {"counting", "creating", "offering", "handing"}
             /\ UNCHANGED overtaken /\ \A v \in Workers : v # w => job'[v] = job[v]
  <2>1. \E op \in {"transferring", "answering", "erasing"} : \E t, a, u, i, found :
            Becomes(w, Job(op, t, a, u, i, found))
    BY <1>7 DEF TransferLocks, AnswerLocks, DeleteMembers
  <2>2. PICK op \in {"transferring", "answering", "erasing"} :
            \E t, a, u, i, found : Becomes(w, Job(op, t, a, u, i, found))
    BY <2>1
  <2> QED
    BY <1>2, <2>2, MadeJob
<1>8. ASSUME NEW w \in Workers,
             CreateLocks(w) \/ CreateCounts(w) \/ TransferLimit(w) \/ TransferCounts(w)
      PROVE  UNCHANGED overtaken /\ \A v \in Workers : v # w => job'[v] = job[v]
  <2>1. \E j : Becomes(w, j)
    BY <1>8 DEF CreateLocks, CreateCounts, TransferLimit, TransferCounts
  <2> QED
    BY <1>2, <2>1
<1>9. ASSUME NEW w \in Workers, Ask(w) \/ Work(w)
      PROVE  /\ job'[x] # job[x] /\ job'[x].op \in {"counting", "creating", "offering", "handing"} =>
                    CreateLocks(x) \/ CreateCounts(x) \/ TransferLimit(x) \/ TransferCounts(x)
             /\ x \in overtaken => x \in overtaken' \/ job'[x] = Idle
  <2>1. CASE Ask(w)
    BY <1>5, <2>1
  <2>2. CASE End(w)
    BY <1>3, <2>2
  <2>3. CASE CreateLocks(w) \/ CreateCounts(w) \/ TransferLimit(w) \/ TransferCounts(w)
    BY <1>8, <2>3
  <2>4. CASE (TransferLocks(w) \/ AnswerLocks(w) \/ DeleteMembers(w)) /\ ~End(w)
    BY <1>7, <2>4
  <2> QED
    BY <1>6, <1>9, <2>1, <2>2, <2>3, <2>4
<1> QED
  BY <1>4, <1>9 DEF Next

\* The limit a request has read is the account's, and a request that has counted
\* still has room, unless a root has changed a role of the account since.
Room ==
    \A w \in Workers \ overtaken, u \in Users :
        Counts(w, u) => /\ Entitled(u) = job[w].found
                        /\ job[w].op \in {"creating", "handing"} => HasRoom(u, job[w].found)

\* One more than fewer than the limit is within the limit.
LEMMA OneMore ==
    ASSUME NEW All, IsFiniteSet(All), NEW S \in SUBSET All, NEW T \in SUBSET All
    PROVE  /\ T \subseteq S => Cardinality(T) <= Cardinality(S)
           /\ \A x \in All : T \subseteq S \cup {x} => Cardinality(T) <= Cardinality(S) + 1
           /\ Cardinality(S) \in Nat /\ Cardinality(T) \in Nat
<1>1. IsFiniteSet(S) /\ IsFiniteSet(T)
  BY FS_Subset
<1>2. Cardinality(S) \in Nat /\ Cardinality(T) \in Nat
  BY <1>1, FS_CardinalityType
<1>3. ASSUME NEW x \in All, T \subseteq S \cup {x} PROVE Cardinality(T) <= Cardinality(S) + 1
  <2>1. /\ IsFiniteSet(S \cup {x})
        /\ Cardinality(S \cup {x}) = IF x \in S THEN Cardinality(S) ELSE Cardinality(S) + 1
    BY <1>1, FS_AddElement
  <2>2. Cardinality(T) <= Cardinality(S \cup {x})
    BY <1>3, <2>1, FS_Subset
  <2>3. CASE x \in S
    BY <1>2, <2>1, <2>2, <2>3
  <2>4. CASE x \notin S
    BY <2>1, <2>2, <2>4
  <2> QED
    BY <2>3, <2>4
<1>4. T \subseteq S => Cardinality(T) <= Cardinality(S)
  BY <1>1, FS_Subset
<1> QED
  BY <1>2, <1>3, <1>4

\* A request keeps the room it has counted.
LEMMA NextRoom ==
    ASSUME IInv, Room, [Next]_vars
    PROVE  Room'
<1> SUFFICES ASSUME NEW w \in Workers, w \notin overtaken', NEW u \in Users, Counts(w, u)'
             PROVE  /\ Entitled(u)' = job'[w].found
                    /\ job'[w].op \in {"creating", "handing"} => HasRoom(u, job[w].found)'
  BY DEF Room
<1>1. job'[w].op \in {"counting", "creating", "offering", "handing"} /\ job'[w] # Idle
  BY IdleParts DEF Counts
<1>2. w \notin overtaken
  BY <1>1, NextCheck
<1>3. CASE job'[w] = job[w]
  <2>1. Counts(w, u)
    BY <1>3 DEF Counts
  <2>2. \A t \in Tenants, role \in {"OWNER", "MEMBER"} : ~SetRole(t, u, role)
    BY <2>1 DEF SetRole
  <2>3. /\ \A t \in Tenants : member'[t][u] = Row("OWNER", "ACTIVE") <=> Owns(t, u)
        /\ Owned(u)' \subseteq Owned(u)
    BY <1>1, <2>1, <2>2, LockedRows
  <2>4. Entitled(u)' = Entitled(u)
    BY <2>3, TenantSets DEF Entitled, Owns
  <2>5. PICK S, T : S = Owned(u) /\ T = Owned(u)'
    OBVIOUS
  <2>6. Cardinality(T) <= Cardinality(S) /\ Cardinality(S) \in Nat /\ Cardinality(T) \in Nat
    <3>1. S \in SUBSET Tenants /\ T \in SUBSET Tenants /\ T \subseteq S
      BY <2>3, <2>5 DEF Owned
    <3> QED
      BY <3>1, OneMore, FinitelyMany
  <2>7. AccountLimit(job[w].found) \in Nat
    BY LimitsAreNat DEF AccountLimit
  <2>8. Entitled(u) = job[w].found /\ (job[w].op \in {"creating", "handing"} => HasRoom(u, job[w].found))
    BY <1>2, <2>1 DEF Room
  <2>9. job[w].op \in {"creating", "handing"} => Cardinality(T) < AccountLimit(job[w].found)
    BY <2>5, <2>6, <2>7, <2>8 DEF HasRoom
  <2> QED
    BY <1>3, <2>4, <2>5, <2>8, <2>9 DEF HasRoom
<1>4. CASE job'[w] # job[w]
  <2>1. CreateLocks(w) \/ CreateCounts(w) \/ TransferLimit(w) \/ TransferCounts(w)
    BY <1>1, <1>4, NextCheck
  <2>2. UNCHANGED <<tenant, member>>
    BY <2>1 DEF CreateLocks, CreateCounts, TransferLimit, TransferCounts
  <2>3. Entitled(u)' = Entitled(u) /\ \A found : HasRoom(u, found)' = HasRoom(u, found)
    BY <2>2 DEF Entitled, HasRoom, Owned, Owns
  <2>4. \A j : Becomes(w, j) => job'[w] = j
    BY DEF Becomes, IInv, TypeOK
  <2>5. CASE CreateLocks(w)
    <3>1. Becomes(w, Job("counting", job[w].tenant, job[w].actor, None, None, Entitled(job[w].actor)))
      BY <2>5 DEF CreateLocks
    <3>2. job'[w].op = "counting" /\ job'[w].actor = job[w].actor /\ job'[w].found = Entitled(job[w].actor)
      BY <2>4, <3>1, MadeJob
    <3> QED
      BY <2>3, <3>2 DEF Counts
  <2>6. CASE CreateCounts(w)
    <3>1. /\ Becomes(w, Job("creating", job[w].tenant, job[w].actor, None, None, job[w].found))
          /\ HasRoom(job[w].actor, job[w].found) /\ job[w].op = "counting"
      BY <2>6 DEF CreateCounts, Does
    <3>2. job'[w].op = "creating" /\ job'[w].actor = job[w].actor /\ job'[w].found = job[w].found
      BY <2>4, <3>1, MadeJob
    <3>3. u = job[w].actor /\ Entitled(u) = job[w].found
      BY <1>2, <3>1, <3>2 DEF Counts, Room
    <3> QED
      BY <2>3, <3>1, <3>2, <3>3
  <2>7. CASE TransferLimit(w)
    <3>1. Becomes(w, Job("offering", job[w].tenant, job[w].actor, job[w].user, None, Entitled(job[w].user)))
      BY <2>7 DEF TransferLimit
    <3>2. job'[w].op = "offering" /\ job'[w].user = job[w].user /\ job'[w].found = Entitled(job[w].user)
      BY <2>4, <3>1, MadeJob
    <3> QED
      BY <2>3, <3>2 DEF Counts
  <2>8. CASE TransferCounts(w)
    <3>1. /\ Becomes(w, Job("handing", job[w].tenant, job[w].actor, job[w].user, None, job[w].found))
          /\ HasRoom(job[w].user, job[w].found) /\ job[w].op = "offering"
      BY <2>8 DEF TransferCounts, Does
    <3>2. job'[w].op = "handing" /\ job'[w].user = job[w].user /\ job'[w].found = job[w].found
      BY <2>4, <3>1, MadeJob
    <3>3. u = job[w].user /\ Entitled(u) = job[w].found
      BY <1>2, <3>1, <3>2 DEF Counts, Room
    <3> QED
      BY <2>3, <3>1, <3>2, <3>3
  <2> QED
    BY <2>1, <2>5, <2>6, <2>7, <2>8
<1> QED
  BY <1>3, <1>4

\* A step adds residents and owned workspaces within the limits.
LEMMA LimitStep ==
    ASSUME IInv, Room, [Next]_vars
    PROVE  /\ \A t \in Tenants :
                Cardinality(Residents(t)') > Cardinality(Residents(t))
                => \/ Cardinality(Residents(t)') <= Seats(t)
                   \/ \E u \in Users : Owns(t, u) /\ Resides(t, u)'
           /\ \A u \in Users :
                Cardinality(Owned(u)') > Cardinality(Owned(u))
                => \/ Cardinality(Owned(u)') <= OwnedLimit(u)
                   \/ \E t \in Tenants : SetRole(t, u, "OWNER")
                   \/ \E t \in Tenants : member[t][u].role = "OWNER" /\ ~Active(t, u) /\ Owns(t, u)'
                   \/ \E w \in overtaken : Counts(w, u) /\ job'[w] = Idle
<1>1. ASSUME NEW t \in Tenants, Cardinality(Residents(t)') > Cardinality(Residents(t)),
             ~\E u \in Users : Owns(t, u) /\ Resides(t, u)'
      PROVE  Cardinality(Residents(t)') <= Seats(t)
  <2>1. PICK S, T : S = Residents(t) /\ T = Residents(t)'
    OBVIOUS
  <2>2. S \in SUBSET Users /\ T \in SUBSET Users
    BY <2>1 DEF Residents
  <2>3. Seats(t) \in Nat
    BY LimitsAreNat DEF Seats
  <2>4. \/ T \subseteq S
        \/ Cardinality(S) < Seats(t) /\ \E u \in Users : T \subseteq S \cup {u}
    BY <1>1, <2>1, ResidentStep DEF SeatToTake
  <2>5. /\ Cardinality(T) > Cardinality(S)
        /\ Cardinality(S) \in Nat /\ Cardinality(T) \in Nat
        /\ T \subseteq S => Cardinality(T) <= Cardinality(S)
        /\ \A u \in Users : T \subseteq S \cup {u} => Cardinality(T) <= Cardinality(S) + 1
    BY <1>1, <2>1, <2>2, OneMore, FinitelyMany
  <2> QED
    BY <2>1, <2>3, <2>4, <2>5
<1>2. ASSUME NEW u \in Users, Cardinality(Owned(u)') > Cardinality(Owned(u)),
             ~\E t \in Tenants : SetRole(t, u, "OWNER"),
             ~\E w \in overtaken : Counts(w, u) /\ job'[w] = Idle,
             ~\E t \in Tenants : member[t][u].role = "OWNER" /\ ~Active(t, u) /\ Owns(t, u)'
      PROVE  Cardinality(Owned(u)') <= OwnedLimit(u)
  <2>1. PICK S, T : S = Owned(u) /\ T = Owned(u)'
    OBVIOUS
  <2>2. S \in SUBSET Tenants /\ T \in SUBSET Tenants
    BY <2>1 DEF Owned
  <2>3. OwnedLimit(u) \in Nat
    BY LimitsAreNat DEF OwnedLimit, AccountLimit
  <2>4. \/ T \subseteq S
        \/ Cardinality(S) < OwnedLimit(u) /\ \E t \in Tenants : T \subseteq S \cup {t}
    <3>1. ASSUME NEW w \in Workers, Granted(w, u)
          PROVE  Cardinality(S) < OwnedLimit(u)
      BY <1>2, <2>1, <3>1 DEF Room, Granted, HasRoom, OwnedLimit
    <3> QED
      BY <1>2, <2>1, <3>1, OwnedStep
  <2>5. /\ Cardinality(T) > Cardinality(S)
        /\ Cardinality(S) \in Nat /\ Cardinality(T) \in Nat
        /\ T \subseteq S => Cardinality(T) <= Cardinality(S)
        /\ \A t \in Tenants : T \subseteq S \cup {t} => Cardinality(T) <= Cardinality(S) + 1
    BY <1>2, <2>1, <2>2, OneMore, FinitelyMany
  <2> QED
    BY <2>1, <2>3, <2>4, <2>5
<1> QED
  BY <1>1, <1>2

\* Residents and owned workspaces grow only within the plan's limits, but for
\* the owners a root appoints, the return of an owner, and a workspace granted
\* while a root changed a role of the account.
THEOREM SpecLimitsKept == Spec => LimitsKept
<1>1. IInv /\ Room /\ [Next]_vars =>
        [/\ \A t \in Tenants :
              Cardinality(Residents(t)') > Cardinality(Residents(t))
              => \/ Cardinality(Residents(t)') <= Seats(t)
                 \/ \E u \in Users : Owns(t, u) /\ Resides(t, u)'
         /\ \A u \in Users :
              Cardinality(Owned(u)') > Cardinality(Owned(u))
              => \/ Cardinality(Owned(u)') <= OwnedLimit(u)
                 \/ \E t \in Tenants : SetRole(t, u, "OWNER")
                 \/ \E t \in Tenants : member[t][u].role = "OWNER" /\ ~Active(t, u) /\ Owns(t, u)'
                 \/ \E w \in overtaken : Counts(w, u) /\ job'[w] = Idle]_vars
  BY LimitStep
<1>2. Init => Room
  BY IdleParts DEF Init, Room, Counts
<1>3. IInv /\ Room /\ [Next]_vars => Room'
  <2>1. CASE UNCHANGED vars
    BY NextRoom
  <2> QED
    BY NextRoom
<1> QED
  BY <1>1, <1>2, <1>3, SpecIInv, PTL DEF Spec, LimitsKept

----------------------------------------------------------------------------
(* What is left of a deleted account.                                      *)

IsInviting(w, t) == Does(w, "invite") /\ job[w].tenant = t
Answers(w) == job[w].op \in {"answer", "answering"}

\* Nobody is about to be invited to a workspace a deleted account is still in.
Alone ==
    \A u \in deleted, t \in Tenants : Active(t, u) =>
        /\ Owns(t, u)
        /\ Pending(t) = {}
        /\ \A v \in Users \ {u} : ~Active(t, v)
        /\ \A w \in Workers : ~IsInviting(w, t)

\* What a deleted account may still be answering was cancelled with it.
NotAnswered == \A w \in Workers : Answers(w) /\ job[w].actor \in deleted => invite[job[w].invite].status # "PENDING"

\* One is invited to workspaces that exist.
InvitesIn == \A w \in Workers : Does(w, "invite") => tenant[job[w].tenant] # "NONE"

\* A deletion ends every membership there is: it holds the user's row.
EndsAll == \A w \in Workers : Does(w, "erasing") => \A t \in Tenants : Active(t, job[w].actor) => t \in job[w].found

DInv == IInv /\ Alone /\ NotAnswered /\ InvitesIn /\ EndsAll

\* Who comes in creates the workspace or accepts an invitation, and nobody is
\* deleting their account meanwhile.
LEMMA ComesIn ==
    ASSUME IInv, [Next]_vars, NEW t \in Tenants, NEW u \in Users, Active(t, u)', ~Active(t, u)
    PROVE  \/ /\ \E w \in Workers : Created(w, t, u)
              /\ \A v \in Workers : ~Deletes(v, u)
           \/ \E w \in Workers :
                 /\ \E i \in Invites, role \in {"OWNER", "MEMBER"} : Accepted(w, i, t, u, role)
                 /\ Does(w, "answering") /\ job[w].actor = u
                 /\ \A v \in Workers : ~Deletes(v, u)
<1>1. member[t][u].status # "ACTIVE" /\ member'[t][u].status = "ACTIVE" /\ TypeOK
  BY DEF Active, IInv
<1>2. ~UNCHANGED member
  BY <1>1
<1>3. ASSUME NEW s \in Tenants, NEW x \in Users,
             \/ Leave(s, x) \/ \E a \in Users : Remove(s, a, x)
             \/ \E role \in {"OWNER", "MEMBER"} : SetRole(s, x, role)
      PROVE  FALSE
  <2>1. s = t /\ x = u
    BY <1>1, <1>3, ChangedRow
  <2>2. CASE Leave(s, x) \/ \E a \in Users : Remove(s, a, x)
    <3>1. member' = [member EXCEPT ![t][u] = Row(member[t][u].role, "ENDED")]
      BY <2>1, <2>2 DEF Leave, Remove, EndMembership
    <3>2. member'[t][u] = Row(member[t][u].role, "ENDED")
      BY <1>1, <3>1 DEF TypeOK
    <3> QED
      BY <1>1, <3>2, RowParts
  <2>3. CASE \E role \in {"OWNER", "MEMBER"} : SetRole(s, x, role)
    BY <1>1, <2>1, <2>3 DEF SetRole, Active
  <2> QED
    BY <1>3, <2>2, <2>3
<1>4. ASSUME NEW w \in Workers, CreateTenant(w)
      PROVE  Created(w, t, u) /\ \A v \in Workers : ~Deletes(v, u)
  <2>1. PICK s \in Tenants, x \in Users : Created(w, s, x)
    BY <1>4, CreationRows
  <2>2. s = t /\ x = u
    BY <1>1, <2>1 DEF Created
  <2> QED
    BY <2>1, <2>2 DEF Created, Deletes, IInv, Requests, Apart, HasAccount, Account
<1>5. ASSUME NEW w \in Workers, CloseWorkspace(w)
      PROVE  FALSE
  BY <1>1, <1>5, ClosedRows, RowParts
<1>6. ASSUME NEW w \in Workers, TransferOwnership(w)
      PROVE  FALSE
  <2>1. PICK s \in Tenants, a \in Users, x \in Users : Transferred(w, s, a, x)
    BY <1>6, TransferRows
  <2> QED
    BY <1>1, <2>1, RowParts DEF Transferred, Active
<1>7. ASSUME NEW w \in Workers, Accept(w)
      PROVE  /\ \E i \in Invites, role \in {"OWNER", "MEMBER"} : Accepted(w, i, t, u, role)
             /\ Does(w, "answering") /\ job[w].actor = u
             /\ \A v \in Workers : ~Deletes(v, u)
  <2>1. PICK i \in Invites, s \in Tenants, x \in Users, role \in {"OWNER", "MEMBER"} : Accepted(w, i, s, x, role)
    BY <1>7, AcceptRows
  <2>2. s = t /\ x = u
    BY <1>1, <2>1 DEF Accepted
  <2>3. Does(w, "answering") /\ ~Blocked(w)
    BY <1>7 DEF Accept
  <2>4. job[w].actor = u
    BY <2>1, <2>2, <2>3, JobParts DEF Accepted, IInv, Requests, Fits, Does
  <2>5. ASSUME NEW v \in Workers, Deletes(v, u)
        PROVE  FALSE
    <3>1. v # w /\ HoldsUser(v, u)
      BY <2>3, <2>5 DEF HoldsUser, Deletes, Does
    <3> QED
      BY <2>3, <2>4, <3>1 DEF Blocked, Blocks, Does
  <2> QED
    BY <2>1, <2>2, <2>3, <2>4, <2>5
<1>8. ASSUME NEW w \in Workers, DeleteAccount(w)
      PROVE  FALSE
  <2>1. PICK x \in Users, found \in SUBSET Tenants : Erased(w, x, found)
    BY <1>8, DeletionRows
  <2> QED
    BY <1>1, <2>1, RowParts DEF Erased
<1> QED
  BY <1>2, <1>3, <1>4, <1>5, <1>6, <1>7, <1>8, MemberWriters

\* The only member of a workspace, who owns it, owns it as long as they are in it.
LEMMA StaysOwner ==
    ASSUME IInv, [Next]_vars, NEW t \in Tenants, NEW u \in Users,
           Owns(t, u), \A v \in Users \ {u} : ~Active(t, v), Active(t, u)'
    PROVE  Owns(t, u)'
<1>1. /\ member[t][u] = Row("OWNER", "ACTIVE") /\ TypeOK
      /\ member[t][u].role = "OWNER" /\ member[t][u].status = "ACTIVE"
      /\ member'[t][u].status = "ACTIVE"
  BY RowParts DEF Owns, Active, IInv
<1>2. SUFFICES member'[t][u] = Row("OWNER", "ACTIVE")
  BY DEF Owns
<1>3. CASE UNCHANGED <<tenant, member>>
  BY <1>1, <1>3
<1>4. ASSUME NEW s \in Tenants, NEW x \in Users,
             \/ Leave(s, x) \/ \E a \in Users : Remove(s, a, x)
             \/ \E role \in {"OWNER", "MEMBER"} : SetRole(s, x, role)
      PROVE  member'[t][u] = member[t][u]
  <2>1. ~OtherOwner(t, u)
    BY RowParts DEF OtherOwner, Owns, Active
  <2> QED
    BY <1>4, <2>1, ChangedRow
<1>5. ASSUME NEW w \in Workers, CreateTenant(w)
      PROVE  member'[t][u] = member[t][u]
  <2>1. PICK s \in Tenants, x \in Users : Created(w, s, x)
    BY <1>5, CreationRows
  <2>2. s # t
    BY <1>1, <2>1, MadeRow DEF Created, IInv, Nowhere
  <2> QED
    BY <2>1, <2>2 DEF Created
<1>6. ASSUME NEW w \in Workers, CloseWorkspace(w)
      PROVE  member'[t][u] = member[t][u]
  BY <1>1, <1>6, ClosedRows, RowParts
<1>7. ASSUME NEW w \in Workers, TransferOwnership(w)
      PROVE  member'[t][u] = member[t][u]
  <2>1. PICK s \in Tenants, a \in Users, x \in Users : Transferred(w, s, a, x)
    BY <1>7, TransferRows
  <2>2. Active(s, a) /\ Active(s, x) /\ a # x
    BY <2>1, RowParts DEF Transferred, Active
  <2>3. s # t
    BY <2>2
  <2> QED
    BY <2>1, <2>3 DEF Transferred
<1>8. ASSUME NEW w \in Workers, Accept(w)
      PROVE  member'[t][u] = member[t][u]
  <2>1. PICK i \in Invites, s \in Tenants, x \in Users, role \in {"OWNER", "MEMBER"} : Accepted(w, i, s, x, role)
    BY <1>8, AcceptRows
  <2> QED
    BY <1>1, <2>1 DEF Accepted
<1>9. ASSUME NEW w \in Workers, DeleteAccount(w)
      PROVE  member'[t][u] = member[t][u]
  <2>1. PICK x \in Users, found \in SUBSET Tenants : Erased(w, x, found)
    BY <1>9, DeletionRows
  <2> QED
    BY <1>1, <2>1, RowParts DEF Erased
<1> QED
  BY <1>1, <1>3, <1>4, <1>5, <1>6, <1>7, <1>8, <1>9, MemberWriters

\* An invitation that becomes pending was being made.
LEMMA ComesPending ==
    ASSUME IInv, [Next]_vars, NEW t \in Tenants, NEW i \in Pending(t)'
    PROVE  i \in Pending(t) \/ \E w \in Workers : IsInviting(w, t)
<1>1. i \in Invites /\ invite'[i].status = "PENDING" /\ invite'[i].tenant = t /\ TypeOK
  BY DEF Pending, IInv
<1>2. CASE invite'[i] = invite[i]
  BY <1>1, <1>2 DEF Pending
<1>3. ASSUME NEW k \in Invites, Lapses(k) \/ ExpireStale(k) \/ \E a \in Users : CancelInvitation(a, k),
             invite'[i] # invite[i]
      PROVE  i \in Pending(t)
  <2>1. \E status \in {"PENDING", "EXPIRED", "CANCELLED"}, lapsed \in BOOLEAN :
            invite' = [invite EXCEPT ![k] = Invitation(invite[k].tenant, invite[k].user, status, lapsed)]
    <3>1. CASE Lapses(k)
      BY <3>1 DEF Lapses
    <3>2. CASE ExpireStale(k)
      BY <3>2 DEF ExpireStale, Answered
    <3>3. CASE \E a \in Users : CancelInvitation(a, k)
      BY <3>3 DEF CancelInvitation, Answered
    <3> QED
      BY <1>3, <3>1, <3>2, <3>3
  <2>2. i = k /\ invite'[i].tenant = invite[i].tenant
    BY <1>1, <1>3, <2>1 DEF TypeOK, Invitation
  <2>3. invite[k].status = "PENDING"
    BY <1>3 DEF Lapses, ExpireStale, CancelInvitation
  <2> QED
    BY <1>1, <2>2, <2>3 DEF Pending
<1>4. ASSUME NEW w \in Workers, NEW k \in Invites, CreateInvitation(w, k), invite'[i] # invite[i]
      PROVE  IsInviting(w, t)
  <2>1. PICK s, u : s = job[w].tenant /\ u = job[w].user
    OBVIOUS
  <2>2. invite' = [n \in Invites |-> IF n = k THEN Invitation(s, u, "PENDING", FALSE)
                                     ELSE IF n \in Lapsed(s)
                                          THEN Invitation(s, invite[n].user, "EXPIRED", FALSE)
                                          ELSE invite[n]]
    BY <1>4, <2>1 DEF CreateInvitation
  <2>3. invite'[i].tenant = s
    BY <1>1, <1>4, <2>2 DEF Invitation
  <2> QED
    BY <1>1, <1>4, <2>1, <2>3 DEF IsInviting, CreateInvitation
<1>5. ASSUME NEW w \in Workers, Decline(w), invite'[i] # invite[i]
      PROVE  FALSE
  <2>1. PICK k \in Invites : k = job[w].invite
    BY <1>5, Read DEF Decline
  <2>2. invite' = [invite EXCEPT ![k] = Invitation(invite[k].tenant, invite[k].user, "DECLINED", FALSE)]
    BY <1>5, <2>1 DEF Decline, Answered
  <2> QED
    BY <1>1, <1>5, <2>2 DEF TypeOK, Invitation
<1>6. ASSUME NEW w \in Workers, Accept(w), invite'[i] # invite[i]
      PROVE  FALSE
  <2>1. PICK k \in Invites, s \in Tenants, u \in Users, role \in {"OWNER", "MEMBER"} : Accepted(w, k, s, u, role)
    BY <1>6, AcceptRows
  <2> QED
    BY <1>1, <1>6, <2>1 DEF Accepted
<1>7. ASSUME NEW w \in Workers, CloseWorkspace(w), invite'[i] # invite[i]
      PROVE  FALSE
  <2>1. PICK s : s = job[w].tenant
    OBVIOUS
  <2>2. invite' = [n \in Invites |-> IF n \in Pending(s)
                                     THEN Invitation(s, invite[n].user, "CANCELLED", FALSE)
                                     ELSE invite[n]]
    BY <1>7, <2>1 DEF CloseWorkspace
  <2> QED
    BY <1>1, <1>7, <2>2 DEF Invitation
<1>8. ASSUME NEW w \in Workers, DeleteAccount(w), invite'[i] # invite[i]
      PROVE  FALSE
  <2>1. PICK u \in Users, found \in SUBSET Tenants : Erased(w, u, found)
    BY <1>8, DeletionRows
  <2> QED
    BY <1>1, <1>8, <2>1 DEF Erased
<1> QED
  BY <1>2, <1>3, <1>4, <1>5, <1>6, <1>7, <1>8, InviteWriters

\* A workspace that exists never ceases to.
LEMMA StaysMade ==
    ASSUME IInv, [Next]_vars, NEW t \in Tenants, tenant[t] # "NONE"
    PROVE  tenant'[t] # "NONE"
<1>1. TypeOK
  BY DEF IInv
<1>2. CASE UNCHANGED tenant
  BY <1>2
<1>3. ASSUME NEW w \in Workers, CreateTenant(w)
      PROVE  tenant'[t] # "NONE"
  <2>1. PICK s \in Tenants, u \in Users : Created(w, s, u)
    BY <1>3, CreationRows
  <2> QED
    BY <2>1 DEF Created
<1>4. ASSUME NEW w \in Workers, CloseWorkspace(w)
      PROVE  tenant'[t] # "NONE"
  BY <1>1, <1>4 DEF CloseWorkspace, TypeOK
<1> QED
  BY <1>2, <1>3, <1>4, MemberWriters DEF Leave, Remove, SetRole, TransferOwnership, Accept, DeleteAccount

\* Only the deletion of an account deletes one.
LEMMA DeletesOne ==
    ASSUME IInv, [Next]_vars, deleted' # deleted
    PROVE  \E w \in Workers : DeleteAccount(w)
<1>1. ~UNCHANGED vars
  BY DEF vars
<1>2. ~AtOnce
  BY DEF AtOnce, Leave, Remove, SetRole, SetActive, Lapses, ExpireStale, CancelInvitation
<1>3. ASSUME NEW w \in Workers, Ask(w) PROVE FALSE
  BY <1>3 DEF Ask, BeginCreate, CloseLocks, BeginTransfer, BeginInvite, BeginAnswer, DeleteLocks, Begin
<1>4. ASSUME NEW w \in Workers, Work(w) PROVE DeleteAccount(w)
  BY <1>4 DEF Work, CreateTenant, CreateRefused, CreateLocks, CreateCounts, CloseWorkspace, TransferLocks,
              TransferLimit, TransferCounts, TransferOwnership,
              TransferRefused, CreateInvitation, InviteRefused, AnswerLocks, Decline, Accept, AcceptRefused,
              DeleteMembers, Abort, Refuse
<1> QED
  BY <1>1, <1>2, <1>3, <1>4 DEF Next

\* What a request that goes on, or begins, has read.
LEMMA NewJob ==
    ASSUME IInv, [Next]_vars, NEW w \in Workers, job'[w] # job[w]
    PROVE  \/ job'[w].op \notin {"invite", "answer", "answering", "erasing"}
           \/ /\ UNCHANGED <<tenant, suspended, member, profile, invite, deleted>>
              /\ job'[w].op = "invite" =>
                    job'[w].tenant \in Tenants /\ \E a \in Users : ResolvesOwner(job'[w].tenant, a)
              /\ job'[w].op = "answer" => job'[w].actor \notin deleted
              /\ job'[w].op = "answering" => /\ Answers(w) /\ job'[w].actor = job[w].actor
                                             /\ job'[w].invite = job[w].invite
              /\ job'[w].op = "erasing" =>
                    \A t \in Tenants : Active(t, job'[w].actor) => t \in job'[w].found
<1>1. TypeOK
  BY DEF IInv
<1>2. ASSUME NEW v \in Workers, NEW j, Becomes(v, j)
      PROVE  v = w /\ job'[w] = j
  BY <1>1, <1>2 DEF Becomes, TypeOK
<1>3. ASSUME NEW v \in Workers, End(v)
      PROVE  job'[w].op = "idle"
  BY <1>2, <1>3, IdleParts DEF End
<1>4. ASSUME NEW v \in Workers, Ask(v)
      PROVE  \/ job'[w].op \notin {"invite", "answer", "answering", "erasing"}
             \/ /\ UNCHANGED <<tenant, suspended, member, profile, invite, deleted>>
                /\ job'[w].op \in {"invite", "answer"}
                /\ job'[w].op = "invite" =>
                      job'[w].tenant \in Tenants /\ \E a \in Users : ResolvesOwner(job'[w].tenant, a)
                /\ job'[w].op = "answer" => job'[w].actor \notin deleted
  <2>1. CASE \E a \in Users, t \in Tenants : BeginCreate(v, a, t) \/ CloseLocks(v, a, t)
    <3>1. PICK a \in Users, t \in Tenants, op \in {"create", "closing"} :
              Becomes(v, Job(op, t, a, None, None, {}))
      BY <2>1 DEF BeginCreate, CloseLocks, Begin
    <3> QED
      BY <1>2, <3>1, MadeJob
  <2>2. CASE \E a \in Users, t \in Tenants, u \in Users : BeginTransfer(v, a, t, u)
    <3>1. PICK a \in Users, t \in Tenants, u \in Users : Becomes(v, Job("transfer", t, a, u, None, {}))
      BY <2>2 DEF BeginTransfer, Begin
    <3> QED
      BY <1>2, <3>1, MadeJob
  <2>3. CASE \E a \in Users, t \in Tenants, u \in Users : BeginInvite(v, a, t, u)
    <3>1. PICK a \in Users, t \in Tenants, u \in Users : BeginInvite(v, a, t, u)
      BY <2>3
    <3>2. /\ Becomes(v, Job("invite", t, None, u, None, {})) /\ ResolvesOwner(t, a)
          /\ UNCHANGED <<tenant, suspended, member, profile, invite, deleted>>
      BY <3>1 DEF BeginInvite, Begin
    <3>3. job'[w].op = "invite" /\ job'[w].tenant = t
      BY <1>2, <3>2, MadeJob
    <3> QED
      BY <3>2, <3>3
  <2>4. CASE \E i \in Invites : BeginAnswer(v, i)
    <3>1. PICK i \in Invites : BeginAnswer(v, i)
      BY <2>4
    <3>2. PICK u : u = invite[i].user
      OBVIOUS
    <3>3. /\ Becomes(v, Job("answer", None, u, None, i, {})) /\ u \notin deleted
          /\ UNCHANGED <<tenant, suspended, member, profile, invite, deleted>>
      BY <3>1, <3>2 DEF BeginAnswer, Begin, SignedIn
    <3>4. job'[w].op = "answer" /\ job'[w].actor = u
      BY <1>2, <3>3, MadeJob
    <3> QED
      BY <3>3, <3>4
  <2>5. CASE \E u \in Users : DeleteLocks(v, u)
    <3>1. PICK u \in Users : Becomes(v, Job("deleting", None, u, None, None, {}))
      BY <2>5 DEF DeleteLocks, Begin
    <3> QED
      BY <1>2, <3>1, MadeJob
  <2> QED
    BY <1>4, <2>1, <2>2, <2>3, <2>4, <2>5 DEF Ask
<1>5. ASSUME NEW v \in Workers, TransferLocks(v)
      PROVE  job'[w].op \in {"idle", "transferring"}
  <2>1. CASE End(v)
    BY <1>3, <2>1
  <2>2. CASE Becomes(v, Job("transferring", job[v].tenant, job[v].actor, job[v].user, None, {}))
    BY <1>2, <2>2, MadeJob
  <2> QED
    BY <1>5, <2>1, <2>2 DEF TransferLocks
<1>6. ASSUME NEW v \in Workers, AnswerLocks(v)
      PROVE  \/ job'[w].op = "idle"
             \/ /\ UNCHANGED <<tenant, suspended, member, profile, invite, deleted>>
                /\ job'[w].op = "answering" /\ Answers(w)
                /\ job'[w].actor = job[w].actor /\ job'[w].invite = job[w].invite
  <2>1. CASE End(v)
    BY <1>3, <2>1
  <2>2. CASE Becomes(v, Job("answering", None, job[v].actor, None, job[v].invite, {}))
    <3>1. /\ v = w /\ job'[w].op = "answering"
          /\ job'[w].actor = job[v].actor /\ job'[w].invite = job[v].invite
      BY <1>2, <2>2, MadeJob
    <3> QED
      BY <1>6, <3>1 DEF AnswerLocks, Answers, Does
  <2> QED
    BY <1>6, <2>1, <2>2 DEF AnswerLocks
<1>7. ASSUME NEW v \in Workers, DeleteMembers(v)
      PROVE  /\ UNCHANGED <<tenant, suspended, member, profile, invite, deleted>>
             /\ job'[w].op = "erasing"
             /\ \A t \in Tenants : Active(t, job'[w].actor) => t \in job'[w].found
  <2>1. PICK u, found : u = job[v].actor /\ found = {t \in Tenants : Active(t, u)}
    OBVIOUS
  <2>2. /\ Becomes(v, Job("erasing", None, u, None, None, found))
        /\ UNCHANGED <<tenant, suspended, member, profile, invite, deleted>>
    BY <1>7, <2>1 DEF DeleteMembers
  <2>3. job'[w].op = "erasing" /\ job'[w].actor = u /\ job'[w].found = found
    BY <1>2, <2>2, MadeJob
  <2> QED
    BY <2>1, <2>2, <2>3
<1>10. ASSUME NEW v \in Workers,
              CreateLocks(v) \/ CreateCounts(v) \/ TransferLimit(v) \/ TransferCounts(v)
       PROVE  job'[w].op \in {"counting", "creating", "offering", "handing"}
  <2>1. \E op \in {"counting", "creating", "offering", "handing"} : \E t, a, u, found :
            Becomes(v, Job(op, t, a, u, None, found))
    BY <1>10 DEF CreateLocks, CreateCounts, TransferLimit, TransferCounts
  <2>2. PICK op \in {"counting", "creating", "offering", "handing"} :
            \E t, a, u, found : Becomes(v, Job(op, t, a, u, None, found))
    BY <2>1
  <2> QED
    BY <1>2, <2>2, MadeJob
<1>8. ASSUME NEW v \in Workers, Work(v)
      PROVE  \/ End(v) \/ TransferLocks(v) \/ AnswerLocks(v) \/ DeleteMembers(v)
             \/ CreateLocks(v) \/ CreateCounts(v) \/ TransferLimit(v) \/ TransferCounts(v)
  BY <1>8 DEF Work, CreateTenant, CreateRefused, CloseWorkspace, TransferOwnership,
              TransferRefused, CreateInvitation, InviteRefused, Decline, Accept, AcceptRefused,
              DeleteAccount, Abort, Refuse
<1>9. ~AtOnce /\ ~UNCHANGED vars
  BY DEF AtOnce, Leave, Remove, SetRole, SetActive, Lapses, ExpireStale, CancelInvitation, vars
<1> QED
  BY <1>3, <1>4, <1>5, <1>6, <1>7, <1>8, <1>9, <1>10 DEF Next

\* One is invited to a workspace that exists, and it goes on existing.
LEMMA NextInvitesIn ==
    ASSUME DInv, [Next]_vars
    PROVE  InvitesIn'
<1>1. IInv /\ TypeOK /\ InvitesIn
  BY DEF DInv, IInv
<1>2. ASSUME NEW w \in Workers, job'[w].op = "invite"
      PROVE  tenant'[job'[w].tenant] # "NONE"
  <2>1. CASE job'[w] = job[w]
    <3>1. job[w].tenant \in Tenants
      BY <1>1, <1>2, <2>1, JobParts DEF TypeOK
    <3>2. tenant[job[w].tenant] # "NONE"
      BY <1>1, <1>2, <2>1 DEF InvitesIn, Does
    <3> QED
      BY <1>1, <2>1, <3>1, <3>2, StaysMade
  <2>2. CASE job'[w] # job[w]
    <3>1. UNCHANGED tenant /\ job'[w].tenant \in Tenants /\ \E a \in Users : ResolvesOwner(job'[w].tenant, a)
      BY <1>1, <1>2, <2>2, NewJob
    <3>2. PICK t \in Tenants, a \in Users : t = job'[w].tenant /\ ResolvesOwner(t, a)
      BY <3>1
    <3>3. member[t][a] # NoRow
      BY <1>1, <3>2, MemberParts DEF ResolvesOwner, Resolves, Active, TypeOK
    <3> QED
      BY <1>1, <3>1, <3>2, <3>3 DEF IInv, Nowhere
  <2> QED
    BY <2>1, <2>2
<1> QED
  BY <1>2 DEF InvitesIn, Does

\* The rows a deletion has not updated are not active, until it commits.
LEMMA NextEndsAll ==
    ASSUME DInv, [Next]_vars
    PROVE  EndsAll'
<1>1. IInv /\ TypeOK /\ EndsAll
  BY DEF DInv, IInv
<1>2. ASSUME NEW w \in Workers, job'[w].op = "erasing", NEW t \in Tenants,
             member'[t][job'[w].actor].status = "ACTIVE"
      PROVE  t \in job'[w].found
  <2>1. CASE job'[w] = job[w]
    <3>1. PICK u \in Users : u = job[w].actor
      BY <1>1, <1>2, <2>1, JobParts DEF TypeOK
    <3>2. Deletes(w, u) /\ Active(t, u)'
      BY <1>2, <2>1, <3>1 DEF Deletes, Active
    <3>3. Active(t, u)
      BY <1>1, <3>2, ComesIn
    <3> QED
      BY <1>1, <1>2, <2>1, <3>1, <3>3 DEF EndsAll, Does
  <2>2. CASE job'[w] # job[w]
    <3>1. UNCHANGED member /\ \A s \in Tenants : Active(s, job'[w].actor) => s \in job'[w].found
      BY <1>1, <1>2, <2>2, NewJob
    <3> QED
      BY <1>2, <3>1 DEF Active
  <2> QED
    BY <2>1, <2>2
<1> QED
  BY <1>2 DEF EndsAll, Active, Does

\* What a deleted account was asked is no longer to be answered.
LEMMA NextNotAnswered ==
    ASSUME DInv, [Next]_vars
    PROVE  NotAnswered'
<1>1. IInv /\ TypeOK /\ NotAnswered
  BY DEF DInv, IInv
<1>2. ASSUME NEW w \in Workers, job'[w].op \in {"answer", "answering"}, job'[w].actor \in deleted'
      PROVE  invite'[job'[w].invite].status # "PENDING"
  <2>1. CASE job'[w] = job[w]
    <3>1. PICK i \in Invites, u \in Users : i = job[w].invite /\ u = job[w].actor
      BY <1>1, <1>2, <2>1, JobParts DEF TypeOK
    <3>2. Answers(w) /\ invite[i] # NoInvite /\ invite[i].user = u
      BY <1>1, <1>2, <2>1, <3>1 DEF Answers, IInv, Requests, Fits
    <3>3. CASE u \in deleted
      <4>1. invite[i].status # "PENDING" /\ invite[i].status # "NONE"
        BY <1>1, <3>1, <3>2, <3>3, InviteParts DEF NotAnswered, TypeOK
      <4>2. invite'[i] = invite[i]
        BY <1>1, <4>1, AnswerStep
      <4> QED
        BY <2>1, <3>1, <4>1, <4>2
    <3>4. CASE u \notin deleted
      <4>1. PICK x \in Workers : DeleteAccount(x)
        BY <1>1, <1>2, <2>1, <3>1, <3>4, DeletesOne
      <4>2. PICK y \in Users, found \in SUBSET Tenants : Erased(x, y, found)
        BY <1>1, <4>1, DeletionRows
      <4>3. u = y
        BY <1>2, <2>1, <3>1, <3>4, <4>2 DEF Erased
      <4> QED
        BY <2>1, <3>1, <3>2, <4>2, <4>3 DEF Erased
    <3> QED
      BY <3>3, <3>4
  <2>2. CASE job'[w] # job[w]
    <3>1. /\ UNCHANGED <<invite, deleted>>
          /\ job'[w].op = "answer" => job'[w].actor \notin deleted
          /\ job'[w].op = "answering" => /\ Answers(w) /\ job'[w].actor = job[w].actor
                                         /\ job'[w].invite = job[w].invite
      BY <1>1, <1>2, <2>2, NewJob
    <3> QED
      BY <1>1, <1>2, <3>1 DEF NotAnswered
  <2> QED
    BY <2>1, <2>2
<1> QED
  BY <1>2 DEF NotAnswered, Answers

\* A deleted account that is in a workspace stays the only one there, and one
\* that comes in, or is deleted, leaves nobody beside it.
LEMMA NextAlone ==
    ASSUME DInv, [Next]_vars, NEW u \in deleted', NEW t \in Tenants, Active(t, u)'
    PROVE  /\ Owns(t, u)'
           /\ Pending(t)' = {}
           /\ \A v \in Users \ {u} : ~Active(t, v)'
           /\ \A w \in Workers : ~(job'[w].op = "invite" /\ job'[w].tenant = t)
<1>1. IInv /\ TypeOK /\ Alone /\ NotAnswered /\ InvitesIn /\ EndsAll
  BY DEF DInv, IInv
<1>2. u \in Users /\ u \in deleted
  <2>1. deleted' \subseteq Users
    BY <1>1, NextIInv DEF IInv, TypeOK
  <2>2. ASSUME u \notin deleted
        PROVE  FALSE
    <3>1. PICK x \in Workers : DeleteAccount(x)
      BY <1>1, <2>2, DeletesOne
    <3>2. PICK y \in Users, found \in SUBSET Tenants : Erased(x, y, found)
      BY <1>1, <3>1, DeletionRows
    <3>3. u = y /\ u \in Users
      BY <2>2, <3>2 DEF Erased
    <3>4. Does(x, "erasing") /\ job[x].actor = u /\ job[x].found = found /\ Deletes(x, u)
      BY <3>2, <3>3 DEF Erased, Does, Deletes
    <3>5. Active(t, u)
      BY <1>1, <3>3, <3>4, ComesIn
    <3>6. t \in found
      BY <1>1, <3>4, <3>5 DEF EndsAll
    <3> QED
      BY <3>2, <3>3, <3>6, RowParts DEF Erased, Active
  <2> QED
    BY <2>1, <2>2
<1>3. ASSUME NEW v \in Users, NEW i \in Invites, NEW role \in {"OWNER", "MEMBER"}, NEW w \in Workers,
             Accepted(w, i, t, v, role)
      PROVE  i \in Pending(t)
  BY <1>3 DEF Accepted, Pending
<1>4. CASE Active(t, u)
  <2>1. /\ Owns(t, u) /\ Pending(t) = {}
        /\ \A v \in Users \ {u} : ~Active(t, v)
        /\ \A w \in Workers : ~IsInviting(w, t)
    BY <1>1, <1>2, <1>4 DEF Alone
  <2>2. Owns(t, u)'
    BY <1>1, <1>2, <2>1, StaysOwner
  <2>3. Pending(t)' = {}
    BY <1>1, <2>1, ComesPending
  <2>4. ASSUME NEW v \in Users \ {u}, Active(t, v)'
        PROVE  FALSE
    <3>1. \A w \in Workers : ~Created(w, t, v)
      BY <1>1, <1>2, <1>4, MemberParts DEF Created, IInv, Nowhere, Active
    <3> QED
      BY <1>1, <1>3, <2>1, <2>4, <3>1, ComesIn
  <2>5. ASSUME NEW w \in Workers, job'[w].op = "invite", job'[w].tenant = t
        PROVE  FALSE
    <3>1. job'[w] # job[w]
      BY <2>1, <2>5 DEF IsInviting, Does
    <3>2. PICK a \in Users : ResolvesOwner(t, a)
      BY <1>1, <2>5, <3>1, NewJob
    <3> QED
      BY <1>2, <2>1, <3>2 DEF ResolvesOwner, Resolves, SignedIn
  <2> QED
    BY <2>2, <2>3, <2>4, <2>5
<1>5. CASE ~Active(t, u)
  <2>1. ASSUME NEW i \in Invites, NEW role \in {"OWNER", "MEMBER"}, NEW w \in Workers,
               Accepted(w, i, t, u, role), Does(w, "answering"), job[w].actor = u
        PROVE  FALSE
    BY <1>1, <1>2, <2>1 DEF Accepted, NotAnswered, Answers
  <2>2. PICK w \in Workers : Created(w, t, u)
    BY <1>1, <1>2, <1>5, <2>1, ComesIn
  <2>3. tenant[t] = "NONE" /\ Pending(t) = {} /\ (\A v \in Users : member[t][v] = NoRow) /\ NoRow.status = "NONE"
    BY <1>1, <2>2, MemberParts DEF Created, IInv, Nowhere, TypeOK
  <2>4. Owns(t, u)' /\ \A v \in Users \ {u} : ~Active(t, v)'
    BY <2>2, <2>3 DEF Created, Owns, Active
  <2>5. Pending(t)' = {}
    BY <2>2, <2>3 DEF Created, Pending
  <2>6. ASSUME NEW x \in Workers, job'[x].op = "invite", job'[x].tenant = t
        PROVE  FALSE
    <3>1. job'[x] = job[x]
      BY <1>1, <2>2, <2>6, OthersGoOn, IdleParts DEF Created
    <3> QED
      BY <1>1, <2>3, <2>6, <3>1 DEF InvitesIn, Does
  <2> QED
    BY <2>4, <2>5, <2>6
<1> QED
  BY <1>4, <1>5

\* A deleted account is nowhere but, alone, in a workspace it owns, whatever
\* was under way when it was deleted.
THEOREM SpecDeletedIsAlone == Spec => []DeletedIsAlone
<1>1. Init => DInv
  <2> SUFFICES ASSUME Init PROVE DInv
    OBVIOUS
  <2>1. deleted = {} /\ \A w \in Workers : job[w].op = "idle"
    BY IdleParts DEF Init
  <2> QED
    BY <2>1, InitIInv DEF DInv, Alone, NotAnswered, Answers, InvitesIn, EndsAll, Does
<1>2. DInv /\ [Next]_vars => DInv'
  <2> SUFFICES ASSUME DInv, [Next]_vars PROVE DInv'
    OBVIOUS
  <2>1. Alone'
    BY NextAlone DEF Alone, IsInviting, Does
  <2> QED
    BY <2>1, NextIInv, NextInvitesIn, NextEndsAll, NextNotAnswered DEF DInv
<1>3. DInv => DeletedIsAlone
  BY DEF DInv, Alone, DeletedIsAlone
<1> QED
  BY <1>1, <1>2, <1>3, PTL DEF Spec
=============================================================================
