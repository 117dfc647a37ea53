----------------------------- MODULE Workspaces -----------------------------
(***************************************************************************)
(* Workspaces, their members and their invitations                         *)
(* (apps/tenants/services.py, limits.py, views.py), the platform's         *)
(* suspension and role change (apps/platform/services.py) and the deletion *)
(* of an account (apps/users/account.py).                                  *)
(*                                                                         *)
(* Row locks are those of the transactions.  A handler whose every read is *)
(* made under locks it then keeps until it commits is one step, taken when *)
(* its locks are free.  Creating a workspace, inviting, answering, closing *)
(* and transferring are several: they act on what the request read before  *)
(* the transaction, hold one lock while they wait for another (PostgreSQL  *)
(* ends one of the waiters when they wait for each other), or read a limit *)
(* and count against it what a root, who does not take the lock they hold, *)
(* may change meanwhile.  Deleting an account is three statements of one   *)
(* transaction, each of which sees what others have committed by then.     *)
(*                                                                         *)
(* A subscription is fixed: Paid names the workspaces that have one, and a *)
(* change of plan never removes anything.  Left out: names, messages,      *)
(* notifications and audit rows.                                           *)
(***************************************************************************)
EXTENDS Naturals, FiniteSets

CONSTANTS
    Users,
    Tenants,
    Invites,        \* invitation rows that may come to exist
    Workers,        \* concurrent requests of more than one step
    Inviting, Suspendable,   \* bounds: workspaces that invite, that are suspended
    Paid,           \* workspaces with an entitled subscription
    FreeOwned, PaidOwned,    \* max_workspaces without and with one
    FreeSeats, PaidSeats,    \* max_members_per_workspace
    None

ASSUME TenantSets == Paid \cup Inviting \cup Suspendable \subseteq Tenants
ASSUME LimitsAreNat == {FreeOwned, PaidOwned, FreeSeats, PaidSeats} \subseteq Nat
ASSUME PaidIsMore == FreeOwned <= PaidOwned
ASSUME FinitelyMany == IsFiniteSet(Users) /\ IsFiniteSet(Tenants)
ASSUME NoneIsNobody == None \notin Users \cup Tenants \cup Invites

VARIABLES
    tenant,         \* "NONE", "OPEN" or "CLOSED" (closed_at)
    suspended,      \* tenants whose is_active is off
    member,         \* the Membership row of each tenant and user
    profile,        \* status of the Resident row
    invite,         \* the Invitation rows
    deleted,        \* users with a deleted_at
    job,            \* what each request is doing
    overtaken       \* history: the requests during whose count a root changed
                    \* the account's role somewhere; no guard reads it

vars == <<tenant, suspended, member, profile, invite, deleted, job, overtaken>>

Row(role, status) == [role |-> role, status |-> status]
NoRow == Row("NONE", "NONE")
\* LEFT and REMOVED are one: every reader asks for ACTIVE.
MemberRow == {NoRow} \cup [role : {"OWNER", "MEMBER"}, status : {"ACTIVE", "ENDED"}]

\* lapsed: expires_at has passed, and the row still says PENDING.
Invitation(t, u, status, lapsed) == [tenant |-> t, user |-> u, status |-> status, lapsed |-> lapsed]
NoInvite == Invitation(None, None, "NONE", FALSE)
InviteRow ==
    {NoInvite} \cup
    [tenant : Tenants, user : Users, lapsed : BOOLEAN,
     status : {"PENDING", "ACCEPTED", "DECLINED", "CANCELLED", "EXPIRED"}]
Answered(i, status) ==
    [invite EXCEPT ![i] = Invitation(invite[i].tenant, invite[i].user, status, FALSE)]

\* actor: who asks; user: whom it is about; found: the workspaces whose
\* membership row the deletion has updated and not yet committed, or whose
\* subscription the account's limit has been read from.
Job(op, t, a, u, i, found) ==
    [op |-> op, tenant |-> t, actor |-> a, user |-> u, invite |-> i, found |-> found]
Idle == Job("idle", None, None, None, None, {})
Jobs ==
    {Idle}
    \cup {Job(op, t, a, None, None, {}) : op \in {"create", "closing"}, t \in Tenants, a \in Users}
    \cup {Job(op, t, a, u, None, {}) :
              op \in {"transfer", "transferring"}, t \in Tenants, a \in Users, u \in Users}
    \cup {Job("invite", t, None, u, None, {}) : t \in Tenants, u \in Users}
    \cup {Job(op, None, a, None, i, {}) : op \in {"answer", "answering"}, a \in Users, i \in Invites}
    \cup {Job(op, t, a, None, None, found) :
              op \in {"counting", "creating"}, t \in Tenants, a \in Users, found \in SUBSET Tenants}
    \cup {Job(op, t, a, u, None, found) :
              op \in {"offering", "handing"}, t \in Tenants, a \in Users, u \in Users,
              found \in SUBSET Tenants}
    \cup {Job("deleting", None, u, None, None, {}) : u \in Users}
    \cup {Job("erasing", None, u, None, None, found) : u \in Users, found \in SUBSET Tenants}

Init ==
    /\ tenant = [t \in Tenants |-> "NONE"]
    /\ suspended = {}
    /\ member = [t \in Tenants |-> [u \in Users |-> NoRow]]
    /\ profile = [t \in Tenants |-> [u \in Users |-> "NONE"]]
    /\ invite = [i \in Invites |-> NoInvite]
    /\ deleted = {}
    /\ job = [w \in Workers |-> Idle]
    /\ overtaken = {}

----------------------------------------------------------------------------
(* What the handlers count, and who may ask.                               *)

Active(t, u) == member[t][u].status = "ACTIVE"
Owns(t, u) == member[t][u] = Row("OWNER", "ACTIVE")
Resides(t, u) == member[t][u] = Row("MEMBER", "ACTIVE")
Pending(t) == {i \in Invites : invite[i].status = "PENDING" /\ invite[i].tenant = t}

Owned(u) == {t \in Tenants : Owns(t, u) /\ tenant[t] = "OPEN"}
Entitled(u) == {t \in Paid : Owns(t, u)}
AccountLimit(found) == IF found = {} THEN FreeOwned ELSE PaidOwned
OwnedLimit(u) == AccountLimit(Entitled(u))

Residents(t) == {u \in Users : Resides(t, u)}
Reserved(t) == {i \in Pending(t) : ~invite[i].lapsed}
Seats(t) == IF t \in Paid THEN PaidSeats ELSE FreeSeats
SeatToReserve(t) == Cardinality(Residents(t)) + Cardinality(Reserved(t)) < Seats(t)
SeatWasReserved(t) == tenant[t] = "OPEN"
SeatToTake(t) == Cardinality(Residents(t)) < Seats(t)

TakesAnyTime(t) == t \notin suspended
TakesMembers(t) == tenant[t] = "OPEN" /\ t \notin suspended

\* TenantJWTAuthentication, and the capability of the view.
SignedIn(u) == u \notin deleted
Resolves(t, u) == SignedIn(u) /\ Active(t, u) /\ t \notin suspended
ResolvesOwner(t, u) == Resolves(t, u) /\ Owns(t, u)

----------------------------------------------------------------------------
(* Row locks.  They are FOR UPDATE, so a transaction that inserts a row    *)
(* with a foreign key to a locked row (a membership, an invitation, an     *)
(* audit row's actor, a notification) waits for that lock to commit.       *)

\* close_workspace and transfer_ownership keep the tenant, and the latter the
\* target's row and then their account; respond the invitation; create_tenant
\* the account; delete_account the account and the rows it has updated.
Handover == {"transferring", "offering", "handing"}
Counts(v, u) ==
    \/ job[v].op \in {"counting", "creating"} /\ job[v].actor = u
    \/ job[v].op \in {"offering", "handing"} /\ job[v].user = u
Deletes(v, u) == job[v].op \in {"deleting", "erasing"} /\ job[v].actor = u
HoldsTenant(v, t) == job[v].op \in {"closing"} \cup Handover /\ job[v].tenant = t
HoldsMember(v, t, u) ==
    \/ job[v].op \in Handover /\ job[v].tenant = t /\ job[v].user = u
    \/ job[v].op = "erasing" /\ t \in job[v].found /\ job[v].actor = u
HoldsInvite(v, i) == job[v].op = "answering" /\ job[v].invite = i
HoldsUser(v, u) == Counts(v, u) \/ Deletes(v, u)

TenantFree(t) == \A v \in Workers : ~HoldsTenant(v, t)
MemberFree(t, u) == \A v \in Workers : ~HoldsMember(v, t, u)
InviteFree(i) == \A v \in Workers : ~HoldsInvite(v, i)
UserFree(u) == \A v \in Workers : ~HoldsUser(v, u)

\* v holds a row that w, which holds one already, must have next.
Blocks(v, w) ==
    LET j == job[w] IN
    /\ v # w
    /\ \/ /\ j.op = "closing"
          /\ \/ \E i \in Pending(j.tenant) : HoldsInvite(v, i)
             \/ HoldsMember(v, j.tenant, j.actor)
             \/ HoldsUser(v, j.actor)
       \/ j.op = "transferring" /\ HoldsUser(v, j.user)
       \/ j.op = "handing" /\ (HoldsUser(v, j.actor) \/ HoldsMember(v, j.tenant, j.actor))
       \/ /\ j.op = "answering"
          /\ HoldsTenant(v, invite[j.invite].tenant) \/ HoldsUser(v, j.actor)
       \/ j.op = "deleting" /\ \E t \in Tenants : Active(t, j.actor) /\ HoldsMember(v, t, j.actor)
       \/ /\ j.op = "erasing"
          /\ \E i \in Invites : /\ invite[i].status = "PENDING"
                                /\ invite[i].user = j.actor
                                /\ HoldsInvite(v, i)
Blocked(w) == \E v \in Workers : Blocks(v, w)

\* Every one of a group of waiters waits for another of the group.
Deadlocked(w) ==
    \E group \in SUBSET Workers :
        w \in group /\ \A v \in group : \E x \in group : Blocks(x, v)

Does(w, op) == job[w].op = op
Becomes(w, j) == job' = [job EXCEPT ![w] = j] /\ UNCHANGED overtaken
End(w) == job' = [job EXCEPT ![w] = Idle] /\ overtaken' = overtaken \ {w}

Refuse(w) ==
    /\ End(w)
    /\ UNCHANGED <<tenant, suspended, member, profile, invite, deleted>>

\* PostgreSQL ends one transaction of a deadlock; nothing of it is written.
Abort(w) == Deadlocked(w) /\ Refuse(w)

Begin(w, j) == Becomes(w, j) /\ UNCHANGED <<tenant, suspended, member, profile, invite, deleted>>

----------------------------------------------------------------------------
(* Creating, closing and transferring a workspace.                         *)

\* A request that can only be refused, here and below, is not begun.
BeginCreate(w, u, t) ==
    /\ SignedIn(u) /\ tenant[t] = "NONE"
    /\ Begin(w, Job("create", t, u, None, None, {}))

\* The owner's User row is locked, and kept, before the limit of the account is
\* read from the plans of the workspaces it owns.
CreateLocks(w) ==
    LET u == job[w].actor IN
    /\ Does(w, "create") /\ UserFree(u)
    /\ Becomes(w, Job("counting", job[w].tenant, u, None, None, Entitled(u)))
    /\ UNCHANGED <<tenant, suspended, member, profile, invite, deleted>>

\* The workspaces are counted by a query of their own.
HasRoom(u, found) == Cardinality(Owned(u)) < AccountLimit(found)

CreateCounts(w) ==
    LET u == job[w].actor IN
    /\ Does(w, "counting") /\ HasRoom(u, job[w].found)
    /\ Becomes(w, Job("creating", job[w].tenant, u, None, None, job[w].found))
    /\ UNCHANGED <<tenant, suspended, member, profile, invite, deleted>>

CreateTenant(w) ==
    LET u == job[w].actor
        t == job[w].tenant
    IN  /\ Does(w, "creating") /\ tenant[t] = "NONE"
        /\ tenant' = [tenant EXCEPT ![t] = "OPEN"]
        /\ member' = [member EXCEPT ![t][u] = Row("OWNER", "ACTIVE")]
        /\ End(w)
        /\ UNCHANGED <<suspended, profile, invite, deleted>>

\* The limit is reached; or the unique slug refuses a second workspace of the
\* same name.
CreateRefused(w) ==
    /\ \/ Does(w, "counting") /\ ~HasRoom(job[w].actor, job[w].found)
       \/ Does(w, "creating") /\ tenant[job[w].tenant] # "NONE"
    /\ Refuse(w)

\* An owner; and the only active member, read under the tenant's lock.
CloseLocks(w, a, t) ==
    /\ ResolvesOwner(t, a) /\ TenantFree(t)
    /\ \A u \in Users \ {a} : ~Active(t, u)
    /\ Begin(w, Job("closing", t, a, None, None, {}))

CloseWorkspace(w) ==
    LET t == job[w].tenant
        a == job[w].actor
    IN  /\ Does(w, "closing") /\ ~Blocked(w)
        /\ invite' = [i \in Invites |-> IF i \in Pending(t)
                                        THEN Invitation(t, invite[i].user, "CANCELLED", FALSE)
                                        ELSE invite[i]]
        /\ member' = [member EXCEPT ![t][a] = Row(member[t][a].role, "ENDED")]
        /\ tenant' = [tenant EXCEPT ![t] = "CLOSED"]
        /\ End(w)
        /\ UNCHANGED <<suspended, profile, deleted>>

\* The target is any membership row of the workspace.
BeginTransfer(w, a, t, u) ==
    /\ ResolvesOwner(t, a) /\ member[t][u] # NoRow /\ u # a
    /\ Begin(w, Job("transfer", t, a, u, None, {}))

TransferLocks(w) ==
    LET t == job[w].tenant
        a == job[w].actor
        u == job[w].user
    IN  /\ Does(w, "transfer") /\ TenantFree(t) /\ MemberFree(t, u)
        /\ IF Resides(t, u)
           THEN Becomes(w, Job("transferring", t, a, u, None, {})) ELSE End(w)
        /\ UNCHANGED <<tenant, suspended, member, profile, invite, deleted>>

\* The target's User row, and the limit of their account; then the count.
TransferLimit(w) ==
    LET j == job[w] IN
    /\ Does(w, "transferring") /\ ~Blocked(w)
    /\ Becomes(w, Job("offering", j.tenant, j.actor, j.user, None, Entitled(j.user)))
    /\ UNCHANGED <<tenant, suspended, member, profile, invite, deleted>>

TransferCounts(w) ==
    LET j == job[w] IN
    /\ Does(w, "offering") /\ HasRoom(j.user, j.found)
    /\ Becomes(w, Job("handing", j.tenant, j.actor, j.user, None, j.found))
    /\ UNCHANGED <<tenant, suspended, member, profile, invite, deleted>>

\* The actor's row must still be active; its role is not looked at again.
TransferOwnership(w) ==
    LET t == job[w].tenant
        a == job[w].actor
        u == job[w].user
    IN  /\ Does(w, "handing") /\ ~Blocked(w)
        /\ Active(t, a)
        /\ member' = [member EXCEPT ![t][u] = Row("OWNER", "ACTIVE"),
                                    ![t][a] = Row("MEMBER", "ACTIVE")]
        /\ End(w)
        /\ UNCHANGED <<tenant, suspended, profile, invite, deleted>>

TransferRefused(w) ==
    LET j == job[w] IN
    /\ \/ Does(w, "offering") /\ ~HasRoom(j.user, j.found)
       \/ Does(w, "handing") /\ ~Blocked(w) /\ ~Active(j.tenant, j.actor)
    /\ Refuse(w)

----------------------------------------------------------------------------
(* Leaving, removal and the platform's role change.                        *)

KeptProfile(p) == p
EndedProfile(p) == IF p = "NONE" THEN p ELSE "INACTIVE"

EndMembership(t, u) ==
    /\ member' = [member EXCEPT ![t][u] = Row(member[t][u].role, "ENDED")]
    /\ profile' = [profile EXCEPT ![t][u] = EndedProfile(@)]

OtherOwnerEver(t, u) == \E v \in Users \ {u} : member[t][v].role = "OWNER"
OtherOwner(t, u) == \E v \in Users \ {u} : Owns(t, v)

Leave(t, u) ==
    /\ Resolves(t, u) /\ TenantFree(t) /\ MemberFree(t, u) /\ UserFree(u)
    /\ Owns(t, u) => OtherOwner(t, u)
    /\ EndMembership(t, u)
    /\ UNCHANGED <<tenant, suspended, invite, deleted, job, overtaken>>

\* remove does not lock the tenant; its notification refers to it.
Remove(t, a, u) ==
    /\ ResolvesOwner(t, a) /\ MemberFree(t, u) /\ TenantFree(t) /\ UserFree(u)
    /\ Resides(t, u)
    /\ EndMembership(t, u)
    /\ UNCHANGED <<tenant, suspended, invite, deleted, job, overtaken>>

\* A root may do this to any active membership, whatever the plan; the account
\* is not locked, so its workspaces may be being counted.
SetRole(t, u, role) ==
    /\ Active(t, u) /\ member[t][u].role # role
    /\ TenantFree(t) /\ MemberFree(t, u)
    /\ role = "MEMBER" => OtherOwner(t, u)
    /\ member' = [member EXCEPT ![t][u] = Row(role, "ACTIVE")]
    /\ overtaken' = overtaken \cup {w \in Workers : Counts(w, u)}
    /\ UNCHANGED <<tenant, suspended, profile, invite, deleted, job>>

\* Nobody notices that a closed workspace is suspended, so those are left out.
SetActive(t) ==
    /\ t \in Suspendable /\ tenant[t] = "OPEN" /\ TenantFree(t)
    /\ suspended' = IF t \in suspended THEN suspended \ {t} ELSE suspended \cup {t}
    /\ UNCHANGED <<tenant, member, profile, invite, deleted, job, overtaken>>

----------------------------------------------------------------------------
(* Invitations.                                                            *)

\* Fourteen days pass.
Lapses(i) ==
    /\ invite[i].status = "PENDING" /\ ~invite[i].lapsed
    /\ invite' = [invite EXCEPT ![i] = Invitation(invite[i].tenant, invite[i].user, "PENDING", TRUE)]
    /\ UNCHANGED <<tenant, suspended, member, profile, deleted, job, overtaken>>

\* A list of invitations marks the lapsed ones it is about to show; so does a
\* late answer, in a statement of its own that its refusal does not undo.
ExpireStale(i) ==
    /\ invite[i].status = "PENDING" /\ invite[i].lapsed /\ InviteFree(i)
    /\ invite' = Answered(i, "EXPIRED")
    /\ UNCHANGED <<tenant, suspended, member, profile, deleted, job, overtaken>>

\* The account is looked up, and found active, before anything is locked.
BeginInvite(w, a, t, u) ==
    /\ t \in Inviting
    /\ ResolvesOwner(t, a) /\ SignedIn(u) /\ ~Active(t, u)
    /\ Begin(w, Job("invite", t, None, u, None, {}))

Lapsed(t) == {i \in Pending(t) : invite[i].lapsed}
Invited(t, u) == \E i \in Reserved(t) : invite[i].user = u

CreateInvitation(w, i) ==
    LET t == job[w].tenant
        u == job[w].user
    IN  /\ Does(w, "invite") /\ TenantFree(t) /\ UserFree(u)
        /\ \A k \in Lapsed(t) : InviteFree(k)
        /\ TakesMembers(t) /\ ~Active(t, u) /\ ~Invited(t, u) /\ SeatToReserve(t)
        /\ invite[i] = NoInvite
        /\ invite' = [k \in Invites |->
                        IF k = i THEN Invitation(t, u, "PENDING", FALSE)
                        ELSE IF k \in Lapsed(t)
                             THEN Invitation(t, invite[k].user, "EXPIRED", FALSE)
                             ELSE invite[k]]
        /\ End(w)
        /\ UNCHANGED <<tenant, suspended, member, profile, deleted>>

InviteRefused(w) ==
    LET t == job[w].tenant
        u == job[w].user
    IN  /\ Does(w, "invite") /\ TenantFree(t)
        /\ \A k \in Lapsed(t) : InviteFree(k)
        /\ \/ ~TakesMembers(t) \/ Active(t, u) \/ Invited(t, u) \/ ~SeatToReserve(t)
           \/ \A i \in Invites : invite[i] # NoInvite
        /\ Refuse(w)

CancelInvitation(a, i) ==
    /\ invite[i].status = "PENDING"
    /\ ResolvesOwner(invite[i].tenant, a) /\ InviteFree(i)
    /\ TenantFree(invite[i].tenant) /\ UserFree(invite[i].user)
    /\ invite' = Answered(i, "CANCELLED")
    /\ UNCHANGED <<tenant, suspended, member, profile, deleted, job, overtaken>>

\* The answer is in time by a clock that is not read again.
BeginAnswer(w, i) ==
    /\ invite[i].status = "PENDING" /\ ~invite[i].lapsed
    /\ SignedIn(invite[i].user)
    /\ Begin(w, Job("answer", None, invite[i].user, None, i, {}))

Unanswered(i) == invite[i].status \notin {"ACCEPTED", "DECLINED"}
StillPending(i) == invite[i].status = "PENDING"

AnswerLocks(w) ==
    LET i == job[w].invite IN
    /\ Does(w, "answer") /\ InviteFree(i)
    /\ IF StillPending(i)
       THEN Becomes(w, Job("answering", None, job[w].actor, None, i, {})) ELSE End(w)
    /\ UNCHANGED <<tenant, suspended, member, profile, invite, deleted>>

Decline(w) ==
    /\ Does(w, "answering") /\ ~Blocked(w)
    /\ invite' = Answered(job[w].invite, "DECLINED")
    /\ End(w)
    /\ UNCHANGED <<tenant, suspended, member, profile, deleted>>

\* A returning member gets the old row back, and an owner who left the old role.
RoleKept(row) == row.role
RoleOnReturn(row) == IF row.role = "OWNER" THEN "OWNER" ELSE "MEMBER"

Accept(w) ==
    LET i == job[w].invite
        t == invite[i].tenant
        u == job[w].actor
    IN  /\ Does(w, "answering") /\ ~Blocked(w)
        /\ TakesMembers(t) /\ SeatToTake(t)
        /\ member' = [member EXCEPT ![t][u] =
                        Row(RoleOnReturn(@), "ACTIVE")]
        /\ profile' = [profile EXCEPT ![t][u] = "ACTIVE"]
        /\ invite' = Answered(i, "ACCEPTED")
        /\ End(w)
        /\ UNCHANGED <<tenant, suspended, deleted>>

AcceptRefused(w) ==
    LET t == invite[job[w].invite].tenant IN
    /\ Does(w, "answering") /\ ~Blocked(w)
    /\ ~TakesMembers(t) \/ ~SeatToTake(t)
    /\ Refuse(w)

----------------------------------------------------------------------------
(* Deleting an account.  (Whether it is the last root is in Accounts.)      *)

\* The user's row, where a second deletion finds the first; then the check
\* that they own no workspace.
DeleteLocks(w, u) ==
    /\ SignedIn(u) /\ UserFree(u)
    /\ \A t \in Tenants : ~Owns(t, u)
    /\ Begin(w, Job("deleting", None, u, None, None, {}))

\* The update of the memberships that are active by now.
DeleteMembers(w) ==
    LET u == job[w].actor IN
    /\ Does(w, "deleting") /\ ~Blocked(w)
    /\ Becomes(w, Job("erasing", None, u, None, None, {t \in Tenants : Active(t, u)}))
    /\ UNCHANGED <<tenant, suspended, member, profile, invite, deleted>>

DeleteAccount(w) ==
    LET u == job[w].actor IN
    /\ Does(w, "erasing") /\ ~Blocked(w)
    /\ member' = [t \in Tenants |-> IF t \in job[w].found
                                    THEN [member[t] EXCEPT ![u] = Row(@.role, "ENDED")]
                                    ELSE member[t]]
    /\ profile' = [t \in Tenants |-> [profile[t] EXCEPT ![u] = EndedProfile(@)]]
    /\ invite' = [i \in Invites |-> IF invite[i].user = u /\ invite[i].status = "PENDING"
                                    THEN Invitation(invite[i].tenant, u, "CANCELLED", FALSE)
                                    ELSE invite[i]]
    /\ deleted' = deleted \cup {u}
    /\ End(w)
    /\ UNCHANGED <<tenant, suspended>>

----------------------------------------------------------------------------

Work(w) ==
    \/ CreateLocks(w) \/ CreateCounts(w) \/ CreateTenant(w) \/ CreateRefused(w)
    \/ CloseWorkspace(w)
    \/ TransferLocks(w) \/ TransferLimit(w) \/ TransferCounts(w)
    \/ TransferOwnership(w) \/ TransferRefused(w)
    \/ \E i \in Invites : CreateInvitation(w, i)
    \/ InviteRefused(w)
    \/ AnswerLocks(w) \/ Decline(w) \/ Accept(w) \/ AcceptRefused(w)
    \/ DeleteMembers(w) \/ DeleteAccount(w)
    \/ Abort(w)

Ask(w) ==
    /\ job[w] = Idle
    /\ \/ \E a \in Users, t \in Tenants :
             \/ BeginCreate(w, a, t) \/ CloseLocks(w, a, t)
             \/ \E u \in Users : BeginTransfer(w, a, t, u) \/ BeginInvite(w, a, t, u)
       \/ \E i \in Invites : BeginAnswer(w, i)
       \/ \E u \in Users : DeleteLocks(w, u)

AtOnce ==
    \/ \E t \in Tenants, u \in Users :
          \/ Leave(t, u)
          \/ \E a \in Users : Remove(t, a, u)
          \/ \E role \in {"OWNER", "MEMBER"} : SetRole(t, u, role)
    \/ \E t \in Tenants : SetActive(t)
    \/ \E i \in Invites :
          \/ Lapses(i) \/ ExpireStale(i)
          \/ \E a \in Users : CancelInvitation(a, i)

Next == AtOnce \/ \E w \in Workers : Ask(w) \/ Work(w)

Spec == Init /\ [][Next]_vars

----------------------------------------------------------------------------

\* Every variable has its type, and a row exists only in a workspace that does.
TypeOK ==
    /\ tenant \in [Tenants -> {"NONE", "OPEN", "CLOSED"}]
    /\ suspended \subseteq Tenants
    /\ member \in [Tenants -> [Users -> MemberRow]]
    /\ profile \in [Tenants -> [Users -> {"NONE", "ACTIVE", "INACTIVE"}]]
    /\ invite \in [Invites -> InviteRow]
    /\ deleted \subseteq Users
    /\ job \in [Workers -> Jobs]
    /\ overtaken \subseteq Workers

\* However requests overlap, a workspace that is not being closed loses its
\* last active owner only to an account deletion whose owner check was made
\* before its user became the owner: leave, remove, transfer_ownership and
\* set_role never do it (LastOwnerCannotLeave, LastWorkspaceOwnerProtected).
OwnerKept ==
    [][\A t \in Tenants :
          /\ \E u \in Users : Owns(t, u)
          /\ tenant'[t] = "OPEN"
          => \/ \E u \in Users : Owns(t, u)'
             \/ \E w \in Workers : Does(w, "erasing") /\ t \in job[w].found /\ job'[w] = Idle]_vars

\* A closed workspace has no active member and no pending invitation, and
\* never gets one again, although close_workspace, invitations, answers and
\* removals hold different locks.
ClosedIsEmpty ==
    \A t \in Tenants :
        tenant[t] = "CLOSED" => Pending(t) = {} /\ \A u \in Users : ~Active(t, u)

\* A person is in a workspace or out of it, whichever table is asked: nobody
\* has two pending invitations, or one beside an active membership, and an
\* active resident profile in an open workspace is an active member's.
InOrOut ==
    \A t \in Tenants :
        /\ \A i \in Pending(t) :
              /\ ~Active(t, invite[i].user)
              /\ \A k \in Pending(t) \ {i} : invite[k].user # invite[i].user
        /\ tenant[t] = "OPEN" =>
              \A u \in Users : profile[t][u] = "ACTIVE" => Active(t, u)

\* The tables agree about who is in, whichever requests and locks interleave.
RosterAgrees == ClosedIsEmpty /\ InOrOut

\* A workspace gains residents, and an account workspaces, only within the
\* plan's limits, however many requests read limits and count at the same time.
\* The code makes three exceptions: an owner a root appoints, an owner who comes
\* back, and a workspace created for or handed to an account between whose
\* limit's reading and whose commit a root changed its role somewhere.
LimitsKept ==
    [][/\ \A t \in Tenants :
            Cardinality(Residents(t)') > Cardinality(Residents(t))
            => \/ Cardinality(Residents(t)') <= Seats(t)
               \/ \E u \in Users : Owns(t, u) /\ Resides(t, u)'
       /\ \A u \in Users :
            Cardinality(Owned(u)') > Cardinality(Owned(u))
            => \/ Cardinality(Owned(u)') <= OwnedLimit(u)
               \/ \E t \in Tenants : SetRole(t, u, "OWNER")
               \/ \E t \in Tenants : member[t][u].role = "OWNER" /\ ~Active(t, u) /\ Owns(t, u)'
               \/ \E w \in overtaken : Counts(w, u) /\ job'[w] = Idle]_vars

Joined(i) ==
    /\ Active(invite[i].tenant, invite[i].user)
    /\ profile[invite[i].tenant][invite[i].user] = "ACTIVE"

\* An invitation is answered once: cancelling, declining, accepting, expiry,
\* closing the workspace and deleting the account never overrule each other,
\* and who was let in by it is an active member from that moment.
AnsweredOnce ==
    [][\A i \in Invites :
          /\ invite[i].status \notin {"NONE", "PENDING"} => invite'[i] = invite[i]
          /\ invite'[i].status = "ACCEPTED" /\ invite'[i] # invite[i] => Joined(i)']_vars

\* "the user still actively OWNS a workspace — deleting would orphan it": a
\* deleted account owns none.  create_tenant locks the user's row and does not
\* look at it, so a request that waited there for the deletion creates one.
DeletedOwnsNothing == \A u \in deleted, t \in Tenants : ~Owns(t, u)

\* That is all a deleted account can still be in: a workspace it owns, where
\* nobody else is or comes in and nobody is invited, whatever invitations,
\* answers and transfers were under way when it was deleted.
DeletedIsAlone ==
    \A u \in deleted, t \in Tenants :
        Active(t, u) => /\ Owns(t, u)
                        /\ Pending(t) = {}
                        /\ \A v \in Users \ {u} : ~Active(t, v)
=============================================================================
