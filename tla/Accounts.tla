------------------------------ MODULE Accounts ------------------------------
(***************************************************************************)
(* Accounts, their verification mails and sign-in (apps/users/services.py, *)
(* auth.py), the roster of platform operators (UserRoleService in          *)
(* apps/platform/services.py, the bootstrap command) and the deletion of   *)
(* an account seen from its User row (apps/users/account.py); what the     *)
(* deletion does to memberships is in Workspaces.                          *)
(*                                                                         *)
(* Nothing here runs in one transaction per request: registering, asking   *)
(* for a new mail and signing in are several statements with other         *)
(* requests, or the death of the worker, between them.  A role change      *)
(* locks every root's row in order and decides under those locks: one      *)
(* step.  A deletion locks its own row first and the roots' rows next, so  *)
(* two roots deleting themselves wait for each other.                      *)
(*                                                                         *)
(* Staff who are not superusers are as any user here.  Left out: names,    *)
(* passwords, mail delivery (its failure changes no row), and the single   *)
(* refresh tokens: an account has one that is not blacklisted, or not.     *)
(***************************************************************************)
EXTENDS Naturals, FiniteSets

CONSTANTS
    Users,      \* accounts that may come to exist
    Tokens,     \* verification tokens that may be issued
    Workers,    \* concurrent requests
    Operators,  \* accounts the bootstrap command may be deployed with
    None

ASSUME OperatorsAreUsers == Operators \subseteq Users
ASSUME NoneIsNobody == None \notin Users \cup Tokens

VARIABLES
    account,    \* the User rows
    token,      \* the EmailVerificationToken rows
    signedIn,   \* users with a refresh token that is not blacklisted
    job         \* what each request is doing

vars == <<account, token, signedIn, job>>

\* state: "erased" once deleted_at is set; root: is_staff and is_superuser.
Account(state, root, active, verified) ==
    [state |-> state, root |-> root, active |-> active, verified |-> verified]
NoAccount == Account("none", FALSE, FALSE, FALSE)
AccountRow ==
    {NoAccount} \cup [state : {"live", "erased"}, root : BOOLEAN, active : BOOLEAN, verified : BOOLEAN]

Token(u, state) == [user |-> u, state |-> state]
NoToken == Token(None, "none")
TokenRow == {NoToken} \cup [user : Users, state : {"fresh", "lapsed", "used"}]

\* change: the roles a root asked for; or the flags the deployment is to raise.
Change(root, active, verified) == [root |-> root, active |-> active, verified |-> verified]
NoChange == Change(FALSE, FALSE, FALSE)
Changes == [root : BOOLEAN, active : BOOLEAN, verified : BOOLEAN]
Job(op, u, k, change) == [op |-> op, user |-> u, token |-> k, change |-> change]
Idle == Job("idle", None, None, NoChange)
Jobs ==
    {Idle} \cup
    [op : {"issue", "resend", "verify", "google", "mint", "promote", "roles", "deleting", "erasing"},
     user : Users, token : Tokens \cup {None}, change : Changes]

Init ==
    /\ account = [u \in Users |-> NoAccount]
    /\ token = [k \in Tokens |-> NoToken]
    /\ signedIn = {}
    /\ job = [w \in Workers |-> Idle]

\* is_platform_root and ROOT_Q.
IsRoot(a) == a.root /\ a.active
Roots == {u \in Users : IsRoot(account[u])}

\* A deletion holds its user's row, and the roots' once it has checked them.
Holds(v, u) ==
    \/ job[v].op \in {"deleting", "erasing"} /\ job[v].user = u
    \/ job[v].op = "erasing" /\ IsRoot(account[job[v].user]) /\ u \in Roots
RowFree(u) == \A v \in Workers : ~Holds(v, u)

Does(w, op) == job[w].op = op
Becomes(w, j) == job' = [job EXCEPT ![w] = j]
End(w) == Becomes(w, Idle)
Begin(w, j) == job[w] = Idle /\ Becomes(w, j) /\ UNCHANGED <<account, token, signedIn>>
Saved(u, a) == [account EXCEPT ![u] = a]
Verified(a) == Account(a.state, a.root, a.active, TRUE)

\* The worker dies; each statement it has committed stays.
Dies(w) == job[w] # Idle /\ End(w) /\ UNCHANGED <<account, token, signedIn>>

----------------------------------------------------------------------------
(* Registration and verification.                                          *)

\* The unique email refuses a second account; the token is a later insert.
Register(w, u) ==
    /\ job[w] = Idle /\ account[u] = NoAccount
    /\ account' = Saved(u, Account("live", FALSE, TRUE, FALSE))
    /\ Becomes(w, Job("issue", u, None, NoChange))
    /\ UNCHANGED <<token, signedIn>>

IssueToken(w, k) ==
    /\ Does(w, "issue") /\ RowFree(job[w].user)
    /\ token[k] = NoToken
    /\ token' = [token EXCEPT ![k] = Token(job[w].user, "fresh")]
    /\ End(w)
    /\ UNCHANGED <<account, signedIn>>

BeginResend(w, u) ==
    /\ account[u].state = "live" /\ ~account[u].verified
    /\ Begin(w, Job("resend", u, None, NoChange))

RetiredOfAll(u, row) == Token(row.user, "used")
Retired(u, row) == IF row.user = u THEN Token(u, "used") ELSE row

\* Every unused token of the user is marked used, before the new one exists.
InvalidateTokens(w) ==
    LET u == job[w].user IN
    /\ Does(w, "resend")
    /\ token' = [k \in Tokens |-> Retired(u, token[k])]
    /\ Becomes(w, Job("issue", u, None, NoChange))
    /\ UNCHANGED <<account, signedIn>>

\* Twenty-four hours pass.
TokenLapses(k) ==
    /\ token[k].state = "fresh"
    /\ token' = [token EXCEPT ![k] = Token(token[k].user, "lapsed")]
    /\ UNCHANGED <<account, signedIn, job>>

\* The token is found and its expiry checked without a lock ...
BeginVerify(w, k) ==
    /\ token[k].state \in {"fresh", "used"}
    /\ Begin(w, Job("verify", token[k].user, k, NoChange))

\* ... and the conditional update decides whether it is still unused.
Verify(w) ==
    LET k == job[w].token
        u == job[w].user
    IN  /\ Does(w, "verify") /\ RowFree(u)
        /\ token[k].state \in {"fresh", "lapsed"}
        /\ token' = [token EXCEPT ![k] = Token(u, "used")]
        /\ account' = Saved(u, Verified(account[u]))
        /\ End(w)
        /\ UNCHANGED signedIn

VerifyRefused(w) ==
    /\ Does(w, "verify") /\ token[job[w].token].state = "used"
    /\ End(w)
    /\ UNCHANGED <<account, token, signedIn>>

----------------------------------------------------------------------------
(* Sign-in.                                                                *)

\* A password login authenticates an active account and then asks whether it
\* is verified, before any token is minted.
MaySignInUnverified(a) == a.state = "live" /\ a.active
MaySignIn(a) == a.state = "live" /\ a.active /\ a.verified

BeginLogin(w, u) ==
    /\ MaySignIn(account[u])
    /\ Begin(w, Job("mint", u, None, NoChange))

\* Google vouches for the address: a new account is born verified, a known one
\* is fetched, marked and saved; nobody asks whether it is active.
BeginGoogle(w, u) ==
    \/ /\ job[w] = Idle /\ account[u] = NoAccount
       /\ account' = Saved(u, Account("live", FALSE, TRUE, TRUE))
       /\ Becomes(w, Job("mint", u, None, NoChange))
       /\ UNCHANGED <<token, signedIn>>
    \/ /\ account[u].state = "live"
       /\ Begin(w, Job(IF account[u].verified THEN "mint" ELSE "google", u, None, NoChange))

LinkGoogle(w) ==
    LET u == job[w].user IN
    /\ Does(w, "google") /\ RowFree(u)
    /\ account' = Saved(u, Verified(account[u]))
    /\ Becomes(w, Job("mint", u, None, NoChange))
    /\ UNCHANGED <<token, signedIn>>

\* The outstanding token refers to the user's row and waits for its lock.
Mint(w) ==
    /\ Does(w, "mint") /\ RowFree(job[w].user)
    /\ signedIn' = signedIn \cup {job[w].user}
    /\ End(w)
    /\ UNCHANGED <<account, token>>

LogOut(u) ==
    /\ u \in signedIn /\ account[u].active
    /\ signedIn' = signedIn \ {u}
    /\ UNCHANGED <<account, token, job>>

----------------------------------------------------------------------------
(* Operators.                                                              *)

\* Run at each deployment: creates the operator ...
CreateOperator(u) ==
    /\ u \in Operators /\ account[u] = NoAccount
    /\ account' = Saved(u, Account("live", TRUE, TRUE, TRUE))
    /\ UNCHANGED <<token, signedIn, job>>

\* ... or notes which flags the account lacks, and saves those, without a lock.
Missing(a) == Change(~a.root, ~a.active, ~a.verified)
Raised(a, c) ==
    Account(a.state, a.root \/ c.root, a.active \/ c.active, a.verified \/ c.verified)

BeginPromote(w, u) ==
    /\ u \in Operators /\ account[u].state = "live" /\ Missing(account[u]) # NoChange
    /\ Begin(w, Job("promote", u, None, Missing(account[u])))

Promote(w) ==
    LET u == job[w].user IN
    /\ Does(w, "promote") /\ RowFree(u)
    /\ account' = Saved(u, Raised(account[u], job[w].change))
    /\ End(w)
    /\ UNCHANGED <<token, signedIn>>

\* Some root asks; they need not be one any more when the change is made.
BeginRoles(w, u, change) ==
    /\ Roots # {} /\ account[u] # NoAccount
    /\ Begin(w, Job("roles", u, None, change))

Changed(a, c) == Account(a.state, c.root, c.active, a.verified)
OtherOperators(u) == {v \in Users \ {u} : account[v].root}
OtherRoots(u) == Roots \ {u}
Protects(u, a) == OtherRoots(u) # {} \/ IsRoot(a)

UpdateRoles(w) ==
    LET u == job[w].user
        a == Changed(account[u], job[w].change)
    IN  /\ Does(w, "roles") /\ \A v \in Roots \cup {u} : RowFree(v)
        /\ Protects(u, a)
        /\ account' = Saved(u, a)
        /\ End(w)
        /\ UNCHANGED <<token, signedIn>>

RolesRefused(w) ==
    /\ Does(w, "roles") /\ \A v \in Roots \cup {job[w].user} : RowFree(v)
    /\ ~Protects(job[w].user, Changed(account[job[w].user], job[w].change))
    /\ End(w)
    /\ UNCHANGED <<account, token, signedIn>>

----------------------------------------------------------------------------
(* Deleting an account.                                                    *)

DeleteLocks(w, u) ==
    /\ account[u].state = "live" /\ account[u].active /\ RowFree(u)
    /\ Begin(w, Job("deleting", u, None, NoChange))

\* A root waits here for every other root's row, and must not be the only one.
Waits(w) == Does(w, "deleting") /\ IsRoot(account[job[w].user])
Blocks(v, w) == v # w /\ Waits(w) /\ \E u \in Roots : Holds(v, u)

DeleteChecks(w) ==
    LET u == job[w].user IN
    /\ Does(w, "deleting") /\ \A v \in Workers : ~Blocks(v, w)
    /\ IF IsRoot(account[u]) /\ OtherRoots(u) = {}
       THEN End(w) ELSE Becomes(w, Job("erasing", u, None, NoChange))
    /\ UNCHANGED <<account, token, signedIn>>

DeleteAccount(w) ==
    LET u == job[w].user IN
    /\ Does(w, "erasing")
    /\ account' = Saved(u, Account("erased", FALSE, FALSE, FALSE))
    /\ signedIn' = signedIn \ {u}
    /\ End(w)
    /\ UNCHANGED token

\* Two roots delete themselves: PostgreSQL ends one of the two.
Abort(w) ==
    /\ \E v \in Workers : Blocks(v, w) /\ Blocks(w, v)
    /\ End(w)
    /\ UNCHANGED <<account, token, signedIn>>

----------------------------------------------------------------------------

Work(w) ==
    \/ \E k \in Tokens : IssueToken(w, k)
    \/ InvalidateTokens(w) \/ Verify(w) \/ VerifyRefused(w)
    \/ LinkGoogle(w) \/ Mint(w)
    \/ Promote(w) \/ UpdateRoles(w) \/ RolesRefused(w)
    \/ DeleteChecks(w) \/ DeleteAccount(w) \/ Abort(w)
    \/ Dies(w)

Ask(w) ==
    \/ \E u \in Users :
          \/ Register(w, u) \/ BeginResend(w, u) \/ BeginLogin(w, u) \/ BeginGoogle(w, u)
          \/ DeleteLocks(w, u) \/ BeginPromote(w, u)
          \/ \E r, a \in BOOLEAN : BeginRoles(w, u, Change(r, a, FALSE))
    \/ \E k \in Tokens : BeginVerify(w, k)

Next ==
    \/ \E w \in Workers : Ask(w) \/ Work(w)
    \/ \E u \in Users : LogOut(u) \/ CreateOperator(u)
    \/ \E k \in Tokens : TokenLapses(k)

Spec == Init /\ [][Next]_vars

----------------------------------------------------------------------------

\* Every variable has its type.
TypeOK ==
    /\ account \in [Users -> AccountRow]
    /\ token \in [Tokens -> TokenRow]
    /\ signedIn \subseteq Users
    /\ job \in [Workers -> Jobs]

\* Once the platform has an active root it always has one: roots demoting,
\* disabling or deleting each other and themselves at the same time, with
\* requests made by operators who no longer are, never take the last one.
RootRemains == [][Roots # {} => Roots' # {}]_vars

\* Nobody holds a usable sign-in to an account whose address was never
\* verified: by mail, by Google or by the deployment.  (An erased account's
\* flag is cleared; a sign-in that was under way survives the erasure.)
SignInGate ==
    \A u \in signedIn : account[u].verified \/ account[u].state = "erased"

\* Two roots that delete themselves wait for each other's row: however many
\* deletions wait in a circle, two of them are a pair that Abort breaks.
DeadlocksBroken ==
    \A group \in SUBSET Workers :
        (group # {} /\ \A w \in group : \E v \in group : Blocks(v, w))
            => \E v, w \in group : Blocks(v, w) /\ Blocks(w, v)

Spends(k) == token[k].state \in {"fresh", "lapsed"} /\ token'[k].state = "used"

\* An address is verified by spending a token that was issued for it, by Google,
\* at creation or by the deployment, whatever resends and deletions run at the
\* same time; a token is spent once and is never another user's.
VerifiedByToken ==
    [][/\ \A k \in Tokens : token[k] # NoToken =>
              /\ token'[k].user = token[k].user
              /\ token[k].state = "used" => token'[k] = token[k]
       /\ \A u \in Users : account'[u].verified /\ ~account[u].verified =>
              \/ \E k \in Tokens : token[k].user = u /\ Spends(k)
              \/ \E w \in Workers : Does(w, "google") /\ job[w].user = u /\ job'[w].op = "mint"
              \/ account[u] = NoAccount
              \/ u \in Operators
       /\ \A u \in Users :
              /\ account[u].verified => account'[u].verified \/ account'[u].state = "erased"
              /\ account[u].state = "erased" => account'[u].state = "erased"]_vars

Fresh(u) == {k \in Tokens : token[k].user = u /\ token[k].state # "used"}

\* "rapid repeat requests must leave only the newest token valid, not
\* accumulate additional valid ones": two requests at once leave two.
OnlyNewest == \A u \in Users : Cardinality(Fresh(u)) <= 1
=============================================================================
