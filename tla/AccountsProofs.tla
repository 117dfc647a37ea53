--------------------------- MODULE AccountsProofs ---------------------------
(***************************************************************************)
(* The types of Accounts, SignInGate, RootRemains, DeadlocksBroken and     *)
(* VerifiedByToken, for any accounts, tokens, requests and operators.      *)
(*                                                                         *)
(* A sign-in is checked in one statement and minted in another, and a      *)
(* deletion checks the roots in one statement and erases in another.  The  *)
(* induction carries what was checked over the gap: an account that was    *)
(* good stays good, and a root about to be erased holds the row of another *)
(* root, which therefore stays, and is the only one being erased.          *)
(***************************************************************************)
EXTENDS Accounts, TLAPS

Good(a) == a.verified \/ a.state = "erased"

\* The account a request signs in to is one that may be.
Minting == \A w \in Workers : Does(w, "mint") => Good(account[job[w].user])

Erases(w) == Does(w, "erasing") /\ IsRoot(account[job[w].user])

\* A root that is about to be erased is not the last ...
Leaves == \A w \in Workers : Erases(w) => OtherRoots(job[w].user) # {}

\* ... and no other root is about to be.
OneErases == \A v, w \in Workers : Erases(v) /\ Erases(w) => v = w

RootInv == Leaves /\ OneErases

\* Requests and tokens are of accounts that exist.
Known ==
    /\ \A w \in Workers : job[w] = Idle \/ account[job[w].user] # NoAccount
    /\ \A k \in Tokens : token[k] = NoToken \/ account[token[k].user] # NoAccount

IInv == TypeOK /\ SignInGate /\ Minting /\ Known /\ RootInv

----------------------------------------------------------------------------
(* Rows by their parts.                                                    *)

\* An account row is written from its parts.
LEMMA MadeAccount ==
    ASSUME NEW state \in {"live", "erased"}, NEW r \in BOOLEAN, NEW a \in BOOLEAN, NEW v \in BOOLEAN
    PROVE  /\ Account(state, r, a, v) \in AccountRow
           /\ Account(state, r, a, v).state = state
           /\ Account(state, r, a, v) # NoAccount
           /\ Account(state, r, a, v).verified <=> v
           /\ IsRoot(Account(state, r, a, v)) <=> (r /\ a)
  BY DEF Account, AccountRow, NoAccount, IsRoot

\* The parts of an account row.
LEMMA AccountParts ==
    ASSUME NEW a \in AccountRow
    PROVE  /\ a.root \in BOOLEAN /\ a.active \in BOOLEAN /\ a.verified \in BOOLEAN
           /\ a = NoAccount \/ a.state \in {"live", "erased"}
           /\ NoAccount.state = "none" /\ ~IsRoot(NoAccount) /\ ~Good(NoAccount)
<1>1. NoAccount.state = "none" /\ ~NoAccount.root /\ ~NoAccount.verified
  BY DEF NoAccount, Account
<1>2. a.root \in BOOLEAN /\ a.active \in BOOLEAN /\ a.verified \in BOOLEAN
  <2>1. CASE a = NoAccount
    <3>1. a.root = FALSE /\ a.active = FALSE /\ a.verified = FALSE
      BY <2>1, Zenon DEF NoAccount, Account
    <3> QED
      BY <3>1
  <2>2. CASE a \in [state : {"live", "erased"}, root : BOOLEAN, active : BOOLEAN, verified : BOOLEAN]
    BY <2>2
  <2> QED
    BY <2>1, <2>2 DEF AccountRow
<1>3. a = NoAccount \/ a.state \in {"live", "erased"}
  BY DEF AccountRow
<1> QED
  BY <1>1, <1>2, <1>3 DEF IsRoot, Good

\* Marking an account verified changes nothing else.
LEMMA VerifiedParts ==
    ASSUME NEW a \in AccountRow, a # NoAccount
    PROVE  /\ Verified(a) \in AccountRow
           /\ Verified(a) # NoAccount
           /\ Good(Verified(a))
           /\ IsRoot(Verified(a)) <=> IsRoot(a)
<1>1. a.root \in BOOLEAN /\ a.active \in BOOLEAN /\ a.state \in {"live", "erased"}
  BY AccountParts
<1>2. PICK s \in {"live", "erased"}, r \in BOOLEAN, b \in BOOLEAN :
        s = a.state /\ r = a.root /\ b = a.active
  BY <1>1
<1>3. PICK x : x = Account(s, r, b, TRUE)
  OBVIOUS
<1>4. /\ x \in AccountRow /\ x # NoAccount
      /\ x.verified /\ (IsRoot(x) <=> (r /\ b))
  BY <1>3 DEF Account, AccountRow, NoAccount, IsRoot
<1>5. Verified(a) = x
  BY <1>2, <1>3 DEF Verified
<1>6. IsRoot(a) <=> (r /\ b)
  BY <1>2 DEF IsRoot
<1> QED
  BY <1>4, <1>5, <1>6 DEF Good

\* A request that is not idle has a user.
LEMMA JobParts ==
    ASSUME NEW j \in Jobs
    PROVE  j = Idle \/ (j.user \in Users /\ j.op # "idle")
  BY DEF Jobs

\* The idle request is a request.
LEMMA IdleParts == Idle \in Jobs /\ Idle.op = "idle"
  BY DEF Jobs, Idle, Job

\* The parts of a request made here.
LEMMA MadeJob ==
    ASSUME NEW op \in {"issue", "resend", "verify", "google", "mint", "promote", "roles",
                       "deleting", "erasing"},
           NEW u \in Users, NEW k \in Tokens \cup {None}, NEW c \in Changes
    PROVE  /\ Job(op, u, k, c) \in Jobs
           /\ Job(op, u, k, c).op = op
           /\ Job(op, u, k, c).user = u
  BY DEF Job, Jobs

\* Other requests carry a change that changes nothing.
LEMMA NoChangeType == NoChange \in Changes
  BY DEF NoChange, Change, Changes

\* One account is saved.
LEMMA SavedRow ==
    ASSUME TypeOK, NEW u \in Users, NEW a \in AccountRow, account' = Saved(u, a)
    PROVE  /\ account' \in [Users -> AccountRow]
           /\ account'[u] = a
           /\ \A v \in Users : v # u => account'[v] = account[v]
  BY DEF TypeOK, Saved

----------------------------------------------------------------------------
(* What each step has to show.                                             *)

\* A sign-in survives every step that keeps good accounts good, and adds no
\* minting request or sign-in but for a good one.
LEMMA GoodStep ==
    ASSUME TypeOK, SignInGate, Minting, NEW w \in Workers, NEW j \in Jobs, Becomes(w, j),
           \A u \in Users : Good(account[u]) => Good(account'[u]),
           j.op = "mint" => Good(account'[j.user]),
           signedIn' \subseteq signedIn \cup (IF Does(w, "mint") THEN {job[w].user} ELSE {})
    PROVE  SignInGate' /\ Minting'
<1>1. job'[w] = j /\ \A v \in Workers : v # w => job'[v] = job[v]
  BY DEF Becomes, TypeOK
<1>2. \A u \in signedIn' : u \in Users /\ Good(account[u])
  <2> SUFFICES ASSUME NEW u \in signedIn' PROVE u \in Users /\ Good(account[u])
    OBVIOUS
  <2>1. CASE u \in signedIn
    BY <2>1 DEF SignInGate, Good, TypeOK
  <2>2. CASE Does(w, "mint") /\ u = job[w].user
    BY <2>2, JobParts, IdleParts DEF Minting, Does, TypeOK
  <2> QED
    BY <2>1, <2>2
<1>3. SignInGate'
  BY <1>2 DEF SignInGate, Good
<1>4. Minting'
  <2> SUFFICES ASSUME NEW v \in Workers, job'[v].op = "mint" PROVE Good(account'[job'[v].user])
    BY DEF Minting, Does, Good
  <2>1. CASE v = w
    BY <1>1, <2>1
  <2>2. CASE v # w
    BY <1>1, <2>2, JobParts, IdleParts DEF Minting, Does, TypeOK
  <2> QED
    BY <2>1, <2>2
<1> QED
  BY <1>3, <1>4

\* No root is lost and nobody starts to be erased.
LEMMA RootStep ==
    ASSUME TypeOK, RootInv,
           \A u \in Users : IsRoot(account[u]) => IsRoot(account'[u]),
           \A v \in Workers : Erases(v)' => Erases(v) /\ job'[v].user = job[v].user
    PROVE  RootInv'
<1>1. \A u \in Users : OtherRoots(u) \subseteq OtherRoots(u)'
  BY DEF OtherRoots, Roots, IsRoot
<1>2. \A v \in Workers : Erases(v) => job[v].user \in Users
  BY JobParts, IdleParts DEF Erases, Does, TypeOK
<1>3. Leaves'
  <2> SUFFICES ASSUME NEW v \in Workers, Erases(v)' PROVE OtherRoots(job[v].user)' # {} /\ job'[v].user = job[v].user
    BY DEF Leaves
  <2> QED
    BY <1>1, <1>2 DEF Leaves, RootInv
<1>4. OneErases'
  BY DEF OneErases, RootInv
<1> QED
  BY <1>3, <1>4 DEF RootInv

\* A step that changes no root, keeps good accounts good and starts no erasure.
LEMMA Frame ==
    ASSUME IInv, NEW w \in Workers, NEW j \in Jobs, Becomes(w, j),
           account' \in [Users -> AccountRow], token' \in [Tokens -> TokenRow],
           \A u \in Users : Good(account[u]) => Good(account'[u]),
           \A u \in Users : IsRoot(account'[u]) <=> IsRoot(account[u]),
           \A u \in Users : account[u] # NoAccount => account'[u] # NoAccount,
           j = Idle \/ account'[j.user] # NoAccount,
           \A k \in Tokens : token'[k] = NoToken \/ account'[token'[k].user] # NoAccount,
           j.op # "erasing",
           j.op = "mint" => Good(account'[j.user]),
           signedIn' \subseteq signedIn \cup (IF Does(w, "mint") THEN {job[w].user} ELSE {})
    PROVE  IInv'
<1> USE DEF IInv
<1>1. job'[w] = j /\ \A v \in Workers : v # w => job'[v] = job[v]
  BY DEF Becomes, TypeOK
<1>2. job' \in [Workers -> Jobs]
  BY DEF Becomes, TypeOK
<1>3. SignInGate' /\ Minting'
  BY GoodStep
<1>4. \A v \in Workers : Erases(v)' => Erases(v) /\ job'[v].user = job[v].user
  <2> SUFFICES ASSUME NEW v \in Workers, Erases(v)' PROVE Erases(v) /\ job'[v].user = job[v].user
    OBVIOUS
  <2>1. v # w /\ job'[v] = job[v] /\ Does(v, "erasing") /\ job[v].user \in Users
    BY <1>1, JobParts, IdleParts DEF Erases, Does, TypeOK
  <2>2. IsRoot(account'[job[v].user])
    BY <2>1 DEF Erases, IsRoot
  <2> QED
    BY <2>1, <2>2 DEF Erases
<1>5. RootInv'
  BY <1>4, RootStep
<1>6. signedIn' \subseteq Users
  BY JobParts, IdleParts DEF TypeOK, Does
<1>7. Known'
  BY <1>1, JobParts DEF Known, TypeOK
<1> QED
  BY <1>2, <1>3, <1>5, <1>6, <1>7 DEF TypeOK

\* ... and one that leaves the accounts alone altogether.
LEMMA JobFrame ==
    ASSUME IInv, NEW w \in Workers, NEW j \in Jobs, Becomes(w, j),
           UNCHANGED account, token' \in [Tokens -> TokenRow],
           j = Idle \/ account[j.user] # NoAccount,
           \A k \in Tokens : token'[k] = NoToken \/ account[token'[k].user] # NoAccount,
           j.op # "erasing", j.op = "mint" => Good(account[j.user]),
           signedIn' \subseteq signedIn \cup (IF Does(w, "mint") THEN {job[w].user} ELSE {})
    PROVE  IInv'
<1>1. \A u \in Users : account'[u] = account[u]
  OBVIOUS
<1>2. j.op = "mint" => Good(account'[j.user])
  OBVIOUS
<1>3. account' \in [Users -> AccountRow]
  BY DEF IInv, TypeOK
<1>4. j = Idle \/ account'[j.user] # NoAccount
  OBVIOUS
<1>5. \A k \in Tokens : token'[k] = NoToken \/ account'[token'[k].user] # NoAccount
  OBVIOUS
<1> QED
  BY <1>1, <1>2, <1>3, <1>4, <1>5, Frame

\* ... and one that only ends or leaves everything else.
LEMMA Quiet ==
    ASSUME IInv, NEW w \in Workers, NEW j \in Jobs, Becomes(w, j),
           UNCHANGED <<account, token, signedIn>>,
           j = Idle \/ account[j.user] # NoAccount,
           j.op # "erasing", j.op = "mint" => Good(account[j.user])
    PROVE  IInv'
  BY JobFrame DEF IInv, TypeOK, Known

----------------------------------------------------------------------------
(* Requests that begin.                                                    *)

\* Requests other than verifications carry no token.
LEMMA NoneToken == None \in Tokens \cup {None}
  OBVIOUS

\* Requests that begin.
LEMMA Asks ==
    ASSUME IInv, NEW w \in Workers, Ask(w)
    PROVE  IInv'
<1> USE DEF IInv
<1>1. CASE \E u \in Users : Register(w, u) \/ BeginGoogle(w, u)
  <2> PICK u \in Users : Register(w, u) \/ BeginGoogle(w, u)
    BY <1>1
  <2>1. CASE account[u] = NoAccount /\ \E v \in BOOLEAN, op \in {"issue", "mint"} :
                 /\ op = "mint" => v = TRUE
                 /\ account' = Saved(u, Account("live", FALSE, TRUE, v))
                 /\ Becomes(w, Job(op, u, None, NoChange))
                 /\ UNCHANGED <<token, signedIn>>
    <3> PICK v \in BOOLEAN, op \in {"issue", "mint"} :
                 /\ op = "mint" => v = TRUE
                 /\ account' = Saved(u, Account("live", FALSE, TRUE, v))
                 /\ Becomes(w, Job(op, u, None, NoChange))
                 /\ UNCHANGED <<token, signedIn>>
      BY <2>1
    <3> DEFINE a == Account("live", FALSE, TRUE, v)
               j == Job(op, u, None, NoChange)
    <3>1. a \in AccountRow /\ a # NoAccount /\ ~IsRoot(a) /\ (op = "mint" => Good(a))
      BY MadeAccount DEF Good
    <3>2. j \in Jobs /\ j.op = op /\ j.user = u
      BY MadeJob, NoneToken, NoChangeType
    <3>3. account' = Saved(u, a) /\ Becomes(w, j)
      OBVIOUS
    <3> HIDE DEF a, j
    <3>4. account' \in [Users -> AccountRow] /\ account'[u] = a
          /\ \A x \in Users : x # u => account'[x] = account[x]
      BY <3>1, <3>3, SavedRow
    <3>5. ~Good(account[u]) /\ ~IsRoot(account[u])
      BY <2>1, AccountParts DEF TypeOK
    <3>6. \A x \in Users : Good(account[x]) => Good(account'[x])
      BY <3>4, <3>5
    <3>7. \A x \in Users : IsRoot(account'[x]) <=> IsRoot(account[x])
      BY <3>1, <3>4, <3>5
    <3>8. \A x \in Users : account[x] # NoAccount => account'[x] # NoAccount
      BY <3>1, <3>4
    <3>9. \A k \in Tokens : token'[k] = NoToken \/ account'[token'[k].user] # NoAccount
      <4> SUFFICES ASSUME NEW k \in Tokens, token[k] # NoToken PROVE account'[token[k].user] # NoAccount
        OBVIOUS
      <4>1. token[k].user \in Users /\ account[token[k].user] # NoAccount
        BY DEF Known, TypeOK, TokenRow
      <4> QED
        BY <3>8, <4>1
    <3> QED
      BY <3>1, <3>2, <3>3, <3>4, <3>6, <3>7, <3>8, <3>9, Frame DEF TypeOK
  <2>2. CASE /\ account[u].state = "live"
             /\ Begin(w, Job(IF account[u].verified THEN "mint" ELSE "google", u, None, NoChange))
    <3> DEFINE op == IF account[u].verified THEN "mint" ELSE "google"
               j == Job(op, u, None, NoChange)
    <3>1. op \in {"mint", "google"} /\ (op = "mint" => Good(account[u]))
      BY DEF Good
    <3> HIDE DEF op
    <3>2. j \in Jobs /\ j.op = op /\ j.user = u
      BY <3>1, MadeJob, NoneToken, NoChangeType
    <3>3. Becomes(w, j) /\ UNCHANGED <<account, token, signedIn>>
      BY <2>2 DEF Begin, op
    <3>4. account[u] # NoAccount
      BY <2>2, AccountParts DEF TypeOK
    <3> HIDE DEF j
    <3> QED
      BY <3>1, <3>2, <3>3, <3>4, Quiet
  <2>3. CASE Register(w, u)
    BY <2>1, <2>3 DEF Register
  <2>4. CASE BeginGoogle(w, u)
    BY <2>1, <2>2, <2>4 DEF BeginGoogle
  <2> QED
    BY <2>3, <2>4
<1>2. CASE \E u \in Users : BeginResend(w, u) \/ BeginLogin(w, u) \/ DeleteLocks(w, u)
  <2> PICK u \in Users : BeginResend(w, u) \/ BeginLogin(w, u) \/ DeleteLocks(w, u)
    BY <1>2
  <2>1. PICK op \in {"resend", "mint", "deleting"} :
            Begin(w, Job(op, u, None, NoChange)) /\ (op = "mint" => Good(account[u]))
    BY DEF BeginResend, BeginLogin, DeleteLocks, MaySignIn, Good
  <2> DEFINE j == Job(op, u, None, NoChange)
  <2>2. j \in Jobs /\ j.op = op /\ j.user = u
    BY MadeJob, NoneToken, NoChangeType
  <2>3. Becomes(w, j) /\ UNCHANGED <<account, token, signedIn>>
    BY <2>1 DEF Begin
  <2>4. account[u] # NoAccount
    BY AccountParts DEF BeginResend, BeginLogin, DeleteLocks, MaySignIn, TypeOK
  <2> HIDE DEF j
  <2> QED
    BY <2>1, <2>2, <2>3, <2>4, Quiet
<1>3. CASE \E u \in Users : \E r, a \in BOOLEAN : BeginRoles(w, u, Change(r, a, FALSE))
  <2> PICK u \in Users, r \in BOOLEAN, a \in BOOLEAN : BeginRoles(w, u, Change(r, a, FALSE))
    BY <1>3
  <2> DEFINE c == Change(r, a, FALSE)
             j == Job("roles", u, None, c)
  <2>1. c \in Changes
    BY DEF Change, Changes
  <2> HIDE DEF c
  <2>2. j \in Jobs /\ j.op = "roles" /\ j.user = u
    BY <2>1, MadeJob, NoneToken
  <2>3. Becomes(w, j) /\ account[u] # NoAccount /\ UNCHANGED <<account, token, signedIn>>
    BY DEF BeginRoles, Begin, c
  <2> HIDE DEF j
  <2> QED
    BY <2>2, <2>3, Quiet
<1>4. CASE \E k \in Tokens : BeginVerify(w, k)
  <2> PICK k \in Tokens : BeginVerify(w, k)
    BY <1>4
  <2> DEFINE u == token[k].user
             j == Job("verify", u, k, NoChange)
  <2>1. u \in Users /\ token[k] # NoToken
    BY DEF BeginVerify, TypeOK, TokenRow, NoToken, Token
  <2>2. j \in Jobs /\ j.op = "verify" /\ j.user = u
    BY <2>1, MadeJob, NoChangeType
  <2>3. Becomes(w, j) /\ account[u] # NoAccount /\ UNCHANGED <<account, token, signedIn>>
    BY <2>1 DEF BeginVerify, Begin, Known
  <2> HIDE DEF u, j
  <2> QED
    BY <2>2, <2>3, Quiet
<1>5. CASE \E u \in Users : BeginPromote(w, u)
  <2> PICK u \in Users : BeginPromote(w, u)
    BY <1>5
  <2> DEFINE c == Missing(account[u])
             j == Job("promote", u, None, c)
  <2>1. c \in Changes
    BY AccountParts DEF Missing, Change, Changes, TypeOK
  <2> HIDE DEF c
  <2>2. j \in Jobs /\ j.op = "promote" /\ j.user = u
    BY <2>1, MadeJob, NoneToken
  <2>3. Becomes(w, j) /\ account[u].state = "live" /\ UNCHANGED <<account, token, signedIn>>
    BY DEF BeginPromote, Begin, c
  <2>4. account[u] # NoAccount
    BY <2>3, AccountParts DEF TypeOK
  <2> HIDE DEF j
  <2> QED
    BY <2>2, <2>3, <2>4, Quiet
<1> QED
  BY <1>1, <1>2, <1>3, <1>4, <1>5 DEF Ask

----------------------------------------------------------------------------
(* Requests that go on.                                                    *)

\* A request ends and writes nothing.
LEMMA Ends ==
    ASSUME IInv, NEW w \in Workers, End(w), UNCHANGED <<account, token, signedIn>>
    PROVE  IInv'
  BY IdleParts, Quiet DEF End

\* A request goes on, or ends, and writes tokens or sign-ins only.
LEMMA TokenWork ==
    ASSUME IInv, NEW w \in Workers,
           (\E k \in Tokens : IssueToken(w, k)) \/ InvalidateTokens(w) \/ Mint(w)
    PROVE  IInv'
<1> USE DEF IInv
<1>1. CASE \E k \in Tokens : IssueToken(w, k)
  <2> DEFINE row == Token(job[w].user, "fresh")
  <2>1. job[w].user \in Users /\ account[job[w].user] # NoAccount
    BY <1>1, JobParts, IdleParts DEF IssueToken, Does, TypeOK, Known
  <2>2. row \in TokenRow /\ row.user = job[w].user
    BY <2>1 DEF Token, TokenRow
  <2>3. PICK k \in Tokens : token' = [token EXCEPT ![k] = row]
    BY <1>1 DEF IssueToken
  <2> HIDE DEF row
  <2>4. token' \in [Tokens -> TokenRow]
    BY <2>2, <2>3 DEF TypeOK
  <2>5. \A i \in Tokens : token'[i] = NoToken \/ account[token'[i].user] # NoAccount
    BY <2>1, <2>2, <2>3 DEF TypeOK, Known
  <2> QED
    BY <1>1, <2>4, <2>5, IdleParts, JobFrame DEF IssueToken, End
<1>2. CASE InvalidateTokens(w)
  <2> DEFINE u == job[w].user
             j == Job("issue", u, None, NoChange)
  <2>1. u \in Users /\ account[u] # NoAccount
    BY <1>2, JobParts, IdleParts DEF InvalidateTokens, Does, TypeOK, Known
  <2> HIDE DEF u
  <2>2. j \in Jobs /\ j.op = "issue" /\ j.user = u
    BY <2>1, MadeJob, NoneToken, NoChangeType
  <2>3. \A k \in Tokens : Retired(u, token[k]) \in TokenRow
    BY <2>1 DEF Retired, Token, TokenRow, TypeOK
  <2>4. Becomes(w, j) /\ UNCHANGED <<account, signedIn>> /\ token' = [k \in Tokens |-> Retired(u, token[k])]
    BY <1>2 DEF InvalidateTokens, u
  <2> HIDE DEF j
  <2>5. token' \in [Tokens -> TokenRow]
    BY <2>3, <2>4
  <2>6. \A k \in Tokens : token'[k] = NoToken \/ account[token'[k].user] # NoAccount
    BY <2>1, <2>4 DEF Retired, Token, Known
  <2> QED
    BY <2>1, <2>2, <2>4, <2>5, <2>6, JobFrame
<1>3. CASE Mint(w)
  BY <1>3, IdleParts, JobFrame DEF Mint, End, TypeOK, Known
<1> QED
  BY <1>1, <1>2, <1>3

\* An account is marked verified by mail or by Google.
LEMMA VerifiedWork ==
    ASSUME IInv, NEW w \in Workers, Verify(w) \/ LinkGoogle(w)
    PROVE  IInv'
<1> USE DEF IInv
<1> DEFINE u == job[w].user
           a == Verified(account[u])
<1>1. u \in Users
  BY JobParts, IdleParts DEF Verify, LinkGoogle, Does, TypeOK
<1>2. account' = Saved(u, a) /\ UNCHANGED signedIn
  BY DEF Verify, LinkGoogle
<1>3. account[u] # NoAccount
  BY JobParts, IdleParts DEF Verify, LinkGoogle, Does, TypeOK, Known
<1>4. IInv'
  <2>1. a \in AccountRow /\ a # NoAccount /\ Good(a) /\ (IsRoot(a) <=> IsRoot(account[u]))
    BY <1>1, <1>3, VerifiedParts DEF TypeOK
  <2>2. PICK j \in Jobs : Becomes(w, j) /\ j.op # "erasing" /\ (j = Idle \/ j.user = u)
    <3>1. CASE Verify(w)
      BY <3>1, IdleParts DEF Verify, End
    <3>2. CASE LinkGoogle(w)
      <4> DEFINE i == Job("mint", u, None, NoChange)
      <4> HIDE DEF u
      <4>1. i \in Jobs /\ i.op = "mint" /\ i.user = u
        BY <1>1, MadeJob, NoneToken, NoChangeType
      <4>2. Becomes(w, i)
        BY <3>2 DEF LinkGoogle, u
      <4> QED
        BY <4>1, <4>2
    <3> QED
      BY <3>1, <3>2
  <2>3. token' \in [Tokens -> TokenRow]
    BY <1>1 DEF Verify, LinkGoogle, Token, TokenRow, TypeOK
  <2>7. \A i \in Tokens : token'[i] = token[i] \/ token'[i].user = u
    BY DEF Verify, LinkGoogle, Token, TypeOK
  <2>8. \A i \in Tokens : token[i] = NoToken \/ (token[i].user \in Users /\ account[token[i].user] # NoAccount)
    BY DEF Known, TypeOK, TokenRow
  <2> HIDE DEF u, a
  <2>4. account' \in [Users -> AccountRow] /\ account'[u] = a
        /\ \A x \in Users : x # u => account'[x] = account[x]
    BY <1>1, <1>2, <2>1, SavedRow
  <2>5. \A x \in Users : (Good(account[x]) => Good(account'[x])) /\ (IsRoot(account'[x]) <=> IsRoot(account[x]))
    BY <2>1, <2>4
  <2>6. (j.op = "mint" => Good(account'[j.user])) /\ (j = Idle \/ account'[j.user] # NoAccount)
    BY <2>1, <2>2, <2>4, IdleParts
  <2>9. \A x \in Users : account[x] # NoAccount => account'[x] # NoAccount
    BY <2>1, <2>4
  <2>10. \A i \in Tokens : token'[i] = NoToken \/ account'[token'[i].user] # NoAccount
    BY <2>1, <2>4, <2>7, <2>8, <2>9
  <2> QED
    BY <1>2, <2>1, <2>2, <2>3, <2>4, <2>5, <2>6, <2>9, <2>10, Frame
<1> QED
  BY <1>4

----------------------------------------------------------------------------
(* The steps that may take a root, and those that prepare one.             *)

\* A request ends with an account written that is as good as it was.
LEMMA Writes ==
    ASSUME IInv, NEW w \in Workers, End(w), NEW u \in Users, NEW a \in AccountRow, a # NoAccount,
           account' = Saved(u, a), Good(account[u]) => Good(a),
           UNCHANGED token, signedIn' \subseteq signedIn
    PROVE  /\ (TypeOK /\ SignInGate /\ Minting /\ Known)'
           /\ \A v \in Workers : Erases(v)' => v # w /\ job'[v] = job[v] /\ Does(v, "erasing")
<1> USE DEF IInv
<1>1. Becomes(w, Idle) /\ Idle \in Jobs /\ Idle.op = "idle"
  BY IdleParts DEF End
<1>2. job'[w] = Idle /\ \A v \in Workers : v # w => job'[v] = job[v]
  BY <1>1 DEF Becomes, TypeOK
<1>3. account' \in [Users -> AccountRow] /\ account'[u] = a
      /\ \A x \in Users : x # u => account'[x] = account[x]
  BY SavedRow
<1>4. \A x \in Users : (Good(account[x]) => Good(account'[x]))
                       /\ (account[x] # NoAccount => account'[x] # NoAccount)
  BY <1>3
<1>5. SignInGate' /\ Minting'
  BY <1>1, <1>4, GoodStep
<1>6. TypeOK'
  BY <1>1, <1>3 DEF TypeOK, Becomes
<1>7. Known'
  <2>1. \A v \in Workers : job'[v] = Idle \/ account'[job'[v].user] # NoAccount
    BY <1>2, <1>4, JobParts DEF Known, TypeOK
  <2>2. \A k \in Tokens : token[k] = NoToken \/ (token[k].user \in Users /\ account[token[k].user] # NoAccount)
    BY DEF Known, TypeOK, TokenRow
  <2> QED
    BY <1>4, <2>1, <2>2 DEF Known
<1>8. \A v \in Workers : Erases(v)' => v # w /\ job'[v] = job[v] /\ Does(v, "erasing")
  BY <1>1, <1>2 DEF Erases, Does
<1> QED
  BY <1>5, <1>6, <1>7, <1>8

\* A role change waits for every root's row: no root is being erased then, and
\* it leaves one.
LEMMA RolesChange ==
    ASSUME IInv, NEW w \in Workers, UpdateRoles(w)
    PROVE  IInv' /\ (Roots # {} => Roots' # {})
<1> USE DEF IInv
<1> DEFINE u == job[w].user
           c == job[w].change
           a == Changed(account[u], c)
<1>1. u \in Users /\ c \in Changes /\ account[u] # NoAccount
  BY JobParts, IdleParts DEF UpdateRoles, Does, TypeOK, Jobs, Known
<1>2. /\ account' = Saved(u, a) /\ End(w) /\ UNCHANGED <<token, signedIn>>
      /\ \A v \in Roots \cup {u} : RowFree(v)
      /\ Protects(u, a)
  BY DEF UpdateRoles
<1> HIDE DEF u, c
<1>3. a \in AccountRow /\ a # NoAccount /\ (Good(account[u]) => Good(a))
  <2>1. account[u].state \in {"live", "erased"} /\ account[u].verified \in BOOLEAN
    BY <1>1, AccountParts DEF TypeOK
  <2>2. c.root \in BOOLEAN /\ c.active \in BOOLEAN
    BY <1>1 DEF Changes
  <2> QED
    BY <2>1, <2>2, MadeAccount DEF Changed, Good
<1> HIDE DEF a
<1>4. /\ (TypeOK /\ SignInGate /\ Minting /\ Known)'
      /\ \A v \in Workers : Erases(v)' => v # w /\ job'[v] = job[v] /\ Does(v, "erasing")
  BY <1>1, <1>2, <1>3, Writes
<1>5. account'[u] = a /\ \A x \in Users : x # u => account'[x] = account[x]
  BY <1>1, <1>2, <1>3, SavedRow
<1>6. \A v \in Workers : ~Erases(v)'
  <2> SUFFICES ASSUME NEW v \in Workers, Erases(v)' PROVE FALSE
    OBVIOUS
  <2>1. job'[v] = job[v] /\ Does(v, "erasing") /\ job[v].user \in Users
    BY <1>4, JobParts, IdleParts DEF Does, TypeOK
  <2>2. job[v].user # u
    BY <1>2, <2>1 DEF RowFree, Holds, Does
  <2>3. IsRoot(account[job[v].user])
    BY <1>5, <2>1, <2>2 DEF Erases, IsRoot
  <2>4. job[v].user \in Roots
    BY <2>1, <2>3 DEF Roots
  <2> QED
    BY <1>2, <2>1, <2>4 DEF RowFree, Holds, Does
<1>7. RootInv'
  BY <1>6 DEF RootInv, Leaves, OneErases
<1>8. Roots' # {}
  <2>1. CASE OtherRoots(u) # {}
    <3> PICK x \in Users : x # u /\ IsRoot(account[x])
      BY <2>1 DEF OtherRoots, Roots
    <3> QED
      BY <1>5 DEF Roots, IsRoot
  <2>2. CASE IsRoot(a)
    BY <1>1, <1>5, <2>2 DEF Roots, IsRoot
  <2> QED
    BY <1>2, <2>1, <2>2 DEF Protects
<1> QED
  BY <1>4, <1>7, <1>8

\* A root passes the check only when another remains and nobody holds a root.
LEMMA ErasureStarts ==
    ASSUME IInv, NEW w \in Workers, DeleteChecks(w)
    PROVE  IInv'
<1> USE DEF IInv
<1> DEFINE u == job[w].user
           j == Job("erasing", u, None, NoChange)
<1>1. u \in Users /\ account[u] # NoAccount /\ Does(w, "deleting")
  BY JobParts, IdleParts DEF DeleteChecks, Does, TypeOK, Known
<1>2. \A v \in Workers : ~Blocks(v, w)
  BY DEF DeleteChecks
<1>3. CASE End(w)
  BY <1>3, Ends DEF DeleteChecks
<1>4. CASE (IsRoot(account[u]) => OtherRoots(u) # {}) /\ Becomes(w, j)
  <2> HIDE DEF u
  <2>1. j \in Jobs /\ j.op = "erasing" /\ j.user = u
    BY <1>1, MadeJob, NoneToken, NoChangeType
  <2> HIDE DEF j
  <2>2. UNCHANGED <<account, token, signedIn>>
    BY DEF DeleteChecks
  <2>3. job'[w] = j /\ (\A v \in Workers : v # w => job'[v] = job[v]) /\ job' \in [Workers -> Jobs]
    BY <1>4, <2>1 DEF Becomes, TypeOK
  <2>4. SignInGate' /\ Minting'
    BY <1>4, <2>1, <2>2, GoodStep
  <2>5. Known' /\ TypeOK'
    BY <1>1, <2>1, <2>2, <2>3 DEF Known, TypeOK
  <2>6. \A v \in Workers : v # w => (Erases(v)' <=> Erases(v))
    BY <2>2, <2>3 DEF Erases, Does, IsRoot
  <2>7. Erases(w)' <=> IsRoot(account[u])
    BY <2>1, <2>2, <2>3 DEF Erases, Does, IsRoot
  <2>8. IsRoot(account[u]) => \A v \in Workers : v # w => ~Erases(v)
    <3> SUFFICES ASSUME IsRoot(account[u]), NEW v \in Workers, v # w, Erases(v) PROVE FALSE
      OBVIOUS
    <3>1. Waits(w)
      BY <1>1 DEF Waits, u
    <3>2. job[v].user \in Roots /\ Holds(v, job[v].user)
      BY JobParts, IdleParts DEF Erases, Does, Holds, Roots, TypeOK
    <3> QED
      BY <1>2, <3>1, <3>2 DEF Blocks
  <2>9. OneErases'
    <3> SUFFICES ASSUME NEW v \in Workers, NEW x \in Workers, Erases(v)', Erases(x)' PROVE v = x
      BY DEF OneErases
    <3> QED
      BY <2>6, <2>7, <2>8 DEF RootInv, OneErases
  <2>10. Leaves'
    <3> SUFFICES ASSUME NEW v \in Workers, Erases(v)' PROVE OtherRoots(job'[v].user) # {}
      BY <2>2 DEF Leaves, OtherRoots, Roots, IsRoot
    <3>1. CASE v = w
      BY <1>4, <2>1, <2>3, <2>7, <3>1
    <3>2. CASE v # w
      BY <2>3, <2>6, <3>2 DEF RootInv, Leaves
    <3> QED
      BY <3>1, <3>2
  <2> QED
    BY <2>4, <2>5, <2>9, <2>10 DEF RootInv
<1> QED
  BY <1>3, <1>4 DEF DeleteChecks

\* An erasure takes a root only with another left, and no erasure of a root is
\* under way after it.
LEMMA Erasure ==
    ASSUME IInv, NEW w \in Workers, DeleteAccount(w)
    PROVE  IInv' /\ (Roots # {} => Roots' # {})
<1> USE DEF IInv
<1> DEFINE u == job[w].user
           a == Account("erased", FALSE, FALSE, FALSE)
<1>1. u \in Users /\ Does(w, "erasing")
  BY JobParts, IdleParts DEF DeleteAccount, Does, TypeOK
<1>2. account' = Saved(u, a) /\ End(w) /\ UNCHANGED token /\ signedIn' \subseteq signedIn
  BY DEF DeleteAccount
<1>3. a \in AccountRow /\ a # NoAccount /\ Good(a) /\ ~IsRoot(a)
  BY MadeAccount DEF Good
<1> HIDE DEF a
<1>4. Erases(w) <=> IsRoot(account[u])
  BY <1>1 DEF Erases
<1> HIDE DEF u
<1>5. /\ (TypeOK /\ SignInGate /\ Minting /\ Known)'
      /\ \A v \in Workers : Erases(v)' => v # w /\ job'[v] = job[v] /\ Does(v, "erasing")
  BY <1>1, <1>2, <1>3, Writes
<1>6. account'[u] = a /\ \A x \in Users : x # u => account'[x] = account[x]
  BY <1>1, <1>2, <1>3, SavedRow
<1>7. \A v \in Workers : Erases(v)' => Erases(v) /\ v # w /\ job'[v] = job[v]
  <2> SUFFICES ASSUME NEW v \in Workers, Erases(v)' PROVE Erases(v) /\ v # w /\ job'[v] = job[v]
    OBVIOUS
  <2>1. v # w /\ job'[v] = job[v] /\ Does(v, "erasing") /\ job[v].user \in Users
    BY <1>5, JobParts, IdleParts DEF Does, TypeOK
  <2>2. IsRoot(account'[job[v].user])
    BY <2>1 DEF Erases, IsRoot
  <2> QED
    BY <1>3, <1>6, <2>1, <2>2 DEF Erases
<1>8. CASE Erases(w)
  <2>1. RootInv'
    BY <1>7, <1>8 DEF RootInv, OneErases, Leaves
  <2>2. PICK x \in Users : x # u /\ IsRoot(account[x])
    BY <1>8 DEF RootInv, Leaves, OtherRoots, Roots, u
  <2> QED
    BY <1>5, <1>6, <2>1, <2>2 DEF Roots, IsRoot
<1>9. CASE ~Erases(w)
  <2>1. \A x \in Users : IsRoot(account[x]) => IsRoot(account'[x])
    BY <1>4, <1>6, <1>9
  <2>2. RootInv'
    BY <1>7, <2>1, RootStep
  <2> QED
    BY <1>5, <2>1, <2>2 DEF Roots, IsRoot
<1> QED
  BY <1>8, <1>9

\* A deployment raises the flags its copy lacked, unless the row is being erased:
\* no root is lost, and a root that is being erased was one before.
LEMMA Promotion ==
    ASSUME IInv, NEW w \in Workers, Promote(w)
    PROVE  IInv' /\ (Roots # {} => Roots' # {})
<1> USE DEF IInv
<1> DEFINE u == job[w].user
           c == job[w].change
           a == Raised(account[u], c)
<1>1. u \in Users /\ c \in Changes /\ account[u] # NoAccount
  BY JobParts, IdleParts DEF Promote, Does, TypeOK, Jobs, Known
<1>2. account' = Saved(u, a) /\ End(w) /\ UNCHANGED <<token, signedIn>> /\ RowFree(u)
  BY DEF Promote
<1> HIDE DEF u, c
<1>3. /\ a \in AccountRow /\ a # NoAccount
      /\ Good(account[u]) => Good(a)
      /\ IsRoot(account[u]) => IsRoot(a)
  <2>1. /\ account[u].state \in {"live", "erased"} /\ account[u].verified \in BOOLEAN
        /\ account[u].root \in BOOLEAN /\ account[u].active \in BOOLEAN
    BY <1>1, AccountParts DEF TypeOK
  <2>2. c.root \in BOOLEAN /\ c.active \in BOOLEAN /\ c.verified \in BOOLEAN
    BY <1>1 DEF Changes
  <2>3. PICK s \in {"live", "erased"}, r \in BOOLEAN, b \in BOOLEAN, v \in BOOLEAN :
          /\ s = account[u].state
          /\ r = (account[u].root \/ c.root)
          /\ b = (account[u].active \/ c.active)
          /\ v = (account[u].verified \/ c.verified)
    BY <2>1, <2>2
  <2>4. a = Account(s, r, b, v)
    BY <2>3 DEF Raised
  <2> HIDE DEF a
  <2>5. a \in AccountRow /\ a # NoAccount /\ a.state = s /\ (a.verified <=> v) /\ (IsRoot(a) <=> (r /\ b))
    BY <2>4, MadeAccount
  <2> QED
    BY <2>3, <2>5 DEF Good, IsRoot
<1> HIDE DEF a
<1>4. /\ (TypeOK /\ SignInGate /\ Minting /\ Known)'
      /\ \A v \in Workers : Erases(v)' => v # w /\ job'[v] = job[v] /\ Does(v, "erasing")
  BY <1>1, <1>2, <1>3, Writes
<1>5. account'[u] = a /\ \A x \in Users : x # u => account'[x] = account[x]
  BY <1>1, <1>2, <1>3, SavedRow
<1>6. \A x \in Users : IsRoot(account[x]) => IsRoot(account'[x])
  BY <1>3, <1>5
<1>7. \A v \in Workers : Erases(v)' => Erases(v) /\ job'[v].user = job[v].user
  <2> SUFFICES ASSUME NEW v \in Workers, Erases(v)' PROVE Erases(v) /\ job'[v].user = job[v].user
    OBVIOUS
  <2>1. job'[v] = job[v] /\ Does(v, "erasing") /\ job[v].user \in Users
    BY <1>4, JobParts, IdleParts DEF Does, TypeOK
  <2>2. job[v].user # u
    BY <1>2, <2>1 DEF RowFree, Holds, Does
  <2>3. IsRoot(account'[job[v].user])
    BY <2>1 DEF Erases, IsRoot
  <2> QED
    BY <1>5, <2>1, <2>2, <2>3 DEF Erases
<1>8. RootInv'
  BY <1>6, <1>7, RootStep
<1> QED
  BY <1>4, <1>6, <1>8 DEF Roots, IsRoot

\* A deployment creates an operator's account: nobody is erasing it.
LEMMA Creation ==
    ASSUME IInv, NEW u \in Users, CreateOperator(u)
    PROVE  IInv' /\ (Roots # {} => Roots' # {})
<1> USE DEF IInv
<1> DEFINE a == Account("live", TRUE, TRUE, TRUE)
<1>1. a \in AccountRow /\ a # NoAccount /\ Good(a) /\ IsRoot(a)
  BY MadeAccount DEF Good
<1>2. account' = Saved(u, a) /\ account[u] = NoAccount /\ UNCHANGED <<token, signedIn, job>>
  BY DEF CreateOperator
<1> HIDE DEF a
<1>3. account' \in [Users -> AccountRow] /\ account'[u] = a
      /\ \A x \in Users : x # u => account'[x] = account[x]
  BY <1>1, <1>2, SavedRow
<1>4. \A x \in Users : /\ Good(account[x]) => Good(account'[x])
                       /\ IsRoot(account[x]) => IsRoot(account'[x])
                       /\ account[x] # NoAccount => account'[x] # NoAccount
  BY <1>1, <1>3
<1>5. TypeOK'
  BY <1>2, <1>3 DEF TypeOK
<1>6. SignInGate'
  BY <1>2, <1>4 DEF SignInGate, Good, TypeOK
<1>7. Minting'
  <2> SUFFICES ASSUME NEW v \in Workers, Does(v, "mint") PROVE Good(account'[job[v].user])
    BY <1>2 DEF Minting, Does, Good
  <2> QED
    BY <1>4, JobParts, IdleParts DEF Minting, Does, TypeOK
<1>8. Known'
  <2>1. \A v \in Workers : job[v] = Idle \/ account'[job[v].user] # NoAccount
    BY <1>4, JobParts DEF Known, TypeOK
  <2>2. \A k \in Tokens : token[k] = NoToken \/ account'[token[k].user] # NoAccount
    BY <1>4 DEF Known, TypeOK, TokenRow
  <2> QED
    BY <1>2, <2>1, <2>2 DEF Known
<1>9. \A v \in Workers : Erases(v)' => Erases(v) /\ job'[v].user = job[v].user
  <2> SUFFICES ASSUME NEW v \in Workers, Erases(v)' PROVE Erases(v)
    BY <1>2
  <2>1. Does(v, "erasing") /\ job[v].user \in Users /\ IsRoot(account'[job[v].user])
    BY <1>2, JobParts, IdleParts DEF Erases, Does, TypeOK, IsRoot
  <2>2. job[v].user # u
    BY <1>2, <2>1, IdleParts DEF Known, Does
  <2> QED
    BY <1>3, <2>1, <2>2 DEF Erases
<1>10. RootInv'
  BY <1>4, <1>9, RootStep
<1> QED
  BY <1>4, <1>5, <1>6, <1>7, <1>8, <1>10 DEF Roots, IsRoot

\* A sign-out, twenty-four hours, or nothing.
LEMMA OutsideSteps ==
    ASSUME IInv, (\E u \in Users : LogOut(u)) \/ (\E k \in Tokens : TokenLapses(k)) \/ UNCHANGED vars
    PROVE  IInv'
<1> USE DEF IInv
<1>1. UNCHANGED <<account, job>> /\ signedIn' \subseteq signedIn
  BY DEF LogOut, TokenLapses, vars
<1>2. token' \in [Tokens -> TokenRow]
      /\ \A k \in Tokens : token'[k] = token[k] \/ (token[k] # NoToken /\ token'[k].user = token[k].user)
  <2>1. CASE \E k \in Tokens : TokenLapses(k)
    BY <2>1 DEF TokenLapses, Token, NoToken, TokenRow, TypeOK
  <2> QED
    BY <2>1 DEF LogOut, vars, TypeOK
<1>3. TypeOK' /\ SignInGate' /\ Minting'
  BY <1>1, <1>2 DEF TypeOK, SignInGate, Minting, Good, Does
<1>4. Known'
  BY <1>1, <1>2 DEF Known
<1>5. RootInv'
  BY <1>1 DEF RootInv, Leaves, OneErases, Erases, Does, OtherRoots, Roots, IsRoot
<1> QED
  BY <1>3, <1>4, <1>5

\* Every step keeps the invariant and, once there is a root, a root.
LEMMA NextIInv == IInv /\ [Next]_vars => IInv'
<1> SUFFICES ASSUME IInv, [Next]_vars PROVE IInv'
  OBVIOUS
<1>1. CASE \E w \in Workers : Work(w)
  <2> PICK w \in Workers : Work(w)
    BY <1>1
  <2>1. CASE VerifyRefused(w) \/ RolesRefused(w) \/ Abort(w) \/ Dies(w)
    BY <2>1, Ends DEF VerifyRefused, RolesRefused, Abort, Dies
  <2> QED
    BY <2>1, TokenWork, VerifiedWork, RolesChange, ErasureStarts, Erasure, Promotion DEF Work
<1> QED
  BY <1>1, Asks, OutsideSteps, Creation DEF Next

\* Only role changes and erasures take a root away.
LEMMA StepKeepsRoot == IInv /\ [Next]_vars => (Roots # {} => Roots' # {})
<1> SUFFICES ASSUME IInv, [Next]_vars PROVE Roots # {} => Roots' # {}
  OBVIOUS
<1>1. CASE \E w \in Workers : UpdateRoles(w) \/ DeleteAccount(w) \/ Promote(w)
  BY <1>1, RolesChange, Erasure, Promotion
<1>2. CASE \E u \in Users : CreateOperator(u)
  BY <1>2, Creation
<1>3. CASE \E w \in Workers, u \in Users :
               \/ account[u] = NoAccount /\ \E a \in AccountRow : account' = Saved(u, a)
               \/ account[u] # NoAccount /\ account' = Saved(u, Verified(account[u]))
  <2> PICK w \in Workers, u \in Users :
               \/ account[u] = NoAccount /\ \E a \in AccountRow : account' = Saved(u, a)
               \/ account[u] # NoAccount /\ account' = Saved(u, Verified(account[u]))
    BY <1>3
  <2>1. PICK a \in AccountRow : account' = Saved(u, a) /\ (IsRoot(account[u]) => IsRoot(a))
    BY VerifiedParts, AccountParts DEF IInv, TypeOK
  <2>2. \A x \in Users : IsRoot(account[x]) => IsRoot(account'[x])
    BY <2>1, SavedRow DEF IInv
  <2> QED
    BY <2>2 DEF Roots, IsRoot
<1>4. CASE UNCHANGED account
  BY <1>4 DEF Roots, IsRoot
<1>5. ASSUME NEW w \in Workers, Ask(w)
      PROVE  Roots # {} => Roots' # {}
  <2>1. ASSUME NEW u \in Users, Register(w, u) \/ BeginGoogle(w, u), account' # account
        PROVE  account[u] = NoAccount /\ \E a \in AccountRow : account' = Saved(u, a)
    BY <2>1, MadeAccount DEF Register, BeginGoogle, Begin
  <2> QED
    BY <1>3, <1>4, <1>5, <2>1 DEF Ask, BeginResend, BeginLogin, DeleteLocks, BeginPromote,
      BeginRoles, BeginVerify, Begin
<1>6. ASSUME NEW w \in Workers, Work(w)
      PROVE  Roots # {} => Roots' # {}
  <2>1. ASSUME Verify(w) \/ LinkGoogle(w)
        PROVE  \E u \in Users : account[u] # NoAccount /\ account' = Saved(u, Verified(account[u]))
    BY <2>1, JobParts, IdleParts DEF Verify, LinkGoogle, Does, IInv, TypeOK, Known
  <2> QED
    BY <1>1, <1>3, <1>4, <1>6, <2>1
    DEF Work, IssueToken, InvalidateTokens, VerifyRefused, Mint, RolesRefused, DeleteChecks, Abort, Dies
<1> QED
  BY <1>2, <1>4, <1>5, <1>6 DEF Next, LogOut, TokenLapses, vars

\* Nothing has happened yet.
LEMMA InitIInv == Init => IInv
<1> SUFFICES ASSUME Init PROVE IInv
  OBVIOUS
<1>1. TypeOK
  BY IdleParts DEF Init, TypeOK, AccountRow, TokenRow
<1>2. SignInGate /\ Minting /\ Known
  BY IdleParts DEF Init, SignInGate, Minting, Known, Does
<1>3. RootInv
  BY IdleParts DEF Init, RootInv, Leaves, OneErases, Erases, Does
<1> QED
  BY <1>1, <1>2, <1>3 DEF IInv

\* The invariant holds throughout.
LEMMA SpecIInv == Spec => []IInv
  BY InitIInv, NextIInv, PTL DEF Spec

\* Every variable keeps its type.
THEOREM SpecTypeOK == Spec => []TypeOK
<1>1. IInv => TypeOK
  BY DEF IInv
<1> QED
  BY <1>1, SpecIInv, PTL

\* Nobody is signed in to an account whose address was never verified.
THEOREM SpecSignInGate == Spec => []SignInGate
<1>1. IInv => SignInGate
  BY DEF IInv
<1> QED
  BY <1>1, SpecIInv, PTL

\* Once the platform has an active root it always has one.
THEOREM SpecRootRemains == Spec => RootRemains
<1>1. IInv /\ [Next]_vars => [Roots # {} => Roots' # {}]_vars
  BY StepKeepsRoot
<1> QED
  BY <1>1, SpecIInv, PTL DEF Spec, RootRemains

\* Deletions that block one another in a circle are roots' deletions, and each
\* has a root's row that every other waits for.
THEOREM SpecDeadlocksBroken == Spec => []DeadlocksBroken
<1>1. IInv => DeadlocksBroken
  <2> SUFFICES ASSUME TypeOK, NEW group \in SUBSET Workers, group # {},
                      \A w \in group : \E v \in group : Blocks(v, w)
               PROVE  \E v, w \in group : Blocks(v, w) /\ Blocks(w, v)
    BY DEF IInv, DeadlocksBroken
  <2>1. PICK w \in group, v \in group : Blocks(v, w)
    OBVIOUS
  <2>2. ASSUME NEW x \in group
        PROVE  Waits(x) /\ job[x].user \in Roots /\ Holds(x, job[x].user)
    <3>1. Waits(x)
      BY DEF Blocks
    <3>2. job[x].user \in Users
      BY <3>1, JobParts, IdleParts DEF Waits, Does, TypeOK
    <3> QED
      BY <3>1, <3>2 DEF Waits, Does, Holds, Roots
  <2> QED
    BY <2>1, <2>2 DEF Blocks
<1> QED
  BY <1>1, SpecIInv, PTL

----------------------------------------------------------------------------
(* What verifies an address.                                               *)

\* A verification under way has a token of the user it will verify, and a
\* deployment is of an operator.
VerifyKnows ==
    \A w \in Workers :
        /\ Does(w, "verify") =>
              /\ job[w].token \in Tokens
              /\ token[job[w].token] # NoToken
              /\ token[job[w].token].user = job[w].user
        /\ Does(w, "promote") => job[w].user \in Operators

\* What a step may make of a token that was issued.
TokenKept(old, new) ==
    /\ new # NoToken
    /\ new.user = old.user
    /\ old.state = "used" => new = old

\* The parts of a token row.
LEMMA TokenParts ==
    ASSUME NEW row \in TokenRow, row # NoToken
    PROVE  /\ row.user \in Users /\ row.state \in {"fresh", "lapsed", "used"}
           /\ row = Token(row.user, row.state)
  BY DEF TokenRow, Token

\* A token row is written from its parts.
LEMMA MadeToken ==
    ASSUME NEW u, NEW s \in {"fresh", "lapsed", "used"}
    PROVE  Token(u, s).user = u /\ Token(u, s).state = s /\ Token(u, s) # NoToken
  BY DEF Token, NoToken

\* An issued token keeps its user, and a used one stays as it is.
LEMMA TokensStay ==
    ASSUME TypeOK, VerifyKnows, [Next]_vars, NEW k \in Tokens, token[k] # NoToken
    PROVE  TokenKept(token[k], token'[k])
<1>1. /\ token[k].user \in Users /\ token[k].state \in {"fresh", "lapsed", "used"}
      /\ token[k] = Token(token[k].user, token[k].state)
  BY TokenParts DEF TypeOK
<1>2. CASE token'[k] = token[k]
  BY <1>2 DEF TokenKept
<1>3. CASE \E s \in {"lapsed", "used"} : token[k].state # "used" /\ token'[k] = Token(token[k].user, s)
  BY <1>3, MadeToken DEF TokenKept
<1>4. ASSUME NEW w \in Workers, Verify(w)
      PROVE  TokenKept(token[k], token'[k])
  <2>1. token' = [token EXCEPT ![job[w].token] = Token(job[w].user, "used")]
        /\ token[job[w].token].state \in {"fresh", "lapsed"} /\ Does(w, "verify")
    BY <1>4 DEF Verify
  <2> QED
    BY <1>2, <1>3, <2>1 DEF VerifyKnows, TypeOK
<1>5. ASSUME NEW w \in Workers, InvalidateTokens(w)
      PROVE  TokenKept(token[k], token'[k])
  <2>1. token'[k] = Retired(job[w].user, token[k])
    BY <1>5 DEF InvalidateTokens
  <2>2. CASE token[k].user = job[w].user
    <3>1. token'[k] = Token(token[k].user, "used")
      BY <2>1, <2>2 DEF Retired
    <3> QED
      BY <1>1, <1>2, <1>3, <3>1
  <2> QED
    BY <1>2, <2>1, <2>2 DEF Retired
<1>6. ASSUME NEW i \in Tokens, TokenLapses(i)
      PROVE  TokenKept(token[k], token'[k])
  BY <1>2, <1>3, <1>6 DEF TokenLapses, TypeOK
<1>7. ASSUME NEW w \in Workers, NEW i \in Tokens, IssueToken(w, i)
      PROVE  TokenKept(token[k], token'[k])
  BY <1>2, <1>7 DEF IssueToken, TypeOK
<1>8. CASE UNCHANGED token
  BY <1>2, <1>8
<1>9. ASSUME NEW w \in Workers, Ask(w)
      PROVE  UNCHANGED token
  BY <1>9 DEF Ask, Register, BeginResend, BeginLogin, BeginGoogle, DeleteLocks, BeginPromote,
              BeginRoles, BeginVerify, Begin
<1>10. ASSUME NEW w \in Workers, Work(w)
       PROVE  \/ UNCHANGED token
              \/ (\E i \in Tokens : IssueToken(w, i)) \/ InvalidateTokens(w) \/ Verify(w)
  BY <1>10 DEF Work, VerifyRefused, LinkGoogle, Mint, Promote, UpdateRoles, RolesRefused,
               DeleteChecks, DeleteAccount, Abort, Dies
<1>11. CASE \E w \in Workers : Ask(w) \/ Work(w)
  BY <1>4, <1>5, <1>7, <1>8, <1>9, <1>10, <1>11
<1> QED
  BY <1>6, <1>8, <1>11 DEF Next, LogOut, CreateOperator, vars

\* The parts of a request, whatever it asks for.
LEMMA JobFields ==
    ASSUME NEW op, NEW u, NEW k, NEW c
    PROVE  Job(op, u, k, c).op = op /\ Job(op, u, k, c).user = u /\ Job(op, u, k, c).token = k
  BY DEF Job

\* Only finding a token begins a verification, and only a deployment a promotion.
LEMMA BeginsVerify ==
    ASSUME TypeOK, [Next]_vars, NEW w \in Workers, job'[w].op \in {"verify", "promote"}, job'[w] # job[w]
    PROVE  (\E k \in Tokens : BeginVerify(w, k)) \/ (\E u \in Users : BeginPromote(w, u))
<1> SUFFICES ASSUME \A k \in Tokens : ~BeginVerify(w, k), \A u \in Users : ~BeginPromote(w, u)
             PROVE  FALSE
  OBVIOUS
<1>1. ASSUME NEW v \in Workers, NEW j, Becomes(v, j), j.op \notin {"verify", "promote"}
      PROVE  FALSE
  BY <1>1 DEF Becomes, TypeOK
<1>2. ASSUME NEW v \in Workers, (\E k \in Tokens : BeginVerify(v, k)) \/ (\E u \in Users : BeginPromote(v, u))
      PROVE  FALSE
  BY <1>2 DEF BeginVerify, BeginPromote, Begin, Becomes, TypeOK
<1>3. job' # job
  OBVIOUS
<1>4. Idle.op \notin {"verify", "promote"}
  BY IdleParts
<1>5. ASSUME NEW v \in Workers, Ask(v)
      PROVE  FALSE
  <2>1. \E op \in {"issue", "resend", "mint", "google", "deleting", "roles"} :
            \E u, c : Becomes(v, Job(op, u, None, c))
    <3> DEFINE New == \E op \in {"issue", "resend", "mint", "google", "deleting", "roles"} :
                        \E u, c : Becomes(v, Job(op, u, None, c))
    <3>1. ASSUME NEW u \in Users, Register(v, u) PROVE New
      BY <3>1 DEF Register
    <3>2. ASSUME NEW u \in Users, BeginResend(v, u) PROVE New
      BY <3>2 DEF BeginResend, Begin
    <3>3. ASSUME NEW u \in Users, BeginLogin(v, u) PROVE New
      BY <3>3 DEF BeginLogin, Begin
    <3>4. ASSUME NEW u \in Users, BeginGoogle(v, u) PROVE New
      BY <3>4 DEF BeginGoogle, Begin
    <3>5. ASSUME NEW u \in Users, DeleteLocks(v, u) PROVE New
      BY <3>5 DEF DeleteLocks, Begin
    <3>6. ASSUME NEW u \in Users, NEW c, BeginRoles(v, u, c) PROVE New
      BY <3>6 DEF BeginRoles, Begin
    <3> QED
      BY <1>2, <1>5, <3>1, <3>2, <3>3, <3>4, <3>5, <3>6 DEF Ask
  <2> QED
    BY <1>1, <2>1, JobFields
<1>6. ASSUME NEW v \in Workers, Work(v)
      PROVE  FALSE
  <2>1. \/ Becomes(v, Idle)
        \/ \E op \in {"issue", "mint", "erasing"} : \E u : Becomes(v, Job(op, u, None, NoChange))
    BY <1>6 DEF Work, IssueToken, InvalidateTokens, Verify, VerifyRefused, LinkGoogle, Mint, Promote,
       UpdateRoles, RolesRefused, DeleteChecks, DeleteAccount, Abort, Dies, End
  <2> QED
    BY <1>1, <1>4, <2>1, JobFields
<1> QED
  BY <1>3, <1>5, <1>6 DEF Next, LogOut, CreateOperator, TokenLapses, vars

\* A verification keeps the token it found.
LEMMA VerifyKnowsStep == TypeOK /\ VerifyKnows /\ [Next]_vars => VerifyKnows'
<1> SUFFICES ASSUME TypeOK, VerifyKnows, [Next]_vars, NEW w \in Workers
             PROVE  /\ job'[w].op = "verify" =>
                          /\ job'[w].token \in Tokens
                          /\ token'[job'[w].token] # NoToken
                          /\ token'[job'[w].token].user = job'[w].user
                    /\ job'[w].op = "promote" => job'[w].user \in Operators
  BY DEF VerifyKnows, Does
<1>1. CASE job'[w] = job[w]
  BY <1>1, TokensStay DEF VerifyKnows, Does, TokenKept
<1>2. CASE job'[w] # job[w]
  <2>1. CASE \E k \in Tokens : BeginVerify(w, k)
    <3> PICK k \in Tokens : BeginVerify(w, k)
      BY <2>1
    <3>1. job'[w] = Job("verify", token[k].user, k, NoChange)
      BY DEF BeginVerify, Begin, Becomes, TypeOK
    <3>2. token[k] # NoToken
      BY DEF BeginVerify, NoToken, Token
    <3> QED
      BY <3>1, <3>2, TokensStay, JobFields DEF TokenKept
  <2>2. CASE \E u \in Users : BeginPromote(w, u)
    <3> PICK u \in Users : BeginPromote(w, u)
      BY <2>2
    <3>1. job'[w] = Job("promote", u, None, Missing(account[u])) /\ u \in Operators
      BY DEF BeginPromote, Begin, Becomes, TypeOK
    <3> QED
      BY <3>1, JobFields
  <2> QED
    BY <1>2, <2>1, <2>2, BeginsVerify
<1> QED
  BY <1>1, <1>2

\* What a step may make of an account: a verification needs a reason, and
\* nothing but an erasure ends it.
Proved(u) ==
    \/ \E k \in Tokens : token[k].user = u /\ Spends(k)
    \/ \E w \in Workers : Does(w, "google") /\ job[w].user = u /\ job'[w].op = "mint"
    \/ account[u] = NoAccount
    \/ u \in Operators
AccountMove(u) ==
    /\ account'[u].verified /\ ~account[u].verified => Proved(u)
    /\ account[u].verified => account'[u].verified \/ account'[u].state = "erased"
    /\ account[u].state = "erased" => account'[u].state = "erased"

\* One account is saved: its row decides for all.
LEMMA OneAccount ==
    ASSUME TypeOK, NEW u \in Users, NEW a, account' = Saved(u, a),
           a.verified => account[u].verified \/ Proved(u),
           account[u].verified => a.verified \/ a.state = "erased",
           account[u].state = "erased" => a.state = "erased"
    PROVE  \A x \in Users : AccountMove(x)
<1>1. account'[u] = a /\ \A x \in Users : x # u => account'[x] = account[x]
  BY DEF Saved, TypeOK
<1> QED
  BY <1>1 DEF AccountMove

\* Every step's verifications are proved.
LEMMA AccountsStep ==
    ASSUME IInv, VerifyKnows, [Next]_vars
    PROVE  \A u \in Users : AccountMove(u)
<1> USE DEF IInv
<1>1. CASE UNCHANGED account
  BY <1>1 DEF AccountMove
<1>2. ASSUME NEW u \in Users, NEW a, account[u] = NoAccount, account' = Saved(u, a)
      PROVE  \A x \in Users : AccountMove(x)
  <2>1. ~account[u].verified /\ account[u].state # "erased" /\ Proved(u)
    BY <1>2 DEF NoAccount, Account, Proved
  <2> QED
    BY <1>2, <2>1, OneAccount
<1>3. ASSUME NEW u \in Users, account' = Saved(u, Verified(account[u])), Proved(u)
      PROVE  \A x \in Users : AccountMove(x)
  <2>1. Verified(account[u]).verified /\ Verified(account[u]).state = account[u].state
    BY DEF Verified, Account
  <2> QED
    BY <1>3, <2>1, OneAccount
<1>4. ASSUME NEW w \in Workers, Verify(w)
      PROVE  \A x \in Users : AccountMove(x)
  <2> DEFINE u == job[w].user
             k == job[w].token
  <2>1. u \in Users /\ k \in Tokens /\ token[k].user = u
    BY <1>4, JobParts, IdleParts DEF Verify, Does, TypeOK, VerifyKnows
  <2>2. /\ account' = Saved(u, Verified(account[u]))
        /\ token[k].state \in {"fresh", "lapsed"}
        /\ token' = [token EXCEPT ![k] = Token(u, "used")]
    BY <1>4 DEF Verify
  <2> HIDE DEF u, k
  <2>3. token'[k].state = "used"
    BY <2>1, <2>2 DEF Token, TypeOK
  <2>4. Proved(u)
    BY <2>1, <2>2, <2>3 DEF Proved, Spends
  <2> QED
    BY <1>3, <2>1, <2>2, <2>4
<1>5. ASSUME NEW w \in Workers, LinkGoogle(w)
      PROVE  \A x \in Users : AccountMove(x)
  <2> DEFINE u == job[w].user
  <2>1. u \in Users /\ Does(w, "google")
    BY <1>5, JobParts, IdleParts DEF LinkGoogle, Does, TypeOK
  <2>2. account' = Saved(u, Verified(account[u])) /\ Becomes(w, Job("mint", u, None, NoChange))
    BY <1>5 DEF LinkGoogle
  <2> HIDE DEF u
  <2>3. job'[w].op = "mint"
    BY <2>2, JobFields DEF Becomes, TypeOK
  <2>4. Proved(u)
    BY <2>1, <2>3 DEF Proved, u
  <2> QED
    BY <1>3, <2>1, <2>2, <2>4
<1>6. ASSUME NEW w \in Workers, UpdateRoles(w)
      PROVE  \A x \in Users : AccountMove(x)
  <2> DEFINE u == job[w].user
             a == Changed(account[u], job[w].change)
  <2>1. u \in Users /\ account' = Saved(u, a)
    BY <1>6, JobParts, IdleParts DEF UpdateRoles, Does, TypeOK
  <2>2. a.verified = account[u].verified /\ a.state = account[u].state
    BY DEF Changed, Account
  <2> HIDE DEF a, u
  <2> QED
    BY <2>1, <2>2, OneAccount
<1>7. ASSUME NEW w \in Workers, DeleteAccount(w)
      PROVE  \A x \in Users : AccountMove(x)
  <2>1. PICK u \in Users : account' = Saved(u, Account("erased", FALSE, FALSE, FALSE))
    BY <1>7, JobParts, IdleParts DEF DeleteAccount, Does, TypeOK
  <2>2. PICK a : a = Account("erased", FALSE, FALSE, FALSE)
    OBVIOUS
  <2>3. ~a.verified /\ a.state = "erased"
    BY <2>2 DEF Account
  <2> QED
    BY <2>1, <2>2, <2>3, OneAccount
<1>8. ASSUME NEW w \in Workers, Promote(w)
      PROVE  \A x \in Users : AccountMove(x)
  <2> DEFINE u == job[w].user
             c == job[w].change
  <2>1. u \in Users /\ u \in Operators /\ account' = Saved(u, Raised(account[u], c))
    BY <1>8, JobParts, IdleParts DEF Promote, Does, TypeOK, VerifyKnows
  <2> HIDE DEF u, c
  <2>2. PICK a : a = Raised(account[u], c)
    OBVIOUS
  <2>3. (account[u].verified => a.verified) /\ a.state = account[u].state
    BY <2>2 DEF Raised, Account
  <2>4. Proved(u)
    BY <2>1 DEF Proved
  <2> QED
    BY <2>1, <2>2, <2>3, <2>4, OneAccount
<1>9. ASSUME NEW w \in Workers, Ask(w)
      PROVE  \A x \in Users : AccountMove(x)
  <2>1. ASSUME NEW u \in Users, Register(w, u) \/ BeginGoogle(w, u)
        PROVE  UNCHANGED account \/ (account[u] = NoAccount /\ \E a : account' = Saved(u, a))
    BY <2>1 DEF Register, BeginGoogle, Begin
  <2> QED
    BY <1>1, <1>2, <1>9, <2>1 DEF Ask, BeginResend, BeginLogin, DeleteLocks, BeginPromote, BeginRoles,
       BeginVerify, Begin
<1>10. ASSUME NEW w \in Workers, Work(w)
       PROVE  \A x \in Users : AccountMove(x)
  BY <1>1, <1>4, <1>5, <1>6, <1>7, <1>8, <1>10
  DEF Work, IssueToken, InvalidateTokens, VerifyRefused, Mint, RolesRefused, DeleteChecks, Abort, Dies
<1>11. ASSUME NEW u \in Users, CreateOperator(u)
       PROVE  \A x \in Users : AccountMove(x)
  BY <1>2, <1>11 DEF CreateOperator
<1> QED
  BY <1>1, <1>9, <1>10, <1>11 DEF Next, LogOut, TokenLapses, vars

\* An address is verified by spending its own token, by Google, at creation or by
\* the deployment; a token is spent once.
THEOREM SpecVerifiedByToken == Spec => VerifiedByToken
<1> DEFINE Step ==
        /\ \A k \in Tokens : token[k] # NoToken =>
              /\ token'[k].user = token[k].user
              /\ token[k].state = "used" => token'[k] = token[k]
        /\ \A u \in Users : account'[u].verified /\ ~account[u].verified =>
              \/ \E k \in Tokens : token[k].user = u /\ Spends(k)
              \/ \E w \in Workers : Does(w, "google") /\ job[w].user = u /\ job'[w].op = "mint"
              \/ account[u] = NoAccount
              \/ u \in Operators
        /\ \A u \in Users :
              /\ account[u].verified => account'[u].verified \/ account'[u].state = "erased"
              /\ account[u].state = "erased" => account'[u].state = "erased"
<1>1. Init => IInv /\ VerifyKnows
  <2>1. Init => VerifyKnows
    BY IdleParts DEF Init, VerifyKnows, Does
  <2> QED
    BY <2>1, InitIInv
<1>2. IInv /\ VerifyKnows /\ [Next]_vars => (IInv /\ VerifyKnows)'
  BY NextIInv, VerifyKnowsStep DEF IInv
<1>3. IInv /\ VerifyKnows /\ [Next]_vars => [Step]_vars
  <2> SUFFICES ASSUME IInv, VerifyKnows, [Next]_vars PROVE Step
    OBVIOUS
  <2>1. \A k \in Tokens : token[k] # NoToken => TokenKept(token[k], token'[k])
    BY TokensStay DEF IInv
  <2>2. \A u \in Users : AccountMove(u)
    BY AccountsStep
  <2> QED
    BY <2>1, <2>2 DEF TokenKept, AccountMove, Proved
<1> QED
  BY <1>1, <1>2, <1>3, PTL DEF Spec, VerifiedByToken
=============================================================================
