------------------------- MODULE AuthService_proofs -------------------------
(***************************************************************************)
(* Proofs that AuthService keeps its types, the owner agreement, the       *)
(* one-holder-per-role constraint and the exclusive use of nonces, for any *)
(* number of wallets, accounts, nonces, sessions and concurrent requests.  *)
(***************************************************************************)
EXTENDS AuthInvariants, TLAPS

\* The statements of a LOGIN by position.
LEMMA LoginProgram ==
  ASSUME NEW i \in 1 .. 6
  PROVE  /\ Program["LOGIN"][i] = "consume" <=> i = 1
         /\ Program["LOGIN"][i] = "read" <=> i = 2
         /\ Program["LOGIN"][i] = "insert" <=> i = 3
         /\ Program["LOGIN"][i] = "commit" <=> i = 4
         /\ Program["LOGIN"][i] = "session" <=> i = 5
         /\ Program["LOGIN"][i] = "audit" <=> i = 6
         /\ Program["LOGIN"][i] \notin {"check", "consume2", "scan", "delete",
                                        "kill", "revoke", "refreshed"}
<1>1. i = 1 \/ i = 2 \/ i = 3 \/ i = 4 \/ i = 5 \/ i = 6
  OBVIOUS
<1> QED
  BY <1>1 DEF Program

\* The statements of a REFRESH by position.
LEMMA RefreshProgram ==
  ASSUME NEW i \in 1 .. 4
  PROVE  /\ Program["REFRESH"][i] = "revoke" <=> i = 1
         /\ Program["REFRESH"][i] = "session" <=> i = 2
         /\ Program["REFRESH"][i] = "audit" <=> i = 3
         /\ Program["REFRESH"][i] = "refreshed" <=> i = 4
         /\ Program["REFRESH"][i] \notin {"check", "consume", "consume2", "read",
                        "scan", "delete", "insert", "kill", "commit"}
<1>1. i = 1 \/ i = 2 \/ i = 3 \/ i = 4
  OBVIOUS
<1> QED
  BY <1>1 DEF Program

\* Where a LOGIN stands when it executes a given statement.
LEMMA LoginAt ==
  ASSUME Shape, NEW p \in Proc, req[p].op = "LOGIN"
  PROVE  /\ At(p, "consume") => pc[p] = 1
         /\ At(p, "read") => pc[p] = 2
         /\ At(p, "insert") => pc[p] = 3
         /\ At(p, "commit") => pc[p] = 4
         /\ At(p, "session") => pc[p] = 5
         /\ At(p, "audit") => pc[p] = 6
         /\ ~At(p, "check") /\ ~At(p, "consume2") /\ ~At(p, "scan")
         /\ ~At(p, "delete") /\ ~At(p, "kill") /\ ~At(p, "revoke")
         /\ ~At(p, "refreshed")
<1>1. pc[p] = 0 \/ pc[p] \in 1 .. 6
  BY DEF Shape
<1> QED
  BY <1>1, LoginProgram DEF At

\* Where a REFRESH stands when it executes a given statement.
LEMMA RefreshAt ==
  ASSUME Shape, NEW p \in Proc, req[p].op = "REFRESH"
  PROVE  /\ At(p, "revoke") => pc[p] = 1
         /\ At(p, "session") => pc[p] = 2
         /\ At(p, "audit") => pc[p] = 3
         /\ At(p, "refreshed") => pc[p] = 4
         /\ ~At(p, "check") /\ ~At(p, "consume") /\ ~At(p, "consume2")
         /\ ~At(p, "read") /\ ~At(p, "scan") /\ ~At(p, "delete")
         /\ ~At(p, "insert") /\ ~At(p, "kill") /\ ~At(p, "commit")
<1>1. pc[p] \in 1 .. 4
  BY DEF Shape
<1> QED
  BY <1>1, RefreshProgram DEF At

\* The idle request and the empty transaction are well typed.
LEMMA IdleTypes == NoRequest \in Request /\ NoTx \in Transaction
<1>1. (CHOOSE w \in Wallet : TRUE) \in Wallet
  BY WalletAssumption
<1> QED
  BY <1>1 DEF NoRequest, Ask, NoTx, Request, Transaction, AllOps, RoleOps

\* An empty database with idle slots satisfies the invariant.
THEOREM InitInv == Init => Inv
<1> SUFFICES ASSUME Init PROVE Inv
  OBVIOUS
<1>1. TypeOK
  BY IdleTypes DEF Init, TypeOK
<1>2. Shape
  BY DEF Init, Shape, Idle, NoRequest, Ask, NoTx
<1>3. OwnWrites /\ KeyClaims /\ NonceExclusive
  BY DEF Init, OwnWrites, KeyClaims, NonceExclusive, NoTx
<1>4. OwnerAgreement /\ OneHolderPerRole
  BY DEF Init, OwnerAgreement, OneHolderPerRole, OwnerInvariant
<1> QED
  BY <1>1, <1>2, <1>3, <1>4 DEF Inv

-----------------------------------------------------------------------------
(* Environment steps *)

\* A step that leaves the requests, the roles and the accounts alone keeps the
\* invariant if it keeps the types and every consumed nonce.
LEMMA QuietStep ==
  ASSUME Inv, UNCHANGED <<accounts, roles, pc, req, tx>>, TypeOK',
         \A p \in Proc : \A n \in tx[p].held : nonces'[n] = nonces[n]
  PROVE  Inv'
<1>1. Shape'
  BY DEF Inv, Shape, Idle
<1>2. OwnWrites' /\ KeyClaims' /\ OneHolderPerRole'
  BY DEF Inv, OwnWrites, KeyClaims, OneHolderPerRole
<1>3. NonceExclusive'
  BY DEF Inv, NonceExclusive
<1>4. OwnerAgreement'
  BY DEF Inv, OwnerAgreement, OwnerInvariant, OwnerRows
<1> QED
  BY <1>1, <1>2, <1>3, <1>4 DEF Inv

\* Issuing fresh nonces.
LEMMA IssueInv ==
  ASSUME Inv, wallets' \subseteq Wallet, audit' = {},
         UNCHANGED <<accounts, roles, sessions, pc, req, tx>>,
         nonces' \in [Nonce -> Challenge \cup {None}],
         \A n \in Nonce : nonces[n] # None => nonces'[n] = nonces[n]
  PROVE  Inv'
<1>1. TypeOK
  BY DEF Inv
<1>2. \A p \in Proc : \A n \in tx[p].held : nonces'[n] = nonces[n]
  BY <1>1 DEF Inv, NonceExclusive, TypeOK, Transaction
<1>3. TypeOK'
  BY <1>1 DEF TypeOK
<1> QED
  BY <1>2, <1>3, QuietStep

\* A login challenge.
LEMMA CreateChallengeInv ==
  ASSUME Inv, NEW w \in Wallet, NEW n \in Nonce, CreateChallenge(w, n)
  PROVE  Inv'
BY IssueInv DEF Inv, TypeOK, CreateChallenge, FreshNonce, Issue, Challenge, Purpose

\* The challenges that name a wallet: to link it, or to recover with it.
LEMMA WalletChallengeInv ==
  ASSUME Inv, NEW s \in Session, NEW w \in Wallet, NEW n \in Nonce,
         CreateLinkChallenge(s, w, n) \/ CreateRecoveryChallenge(s, w, n)
  PROVE  Inv'
BY IssueInv DEF Inv, TypeOK, CreateLinkChallenge, CreateRecoveryChallenge, FreshNonce,
   Issue, Challenge, Purpose

\* The pair of challenges of a role operation.
LEMMA RoleChallengeInv ==
  ASSUME Inv, NEW s \in Session, NEW t \in Wallet, NEW m \in Nonce, NEW n \in Nonce,
         CreateRoleChallenge(s, t, m, n)
  PROVE  Inv'
<1>1. TypeOK /\ sessions[s].wallet \in Wallet
  BY DEF Inv, CreateRoleChallenge, Usable, TypeOK, LiveSession
<1>2. /\ wallets' \subseteq Wallet /\ audit' = {}
      /\ UNCHANGED <<accounts, roles, sessions, pc, req, tx>>
  BY <1>1 DEF CreateRoleChallenge, TypeOK
<1>3. /\ nonces' \in [Nonce -> Challenge \cup {None}]
      /\ \A k \in Nonce : nonces[k] # None => nonces'[k] = nonces[k]
  BY <1>1 DEF CreateRoleChallenge, FreshNonce, TypeOK, Challenge, Purpose
<1> QED
  BY <1>2, <1>3, IssueInv

\* A nonce that no transaction has consumed expires.
LEMMA ExpireNonceInv ==
  ASSUME Inv, NEW n \in Nonce, ExpireNonce(n) PROVE Inv'
<1>1. TypeOK' /\ UNCHANGED <<accounts, roles, pc, req, tx>>
  BY DEF Inv, ExpireNonce, TypeOK
<1>2. \A p \in Proc : \A k \in tx[p].held : nonces'[k] = nonces[k]
  BY DEF Inv, ExpireNonce, TypeOK, Transaction
<1> QED
  BY <1>1, <1>2, QuietStep

\* A session expires.
LEMMA ExpireSessionInv ==
  ASSUME Inv, NEW s \in Session, ExpireSession(s) PROVE Inv'
<1>1. TypeOK' /\ UNCHANGED <<accounts, roles, nonces, pc, req, tx>>
  BY DEF Inv, ExpireSession, TypeOK
<1> QED
  BY <1>1, QuietStep

\* A session is revoked by its account.
LEMMA RevokeSessionInv ==
  ASSUME Inv, NEW s \in Session, NEW t \in Session, RevokeSession(s, t) PROVE Inv'
<1>1. TypeOK /\ sessions[t] \in LiveSession
  BY DEF Inv, RevokeSession, TypeOK
<1>2. audit' \subseteq AuditRow
  BY <1>1 DEF RevokeSession, LogRow, AuditRow, LiveSession
<1>3. TypeOK' /\ UNCHANGED <<accounts, roles, nonces, pc, req, tx>>
  BY <1>1, <1>2 DEF RevokeSession, TypeOK
<1> QED
  BY <1>3, QuietStep

-----------------------------------------------------------------------------
(* Arrivals *)

\* Facts about the domains of requests that the arrivals use.
LEMMA RequestOps == Ops \subseteq AllOps /\ "LOGIN" \in AllOps /\ "REFRESH" \in AllOps
BY OpsAssumption DEF AllOps

\* A request that arrives in an idle slot keeps the invariant when it is well
\* typed and names an existing account unless it is a LOGIN or a REFRESH.
LEMMA StartInv ==
  ASSUME Inv, NEW p \in Proc, NEW r \in Request, Start(p, r),
         r.op = "LOGIN" => r.acct = None,
         r.op # "LOGIN" => r.acct # None,
         r.op \notin {"LOGIN", "REFRESH"} => accounts[r.acct] # None
  PROVE  Inv'
<1>1. TypeOK /\ Shape
  BY DEF Inv
<1>2. /\ pc' = [pc EXCEPT ![p] = 1] /\ req' = [req EXCEPT ![p] = r]
      /\ audit' = {} /\ UNCHANGED <<wallets, accounts, roles, nonces, sessions, tx>>
  BY DEF Start, tables
<1>3. tx[p] = NoTx
  BY <1>1 DEF Start, Shape
<1>4. TypeOK'
  BY <1>1, <1>2 DEF TypeOK
<1>5. Shape'
  <2> SUFFICES ASSUME NEW q \in Proc
               PROVE Shape!(q)'
    BY DEF Shape
  <2>1. CASE q = p
    <3>1. req'[q] = r /\ pc'[q] = 1 /\ tx'[q] = NoTx
      BY <1>1, <1>2, <1>3, <2>1 DEF TypeOK
    <3>2. NoTx.owner = None /\ NoTx.ins = {} /\ NoTx.found = {} /\ NoTx.del = {}
      BY DEF NoTx
    <3> QED
      BY <1>2, <3>1, <3>2 DEF Idle
  <2>2. CASE q # p
    BY <1>1, <1>2, <2>2 DEF Shape, Idle, TypeOK
  <2> QED
    BY <2>1, <2>2
<1>6. OwnWrites'
  BY <1>1, <1>2, <1>3 DEF Inv, OwnWrites, TypeOK, NoTx
<1>7. KeyClaims' /\ OneHolderPerRole' /\ NonceExclusive' /\ OwnerAgreement'
  BY <1>2 DEF Inv, KeyClaims, OneHolderPerRole, NonceExclusive, OwnerAgreement,
     OwnerInvariant, OwnerRows
<1> QED
  BY <1>4, <1>5, <1>6, <1>7 DEF Inv

\* A login is about no account yet.
LEMMA StartLoginInv ==
  ASSUME Inv, NEW p \in Proc, NEW w \in Wallet, NEW n \in Nonce, StartLogin(p, w, n)
  PROVE  Inv'
<1> DEFINE r == Ask("LOGIN", None, w, w, n, None, None, {"LOGIN"})
<1>1. r \in Request /\ r.op = "LOGIN" /\ r.acct = None
  BY RequestOps DEF Ask, Request, Purpose
<1>2. Start(p, r)
  BY DEF StartLogin
<1> QED
  BY <1>1, <1>2, StartInv

\* What the wallets of an authenticated request have signed names purposes.
LEMMA AuthenticatedStarts ==
  ASSUME TypeOK, NEW p \in Proc, NEW s \in Session, NEW op \in Ops, NEW w \in Wallet,
         NEW m \in Nonce, NEW n \in Nonce, StartAuthenticated(p, s, op, w, m, n)
  PROVE  \E signed \in SUBSET Purpose :
           Start(p, Ask(op, sessions[s].acct, sessions[s].wallet, w, m, n, None, signed))
<1>1. nonces[m].purpose \in Purpose /\ nonces[n].purpose \in Purpose
  BY DEF StartAuthenticated, TypeOK, Challenge
<1>2. NoncePurposeFor(op) \in Purpose
  BY DEF NoncePurposeFor, Purpose
<1> QED
  BY <1>1, <1>2 DEF StartAuthenticated, Signable

\* An authenticated request is about the account of its session.
LEMMA StartAuthenticatedInv ==
  ASSUME Inv, NEW p \in Proc, NEW s \in Session, NEW op \in Ops, NEW w \in Wallet,
         NEW m \in Nonce, NEW n \in Nonce, StartAuthenticated(p, s, op, w, m, n)
  PROVE  Inv'
<1>0. PICK signed \in SUBSET Purpose :
        Start(p, Ask(op, sessions[s].acct, sessions[s].wallet, w, m, n, None, signed))
  BY AuthenticatedStarts DEF Inv
<1> DEFINE r == Ask(op, sessions[s].acct, sessions[s].wallet, w, m, n, None, signed)
<1>1. sessions[s] \in LiveSession /\ accounts[sessions[s].acct] # None
  BY DEF Inv, StartAuthenticated, Usable, TypeOK
<1>2. r \in Request /\ r.op = op /\ r.acct = sessions[s].acct
  BY <1>1, RequestOps DEF Ask, Request, LiveSession
<1>3. r.acct \in Account /\ op \notin {"LOGIN", "REFRESH"}
  BY <1>1, <1>2 DEF LiveSession, StartAuthenticated
<1> QED
  BY <1>0, <1>1, <1>2, <1>3, StartInv, NoneAssumption

\* A refresh is about the account of the session whose token it brings.
LEMMA StartRefreshInv ==
  ASSUME Inv, NEW p \in Proc, NEW s \in Session, StartRefresh(p, s)
  PROVE  Inv'
<1> DEFINE r == Ask("REFRESH", sessions[s].acct, sessions[s].wallet,
                  sessions[s].wallet, None, None, s, {})
<1>1. sessions[s] \in LiveSession
  BY DEF Inv, StartRefresh, TypeOK
<1>2. r \in Request /\ r.op = "REFRESH" /\ r.acct \in Account
  BY <1>1, RequestOps DEF Ask, Request, LiveSession
<1>3. Start(p, r)
  BY DEF StartRefresh
<1> QED
  BY <1>2, <1>3, StartInv, NoneAssumption

-----------------------------------------------------------------------------
(* Leaving *)

\* A request that leaves holds nothing and has changed no role, no account and no
\* nonce.
LEMMA LeaveInv ==
  ASSUME Inv, NEW p \in Proc, Finish(p), tx' = [tx EXCEPT ![p] = NoTx],
         UNCHANGED <<wallets, accounts, roles, nonces>>,
         sessions' \in [Session -> LiveSession \cup {None}], audit' \subseteq AuditRow
  PROVE  Inv'
<1>1. TypeOK /\ Shape
  BY DEF Inv
<1>2. /\ pc' = [pc EXCEPT ![p] = 0] /\ req' = [req EXCEPT ![p] = NoRequest]
      /\ tx' = [tx EXCEPT ![p] = NoTx]
      /\ UNCHANGED <<wallets, accounts, roles, nonces>>
  BY DEF Finish
<1>3. TypeOK'
  BY <1>1, <1>2, IdleTypes DEF TypeOK
<1>4. /\ NoTx.owner = None /\ NoTx.ins = {} /\ NoTx.found = {} /\ NoTx.del = {}
      /\ NoTx.held = {} /\ NoRequest.op = "LOGIN" /\ NoRequest.acct = None
  BY DEF NoTx, NoRequest, Ask
<1>5. Shape'
  <2> SUFFICES ASSUME NEW q \in Proc
               PROVE Shape!(q)'
    BY DEF Shape
  <2>1. CASE q = p
    <3>1. req'[q] = NoRequest /\ pc'[q] = 0 /\ tx'[q] = NoTx
      BY <1>1, <1>2, <2>1 DEF TypeOK
    <3> QED
      BY <1>2, <1>4, <3>1 DEF Idle
  <2>2. CASE q # p
    BY <1>1, <1>2, <2>2 DEF Shape, Idle, TypeOK
  <2> QED
    BY <2>1, <2>2
<1>6. OwnWrites' /\ KeyClaims' /\ NonceExclusive'
  BY <1>1, <1>2, <1>4 DEF Inv, OwnWrites, KeyClaims, NonceExclusive, TypeOK
<1>7. OneHolderPerRole' /\ OwnerAgreement'
  BY <1>2 DEF Inv, OneHolderPerRole, OwnerAgreement, OwnerInvariant, OwnerRows
<1> QED
  BY <1>3, <1>5, <1>6, <1>7 DEF Inv

\* A rolled-back request leaves the tables as they are.
LEMMA RollbackInv == ASSUME Inv, NEW p \in Proc, Rollback(p) PROVE Inv'
<1>1. /\ Finish(p) /\ tx' = [tx EXCEPT ![p] = NoTx] /\ audit' = {}
      /\ UNCHANGED <<wallets, accounts, roles, nonces, sessions>>
  BY DEF Rollback, tables
<1>2. sessions' \in [Session -> LiveSession \cup {None}]
  BY <1>1 DEF Inv, TypeOK
<1> QED
  BY <1>1, <1>2, LeaveInv

-----------------------------------------------------------------------------
(* Statements inside and around a transaction *)

\* What a statement may make of its transaction t: the rows are of p's account,
\* the staged rows collide with nothing, and the nonces are p's alone.
Staged(p, t) ==
  /\ \A r \in t.found \cup t.del \cup t.ins : r.acct = req[p].acct
  /\ \A r \in t.ins :
       /\ \A k \in roles \ t.del : ~Conflict(r, k)
       /\ \A q \in Proc \ {p} : \A k \in tx[q].ins : ~Conflict(r, k)
       /\ \A k \in t.ins : Conflict(r, k) => r = k
  /\ \A n \in t.held :
       nonces[n] # None /\ \A q \in Proc \ {p} : n \notin tx[q].held

\* Colliding is symmetric.
LEMMA ConflictSymmetric ==
  ASSUME NEW r, NEW k PROVE Conflict(r, k) <=> Conflict(k, r)
BY DEF Conflict

\* What p has staged so far is fit to be staged.
LEMMA StagedNow ==
  ASSUME Inv, NEW p \in Proc PROVE Staged(p, tx[p])
<1>1. OwnWrites /\ KeyClaims /\ NonceExclusive
  BY DEF Inv
<1>2. \A r \in tx[p].found \cup tx[p].del \cup tx[p].ins : r.acct = req[p].acct
  BY <1>1 DEF OwnWrites
<1>3. \A r \in tx[p].ins :
        /\ \A k \in roles \ tx[p].del : ~Conflict(r, k)
        /\ \A q \in Proc \ {p} : \A k \in tx[q].ins : ~Conflict(r, k)
        /\ \A k \in tx[p].ins : Conflict(r, k) => r = k
  BY <1>1 DEF KeyClaims
<1>4. \A n \in tx[p].held :
        nonces[n] # None /\ \A q \in Proc \ {p} : n \notin tx[q].held
  BY <1>1 DEF NonceExclusive
<1> QED
  BY <1>2, <1>3, <1>4 DEF Staged

\* A change of p's transaction alone to something fit keeps the three
\* invariants about transactions.
LEMMA StageInv ==
  ASSUME Inv, NEW p \in Proc, NEW t \in Transaction, Staged(p, t),
         tx' = [tx EXCEPT ![p] = t], UNCHANGED <<roles, nonces, req>>
  PROVE  OwnWrites' /\ KeyClaims' /\ NonceExclusive'
<1>1. TypeOK /\ OwnWrites /\ KeyClaims /\ NonceExclusive
  BY DEF Inv
<1>2. tx'[p] = t /\ \A q \in Proc \ {p} : tx'[q] = tx[q]
  BY <1>1 DEF TypeOK
<1>3. OwnWrites'
  BY <1>1, <1>2 DEF OwnWrites, Staged
<1>4. KeyClaims'
  <2> SUFFICES ASSUME NEW q \in Proc, NEW r \in tx'[q].ins
               PROVE  /\ \A k \in roles' \ tx'[q].del : ~Conflict(r, k)
                      /\ \A o \in Proc \ {q} : \A k \in tx'[o].ins : ~Conflict(r, k)
                      /\ \A k \in tx'[q].ins : Conflict(r, k) => r = k
    BY DEF KeyClaims
  <2>1. CASE q = p
    BY <1>2, <2>1 DEF Staged
  <2>2. CASE q # p
    <3>1. /\ \A k \in roles \ tx[q].del : ~Conflict(r, k)
          /\ \A o \in Proc \ {q} : \A k \in tx[o].ins : ~Conflict(r, k)
          /\ \A k \in tx[q].ins : Conflict(r, k) => r = k
      BY <1>1, <1>2, <2>2 DEF KeyClaims
    <3>2. \A k \in t.ins : ~Conflict(r, k)
      BY <1>2, <2>2, ConflictSymmetric DEF Staged
    <3> QED
      BY <1>2, <2>2, <3>1, <3>2
  <2> QED
    BY <2>1, <2>2
<1>5. NonceExclusive'
  BY <1>1, <1>2 DEF NonceExclusive, Staged
<1> QED
  BY <1>3, <1>4, <1>5

\* A statement that leaves the tables and the parameters of the request alone.
LEMMA StepInv ==
  ASSUME Inv, NEW p \in Proc, NEW t \in Transaction, Staged(p, t),
         NEW stmt \in {"check", "consume", "consume2", "read", "scan", "delete",
                       "insert", "kill"},
         Step(p, stmt, t), UNCHANGED req,
         stmt = "insert" => req[p].op # "LOGIN",
         stmt \in {"consume", "read"} =>
           /\ t.owner = tx[p].owner /\ t.ins = tx[p].ins
           /\ t.del = tx[p].del /\ t.found = tx[p].found
  PROVE  Inv'
<1>1. TypeOK /\ Shape
  BY DEF Inv
<1>2. /\ At(p, stmt) /\ pc' = [pc EXCEPT ![p] = @ + 1] /\ tx' = [tx EXCEPT ![p] = t]
      /\ audit' = {} /\ UNCHANGED <<wallets, accounts, roles, nonces, sessions>>
  BY DEF Step, Advance, tables
<1>3. TypeOK'
  BY <1>1, <1>2 DEF TypeOK
<1>4. Shape'
  <2> SUFFICES ASSUME NEW q \in Proc
               PROVE Shape!(q)'
    BY DEF Shape
  <2>1. CASE q # p
    BY <1>1, <1>2, <2>1 DEF Shape, Idle, TypeOK
  <2>2. CASE q = p
    <3>1. pc'[p] = pc[p] + 1 /\ tx'[p] = t /\ req'[p] = req[p] /\ pc[p] \in Nat
      BY <1>1, <1>2 DEF TypeOK
    <3>2. req[p].op # "REFRESH"
      BY <1>1, <1>2, RefreshAt
    <3>3. CASE req[p].op # "LOGIN"
      BY <1>1, <1>2, <2>2, <3>1, <3>2, <3>3 DEF Shape, Idle
    <3>4. CASE req[p].op = "LOGIN"
      <4>1. stmt \in {"consume", "read"} /\ pc[p] \in 1 .. 2
        BY <1>1, <1>2, <3>4, LoginAt
      <4>2. /\ req[p].acct = None /\ t.owner = None
            /\ t.found \cup t.del \cup t.ins = {}
        BY <1>1, <3>4, <4>1 DEF Shape
      <4> QED
        BY <2>2, <3>1, <3>4, <4>1, <4>2 DEF Idle
    <3> QED
      BY <3>3, <3>4
  <2> QED
    BY <2>1, <2>2
<1>5. OwnWrites' /\ KeyClaims' /\ NonceExclusive'
  BY <1>2, StageInv
<1>6. OneHolderPerRole' /\ OwnerAgreement'
  BY <1>2 DEF Inv, OneHolderPerRole, OwnerAgreement, OwnerInvariant, OwnerRows
<1> QED
  BY <1>3, <1>4, <1>5, <1>6 DEF Inv

\* The authorisation read stages nothing.
LEMMA CheckInv == ASSUME Inv, NEW p \in Proc, Check(p) PROVE Inv'
<1>1. tx[p] \in Transaction
  BY DEF Inv, TypeOK
<1> QED
  BY <1>1, StagedNow, StepInv DEF Check

\* A consumed nonce is live and no other transaction holds it: a second
\* transaction waits for the first, and finds the nonce gone.
LEMMA ConsumeInv == ASSUME Inv, NEW p \in Proc, Consume(p) PROVE Inv'
<1> DEFINE n == NonceOf(p)
           t == [tx[p] EXCEPT !.held = @ \cup {n}]
<1>1. TypeOK
  BY DEF Inv
<1>2. PICK stmt \in {"consume", "consume2"} : Step(p, stmt, t) /\ UNCHANGED req
  BY DEF Consume
<1>3. NonceMatches(p) /\ \A q \in Proc \ {p} : n \notin tx[q].held
  BY <1>2 DEF Step, Rejected, Blocked, WaitsFor, ConsumeWaits, Consuming
<1>4. n \in Nonce /\ nonces[n] # None
  <2>1. n \in Nonce
    BY <1>1, <1>3 DEF NonceMatches, NonceOf, TypeOK, Request
  <2>2. SignerOf(p) \in Wallet /\ NoncePurposeFor(req[p].op) \in Purpose
    BY <1>1 DEF SignerOf, NoncePurposeFor, Purpose, TypeOK, Request
  <2>3. nonces[n] \in Challenge
    BY <1>3, <2>2 DEF NonceMatches, Challenge
  <2> QED
    BY <2>1, <2>3, NoneAssumption
<1>5. /\ t \in Transaction /\ t.held = tx[p].held \cup {n} /\ t.owner = tx[p].owner
      /\ t.ins = tx[p].ins /\ t.del = tx[p].del /\ t.found = tx[p].found
  BY <1>1, <1>4 DEF TypeOK, Transaction
<1>6. Staged(p, t)
  <2>1. Staged(p, tx[p])
    BY StagedNow
  <2> QED
    BY <1>3, <1>4, <1>5, <2>1 DEF Staged
<1> QED
  BY <1>2, <1>5, <1>6, StepInv

\* A SELECT stages nothing.
LEMMA ReadInv == ASSUME Inv, NEW p \in Proc, Read(p) PROVE Inv'
<1> DEFINE t == [tx[p] EXCEPT !.seen = Selected(p)]
<1>1. TypeOK
  BY DEF Inv
<1>2. Selected(p) \subseteq RoleRow
  BY <1>1 DEF Selected, TypeOK, Transaction
<1>3. /\ t \in Transaction /\ t.held = tx[p].held /\ t.owner = tx[p].owner
      /\ t.ins = tx[p].ins /\ t.del = tx[p].del /\ t.found = tx[p].found
  BY <1>1, <1>2 DEF TypeOK, Transaction
<1>4. Staged(p, t)
  BY <1>3, StagedNow DEF Staged
<1> QED
  BY <1>3, <1>4, StepInv DEF Read

\* The rows a DELETE matches are of the request's own account.
LEMMA ScanInv == ASSUME Inv, NEW p \in Proc, Scan(p) PROVE Inv'
<1> DEFINE t == [tx[p] EXCEPT !.found = Deletable(p)]
<1>1. TypeOK
  BY DEF Inv
<1>2. Deletable(p) \subseteq RoleRow /\ \A r \in Deletable(p) : r.acct = req[p].acct
  BY <1>1 DEF Deletable, TypeOK
<1>3. /\ t \in Transaction /\ t.held = tx[p].held /\ t.found = Deletable(p)
      /\ t.ins = tx[p].ins /\ t.del = tx[p].del
  BY <1>1, <1>2 DEF TypeOK, Transaction
<1>4. Staged(p, t)
  BY <1>2, <1>3, StagedNow DEF Staged
<1> QED
  BY <1>3, <1>4, StepInv DEF Scan

\* The rows a DELETE removes are among the rows it has matched.
LEMMA DeleteInv == ASSUME Inv, NEW p \in Proc, Delete(p) PROVE Inv'
<1> DEFINE t == [tx[p] EXCEPT !.del = @ \cup (tx[p].found \cap roles), !.found = {}]
<1>1. TypeOK
  BY DEF Inv
<1>2. /\ t \in Transaction /\ t.held = tx[p].held /\ t.found = {}
      /\ t.ins = tx[p].ins /\ t.del = tx[p].del \cup (tx[p].found \cap roles)
  BY <1>1 DEF TypeOK, Transaction
<1>3. Staged(p, t)
  BY <1>2, StagedNow DEF Staged
<1> QED
  BY <1>2, <1>3, StepInv DEF Delete

\* The revocation of sessions touches no role and no nonce.
LEMMA KillSessionsInv == ASSUME Inv, NEW p \in Proc, KillSessions(p) PROVE Inv'
<1> DEFINE t == [tx[p] EXCEPT !.dead =
       {s \in Session : sessions[s] # None /\ sessions[s].wallet \in Losers(p)}]
<1>1. TypeOK
  BY DEF Inv
<1>2. /\ t \in Transaction /\ t.held = tx[p].held /\ t.found = tx[p].found
      /\ t.ins = tx[p].ins /\ t.del = tx[p].del
  BY <1>1 DEF TypeOK, Transaction
<1>3. Staged(p, t)
  BY <1>2, StagedNow DEF Staged
<1> QED
  BY <1>2, <1>3, StepInv DEF KillSessions

\* The rows an insert adds: of the request's account, without a collision among
\* themselves.
LEMMA NewRowsFacts ==
  ASSUME Inv, NEW p \in Proc, req[p].op # "LOGIN"
  PROVE  /\ NewRows(p) \subseteq RoleRow
         /\ \A r \in NewRows(p) : r.acct = req[p].acct
         /\ \A r, k \in NewRows(p) : Conflict(r, k) => r = k
<1>1. req[p].acct \in Account /\ req[p].target \in Wallet
  BY DEF Inv, TypeOK, Shape, Request
<1> DEFINE row(role) == Row(req[p].acct, req[p].target, role)
<1>2. \A role \in Role : row(role) \in RoleRow /\ row(role).acct = req[p].acct
                         /\ row(role).role = role
  BY <1>1 DEF Row, RoleRow
<1>3. NewRows(p) \subseteq {row("OWNER"), row("AUTH"), row("STANDARD"), row("RECOVERY")}
  BY DEF NewRows
<1> HIDE DEF row
<1> QED
  BY <1>2, <1>3 DEF Conflict, Role

\* An insert that neither fails on a unique key nor waits for one stages rows
\* that collide with nothing.
LEMMA InsertInv == ASSUME Inv, NEW p \in Proc, Insert(p) PROVE Inv'
<1> DEFINE t == [tx[p] EXCEPT !.ins = NewRows(p), !.del = @ \cup Stripped(p),
                              !.owner = NewOwner(p)]
<1>1. TypeOK
  BY DEF Inv
<1>2. /\ req[p].op # "LOGIN" /\ Step(p, "insert", t) /\ UNCHANGED req
      /\ At(p, "insert") /\ ~Rejected(p) /\ ~Blocked(p)
  BY DEF Insert, Step
<1>3. /\ NewRows(p) \subseteq RoleRow
      /\ \A r \in NewRows(p) : r.acct = req[p].acct
      /\ \A r, k \in NewRows(p) : Conflict(r, k) => r = k
  BY <1>2, NewRowsFacts
<1>4. \A r \in NewRows(p), k \in roles \ tx[p].del : ~Conflict(r, k)
  BY <1>2 DEF Rejected, DuplicateKey
<1>5. \A q \in Proc \ {p} : \A r \in NewRows(p), k \in tx[q].ins : ~Conflict(r, k)
  BY <1>2 DEF Blocked, WaitsFor
<1>6. Stripped(p) \subseteq RoleRow /\ \A r \in Stripped(p) : r.acct = req[p].acct
  BY <1>1 DEF Stripped, TypeOK, Row
<1>7. NewOwner(p) \in Wallet \cup {None}
  BY <1>1 DEF NewOwner, TypeOK, Request
<1>8. /\ t \in Transaction /\ t.held = tx[p].held /\ t.found = tx[p].found
      /\ t.ins = NewRows(p) /\ t.del = tx[p].del \cup Stripped(p)
  BY <1>1, <1>3, <1>6, <1>7 DEF TypeOK, Transaction
<1>9. Staged(p, t)
  BY <1>3, <1>4, <1>5, <1>6, <1>8, StagedNow DEF Staged
<1> QED
  BY <1>2, <1>8, <1>9, StepInv

-----------------------------------------------------------------------------
(* The statements of a login that find or make its account *)

\* A login that finds its account, or none, stages nothing.
LEMMA LookUpAccountInv == ASSUME Inv, NEW p \in Proc, LookUpAccount(p) PROVE Inv'
<1>1. TypeOK /\ Shape
  BY DEF Inv
<1>2. PICK a \in Account \cup {None} : req' = [req EXCEPT ![p].acct = a]
  BY DEF LookUpAccount, AccountsOf
<1>3. /\ req[p].op = "LOGIN" /\ At(p, "insert") /\ pc' = [pc EXCEPT ![p] = @ + 1]
      /\ tx' = [tx EXCEPT ![p] = tx[p]]
      /\ audit' = {} /\ UNCHANGED <<wallets, accounts, roles, nonces, sessions>>
  BY DEF LookUpAccount, Step, Advance, tables
<1>4. tx' = tx /\ pc[p] = 3 /\ pc'[p] = 4
  BY <1>1, <1>3, LoginAt DEF TypeOK
<1>5. /\ tx[p].found \cup tx[p].del \cup tx[p].ins = {} /\ tx[p].owner = None
  BY <1>1, <1>3, <1>4 DEF Shape
<1>6. TypeOK'
  <2>1. [req[p] EXCEPT !.acct = a] \in Request
    BY <1>1 DEF TypeOK, Request
  <2>2. req' \in [Proc -> Request]
    BY <1>1, <1>2, <2>1 DEF TypeOK
  <2>3. pc' \in [Proc -> Nat]
    BY <1>1, <1>3, <1>4 DEF TypeOK
  <2> QED
    BY <1>1, <1>3, <1>4, <2>2, <2>3 DEF TypeOK
<1>7. /\ req'[p].op = "LOGIN"
      /\ \A q \in Proc \ {p} : req'[q] = req[q] /\ pc'[q] = pc[q]
  BY <1>1, <1>2, <1>3 DEF TypeOK, Request
<1>8. Shape'
  <2> SUFFICES ASSUME NEW q \in Proc PROVE Shape!(q)'
    BY DEF Shape
  <2>1. CASE q = p
    BY <1>4, <1>5, <1>7, <2>1 DEF Idle
  <2>2. CASE q # p
    BY <1>1, <1>3, <1>4, <1>7, <2>2 DEF Shape, Idle
  <2> QED
    BY <2>1, <2>2
<1>9. OwnWrites'
  BY <1>4, <1>5, <1>7 DEF Inv, OwnWrites
<1>10. KeyClaims' /\ NonceExclusive'
  BY <1>3, <1>4 DEF Inv, KeyClaims, NonceExclusive
<1>11. OneHolderPerRole' /\ OwnerAgreement'
  BY <1>3 DEF Inv, OneHolderPerRole, OwnerAgreement, OwnerInvariant, OwnerRows
<1> QED
  BY <1>6, <1>8, <1>9, <1>10, <1>11 DEF Inv

\* A login that makes an account stages rows of an id nobody else has.
LEMMA ProvisionAccountInv ==
  ASSUME Inv, NEW p \in Proc, ProvisionAccount(p) PROVE Inv'
<1>1. TypeOK /\ Shape /\ OwnWrites /\ KeyClaims /\ NonceExclusive /\ OwnerAgreement
  BY DEF Inv
<1> DEFINE w == req[p].target
<1>2. PICK a \in Account :
        /\ FreshAccount(a)
        /\ Step(p, "insert", [tx[p] EXCEPT !.ins = {Row(a, w, "OWNER"), Row(a, w, "AUTH")},
                                           !.owner = w])
        /\ req' = [req EXCEPT ![p].acct = a]
  BY DEF ProvisionAccount
<1> DEFINE rows == {Row(a, w, "OWNER"), Row(a, w, "AUTH")}
           t == [tx[p] EXCEPT !.ins = rows, !.owner = w]
<1>3. /\ req[p].op = "LOGIN" /\ At(p, "insert") /\ pc' = [pc EXCEPT ![p] = @ + 1]
      /\ tx' = [tx EXCEPT ![p] = t]
      /\ audit' = {} /\ UNCHANGED <<wallets, accounts, roles, nonces, sessions>>
  BY <1>2 DEF ProvisionAccount, Step, Advance, tables
<1>4. w \in Wallet /\ pc[p] = 3
  BY <1>1, <1>3, LoginAt DEF TypeOK, Request
<1>5. /\ rows \subseteq RoleRow
      /\ \A r \in rows : r.acct = a
      /\ \A r, k \in rows : Conflict(r, k) => r = k
  BY <1>4 DEF Row, RoleRow, Role, Conflict
<1> HIDE DEF rows
<1>6. /\ t \in Transaction /\ t.held = tx[p].held /\ t.ins = rows
      /\ t.del = tx[p].del /\ t.found = tx[p].found /\ t.owner = w
  BY <1>1, <1>4, <1>5 DEF TypeOK, Transaction
<1>7. tx[p].found = {} /\ tx[p].del = {}
  BY <1>1, <1>3, <1>4 DEF Shape
<1> HIDE DEF t
<1>8. /\ tx'[p] = t /\ pc'[p] = 4
      /\ req'[p].op = "LOGIN" /\ req'[p].acct = a
      /\ \A q \in Proc \ {p} : tx'[q] = tx[q] /\ req'[q] = req[q] /\ pc'[q] = pc[q]
  BY <1>1, <1>2, <1>3, <1>4 DEF TypeOK, Request
<1>9. TypeOK'
  <2>1. req' \in [Proc -> Request]
    BY <1>1, <1>2 DEF TypeOK, Request
  <2>2. tx' \in [Proc -> Transaction] /\ pc' \in [Proc -> Nat]
    BY <1>1, <1>3, <1>6 DEF TypeOK
  <2> QED
    BY <1>1, <1>3, <2>1, <2>2 DEF TypeOK
<1>10. Shape'
  <2> SUFFICES ASSUME NEW q \in Proc PROVE Shape!(q)'
    BY DEF Shape
  <2>1. CASE q = p
    BY <1>4, <1>6, <1>8, <2>1, NoneAssumption DEF Idle
  <2>2. CASE q # p
    BY <1>1, <1>3, <1>8, <2>2 DEF Shape, Idle
  <2> QED
    BY <2>1, <2>2
<1>11. OwnWrites'
  BY <1>1, <1>5, <1>6, <1>7, <1>8 DEF OwnWrites
<1>12. \A r \in rows : \A k \in roles : ~Conflict(r, k)
  BY <1>1, <1>2, <1>5 DEF FreshAccount, OwnerAgreement, Conflict
<1>13. \A r \in rows : \A q \in Proc \ {p} : \A k \in tx[q].ins :
         ~Conflict(r, k) /\ ~Conflict(k, r)
  BY <1>1, <1>2, <1>5 DEF FreshAccount, OwnWrites, Conflict
<1>14. KeyClaims'
  <2> SUFFICES ASSUME NEW q \in Proc, NEW r \in tx'[q].ins
               PROVE  /\ \A k \in roles' \ tx'[q].del : ~Conflict(r, k)
                      /\ \A o \in Proc \ {q} : \A k \in tx'[o].ins : ~Conflict(r, k)
                      /\ \A k \in tx'[q].ins : Conflict(r, k) => r = k
    BY DEF KeyClaims
  <2>1. CASE q = p
    BY <1>3, <1>5, <1>6, <1>8, <1>12, <1>13, <2>1
  <2>2. CASE q # p
    <3>1. /\ \A k \in roles \ tx[q].del : ~Conflict(r, k)
          /\ \A o \in Proc \ {q} : \A k \in tx[o].ins : ~Conflict(r, k)
          /\ \A k \in tx[q].ins : Conflict(r, k) => r = k
      BY <1>1, <1>8, <2>2 DEF KeyClaims
    <3> QED
      BY <1>3, <1>6, <1>8, <1>13, <2>2, <3>1
  <2> QED
    BY <2>1, <2>2
<1>15. NonceExclusive'
  BY <1>1, <1>3, <1>6, <1>8 DEF NonceExclusive
<1>16. OneHolderPerRole' /\ OwnerAgreement'
  BY <1>3 DEF Inv, OneHolderPerRole, OwnerAgreement, OwnerInvariant, OwnerRows
<1> QED
  BY <1>9, <1>10, <1>11, <1>14, <1>15, <1>16 DEF Inv

-----------------------------------------------------------------------------
(* Commit *)

\* What p's commit writes, with the types of the written values.
LEMMA CommitTypes == ASSUME Inv, NEW p \in Proc, Commit(p) PROVE TypeOK'
<1>1. TypeOK /\ Shape
  BY DEF Inv
<1>2. req[p] \in Request /\ tx[p] \in Transaction
  BY <1>1 DEF TypeOK
<1>3. roles' \subseteq RoleRow
  BY <1>1, <1>2 DEF Commit, RolesAfter, TypeOK, Transaction
<1>4. accounts' \in [Account -> Wallet \cup {None}]
  BY <1>1, <1>2 DEF Commit, AccountsAfter, TypeOK, Transaction, Request
<1>5. /\ nonces' \in [Nonce -> Challenge \cup {None}]
      /\ sessions' \in [Session -> LiveSession \cup {None}]
      /\ wallets' \subseteq Wallet
  BY <1>1 DEF Commit, TypeOK
<1>6. audit' \subseteq AuditRow
  <2>1. CASE req[p].op = "LOGIN" /\ tx[p].owner = None
    BY <2>1 DEF Commit
  <2>2. CASE ~(req[p].op = "LOGIN" /\ tx[p].owner = None)
    <3>1. req[p].acct \in Account
      BY <1>1, <1>2, <2>2 DEF Shape, Request
    <3>2. At(p, "commit")
      BY DEF Commit
    <3>3. req[p].op # "REFRESH"
      BY <1>1, <3>2, RefreshAt
    <3>4. req[p].op \in DOMAIN AuditAction
      BY <1>2, <3>3 DEF Request, AllOps, RoleOps, AuditAction
    <3>5. AuditAction[req[p].op] \in {AuditAction[op] : op \in DOMAIN AuditAction}
      BY <3>4
    <3>6. OutcomeRow(req[p]) \in AuditRow
      BY <1>2, <3>1, <3>5 DEF OutcomeRow, LogRow, AuditRow, Request
    <3> QED
      BY <2>2, <3>6 DEF Commit
  <2> QED
    BY <2>1, <2>2
<1>7. /\ pc' \in [Proc -> Nat] /\ req' \in [Proc -> Request]
      /\ tx' \in [Proc -> Transaction]
  BY <1>1, IdleTypes DEF Commit, Advance, Finish, TypeOK
<1> QED
  BY <1>3, <1>4, <1>5, <1>6, <1>7 DEF TypeOK

\* The request that commits, and the others.
LEMMA CommitControl ==
  ASSUME Inv, NEW p \in Proc, Commit(p)
  PROVE  /\ tx'[p] = NoTx
         /\ IF req[p].op = "LOGIN" THEN pc'[p] = 5 /\ req'[p] = req[p]
            ELSE pc'[p] = 0 /\ req'[p] = NoRequest
         /\ \A q \in Proc \ {p} :
              tx'[q] = tx[q] /\ req'[q] = req[q] /\ pc'[q] = pc[q]
<1>1. TypeOK /\ Shape /\ At(p, "commit")
  BY DEF Inv, Commit
<1>2. req[p].op = "LOGIN" => pc[p] = 4
  BY <1>1, LoginAt
<1> QED
  BY <1>1, <1>2 DEF Commit, Advance, Finish, TypeOK

\* A commit leaves every request where its program says.
LEMMA CommitShape == ASSUME Inv, NEW p \in Proc, Commit(p) PROVE Shape'
<1>1. TypeOK /\ Shape
  BY DEF Inv
<1>2. \A a \in Account : accounts[a] # None => accounts'[a] # None
  BY <1>1, NoneAssumption DEF Commit, AccountsAfter, TypeOK, Transaction
<1>3. /\ NoTx.owner = None /\ NoTx.ins = {} /\ NoTx.found = {} /\ NoTx.del = {}
      /\ NoRequest.op = "LOGIN" /\ NoRequest.acct = None
  BY DEF NoTx, NoRequest, Ask
<1> SUFFICES ASSUME NEW q \in Proc PROVE Shape!(q)'
  BY DEF Shape
<1>4. CASE q = p
  <2>1. CASE req[p].op = "LOGIN"
    <3>1. tx'[q] = NoTx /\ pc'[q] = 5 /\ req'[q].op = "LOGIN"
      BY <1>4, <2>1, CommitControl
    <3> QED
      BY <1>3, <3>1 DEF Idle
  <2>2. CASE req[p].op # "LOGIN"
    <3>1. tx'[q] = NoTx /\ pc'[q] = 0 /\ req'[q] = NoRequest
      BY <1>4, <2>2, CommitControl
    <3> QED
      BY <1>3, <3>1 DEF Idle
  <2> QED
    BY <2>1, <2>2
<1>5. CASE q # p
  <2>1. tx'[q] = tx[q] /\ req'[q] = req[q] /\ pc'[q] = pc[q]
    BY <1>5, CommitControl
  <2>2. req[q].acct \in Account \cup {None}
    BY <1>1 DEF TypeOK, Request
  <2>3. req[q].acct # None => req[q].acct \in Account
    BY <2>2
  <2> QED
    BY <1>1, <1>2, <2>1, <2>3 DEF Shape, Idle
<1> QED
  BY <1>4, <1>5

\* A commit publishes rows that collide with nothing another transaction has
\* staged, and burns nonces no other transaction holds.
LEMMA CommitClaims ==
  ASSUME Inv, NEW p \in Proc, Commit(p)
  PROVE  OwnWrites' /\ KeyClaims' /\ NonceExclusive'
<1>1. TypeOK /\ OwnWrites /\ KeyClaims /\ NonceExclusive
  BY DEF Inv
<1>2. /\ NoTx.ins = {} /\ NoTx.found = {} /\ NoTx.del = {} /\ NoTx.held = {}
  BY DEF NoTx
<1>3. /\ tx'[p] = NoTx
      /\ \A q \in Proc \ {p} : tx'[q] = tx[q] /\ req'[q] = req[q]
  BY CommitControl
<1>4. OwnWrites'
  BY <1>1, <1>2, <1>3 DEF OwnWrites
<1>5. KeyClaims'
  <2> SUFFICES ASSUME NEW q \in Proc, NEW r \in tx'[q].ins
               PROVE  /\ \A k \in roles' \ tx'[q].del : ~Conflict(r, k)
                      /\ \A o \in Proc \ {q} : \A k \in tx'[o].ins : ~Conflict(r, k)
                      /\ \A k \in tx'[q].ins : Conflict(r, k) => r = k
    BY DEF KeyClaims
  <2>1. q # p /\ r \in tx[q].ins /\ tx'[q] = tx[q]
    BY <1>2, <1>3
  <2>2. /\ \A k \in roles \ tx[q].del : ~Conflict(r, k)
        /\ \A o \in Proc \ {q} : \A k \in tx[o].ins : ~Conflict(r, k)
        /\ \A k \in tx[q].ins : Conflict(r, k) => r = k
    BY <1>1, <2>1 DEF KeyClaims
  <2>3. roles' \subseteq roles \cup tx[p].ins
    BY DEF Commit, RolesAfter
  <2> QED
    BY <1>2, <1>3, <2>1, <2>2, <2>3
<1>6. NonceExclusive'
  <2> SUFFICES ASSUME NEW q \in Proc, NEW n \in tx'[q].held
               PROVE  nonces'[n] # None /\ \A o \in Proc \ {q} : n \notin tx'[o].held
    BY DEF NonceExclusive
  <2>1. q # p /\ n \in tx[q].held
    BY <1>2, <1>3
  <2>2. nonces[n] # None /\ \A o \in Proc \ {q} : n \notin tx[o].held
    BY <1>1, <2>1 DEF NonceExclusive
  <2>3. n \in Nonce
    BY <1>1, <2>1 DEF TypeOK, Transaction
  <2> QED
    BY <1>2, <1>3, <2>1, <2>2, <2>3 DEF Commit
<1> QED
  BY <1>4, <1>5, <1>6

\* A commit keeps one holder per exclusive role: the staged rows collide with no
\* row that stays.
LEMMA CommitOneHolder ==
  ASSUME Inv, NEW p \in Proc, Commit(p) PROVE OneHolderPerRole'
<1>1. KeyClaims /\ OneHolderPerRole
  BY DEF Inv
<1>2. roles' = (roles \ tx[p].del) \cup tx[p].ins
  BY DEF Commit, RolesAfter
<1> SUFFICES ASSUME NEW r \in roles', NEW k \in roles', r.acct = k.acct,
                    r.role = k.role, r.role \in {"OWNER", "RECOVERY"}
             PROVE  r = k
  BY DEF OneHolderPerRole
<1>3. Conflict(r, k) /\ Conflict(k, r)
  BY DEF Conflict
<1>4. CASE r \in tx[p].ins
  BY <1>1, <1>2, <1>3, <1>4 DEF KeyClaims
<1>5. CASE k \in tx[p].ins
  BY <1>1, <1>2, <1>3, <1>5 DEF KeyClaims
<1>6. CASE r \in roles /\ k \in roles
  BY <1>1, <1>6 DEF OneHolderPerRole
<1> QED
  BY <1>2, <1>4, <1>5, <1>6

\* A commit keeps the owner agreement: the trigger has looked at the account of
\* every row the transaction wrote, and no other account has changed.
LEMMA CommitOwner ==
  ASSUME Inv, NEW p \in Proc, Commit(p) PROVE OwnerAgreement'
<1>1. TypeOK /\ Shape /\ OwnWrites /\ OwnerAgreement
  BY DEF Inv
<1>2. /\ roles' = (roles \ tx[p].del) \cup tx[p].ins
      /\ accounts' = AccountsAfter(p) /\ ~TriggerRejects(p)
  BY DEF Commit, RolesAfter, Rejected
<1>3. roles' = RolesAfter(p)
  BY DEF Commit
<1> DEFINE a0 == req[p].acct
<1>4. ASSUME NEW a \in Account PROVE OwnerInvariant(roles', accounts', a)
  <2>1. OwnerInvariant(roles, accounts, a)
    BY <1>1 DEF OwnerAgreement
  <2>2. CASE a = a0 /\ (tx[p].del \cup tx[p].ins # {} \/ tx[p].owner # None)
    BY <1>2, <1>3, <2>2 DEF TriggerRejects
  <2>3. CASE tx[p].del \cup tx[p].ins = {} /\ tx[p].owner = None
    BY <1>2, <2>1, <2>3 DEF AccountsAfter
  <2>4. CASE a # a0
    <3>1. OwnerRows(roles', a) = OwnerRows(roles, a)
      BY <1>1, <1>2, <2>4 DEF OwnWrites, OwnerRows
    <3>2. accounts'[a] = accounts[a]
      BY <1>1, <1>2, <2>4 DEF AccountsAfter, TypeOK
    <3> QED
      BY <2>1, <3>1, <3>2 DEF OwnerInvariant
  <2> QED
    BY <2>2, <2>3, <2>4
<1>5. ASSUME NEW r \in roles' PROVE accounts'[r.acct] # None
  <2>1. CASE r \in roles
    <3>1. r.acct \in Account /\ accounts[r.acct] # None
      BY <1>1, <2>1 DEF TypeOK, RoleRow, OwnerAgreement
    <3> QED
      BY <1>1, <1>2, <3>1, NoneAssumption DEF AccountsAfter, TypeOK, Transaction
  <2>2. CASE r \in tx[p].ins
    <3>1. r.acct = a0 /\ a0 \in Account
      BY <1>1, <2>2 DEF OwnWrites, TypeOK, Transaction, RoleRow
    <3>2. CASE tx[p].owner # None
      BY <1>1, <1>2, <3>1, <3>2 DEF AccountsAfter, TypeOK
    <3>3. CASE tx[p].owner = None
      <4>1. At(p, "commit")
        BY DEF Commit
      <4>2. req[p].op \notin {"LOGIN", "REFRESH"}
        BY <1>1, <2>2, <3>3, <4>1, RefreshAt DEF Shape
      <4>3. accounts[a0] # None
        BY <1>1, <4>2 DEF Shape
      <4> QED
        BY <1>2, <3>1, <3>3, <4>3 DEF AccountsAfter
    <3> QED
      BY <3>2, <3>3
  <2> QED
    BY <1>2, <2>1, <2>2
<1> QED
  BY <1>4, <1>5 DEF OwnerAgreement

\* A commit keeps the invariant.
LEMMA CommitInv == ASSUME Inv, NEW p \in Proc, Commit(p) PROVE Inv'
BY CommitTypes, CommitShape, CommitClaims, CommitOneHolder, CommitOwner DEF Inv

-----------------------------------------------------------------------------
(* Sessions *)

\* A step of p outside any transaction that moves it on and changes nothing but
\* the sessions, the audit rows and the session its request names.
LEMMA ServeInv ==
  ASSUME Inv, NEW p \in Proc, Advance(p),
         \/ req[p].op = "LOGIN" /\ pc[p] = 5 /\ req[p].acct # None
         \/ req[p].op = "REFRESH" /\ pc[p] \in 1 .. 3,
         req' \in [Proc -> Request],
         req'[p].op = req[p].op, req'[p].acct = req[p].acct,
         \A q \in Proc \ {p} : req'[q] = req[q],
         sessions' \in [Session -> LiveSession \cup {None}], audit' \subseteq AuditRow,
         UNCHANGED <<wallets, accounts, roles, nonces, tx>>
  PROVE  Inv'
<1>1. TypeOK /\ Shape
  BY DEF Inv
<1>2. /\ pc'[p] = pc[p] + 1 /\ pc[p] \in Nat
      /\ \A q \in Proc \ {p} : pc'[q] = pc[q]
  BY <1>1 DEF Advance, TypeOK
<1>3. TypeOK'
  <2>1. pc' \in [Proc -> Nat]
    BY <1>1 DEF Advance, TypeOK
  <2> QED
    BY <1>1, <2>1 DEF TypeOK
<1>4. Shape'
  <2> SUFFICES ASSUME NEW q \in Proc PROVE Shape!(q)'
    BY DEF Shape
  <2>1. CASE q = p /\ req[p].op = "LOGIN"
    <3>1. pc[p] = 5 /\ req[p].acct # None
      BY <2>1
    <3>2. tx[p] = NoTx
      BY <1>1, <2>1, <3>1 DEF Shape
    <3>3. NoTx.ins = {} /\ NoTx.owner = None
      BY DEF NoTx
    <3> QED
      BY <1>2, <2>1, <3>1, <3>2, <3>3 DEF Idle
  <2>2. CASE q = p /\ req[p].op = "REFRESH"
    <3>1. pc[p] \in 1 .. 3
      BY <2>2
    <3>2. tx[p] = NoTx /\ req[p].acct # None
      BY <1>1, <2>2 DEF Shape
    <3>3. NoTx.owner = None
      BY DEF NoTx
    <3> QED
      BY <1>2, <2>2, <3>1, <3>2, <3>3 DEF Idle
  <2>3. CASE q # p
    BY <1>1, <1>2, <2>3 DEF Shape, Idle
  <2> QED
    BY <2>1, <2>2, <2>3
<1>5. \A q \in Proc : req'[q].acct = req[q].acct
  OBVIOUS
<1>6. OwnWrites' /\ KeyClaims' /\ NonceExclusive'
  BY <1>5 DEF Inv, OwnWrites, KeyClaims, NonceExclusive
<1>7. OneHolderPerRole' /\ OwnerAgreement'
  BY DEF Inv, OneHolderPerRole, OwnerAgreement, OwnerInvariant, OwnerRows
<1> QED
  BY <1>3, <1>4, <1>6, <1>7 DEF Inv

\* The session rows that login and refresh write and revoke.
LEMMA SessionStepInv ==
  ASSUME Inv, NEW p \in Proc, RevokeOld(p) \/ CreateSession(p)
  PROVE  Inv'
<1>1. TypeOK /\ Shape /\ req[p] \in Request
  BY DEF Inv, TypeOK
<1>2. CASE RevokeOld(p)
  <2>1. req[p].op = "REFRESH" /\ pc[p] = 1 /\ Advance(p) /\ audit' = {}
        /\ UNCHANGED <<wallets, accounts, roles, nonces, req, tx>>
    BY <1>1, <1>2, RefreshAt DEF RevokeOld
  <2>2. sessions' \in [Session -> LiveSession \cup {None}]
    BY <1>1, <1>2 DEF RevokeOld, TypeOK
  <2>3. req' \in [Proc -> Request]
    BY <1>1, <2>1 DEF TypeOK
  <2> QED
    BY <2>1, <2>2, <2>3, ServeInv
<1>3. CASE CreateSession(p)
  <2>1. PICK s \in Session :
          /\ sessions' = [sessions EXCEPT ![s] =
               [acct |-> req[p].acct, wallet |-> req[p].actor, known |-> FALSE]]
          /\ req' = [req EXCEPT ![p].sess = s]
    BY <1>3 DEF CreateSession
  <2>2. /\ At(p, "session") /\ OpensSession(p) /\ Advance(p) /\ audit' = {}
        /\ req[p].acct # None /\ UNCHANGED <<wallets, accounts, roles, nonces, tx>>
    BY <1>3 DEF CreateSession, Rejected
  <2>3. \/ req[p].op = "LOGIN" /\ pc[p] = 5 /\ req[p].acct # None
        \/ req[p].op = "REFRESH" /\ pc[p] = 2
    BY <1>1, <2>2, LoginAt, RefreshAt DEF OpensSession
  <2>4. sessions' \in [Session -> LiveSession \cup {None}]
    BY <1>1, <2>1, <2>2 DEF TypeOK, Request, LiveSession
  <2>5. /\ req' \in [Proc -> Request]
        /\ req'[p].op = req[p].op /\ req'[p].acct = req[p].acct
        /\ \A q \in Proc \ {p} : req'[q] = req[q]
    BY <1>1, <2>1 DEF TypeOK, Request
  <2> QED
    BY <2>2, <2>3, <2>4, <2>5, ServeInv
<1> QED
  BY <1>2, <1>3

\* The audit rows that end a login and a refresh.
LEMMA SessionAuditInv ==
  ASSUME Inv, NEW p \in Proc, AuditCreated(p) \/ AuditRefreshed(p)
  PROVE  Inv'
<1>1. TypeOK /\ Shape /\ req[p] \in Request
  BY DEF Inv, TypeOK
<1>2. \/ req[p].op = "LOGIN" /\ pc[p] = 6
      \/ req[p].op = "REFRESH" /\ pc[p] = 3 /\ AuditCreated(p)
      \/ req[p].op = "REFRESH" /\ pc[p] = 4 /\ AuditRefreshed(p)
  BY <1>1, LoginAt, RefreshAt DEF AuditCreated, AuditRefreshed, OpensSession
<1>3. tx[p] = NoTx /\ req[p].acct \in Account
  BY <1>1, <1>2 DEF Shape, Request
<1>4. UNCHANGED <<wallets, accounts, roles, nonces, tx>> /\ audit' \subseteq AuditRow
  BY <1>1, <1>3 DEF AuditCreated, AuditRefreshed, SessionAudit, LogRow, AuditRow, Request
<1>5. CASE Respond(p)
  <2>1. Finish(p) /\ sessions' \in [Session -> LiveSession \cup {None}]
    BY <1>1, <1>5 DEF Respond, TypeOK, LiveSession
  <2>2. tx' = [tx EXCEPT ![p] = NoTx]
    BY <1>1, <1>3, <1>4 DEF TypeOK
  <2> QED
    BY <1>4, <2>1, <2>2, LeaveInv
<1>6. CASE ~Respond(p)
  <2>1. req[p].op = "REFRESH" /\ pc[p] = 3 /\ Advance(p) /\ UNCHANGED <<sessions, req>>
    BY <1>2, <1>6 DEF AuditCreated, AuditRefreshed
  <2>2. req' \in [Proc -> Request]
    BY <1>1, <2>1 DEF TypeOK
  <2>3. sessions' \in [Session -> LiveSession \cup {None}]
    BY <1>1, <2>1 DEF TypeOK
  <2> QED
    BY <1>4, <2>1, <2>2, <2>3, ServeInv
<1> QED
  BY <1>5, <1>6

-----------------------------------------------------------------------------
(* The theorems *)

\* Every step of the specification keeps the invariant.
THEOREM NextInv == Inv /\ [Next]_vars => Inv'
<1> SUFFICES ASSUME Inv, [Next]_vars PROVE Inv'
  OBVIOUS
<1>1. CASE Environment
  <2>1. ASSUME NEW w \in Wallet, NEW n \in Nonce,
               \/ CreateChallenge(w, n)
               \/ \E p \in Proc : StartLogin(p, w, n)
               \/ \E s \in Session :
                    CreateLinkChallenge(s, w, n) \/ CreateRecoveryChallenge(s, w, n)
        PROVE  Inv'
    BY <2>1, CreateChallengeInv, StartLoginInv, WalletChallengeInv
  <2>2. ASSUME NEW s \in Session, NEW t \in Wallet, NEW m \in Nonce, NEW n \in Nonce,
               \/ CreateRoleChallenge(s, t, m, n)
               \/ \E p \in Proc, op \in Ops : StartAuthenticated(p, s, op, t, m, n)
        PROVE  Inv'
    BY <2>2, RoleChallengeInv, StartAuthenticatedInv
  <2>3. ASSUME NEW s \in Session,
               \/ \E p \in Proc : StartRefresh(p, s)
               \/ \E t \in Session : RevokeSession(s, t)
               \/ ExpireSession(s)
        PROVE  Inv'
    BY <2>3, StartRefreshInv, RevokeSessionInv, ExpireSessionInv
  <2>4. ASSUME NEW n \in Nonce, ExpireNonce(n) PROVE Inv'
    BY <2>4, ExpireNonceInv
  <2> QED
    BY <1>1, <2>1, <2>2, <2>3, <2>4 DEF Environment
<1>2. ASSUME NEW p \in Proc, Execute(p) \/ Crash(p) PROVE Inv'
  <2>1. CASE Check(p) \/ Consume(p) \/ Read(p) \/ Scan(p) \/ Delete(p) \/ Insert(p)
             \/ KillSessions(p)
    BY <2>1, CheckInv, ConsumeInv, ReadInv, ScanInv, DeleteInv, InsertInv,
       KillSessionsInv
  <2>2. CASE LookUpAccount(p) \/ ProvisionAccount(p) \/ Commit(p)
    BY <2>2, LookUpAccountInv, ProvisionAccountInv, CommitInv
  <2>3. CASE RevokeOld(p) \/ CreateSession(p) \/ AuditCreated(p) \/ AuditRefreshed(p)
    BY <2>3, SessionStepInv, SessionAuditInv
  <2>4. CASE Fail(p) \/ DeadlockVictim(p) \/ Crash(p)
    BY <2>4, RollbackInv DEF Fail, DeadlockVictim, Crash
  <2> QED
    BY <1>2, <2>1, <2>2, <2>3, <2>4 DEF Execute
<1>3. CASE UNCHANGED vars
  BY <1>3 DEF vars, Inv, TypeOK, Shape, OwnWrites, KeyClaims, NonceExclusive,
     OwnerAgreement, OneHolderPerRole, OwnerInvariant, OwnerRows, Idle
<1> QED
  BY <1>1, <1>2, <1>3 DEF Next

\* Inv holds in every reachable state.
THEOREM Invariance == Spec => []Inv
<1>1. Init => Inv
  BY InitInv
<1>2. Inv /\ [Next]_vars => Inv'
  BY NextInv
<1> QED
  BY <1>1, <1>2, PTL DEF Spec

\* The variables of the auth service stay in their types, for any number of
\* wallets, accounts, sessions, nonces and concurrent requests.
THEOREM TypeCorrectness == Spec => []TypeOK
<1>1. Inv => TypeOK
  BY DEF Inv
<1> QED
  BY <1>1, Invariance, PTL

\* Every account has exactly the OWNER row of its owner_wallet_id, and no role
\* row is without its account, whatever requests interleave, fail or crash.
THEOREM OwnerAgreementHolds == Spec => []OwnerAgreement
<1>1. Inv => OwnerAgreement
  BY DEF Inv
<1> QED
  BY <1>1, Invariance, PTL

\* No account ever has two OWNER or two RECOVERY rows.
THEOREM OneHolderPerRoleHolds == Spec => []OneHolderPerRole
<1>1. Inv => OneHolderPerRole
  BY DEF Inv
<1> QED
  BY <1>1, Invariance, PTL

\* No nonce is ever consumed by two transactions.
THEOREM NonceExclusiveHolds == Spec => []NonceExclusive
<1>1. Inv => NonceExclusive
  BY DEF Inv
<1> QED
  BY <1>1, Invariance, PTL
=============================================================================
