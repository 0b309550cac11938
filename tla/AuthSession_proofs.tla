------------------------- MODULE AuthSession_proofs -------------------------
(***************************************************************************)
(* Proofs about sessions and chains: no account spans two chains, and      *)
(* AuthService implements SessionGrants. They rest on whom a request in    *)
(* flight is about (Callers) and which session it has opened (Opening).    *)
(***************************************************************************)
EXTENDS AuthOutcome_proofs

-----------------------------------------------------------------------------
(* What a step of one request keeps *)

\* The requests that p leaves alone keep their callers.
LEMMA KeepCallers ==
  ASSUME Callers, accounts' = accounts, NEW p \in Proc,
         \A q \in Proc \ {p} : req'[q] = req[q] /\ tx'[q] = tx[q] /\ pc'[q] = pc[q],
         Follows(req'[p], tx'[p], pc'[p]), BelongsTo(req'[p], tx'[p], accounts)
  PROVE  Callers'
<1>1. \A q \in Proc :
        Follows(req'[q], tx'[q], pc'[q]) /\ BelongsTo(req'[q], tx'[q], accounts')
  BY DEF Callers
<1> QED
  BY <1>1 DEF Callers, Follows, BelongsTo

\* Sessions that end, or whose tokens are handed out, take no account to another chain.
LEMMA KeepChain ==
  ASSUME OneChain, UNCHANGED <<accounts, roles>>,
         \A s \in Session :
           \/ sessions'[s] \in {None, sessions[s]}
           \/ /\ sessions[s] # None /\ sessions'[s].acct = sessions[s].acct
              /\ sessions'[s].wallet = sessions[s].wallet
  PROVE  OneChain'
<1>1. \A k \in roles' : ChainOf[k.wallet] = ChainOf[accounts'[k.acct]]
  BY DEF OneChain
<1>2. ASSUME NEW s \in Session, sessions'[s] # None
      PROVE  /\ accounts'[sessions'[s].acct] # None
             /\ ChainOf[sessions'[s].wallet] = ChainOf[accounts'[sessions'[s].acct]]
  BY <1>2 DEF OneChain
<1> QED
  BY <1>1, <1>2 DEF OneChain

\* A step of p after which no request has opened a session that it had not opened
\* before, and no session that one has opened has changed but by ending.
LEMMA KeepOpening ==
  ASSUME TypeOK, Opening, NEW p \in Proc,
         \A q \in Proc \ {p} : req'[q] = req[q] /\ tx'[q] = tx[q] /\ pc'[q] = pc[q],
         \/ GrantOf(p)' = None \/ GrantOf(p)'.opened = None \/ GrantOf(p)' = GrantOf(p),
         \A q \in Proc :
           GrantOf(q) # None /\ GrantOf(q).opened # None /\ GrantOf(q)' = GrantOf(q) =>
             sessions'[GrantOf(q).opened] \in {None, sessions[GrantOf(q).opened]}
  PROVE  Opening'
<1>1. \A q \in Proc \ {p} : GrantOf(q)' = GrantOf(q)
  BY DEF GrantOf
<1>2. ASSUME NEW q \in Proc, GrantOf(q)' # None, GrantOf(q)'.opened # None
      PROVE  /\ sessions'[GrantOf(q)'.opened] \in
                  {None, [acct |-> GrantOf(q)'.acct, wallet |-> GrantOf(q)'.wallet,
                          known |-> FALSE]}
             /\ \A o \in Proc \ {q} :
                  GrantOf(o)' # None => GrantOf(o)'.opened # GrantOf(q)'.opened
  <2>1. GrantOf(q)' = GrantOf(q)
    BY <1>1, <1>2
  <2>2. /\ sessions[GrantOf(q).opened] \in
             {None, [acct |-> GrantOf(q).acct, wallet |-> GrantOf(q).wallet, known |-> FALSE]}
        /\ \A o \in Proc \ {q} : GrantOf(o) # None => GrantOf(o).opened # GrantOf(q).opened
    BY <1>2, <2>1 DEF Opening
  <2>3. sessions'[GrantOf(q).opened] \in {None, sessions[GrantOf(q).opened]}
    BY <1>2, <2>1
  <2>4. \A o \in Proc \ {q} : GrantOf(o)' # None => GrantOf(o)'.opened # GrantOf(q).opened
    BY <1>1, <1>2, <2>1, <2>2
  <2> QED
    BY <2>1, <2>2, <2>3, <2>4
<1> QED
  BY <1>2 DEF Opening

\* Grants belong to logins and refreshes that have found their account.
LEMMA NoGrant ==
  ASSUME NEW p \in Proc,
         \/ req[p].op \notin {"LOGIN", "REFRESH"} \/ req[p].acct = None
         \/ tx[p].owner # None
  PROVE  GrantOf(p) = None
BY DEF GrantOf

\* An idle request and an empty transaction satisfy everything.
LEMMA IdleFollows ==
  /\ \A i \in 0 .. 1 : Follows(NoRequest, NoTx, i)
  /\ \A owners : BelongsTo(NoRequest, NoTx, owners)
  /\ NoRequest.acct = None /\ NoTx.owner = None /\ NoTx.dead = {}
BY DEF NoRequest, Ask, NoTx, Follows, BelongsTo

\* At first there is no account, no session and no request.
LEMMA InitSession == Init => SessionInv
<1> SUFFICES ASSUME Init PROVE SessionInv
  OBVIOUS
<1>1. OneChain
  BY DEF Init, OneChain
<1>2. Callers
  BY IdleFollows DEF Init, Callers
<1>3. Opening
  BY IdleFollows, NoGrant DEF Init, Opening
<1> QED
  BY <1>1, <1>2, <1>3 DEF SessionInv

-----------------------------------------------------------------------------
(* Environment steps *)

\* A step that touches no request, role or account and opens no session.
LEMMA QuietSession ==
  ASSUME TypeOK, SessionInv, UNCHANGED <<accounts, roles, pc, req, tx>>,
         \A s \in Session : sessions'[s] \in {None, sessions[s]}
  PROVE  SessionInv'
<1>1. OneChain'
  BY KeepChain DEF SessionInv
<1>2. Callers'
  BY DEF SessionInv, Callers, Follows, BelongsTo
<1>3. \A q \in Proc : GrantOf(q)' = GrantOf(q)
  BY DEF GrantOf
<1>4. \A q \in Proc : GrantOf(q) # None /\ GrantOf(q).opened # None =>
                        GrantOf(q).opened \in Session
  BY DEF GrantOf, TypeOK, Request
<1>5. Opening'
  BY <1>3, <1>4 DEF SessionInv, Opening
<1> QED
  BY <1>1, <1>2, <1>5 DEF SessionInv

\* The arrival of a request of somebody who belongs to his account.
LEMMA StartSession ==
  ASSUME Inv, SessionInv, NEW p \in Proc, NEW r \in Request, Start(p, r),
         Follows(r, NoTx, 1), BelongsTo(r, NoTx, accounts),
         r.op = "LOGIN" => r.acct = None
  PROVE  SessionInv'
<1>1. TypeOK /\ Shape /\ Callers /\ Opening /\ OneChain
  BY DEF Inv, SessionInv
<1>2. /\ pc' = [pc EXCEPT ![p] = 1] /\ req' = [req EXCEPT ![p] = r]
      /\ UNCHANGED <<accounts, roles, sessions, tx>> /\ tx[p] = NoTx
  BY <1>1 DEF Start, tables, Shape
<1>3. /\ req'[p] = r /\ tx'[p] = NoTx /\ pc'[p] = 1
      /\ \A q \in Proc \ {p} : req'[q] = req[q] /\ tx'[q] = tx[q] /\ pc'[q] = pc[q]
  BY <1>1, <1>2 DEF TypeOK
<1>4. GrantOf(p)' = None \/ GrantOf(p)'.opened = None
  BY <1>3 DEF GrantOf
<1>5. Callers'
  BY <1>1, <1>2, <1>3, KeepCallers
<1>6. OneChain'
  BY <1>1, <1>2, KeepChain
<1>7. Opening'
  BY <1>1, <1>2, <1>3, <1>4, KeepOpening
<1> QED
  BY <1>5, <1>6, <1>7 DEF SessionInv

\* Callers are on the chain of their session, and sessions on that of their account.
LEMMA EnvironmentSession == Inv /\ SessionInv /\ Environment => SessionInv'
<1> SUFFICES ASSUME Inv, SessionInv, Environment PROVE SessionInv'
  OBVIOUS
<1>1. TypeOK /\ OneChain
  BY DEF Inv, SessionInv
<1>2. NoTx.owner = None /\ NoTx.dead = {}
  BY DEF NoTx
<1>3. \A s \in Session : sessions[s] # None =>
        /\ sessions[s] \in LiveSession /\ accounts[sessions[s].acct] # None
        /\ ChainOf[sessions[s].wallet] = ChainOf[accounts[sessions[s].acct]]
  BY <1>1 DEF TypeOK, OneChain
<1>4. ASSUME NEW w \in Wallet, NEW n \in Nonce,
             \/ CreateChallenge(w, n)
             \/ \E s \in Session : CreateLinkChallenge(s, w, n) \/ CreateRecoveryChallenge(s, w, n)
      PROVE  SessionInv'
  BY <1>1, <1>4, QuietSession
     DEF CreateChallenge, CreateLinkChallenge, CreateRecoveryChallenge
<1>5. ASSUME NEW s \in Session, NEW t \in Wallet, NEW m \in Nonce, NEW n \in Nonce,
             CreateRoleChallenge(s, t, m, n)
      PROVE  SessionInv'
  BY <1>1, <1>5, QuietSession DEF CreateRoleChallenge
<1>6. ASSUME NEW n \in Nonce, ExpireNonce(n) PROVE SessionInv'
  BY <1>1, <1>6, QuietSession DEF ExpireNonce
<1>7. ASSUME NEW s \in Session, ExpireSession(s) \/ \E t \in Session : RevokeSession(s, t)
      PROVE  SessionInv'
  <2>1. PICK t \in Session : sessions' = [sessions EXCEPT ![t] = None]
    BY <1>7 DEF ExpireSession, RevokeSession
  <2>2. \A u \in Session : sessions'[u] \in {None, sessions[u]}
    BY <1>1, <2>1 DEF TypeOK
  <2> QED
    BY <1>1, <1>7, <2>2, QuietSession DEF ExpireSession, RevokeSession
<1>8. ASSUME NEW p \in Proc, NEW w \in Wallet, NEW n \in Nonce, StartLogin(p, w, n)
      PROVE  SessionInv'
  <2> DEFINE r == Ask("LOGIN", None, w, w, n, None, None, {"LOGIN"})
  <2>1. /\ r \in Request /\ r.op = "LOGIN" /\ r.acct = None /\ r.actor = w /\ r.target = w
        /\ r.sess = None
    BY RequestOps DEF Ask, Request, Purpose
  <2>2. Start(p, r)
    BY <1>8 DEF StartLogin
  <2> HIDE DEF r
  <2>3. Follows(r, NoTx, 1) /\ BelongsTo(r, NoTx, accounts)
    BY <1>2, <2>1 DEF Follows, BelongsTo
  <2> QED
    BY <2>1, <2>2, <2>3, StartSession
<1>9. ASSUME NEW p \in Proc, NEW s \in Session, NEW op \in Ops, NEW w \in Wallet,
             NEW m \in Nonce, NEW n \in Nonce, StartAuthenticated(p, s, op, w, m, n)
      PROVE  SessionInv'
  <2>0. PICK signed \in SUBSET Purpose :
          Start(p, Ask(op, sessions[s].acct, sessions[s].wallet, w, m, n, None, signed))
    BY <1>1, <1>9, AuthenticatedStarts
  <2> DEFINE r == Ask(op, sessions[s].acct, sessions[s].wallet, w, m, n, None, signed)
  <2>1. sessions[s] # None
    BY <1>9 DEF StartAuthenticated, Usable
  <2>2. /\ r \in Request /\ r.op \notin {"LOGIN", "REFRESH"}
        /\ r.acct = sessions[s].acct /\ r.actor = sessions[s].wallet /\ Start(p, r)
    BY <1>3, <1>9, <2>1, <2>0, RequestOps DEF Ask, Request, LiveSession, StartAuthenticated
  <2> HIDE DEF r
  <2>4. Follows(r, NoTx, 1) /\ BelongsTo(r, NoTx, accounts)
    BY <1>3, <2>1, <2>2 DEF Follows, BelongsTo
  <2> QED
    BY <2>2, <2>4, StartSession
<1>10. ASSUME NEW p \in Proc, NEW s \in Session, StartRefresh(p, s) PROVE SessionInv'
  <2> DEFINE r == Ask("REFRESH", sessions[s].acct, sessions[s].wallet,
                      sessions[s].wallet, None, None, s, {})
  <2>1. sessions[s] # None
    BY <1>10 DEF StartRefresh
  <2>2. /\ r \in Request /\ r.op = "REFRESH" /\ r.target = r.actor
        /\ r.acct = sessions[s].acct /\ r.actor = sessions[s].wallet
    BY <1>3, <2>1, RequestOps DEF Ask, Request, LiveSession
  <2>3. Start(p, r)
    BY <1>10 DEF StartRefresh
  <2> HIDE DEF r
  <2>4. Follows(r, NoTx, 1) /\ BelongsTo(r, NoTx, accounts)
    BY <1>3, <2>1, <2>2 DEF Follows, BelongsTo
  <2> QED
    BY <2>2, <2>3, <2>4, StartSession
<1> QED
  BY <1>4, <1>5, <1>6, <1>7, <1>8, <1>9, <1>10 DEF Environment

-----------------------------------------------------------------------------
(* Statements of a transaction *)

\* Logins and other requests before their commit have no grant.
LEMMA NoGrantYet ==
  ASSUME Inv, NEW p \in Proc,
         \/ At(p, "check") \/ Consuming(p) \/ At(p, "read") \/ At(p, "scan")
         \/ At(p, "delete") \/ At(p, "insert") \/ At(p, "kill")
  PROVE  /\ req[p].op # "REFRESH"
         /\ req[p].op = "LOGIN" => pc[p] \in 1 .. 3 /\ ~At(p, "kill") /\ req[p].acct = None
         /\ GrantOf(p) = None
<1>1. Shape
  BY DEF Inv
<1>2. req[p].op # "REFRESH"
  BY <1>1, RefreshAt DEF Consuming
<1>3. req[p].op = "LOGIN" => pc[p] \in 1 .. 3 /\ ~At(p, "kill")
  BY <1>1, LoginAt DEF Consuming
<1>4. req[p].op = "LOGIN" => req[p].acct = None
  BY <1>1, <1>3 DEF Shape
<1> QED
  BY <1>2, <1>3, <1>4, NoGrant

\* A statement that is not a login's insert: only the check can take a request past
\* its first statement, and it has looked the target up.
LEMMA StatementSession ==
  ASSUME OutcomeInv, SessionInv, NEW p \in Proc,
         \/ Check(p) \/ Consume(p) \/ Read(p) \/ Scan(p) \/ Delete(p) \/ Insert(p)
         \/ KillSessions(p)
  PROVE  /\ SessionInv' /\ GrantOf(p) = None /\ GrantOf(p)' = None
         /\ UNCHANGED <<accounts, sessions>>
         /\ \A q \in Proc \ {p} : GrantOf(q)' = GrantOf(q)
<1> DEFINE r == req[p]
<1>1. /\ Inv /\ TypeOK /\ Shape /\ tx[p] \in Transaction /\ Fits(r, tx[p], pc[p])
      /\ OneChain /\ Callers /\ Opening /\ r \in Request
  BY DEF OutcomeInv, Inv, TypeOK, Staging, SessionInv
<1> DEFINE Stmt == {"check", "consume", "consume2", "read", "scan", "delete", "insert",
                    "kill"}
           Moves(stmt, t) == /\ Step(p, stmt, t) /\ req' = req
                             /\ stmt = "insert" => r.op # "LOGIN"
                             /\ stmt # "kill" => t.dead = tx[p].dead
<1>2. PICK stmt \in Stmt : \E t : Moves(stmt, t)
  <2> HIDE DEF r
  <2>1. CASE Check(p)
    <3>1. Moves("check", tx[p])
      BY <2>1 DEF Check
    <3> QED
      BY <3>1
  <2>2. CASE Consume(p)
    <3> DEFINE t == [tx[p] EXCEPT !.held = @ \cup {NonceOf(p)}]
    <3>1. Moves("consume", t) \/ Moves("consume2", t)
      BY <1>1, <2>2 DEF Consume, Transaction
    <3> HIDE DEF t, Moves
    <3> QED
      BY <3>1
  <2>3. CASE Read(p)
    <3> DEFINE t == [tx[p] EXCEPT !.seen = Selected(p)]
    <3>1. Moves("read", t)
      BY <1>1, <2>3 DEF Read, Transaction
    <3> HIDE DEF t, Moves
    <3> QED
      BY <3>1
  <2>4. CASE Scan(p)
    <3> DEFINE t == [tx[p] EXCEPT !.found = Deletable(p)]
    <3>1. Moves("scan", t)
      BY <1>1, <2>4 DEF Scan, Transaction
    <3> HIDE DEF t, Moves
    <3> QED
      BY <3>1
  <2>5. CASE Delete(p)
    <3> DEFINE t == [tx[p] EXCEPT !.del = @ \cup (tx[p].found \cap roles), !.found = {}]
    <3>1. Moves("delete", t)
      BY <1>1, <2>5 DEF Delete, Transaction
    <3> HIDE DEF t, Moves
    <3> QED
      BY <3>1
  <2>6. CASE Insert(p)
    <3> DEFINE t == [tx[p] EXCEPT !.ins = NewRows(p), !.del = @ \cup Stripped(p),
                                  !.owner = NewOwner(p)]
    <3>1. Moves("insert", t)
      BY <1>1, <2>6 DEF Insert, Transaction, r
    <3> HIDE DEF t, Moves
    <3> QED
      BY <3>1
  <2>7. CASE KillSessions(p)
    <3> DEFINE t == [tx[p] EXCEPT !.dead =
                       {s \in Session : sessions[s] # None /\ sessions[s].wallet \in Losers(p)}]
    <3>1. Moves("kill", t)
      BY <1>1, <2>7 DEF KillSessions, Transaction
    <3> HIDE DEF t, Moves
    <3> QED
      BY <3>1
  <2> QED
    BY <2>1, <2>2, <2>3, <2>4, <2>5, <2>6, <2>7
<1>3. /\ UNCHANGED <<accounts, roles, sessions, req>>
      /\ pc' = [pc EXCEPT ![p] = @ + 1]
      /\ At(p, stmt) /\ ~Rejected(p)
      /\ \E t : tx' = [tx EXCEPT ![p] = t] /\ (stmt # "kill" => t.dead = tx[p].dead)
  BY <1>2 DEF Step, Advance, tables
<1>4. /\ r.op # "REFRESH" /\ GrantOf(p) = None
      /\ r.op = "LOGIN" => pc[p] \in 1 .. 3 /\ ~At(p, "kill") /\ r.acct = None
  BY <1>1, <1>2, <1>3, NoGrantYet DEF Consuming
<1>5. /\ req'[p] = r /\ pc'[p] = pc[p] + 1 /\ pc[p] \in Nat
      /\ \A q \in Proc \ {p} : req'[q] = req[q] /\ tx'[q] = tx[q] /\ pc'[q] = pc[q]
  BY <1>1, <1>3 DEF TypeOK
<1>6. ChainOf[r.target] = ChainOf[r.actor]
  <2>1. CASE r.op = "LOGIN"
    BY <1>1, <2>1 DEF Fits
  <2>2. CASE At(p, "check")
    BY <1>3, <2>2 DEF Rejected, Authorised, Findable
  <2>3. CASE r.op # "LOGIN" /\ ~At(p, "check")
    <3>1. r.op \in AllOps \ {"LOGIN", "REFRESH"} /\ pc[p] \in 1 .. Len(Program[r.op])
      BY <1>1, <1>4, <2>3 DEF Fits, Request
    <3>2. pc[p] # 1 /\ pc[p] # 0
      BY <1>3, <2>3, <3>1, Positions DEF At
    <3> QED
      BY <1>1, <1>5, <3>2 DEF Callers, Follows
  <2> QED
    BY <2>1, <2>2, <2>3
<1>7. r.op = "LOGIN" => tx'[p].dead = tx[p].dead
  BY <1>1, <1>3, <1>4 DEF TypeOK
<1>8. Follows(req'[p], tx'[p], pc'[p])
  <2>1. Follows(r, tx[p], pc[p])
    BY <1>1 DEF Callers
  <2> QED
    BY <1>3, <1>4, <1>5, <1>6, <2>1 DEF Follows
<1>9. BelongsTo(req'[p], tx'[p], accounts)
  BY <1>1, <1>4, <1>5 DEF Callers, BelongsTo
<1>10. GrantOf(p)' = None
  BY <1>4, <1>5 DEF GrantOf
<1>11. OneChain' /\ Callers' /\ Opening'
  BY <1>1, <1>3, <1>5, <1>8, <1>9, <1>10, KeepChain, KeepCallers, KeepOpening
<1>12. \A q \in Proc \ {p} : GrantOf(q)' = GrantOf(q)
  BY <1>5 DEF GrantOf
<1> QED
  BY <1>3, <1>4, <1>10, <1>11, <1>12 DEF SessionInv

\* A login that has found its account: the wallet owns it. It opens no session yet.
LEMMA LookUpSession ==
  ASSUME OutcomeInv, SessionInv, NEW p \in Proc, LookUpAccount(p)
  PROVE  /\ SessionInv' /\ GrantOf(p) = None /\ UNCHANGED <<accounts, sessions>>
         /\ \A q \in Proc \ {p} : GrantOf(q)' = GrantOf(q)
         /\ \/ GrantOf(p)' = None
            \/ \E a \in Account :
                 /\ accounts[a] # None
                 /\ GrantOf(p)' = [acct |-> a, wallet |-> accounts[a], opened |-> None]
<1> DEFINE r == req[p]
<1>1. /\ Inv /\ TypeOK /\ Shape /\ tx[p] \in Transaction /\ Fits(r, tx[p], pc[p])
      /\ OneChain /\ Callers /\ Opening /\ r \in Request
  BY DEF OutcomeInv, Inv, TypeOK, Staging, SessionInv
<1>2. /\ UNCHANGED <<accounts, roles, sessions>> /\ tx' = [tx EXCEPT ![p] = tx[p]]
      /\ pc' = [pc EXCEPT ![p] = @ + 1] /\ At(p, "insert") /\ r.op = "LOGIN"
  BY DEF LookUpAccount, Step, Advance, tables
<1>3. PICK a \in Account \cup {None} :
        /\ req' = [req EXCEPT ![p].acct = a]
        /\ a # None => accounts[a] = r.target
  BY <1>1, NoneAssumption DEF LookUpAccount, AccountsOf
<1>4. pc[p] = 3 /\ r.acct = None /\ tx[p].owner = None /\ r.sess = None
      /\ r.actor = r.target /\ tx[p].dead = {} /\ r.target # None
  BY <1>1, <1>2, LoginAt, NoneAssumption DEF Shape, Fits, Callers, Follows, Request
<1>5. /\ req'[p] = [r EXCEPT !.acct = a] /\ tx'[p] = tx[p] /\ pc'[p] = 4
      /\ \A q \in Proc \ {p} : req'[q] = req[q] /\ tx'[q] = tx[q] /\ pc'[q] = pc[q]
  BY <1>1, <1>2, <1>3, <1>4 DEF TypeOK
<1>6. /\ req'[p].op = "LOGIN" /\ req'[p].acct = a /\ req'[p].actor = r.actor
      /\ req'[p].target = r.target /\ req'[p].sess = None
  BY <1>1, <1>2, <1>4, <1>5 DEF Request
<1>7. Follows(req'[p], tx'[p], pc'[p]) /\ BelongsTo(req'[p], tx'[p], accounts)
  BY <1>3, <1>4, <1>5, <1>6 DEF Follows, BelongsTo
<1>8. GrantOf(p) = None
  BY <1>4, NoGrant
<1>9. IF a = None THEN GrantOf(p)' = None
      ELSE GrantOf(p)' = [acct |-> a, wallet |-> r.target, opened |-> None]
  BY <1>4, <1>5, <1>6 DEF GrantOf
<1>10. GrantOf(p)' = None \/ GrantOf(p)'.opened = None
  BY <1>9
<1>11. OneChain' /\ Callers' /\ Opening'
  BY <1>1, <1>2, <1>5, <1>7, <1>10, KeepChain, KeepCallers, KeepOpening
<1>12. \A q \in Proc \ {p} : GrantOf(q)' = GrantOf(q)
  BY <1>5 DEF GrantOf
<1> QED
  BY <1>2, <1>3, <1>4, <1>8, <1>9, <1>11, <1>12 DEF SessionInv

\* A first login has nothing before its commit.
LEMMA ProvisionSession ==
  ASSUME OutcomeInv, SessionInv, NEW p \in Proc, ProvisionAccount(p)
  PROVE  /\ SessionInv' /\ GrantOf(p) = None /\ GrantOf(p)' = None
         /\ UNCHANGED <<accounts, sessions>>
         /\ \A q \in Proc \ {p} : GrantOf(q)' = GrantOf(q)
<1> DEFINE r == req[p]
<1>1. /\ Inv /\ TypeOK /\ Shape /\ tx[p] \in Transaction /\ Fits(r, tx[p], pc[p])
      /\ OneChain /\ Callers /\ Opening /\ r \in Request
  BY DEF OutcomeInv, Inv, TypeOK, Staging, SessionInv
<1>2. PICK a \in Account :
        /\ FreshAccount(a) /\ req' = [req EXCEPT ![p].acct = a]
        /\ Step(p, "insert", [tx[p] EXCEPT !.ins = {Row(a, r.target, "OWNER"),
                                                    Row(a, r.target, "AUTH")},
                                           !.owner = r.target])
  BY DEF ProvisionAccount
<1> DEFINE t == [tx[p] EXCEPT !.ins = {Row(a, r.target, "OWNER"), Row(a, r.target, "AUTH")},
                              !.owner = r.target]
<1>3. t.owner = r.target /\ t.dead = tx[p].dead
  BY <1>1 DEF Transaction
<1> HIDE DEF t
<1>4. /\ UNCHANGED <<accounts, roles, sessions>> /\ tx' = [tx EXCEPT ![p] = t]
      /\ pc' = [pc EXCEPT ![p] = @ + 1] /\ At(p, "insert") /\ r.op = "LOGIN"
  BY <1>2 DEF ProvisionAccount, Step, Advance, tables, t
<1>5. pc[p] = 3 /\ r.acct = None /\ r.sess = None /\ r.actor = r.target /\ tx[p].dead = {}
      /\ r.target # None
  BY <1>1, <1>4, LoginAt, NoneAssumption DEF Shape, Fits, Callers, Follows, Request
<1>6. /\ req'[p] = [r EXCEPT !.acct = a] /\ tx'[p] = t /\ pc'[p] = 4
      /\ \A q \in Proc \ {p} : req'[q] = req[q] /\ tx'[q] = tx[q] /\ pc'[q] = pc[q]
  BY <1>1, <1>2, <1>4, <1>5 DEF TypeOK
<1>7. /\ req'[p].op = "LOGIN" /\ req'[p].acct = a /\ req'[p].actor = r.actor
      /\ req'[p].target = r.target /\ req'[p].sess = None
  BY <1>1, <1>4, <1>5, <1>6 DEF Request
<1>8. accounts[a] = None
  BY <1>2 DEF FreshAccount
<1>9. Follows(req'[p], tx'[p], pc'[p]) /\ BelongsTo(req'[p], tx'[p], accounts)
  BY <1>3, <1>5, <1>6, <1>7, <1>8 DEF Follows, BelongsTo
<1>10. GrantOf(p) = None /\ GrantOf(p)' = None
  BY <1>3, <1>5, <1>6, NoGrant DEF GrantOf
<1>11. OneChain' /\ Callers' /\ Opening'
  BY <1>1, <1>4, <1>6, <1>9, <1>10, KeepChain, KeepCallers, KeepOpening
<1>12. \A q \in Proc \ {p} : GrantOf(q)' = GrantOf(q)
  BY <1>6 DEF GrantOf
<1> QED
  BY <1>4, <1>10, <1>11, <1>12 DEF SessionInv

\* The end of a request that leaves the tables alone.
LEMMA RollbackSession ==
  ASSUME OutcomeInv, SessionInv, NEW p \in Proc, Rollback(p)
  PROVE  /\ SessionInv' /\ GrantOf(p)' = None /\ UNCHANGED <<accounts, sessions>>
         /\ \A q \in Proc \ {p} : GrantOf(q)' = GrantOf(q)
<1>1. TypeOK /\ OneChain /\ Callers /\ Opening
  BY DEF OutcomeInv, Inv, SessionInv
<1>2. /\ UNCHANGED <<accounts, roles, sessions>>
      /\ req'[p] = NoRequest /\ tx'[p] = NoTx /\ pc'[p] = 0
      /\ \A q \in Proc \ {p} : req'[q] = req[q] /\ tx'[q] = tx[q] /\ pc'[q] = pc[q]
  BY <1>1 DEF Rollback, Finish, tables, TypeOK
<1>3. Follows(req'[p], tx'[p], pc'[p]) /\ BelongsTo(req'[p], tx'[p], accounts)
  BY <1>2, IdleFollows
<1>4. GrantOf(p)' = None
  BY <1>2, IdleFollows DEF GrantOf
<1>5. OneChain' /\ Callers' /\ Opening'
  BY <1>1, <1>2, <1>3, <1>4, KeepChain, KeepCallers, KeepOpening
<1>6. \A q \in Proc \ {p} : GrantOf(q)' = GrantOf(q)
  BY <1>2 DEF GrantOf
<1> QED
  BY <1>2, <1>4, <1>5, <1>6 DEF SessionInv

-----------------------------------------------------------------------------
(* The statements that write sessions *)

\* The old session of a refresh ends, if it has not ended before.
LEMMA RevokeOldSession ==
  ASSUME OutcomeInv, SessionInv, NEW p \in Proc, RevokeOld(p)
  PROVE  /\ SessionInv' /\ accounts' = accounts
         /\ \A q \in Proc : GrantOf(q)' = GrantOf(q)
         /\ sessions' = [s \in Session |-> IF s \in {req[p].sess} THEN None ELSE sessions[s]]
<1> DEFINE r == req[p]
<1>1. /\ TypeOK /\ Shape /\ OneChain /\ Callers /\ Opening /\ r \in Request
  BY DEF OutcomeInv, Inv, TypeOK, SessionInv
<1>2. /\ UNCHANGED <<accounts, roles, req, tx>> /\ r.op = "REFRESH" /\ At(p, "revoke")
      /\ pc' = [pc EXCEPT ![p] = @ + 1]
      /\ sessions' = [sessions EXCEPT ![r.sess] = None]
  BY DEF RevokeOld, Advance
<1>3. pc[p] = 1 /\ tx[p] = NoTx
  BY <1>1, <1>2, RefreshAt DEF Shape
<1>4. /\ pc'[p] = 2
      /\ \A q \in Proc \ {p} : req'[q] = req[q] /\ tx'[q] = tx[q] /\ pc'[q] = pc[q]
  BY <1>1, <1>2, <1>3 DEF TypeOK
<1>5. \A s \in Session : sessions'[s] \in {None, sessions[s]}
  BY <1>1, <1>2 DEF TypeOK
<1>6. ChainOf[r.target] = ChainOf[r.actor] /\ r.target = r.actor
  BY <1>1, <1>2 DEF Callers, Follows
<1>7. Follows(req'[p], tx'[p], pc'[p]) /\ BelongsTo(req'[p], tx'[p], accounts)
  BY <1>1, <1>2, <1>4, <1>6 DEF Callers, Follows, BelongsTo
<1>8. GrantOf(p)' = GrantOf(p)
  BY <1>2, <1>3, <1>4 DEF GrantOf
<1>9. \A q \in Proc : GrantOf(q) # None /\ GrantOf(q).opened # None =>
                        GrantOf(q).opened \in Session
  BY <1>1 DEF GrantOf, TypeOK, Request
<1>10. OneChain' /\ Callers' /\ Opening'
  BY <1>1, <1>2, <1>4, <1>5, <1>7, <1>8, <1>9, KeepChain, KeepCallers, KeepOpening
<1>11. \A q \in Proc \ {p} : GrantOf(q)' = GrantOf(q)
  BY <1>4 DEF GrantOf
<1>12. sessions' = [s \in Session |-> IF s \in {r.sess} THEN None ELSE sessions[s]]
  BY <1>1, <1>2 DEF TypeOK
<1> QED
  BY <1>2, <1>8, <1>10, <1>11, <1>12 DEF SessionInv

\* A login or a refresh opens its session: one that is nobody else's, on the chain of
\* the account.
LEMMA CreateSessionSession ==
  ASSUME OutcomeInv, SessionInv, NEW p \in Proc, CreateSession(p)
  PROVE  /\ SessionInv' /\ UNCHANGED <<accounts, roles>>
         /\ \E s \in Session :
              LET g == [acct |-> req[p].acct, wallet |-> req[p].actor, opened |-> None] IN
              /\ GrantOf(p) = g /\ GrantOf(p)' = [g EXCEPT !.opened = s]
              /\ sessions[s] = None
              /\ \A q \in Proc : GrantOf(q) # None => GrantOf(q).opened # s
              /\ sessions' = [sessions EXCEPT ![s] =
                   [acct |-> g.acct, wallet |-> g.wallet, known |-> FALSE]]
              /\ \A q \in Proc \ {p} : GrantOf(q)' = GrantOf(q)
<1> DEFINE r == req[p]
<1>1. /\ TypeOK /\ Shape /\ OneChain /\ Callers /\ Opening /\ r \in Request
      /\ Fits(r, tx[p], pc[p])
  BY DEF OutcomeInv, Inv, TypeOK, SessionInv, Staging
<1>2. PICK s \in Session :
        /\ FreshSession(s) /\ req' = [req EXCEPT ![p].sess = s]
        /\ sessions' = [sessions EXCEPT ![s] =
             [acct |-> r.acct, wallet |-> r.actor, known |-> FALSE]]
  BY DEF CreateSession
<1>3. /\ UNCHANGED <<accounts, roles, tx>> /\ r.op \in {"LOGIN", "REFRESH"}
      /\ pc' = [pc EXCEPT ![p] = @ + 1] /\ At(p, "session") /\ r.acct # None
  BY DEF CreateSession, OpensSession, Advance, Rejected
<1>4. /\ tx[p] = NoTx
      /\ \/ r.op = "LOGIN" /\ pc[p] = 5
         \/ r.op = "REFRESH" /\ pc[p] = 2
  BY <1>1, <1>3, LoginAt, RefreshAt DEF Shape
<1>5. /\ r.op = "LOGIN" => r.sess = None
      /\ ChainOf[r.target] = ChainOf[r.actor] /\ (r.op = "REFRESH" => r.target = r.actor)
      /\ accounts[r.acct] # None /\ ChainOf[r.actor] = ChainOf[accounts[r.acct]]
  BY <1>1, <1>3, <1>4, IdleFollows DEF Callers, Follows, BelongsTo
<1>6. /\ req'[p] = [r EXCEPT !.sess = s] /\ tx'[p] = tx[p] /\ pc'[p] = pc[p] + 1
      /\ \A q \in Proc \ {p} : req'[q] = req[q] /\ tx'[q] = tx[q] /\ pc'[q] = pc[q]
  BY <1>1, <1>2, <1>3 DEF TypeOK
<1>7. /\ req'[p].op = r.op /\ req'[p].acct = r.acct /\ req'[p].actor = r.actor
      /\ req'[p].target = r.target /\ req'[p].sess = s
  BY <1>1, <1>6 DEF Request
<1>8. Follows(req'[p], tx'[p], pc'[p]) /\ BelongsTo(req'[p], tx'[p], accounts)
  BY <1>4, <1>5, <1>6, <1>7, IdleFollows DEF Follows, BelongsTo
<1> DEFINE g == [acct |-> r.acct, wallet |-> r.actor, opened |-> None]
           h == [acct |-> r.acct, wallet |-> r.actor, opened |-> s]
<1>9. GrantOf(p) = g
  BY <1>3, <1>4, <1>5, IdleFollows DEF GrantOf
<1>10. GrantOf(p)' = h
  BY <1>3, <1>4, <1>6, <1>7, IdleFollows DEF GrantOf
<1>11. \A q \in Proc \ {p} : GrantOf(q)' = GrantOf(q)
  BY <1>6 DEF GrantOf
<1>12. /\ sessions[s] = None
       /\ \A q \in Proc : s # req[q].sess
  BY <1>2 DEF FreshSession
<1>13. s # None
  BY NoneAssumption
<1>14. \A q \in Proc : GrantOf(q) # None => GrantOf(q).opened # s
  BY <1>12, <1>13 DEF GrantOf
<1>15. /\ sessions'[s] = [acct |-> r.acct, wallet |-> r.actor, known |-> FALSE]
       /\ \A t \in Session \ {s} : sessions'[t] = sessions[t]
  BY <1>1, <1>2 DEF TypeOK
<1>16. OneChain'
  <2>1. \A t \in Session : LET l == sessions'[t] IN
          l # None => accounts[l.acct] # None /\ ChainOf[l.wallet] = ChainOf[accounts[l.acct]]
    BY <1>1, <1>5, <1>15 DEF OneChain
  <2> QED
    BY <1>1, <1>3, <2>1 DEF OneChain
<1>17. Callers'
  BY <1>1, <1>3, <1>6, <1>8, KeepCallers
<1>18. Opening'
  <2>1. \A q \in Proc \ {p} : GrantOf(q) # None /\ GrantOf(q).opened # None =>
          GrantOf(q).opened \in Session \ {s}
    BY <1>1, <1>14 DEF GrantOf, TypeOK, Request
  <2>2. h # None /\ h.opened = s /\ h.acct = r.acct /\ h.wallet = r.actor
    BY <1>1, <1>3, GrantAssumption DEF Request
  <2> HIDE DEF h
  <2>3. ASSUME NEW q \in Proc, GrantOf(q)' # None, GrantOf(q)'.opened # None
        PROVE  /\ sessions'[GrantOf(q)'.opened] \in
                    {None, [acct |-> GrantOf(q)'.acct, wallet |-> GrantOf(q)'.wallet,
                            known |-> FALSE]}
               /\ \A o \in Proc \ {q} :
                    GrantOf(o)' # None => GrantOf(o)'.opened # GrantOf(q)'.opened
    <3>1. CASE q = p
      BY <1>10, <1>11, <1>14, <1>15, <2>2, <3>1
    <3>2. CASE q # p
      <4>1. GrantOf(q)' = GrantOf(q) /\ GrantOf(q).opened \in Session \ {s}
        BY <1>11, <2>1, <2>3, <3>2
      <4>2. /\ sessions[GrantOf(q).opened] \in
                 {None, [acct |-> GrantOf(q).acct, wallet |-> GrantOf(q).wallet,
                         known |-> FALSE]}
            /\ \A o \in Proc \ {q} :
                 GrantOf(o) # None => GrantOf(o).opened # GrantOf(q).opened
        BY <1>1, <2>3, <4>1 DEF Opening
      <4>3. \A o \in Proc \ {q} : GrantOf(o)' # None => GrantOf(o)'.opened # GrantOf(q).opened
        BY <1>10, <1>11, <2>2, <4>1, <4>2
      <4> QED
        BY <1>15, <4>1, <4>2, <4>3
    <3> QED
      BY <3>1, <3>2
  <2> QED
    BY <2>3 DEF Opening
<1>19. [g EXCEPT !.opened = s] = h
  OBVIOUS
<1>20. SessionInv'
  BY <1>16, <1>17, <1>18 DEF SessionInv
<1> QED
  BY <1>2, <1>3, <1>9, <1>10, <1>11, <1>12, <1>14, <1>19, <1>20

\* The response hands out the tokens of the session that its request has opened, and of
\* no other; the first audit row of a refresh changes nothing.
LEMMA AuditSession ==
  ASSUME OutcomeInv, SessionInv, NEW p \in Proc, AuditCreated(p) \/ AuditRefreshed(p)
  PROVE  /\ SessionInv' /\ UNCHANGED <<accounts, roles>>
         /\ \A q \in Proc \ {p} : GrantOf(q)' = GrantOf(q)
         /\ \/ GrantOf(p)' = GrantOf(p) /\ sessions' = sessions
            \/ /\ GrantOf(p)' = None
               /\ LET s == GrantOf(p).opened IN
                  \/ sessions' = sessions
                  \/ /\ GrantOf(p) # None /\ s \in Session
                     /\ sessions[s] \in {None, [acct |-> GrantOf(p).acct,
                                                wallet |-> GrantOf(p).wallet, known |-> FALSE]}
                     /\ sessions' = IF sessions[s] = None THEN sessions
                                    ELSE [sessions EXCEPT ![s].known = TRUE]
<1> DEFINE r == req[p]
<1>1. /\ TypeOK /\ Shape /\ OneChain /\ Callers /\ Opening /\ r \in Request
  BY DEF OutcomeInv, Inv, TypeOK, SessionInv
<1>2. /\ UNCHANGED <<accounts, roles, tx>> /\ r.op \in {"LOGIN", "REFRESH"}
      /\ At(p, "audit") \/ At(p, "refreshed")
      /\ \/ Respond(p)
         \/ /\ At(p, "audit") /\ r.op = "REFRESH" /\ pc' = [pc EXCEPT ![p] = @ + 1]
            /\ UNCHANGED <<sessions, req>>
  BY DEF AuditCreated, AuditRefreshed, OpensSession, SessionAudit, Advance
<1>3. /\ tx[p] = NoTx
      /\ \/ r.op = "LOGIN" /\ pc[p] = 6
         \/ r.op = "REFRESH" /\ pc[p] \in 3 .. 4
      /\ At(p, "audit") /\ r.op = "REFRESH" => pc[p] = 3
      /\ r.acct # None
  BY <1>1, <1>2, LoginAt, RefreshAt DEF Shape
<1>4. GrantOf(p) = [acct |-> r.acct, wallet |-> r.actor, opened |-> r.sess]
  BY <1>2, <1>3, IdleFollows DEF GrantOf
<1>5. GrantOf(p) # None /\ GrantOf(p).opened = r.sess
  BY <1>1, <1>3, <1>4, GrantAssumption DEF Request
<1>6. CASE Respond(p)
  <2>1. /\ sessions' = [s \in Session |-> IF s = r.sess /\ sessions[s] # None
                          THEN [sessions[s] EXCEPT !.known = TRUE] ELSE sessions[s]]
        /\ pc' = [pc EXCEPT ![p] = 0] /\ req' = [req EXCEPT ![p] = NoRequest]
    BY <1>6 DEF Respond, Finish
  <2>2. /\ req'[p] = NoRequest /\ pc'[p] = 0 /\ tx'[p] = NoTx
        /\ \A q \in Proc \ {p} : req'[q] = req[q] /\ tx'[q] = tx[q] /\ pc'[q] = pc[q]
    BY <1>1, <1>2, <1>3, <2>1 DEF TypeOK
  <2>3. GrantOf(p)' = None
    BY <2>2, IdleFollows DEF GrantOf
  <2>4. \A q \in Proc \ {p} : GrantOf(q)' = GrantOf(q)
    BY <2>2 DEF GrantOf
  <2>5. \A s \in Session : sessions[s] # None =>
          /\ sessions'[s] \in {sessions[s], [sessions[s] EXCEPT !.known = TRUE]}
          /\ sessions[s] \in LiveSession
    BY <1>1, <2>1 DEF TypeOK
  <2>6. \A s \in Session : sessions[s] = None => sessions'[s] = None
    BY <2>1
  <2>7. \A s \in Session : s # r.sess => sessions'[s] = sessions[s]
    BY <2>1
  <2>8. OneChain'
    <3>1. ASSUME NEW s \in Session, sessions[s] # None
          PROVE  /\ sessions'[s].acct = sessions[s].acct
                 /\ sessions'[s].wallet = sessions[s].wallet
      BY <2>5, <3>1 DEF LiveSession
    <3> QED
      BY <1>1, <1>2, <2>6, <3>1, KeepChain
  <2>9. Callers'
    BY <1>1, <1>2, <2>2, IdleFollows, KeepCallers
  <2>10. Opening'
    <3>1. ASSUME NEW q \in Proc, GrantOf(q) # None, GrantOf(q).opened # None,
                 GrantOf(q)' = GrantOf(q)
          PROVE  sessions'[GrantOf(q).opened] \in {None, sessions[GrantOf(q).opened]}
      <4>1. q # p /\ GrantOf(q).opened \in Session
        BY <1>1, <1>5, <2>3, <3>1 DEF GrantOf, TypeOK, Request
      <4>2. GrantOf(q).opened # r.sess
        BY <1>1, <1>5, <3>1, <4>1 DEF Opening
      <4> QED
        BY <2>7, <4>1, <4>2
    <3> QED
      BY <1>1, <2>2, <2>3, <3>1, KeepOpening
  <2>11. CASE r.sess = None
    <3>1. sessions' = sessions
      BY <1>1, <2>1, <2>11, NoneAssumption DEF TypeOK
    <3> QED
      BY <1>2, <2>3, <2>4, <2>8, <2>9, <2>10, <3>1 DEF SessionInv
  <2>12. CASE r.sess # None
    <3> DEFINE s == r.sess
    <3>1. s \in Session
      BY <1>1, <2>12 DEF Request
    <3>2. sessions[s] \in {None, [acct |-> r.acct, wallet |-> r.actor, known |-> FALSE]}
      BY <1>1, <1>4, <1>5, <2>12 DEF Opening
    <3>3. sessions' = IF sessions[s] = None THEN sessions
                      ELSE [sessions EXCEPT ![s].known = TRUE]
      BY <1>1, <2>1, <3>1 DEF TypeOK
    <3>4. GrantOf(p).acct = r.acct /\ GrantOf(p).wallet = r.actor
      BY <1>4
    <3> QED
      BY <1>2, <1>5, <2>3, <2>4, <2>8, <2>9, <2>10, <3>1, <3>2, <3>3, <3>4 DEF SessionInv
  <2> QED
    BY <2>11, <2>12
<1>7. CASE ~Respond(p)
  <2>1. /\ pc' = [pc EXCEPT ![p] = @ + 1] /\ UNCHANGED <<sessions, req>>
        /\ r.op = "REFRESH" /\ pc[p] = 3
    BY <1>2, <1>3, <1>7
  <2>2. /\ pc'[p] = 4
        /\ \A q \in Proc \ {p} : req'[q] = req[q] /\ tx'[q] = tx[q] /\ pc'[q] = pc[q]
    BY <1>1, <1>2, <2>1 DEF TypeOK
  <2>3. Follows(req'[p], tx'[p], pc'[p]) /\ BelongsTo(req'[p], tx'[p], accounts)
    <3>1. Follows(r, tx[p], 3) /\ BelongsTo(r, tx[p], accounts)
      BY <1>1, <2>1 DEF Callers
    <3> QED
      BY <1>2, <2>1, <2>2, <3>1 DEF Follows
  <2>4. \A q \in Proc : GrantOf(q)' = GrantOf(q)
    BY <1>2, <2>1, <2>2 DEF GrantOf
  <2>5. OneChain' /\ Callers' /\ Opening'
    BY <1>1, <1>2, <2>1, <2>2, <2>3, <2>4, KeepChain, KeepCallers, KeepOpening
  <2> QED
    BY <1>2, <2>1, <2>4, <2>5 DEF SessionInv
<1> QED
  BY <1>6, <1>7

-----------------------------------------------------------------------------
(* Commits *)

\* An account that exists keeps existing, and its new owner is on its chain.
LEMMA ChainsKept ==
  ASSUME OutcomeInv, SessionInv, NEW p \in Proc, Commit(p)
  PROVE  /\ ChainOf[req[p].target] = ChainOf[req[p].actor]
         /\ tx[p].owner # None =>
              /\ req[p].acct \in Account /\ tx[p].owner = req[p].target
              /\ accounts' = [accounts EXCEPT ![req[p].acct] = req[p].target]
              /\ req[p].op \in {"LOGIN", "EXECUTE_RECOVERY"}
         /\ tx[p].owner = None => accounts' = accounts
         /\ \A a \in Account : accounts[a] # None =>
              accounts'[a] # None /\ ChainOf[accounts'[a]] = ChainOf[accounts[a]]
<1> DEFINE r == req[p]
<1>1. /\ TypeOK /\ Shape /\ Callers /\ r \in Request /\ Fits(r, tx[p], pc[p]) /\ Staging
      /\ At(p, "commit")
  BY DEF OutcomeInv, Inv, TypeOK, SessionInv, Staging, Commit
<1>2. ChainOf[r.target] = ChainOf[r.actor]
  <2>1. r.op # "LOGIN" => pc[p] > 1
    BY <1>1, AtCommit
  <2> QED
    BY <1>1, <2>1 DEF Callers, Follows, Fits
<1>3. tx[p].owner # None =>
        /\ r.acct \in Account /\ tx[p].owner = r.target /\ r.target # None
        /\ accounts' = [accounts EXCEPT ![r.acct] = r.target]
        /\ r.op \in {"LOGIN", "EXECUTE_RECOVERY"}
  BY <1>1, NoneAssumption DEF Fits, Shape, Request, Commit, AccountsAfter
<1>4. tx[p].owner = None => accounts' = accounts
  BY DEF Commit, AccountsAfter
<1>5. ASSUME NEW a \in Account, accounts[a] # None
      PROVE  accounts'[a] # None /\ ChainOf[accounts'[a]] = ChainOf[accounts[a]]
  <2>1. CASE tx[p].owner = None \/ a # r.acct
    BY <1>1, <1>3, <1>4, <1>5, <2>1 DEF TypeOK
  <2>2. CASE tx[p].owner # None /\ a = r.acct
    <3>1. r.op = "EXECUTE_RECOVERY"
      BY <1>1, <1>3, <1>5, <2>2 DEF Staging
    <3>2. ChainOf[r.actor] = ChainOf[accounts[a]]
      BY <1>1, <1>5, <2>2, <3>1, NoneAssumption DEF Callers, BelongsTo
    <3>3. accounts'[a] = r.target
      BY <1>1, <1>3, <2>2 DEF TypeOK
    <3> QED
      BY <1>2, <1>3, <2>2, <3>2, <3>3
  <2> QED
    BY <2>1, <2>2
<1> QED
  BY <1>2, <1>3, <1>4, <1>5

\* The rows that a commit adds are on the chain of their account.
LEMMA CommitChain ==
  ASSUME OutcomeInv, SessionInv, NEW p \in Proc, Commit(p)
  PROVE  OneChain'
<1> DEFINE r == req[p]
<1>1. /\ TypeOK /\ OwnerAgreement /\ Callers /\ OneChain /\ Shape
      /\ Fits(r, tx[p], pc[p]) /\ At(p, "commit") /\ roles \subseteq RoleRow
  BY DEF OutcomeInv, Inv, TypeOK, SessionInv, Staging, Commit
<1>2. \A a \in Account : accounts[a] # None =>
        accounts'[a] # None /\ ChainOf[accounts'[a]] = ChainOf[accounts[a]]
  BY ChainsKept
<1>3. ASSUME NEW k \in roles' PROVE ChainOf[k.wallet] = ChainOf[accounts'[k.acct]]
  <2>1. k \in roles \/ k \in tx[p].ins
    BY <1>3 DEF Commit, RolesAfter
  <2>2. CASE k \in roles
    <3>1. k.acct \in Account /\ accounts[k.acct] # None
      BY <1>1, <2>2 DEF RoleRow, OwnerAgreement
    <3> QED
      BY <1>1, <1>2, <2>2, <3>1 DEF OneChain
  <2>3. CASE k \in tx[p].ins
    <3>1. k.acct = r.acct /\ k.wallet = r.target
      BY <1>1, <2>3 DEF Fits, MayInsert, Mine, Row
    <3>2. CASE tx[p].owner # None
      BY <1>1, <3>1, <3>2, ChainsKept DEF TypeOK
    <3>3. CASE tx[p].owner = None
      <4>1. r.op # "LOGIN"
        BY <1>1, <2>3, <3>3 DEF Fits
      <4>2. r.acct # None
        BY <1>1, <4>1 DEF Shape
      <4>3. ChainOf[r.actor] = ChainOf[accounts[r.acct]]
        BY <1>1, <4>1, <4>2 DEF Callers, BelongsTo
      <4> QED
        BY <3>1, <3>3, <4>3, ChainsKept
    <3> QED
      BY <3>2, <3>3
  <2> QED
    BY <2>1, <2>2, <2>3
<1>4. ASSUME NEW s \in Session, sessions'[s] # None
      PROVE  /\ accounts'[sessions'[s].acct] # None
             /\ ChainOf[sessions'[s].wallet] = ChainOf[accounts'[sessions'[s].acct]]
  <2>1. sessions'[s] = sessions[s] /\ sessions[s] # None
    BY <1>4 DEF Commit
  <2>2. sessions[s].acct \in Account
    BY <1>1, <2>1 DEF TypeOK, LiveSession
  <2> QED
    BY <1>1, <1>2, <2>1, <2>2 DEF OneChain
<1> QED
  BY <1>3, <1>4 DEF OneChain

\* A commit makes an account and lets its login open a session, or leaves all grants
\* alone; it may end sessions and give an account that exists another owner.
LEMMA CommitSession ==
  ASSUME OutcomeInv, SessionInv, NEW p \in Proc, Commit(p)
  PROVE  /\ SessionInv'
         /\ \A q \in Proc \ {p} : GrantOf(q)' = GrantOf(q)
         /\ sessions' = [s \in Session |-> IF s \in tx[p].dead THEN None ELSE sessions[s]]
         /\ \/ GrantOf(p)' = GrantOf(p) /\ accounts' = accounts
            \/ /\ GrantOf(p)' = GrantOf(p)
               /\ \E a \in Account, w \in Wallet :
                    accounts[a] # None /\ accounts' = [accounts EXCEPT ![a] = w]
            \/ /\ GrantOf(p) = None /\ sessions' = sessions
               /\ \E a \in Account, w \in Wallet :
                    /\ accounts[a] = None /\ accounts' = [accounts EXCEPT ![a] = w]
                    /\ GrantOf(p)' = [acct |-> a, wallet |-> w, opened |-> None]
<1> DEFINE r == req[p]
<1>1. /\ Inv /\ TypeOK /\ Shape /\ Callers /\ Opening /\ OneChain /\ r \in Request
      /\ Fits(r, tx[p], pc[p]) /\ Staging /\ At(p, "commit")
  BY DEF OutcomeInv, Inv, TypeOK, SessionInv, Staging, Commit
<1>2. /\ tx'[p] = NoTx
      /\ IF r.op = "LOGIN" THEN pc'[p] = 5 /\ req'[p] = r
         ELSE pc'[p] = 0 /\ req'[p] = NoRequest
      /\ \A q \in Proc \ {p} : tx'[q] = tx[q] /\ req'[q] = req[q] /\ pc'[q] = pc[q]
  BY <1>1, CommitControl
<1>3. sessions' = [s \in Session |-> IF s \in tx[p].dead THEN None ELSE sessions[s]]
  BY DEF Commit
<1>4. /\ r.op = "LOGIN" => /\ r.sess = None /\ tx[p].dead = {} /\ r.actor = r.target
                           /\ tx[p].owner # None => accounts[r.acct] = None
      /\ r.op # "REFRESH"
  <2>1. r.op = "LOGIN" => pc[p] = 4
    BY <1>1, LoginAt
  <2> QED
    BY <1>1, <2>1, RefreshAt DEF Callers, Follows, Fits, Staging
<1>5. Staging'
  BY <1>1, CommitStaging
<1>6. /\ ChainOf[r.target] = ChainOf[r.actor]
      /\ tx[p].owner # None =>
           /\ r.acct \in Account /\ tx[p].owner = r.target
           /\ accounts' = [accounts EXCEPT ![r.acct] = r.target]
           /\ r.op \in {"LOGIN", "EXECUTE_RECOVERY"}
      /\ tx[p].owner = None => accounts' = accounts
      /\ \A a \in Account : accounts[a] # None =>
           accounts'[a] # None /\ ChainOf[accounts'[a]] = ChainOf[accounts[a]]
  BY ChainsKept
<1>7. Callers'
  <2>1. Follows(req'[p], tx'[p], pc'[p])
    BY <1>2, <1>4, <1>6, IdleFollows DEF Follows
  <2>2. BelongsTo(req'[p], tx'[p], accounts')
    <3>1. CASE r.op # "LOGIN"
      BY <1>2, <3>1, IdleFollows
    <3>2. CASE r.op = "LOGIN" /\ tx[p].owner # None
      <4>1. accounts'[r.acct] = r.target /\ r.target # None
        BY <1>1, <1>6, <3>2, NoneAssumption DEF TypeOK, Request
      <4> QED
        BY <1>2, <1>4, <3>2, <4>1, IdleFollows DEF BelongsTo
    <3>3. CASE r.op = "LOGIN" /\ tx[p].owner = None
      <4>1. BelongsTo(r, tx[p], accounts)
        BY <1>1 DEF Callers
      <4> QED
        BY <1>2, <1>6, <3>3, <4>1, IdleFollows DEF BelongsTo
    <3> QED
      BY <3>1, <3>2, <3>3
  <2>3. ASSUME NEW q \in Proc \ {p}
        PROVE  Follows(req'[q], tx'[q], pc'[q]) /\ BelongsTo(req'[q], tx'[q], accounts')
    <3>1. Follows(req[q], tx[q], pc[q]) /\ BelongsTo(req[q], tx[q], accounts)
      BY <1>1 DEF Callers
    <3>2. CASE req[q].op = "LOGIN" /\ tx[q].owner # None
      <4>1. accounts'[req[q].acct] = None
        BY <1>2, <1>5, <3>2 DEF Staging
      <4> QED
        BY <1>2, <3>1, <3>2, <4>1 DEF BelongsTo
    <3>3. CASE ~(req[q].op = "LOGIN" /\ tx[q].owner # None)
      <4>1. req[q].acct # None => req[q].acct \in Account
        BY <1>1 DEF TypeOK, Request
      <4> QED
        BY <1>2, <1>6, <3>1, <3>3, <4>1 DEF BelongsTo
    <3> QED
      BY <3>2, <3>3
  <2> QED
    BY <2>1, <2>2, <2>3 DEF Callers
<1>8. \A q \in Proc \ {p} : GrantOf(q)' = GrantOf(q)
  BY <1>2 DEF GrantOf
<1>9. GrantOf(p)' = None \/ GrantOf(p)'.opened = None
  BY <1>2, <1>4, IdleFollows DEF GrantOf
<1>10. Opening'
  <2>1. \A q \in Proc : GrantOf(q) # None /\ GrantOf(q).opened # None =>
          GrantOf(q).opened \in Session
    BY <1>1 DEF GrantOf, TypeOK, Request
  <2>2. \A s \in Session : sessions'[s] \in {None, sessions[s]}
    BY <1>3
  <2> QED
    BY <1>1, <1>2, <1>9, <2>1, <2>2, KeepOpening
<1>11. SessionInv'
  BY <1>7, <1>10, CommitChain DEF SessionInv
<1>12. CASE r.op # "LOGIN"
  <2>1. GrantOf(p) = None /\ GrantOf(p)' = None
    BY <1>2, <1>4, <1>12, NoGrant, IdleFollows DEF GrantOf
  <2>2. CASE tx[p].owner = None
    BY <1>3, <1>6, <1>8, <1>11, <2>1, <2>2
  <2>3. CASE tx[p].owner # None
    <3>1. accounts[r.acct] # None
      BY <1>1, <1>4, <1>12 DEF Shape
    <3>2. r.target \in Wallet
      BY <1>1 DEF Request
    <3> QED
      BY <1>3, <1>6, <1>8, <1>11, <2>1, <2>3, <3>1, <3>2
  <2> QED
    BY <2>2, <2>3
<1>13. CASE r.op = "LOGIN" /\ tx[p].owner = None
  <2>1. GrantOf(p)' = GrantOf(p)
    BY <1>2, <1>13, IdleFollows DEF GrantOf
  <2> QED
    BY <1>3, <1>6, <1>8, <1>11, <1>13, <2>1
<1>14. CASE r.op = "LOGIN" /\ tx[p].owner # None
  <2>1. GrantOf(p) = None
    BY <1>14, NoGrant
  <2>2. GrantOf(p)' = [acct |-> r.acct, wallet |-> r.target, opened |-> None]
    BY <1>2, <1>4, <1>6, <1>14, NoneAssumption, IdleFollows DEF GrantOf
  <2>3. sessions' = sessions
    BY <1>1, <1>3, <1>4, <1>14 DEF TypeOK
  <2>4. r.target \in Wallet
    BY <1>1 DEF Request
  <2> QED
    BY <1>3, <1>4, <1>6, <1>8, <1>11, <1>14, <2>1, <2>2, <2>3, <2>4
<1> QED
  BY <1>12, <1>13, <1>14

-----------------------------------------------------------------------------
(* The invariant *)

\* Every step preserves SessionInv.
LEMMA NextSession == OutcomeInv /\ SessionInv /\ [Next]_vars => SessionInv'
<1> SUFFICES ASSUME OutcomeInv, SessionInv, [Next]_vars PROVE SessionInv'
  OBVIOUS
<1>1. CASE Environment
  BY <1>1, EnvironmentSession DEF OutcomeInv
<1>2. ASSUME NEW p \in Proc, Execute(p) \/ Crash(p) PROVE SessionInv'
  <2>1. CASE Check(p) \/ Consume(p) \/ Read(p) \/ Scan(p) \/ Delete(p) \/ Insert(p)
             \/ KillSessions(p)
    BY <2>1, StatementSession
  <2>2. CASE LookUpAccount(p) \/ ProvisionAccount(p) \/ Commit(p)
    BY <2>2, LookUpSession, ProvisionSession, CommitSession
  <2>3. CASE RevokeOld(p) \/ CreateSession(p) \/ AuditCreated(p) \/ AuditRefreshed(p)
    BY <2>3, RevokeOldSession, CreateSessionSession, AuditSession
  <2>4. CASE Fail(p) \/ DeadlockVictim(p) \/ Crash(p)
    BY <2>4, RollbackSession DEF Fail, DeadlockVictim, Crash
  <2> QED
    BY <1>2, <2>1, <2>2, <2>3, <2>4 DEF Execute
<1>3. CASE UNCHANGED vars
  <2>1. UNCHANGED <<accounts, roles, pc, req, tx, sessions>>
    BY <1>3 DEF vars
  <2> QED
    BY <2>1, QuietSession DEF OutcomeInv, Inv
<1> QED
  BY <1>1, <1>2, <1>3 DEF Next

\* Whom every request in flight is about, and that an opened session is nobody else's,
\* in every reachable state.
THEOREM SessionInvariance == Spec => [](OutcomeInv /\ SessionInv)
<1>1. Init => SessionInv
  BY InitSession
<1>2. OutcomeInv /\ SessionInv /\ [Next]_vars => SessionInv'
  BY NextSession
<1> QED
  BY <1>1, <1>2, OutcomeInvariance, PTL DEF Spec

\* OneChain: whatever is linked, granted and recovered while requests interleave, no
\* role and no session of an account is ever on another chain than its owner.
THEOREM OneChainHolds == Spec => []OneChain
<1>1. SessionInv => OneChain
  BY DEF SessionInv
<1> QED
  BY <1>1, SessionInvariance, PTL

-----------------------------------------------------------------------------
(* AuthService implements SessionGrants: the look-up of an account and the     *)
(* commit of a first login admit, the arrival of a refresh renews, the insert  *)
(* of a sessions row opens, the response hands out, what ends a session ends   *)
(* it, and every other end of a request withdraws.                             *)

\* The refinement mapping, as AuthService gives it to SessionGrants.
GrantMap == [p \in Proc |-> GrantOf(p)]

\* What the abstract specification sees does not change.
LEMMA SameGrants ==
  ASSUME accounts' = accounts, sessions' = sessions, GrantMap' = GrantMap
  PROVE  [Grants!Next]_(Grants!vars)
BY DEF Grants!vars, GrantMap

\* A step of p changes at most p's grant.
LEMMA GrantChange ==
  ASSUME NEW p \in Proc, \A q \in Proc \ {p} : GrantOf(q)' = GrantOf(q)
  PROVE  GrantMap' = [GrantMap EXCEPT ![p] = GrantOf(p)']
BY DEF GrantMap

\* A request ends and nobody gets the tokens.
LEMMA Retracts ==
  ASSUME NEW p \in Proc, UNCHANGED <<accounts, sessions>>,
         GrantMap' = [GrantMap EXCEPT ![p] = None]
  PROVE  [Grants!Next]_(Grants!vars)
<1>1. Grants!Withdraw(p)
  BY DEF Grants!Withdraw, GrantMap
<1> QED
  BY <1>1 DEF Grants!Next

\* Sessions end; an account that exists may get another owner.
LEMMA Ends ==
  ASSUME NEW gone \in SUBSET Session, GrantMap' = GrantMap,
         sessions' = [s \in Session |-> IF s \in gone THEN None ELSE sessions[s]],
         \/ accounts' = accounts
         \/ \E a \in Account, w \in Wallet :
              accounts[a] # None /\ accounts' = [accounts EXCEPT ![a] = w]
  PROVE  [Grants!Next]_(Grants!vars)
<1>1. Grants!End(gone)
  BY DEF Grants!End, GrantMap
<1> QED
  BY <1>1 DEF Grants!Next

\* The owner of an account may open a session, perhaps of one made by this step.
LEMMA Admits ==
  ASSUME NEW p \in Proc, NEW a \in Account, GrantOf(p) = None, sessions' = sessions,
         GrantMap' = [GrantMap EXCEPT ![p] = GrantOf(p)'],
         \/ accounts[a] # None /\ accounts' = accounts
         \/ /\ accounts[a] = None
            /\ \E w \in Wallet : accounts' = [accounts EXCEPT ![a] = w],
         GrantOf(p)' = [acct |-> a, wallet |-> accounts'[a], opened |-> None]
  PROVE  [Grants!Next]_(Grants!vars)
<1>1. Grants!Granted(p, a, accounts'[a])
  BY DEF Grants!Granted, GrantMap
<1>2. Grants!Admit(p, a)
  BY <1>1 DEF Grants!Admit
<1> QED
  BY <1>2 DEF Grants!Next

\* The empty database maps to no account, no session and no grant.
LEMMA InitGrants == Init => Grants!Init
<1> SUFFICES ASSUME Init PROVE Grants!Init
  OBVIOUS
<1>1. /\ accounts \in [Account -> Wallet \cup {None}] /\ \A s \in Session : sessions[s] = None
      /\ \A p \in Proc : GrantOf(p) = None
  BY NoGrant, IdleFollows DEF Init
<1> QED
  BY <1>1 DEF Grants!Init

\* Refreshes renew; expiries and revocations end sessions.
LEMMA EnvironmentGrants ==
  ASSUME OutcomeInv, SessionInv, Environment
  PROVE  [Grants!Next]_(Grants!vars)
<1>1. TypeOK /\ Shape
  BY DEF OutcomeInv, Inv
<1>2. ASSUME UNCHANGED <<accounts, sessions, pc, req, tx>>
      PROVE  [Grants!Next]_(Grants!vars)
  BY <1>2, SameGrants DEF GrantMap, GrantOf
<1>3. ASSUME NEW s \in Session, ExpireSession(s) \/ \E t \in Session : RevokeSession(s, t)
      PROVE  [Grants!Next]_(Grants!vars)
  <2>1. PICK t \in Session : sessions' = [sessions EXCEPT ![t] = None]
    BY <1>3 DEF ExpireSession, RevokeSession
  <2>2. sessions' = [u \in Session |-> IF u \in {t} THEN None ELSE sessions[u]]
    BY <1>1, <2>1 DEF TypeOK
  <2>3. accounts' = accounts /\ GrantMap' = GrantMap
    BY <1>3 DEF ExpireSession, RevokeSession, GrantMap, GrantOf
  <2> QED
    BY <2>2, <2>3, Ends
<1>4. ASSUME NEW p \in Proc, NEW r \in Request, Start(p, r)
      PROVE  /\ UNCHANGED <<accounts, sessions, tx>> /\ GrantOf(p) = None
             /\ req'[p] = r /\ pc'[p] = 1 /\ tx'[p] = NoTx
             /\ GrantMap' = [GrantMap EXCEPT ![p] = GrantOf(p)']
  <2>1. /\ pc' = [pc EXCEPT ![p] = 1] /\ req' = [req EXCEPT ![p] = r]
        /\ UNCHANGED <<accounts, sessions, tx>> /\ tx[p] = NoTx /\ req[p] = NoRequest
    BY <1>1, <1>4 DEF Start, tables, Shape
  <2>2. /\ req'[p] = r /\ pc'[p] = 1
        /\ \A q \in Proc \ {p} : req'[q] = req[q] /\ tx'[q] = tx[q] /\ pc'[q] = pc[q]
    BY <1>1, <2>1 DEF TypeOK
  <2>3. GrantOf(p) = None
    BY <2>1, NoGrant, IdleFollows
  <2>4. \A q \in Proc \ {p} : GrantOf(q)' = GrantOf(q)
    BY <2>2 DEF GrantOf
  <2> QED
    BY <2>1, <2>2, <2>3, <2>4, GrantChange
<1>5. ASSUME NEW p \in Proc, NEW w \in Wallet, NEW n \in Nonce, StartLogin(p, w, n)
      PROVE  [Grants!Next]_(Grants!vars)
  <2> DEFINE r == Ask("LOGIN", None, w, w, n, None, None, {"LOGIN"})
  <2>1. r \in Request /\ r.acct = None
    BY RequestOps DEF Ask, Request, Purpose
  <2>2. Start(p, r)
    BY <1>5 DEF StartLogin
  <2> HIDE DEF r
  <2>3. GrantOf(p)' = None
    BY <1>4, <2>1, <2>2 DEF GrantOf
  <2> QED
    BY <1>4, <2>1, <2>2, <2>3, Retracts
<1>6. ASSUME NEW p \in Proc, NEW s \in Session, NEW op \in Ops, NEW w \in Wallet,
             NEW m \in Nonce, NEW n \in Nonce, StartAuthenticated(p, s, op, w, m, n)
      PROVE  [Grants!Next]_(Grants!vars)
  <2>0. PICK signed \in SUBSET Purpose :
          Start(p, Ask(op, sessions[s].acct, sessions[s].wallet, w, m, n, None, signed))
    BY <1>1, <1>6, AuthenticatedStarts
  <2> DEFINE r == Ask(op, sessions[s].acct, sessions[s].wallet, w, m, n, None, signed)
  <2>1. sessions[s] \in LiveSession
    BY <1>1, <1>6 DEF StartAuthenticated, Usable, TypeOK
  <2>2. r \in Request /\ r.op \notin {"LOGIN", "REFRESH"} /\ Start(p, r)
    BY <1>6, <2>1, <2>0, RequestOps DEF Ask, Request, LiveSession, StartAuthenticated
  <2> HIDE DEF r
  <2>4. GrantOf(p)' = None
    BY <1>4, <2>2 DEF GrantOf
  <2> QED
    BY <1>4, <2>2, <2>4, Retracts
<1>7. ASSUME NEW p \in Proc, NEW s \in Session, StartRefresh(p, s)
      PROVE  [Grants!Next]_(Grants!vars)
  <2> DEFINE r == Ask("REFRESH", sessions[s].acct, sessions[s].wallet,
                      sessions[s].wallet, None, None, s, {})
  <2>1. sessions[s] \in LiveSession /\ sessions[s] # None /\ sessions[s].known
    BY <1>1, <1>7 DEF StartRefresh, TypeOK
  <2>2. /\ r \in Request /\ r.op = "REFRESH" /\ r.acct = sessions[s].acct
        /\ r.actor = sessions[s].wallet /\ r.acct # None
    BY <2>1, RequestOps, NoneAssumption DEF Ask, Request, LiveSession
  <2>3. Start(p, r)
    BY <1>7 DEF StartRefresh
  <2> HIDE DEF r
  <2>4. GrantOf(p)' = [acct |-> r.acct, wallet |-> r.actor, opened |-> None]
    BY <1>4, <2>2, <2>3, IdleFollows DEF GrantOf
  <2>5. /\ UNCHANGED <<accounts, sessions>> /\ GrantOf(p) = None
        /\ GrantMap' = [GrantMap EXCEPT ![p] = GrantOf(p)']
    BY <1>4, <2>2, <2>3
  <2>6. Grants!Granted(p, sessions[s].acct, sessions[s].wallet)
    BY <2>2, <2>4, <2>5 DEF Grants!Granted, GrantMap
  <2>7. Grants!Renew(p, s)
    BY <2>1, <2>5, <2>6 DEF Grants!Renew
  <2> QED
    BY <2>7 DEF Grants!Next
<1>8. ASSUME NEW w \in Wallet, NEW n \in Nonce,
             \/ CreateChallenge(w, n)
             \/ \E s \in Session : CreateLinkChallenge(s, w, n) \/ CreateRecoveryChallenge(s, w, n)
      PROVE  [Grants!Next]_(Grants!vars)
  BY <1>2, <1>8 DEF CreateChallenge, CreateLinkChallenge, CreateRecoveryChallenge
<1>9. ASSUME NEW s \in Session, NEW t \in Wallet, NEW m \in Nonce, NEW n \in Nonce,
             CreateRoleChallenge(s, t, m, n)
      PROVE  [Grants!Next]_(Grants!vars)
  BY <1>2, <1>9 DEF CreateRoleChallenge
<1>10. ASSUME NEW n \in Nonce, ExpireNonce(n) PROVE [Grants!Next]_(Grants!vars)
  BY <1>2, <1>10 DEF ExpireNonce
<1> QED
  BY <1>3, <1>5, <1>6, <1>7, <1>8, <1>9, <1>10 DEF Environment

\* Statements before the commit, and the ends of requests that change nothing.
LEMMA StatementGrants ==
  ASSUME OutcomeInv, SessionInv, NEW p \in Proc,
         \/ Check(p) \/ Consume(p) \/ Read(p) \/ Scan(p) \/ Delete(p) \/ Insert(p)
         \/ KillSessions(p) \/ LookUpAccount(p) \/ ProvisionAccount(p) \/ Rollback(p)
  PROVE  [Grants!Next]_(Grants!vars)
<1>1. CASE LookUpAccount(p) /\ GrantOf(p)' # None
  <2>1. /\ GrantOf(p) = None /\ UNCHANGED <<accounts, sessions>>
        /\ \A q \in Proc \ {p} : GrantOf(q)' = GrantOf(q)
        /\ \E a \in Account :
             /\ accounts[a] # None
             /\ GrantOf(p)' = [acct |-> a, wallet |-> accounts[a], opened |-> None]
    BY <1>1, LookUpSession
  <2>2. PICK a \in Account :
          /\ accounts[a] # None
          /\ GrantOf(p)' = [acct |-> a, wallet |-> accounts'[a], opened |-> None]
    BY <2>1
  <2>3. GrantMap' = [GrantMap EXCEPT ![p] = GrantOf(p)']
    BY <2>1, GrantChange
  <2> QED
    BY <2>1, <2>2, <2>3, Admits
<1>2. CASE ~(LookUpAccount(p) /\ GrantOf(p)' # None)
  <2>1. /\ GrantOf(p)' = None /\ UNCHANGED <<accounts, sessions>>
        /\ \A q \in Proc \ {p} : GrantOf(q)' = GrantOf(q)
    BY <1>2, StatementSession, LookUpSession, ProvisionSession, RollbackSession
  <2>2. GrantMap' = [GrantMap EXCEPT ![p] = None]
    BY <2>1, GrantChange
  <2> QED
    BY <2>1, <2>2, Retracts
<1> QED
  BY <1>1, <1>2

\* A commit admits a first login, or it ends sessions.
LEMMA CommitGrants ==
  ASSUME OutcomeInv, SessionInv, NEW p \in Proc, Commit(p)
  PROVE  [Grants!Next]_(Grants!vars)
<1>1. /\ \A q \in Proc \ {p} : GrantOf(q)' = GrantOf(q)
      /\ sessions' = [s \in Session |-> IF s \in tx[p].dead THEN None ELSE sessions[s]]
      /\ \/ GrantOf(p)' = GrantOf(p) /\ accounts' = accounts
         \/ /\ GrantOf(p)' = GrantOf(p)
            /\ \E a \in Account, w \in Wallet :
                 accounts[a] # None /\ accounts' = [accounts EXCEPT ![a] = w]
         \/ /\ GrantOf(p) = None /\ sessions' = sessions
            /\ \E a \in Account, w \in Wallet :
                 /\ accounts[a] = None /\ accounts' = [accounts EXCEPT ![a] = w]
                 /\ GrantOf(p)' = [acct |-> a, wallet |-> w, opened |-> None]
  BY CommitSession
<1>2. TypeOK /\ tx[p].dead \in SUBSET Session
  BY DEF OutcomeInv, Inv, TypeOK, Transaction
<1>3. CASE GrantOf(p)' = GrantOf(p)
  <2>1. GrantMap' = GrantMap
    BY <1>1, <1>3 DEF GrantMap
  <2>2. \A a \in Account, w \in Wallet : [acct |-> a, wallet |-> w, opened |-> None] # None
    BY GrantAssumption
  <2>3. \/ accounts' = accounts
        \/ \E a \in Account, w \in Wallet :
             accounts[a] # None /\ accounts' = [accounts EXCEPT ![a] = w]
    BY <1>1, <1>3, <2>2
  <2> QED
    BY <1>1, <1>2, <2>1, <2>3, Ends
<1>4. CASE GrantOf(p)' # GrantOf(p)
  <2>1. PICK a \in Account, w \in Wallet :
          /\ GrantOf(p) = None /\ sessions' = sessions
          /\ accounts[a] = None /\ accounts' = [accounts EXCEPT ![a] = w]
          /\ GrantOf(p)' = [acct |-> a, wallet |-> w, opened |-> None]
    BY <1>1, <1>4
  <2>2. accounts'[a] = w
    BY <1>2, <2>1 DEF TypeOK
  <2>3. GrantMap' = [GrantMap EXCEPT ![p] = GrantOf(p)']
    BY <1>1, GrantChange
  <2> QED
    BY <2>1, <2>2, <2>3, Admits
<1> QED
  BY <1>3, <1>4

\* What writes sessions outside of a transaction.
LEMMA SessionGrantSteps ==
  ASSUME OutcomeInv, SessionInv, NEW p \in Proc,
         RevokeOld(p) \/ CreateSession(p) \/ AuditCreated(p) \/ AuditRefreshed(p)
  PROVE  [Grants!Next]_(Grants!vars)
<1>1. TypeOK
  BY DEF OutcomeInv, Inv
<1>2. CASE RevokeOld(p)
  <2>1. /\ accounts' = accounts /\ \A q \in Proc : GrantOf(q)' = GrantOf(q)
        /\ sessions' = [s \in Session |-> IF s \in {req[p].sess} THEN None ELSE sessions[s]]
    BY <1>2, RevokeOldSession
  <2>2. GrantMap' = GrantMap
    BY <2>1 DEF GrantMap
  <2> DEFINE gone == {req[p].sess} \cap Session
  <2>3. /\ gone \in SUBSET Session
        /\ sessions' = [s \in Session |-> IF s \in gone THEN None ELSE sessions[s]]
    BY <2>1
  <2> HIDE DEF gone
  <2> QED
    BY <2>1, <2>2, <2>3, Ends
<1>3. CASE CreateSession(p)
  <2> DEFINE g == [acct |-> req[p].acct, wallet |-> req[p].actor, opened |-> None]
  <2>1. PICK s \in Session :
          /\ accounts' = accounts
          /\ GrantOf(p) = g /\ GrantOf(p)' = [g EXCEPT !.opened = s]
          /\ sessions[s] = None
          /\ \A q \in Proc : GrantOf(q) # None => GrantOf(q).opened # s
          /\ sessions' = [sessions EXCEPT ![s] =
               [acct |-> g.acct, wallet |-> g.wallet, known |-> FALSE]]
          /\ \A q \in Proc \ {p} : GrantOf(q)' = GrantOf(q)
    BY <1>3, CreateSessionSession
  <2>2. GrantMap' = [GrantMap EXCEPT ![p] = GrantOf(p)']
    BY <2>1, GrantChange
  <2>3. GrantOf(p) # None /\ GrantOf(p).opened = None
    <3>1. req[p].acct \in Account /\ req[p].actor \in Wallet
      BY <1>1, <1>3 DEF CreateSession, Rejected, TypeOK, Request
    <3> QED
      BY <2>1, <3>1, GrantAssumption
  <2>4. GrantMap' = [GrantMap EXCEPT ![p].opened = s]
    BY <2>1, <2>2 DEF GrantMap
  <2>5. Grants!Open(p, s)
    BY <2>1, <2>3, <2>4 DEF Grants!Open, Grants!SessionOf, GrantMap
  <2> QED
    BY <2>5 DEF Grants!Next
<1>4. CASE AuditCreated(p) \/ AuditRefreshed(p)
  <2> DEFINE s == GrantOf(p).opened
  <2>1. /\ accounts' = accounts
        /\ \A q \in Proc \ {p} : GrantOf(q)' = GrantOf(q)
        /\ \/ GrantOf(p)' = GrantOf(p) /\ sessions' = sessions
           \/ /\ GrantOf(p)' = None
              /\ \/ sessions' = sessions
                 \/ /\ GrantOf(p) # None /\ s \in Session
                    /\ sessions[s] \in {None, [acct |-> GrantOf(p).acct,
                                               wallet |-> GrantOf(p).wallet, known |-> FALSE]}
                    /\ sessions' = IF sessions[s] = None THEN sessions
                                   ELSE [sessions EXCEPT ![s].known = TRUE]
    BY <1>4, AuditSession
  <2>2. GrantMap' = [GrantMap EXCEPT ![p] = GrantOf(p)']
    BY <2>1, GrantChange
  <2>3. CASE GrantOf(p)' = GrantOf(p) /\ sessions' = sessions
    <3>1. GrantMap' = GrantMap
      BY <2>1, <2>3 DEF GrantMap
    <3> QED
      BY <2>1, <2>3, <3>1, SameGrants
  <2>4. CASE GrantOf(p)' = None /\ sessions' = sessions
    BY <2>1, <2>2, <2>4, Retracts
  <2>5. CASE /\ GrantOf(p)' = None /\ GrantOf(p) # None /\ s \in Session
             /\ sessions[s] \in {None, [acct |-> GrantOf(p).acct,
                                        wallet |-> GrantOf(p).wallet, known |-> FALSE]}
             /\ sessions' = IF sessions[s] = None THEN sessions
                            ELSE [sessions EXCEPT ![s].known = TRUE]
    <3>1. s # None
      BY <2>5, NoneAssumption
    <3>2. Grants!HandOut(p)
      BY <2>1, <2>2, <2>5, <3>1 DEF Grants!HandOut, Grants!SessionOf, GrantMap
    <3> QED
      BY <3>2 DEF Grants!Next
  <2> QED
    BY <2>1, <2>3, <2>4, <2>5
<1> QED
  BY <1>2, <1>3, <1>4

\* Every step of the service maps to an abstract step or to none.
LEMMA NextGrants ==
  OutcomeInv /\ SessionInv /\ [Next]_vars => [Grants!Next]_(Grants!vars)
<1> SUFFICES ASSUME OutcomeInv, SessionInv, [Next]_vars PROVE [Grants!Next]_(Grants!vars)
  OBVIOUS
<1>1. CASE Environment
  BY <1>1, EnvironmentGrants
<1>2. ASSUME NEW p \in Proc, Execute(p) \/ Crash(p) PROVE [Grants!Next]_(Grants!vars)
  BY <1>2, StatementGrants, CommitGrants, SessionGrantSteps
     DEF Execute, Fail, DeadlockVictim, Crash
<1>3. CASE UNCHANGED vars
  BY <1>3, SameGrants DEF vars, GrantMap, GrantOf
<1> QED
  BY <1>1, <1>2, <1>3 DEF Next

\* SessionsImplemented: although requests interleave, fail and crash between
\* statements, sessions come about only as SessionGrants says: each on one grant of the
\* owner or of a live session, its tokens handed out once.
THEOREM ImplementsSessions == Spec => SessionsImplemented
<1>1. Grants!Init /\ [][Grants!Next]_(Grants!vars) => SessionsImplemented
  BY DEF SessionsImplemented, Grants!Spec
<1> QED
  BY <1>1, InitGrants, NextGrants, SessionInvariance, PTL DEF Spec
=============================================================================
