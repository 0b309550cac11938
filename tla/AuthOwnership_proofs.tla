------------------------ MODULE AuthOwnership_proofs ------------------------
(***************************************************************************)
(* AuthService implements AccountOwnership: a check is an authorisation, a *)
(* commit is a first login, the use of a mandate or its withdrawal, every  *)
(* other end of a request is a withdrawal, and all other steps stutter.    *)
(***************************************************************************)
EXTENDS AuthOutcome_proofs

\* The refinement mapping, as AuthService gives it to AccountOwnership.
Recovery == [a \in Account |-> {w \in Wallet : Row(a, w, "RECOVERY") \in roles}]
Mandates == [p \in Proc |-> MandateOf(p)]

-----------------------------------------------------------------------------
(* The abstract steps in terms of the mapping *)

\* What the abstract specification sees does not change.
LEMMA Stutters ==
  ASSUME accounts' = accounts, Recovery' = Recovery, Mandates' = Mandates
  PROVE  [Ownership!Next]_(Ownership!vars)
BY DEF Ownership!vars, Recovery, Mandates

\* A mandate is dropped.
LEMMA Withdraws ==
  ASSUME NEW p \in Proc, accounts' = accounts, Recovery' = Recovery,
         Mandates' = [Mandates EXCEPT ![p] = None]
  PROVE  [Ownership!Next]_(Ownership!vars)
<1>1. Ownership!Withdraw(p)
  BY DEF Ownership!Withdraw, Recovery, Mandates
<1> QED
  BY <1>1 DEF Ownership!Next

\* A first login makes an account and its owner.
LEMMA Creates ==
  ASSUME NEW a \in Account, NEW w \in Wallet, accounts[a] = None,
         accounts' = [accounts EXCEPT ![a] = w], Recovery' = Recovery,
         Mandates' = Mandates
  PROVE  [Ownership!Next]_(Ownership!vars)
<1>1. Ownership!Create(a, w)
  BY DEF Ownership!Create, Recovery, Mandates
<1> QED
  BY <1>1 DEF Ownership!Next

\* An operation is authorised: its actor is owner, or its target may recover.
LEMMA Authorises ==
  ASSUME NEW p \in Proc, NEW m \in Ownership!Mandate,
         IF m.op = "EXECUTE_RECOVERY" THEN m.target \in Recovery[m.acct]
         ELSE m.actor = accounts[m.acct],
         accounts' = accounts, Recovery' = Recovery,
         Mandates' = [Mandates EXCEPT ![p] = m]
  PROVE  [Ownership!Next]_(Ownership!vars)
<1>1. Ownership!Authorise(p, m)
  BY DEF Ownership!Authorise, Recovery, Mandates
<1> QED
  BY <1>1 DEF Ownership!Next

\* A mandate is used, once.
LEMMA Uses ==
  ASSUME NEW p \in Proc, NEW m \in Ownership!Mandate, Mandates[p] = m,
         Mandates' = [Mandates EXCEPT ![p] = None],
         \/ /\ m.op = "ASSIGN_RECOVERY" /\ Recovery[m.acct] = {}
            /\ Recovery' = [Recovery EXCEPT ![m.acct] = {m.target}]
            /\ accounts' = accounts
         \/ /\ m.op = "REMOVE_WALLET"
            /\ Recovery' = [Recovery EXCEPT ![m.acct] = @ \ {m.target}]
            /\ accounts' = accounts
         \/ /\ m.op = "EXECUTE_RECOVERY" /\ accounts[m.acct] # None
            /\ accounts' = [accounts EXCEPT ![m.acct] = m.target]
            /\ \/ Recovery' = [Recovery EXCEPT ![m.acct] = @ \ {m.target}]
               \/ Recovery' = Recovery
  PROVE  [Ownership!Next]_(Ownership!vars)
<1>1. Ownership!Assign(m) \/ Ownership!Remove(m) \/ Ownership!Recover(m)
  BY DEF Ownership!Assign, Ownership!Remove, Ownership!Recover, Recovery
<1>2. Ownership!Use(p)
  BY <1>1 DEF Ownership!Use, Mandates
<1> QED
  BY <1>2 DEF Ownership!Next

-----------------------------------------------------------------------------
(* How steps change the mapping *)

\* No RECOVERY row comes or goes.
LEMMA SameRecovery ==
  ASSUME \A a \in Account, w \in Wallet :
           Row(a, w, "RECOVERY") \in roles' <=> Row(a, w, "RECOVERY") \in roles
  PROVE  Recovery' = Recovery
BY DEF Recovery

\* Only the RECOVERY row of one wallet changes.
LEMMA RecoveryWithout ==
  ASSUME NEW b \in Account, NEW v \in Wallet, Row(b, v, "RECOVERY") \notin roles',
         \A a \in Account, w \in Wallet : <<a, w>> # <<b, v>> =>
           (Row(a, w, "RECOVERY") \in roles' <=> Row(a, w, "RECOVERY") \in roles)
  PROVE  Recovery' = [Recovery EXCEPT ![b] = @ \ {v}]
BY DEF Recovery

\* A RECOVERY row where there was none.
LEMMA RecoveryOnly ==
  ASSUME NEW b \in Account, NEW v \in Wallet, Row(b, v, "RECOVERY") \in roles',
         \A w \in Wallet : Row(b, w, "RECOVERY") \notin roles,
         \A a \in Account, w \in Wallet : <<a, w>> # <<b, v>> =>
           (Row(a, w, "RECOVERY") \in roles' <=> Row(a, w, "RECOVERY") \in roles)
  PROVE  Recovery[b] = {} /\ Recovery' = [Recovery EXCEPT ![b] = {v}]
BY DEF Recovery

\* A step of p changes at most p's mandate.
LEMMA MandateChange ==
  ASSUME NEW p \in Proc, \A q \in Proc \ {p} : req'[q] = req[q] /\ pc'[q] = pc[q]
  PROVE  Mandates' = [Mandates EXCEPT ![p] = MandateOf(p)']
BY DEF Mandates, MandateOf

\* A step of p that leaves p's mandate alone leaves all alone.
LEMMA SameMandates ==
  ASSUME NEW p \in Proc, \A q \in Proc \ {p} : req'[q] = req[q] /\ pc'[q] = pc[q],
         MandateOf(p)' = MandateOf(p)
  PROVE  Mandates' = Mandates
BY MandateChange DEF Mandates

-----------------------------------------------------------------------------
(* The steps *)

\* The empty database maps to no account and no mandate.
LEMMA InitOwnership == Init => Ownership!Init
<1> SUFFICES ASSUME Init PROVE Ownership!Init
  OBVIOUS
<1>1. /\ accounts = [a \in Account |-> None] /\ Recovery = [a \in Account |-> {}]
      /\ Mandates = [p \in Proc |-> None]
  BY DEF Init, Recovery, Mandates, MandateOf
<1> QED
  BY <1>1 DEF Ownership!Init, Recovery, Mandates

\* Requests arrive without a mandate; nothing else around the service counts.
LEMMA EnvironmentOwnership ==
  ASSUME OutcomeInv, Environment
  PROVE  [Ownership!Next]_(Ownership!vars)
<1>1. accounts' = accounts /\ roles' = roles
  BY DEF Environment, CreateChallenge, StartLogin, CreateLinkChallenge,
     CreateRecoveryChallenge, CreateRoleChallenge, StartAuthenticated, StartRefresh,
     RevokeSession, ExpireSession, ExpireNonce, Start, tables
<1>2. \/ UNCHANGED <<pc, req>>
      \/ \E p \in Proc : Idle(p) /\ pc' = [pc EXCEPT ![p] = 1]
                         /\ \E r : req' = [req EXCEPT ![p] = r]
  BY DEF Environment, CreateChallenge, StartLogin, CreateLinkChallenge,
     CreateRecoveryChallenge, CreateRoleChallenge, StartAuthenticated, StartRefresh,
     RevokeSession, ExpireSession, ExpireNonce, Start
<1>3. pc \in [Proc -> Nat] /\ req \in [Proc -> Request]
  BY DEF OutcomeInv, Inv, TypeOK
<1>4. Mandates' = Mandates
  <2>1. CASE UNCHANGED <<pc, req>>
    BY <2>1 DEF Mandates, MandateOf
  <2>2. ASSUME NEW p \in Proc, Idle(p), pc' = [pc EXCEPT ![p] = 1],
               NEW r, req' = [req EXCEPT ![p] = r]
        PROVE  Mandates' = Mandates
    <3>1. MandateOf(p)' = MandateOf(p)
      BY <1>3, <2>2 DEF MandateOf, Idle
    <3> QED
      BY <1>3, <2>2, <3>1, SameMandates
  <2> QED
    BY <1>2, <2>1, <2>2
<1> QED
  BY <1>1, <1>4, SameRecovery, Stutters

\* The end of a request that changes nothing.
LEMMA RollbackOwnership ==
  ASSUME OutcomeInv, NEW p \in Proc, Rollback(p)
  PROVE  [Ownership!Next]_(Ownership!vars)
<1>1. accounts' = accounts /\ roles' = roles
  BY DEF Rollback, tables
<1>2. pc \in [Proc -> Nat] /\ req \in [Proc -> Request]
  BY DEF OutcomeInv, Inv, TypeOK
<1>3. MandateOf(p)' = None
  BY <1>2 DEF Rollback, Finish, MandateOf
<1>4. Mandates' = [Mandates EXCEPT ![p] = None]
  BY <1>2, <1>3, MandateChange DEF Rollback, Finish
<1> QED
  BY <1>1, <1>4, SameRecovery, Withdraws

\* The authorisation of a request.
LEMMA CheckOwnership ==
  ASSUME OutcomeInv, NEW p \in Proc, Check(p)
  PROVE  [Ownership!Next]_(Ownership!vars)
<1> DEFINE r == req[p]
<1>1. /\ accounts' = accounts /\ roles' = roles /\ req' = req
      /\ pc' = [pc EXCEPT ![p] = @ + 1] /\ At(p, "check") /\ Authorised(p)
  BY DEF Check, Step, Advance, tables, Rejected
<1>2. /\ pc \in [Proc -> Nat] /\ r \in Request /\ OwnerAgreement /\ Shape
      /\ Fits(r, tx[p], pc[p])
  BY DEF OutcomeInv, Inv, TypeOK, Staging
<1>3. Recovery' = Recovery
  BY <1>1, SameRecovery
<1>4. Mandates' = [Mandates EXCEPT ![p] = MandateOf(p)']
  BY <1>1, <1>2, MandateChange
<1>5. CASE r.op \notin RoleOps \cup {"EXECUTE_RECOVERY"}
  <2>1. MandateOf(p)' = MandateOf(p)
    BY <1>1, <1>5 DEF MandateOf
  <2> QED
    BY <1>1, <1>2, <1>3, <2>1, SameMandates, Stutters
<1>6. CASE r.op \in RoleOps \cup {"EXECUTE_RECOVERY"}
  <2> DEFINE m == [op |-> r.op, acct |-> r.acct, actor |-> r.actor, target |-> r.target]
  <2>1. r.acct \in Account
    BY <1>2, <1>6 DEF Shape, Request, RoleOps
  <2>2. m \in Ownership!Mandate
    BY <1>2, <1>6, <2>1 DEF Ownership!Mandate, Request, RoleOps
  <2>3. pc[p] \in Nat \ {0}
    BY <1>1, <1>2 DEF At
  <2>4. MandateOf(p)' = m
    BY <1>1, <1>2, <1>6, <2>3 DEF MandateOf
  <2>5. CASE r.op = "EXECUTE_RECOVERY"
    <3>1. Row(r.acct, r.target, "RECOVERY") \in roles
      BY <1>1, <2>5 DEF Authorised, HasRole
    <3>2. m.target \in Recovery[m.acct]
      BY <1>2, <2>1, <3>1 DEF Recovery, Request
    <3> QED
      BY <1>1, <1>3, <1>4, <2>2, <2>4, <2>5, <3>2, Authorises
  <2>6. CASE r.op \in RoleOps
    <3>1. Row(r.acct, r.actor, "OWNER") \in roles
      BY <1>1, <2>6 DEF Authorised, HasRole, RoleOps
    <3>2. accounts[r.acct] # None
      BY <1>2, <2>6 DEF Shape, RoleOps
    <3>3. Row(r.acct, r.actor, "OWNER") = Row(r.acct, accounts[r.acct], "OWNER")
      BY <1>2, <2>1, <3>1, <3>2 DEF OwnerAgreement, OwnerInvariant, OwnerRows, Row
    <3>4. m.actor = accounts[m.acct]
      BY <3>3 DEF Row
    <3>5. m.op # "EXECUTE_RECOVERY"
      BY <2>6 DEF RoleOps
    <3> HIDE DEF m
    <3> QED
      BY <1>1, <1>3, <1>4, <2>2, <2>4, <3>4, <3>5, Authorises
  <2> QED
    BY <1>6, <2>5, <2>6
<1> QED
  BY <1>5, <1>6

\* The statements between the authorisation and the commit.
LEMMA StatementOwnership ==
  ASSUME OutcomeInv, NEW p \in Proc,
         \/ Consume(p) \/ Read(p) \/ Scan(p) \/ Delete(p) \/ Insert(p) \/ KillSessions(p)
  PROVE  [Ownership!Next]_(Ownership!vars)
<1>1. /\ accounts' = accounts /\ roles' = roles /\ req' = req
      /\ pc' = [pc EXCEPT ![p] = @ + 1] /\ pc[p] # 0 /\ ~At(p, "check")
  BY DEF Consume, Read, Scan, Delete, Insert, KillSessions, Step, Advance, tables, At
<1>2. /\ pc \in [Proc -> Nat] /\ req[p].op \in AllOps /\ Fits(req[p], tx[p], pc[p])
  BY DEF OutcomeInv, Inv, TypeOK, Request, Staging
<1>3. MandateOf(p)' = MandateOf(p)
  <2>1. CASE req[p].op \in RoleOps \cup {"EXECUTE_RECOVERY"}
    <3>1. req[p].op \in AllOps \ {"LOGIN", "REFRESH"} /\ pc[p] \in 1 .. Len(Program[req[p].op])
      BY <1>2, <2>1 DEF Fits, RoleOps
    <3>2. pc[p] # 1
      BY <1>1, <3>1, Positions DEF At
    <3>3. pc[p] > 1 /\ pc'[p] > 1
      BY <1>1, <1>2, <3>2
    <3> QED
      BY <1>1, <3>3 DEF MandateOf
  <2>2. CASE req[p].op \notin RoleOps \cup {"EXECUTE_RECOVERY"}
    BY <1>1, <2>2 DEF MandateOf
  <2> QED
    BY <2>1, <2>2
<1>4. \A q \in Proc \ {p} : req'[q] = req[q] /\ pc'[q] = pc[q]
  BY <1>1, <1>2
<1> QED
  BY <1>1, <1>3, <1>4, SameRecovery, SameMandates, Stutters

\* Logins up to their commit, and sessions.
LEMMA SessionOwnership ==
  ASSUME OutcomeInv, NEW p \in Proc,
         \/ LookUpAccount(p) \/ ProvisionAccount(p) \/ RevokeOld(p) \/ CreateSession(p)
         \/ AuditCreated(p) \/ AuditRefreshed(p)
  PROVE  [Ownership!Next]_(Ownership!vars)
<1>1. pc \in [Proc -> Nat] /\ req \in [Proc -> Request]
  BY DEF OutcomeInv, Inv, TypeOK
<1>2. /\ accounts' = accounts /\ roles' = roles
      /\ req[p].op \in {"LOGIN", "REFRESH"}
      /\ \A q \in Proc \ {p} : req'[q] = req[q] /\ pc'[q] = pc[q]
  BY <1>1 DEF LookUpAccount, ProvisionAccount, RevokeOld, CreateSession, AuditCreated,
     AuditRefreshed, SessionAudit, Respond, Finish, Step, Advance, tables, OpensSession
<1>3. req'[p].op \in {"LOGIN", "REFRESH"}
  <2>1. NoRequest.op = "LOGIN" /\ req[p] \in Request
    BY <1>1 DEF NoRequest, Ask
  <2>2. CASE LookUpAccount(p) \/ ProvisionAccount(p) \/ CreateSession(p)
    <3>1. \E x, y : req' = [req EXCEPT ![p] = [@ EXCEPT !.acct = x]]
                  \/ req' = [req EXCEPT ![p] = [@ EXCEPT !.sess = y]]
      BY <2>2 DEF LookUpAccount, ProvisionAccount, CreateSession
    <3>2. req'[p].op = req[p].op
      BY <1>1, <2>1, <3>1 DEF Request
    <3> QED
      BY <1>2, <3>2
  <2>3. CASE RevokeOld(p) \/ AuditCreated(p) \/ AuditRefreshed(p)
    <3>1. req' = req \/ req' = [req EXCEPT ![p] = NoRequest]
      BY <2>3 DEF RevokeOld, AuditCreated, AuditRefreshed, Respond, Finish
    <3> QED
      BY <1>1, <1>2, <2>1, <3>1
  <2> QED
    BY <2>2, <2>3
<1>4. MandateOf(p)' = MandateOf(p)
  BY <1>2, <1>3 DEF MandateOf, RoleOps
<1> QED
  BY <1>2, <1>4, SameRecovery, SameMandates, Stutters

\* The commit of a first login, of a mandate, or of something else.
LEMMA CommitOwnership ==
  ASSUME OutcomeInv, NEW p \in Proc, Commit(p)
  PROVE  [Ownership!Next]_(Ownership!vars)
<1> DEFINE r == req[p]
           a == req[p].acct
           row == OutcomeRow(req[p])
<1>1. /\ pc \in [Proc -> Nat] /\ req \in [Proc -> Request] /\ r \in Request /\ Shape
      /\ Fits(r, tx[p], pc[p]) /\ At(p, "commit")
  BY DEF OutcomeInv, Inv, TypeOK, Staging, Commit
<1>2. /\ r.op \in {"LOGIN", "LINK_WALLET", "GRANT_AUTH", "REVOKE_AUTH",
                   "ASSIGN_RECOVERY", "REMOVE_WALLET", "EXECUTE_RECOVERY"}
      /\ r.op # "LOGIN" => pc[p] > 1
  BY <1>1, AtCommit
<1>3. /\ row.acct = a /\ row.target = r.target /\ row.action = AuditAction[r.op]
      /\ r.op # "EXECUTE_RECOVERY" => row.actor = r.actor
  BY DEF OutcomeRow, LogRow
<1>4. \A q \in Proc \ {p} : req'[q] = req[q] /\ pc'[q] = pc[q]
  BY <1>1 DEF Commit, Advance, Finish
<1>5. r.op = "LOGIN" => Mandates' = Mandates
  <2>1. SUFFICES ASSUME r.op = "LOGIN" PROVE MandateOf(p)' = MandateOf(p)
    BY <1>4, SameMandates
  <2>2. req' = req
    BY <2>1 DEF Commit
  <2> QED
    BY <2>1, <2>2 DEF MandateOf, RoleOps
<1>6. r.op # "LOGIN" => Mandates' = [Mandates EXCEPT ![p] = None]
  <2>1. SUFFICES ASSUME r.op # "LOGIN" PROVE MandateOf(p)' = None
    BY <1>4, MandateChange
  <2>2. pc'[p] = 0
    BY <1>1, <2>1 DEF Commit, Finish
  <2> QED
    BY <2>2 DEF MandateOf
<1>7. CASE roles' = roles /\ accounts' = accounts
  BY <1>5, <1>6, <1>7, SameRecovery, Withdraws, Stutters
<1>8. CASE ~(roles' = roles /\ accounts' = accounts)
  <2> DEFINE gone == roles \ roles'
             new == roles' \ roles
             mine(role) == Row(a, r.target, role)
  <2>1. Explains(row)
    BY <1>8, CommitExplained
  <2>2. r.target \in Wallet /\ r.actor \in Wallet
    BY <1>1 DEF Request
  <2>3. a \in Account
    <3>1. CASE r.op = "LOGIN"
      BY <1>1, <1>8, <3>1, CommitExplained DEF Request, Shape, Commit, Fits, MayDelete,
         RolesAfter, AccountsAfter
    <3>2. CASE r.op # "LOGIN"
      BY <1>1, <3>2 DEF Request, Shape
    <3> QED
      BY <3>1, <3>2
  <2>4. /\ \A x \in gone : x \in roles /\ x \notin roles'
        /\ \A x \in new : x \notin roles /\ x \in roles'
        /\ \A x : x \in roles' <=> (x \in roles \ gone) \/ x \in new
    OBVIOUS
  <2> DEFINE m == [op |-> r.op, acct |-> a, actor |-> r.actor, target |-> r.target]
  <2>5. r.op \in {"ASSIGN_RECOVERY", "REMOVE_WALLET", "EXECUTE_RECOVERY"} =>
          /\ Mandates[p] = m /\ m \in Ownership!Mandate
          /\ m.op = r.op /\ m.acct = a /\ m.target = r.target
    BY <1>2, <2>2, <2>3 DEF Mandates, MandateOf, RoleOps, Ownership!Mandate
  <2> HIDE DEF m
  <2>6. CASE r.op = "LOGIN"
    <3>1. row.action = "ACCOUNT_CREATED"
      BY <1>3, <2>6 DEF AuditAction
    <3>2. /\ accounts[a] = None /\ accounts' = [accounts EXCEPT ![a] = r.actor]
          /\ gone = {} /\ new = {mine("OWNER"), mine("AUTH")}
      BY <1>3, <2>1, <2>6, <3>1 DEF Explains
    <3>3. Recovery' = Recovery
      <4> SUFFICES ASSUME NEW b \in Account, NEW w \in Wallet
                   PROVE  Row(b, w, "RECOVERY") \in roles' <=> Row(b, w, "RECOVERY") \in roles
        BY SameRecovery
      <4> QED
        BY <2>4, <3>2 DEF Row
    <3> QED
      BY <1>5, <2>2, <2>3, <2>6, <3>2, <3>3, Creates
  <2>7. CASE r.op \in {"LINK_WALLET", "GRANT_AUTH", "REVOKE_AUTH"}
    <3>1. row.action \in {"WALLET_LINKED", "ROLE_GRANTED", "ROLE_REVOKED"}
      BY <1>3, <2>7 DEF AuditAction
    <3>2. /\ accounts' = accounts
          /\ gone \subseteq {mine("AUTH")} /\ new \subseteq {mine("AUTH"), mine("STANDARD")}
      BY <1>3, <2>1, <3>1 DEF Explains
    <3>3. Recovery' = Recovery
      <4> SUFFICES ASSUME NEW b \in Account, NEW w \in Wallet
                   PROVE  Row(b, w, "RECOVERY") \in roles' <=> Row(b, w, "RECOVERY") \in roles
        BY SameRecovery
      <4> QED
        BY <2>4, <3>2 DEF Row
    <3> QED
      BY <1>6, <2>7, <3>2, <3>3, Withdraws
  <2>8. CASE r.op = "ASSIGN_RECOVERY"
    <3>1. row.action = "RECOVERY_ASSIGNED"
      BY <1>3, <2>8 DEF AuditAction
    <3>2. accounts' = accounts /\ gone = {} /\ new = {mine("RECOVERY")}
      BY <1>3, <2>1, <3>1 DEF Explains
    <3>3. \A w \in Wallet : Row(a, w, "RECOVERY") \notin roles
      <4>1. tx[p].del = {} /\ mine("RECOVERY") \in tx[p].ins
        <5>1. roles' = (roles \ tx[p].del) \cup tx[p].ins /\ tx[p].del \subseteq MayDelete(r)
          BY StagedRows DEF Commit
        <5> QED
          BY <2>4, <2>8, <3>2, <5>1 DEF MayDelete
      <4>2. ASSUME NEW w \in Wallet, Row(a, w, "RECOVERY") \in roles PROVE FALSE
        <5>1. ~Conflict(mine("RECOVERY"), Row(a, w, "RECOVERY"))
          BY <4>1, <4>2, StagedRows
        <5> QED
          BY <5>1 DEF Conflict, Row
      <4> QED
        BY <4>2
    <3>4. Recovery[a] = {} /\ Recovery' = [Recovery EXCEPT ![a] = {r.target}]
      <4>1. mine("RECOVERY") \in roles'
        BY <2>4, <3>2
      <4>2. ASSUME NEW b \in Account, NEW w \in Wallet, <<b, w>> # <<a, r.target>>
            PROVE  Row(b, w, "RECOVERY") \in roles' <=> Row(b, w, "RECOVERY") \in roles
        BY <2>4, <3>2, <4>2 DEF Row
      <4> HIDE DEF a, r
      <4> QED
        BY <2>2, <2>3, <3>3, <4>1, <4>2, RecoveryOnly
    <3> QED
      BY <1>6, <2>5, <2>8, <3>2, <3>4, Uses
  <2>9. CASE r.op = "REMOVE_WALLET"
    <3>1. row.action = "WALLET_REMOVED"
      BY <1>3, <2>9 DEF AuditAction
    <3>2. /\ accounts' = accounts /\ new = {}
          /\ gone \subseteq {mine("AUTH"), mine("STANDARD"), mine("RECOVERY")}
      BY <1>3, <2>1, <3>1 DEF Explains
    <3>3. ASSUME NEW b \in Account, NEW w \in Wallet, <<b, w>> # <<a, r.target>>
          PROVE  Row(b, w, "RECOVERY") \in roles' <=> Row(b, w, "RECOVERY") \in roles
      BY <2>4, <3>2, <3>3 DEF Row
    <3>4. CASE mine("RECOVERY") \in roles'
      <4>1. mine("RECOVERY") \in roles
        BY <2>4, <3>2, <3>4
      <4>2. ASSUME NEW b \in Account, NEW w \in Wallet
            PROVE  Row(b, w, "RECOVERY") \in roles' <=> Row(b, w, "RECOVERY") \in roles
        BY <3>3, <3>4, <4>1
      <4> QED
        BY <1>6, <2>9, <3>2, <4>2, SameRecovery, Withdraws
    <3>5. CASE mine("RECOVERY") \notin roles'
      <4>1. Recovery' = [Recovery EXCEPT ![a] = @ \ {r.target}]
        <5> HIDE DEF a, r
        <5> QED
          BY <2>2, <2>3, <3>3, <3>5, RecoveryWithout
      <4> QED
        BY <1>6, <2>5, <2>9, <3>2, <4>1, Uses
    <3> QED
      BY <3>4, <3>5
  <2>10. CASE r.op = "EXECUTE_RECOVERY"
    <3>1. row.action = "RECOVERY_EXECUTED"
      BY <1>3, <2>10 DEF AuditAction
    <3>2. /\ accounts' = [accounts EXCEPT ![a] = r.target]
          /\ gone \subseteq OwnerRows(roles, a) \cup {mine("RECOVERY")}
          /\ new \subseteq {mine("OWNER"), mine("AUTH")}
      BY <1>3, <2>1, <3>1 DEF Explains
    <3>3. ASSUME NEW b \in Account, NEW w \in Wallet, <<b, w>> # <<a, r.target>>
          PROVE  Row(b, w, "RECOVERY") \in roles' <=> Row(b, w, "RECOVERY") \in roles
      BY <2>4, <3>2, <3>3 DEF Row, OwnerRows
    <3>4. mine("RECOVERY") \in roles' => mine("RECOVERY") \in roles
      BY <2>4, <3>2 DEF Row
    <3>5. \/ Recovery' = [Recovery EXCEPT ![a] = @ \ {r.target}]
          \/ Recovery' = Recovery
      <4>1. CASE mine("RECOVERY") \in roles'
        <5>1. ASSUME NEW b \in Account, NEW w \in Wallet
              PROVE  Row(b, w, "RECOVERY") \in roles' <=> Row(b, w, "RECOVERY") \in roles
          BY <3>3, <3>4, <4>1
        <5> QED
          BY <5>1, SameRecovery
      <4>2. CASE mine("RECOVERY") \notin roles'
        <5> HIDE DEF a, r
        <5> QED
          BY <2>2, <2>3, <3>3, <4>2, RecoveryWithout
      <4> QED
        BY <4>1, <4>2
    <3>6. accounts[a] # None
      BY <1>1, <2>10 DEF Shape
    <3> QED
      BY <1>6, <2>5, <2>10, <3>2, <3>5, <3>6, Uses
  <2> QED
    BY <1>2, <2>6, <2>7, <2>8, <2>9, <2>10
<1> QED
  BY <1>7, <1>8

-----------------------------------------------------------------------------
(* The theorem *)

\* Every step of the handlers maps to an abstract step or to none.
LEMMA NextOwnership == OutcomeInv /\ [Next]_vars => [Ownership!Next]_(Ownership!vars)
<1> SUFFICES ASSUME OutcomeInv, [Next]_vars PROVE [Ownership!Next]_(Ownership!vars)
  OBVIOUS
<1>1. CASE Environment
  BY <1>1, EnvironmentOwnership
<1>2. ASSUME NEW p \in Proc, Execute(p) \/ Crash(p)
      PROVE  [Ownership!Next]_(Ownership!vars)
  BY <1>2, CheckOwnership, StatementOwnership, SessionOwnership, CommitOwnership,
     RollbackOwnership DEF Execute, Fail, DeadlockVictim, Crash
<1>3. CASE UNCHANGED vars
  <2>1. UNCHANGED Ownership!vars
    BY <1>3 DEF vars, Ownership!vars, MandateOf
  <2> QED
    BY <2>1
<1> QED
  BY <1>1, <1>2, <1>3 DEF Next

\* OwnershipImplemented: although requests interleave, block, fail and crash between
\* statements, who owns an account and who may recover it changes only as
\* AccountOwnership says: by first logins, and by mandates, each used at most once.
THEOREM ImplementsOwnership == Spec => OwnershipImplemented
<1>1. Ownership!Init /\ [][Ownership!Next]_(Ownership!vars) => OwnershipImplemented
  BY DEF OwnershipImplemented, Ownership!Spec
<1> QED
  BY <1>1, InitOwnership, NextOwnership, OutcomeInvariance, PTL DEF Spec
=============================================================================
