------------------------- MODULE AuthOutcome_proofs -------------------------
(***************************************************************************)
(* Proofs about what requests leave behind: the trigger stops nothing but  *)
(* removals, every change of roles and owners has its audit row, and a     *)
(* nonce is burned with its outcome. They rest on what a transaction has   *)
(* staged (Staging), and consumed (HeldFit), when it commits.              *)
(***************************************************************************)
EXTENDS AuthService_proofs

-----------------------------------------------------------------------------
(* Positions of statements *)

\* The programs outside LOGIN and REFRESH begin with the authorisation, if they
\* have one, and end with the commit; only some of them select rows to delete or
\* insert any.
LEMMA Positions ==
  ASSUME NEW op \in AllOps \ {"LOGIN", "REFRESH"}, NEW i \in 1 .. Len(Program[op])
  PROVE  /\ Len(Program[op]) \in Nat /\ Len(Program[op]) > 3
         /\ Program[op][i] = "check" <=> i = 1
         /\ Program[op][i] = "commit" <=> i = Len(Program[op])
         /\ Program[op][i] \notin {"session", "audit", "revoke", "refreshed"}
         /\ Program[op][i] = "scan" =>
              op \in {"REVOKE_AUTH", "TRANSFER_OWNER", "REMOVE_WALLET", "EXECUTE_RECOVERY"}
         /\ Program[op][i] = "insert" => op \notin {"REVOKE_AUTH", "REMOVE_WALLET"}
         /\ op = "EXECUTE_RECOVERY" =>
              Len(Program[op]) = 8 /\ (Program[op][i] = "insert" <=> i = 6)
         /\ op = "TRANSFER_OWNER" => Len(Program[op]) = 9 /\ (i = 2 => Program[op][i] = "consume")
<1>1. CASE op = "LINK_WALLET"
  <2>1. Len(Program[op]) = 4
    BY <1>1 DEF Program
  <2>2. i = 1 \/ i = 2 \/ i = 3 \/ i = 4
    BY <2>1
  <2> QED
    BY <1>1, <2>1, <2>2 DEF Program
<1>2. CASE op \in {"GRANT_AUTH", "ASSIGN_RECOVERY"}
  <2>1. CASE op = "GRANT_AUTH"
    <3>1. Len(Program[op]) = 6
      BY <2>1 DEF Program
    <3>2. i = 1 \/ i = 2 \/ i = 3 \/ i = 4 \/ i = 5 \/ i = 6
      BY <3>1
    <3> QED
      BY <2>1, <3>1, <3>2 DEF Program
  <2>2. CASE op = "ASSIGN_RECOVERY"
    <3>1. Len(Program[op]) = 6
      BY <2>2 DEF Program
    <3>2. i = 1 \/ i = 2 \/ i = 3 \/ i = 4 \/ i = 5 \/ i = 6
      BY <3>1
    <3> QED
      BY <2>2, <3>1, <3>2 DEF Program
  <2> QED
    BY <1>2, <2>1, <2>2
<1>3. CASE op \in {"REVOKE_AUTH", "REMOVE_WALLET"}
  <2>1. CASE op = "REVOKE_AUTH"
    <3>1. Len(Program[op]) = 7
      BY <2>1 DEF Program
    <3>2. i = 1 \/ i = 2 \/ i = 3 \/ i = 4 \/ i = 5 \/ i = 6 \/ i = 7
      BY <3>1
    <3> QED
      BY <2>1, <3>1, <3>2 DEF Program
  <2>2. CASE op = "REMOVE_WALLET"
    <3>1. Len(Program[op]) = 7
      BY <2>2 DEF Program
    <3>2. i = 1 \/ i = 2 \/ i = 3 \/ i = 4 \/ i = 5 \/ i = 6 \/ i = 7
      BY <3>1
    <3> QED
      BY <2>2, <3>1, <3>2 DEF Program
  <2> QED
    BY <1>3, <2>1, <2>2
<1>4. CASE op = "EXECUTE_RECOVERY"
  <2>1. Len(Program[op]) = 8
    BY <1>4 DEF Program
  <2>2. i = 1 \/ i = 2 \/ i = 3 \/ i = 4 \/ i = 5 \/ i = 6 \/ i = 7 \/ i = 8
    BY <2>1
  <2> QED
    BY <1>4, <2>1, <2>2 DEF Program
<1>5. CASE op = "TRANSFER_OWNER"
  <2>1. Len(Program[op]) = 9
    BY <1>5 DEF Program
  <2>2. i = 1 \/ i = 2 \/ i = 3 \/ i = 4 \/ i = 5 \/ i = 6 \/ i = 7 \/ i = 8 \/ i = 9
    BY <2>1
  <2> QED
    BY <1>5, <2>1, <2>2 DEF Program
<1> QED
  BY <1>1, <1>2, <1>3, <1>4, <1>5 DEF AllOps, RoleOps

-----------------------------------------------------------------------------
(* Staging is inductive *)

\* An idle slot has staged nothing.
LEMMA IdleFits == Fits(NoRequest, NoTx, 0)
<1>1. /\ NoRequest.op = "LOGIN" /\ NoRequest.actor = NoRequest.target
      /\ NoTx.owner = None /\ NoTx.ins = {} /\ NoTx.found = {} /\ NoTx.del = {}
  BY DEF NoTx, NoRequest, Ask
<1> QED
  BY <1>1 DEF Fits

\* At first nothing is staged.
LEMMA InitStaging == Init => Staging
<1> SUFFICES ASSUME Init PROVE Staging
  OBVIOUS
<1>1. \A p \in Proc : req[p] = NoRequest /\ tx[p] = NoTx /\ pc[p] = 0
  BY DEF Init
<1>2. NoTx.owner = None
  BY DEF NoTx
<1>3. \A n \in Nonce : nonces[n] = None
  BY DEF Init
<1> QED
  BY <1>1, <1>2, <1>3, IdleFits DEF Staging

\* Requests other than p, and steps that make no account.
LEMMA OthersFit ==
  ASSUME Staging, NEW p \in Proc,
         \A q \in Proc \ {p} : req'[q] = req[q] /\ tx'[q] = tx[q] /\ pc'[q] = pc[q],
         accounts' = accounts, nonces' = nonces,
         Fits(req'[p], tx'[p], pc'[p]),
         req'[p].op = "LOGIN" /\ tx'[p].owner # None => accounts[req'[p].acct] = None
  PROVE  Staging'
<1>1. \A q \in Proc : Fits(req'[q], tx'[q], pc'[q])
  BY DEF Staging
<1>2. \A q \in Proc :
        req'[q].op = "LOGIN" /\ tx'[q].owner # None => accounts'[req'[q].acct] = None
  BY DEF Staging
<1>3. \A n \in Nonce : nonces'[n] # None => nonces'[n].purpose # "TRANSFER_OWNER"
  BY DEF Staging
<1> QED
  BY <1>1, <1>2, <1>3 DEF Staging, Fits

\* Where a request outside LOGIN and REFRESH is after a statement before its commit.
LEMMA NextPosition ==
  ASSUME Inv, Staging, NEW p \in Proc, req[p].op \notin {"LOGIN", "REFRESH"},
         NEW stmt, At(p, stmt), stmt # "commit"
  PROVE  pc[p] + 1 \in 1 .. Len(Program[req[p].op])
<1>1. req[p].op \in AllOps \ {"LOGIN", "REFRESH"}
  BY DEF Inv, TypeOK, Request
<1>2. pc[p] \in 1 .. Len(Program[req[p].op])
  BY DEF Staging, Fits
<1>3. pc[p] # Len(Program[req[p].op])
  BY <1>1, <1>2, Positions DEF At
<1> QED
  BY <1>1, <1>2, <1>3, Positions

\* A statement of a transaction other than the insert.
LEMMA StepStaging ==
  ASSUME Inv, Staging, NEW p \in Proc, NEW t, UNCHANGED req,
         NEW stmt \in {"check", "consume", "consume2", "read", "scan", "delete", "kill"},
         Step(p, stmt, t), t.ins = tx[p].ins, t.owner = tx[p].owner,
         t.found \cup t.del \subseteq MayDelete(req[p])
  PROVE  Staging'
<1>1. TypeOK /\ Shape
  BY DEF Inv
<1>2. /\ At(p, stmt) /\ pc' = [pc EXCEPT ![p] = @ + 1] /\ tx' = [tx EXCEPT ![p] = t]
      /\ UNCHANGED <<accounts, nonces>> /\ ~Rejected(p)
  BY DEF Step, Advance, tables
<1>3. /\ req'[p] = req[p] /\ tx'[p] = t /\ pc'[p] = pc[p] + 1 /\ pc[p] \in Nat
      /\ \A q \in Proc \ {p} : req'[q] = req[q] /\ tx'[q] = tx[q] /\ pc'[q] = pc[q]
  BY <1>1, <1>2 DEF TypeOK
<1>4. /\ req[p].op \in AllOps
      /\ Fits(req[p], tx[p], pc[p])
  BY <1>1 DEF TypeOK, Request, Staging
<1>5. req[p].op \notin {"LOGIN", "REFRESH"} => pc[p] + 1 \in 1 .. Len(Program[req[p].op])
  BY <1>2, NextPosition
<1>6. req[p].op = "TRANSFER_OWNER" => pc[p] + 1 <= 2
  <2>1. SUFFICES ASSUME req[p].op = "TRANSFER_OWNER", pc[p] = 2 PROVE FALSE
    BY <1>3, <1>4 DEF Fits
  <2>2. At(p, "consume")
    BY <1>2, <1>4, <2>1, Positions DEF At, Fits
  <2>3. NonceMatches(p)
    BY <1>2, <2>2 DEF Rejected, Consuming
  <2>5. NonceOf(p) \in Nonce
    BY <1>1, <2>3 DEF NonceMatches, NonceOf, TypeOK, Request
  <2>6. nonces[NonceOf(p)] = [wallet |-> SignerOf(p), purpose |-> "TRANSFER_OWNER"]
    BY <2>1, <2>3 DEF NonceMatches, NoncePurposeFor
  <2>7. nonces[NonceOf(p)] \in Challenge \cup {None} /\ nonces[NonceOf(p)] # None
    BY <1>1, <2>5, <2>6, NoneAssumption DEF TypeOK, NonceMatches, Challenge, Purpose, SignerOf,
       Request
  <2> QED
    BY <2>5, <2>6, <2>7 DEF Staging
<1>7. req[p].op = "EXECUTE_RECOVERY" => (pc[p] + 1 > 6 <=> t.owner # None)
  <2>1. SUFFICES ASSUME req[p].op = "EXECUTE_RECOVERY" PROVE pc[p] # 6
    BY <1>3, <1>4 DEF Fits
  <2> QED
    BY <1>2, <1>4, <2>1, Positions DEF At, Fits
<1>8. Fits(req[p], t, pc[p] + 1)
  BY <1>4, <1>5, <1>6, <1>7 DEF Fits
<1> QED
  BY <1>2, <1>3, <1>8, OthersFit DEF Staging

\* Statements that stage no row keep what is staged.
LEMMA ReadStaging ==
  ASSUME Inv, Staging, NEW p \in Proc, Check(p) \/ Consume(p) \/ Read(p) \/ KillSessions(p)
  PROVE  Staging'
<1>1. tx[p] \in Transaction /\ Fits(req[p], tx[p], pc[p])
  BY DEF Inv, TypeOK, Staging
<1>2. ASSUME NEW t, NEW stmt \in {"check", "consume", "consume2", "read", "kill"},
             Step(p, stmt, t), UNCHANGED req, t.ins = tx[p].ins, t.owner = tx[p].owner,
             t.found = tx[p].found, t.del = tx[p].del
      PROVE  Staging'
  BY <1>1, <1>2, StepStaging DEF Fits
<1> QED
  BY <1>1, <1>2 DEF Check, Consume, Read, KillSessions, Transaction

\* A DELETE matches rows of its operation only.
LEMMA ScanStaging == ASSUME Inv, Staging, NEW p \in Proc, Scan(p) PROVE Staging'
<1> DEFINE t == [tx[p] EXCEPT !.found = Deletable(p)]
<1>1. /\ TypeOK /\ Shape /\ tx[p] \in Transaction /\ req[p] \in Request
      /\ Fits(req[p], tx[p], pc[p])
  BY DEF Inv, TypeOK, Staging
<1>2. /\ Step(p, "scan", t) /\ UNCHANGED req /\ At(p, "scan")
      /\ t.found = Deletable(p) /\ t.del = tx[p].del /\ t.ins = tx[p].ins /\ t.owner = tx[p].owner
  BY <1>1 DEF Scan, Step, Transaction
<1>3. req[p].op \in {"REVOKE_AUTH", "TRANSFER_OWNER", "REMOVE_WALLET", "EXECUTE_RECOVERY"}
  <2>1. req[p].op \in AllOps \ {"LOGIN", "REFRESH"}
    BY <1>1, <1>2, LoginAt, RefreshAt DEF Request
  <2> QED
    BY <1>1, <1>2, <2>1, Positions DEF At, Fits
<1>4. req[p].op # "TRANSFER_OWNER"
  <2>1. SUFFICES ASSUME req[p].op = "TRANSFER_OWNER" PROVE FALSE
    OBVIOUS
  <2>2. pc[p] = 1 \/ pc[p] = 2
    BY <1>1, <2>1 DEF Fits
  <2>3. Program[req[p].op][pc[p]] = "check" \/ Program[req[p].op][pc[p]] = "consume"
    BY <2>1, <2>2 DEF Program
  <2> QED
    BY <1>2, <2>3 DEF At
<1>5. Deletable(p) \subseteq MayDelete(req[p])
  <2>1. \A k \in roles : /\ k = Row(k.acct, k.wallet, k.role)
                         /\ k.wallet \in Wallet /\ k.role \in Role
    BY <1>1 DEF TypeOK, RoleRow, Row
  <2>2. CASE req[p].op = "REVOKE_AUTH"
    BY <2>1, <2>2 DEF Deletable, MayDelete, Mine
  <2>3. CASE req[p].op = "REMOVE_WALLET"
    BY <2>1, <2>3 DEF Deletable, MayDelete, Mine
  <2>4. CASE req[p].op = "EXECUTE_RECOVERY"
    BY <2>1, <2>4 DEF Deletable, MayDelete, Mine
  <2> QED
    BY <1>3, <1>4, <2>2, <2>3, <2>4
<1>6. t.found \cup t.del \subseteq MayDelete(req[p])
  BY <1>1, <1>2, <1>5 DEF Fits
<1> HIDE DEF t
<1> QED
  BY <1>2, <1>6, StepStaging

\* What it deletes is what it matched.
LEMMA DeleteStaging == ASSUME Inv, Staging, NEW p \in Proc, Delete(p) PROVE Staging'
<1> DEFINE t == [tx[p] EXCEPT !.del = @ \cup (tx[p].found \cap roles), !.found = {}]
<1>1. tx[p] \in Transaction /\ Fits(req[p], tx[p], pc[p])
  BY DEF Inv, TypeOK, Staging
<1>2. /\ Step(p, "delete", t) /\ UNCHANGED req
      /\ t.found \cup t.del \subseteq tx[p].found \cup tx[p].del
      /\ t.ins = tx[p].ins /\ t.owner = tx[p].owner
  BY <1>1 DEF Delete, Transaction
<1>3. t.found \cup t.del \subseteq MayDelete(req[p])
  BY <1>1, <1>2 DEF Fits
<1> HIDE DEF t
<1> QED
  BY <1>2, <1>3, StepStaging

\* The insert of an operation.
LEMMA InsertStaging == ASSUME Inv, Staging, NEW p \in Proc, Insert(p) PROVE Staging'
<1> DEFINE r == req[p]
           t == [tx[p] EXCEPT !.ins = NewRows(p), !.del = @ \cup Stripped(p),
                              !.owner = NewOwner(p)]
<1>1. /\ TypeOK /\ Shape /\ tx[p] \in Transaction /\ r \in Request
      /\ Fits(r, tx[p], pc[p])
  BY DEF Inv, TypeOK, Staging
<1>2. /\ r.op # "LOGIN" /\ At(p, "insert") /\ pc' = [pc EXCEPT ![p] = @ + 1]
      /\ tx' = [tx EXCEPT ![p] = t] /\ UNCHANGED <<accounts, nonces, req>>
  BY DEF Insert, Step, Advance, tables
<1>3. /\ t.ins = NewRows(p) /\ t.owner = NewOwner(p) /\ t.found = tx[p].found
      /\ t.del = tx[p].del \cup Stripped(p)
  BY <1>1 DEF Transaction
<1> HIDE DEF t
<1>4. /\ req'[p] = r /\ tx'[p] = t /\ pc'[p] = pc[p] + 1 /\ pc[p] \in Nat
      /\ \A q \in Proc \ {p} : req'[q] = req[q] /\ tx'[q] = tx[q] /\ pc'[q] = pc[q]
  BY <1>1, <1>2 DEF TypeOK
<1>5. r.op \in AllOps \ {"LOGIN", "REFRESH"}
  BY <1>1, <1>2, RefreshAt DEF Request
<1>6. pc[p] + 1 \in 1 .. Len(Program[r.op])
  BY <1>2, <1>5, NextPosition
<1>7. r.op \in {"LINK_WALLET", "GRANT_AUTH", "ASSIGN_RECOVERY", "EXECUTE_RECOVERY"}
  <2>1. r.op \notin {"REVOKE_AUTH", "REMOVE_WALLET"}
    BY <1>1, <1>2, <1>5, Positions DEF At, Fits
  <2>2. r.op # "TRANSFER_OWNER"
    <3>1. SUFFICES ASSUME r.op = "TRANSFER_OWNER" PROVE FALSE
      OBVIOUS
    <3>2. pc[p] = 1 \/ pc[p] = 2
      BY <1>1, <3>1 DEF Fits
    <3>3. Program[r.op][pc[p]] = "check" \/ Program[r.op][pc[p]] = "consume"
      BY <3>1, <3>2 DEF Program
    <3> QED
      BY <1>2, <3>3 DEF At
  <2> QED
    BY <1>5, <2>1, <2>2 DEF AllOps, RoleOps
<1>8. CASE r.op = "EXECUTE_RECOVERY"
  <2>1. pc[p] = 6
    BY <1>1, <1>2, <1>5, <1>8, Positions DEF At, Fits
  <2>2. /\ t.owner = r.target /\ t.owner # None /\ t.ins = MayInsert(r)
        /\ Stripped(p) \subseteq MayDelete(r)
    BY <1>1, <1>3, <1>8, NoneAssumption
       DEF NewOwner, NewRows, MayInsert, MayDelete, Mine, Stripped, Request
  <2>3. Fits(r, t, pc[p] + 1)
    BY <1>1, <1>3, <1>6, <1>8, <2>1, <2>2 DEF Fits
  <2> QED
    BY <1>2, <1>4, <1>8, <2>3, OthersFit
<1>9. CASE r.op \in {"LINK_WALLET", "GRANT_AUTH", "ASSIGN_RECOVERY"}
  <2>1. t.owner = None /\ t.ins \subseteq MayInsert(r) /\ Stripped(p) = {}
    BY <1>3, <1>9 DEF NewOwner, NewRows, MayInsert, Mine, Stripped
  <2>2. Fits(r, t, pc[p] + 1)
    BY <1>1, <1>3, <1>6, <1>9, <2>1 DEF Fits
  <2> QED
    BY <1>2, <1>4, <1>9, <2>2, OthersFit
<1> QED
  BY <1>7, <1>8, <1>9

\* A login that makes an account: nobody has made it, nobody else is making it.
LEMMA LoginStaging ==
  ASSUME Inv, Staging, NEW p \in Proc, LookUpAccount(p) \/ ProvisionAccount(p)
  PROVE  Staging'
<1>1. /\ TypeOK /\ Shape /\ tx[p] \in Transaction /\ req[p] \in Request
      /\ Fits(req[p], tx[p], pc[p])
  BY DEF Inv, TypeOK, Staging
<1>2. /\ req[p].op = "LOGIN" /\ At(p, "insert") /\ pc' = [pc EXCEPT ![p] = @ + 1]
      /\ UNCHANGED <<accounts, nonces>>
  BY DEF LookUpAccount, ProvisionAccount, Step, Advance, tables
<1>3. pc[p] = 3
  BY <1>1, <1>2, LoginAt
<1>4. tx[p].owner = None /\ tx[p].found \cup tx[p].del \cup tx[p].ins = {}
  BY <1>1, <1>2, <1>3 DEF Shape
<1>5. CASE LookUpAccount(p)
  <2>1. PICK a \in Account \cup {None} : req' = [req EXCEPT ![p].acct = a]
    BY <1>5 DEF LookUpAccount, AccountsOf
  <2>2. tx' = [tx EXCEPT ![p] = tx[p]]
    BY <1>5 DEF LookUpAccount, Step
  <2>3. /\ req'[p].op = "LOGIN" /\ req'[p].actor = req[p].actor /\ req'[p].target = req[p].target
        /\ tx'[p] = tx[p]
        /\ \A q \in Proc \ {p} : req'[q] = req[q] /\ tx'[q] = tx[q] /\ pc'[q] = pc[q]
    BY <1>1, <1>2, <2>1, <2>2 DEF TypeOK, Request
  <2>4. Fits(req'[p], tx'[p], pc'[p])
    BY <1>1, <1>2, <1>4, <2>3 DEF Fits
  <2> QED
    BY <1>2, <1>4, <2>3, <2>4, OthersFit
<1>6. CASE ProvisionAccount(p)
  <2> DEFINE w == req[p].target
  <2>1. PICK a \in Account :
          /\ FreshAccount(a)
          /\ Step(p, "insert", [tx[p] EXCEPT !.ins = {Row(a, w, "OWNER"), Row(a, w, "AUTH")},
                                             !.owner = w])
          /\ req' = [req EXCEPT ![p].acct = a]
    BY <1>6 DEF ProvisionAccount
  <2> DEFINE t == [tx[p] EXCEPT !.ins = {Row(a, w, "OWNER"), Row(a, w, "AUTH")}, !.owner = w]
  <2>2. /\ tx' = [tx EXCEPT ![p] = t]
        /\ t.ins = {Row(a, w, "OWNER"), Row(a, w, "AUTH")} /\ t.owner = w
        /\ t.found = tx[p].found /\ t.del = tx[p].del
    BY <1>1, <2>1 DEF Step, Transaction
  <2> HIDE DEF t
  <2>3. /\ req'[p].op = "LOGIN" /\ req'[p].actor = req[p].actor /\ req'[p].target = w
        /\ req'[p].acct = a /\ tx'[p] = t
        /\ \A q \in Proc \ {p} : req'[q] = req[q] /\ tx'[q] = tx[q] /\ pc'[q] = pc[q]
    BY <1>1, <1>2, <2>1, <2>2 DEF TypeOK, Request
  <2>4. MayInsert(req'[p]) = {Row(a, w, "OWNER"), Row(a, w, "AUTH")}
    BY <2>3 DEF MayInsert, Mine
  <2>5. w # None
    BY <1>1, NoneAssumption DEF Request
  <2>6. Fits(req'[p], tx'[p], pc'[p])
    BY <1>1, <1>2, <1>4, <2>2, <2>3, <2>4, <2>5 DEF Fits
  <2>7. accounts[a] = None
    BY <2>1 DEF FreshAccount
  <2> QED
    BY <1>2, <2>3, <2>6, <2>7, OthersFit
<1> QED
  BY <1>5, <1>6

\* A commit leaves nothing staged by p; an account that another login has staged
\* is not the one that p makes or gives away.
LEMMA CommitStaging == ASSUME Inv, Staging, NEW p \in Proc, Commit(p) PROVE Staging'
<1>1. TypeOK /\ Shape /\ KeyClaims
  BY DEF Inv
<1>2. /\ tx'[p] = NoTx
      /\ IF req[p].op = "LOGIN" THEN pc'[p] = 5 /\ req'[p] = req[p]
         ELSE pc'[p] = 0 /\ req'[p] = NoRequest
      /\ \A q \in Proc \ {p} : tx'[q] = tx[q] /\ req'[q] = req[q] /\ pc'[q] = pc[q]
  BY CommitControl
<1>3. NoTx.owner = None /\ NoTx.ins = {} /\ NoTx.found = {} /\ NoTx.del = {}
  BY DEF NoTx
<1>4. Fits(req'[p], tx'[p], pc'[p])
  <2>1. CASE req[p].op = "LOGIN"
    <3>1. req[p].actor = req[p].target
      BY <2>1 DEF Staging, Fits
    <3> QED
      BY <1>2, <1>3, <2>1, <3>1 DEF Fits
  <2>2. CASE req[p].op # "LOGIN"
    BY <1>2, <2>2, IdleFits
  <2> QED
    BY <2>1, <2>2
<1>5. \A q \in Proc : Fits(req'[q], tx'[q], pc'[q])
  BY <1>2, <1>4 DEF Staging
<1>6. ASSUME NEW q \in Proc, req'[q].op = "LOGIN", tx'[q].owner # None
      PROVE  accounts'[req'[q].acct] = None
  <2>1. q # p /\ req[q].op = "LOGIN" /\ tx[q].owner # None /\ req'[q] = req[q]
    BY <1>2, <1>3, <1>6
  <2>2. accounts[req[q].acct] = None /\ tx[q].ins = MayInsert(req[q])
    BY <2>1 DEF Staging, Fits
  <2>3. CASE tx[p].owner = None
    BY <2>1, <2>2, <2>3 DEF Commit, AccountsAfter
  <2>4. CASE tx[p].owner # None
    <3>1. /\ req[p].op \in {"LOGIN", "EXECUTE_RECOVERY"}
          /\ tx[p].ins = MayInsert(req[p])
      BY <2>4 DEF Staging, Fits
    <3>2. Mine(req[p], "OWNER") \in tx[p].ins /\ Mine(req[q], "OWNER") \in tx[q].ins
      BY <2>1, <2>2, <3>1 DEF MayInsert
    <3>3. ~Conflict(Mine(req[p], "OWNER"), Mine(req[q], "OWNER"))
      BY <1>1, <2>1, <3>2 DEF KeyClaims
    <3>4. req[p].acct # req[q].acct
      BY <3>3 DEF Conflict, Mine, Row
    <3>5. accounts' = [accounts EXCEPT ![req[p].acct] = tx[p].owner]
      BY <2>4 DEF Commit, AccountsAfter
    <3>6. req[q].acct \in Account
      BY <1>1, <2>1 DEF Shape, TypeOK, Request
    <3> QED
      BY <1>1, <2>1, <2>2, <3>4, <3>5, <3>6 DEF TypeOK
  <2> QED
    BY <2>3, <2>4
<1>7. \A n \in Nonce : nonces'[n] # None => nonces'[n].purpose # "TRANSFER_OWNER"
  BY DEF Commit, Staging
<1> QED
  BY <1>5, <1>6, <1>7 DEF Staging, Fits

\* A request that leaves.
LEMMA LeaveStaging ==
  ASSUME Inv, Staging, NEW p \in Proc, Finish(p), tx' = [tx EXCEPT ![p] = NoTx],
         UNCHANGED <<accounts, nonces>>
  PROVE  Staging'
<1>1. /\ req'[p] = NoRequest /\ tx'[p] = NoTx /\ pc'[p] = 0
      /\ \A q \in Proc \ {p} : req'[q] = req[q] /\ tx'[q] = tx[q] /\ pc'[q] = pc[q]
  BY DEF Finish, Inv, TypeOK
<1>2. NoTx.owner = None
  BY DEF NoTx
<1> QED
  BY <1>1, <1>2, IdleFits, OthersFit

\* The statements of a session, outside any transaction.
LEMMA SessionStaging ==
  ASSUME Inv, Staging, NEW p \in Proc,
         RevokeOld(p) \/ CreateSession(p) \/ AuditCreated(p) \/ AuditRefreshed(p)
  PROVE  Staging'
<1>1. /\ TypeOK /\ Shape /\ req[p] \in Request /\ Fits(req[p], tx[p], pc[p])
  BY DEF Inv, TypeOK, Staging
<1>2. /\ req[p].op \in {"LOGIN", "REFRESH"}
      /\ At(p, "revoke") \/ At(p, "session") \/ At(p, "audit") \/ At(p, "refreshed")
      /\ UNCHANGED <<accounts, nonces, tx>>
  BY DEF RevokeOld, CreateSession, AuditCreated, AuditRefreshed, OpensSession, SessionAudit
<1>3. tx[p] = NoTx
  <2>1. CASE req[p].op = "LOGIN"
    <3>1. pc[p] = 5 \/ pc[p] = 6
      BY <1>1, <1>2, <2>1, LoginAt
    <3> QED
      BY <1>1, <2>1, <3>1 DEF Shape
  <2> QED
    BY <1>1, <1>2, <2>1 DEF Shape
<1>4. NoTx.owner = None /\ NoTx.ins = {} /\ NoTx.found = {} /\ NoTx.del = {}
  BY DEF NoTx
<1>5. CASE Finish(p)
  <2>1. tx' = [tx EXCEPT ![p] = NoTx]
    BY <1>1, <1>2, <1>3 DEF TypeOK
  <2> QED
    BY <1>2, <1>5, <2>1, LeaveStaging
<1>6. CASE Advance(p) /\ \/ UNCHANGED req
                         \/ \E s \in Session : req' = [req EXCEPT ![p].sess = s]
  <2>1. /\ req'[p].op = req[p].op /\ req'[p].actor = req[p].actor
        /\ req'[p].target = req[p].target
        /\ \A q \in Proc \ {p} : req'[q] = req[q] /\ tx'[q] = tx[q] /\ pc'[q] = pc[q]
    BY <1>1, <1>2, <1>6 DEF Advance, TypeOK, Request
  <2>2. Fits(req'[p], tx'[p], pc'[p])
    BY <1>1, <1>2, <1>3, <1>4, <2>1 DEF Fits
  <2> QED
    BY <1>2, <1>3, <1>4, <2>1, <2>2, OthersFit
<1> QED
  BY <1>5, <1>6 DEF RevokeOld, CreateSession, AuditCreated, AuditRefreshed, Respond

\* The arrival of a request.
LEMMA StartStaging ==
  ASSUME Inv, Staging, NEW p \in Proc, NEW r \in Request, Start(p, r),
         r.op = "LOGIN" => r.actor = r.target
  PROVE  Staging'
<1>1. TypeOK /\ Shape
  BY DEF Inv
<1>2. /\ pc' = [pc EXCEPT ![p] = 1] /\ req' = [req EXCEPT ![p] = r]
      /\ UNCHANGED <<accounts, nonces, tx>> /\ tx[p] = NoTx
  BY <1>1 DEF Start, tables, Shape
<1>3. /\ req'[p] = r /\ tx'[p] = NoTx /\ pc'[p] = 1
      /\ \A q \in Proc \ {p} : req'[q] = req[q] /\ tx'[q] = tx[q] /\ pc'[q] = pc[q]
  BY <1>1, <1>2 DEF TypeOK
<1>4. NoTx.owner = None /\ NoTx.ins = {} /\ NoTx.found = {} /\ NoTx.del = {}
  BY DEF NoTx
<1>5. r.op \notin {"LOGIN", "REFRESH"} => 1 \in 1 .. Len(Program[r.op])
  <2>1. r.op \in AllOps
    BY DEF Request
  <2> QED
    BY <2>1 DEF Program, AllOps, RoleOps
<1>6. Fits(r, NoTx, 1)
  BY <1>4, <1>5 DEF Fits
<1> QED
  BY <1>2, <1>3, <1>4, <1>6, OthersFit

\* What clients and the clock do: no challenge is for a transfer.
LEMMA EnvironmentStaging == Inv /\ Staging /\ Environment => Staging'
<1> SUFFICES ASSUME Inv, Staging, Environment PROVE Staging'
  OBVIOUS
<1>1. ASSUME UNCHANGED <<accounts, req, tx, pc>>,
             \A n \in Nonce : nonces'[n] # None =>
                nonces'[n] = nonces[n] \/ nonces'[n].purpose # "TRANSFER_OWNER"
      PROVE  Staging'
  BY <1>1 DEF Staging, Fits
<1>2. TypeOK
  BY DEF Inv
<1>3. ASSUME NEW w \in Wallet, NEW n \in Nonce,
             \/ CreateChallenge(w, n)
             \/ \E s \in Session : CreateLinkChallenge(s, w, n) \/ CreateRecoveryChallenge(s, w, n)
      PROVE  Staging'
  BY <1>1, <1>2, <1>3
     DEF CreateChallenge, CreateLinkChallenge, CreateRecoveryChallenge, Issue, TypeOK
<1>4. ASSUME NEW s \in Session, NEW t \in Wallet, NEW m \in Nonce, NEW n \in Nonce,
             CreateRoleChallenge(s, t, m, n)
      PROVE  Staging'
  BY <1>1, <1>2, <1>4 DEF CreateRoleChallenge, TypeOK
<1>5. ASSUME NEW n \in Nonce, ExpireNonce(n) PROVE Staging'
  BY <1>1, <1>2, <1>5 DEF ExpireNonce, TypeOK
<1>6. ASSUME NEW s \in Session, ExpireSession(s) \/ \E t \in Session : RevokeSession(s, t)
      PROVE  Staging'
  BY <1>1, <1>6 DEF ExpireSession, RevokeSession
<1>7. ASSUME NEW p \in Proc, NEW w \in Wallet, NEW n \in Nonce, StartLogin(p, w, n)
      PROVE  Staging'
  <2> DEFINE r == Ask("LOGIN", None, w, w, n, None, None, {"LOGIN"})
  <2>1. r \in Request /\ r.actor = r.target
    BY RequestOps DEF Ask, Request, Purpose
  <2>2. Start(p, r)
    BY <1>7 DEF StartLogin
  <2> QED
    BY <2>1, <2>2, StartStaging
<1>8. ASSUME NEW p \in Proc, NEW s \in Session, NEW op \in Ops, NEW w \in Wallet,
             NEW m \in Nonce, NEW n \in Nonce, StartAuthenticated(p, s, op, w, m, n)
      PROVE  Staging'
  <2>0. PICK signed \in SUBSET Purpose :
          Start(p, Ask(op, sessions[s].acct, sessions[s].wallet, w, m, n, None, signed))
    BY <1>2, <1>8, AuthenticatedStarts
  <2> DEFINE r == Ask(op, sessions[s].acct, sessions[s].wallet, w, m, n, None, signed)
  <2>1. sessions[s] \in LiveSession
    BY <1>2, <1>8 DEF StartAuthenticated, Usable, TypeOK
  <2>2. r \in Request /\ r.op # "LOGIN"
    BY <1>8, <2>1, RequestOps DEF Ask, Request, LiveSession, StartAuthenticated
  <2> QED
    BY <2>2, <2>0, StartStaging
<1>9. ASSUME NEW p \in Proc, NEW s \in Session, StartRefresh(p, s) PROVE Staging'
  <2> DEFINE r == Ask("REFRESH", sessions[s].acct, sessions[s].wallet,
                      sessions[s].wallet, None, None, s, {})
  <2>1. sessions[s] \in LiveSession
    BY <1>2, <1>9 DEF StartRefresh, TypeOK
  <2>2. r \in Request /\ r.op # "LOGIN"
    BY <2>1, RequestOps DEF Ask, Request, LiveSession
  <2>3. Start(p, r)
    BY <1>9 DEF StartRefresh
  <2> QED
    BY <2>2, <2>3, StartStaging
<1> QED
  BY <1>3, <1>4, <1>5, <1>6, <1>7, <1>8, <1>9 DEF Environment

\* Every step preserves Staging.
LEMMA NextStaging == Inv /\ Staging /\ [Next]_vars => Staging'
<1> SUFFICES ASSUME Inv, Staging, [Next]_vars PROVE Staging'
  OBVIOUS
<1>1. CASE Environment
  BY <1>1, EnvironmentStaging
<1>2. ASSUME NEW p \in Proc, Execute(p) \/ Crash(p) PROVE Staging'
  <2>1. CASE Check(p) \/ Consume(p) \/ Read(p) \/ KillSessions(p)
    BY <2>1, ReadStaging
  <2>2. CASE Scan(p) \/ Delete(p) \/ Insert(p) \/ LookUpAccount(p) \/ ProvisionAccount(p)
             \/ Commit(p)
    BY <2>2, ScanStaging, DeleteStaging, InsertStaging, LoginStaging, CommitStaging
  <2>3. CASE RevokeOld(p) \/ CreateSession(p) \/ AuditCreated(p) \/ AuditRefreshed(p)
    BY <2>3, SessionStaging
  <2>4. CASE Fail(p) \/ DeadlockVictim(p) \/ Crash(p)
    BY <2>4, LeaveStaging DEF Fail, DeadlockVictim, Crash, Rollback, tables
  <2> QED
    BY <1>2, <2>1, <2>2, <2>3, <2>4 DEF Execute
<1>3. CASE UNCHANGED vars
  BY <1>3 DEF vars, Staging, Fits
<1> QED
  BY <1>1, <1>2, <1>3 DEF Next

\* What the outcomes rest on holds in every reachable state.
OutcomeInv == Inv /\ Staging

\* What a transaction of any handler has staged is what its operation may write, in
\* every reachable state.
THEOREM OutcomeInvariance == Spec => []OutcomeInv
<1>1. Init => OutcomeInv
  BY InitInv, InitStaging DEF OutcomeInv
<1>2. OutcomeInv /\ [Next]_vars => OutcomeInv'
  BY NextInv, NextStaging DEF OutcomeInv
<1> QED
  BY <1>1, <1>2, PTL DEF Spec

-----------------------------------------------------------------------------
(* Commits *)

\* Which requests commit, and what a recovery has staged by then.
LEMMA AtCommit ==
  ASSUME OutcomeInv, NEW p \in Proc, At(p, "commit")
  PROVE  /\ req[p].op \in {"LOGIN", "LINK_WALLET", "GRANT_AUTH", "REVOKE_AUTH",
                           "ASSIGN_RECOVERY", "REMOVE_WALLET", "EXECUTE_RECOVERY"}
         /\ req[p].op = "EXECUTE_RECOVERY" => tx[p].owner # None
         /\ req[p].op # "LOGIN" => pc[p] > 1
<1>1. /\ Shape /\ req[p].op \in AllOps /\ Fits(req[p], tx[p], pc[p])
  BY DEF OutcomeInv, Inv, TypeOK, Request, Staging
<1>2. req[p].op # "REFRESH"
  BY <1>1, RefreshAt
<1>3. req[p].op # "LOGIN" => pc[p] = Len(Program[req[p].op]) /\ pc[p] > 3
  BY <1>1, <1>2, Positions DEF At, Fits
<1>4. req[p].op # "TRANSFER_OWNER"
  BY <1>1, <1>3 DEF Fits
<1>5. req[p].op = "EXECUTE_RECOVERY" => pc[p] = 8
  <2>1. Len(Program["EXECUTE_RECOVERY"]) = 8
    BY DEF Program
  <2> QED
    BY <1>3, <2>1
<1> QED
  BY <1>1, <1>2, <1>3, <1>4, <1>5 DEF Fits, AllOps, RoleOps

\* Whatever transaction commits: what it inserts is new, its rows are those of its
\* operation, and an account that it names has its owner row beside the others.
LEMMA StagedRows ==
  ASSUME OutcomeInv, NEW p \in Proc
  PROVE  /\ \A k \in tx[p].ins : k \notin roles \ tx[p].del
         /\ \A k \in tx[p].ins : \A x \in roles \ tx[p].del : ~Conflict(k, x)
         /\ RolesAfter(p) = (roles \ tx[p].del) \cup tx[p].ins
         /\ tx[p].del \subseteq MayDelete(req[p]) /\ tx[p].ins \subseteq MayInsert(req[p])
<1>1. KeyClaims /\ Fits(req[p], tx[p], pc[p])
  BY DEF OutcomeInv, Inv, Staging
<1>2. \A k \in tx[p].ins : \A x \in roles \ tx[p].del : ~Conflict(k, x)
  BY <1>1 DEF KeyClaims
<1>3. \A k : (k.role \in {"OWNER", "RECOVERY"} \/ k.wallet = k.wallet) => Conflict(k, k)
  BY DEF Conflict
<1>4. \A k \in tx[p].ins : k \notin roles \ tx[p].del
  BY <1>2, <1>3
<1> QED
  BY <1>1, <1>2, <1>4 DEF Fits, RolesAfter

\* The trigger accepts every commit but that of a removal.
LEMMA OwnersAfter ==
  ASSUME OutcomeInv, NEW p \in Proc, At(p, "commit"), req[p].op # "REMOVE_WALLET"
  PROVE  ~TriggerRejects(p)
<1> DEFINE r == req[p]
           a == req[p].acct
<1>1. /\ OwnerAgreement /\ TypeOK /\ Shape /\ Fits(r, tx[p], pc[p])
      /\ tx[p].del \subseteq MayDelete(r) /\ tx[p].ins \subseteq MayInsert(r)
  BY StagedRows DEF OutcomeInv, Inv, Staging
<1>2. CASE tx[p].owner # None
  <2>1. /\ r.op \in {"LOGIN", "EXECUTE_RECOVERY"} /\ tx[p].owner = r.target
        /\ tx[p].ins = {Row(a, r.target, "OWNER"), Row(a, r.target, "AUTH")}
    BY <1>1, <1>2 DEF Fits, MayInsert, Mine
  <2>2. a \in Account
    BY <1>1, <1>2 DEF Shape, TypeOK, Request
  <2>3. OwnerRows(RolesAfter(p), a) = {Row(a, r.target, "OWNER")}
    <3>1. Row(a, r.target, "OWNER") \in tx[p].ins
      BY <2>1
    <3>2. ASSUME NEW k \in roles \ tx[p].del, k.acct = a, k.role = "OWNER" PROVE FALSE
      <4>1. Conflict(Row(a, r.target, "OWNER"), k)
        BY <3>2 DEF Conflict, Row
      <4> QED
        BY <3>1, <3>2, <4>1, StagedRows
    <3>3. Row(a, r.target, "AUTH").role = "AUTH" /\ Row(a, r.target, "OWNER").role = "OWNER"
          /\ Row(a, r.target, "OWNER").acct = a
      BY DEF Row
    <3> QED
      BY <2>1, <3>2, <3>3, StagedRows DEF OwnerRows
  <2>4. AccountsAfter(p)[a] = r.target
    BY <1>1, <1>2, <2>1, <2>2 DEF AccountsAfter, TypeOK
  <2> QED
    BY <2>3, <2>4 DEF TriggerRejects, OwnerInvariant
<1>3. CASE tx[p].owner = None
  <2>1. r.op \in {"LOGIN", "LINK_WALLET", "GRANT_AUTH", "REVOKE_AUTH", "ASSIGN_RECOVERY"}
    BY <1>3, AtCommit
  <2>2. CASE r.op = "LOGIN"
    <3>1. tx[p].ins = {} /\ tx[p].del = {}
      BY <1>1, <1>3, <2>2 DEF Fits, MayDelete
    <3> QED
      BY <1>3, <3>1 DEF TriggerRejects
  <2>3. CASE r.op # "LOGIN"
    <3>1. \A k \in tx[p].ins \cup tx[p].del : k.role # "OWNER"
      BY <1>1, <2>1, <2>3 DEF MayInsert, MayDelete, Mine, Row
    <3>2. OwnerRows(RolesAfter(p), a) = OwnerRows(roles, a)
      BY <3>1, StagedRows DEF OwnerRows
    <3>3. a \in Account
      BY <1>1, <2>3 DEF Shape, TypeOK, Request
    <3> QED
      BY <1>1, <1>3, <3>2, <3>3 DEF TriggerRejects, AccountsAfter, OwnerAgreement, OwnerInvariant
  <2> QED
    BY <2>2, <2>3
<1> QED
  BY <1>2, <1>3

\* TriggerStopsOnlyRemovals: whatever requests interleave, the deferred trigger is
\* needed for nothing but a removal whose owner test was stale.
THEOREM TriggerStopsOnlyRemovalsHolds == Spec => []TriggerStopsOnlyRemovals
<1>1. OutcomeInv => TriggerStopsOnlyRemovals
  BY OwnersAfter DEF TriggerStopsOnlyRemovals
<1> QED
  BY <1>1, OutcomeInvariance, PTL

\* What a commit does is what its audit row says.
LEMMA CommitExplained ==
  ASSUME OutcomeInv, NEW p \in Proc, Commit(p),
         roles' # roles \/ accounts' # accounts
  PROVE  audit' = {OutcomeRow(req[p])} /\ Explains(OutcomeRow(req[p]))
<1> DEFINE r == req[p]
           a == req[p].acct
           gone == roles \ roles'
           new == roles' \ roles
           row == OutcomeRow(req[p])
<1>1. /\ OwnerAgreement /\ TypeOK /\ Shape /\ Fits(r, tx[p], pc[p]) /\ At(p, "commit")
      /\ tx[p].del \subseteq MayDelete(r) /\ tx[p].ins \subseteq MayInsert(r)
  BY StagedRows DEF OutcomeInv, Inv, Staging, Commit
<1>2. /\ roles' = (roles \ tx[p].del) \cup tx[p].ins /\ accounts' = AccountsAfter(p)
      /\ \A k \in tx[p].ins : k \notin roles \ tx[p].del
  BY StagedRows DEF Commit
<1>3. /\ row.acct = a /\ row.target = r.target /\ row.action = AuditAction[r.op]
      /\ r.op # "EXECUTE_RECOVERY" => row.actor = r.actor
      /\ r.op = "EXECUTE_RECOVERY" => row.actor = r.target
  BY DEF OutcomeRow, LogRow
<1>4. /\ gone = (roles \cap tx[p].del) \ tx[p].ins /\ new = tx[p].ins \ roles
      /\ new \subseteq tx[p].ins /\ gone \subseteq tx[p].del
  BY <1>2
<1>5. tx[p].owner = None => accounts' = accounts /\ roles' # roles
  BY <1>2 DEF AccountsAfter
<1>6. ~(r.op = "LOGIN" /\ tx[p].owner = None)
  <2>1. SUFFICES ASSUME r.op = "LOGIN", tx[p].owner = None PROVE FALSE
    OBVIOUS
  <2>2. tx[p].ins = {} /\ tx[p].del = {}
    BY <1>1, <2>1 DEF Fits, MayDelete
  <2> QED
    BY <1>2, <1>5, <2>1, <2>2
<1>7. audit' = {row}
  BY <1>6 DEF Commit
<1>8. tx[p].owner # None =>
        /\ r.op \in {"LOGIN", "EXECUTE_RECOVERY"}
        /\ tx[p].ins = {Mine(r, "OWNER"), Mine(r, "AUTH")}
        /\ accounts' = [accounts EXCEPT ![a] = r.target]
  BY <1>1, <1>2 DEF Fits, MayInsert, AccountsAfter
<1>9. \A role : Mine(r, role) = Row(row.acct, row.target, role)
  BY <1>3 DEF Mine
<1> HIDE DEF row, gone, new
<1>10. CASE r.op = "LOGIN"
  <2>1. tx[p].owner # None /\ accounts[a] = None /\ r.actor = r.target
    BY <1>1, <1>6, <1>10 DEF OutcomeInv, Staging, Fits
  <2>2. tx[p].del = {}
    BY <1>1, <1>10 DEF MayDelete
  <2>3. /\ gone = {} /\ new = {Mine(r, "OWNER"), Mine(r, "AUTH")}
    BY <1>2, <1>4, <1>8, <2>1, <2>2
  <2>4. row.action = "ACCOUNT_CREATED"
    BY <1>3, <1>10 DEF AuditAction
  <2> QED
    BY <1>3, <1>7, <1>8, <1>9, <1>10, <2>1, <2>3, <2>4 DEF Explains, gone, new, row
<1>11. CASE r.op \in {"LINK_WALLET", "GRANT_AUTH", "ASSIGN_RECOVERY"}
  <2>1. tx[p].owner = None /\ tx[p].del = {}
    BY <1>1, <1>8, <1>11 DEF MayDelete
  <2>2. accounts' = accounts /\ gone = {} /\ new = tx[p].ins /\ new # {}
    BY <1>2, <1>4, <1>5, <2>1
  <2>3. new = MayInsert(r)
    BY <1>1, <1>11, <2>2 DEF MayInsert
  <2>4. CASE r.op = "LINK_WALLET"
    <3>1. row.action = "WALLET_LINKED" /\ new = {Mine(r, "STANDARD")}
      BY <1>3, <2>3, <2>4 DEF AuditAction, MayInsert
    <3> QED
      BY <1>7, <1>9, <2>2, <3>1 DEF Explains, gone, new, row
  <2>5. CASE r.op = "GRANT_AUTH"
    <3>1. row.action = "ROLE_GRANTED" /\ new = {Mine(r, "AUTH")}
      BY <1>3, <2>3, <2>5 DEF AuditAction, MayInsert
    <3> QED
      BY <1>7, <1>9, <2>2, <3>1 DEF Explains, gone, new, row
  <2>6. CASE r.op = "ASSIGN_RECOVERY"
    <3>1. row.action = "RECOVERY_ASSIGNED" /\ new = {Mine(r, "RECOVERY")}
      BY <1>3, <2>3, <2>6 DEF AuditAction, MayInsert
    <3> QED
      BY <1>7, <1>9, <2>2, <3>1 DEF Explains, gone, new, row
  <2> QED
    BY <1>11, <2>4, <2>5, <2>6
<1>12. CASE r.op = "REVOKE_AUTH"
  <2>1. tx[p].owner = None /\ tx[p].ins = {} /\ tx[p].del \subseteq {Mine(r, "AUTH")}
    BY <1>1, <1>8, <1>12 DEF MayDelete, MayInsert
  <2>2. accounts' = accounts /\ new = {} /\ gone = {Mine(r, "AUTH")}
    BY <1>2, <1>4, <1>5, <2>1
  <2>3. row.action = "ROLE_REVOKED"
    BY <1>3, <1>12 DEF AuditAction
  <2> QED
    BY <1>7, <1>9, <2>2, <2>3 DEF Explains, gone, new, row
<1>13. CASE r.op = "REMOVE_WALLET"
  <2>1. /\ tx[p].owner = None /\ tx[p].ins = {}
        /\ tx[p].del \subseteq {Mine(r, role) : role \in Role}
    BY <1>1, <1>8, <1>13 DEF MayDelete, MayInsert
  <2>2. accounts' = accounts /\ new = {} /\ gone \subseteq tx[p].del /\ gone \subseteq roles
        /\ gone # {}
    BY <1>2, <1>4, <1>5, <2>1
  <2>3. Mine(r, "OWNER") \notin gone
    <3>1. SUFFICES ASSUME Mine(r, "OWNER") \in gone PROVE FALSE
      OBVIOUS
    <3>2. ~TriggerRejects(p) /\ RolesAfter(p) = roles' /\ AccountsAfter(p) = accounts
      BY <1>2, <2>2 DEF Commit, Rejected
    <3>3. OwnerInvariant(roles', accounts, a)
      BY <2>2, <3>2 DEF TriggerRejects
    <3>4. a \in Account /\ accounts[a] # None
      BY <1>1, <1>13 DEF Shape, TypeOK, Request
    <3>5. /\ OwnerRows(roles, a) = {Row(a, accounts[a], "OWNER")}
          /\ OwnerRows(roles', a) = {Row(a, accounts[a], "OWNER")}
      BY <1>1, <3>3, <3>4 DEF OwnerAgreement, OwnerInvariant
    <3>6. Mine(r, "OWNER") \in OwnerRows(roles, a)
      BY <2>2, <3>1 DEF OwnerRows, Mine, Row
    <3>7. Mine(r, "OWNER") \in roles'
      BY <3>5, <3>6 DEF OwnerRows
    <3> QED
      BY <3>1, <3>7 DEF gone
  <2>4. gone \subseteq {Mine(r, "AUTH"), Mine(r, "STANDARD"), Mine(r, "RECOVERY")}
    BY <2>1, <2>2, <2>3 DEF Role
  <2>5. row.action = "WALLET_REMOVED"
    BY <1>3, <1>13 DEF AuditAction
  <2> QED
    BY <1>7, <1>9, <2>2, <2>4, <2>5 DEF Explains, gone, new, row
<1>14. CASE r.op = "EXECUTE_RECOVERY"
  <2>1. /\ tx[p].owner # None
        /\ tx[p].del \subseteq {Row(a, w, "OWNER") : w \in Wallet} \cup {Mine(r, "RECOVERY")}
    BY <1>1, <1>14, AtCommit DEF MayDelete
  <2>2. gone \subseteq OwnerRows(roles, a) \cup {Mine(r, "RECOVERY")}
    <3>1. gone \subseteq roles /\ gone \subseteq tx[p].del
      BY <1>4
    <3> QED
      BY <2>1, <3>1 DEF OwnerRows, Row
  <2>3. new \subseteq {Mine(r, "OWNER"), Mine(r, "AUTH")}
    BY <1>4, <1>8, <2>1
  <2>4. Mine(r, "AUTH") \in new
    <3>1. Mine(r, "AUTH") \notin tx[p].del
      BY <2>1 DEF Mine, Row
    <3> QED
      BY <1>2, <1>4, <1>8, <2>1, <3>1
  <2>5. row.action = "RECOVERY_EXECUTED"
    BY <1>3, <1>14 DEF AuditAction
  <2> QED
    BY <1>3, <1>7, <1>8, <1>9, <2>1, <2>2, <2>3, <2>4, <2>5 DEF Explains, gone, new, row
<1> QED
  BY <1>1, <1>10, <1>11, <1>12, <1>13, <1>14, AtCommit

\* Only a commit changes roles and owners.
LEMMA OnlyCommits ==
  ASSUME [Next]_vars, roles' # roles \/ accounts' # accounts
  PROVE  \E p \in Proc : Commit(p)
<1>1. CASE Environment
  BY <1>1 DEF Environment, CreateChallenge, StartLogin, CreateLinkChallenge,
     CreateRecoveryChallenge, CreateRoleChallenge, StartAuthenticated, StartRefresh,
     RevokeSession, ExpireSession, ExpireNonce, Start, tables
<1>2. CASE UNCHANGED vars
  BY <1>2 DEF vars
<1>3. ASSUME NEW p \in Proc, Execute(p) \/ Crash(p) PROVE Commit(p)
  BY <1>3 DEF Execute, Check, Consume, Read, Scan, Delete, Insert, LookUpAccount,
     ProvisionAccount, KillSessions, RevokeOld, CreateSession, AuditCreated,
     AuditRefreshed, SessionAudit, Fail, DeadlockVictim, Crash, Rollback, Step, tables
<1> QED
  BY <1>1, <1>2, <1>3 DEF Next

\* ChangesAreAudited: however requests interleave, fail and crash, no role row and
\* no owner changes without an audit row in the same commit that says exactly that.
THEOREM ChangesAreAuditedHolds == Spec => ChangesAreAudited
<1>1. OutcomeInv /\ [Next]_vars =>
        [roles' # roles \/ accounts' # accounts => \E row \in audit' : Explains(row)]_vars
  BY OnlyCommits, CommitExplained
<1> QED
  BY <1>1, OutcomeInvariance, PTL DEF Spec, ChangesAreAudited

-----------------------------------------------------------------------------
(* No transfer commits *)

\* The audit rows that a step may append.
LEMMA AuditRows ==
  ASSUME OutcomeInv, [Next]_vars
  PROVE  \A row \in audit' : row \in audit \/ row.action # "OWNER_TRANSFERRED"
<1>1. CASE Environment
  BY <1>1 DEF Environment, CreateChallenge, StartLogin, CreateLinkChallenge,
     CreateRecoveryChallenge, CreateRoleChallenge, StartAuthenticated, StartRefresh,
     RevokeSession, ExpireSession, ExpireNonce, Start, LogRow
<1>2. CASE UNCHANGED vars
  BY <1>2 DEF vars
<1>3. ASSUME NEW p \in Proc, Execute(p) \/ Crash(p)
      PROVE  \A row \in audit' : row.action # "OWNER_TRANSFERRED"
  <2>1. CASE Commit(p)
    <3>1. /\ audit' \subseteq {OutcomeRow(req[p])} /\ At(p, "commit")
      BY <2>1 DEF Commit
    <3>2. OutcomeRow(req[p]).action = AuditAction[req[p].op]
      BY DEF OutcomeRow, LogRow
    <3>3. req[p].op \in {"LOGIN", "LINK_WALLET", "GRANT_AUTH", "REVOKE_AUTH",
                         "ASSIGN_RECOVERY", "REMOVE_WALLET", "EXECUTE_RECOVERY"}
      BY <3>1, AtCommit
    <3>4. AuditAction[req[p].op] # "OWNER_TRANSFERRED"
      BY <3>3 DEF AuditAction
    <3> QED
      BY <3>1, <3>2, <3>4
  <2>2. CASE AuditCreated(p) \/ AuditRefreshed(p)
    BY <2>2 DEF AuditCreated, AuditRefreshed, SessionAudit, LogRow
  <2>3. CASE ~Commit(p) /\ ~AuditCreated(p) /\ ~AuditRefreshed(p)
    BY <1>3, <2>3 DEF Execute, Check, Consume, Read, Scan, Delete, Insert, LookUpAccount,
       ProvisionAccount, KillSessions, RevokeOld, CreateSession, Fail, DeadlockVictim,
       Crash, Rollback, Step
  <2> QED
    BY <2>1, <2>2, <2>3
<1> QED
  BY <1>1, <1>2, <1>3 DEF Next

\* No TRANSFER_OWNER request ever has an effect, however many requests and challenges
\* there are: no OWNER_TRANSFERRED row is ever logged, and no transfer gets past its
\* first consume (RoleService.createRoleChallenge issues no nonce for it).
THEOREM TransfersNeverCommit ==
  Spec => [](/\ \A row \in audit : row.action # "OWNER_TRANSFERRED"
             /\ \A p \in Proc : req[p].op = "TRANSFER_OWNER" => pc[p] <= 2)
<1> DEFINE NoneLogged == \A row \in audit : row.action # "OWNER_TRANSFERRED"
           NoneCommits == \A p \in Proc : req[p].op = "TRANSFER_OWNER" => pc[p] <= 2
<1>1. Init => NoneLogged
  BY DEF Init
<1>2. OutcomeInv /\ NoneLogged /\ [Next]_vars => NoneLogged'
  BY AuditRows
<1>3. OutcomeInv => NoneCommits
  BY DEF OutcomeInv, Staging, Fits
<1> QED
  BY <1>1, <1>2, <1>3, OutcomeInvariance, PTL DEF Spec

-----------------------------------------------------------------------------
(* A nonce is burned together with the outcome it authorises *)

\* The wallets whose nonces the request r may consume.
Signers(r) == IF r.op \in RoleOps THEN {r.actor, r.target} ELSE {r.target}

\* What a transaction has consumed was issued for its operation, to a wallet that
\* signs for it.
HeldFit ==
  \A p \in Proc : \A n \in tx[p].held :
    nonces[n].purpose = NoncePurposeFor(req[p].op) /\ nonces[n].wallet \in Signers(req[p])

\* At first nothing is consumed.
LEMMA InitHeld == Init => HeldFit
BY DEF Init, HeldFit, NoTx

\* A step that consumes nothing and leaves consumed nonces and their requests alone.
LEMMA HeldKept ==
  ASSUME HeldFit,
         \A q \in Proc : \A n \in tx'[q].held :
           /\ n \in tx[q].held /\ nonces'[n] = nonces[n]
           /\ req'[q].op = req[q].op /\ req'[q].actor = req[q].actor
           /\ req'[q].target = req[q].target
  PROVE  HeldFit'
<1> SUFFICES ASSUME NEW q \in Proc, NEW n \in tx'[q].held
    PROVE  /\ nonces'[n].purpose = NoncePurposeFor(req'[q].op)
           /\ nonces'[n].wallet \in Signers(req'[q])
  BY DEF HeldFit
<1>1. /\ nonces'[n] = nonces[n] /\ req'[q].op = req[q].op
      /\ nonces[n].purpose = NoncePurposeFor(req[q].op)
      /\ nonces[n].wallet \in Signers(req[q])
  BY DEF HeldFit
<1>2. Signers(req'[q]) = Signers(req[q])
  BY DEF Signers
<1> QED
  BY <1>1, <1>2

\* Clients and the clock leave consumed nonces alone: only fresh nonces are issued,
\* and only free ones expire.
LEMMA EnvironmentHeld ==
  ASSUME Inv, HeldFit, Environment
  PROVE  HeldFit'
<1>1. /\ tx' = tx /\ NonceExclusive /\ TypeOK
      /\ \A q \in Proc : Idle(q) => tx[q] = NoTx
  BY DEF Inv, Shape, Environment, CreateChallenge, StartLogin, CreateLinkChallenge,
     CreateRecoveryChallenge, CreateRoleChallenge, StartAuthenticated, StartRefresh,
     RevokeSession, ExpireSession, ExpireNonce, Start
<1>2. ASSUME NEW q \in Proc, NEW n \in tx[q].held PROVE nonces'[n] = nonces[n]
  <2>1. n \in Nonce /\ nonces[n] # None /\ nonces \in [Nonce -> Challenge \cup {None}]
    BY <1>1, <1>2 DEF NonceExclusive, TypeOK, Transaction
  <2> QED
    BY <1>2, <2>1 DEF Environment, CreateChallenge, StartLogin, CreateLinkChallenge,
       CreateRecoveryChallenge, CreateRoleChallenge, StartAuthenticated, StartRefresh,
       RevokeSession, ExpireSession, ExpireNonce, Start, Issue, FreshNonce, tables
<1>3. \/ req' = req
      \/ \E p \in Proc : \E r : Idle(p) /\ req' = [req EXCEPT ![p] = r]
  BY DEF Environment, CreateChallenge, StartLogin, CreateLinkChallenge,
     CreateRecoveryChallenge, CreateRoleChallenge, StartAuthenticated, StartRefresh,
     RevokeSession, ExpireSession, ExpireNonce, Start
<1>4. ASSUME NEW q \in Proc, NEW n \in tx[q].held PROVE req'[q] = req[q]
  <2>1. ~Idle(q)
    BY <1>1, <1>4 DEF NoTx
  <2> QED
    BY <1>1, <1>3, <2>1 DEF TypeOK
<1> QED
  BY <1>1, <1>2, <1>4, HeldKept

\* The statements that consume nothing.
LEMMA StatementHeld ==
  ASSUME Inv, HeldFit, NEW p \in Proc,
         \/ Check(p) \/ Read(p) \/ Scan(p) \/ Delete(p) \/ Insert(p) \/ KillSessions(p)
         \/ LookUpAccount(p) \/ ProvisionAccount(p)
  PROVE  HeldFit'
<1>1. /\ tx \in [Proc -> Transaction] /\ req \in [Proc -> Request]
      /\ tx[p] \in Transaction /\ req[p] \in Request
  BY DEF Inv, TypeOK
<1>2. nonces' = nonces /\ \E t : tx' = [tx EXCEPT ![p] = t] /\ t.held = tx[p].held
  <2>1. CASE Check(p)
    BY <1>1, <2>1 DEF Check, Step, tables
  <2>2. CASE Read(p) \/ Scan(p) \/ KillSessions(p)
    BY <1>1, <2>2 DEF Read, Scan, KillSessions, Step, tables, Transaction
  <2>3. CASE Delete(p) \/ Insert(p)
    BY <1>1, <2>3 DEF Delete, Insert, Step, tables, Transaction
  <2>4. CASE LookUpAccount(p) \/ ProvisionAccount(p)
    BY <1>1, <2>4 DEF LookUpAccount, ProvisionAccount, Step, tables, Transaction
  <2> QED
    BY <2>1, <2>2, <2>3, <2>4
<1>3. req' = req \/ \E a : req' = [req EXCEPT ![p] = [@ EXCEPT !.acct = a]]
  BY DEF Check, Read, Scan, Delete, Insert, KillSessions, LookUpAccount, ProvisionAccount
<1>4. \A q \in Proc : /\ req'[q].op = req[q].op /\ req'[q].actor = req[q].actor
                      /\ req'[q].target = req[q].target
  BY <1>1, <1>3 DEF Request
<1> QED
  BY <1>1, <1>2, <1>4, HeldKept

\* The conditional UPDATE takes a nonce only for the signer and the purpose of its
\* operation.
LEMMA ConsumeHeld ==
  ASSUME Inv, HeldFit, NEW p \in Proc, Consume(p)
  PROVE  HeldFit'
<1>1. /\ tx \in [Proc -> Transaction] /\ tx[p] \in Transaction
  BY DEF Inv, TypeOK
<1>2. /\ nonces' = nonces /\ req' = req
      /\ tx' = [tx EXCEPT ![p] = [tx[p] EXCEPT !.held = @ \cup {NonceOf(p)}]]
      /\ NonceMatches(p)
  BY DEF Consume, Step, tables, Rejected, Consuming
<1>3. /\ nonces[NonceOf(p)].purpose = NoncePurposeFor(req[p].op)
      /\ nonces[NonceOf(p)].wallet = SignerOf(p)
  BY <1>2 DEF NonceMatches
<1>4. SignerOf(p) \in Signers(req[p])
  BY DEF SignerOf, Signers
<1>5. \A q \in Proc : \A n \in tx'[q].held : n \in tx[q].held \/ (q = p /\ n = NonceOf(p))
  BY <1>1, <1>2 DEF Transaction
<1> QED
  BY <1>2, <1>3, <1>4, <1>5 DEF HeldFit, Signers, NoncePurposeFor

\* A commit burns what its own transaction has consumed, which no other has.
LEMMA CommitHeld ==
  ASSUME Inv, HeldFit, NEW p \in Proc, Commit(p)
  PROVE  HeldFit'
<1>1. /\ tx \in [Proc -> Transaction] /\ req \in [Proc -> Request] /\ NonceExclusive
  BY DEF Inv, TypeOK
<1>2. tx' = [tx EXCEPT ![p] = NoTx]
  BY DEF Commit
<1>3. ASSUME NEW q \in Proc, NEW n \in tx'[q].held
      PROVE  n \in tx[q].held /\ q # p
  BY <1>1, <1>2, <1>3 DEF NoTx
<1>4. ASSUME NEW q \in Proc, NEW n \in tx'[q].held
      PROVE  nonces'[n] = nonces[n] /\ req'[q] = req[q]
  <2>1. n \in tx[q].held /\ q # p
    BY <1>3, <1>4
  <2>2. n \in Nonce /\ n \notin tx[p].held
    BY <1>1, <2>1 DEF NonceExclusive, Transaction
  <2> QED
    BY <1>1, <2>1, <2>2 DEF Commit, Advance, Finish
<1> QED
  BY <1>3, <1>4, HeldKept

\* A rollback gives back what it has consumed.
LEMMA LeaveHeld ==
  ASSUME Inv, HeldFit, NEW p \in Proc, Rollback(p)
  PROVE  HeldFit'
<1>1. tx \in [Proc -> Transaction] /\ req \in [Proc -> Request]
  BY DEF Inv, TypeOK
<1>2. /\ nonces' = nonces /\ tx' = [tx EXCEPT ![p] = NoTx]
      /\ req' = [req EXCEPT ![p] = NoRequest]
  BY DEF Rollback, Finish, tables
<1>3. \A q \in Proc : \A n \in tx'[q].held : q # p /\ n \in tx[q].held
  BY <1>1, <1>2 DEF NoTx
<1> QED
  BY <1>1, <1>2, <1>3, HeldKept

\* The statements about sessions run outside transactions.
LEMMA SessionHeld ==
  ASSUME Inv, HeldFit, NEW p \in Proc,
         RevokeOld(p) \/ CreateSession(p) \/ AuditCreated(p) \/ AuditRefreshed(p)
  PROVE  HeldFit'
<1>1. /\ tx \in [Proc -> Transaction] /\ req \in [Proc -> Request] /\ req[p] \in Request
      /\ Shape
  BY DEF Inv, TypeOK
<1>2. nonces' = nonces /\ tx' = tx
  BY DEF RevokeOld, CreateSession, AuditCreated, AuditRefreshed, SessionAudit
<1>3. CASE RevokeOld(p) \/ CreateSession(p)
  <2>1. req' = req \/ \E s : req' = [req EXCEPT ![p] = [@ EXCEPT !.sess = s]]
    BY <1>3 DEF RevokeOld, CreateSession
  <2>2. \A q \in Proc : /\ req'[q].op = req[q].op /\ req'[q].actor = req[q].actor
                        /\ req'[q].target = req[q].target
    BY <1>1, <2>1 DEF Request
  <2> QED
    BY <1>2, <2>2, HeldKept
<1>4. CASE AuditCreated(p) \/ AuditRefreshed(p)
  <2>1. req' = req \/ req' = [req EXCEPT ![p] = NoRequest]
    BY <1>4 DEF AuditCreated, AuditRefreshed, Respond, Finish
  <2>2. tx[p] = NoTx
    <3>1. CASE req[p].op = "REFRESH"
      BY <1>1, <3>1 DEF Shape
    <3>2. CASE req[p].op = "LOGIN"
      <4>1. pc[p] \in 0 .. 6 /\ (pc[p] > 4 => tx[p] = NoTx)
        BY <1>1, <3>2 DEF Shape
      <4>2. At(p, "audit")
        BY <1>4, <3>2 DEF AuditCreated, AuditRefreshed
      <4>3. pc[p] \notin 0 .. 4
        BY <3>2, <4>2 DEF At, Program
      <4> QED
        BY <4>1, <4>3
    <3> QED
      BY <1>4, <3>1, <3>2 DEF AuditCreated, AuditRefreshed, OpensSession
  <2>3. \A q \in Proc : \A n \in tx'[q].held : q # p
    BY <1>2, <2>2 DEF NoTx
  <2> QED
    BY <1>1, <1>2, <2>1, <2>3, HeldKept
<1> QED
  BY <1>3, <1>4

\* Every step preserves it.
LEMMA NextHeld == Inv /\ HeldFit /\ [Next]_vars => HeldFit'
<1> SUFFICES ASSUME Inv, HeldFit, [Next]_vars PROVE HeldFit'
  OBVIOUS
<1>1. CASE Environment
  BY <1>1, EnvironmentHeld
<1>2. ASSUME NEW p \in Proc, Execute(p) \/ Crash(p) PROVE HeldFit'
  BY <1>2, StatementHeld, ConsumeHeld, CommitHeld, LeaveHeld, SessionHeld
     DEF Execute, Fail, DeadlockVictim, Crash
<1>3. CASE UNCHANGED vars
  BY <1>3 DEF vars, HeldFit
<1> QED
  BY <1>1, <1>2, <1>3 DEF Next

-----------------------------------------------------------------------------

\* The step that burns a nonce is the expiry of that nonce, or a commit.
LEMMA Burns ==
  ASSUME Inv, [Next]_vars, NEW n \in Nonce, nonces[n] # None, nonces'[n] = None
  PROVE  ExpireNonce(n) \/ \E p \in Proc : Commit(p) /\ n \in tx[p].held
<1>1. nonces \in [Nonce -> Challenge \cup {None}]
  BY DEF Inv, TypeOK
<1>2. CASE Environment
  <2>1. ASSUME NEW w \in Wallet, NEW m \in Nonce,
               \/ CreateChallenge(w, m)
               \/ \E s \in Session :
                    CreateLinkChallenge(s, w, m) \/ CreateRecoveryChallenge(s, w, m)
        PROVE  nonces'[n] = nonces[n]
    BY <1>1, <2>1 DEF CreateChallenge, CreateLinkChallenge, CreateRecoveryChallenge,
       Issue, FreshNonce
  <2>2. ASSUME NEW s \in Session, NEW t \in Wallet, NEW m \in Nonce, NEW k \in Nonce,
               CreateRoleChallenge(s, t, m, k)
        PROVE  nonces'[n] = nonces[n]
    BY <1>1, <2>2 DEF CreateRoleChallenge, FreshNonce
  <2>3. ASSUME NEW m \in Nonce, ExpireNonce(m) PROVE m = n
    BY <1>1, <2>3 DEF ExpireNonce
  <2>4. \/ nonces' = nonces
        \/ \E w \in Wallet, m \in Nonce :
             \/ CreateChallenge(w, m)
             \/ \E s \in Session :
                  CreateLinkChallenge(s, w, m) \/ CreateRecoveryChallenge(s, w, m)
        \/ \E s \in Session, t \in Wallet, m, k \in Nonce : CreateRoleChallenge(s, t, m, k)
        \/ \E m \in Nonce : ExpireNonce(m)
    BY <1>2 DEF Environment, StartLogin, StartAuthenticated, StartRefresh, Start,
       RevokeSession, ExpireSession, tables
  <2> QED
    BY <2>1, <2>2, <2>3, <2>4
<1>3. ASSUME NEW p \in Proc, Execute(p) \/ Crash(p) PROVE Commit(p) /\ n \in tx[p].held
  <2>1. nonces' = nonces \/ Commit(p)
    BY <1>3 DEF Execute, Check, Consume, Read, Scan, Delete, Insert, LookUpAccount,
       ProvisionAccount, KillSessions, RevokeOld, CreateSession, AuditCreated,
       AuditRefreshed, SessionAudit, Fail, DeadlockVictim, Crash, Rollback, Step, tables
  <2> QED
    BY <1>1, <2>1 DEF Commit
<1>4. CASE UNCHANGED vars
  BY <1>4 DEF vars
<1> QED
  BY <1>2, <1>3, <1>4 DEF Next

\* NonceBurnedWithOutcome: whatever fails, crashes or races, a nonce that is not
\* left to expire goes in the commit that logs an operation of its wallet.
THEOREM NonceBurnedWithOutcomeHolds == Spec => NonceBurnedWithOutcome
<1>1. ASSUME Inv, HeldFit, [Next]_vars, NEW n \in Nonce,
             nonces[n] # None, nonces'[n] = None, nonces[n].purpose # "LOGIN",
             ~ExpireNonce(n)
      PROVE  \E row \in audit' : nonces[n].wallet \in {row.actor, row.target}
  <2>1. PICK p \in Proc : Commit(p) /\ n \in tx[p].held
    BY <1>1, Burns
  <2>2. /\ nonces[n].purpose = NoncePurposeFor(req[p].op)
        /\ nonces[n].wallet \in Signers(req[p])
    BY <1>1, <2>1 DEF HeldFit
  <2>3. req[p].op # "LOGIN"
    BY <1>1, <2>2 DEF NoncePurposeFor
  <2>4. audit' = {OutcomeRow(req[p])}
    BY <2>1, <2>3 DEF Commit
  <2>5. /\ OutcomeRow(req[p]).target = req[p].target
        /\ req[p].op \in RoleOps => OutcomeRow(req[p]).actor = req[p].actor
    BY DEF OutcomeRow, LogRow, RoleOps
  <2>6. nonces[n].wallet \in {OutcomeRow(req[p]).actor, OutcomeRow(req[p]).target}
    BY <2>2, <2>5 DEF Signers
  <2> QED
    BY <2>4, <2>6
<1>2. Inv /\ HeldFit /\ [Next]_vars =>
        [\A n \in Nonce :
           (nonces[n] # None /\ nonces'[n] = None /\ nonces[n].purpose # "LOGIN")
           => \/ ExpireNonce(n)
              \/ \E row \in audit' : nonces[n].wallet \in {row.actor, row.target}]_vars
  BY <1>1
<1>3. Spec => []HeldFit
  BY InitHeld, NextHeld, Invariance, PTL DEF Spec
<1> QED
  BY <1>2, <1>3, Invariance, PTL DEF Spec, NonceBurnedWithOutcome
=============================================================================
