---------------------------- MODULE AuthService ----------------------------
(***************************************************************************)
(* The auth service as concurrent requests over one PostgreSQL database.   *)
(*                                                                         *)
(* A request is a process that walks through the statements of its handler *)
(* (Program). Statements outside a transaction act on the tables at once;  *)
(* statements inside db.transaction() see the committed tables plus the    *)
(* request's own writes (READ COMMITTED), keep those writes in tx[p] and   *)
(* publish them at commit. Row locks and in-flight unique keys make a      *)
(* request wait; a failed statement, a lost connection or a deadlock       *)
(* rolls the transaction back.                                             *)
(***************************************************************************)
EXTENDS AuthTables, Sequences

CONSTANTS
  Proc,   \* request slots of the Node processes in front of the database
  Ops     \* the requests that clients send in this instance

VARIABLES
  wallets,   \* the wallets that have a row
  accounts,  \* accounts[a]: owner_wallet_id of account a, None if no such row
  roles,     \* the account_wallet_roles rows
  nonces,    \* nonces[n]: the challenge n while it can be consumed, else None
  sessions,  \* sessions[s]: the session s while it is live, else None
  audit,     \* the audit_logs rows that the last step appended
  pc,        \* pc[p]: index of p's next statement in its Program, 0 when idle
  req,       \* req[p]: the parameters of p's request
  tx         \* tx[p]: the uncommitted side of p's transaction

vars == <<wallets, accounts, roles, nonces, sessions, audit, pc, req, tx>>
tables == <<wallets, accounts, roles, nonces, sessions>>

-----------------------------------------------------------------------------
(* Requests and their programs *)

RoleOps == {"GRANT_AUTH", "REVOKE_AUTH", "ASSIGN_RECOVERY",
            "TRANSFER_OWNER", "REMOVE_WALLET"}

AllOps == RoleOps \cup {"LOGIN", "LINK_WALLET", "EXECUTE_RECOVERY", "REFRESH"}

ASSUME OpsAssumption == Ops \subseteq AllOps

\* The statements of each handler, in order. "consume" and "commit" bracket
\* the transaction; "check" is the authorisation read made before it.
Program == [
  LOGIN |-> <<"consume", "read", "insert", "commit", "session", "audit">>,
  LINK_WALLET |-> <<"check", "consume", "insert", "commit">>,
  GRANT_AUTH |->
    <<"check", "consume", "consume2", "read", "insert", "commit">>,
  REVOKE_AUTH |->
    <<"check", "consume", "consume2", "scan", "delete", "kill", "commit">>,
  ASSIGN_RECOVERY |->
    <<"check", "consume", "consume2", "read", "insert", "commit">>,
  TRANSFER_OWNER |->
    <<"check", "consume", "consume2", "read", "scan", "delete", "insert",
      "kill", "commit">>,
  REMOVE_WALLET |->
    <<"check", "consume", "consume2", "read", "scan", "delete", "commit">>,
  EXECUTE_RECOVERY |->
    <<"check", "consume", "read", "scan", "delete", "insert", "kill",
      "commit">>,
  REFRESH |-> <<"revoke", "session", "audit", "refreshed">>]

\* actor is the wallet of the caller's session; LOGIN has no session and acts
\* for the wallet itself. acct is None until LOGIN finds or makes the account. The
\* wallets have signed messages that name its nonces and the purposes in signed.
Request == [op : AllOps, acct : Account \cup {None}, actor : Wallet,
            target : Wallet, n1 : Nonce \cup {None}, n2 : Nonce \cup {None},
            sess : Session \cup {None}, signed : SUBSET Purpose]

Ask(op, a, actor, target, m, n, s, signed) ==
  [op |-> op, acct |-> a, actor |-> actor, target |-> target,
   n1 |-> m, n2 |-> n, sess |-> s, signed |-> signed]

\* The contents of an idle slot.
NoRequest ==
  LET w == CHOOSE w \in Wallet : TRUE IN
  Ask("LOGIN", None, w, w, None, None, None, {})

Transaction == [
  held  : SUBSET Nonce,             \* nonces set used, row-locked
  seen  : SUBSET RoleRow,           \* result of the SELECT it made
  found : SUBSET RoleRow,           \* rows its DELETE matched, not yet locked
  del   : SUBSET RoleRow,           \* role rows deleted, row-locked
  ins   : SUBSET RoleRow,           \* role rows inserted
  owner : Wallet \cup {None},       \* owner_wallet_id written, if any
  dead  : SUBSET Session]           \* sessions set revoked

NoTx == [held |-> {}, seen |-> {}, found |-> {}, del |-> {}, ins |-> {},
         owner |-> None, dead |-> {}]

NoncePurposeFor(op) ==
  CASE op = "LOGIN" -> "LOGIN"
    [] op = "LINK_WALLET" -> "LINK_WALLET"
    [] op = "TRANSFER_OWNER" -> "TRANSFER_OWNER"
    [] op = "EXECUTE_RECOVERY" -> "RECOVERY"
    [] OTHER -> "GRANT_AUTH"

AuditAction == [LOGIN |-> "ACCOUNT_CREATED", LINK_WALLET |-> "WALLET_LINKED",
  GRANT_AUTH |-> "ROLE_GRANTED", REVOKE_AUTH |-> "ROLE_REVOKED",
  ASSIGN_RECOVERY |-> "RECOVERY_ASSIGNED", TRANSFER_OWNER |-> "OWNER_TRANSFERRED",
  REMOVE_WALLET |-> "WALLET_REMOVED", EXECUTE_RECOVERY |-> "RECOVERY_EXECUTED"]

AuditRow == [acct : Account, actor : Wallet, target : Wallet,
  action : {AuditAction[op] : op \in DOMAIN AuditAction} \cup
           {"SESSION_CREATED", "SESSION_REFRESHED", "SESSION_REVOKED"}]

LogRow(a, actor, target, action) ==
  [acct |-> a, actor |-> actor, target |-> target, action |-> action]

\* Mutated form: the audit row swaps who acted and who was the target.
OutcomeRowSwapped(r) == LogRow(r.acct, r.target, r.actor, AuditAction[r.op])

\* A recovery is logged in the name of the recovery wallet, whoever called.
OutcomeRow(r) ==
  LogRow(r.acct, IF r.op = "EXECUTE_RECOVERY" THEN r.target ELSE r.actor,
         r.target, AuditAction[r.op])

-----------------------------------------------------------------------------
(* Reading the tables *)

Idle(p) == pc[p] = 0

At(p, stmt) == pc[p] # 0 /\ Program[req[p].op][pc[p]] = stmt

Consuming(p) == At(p, "consume") \/ At(p, "consume2")

HasRole(a, w, rs) == \E r \in rs : Row(a, w, r) \in roles

\* Mutated form: findWalletByAddress looks the address up on every chain.
FindableAnywhere(actor, w) == w \in wallets

\* findWalletByAddress looks an address up on the chain of the caller's JWT,
\* which is the chain of the wallet that logged in.
Findable(actor, w) == w \in wallets /\ ChainOf[w] = ChainOf[actor]

\* authenticate.ts: a token whose session is neither revoked nor expired and
\* whose account exists.
Usable(s) == sessions[s] # None /\ sessions[s].known
             /\ accounts[sessions[s].acct] # None

\* Mutated form: the handler looks the wallet up and asks for no role.
AuthorisedByToken(p) == Findable(req[p].actor, req[p].target)

\* assertOwner, assertHasRole and assertRecoveryRole with the lookups around them
\* and the signatures, which must be of messages rebuilt with the purpose of the
\* operation. All of it is evaluated outside the transaction.
Authorised(p) ==
  LET r == req[p] IN
  /\ Findable(r.actor, r.target) /\ r.signed = {NoncePurposeFor(r.op)}
  /\ CASE r.op = "LINK_WALLET" -> HasRole(r.acct, r.actor, {"OWNER", "AUTH"})
       [] r.op = "EXECUTE_RECOVERY" -> HasRole(r.acct, r.target, {"RECOVERY"})
       [] OTHER -> HasRole(r.acct, r.actor, {"OWNER"})

\* The nonce that the next consume names, and the wallet it must belong to.
NonceOf(p) == IF At(p, "consume2") THEN req[p].n2 ELSE req[p].n1
SignerOf(p) ==
  IF At(p, "consume") /\ req[p].op \in RoleOps THEN req[p].actor ELSE req[p].target

\* Mutated form: consume does not ask whose nonce it is.
NonceOfAnybody(p) ==
  /\ NonceOf(p) # None
  /\ nonces[NonceOf(p)] # None
  /\ nonces[NonceOf(p)].purpose = NoncePurposeFor(req[p].op)
  /\ NonceOf(p) \notin tx[p].held

NonceMatches(p) ==
  /\ NonceOf(p) # None
  /\ nonces[NonceOf(p)] =
       [wallet |-> SignerOf(p), purpose |-> NoncePurposeFor(req[p].op)]
  /\ NonceOf(p) \notin tx[p].held

\* Rows the SELECT inside the transaction returns.
Selected(p) ==
  LET r == req[p] IN
  {k \in (roles \ tx[p].del) \cup tx[p].ins :
     CASE r.op = "LOGIN" -> k.wallet = r.target
       [] r.op = "GRANT_AUTH" -> k = Row(r.acct, r.target, "AUTH")
       [] r.op = "ASSIGN_RECOVERY" -> k.acct = r.acct /\ k.role = "RECOVERY"
       [] r.op = "REMOVE_WALLET" -> k = Row(r.acct, r.target, "OWNER")
       [] r.op = "EXECUTE_RECOVERY" -> k.acct = r.acct /\ k.role = "OWNER"
       [] OTHER -> FALSE}

ReadFails(p) ==
  \/ req[p].op \in {"ASSIGN_RECOVERY", "REMOVE_WALLET"} /\ Selected(p) # {}
  \/ req[p].op = "TRANSFER_OWNER" /\ req[p].target = req[p].actor

\* Mutated form: the recovery's DELETE loses its filter on the OWNER role.
DeletableAnyRole(p) ==
  LET r == req[p] IN
  {k \in roles :
     /\ k.acct = r.acct
     /\ CASE r.op = "REVOKE_AUTH" -> k.wallet = r.target
          [] r.op = "TRANSFER_OWNER" -> k.wallet = r.actor /\ k.role = "OWNER"
          [] r.op = "REMOVE_WALLET" -> k.wallet = r.target
          [] OTHER -> TRUE}

\* Rows the DELETE statement matches when it starts.
Deletable(p) ==
  LET r == req[p] IN
  {k \in roles :
     /\ k.acct = r.acct
     /\ CASE r.op = "REVOKE_AUTH" -> k.wallet = r.target /\ k.role = "AUTH"
          [] r.op = "TRANSFER_OWNER" -> k.wallet = r.actor /\ k.role = "OWNER"
          [] r.op = "REMOVE_WALLET" -> k.wallet = r.target
          [] OTHER -> k.role = "OWNER"}

\* Mutated form: the insert of wallet linking, copied to every operation.
NewRowsOfLinking(p) == {Row(req[p].acct, req[p].target, "STANDARD")}

\* The role rows of the INSERT, none when GRANT_AUTH found its row.
NewRows(p) ==
  LET r == req[p]
      row(role) == Row(r.acct, r.target, role) IN
  CASE r.op = "LINK_WALLET" -> {row("STANDARD")}
    [] r.op = "GRANT_AUTH" -> IF tx[p].seen = {} THEN {row("AUTH")} ELSE {}
    [] r.op = "ASSIGN_RECOVERY" -> {row("RECOVERY")}
    [] r.op = "TRANSFER_OWNER" -> {row("OWNER")}
    [] OTHER -> {row("OWNER"), row("AUTH")}

\* EXECUTE_RECOVERY also strips the wallet's RECOVERY row; this second DELETE
\* is taken together with the insert before it.
Stripped(p) ==
  IF req[p].op = "EXECUTE_RECOVERY"
  THEN roles \cap {Row(req[p].acct, req[p].target, "RECOVERY")} ELSE {}

\* Mutated form: writes the account id into the owner column.
NewOwnerIsAccount(p) ==
  IF req[p].op \in {"TRANSFER_OWNER", "EXECUTE_RECOVERY"} THEN req[p].acct ELSE None

\* Mutated form: the handler forgets to update accounts.owner_wallet_id.
NewOwnerForgotten(p) == None

NewOwner(p) ==
  IF req[p].op \in {"TRANSFER_OWNER", "EXECUTE_RECOVERY"} THEN req[p].target ELSE None

\* Wallets whose sessions the transaction revokes, in every account.
Losers(p) ==
  CASE req[p].op = "REVOKE_AUTH" -> {req[p].target}
    [] req[p].op = "TRANSFER_OWNER" -> {req[p].actor}
    [] OTHER -> {k.wallet : k \in tx[p].seen} \ {req[p].target}

\* The tables as they would be after p's commit.
RolesAfter(p) == (roles \ tx[p].del) \cup tx[p].ins
AccountsAfter(p) ==
  IF tx[p].owner = None THEN accounts
  ELSE [accounts EXCEPT ![req[p].acct] = tx[p].owner]

\* Mutated form: the migration creates no trigger.
TriggerAbsent(p) == FALSE

\* The deferred triggers run for the account of each row the transaction wrote.
TriggerRejects(p) ==
  /\ tx[p].del \cup tx[p].ins # {} \/ tx[p].owner # None
  /\ ~OwnerInvariant(RolesAfter(p), AccountsAfter(p), req[p].acct)

-----------------------------------------------------------------------------
(* Locks, failures, and the way a request leaves *)

\* Mutated form: a look-up of the nonce, and a write of used_at by id after it.
ConsumeUnconditionally(p, q) == FALSE

\* The UPDATE of a nonce row repeats its conditions on the row that q has
\* updated, so it waits for q.
ConsumeWaits(p, q) ==
  Consuming(p) /\ NonceMatches(p) /\ NonceOf(p) \in tx[q].held

\* The next statement of p waits for the transaction of q: a nonce row that q
\* has updated, a role row that q has deleted, or a unique key that q is about
\* to publish or to free.
WaitsFor(p, q) ==
  /\ p # q
  /\ \/ ConsumeWaits(p, q)
     \/ At(p, "delete") /\ tx[p].found \cap tx[q].del # {}
     \/ /\ At(p, "insert") /\ req[p].op # "LOGIN"
        /\ \/ \E r \in NewRows(p), k \in tx[q].ins \cup tx[q].del : Conflict(r, k)
           \/ Stripped(p) \cap tx[q].del # {}

Blocked(p) == \E q \in Proc : WaitsFor(p, q)

\* A cycle of waiting transactions, which PostgreSQL detects.
Deadlocked(p) ==
  \E S \in SUBSET Proc : p \in S /\ \A q \in S : \E r \in S : WaitsFor(q, r)

DuplicateKey(p) ==
  /\ req[p].op # "LOGIN"
  /\ \E r \in NewRows(p), k \in roles \ tx[p].del : Conflict(r, k)

\* The early returns, thrown errors and constraint violations of each
\* statement. The last: IdentityController.verify reads account.id of undefined.
Rejected(p) ==
  \/ At(p, "check") /\ ~Authorised(p)
  \/ Consuming(p) /\ ~NonceMatches(p)
  \/ At(p, "read") /\ ReadFails(p)
  \/ At(p, "insert") /\ DuplicateKey(p)
  \/ At(p, "commit") /\ TriggerRejects(p)
  \/ At(p, "session") /\ req[p].acct = None

Advance(p) == pc' = [pc EXCEPT ![p] = @ + 1]

\* The response is sent and the slot is free.
Finish(p) ==
  /\ pc' = [pc EXCEPT ![p] = 0]
  /\ req' = [req EXCEPT ![p] = NoRequest]

\* ROLLBACK: the staged writes and the locks go, the committed tables stay.
Rollback(p) ==
  /\ Finish(p)
  /\ tx' = [tx EXCEPT ![p] = NoTx]
  /\ audit' = {}
  /\ UNCHANGED tables

\* Mutated form: the error of a consume does not reach the catch that answers it.
FailOutsideConsume(p) ==
  Rejected(p) /\ ~Consuming(p) /\ ~Blocked(p) /\ Rollback(p)

\* What is thrown rolls the transaction back and is answered by the controller.
Fail(p) == Rejected(p) /\ ~Blocked(p) /\ Rollback(p)

DeadlockVictim(p) == Deadlocked(p) /\ Rollback(p)

\* The process or its connection dies between any two statements.
Crash(p) == ~Idle(p) /\ Rollback(p)

-----------------------------------------------------------------------------
(* Challenges: the wallets row and the nonces that step 1 of a flow creates *)

\* Bound: ids that no table and no request in flight refers to can be generated.
FreshNonce(n) ==
  nonces[n] = None /\ \A p \in Proc : Idle(p) \/ n \notin {req[p].n1, req[p].n2}
FreshSession(s) ==
  sessions[s] = None /\ \A p \in Proc : s # req[p].sess /\ s \notin tx[p].dead
FreshAccount(a) == accounts[a] = None /\ \A p \in Proc : a # req[p].acct

Issue(n, w, purpose) == [nonces EXCEPT ![n] = [wallet |-> w, purpose |-> purpose]]

\* AccountService.createChallenge: find or insert the wallet, then the nonce.
CreateChallenge(w, n) ==
  /\ "LOGIN" \in Ops /\ FreshNonce(n)
  /\ wallets' = wallets \cup {w}
  /\ nonces' = Issue(n, w, "LOGIN")
  /\ audit' = {}
  /\ UNCHANGED <<accounts, roles, sessions, pc, req, tx>>

\* WalletLinkingService.createLinkChallenge: the wallet must not have a row.
CreateLinkChallenge(s, w, n) ==
  /\ "LINK_WALLET" \in Ops /\ Usable(s) /\ FreshNonce(n)
  /\ HasRole(sessions[s].acct, sessions[s].wallet, {"OWNER", "AUTH"})
  /\ w \notin wallets
  /\ wallets' = wallets \cup {w}
  /\ nonces' = Issue(n, w, "LINK_WALLET")
  /\ audit' = {}
  /\ UNCHANGED <<accounts, roles, sessions, pc, req, tx>>

\* RoleService.createRoleChallenge: two nonces, always of purpose GRANT_AUTH.
CreateRoleChallenge(s, t, m, n) ==
  /\ Ops \cap RoleOps # {} /\ Usable(s)
  /\ m # n /\ FreshNonce(m) /\ FreshNonce(n)
  /\ HasRole(sessions[s].acct, sessions[s].wallet, {"OWNER"})
  /\ Findable(sessions[s].wallet, t)
  /\ nonces' = [nonces EXCEPT
       ![m] = [wallet |-> sessions[s].wallet, purpose |-> "GRANT_AUTH"],
       ![n] = [wallet |-> t, purpose |-> "GRANT_AUTH"]]
  /\ audit' = {}
  /\ UNCHANGED <<wallets, accounts, roles, sessions, pc, req, tx>>

\* RecoveryService.createRecoveryChallenge: any session of the account may ask.
CreateRecoveryChallenge(s, w, n) ==
  /\ "EXECUTE_RECOVERY" \in Ops /\ Usable(s) /\ FreshNonce(n)
  /\ Findable(sessions[s].wallet, w)
  /\ HasRole(sessions[s].acct, w, {"RECOVERY"})
  /\ nonces' = Issue(n, w, "RECOVERY")
  /\ audit' = {}
  /\ UNCHANGED <<wallets, accounts, roles, sessions, pc, req, tx>>

\* expires_at passes. A nonce that a transaction already consumed is past the
\* test of its expiry.
ExpireNonce(n) ==
  /\ nonces[n] # None /\ \A p \in Proc : n \notin tx[p].held
  /\ nonces' = [nonces EXCEPT ![n] = None]
  /\ audit' = {}
  /\ UNCHANGED <<wallets, accounts, roles, sessions, pc, req, tx>>

ExpireSession(s) ==
  /\ sessions[s] # None
  /\ sessions' = [sessions EXCEPT ![s] = None]
  /\ audit' = {}
  /\ UNCHANGED <<wallets, accounts, roles, nonces, pc, req, tx>>

\* SessionService.revoke, called by any session of the same account. Its audit row is
\* a statement of its own, which is not reached if the process dies after the UPDATE.
\* Revoking a session that is no longer live changes only the log: left out.
RevokeSession(s, t) ==
  /\ "REFRESH" \in Ops /\ Usable(s) /\ sessions[t] # None
  /\ sessions[t].acct = sessions[s].acct
  /\ sessions' = [sessions EXCEPT ![t] = None]
  /\ audit' \in {{}, {LogRow(sessions[t].acct, sessions[t].wallet, sessions[t].wallet,
                            "SESSION_REVOKED")}}
  /\ UNCHANGED <<wallets, accounts, roles, nonces, pc, req, tx>>

-----------------------------------------------------------------------------
(* Arrival of a request *)

Start(p, r) ==
  /\ Idle(p) /\ r.op \in Ops
  /\ pc' = [pc EXCEPT ![p] = 1]
  /\ req' = [req EXCEPT ![p] = r]
  /\ audit' = {}
  /\ UNCHANGED <<tables, tx>>

\* Bound: a request that will insert a session or an account finds a free id.
Inserting(ops) == Cardinality({q \in Proc : ~Idle(q) /\ req[q].op \in ops})
SessionRoom ==
  Cardinality({s \in Session : FreshSession(s)}) > Inserting({"LOGIN", "REFRESH"})
AccountRoom ==
  Cardinality({a \in Account : FreshAccount(a)}) > Inserting({"LOGIN"})

\* A request names nonces that can still be consumed when it arrives: any other
\* is rejected at its first consume and leaves no trace.

\* AccountService.verifyAndProvision with a valid signature of wallet w.
StartLogin(p, w, n) ==
  /\ w \in wallets /\ nonces[n] # None /\ SessionRoom /\ AccountRoom
  /\ Start(p, Ask("LOGIN", None, w, w, n, None, None, {"LOGIN"}))

\* The purposes in what the wallets sign: messages for this operation or, in a role
\* operation, the ones that came with the nonces, which may be for another. (Elsewhere a
\* message for another operation is turned away by Check and leaves no trace.)
Signable(op, m, n) ==
  {{NoncePurposeFor(op)}} \cup
  (IF op \in RoleOps THEN {{nonces[m].purpose, nonces[n].purpose}} ELSE {})

\* A request of an authenticated session s about wallet t. n2 is a second nonce
\* only for the role operations.
StartAuthenticated(p, s, op, t, m, n) ==
  /\ op \in AllOps \ {"LOGIN", "REFRESH"} /\ Usable(s)
  /\ nonces[m] # None /\ nonces[n] # None /\ (op \notin RoleOps => n = m)
  /\ \E signed \in Signable(op, m, n) :
       Start(p, Ask(op, sessions[s].acct, sessions[s].wallet, t, m, n, None, signed))

\* SessionService.refresh up to findActiveByRefreshHash.
StartRefresh(p, s) ==
  /\ sessions[s] # None /\ sessions[s].known /\ SessionRoom
  /\ Start(p, Ask("REFRESH", sessions[s].acct, sessions[s].wallet,
                  sessions[s].wallet, None, None, s, {}))

-----------------------------------------------------------------------------
(* The statements *)

\* A statement of p that succeeds and writes no table: it moves p on and
\* changes at most p's own transaction.
Step(p, stmt, t) ==
  /\ At(p, stmt) /\ ~Blocked(p) /\ ~Rejected(p)
  /\ Advance(p)
  /\ tx' = [tx EXCEPT ![p] = t]
  /\ audit' = {}
  /\ UNCHANGED tables

Check(p) == Step(p, "check", tx[p]) /\ UNCHANGED req

\* NonceRepository.consume: one conditional UPDATE.
Consume(p) ==
  /\ \/ Step(p, "consume", [tx[p] EXCEPT !.held = @ \cup {NonceOf(p)}])
     \/ Step(p, "consume2", [tx[p] EXCEPT !.held = @ \cup {NonceOf(p)}])
  /\ UNCHANGED req

Read(p) == Step(p, "read", [tx[p] EXCEPT !.seen = Selected(p)]) /\ UNCHANGED req

\* DELETE: the rows matched when the statement starts, then those of them that
\* still exist once the locks are there.
Scan(p) == Step(p, "scan", [tx[p] EXCEPT !.found = Deletable(p)]) /\ UNCHANGED req

Delete(p) ==
  /\ Step(p, "delete",
          [tx[p] EXCEPT !.del = @ \cup (tx[p].found \cap roles), !.found = {}])
  /\ UNCHANGED req

Insert(p) ==
  /\ req[p].op # "LOGIN"
  /\ Step(p, "insert",
          [tx[p] EXCEPT !.ins = NewRows(p), !.del = @ \cup Stripped(p),
                        !.owner = NewOwner(p)])
  /\ UNCHANGED req

\* Mutated form: the account is taken from the role rows.
AccountsKnowing(w) == {a \in Account : \E k \in roles : k.acct = a /\ k.wallet = w}

\* The accounts of which w is the owner_wallet_id.
AccountsOf(w) == {a \in Account : accounts[a] = w}

\* verifyAndProvision for a wallet that some account already knows: the account
\* it owns, if any.
LookUpAccount(p) ==
  /\ req[p].op = "LOGIN" /\ tx[p].seen # {}
  /\ Step(p, "insert", tx[p])
  /\ LET owned == AccountsOf(req[p].target) IN
     \E a \in IF owned = {} THEN {None} ELSE owned :
       req' = [req EXCEPT ![p].acct = a]

\* verifyAndProvision for a wallet without any role: account, OWNER and AUTH.
ProvisionAccount(p) ==
  /\ req[p].op = "LOGIN" /\ tx[p].seen = {}
  /\ \E a \in Account :
       /\ FreshAccount(a)
       /\ Step(p, "insert",
               [tx[p] EXCEPT !.ins = {Row(a, req[p].target, "OWNER"),
                                      Row(a, req[p].target, "AUTH")},
                             !.owner = req[p].target])
       /\ req' = [req EXCEPT ![p].acct = a]

KillSessions(p) ==
  /\ Step(p, "kill", [tx[p] EXCEPT !.dead =
       {s \in Session : sessions[s] # None /\ sessions[s].wallet \in Losers(p)}])
  /\ UNCHANGED req

\* COMMIT: the triggers accept, and the staged writes become visible together.
Commit(p) ==
  /\ At(p, "commit") /\ ~Rejected(p)
  /\ roles' = RolesAfter(p)
  /\ accounts' = AccountsAfter(p)
  /\ nonces' = [n \in Nonce |-> IF n \in tx[p].held THEN None ELSE nonces[n]]
  /\ sessions' = [s \in Session |-> IF s \in tx[p].dead THEN None ELSE sessions[s]]
  /\ audit' = IF req[p].op = "LOGIN" /\ tx[p].owner = None THEN {}
              ELSE {OutcomeRow(req[p])}
  /\ tx' = [tx EXCEPT ![p] = NoTx]
  /\ IF req[p].op = "LOGIN" THEN Advance(p) /\ UNCHANGED req ELSE Finish(p)
  /\ UNCHANGED wallets

\* SessionService.refresh revokes the old session by id, whatever its state.
RevokeOld(p) ==
  /\ At(p, "revoke") /\ req[p].op = "REFRESH" /\ Advance(p)
  /\ sessions' = [sessions EXCEPT ![req[p].sess] = None]
  /\ audit' = {}
  /\ UNCHANGED <<wallets, accounts, roles, nonces, req, tx>>

\* The requests that create a session.
OpensSession(p) == req[p].op \in {"LOGIN", "REFRESH"}

\* SessionService.create up to the insert of the sessions row.
CreateSession(p) ==
  /\ At(p, "session") /\ OpensSession(p) /\ ~Rejected(p) /\ Advance(p)
  /\ \E s \in Session :
       /\ FreshSession(s)
       /\ sessions' = [sessions EXCEPT ![s] =
            [acct |-> req[p].acct, wallet |-> req[p].actor, known |-> FALSE]]
       /\ req' = [req EXCEPT ![p].sess = s]
  /\ audit' = {}
  /\ UNCHANGED <<wallets, accounts, roles, nonces, tx>>

\* Mutated form: the response writes back the row it was created with.
RespondWithRow(p) ==
  /\ sessions' = [sessions EXCEPT ![req[p].sess] =
       [acct |-> req[p].acct, wallet |-> req[p].actor, known |-> TRUE]]
  /\ Finish(p)

\* The response with the tokens, after the last audit row of p's request.
Respond(p) ==
  /\ sessions' = [s \in Session |->
       IF s = req[p].sess /\ sessions[s] # None
       THEN [sessions[s] EXCEPT !.known = TRUE] ELSE sessions[s]]
  /\ Finish(p)

SessionAudit(p, action) ==
  /\ audit' = {LogRow(req[p].acct, req[p].actor, req[p].target, action)}
  /\ UNCHANGED <<wallets, accounts, roles, nonces, tx>>

AuditCreated(p) ==
  /\ At(p, "audit") /\ OpensSession(p) /\ SessionAudit(p, "SESSION_CREATED")
  /\ IF req[p].op = "LOGIN" THEN Respond(p)
     ELSE Advance(p) /\ UNCHANGED <<sessions, req>>

AuditRefreshed(p) ==
  /\ At(p, "refreshed") /\ req[p].op = "REFRESH"
  /\ SessionAudit(p, "SESSION_REFRESHED") /\ Respond(p)

-----------------------------------------------------------------------------
(* The specification *)

\* An empty database: no request has been served.
Init ==
  /\ wallets = {} /\ roles = {} /\ audit = {}
  /\ accounts = [a \in Account |-> None]
  /\ nonces = [n \in Nonce |-> None]
  /\ sessions = [s \in Session |-> None]
  /\ pc = [p \in Proc |-> 0]
  /\ req = [p \in Proc |-> NoRequest]
  /\ tx = [p \in Proc |-> NoTx]

\* What the clients and the clock do.
Environment ==
  \/ \E w \in Wallet, n \in Nonce :
       \/ CreateChallenge(w, n)
       \/ \E p \in Proc : StartLogin(p, w, n)
       \/ \E s \in Session :
            CreateLinkChallenge(s, w, n) \/ CreateRecoveryChallenge(s, w, n)
  \/ \E s \in Session, t \in Wallet, m, n \in Nonce :
       \/ CreateRoleChallenge(s, t, m, n)
       \/ \E p \in Proc, op \in Ops : StartAuthenticated(p, s, op, t, m, n)
  \/ \E s \in Session :
       \/ \E p \in Proc : StartRefresh(p, s)
       \/ \E t \in Session : RevokeSession(s, t)
       \/ ExpireSession(s)
  \/ \E n \in Nonce : ExpireNonce(n)

\* What the handler of p does next, or PostgreSQL for it.
Execute(p) ==
  \/ Check(p) \/ Consume(p) \/ Read(p) \/ Scan(p) \/ Delete(p) \/ Insert(p)
  \/ LookUpAccount(p) \/ ProvisionAccount(p) \/ KillSessions(p) \/ Commit(p)
  \/ RevokeOld(p) \/ CreateSession(p) \/ AuditCreated(p) \/ AuditRefreshed(p)
  \/ Fail(p) \/ DeadlockVictim(p)

Next == Environment \/ \E p \in Proc : Execute(p) \/ Crash(p)

Spec == Init /\ [][Next]_vars

\* Node runs every pending continuation, and PostgreSQL breaks every deadlock.
\* Waiters for a lock are queued in order, so a lock that is free again and
\* again is not withheld from one of them for ever.
Fairness ==
  \A p \in Proc :
    WF_vars(Execute(p)) /\ SF_vars(Consume(p) \/ Delete(p) \/ Insert(p) \/ Fail(p))

-----------------------------------------------------------------------------
(* Properties *)

\* The variables stay in their types.
TypeOK ==
  /\ wallets \subseteq Wallet
  /\ accounts \in [Account -> Wallet \cup {None}]
  /\ roles \subseteq RoleRow
  /\ nonces \in [Nonce -> Challenge \cup {None}]
  /\ sessions \in [Session -> LiveSession \cup {None}]
  /\ audit \subseteq AuditRow
  /\ pc \in [Proc -> Nat]
  /\ req \in [Proc -> Request]
  /\ tx \in [Proc -> Transaction]

\* Every account has exactly one OWNER row, that of its owner_wallet_id, and no
\* role row outlives or precedes its account, whatever requests interleave
\* (REQ-DATA-006 of migration 0000).
OwnerAgreement ==
  /\ \A a \in Account : OwnerInvariant(roles, accounts, a)
  /\ \A r \in roles : accounts[r.acct] # None

\* No account ever has two RECOVERY rows or two OWNER rows, although
\* ASSIGN_RECOVERY tests for one with a plain SELECT that two requests may both
\* pass: the unique indexes hold through in-flight inserts and deletes.
OneHolderPerRole ==
  \A r, k \in roles :
    r.acct = k.acct /\ r.role = k.role /\ r.role \in {"OWNER", "RECOVERY"} => r = k

\* A nonce authorises at most one transaction: while one has consumed it no
\* other has, and it is still there to be burned by that one's commit
\* (NonceService: "A used nonce can never be reused").
NonceExclusive ==
  \A p \in Proc : \A n \in tx[p].held :
    nonces[n] # None /\ \A q \in Proc \ {p} : n \notin tx[q].held

\* A nonce that is not burned by its expiry goes together with the outcome it
\* authorises: the same step writes the audit row of an operation that the
\* nonce's wallet acts in or is the target of. (LOGIN nonces aside.)
NonceBurnedWithOutcome ==
  [][\A n \in Nonce :
       (nonces[n] # None /\ nonces'[n] = None /\ nonces[n].purpose # "LOGIN")
       => \/ ExpireNonce(n)
          \/ \E row \in audit' : nonces[n].wallet \in {row.actor, row.target}]_vars

\* The change of roles and owners that an audit row accounts for; session rows
\* account for none, and no transfer gets as far as its audit row.
Explains(row) ==
  LET a == row.acct
      gone == roles \ roles'
      new == roles' \ roles
      mine(role) == Row(a, row.target, role)
      kept == accounts' = accounts IN
  CASE row.action = "ACCOUNT_CREATED" ->
         /\ accounts[a] = None /\ accounts' = [accounts EXCEPT ![a] = row.actor]
         /\ gone = {} /\ new = {mine("OWNER"), mine("AUTH")}
    [] row.action = "WALLET_LINKED" -> kept /\ gone = {} /\ new = {mine("STANDARD")}
    [] row.action = "ROLE_GRANTED" -> kept /\ gone = {} /\ new = {mine("AUTH")}
    [] row.action = "ROLE_REVOKED" -> kept /\ gone = {mine("AUTH")} /\ new = {}
    [] row.action = "RECOVERY_ASSIGNED" ->
         kept /\ gone = {} /\ new = {mine("RECOVERY")}
    [] row.action = "WALLET_REMOVED" ->
         /\ kept /\ new = {}
         /\ gone \subseteq {mine("AUTH"), mine("STANDARD"), mine("RECOVERY")}
    [] row.action = "RECOVERY_EXECUTED" ->
         /\ accounts' = [accounts EXCEPT ![a] = row.target]
         /\ gone \subseteq OwnerRows(roles, a) \cup {mine("RECOVERY")}
         /\ new \subseteq {mine("OWNER"), mine("AUTH")} /\ mine("AUTH") \in new
    [] OTHER -> FALSE

\* Nothing about roles or ownership changes without an audit row in the same
\* commit that says so, and nothing changes beyond what that row says: no other
\* account, no other wallet, no OWNER row lost by a removal.
ChangesAreAudited ==
  [][roles' # roles \/ accounts' # accounts => \E row \in audit' : Explains(row)]_vars

\* The handlers keep the owner rows right by themselves: of all operations only
\* REMOVE_WALLET, whose owner test is stale when a recovery commits before its
\* delete, is ever stopped by the deferred trigger.
TriggerStopsOnlyRemovals ==
  \A p \in Proc :
    At(p, "commit") /\ TriggerRejects(p) => req[p].op = "REMOVE_WALLET"

\* A request whose authorisation has passed: what it may still do to its account.
MandateOf(p) ==
  LET r == req[p] IN
  IF r.op \in RoleOps \cup {"EXECUTE_RECOVERY"} /\ pc[p] > 1
  THEN [op |-> r.op, acct |-> r.acct, actor |-> r.actor, target |-> r.target]
  ELSE None

\* Who owns an account and who may recover it changes only as the operations
\* promise, although assertOwner, assertHasRole and assertRecoveryRole are made
\* before the transaction and may be stale in it: each change is made, once, by a
\* request that was authorised by the owner or the recovery wallet of some moment
\* since it arrived.
Ownership == INSTANCE AccountOwnership WITH
  Asker <- Proc, owner <- accounts,
  recovery <- [a \in Account |-> {w \in Wallet : Row(a, w, "RECOVERY") \in roles}],
  mandates <- [p \in Proc |-> MandateOf(p)]
OwnershipImplemented == Ownership!Spec

\* No account spans two chains: the wallets of its role rows and of its sessions are on
\* the chain of its owner, although no constraint of the schema says so and link
\* challenges take any chain. It rests on every look-up of a wallet by address
\* using the chain of the caller's session, and on owners following each other.
OneChain ==
  /\ \A k \in roles : ChainOf[k.wallet] = ChainOf[accounts[k.acct]]
  /\ \A s \in Session :
       LET l == sessions[s] IN
       l # None => accounts[l.acct] # None /\ ChainOf[l.wallet] = ChainOf[accounts[l.acct]]

\* A login or a refresh that may still open a session, and the one it has opened. A
\* first login has nothing before its commit.
GrantOf(p) ==
  LET r == req[p] IN
  IF r.op \in {"LOGIN", "REFRESH"} /\ r.acct # None /\ tx[p].owner = None
  THEN [acct |-> r.acct, wallet |-> r.actor,
        opened |-> IF r.op = "REFRESH" /\ pc[p] <= 2 THEN None ELSE r.sess]
  ELSE None

ASSUME GrantAssumption ==
  None \notin [acct : Account, wallet : Wallet, opened : Session \cup {None}]

\* Every session was opened, once, by a login or a refresh of somebody who was
\* entitled to it when it was granted, and its tokens went to that request only:
\* whatever expires, is revoked or recovered between the look-up of the account or
\* of the old session and the insert of the new one.
Grants == INSTANCE SessionGrants WITH
  Asker <- Proc, owner <- accounts, grants <- [p \in Proc |-> GrantOf(p)]
SessionsImplemented == Grants!Spec

\* Every request is answered: lock waits end, and waiting requests never form a
\* cycle that nobody breaks (two nonce rows are locked in request order).
RequestsFinish == \A p \in Proc : ~Idle(p) ~> Idle(p)
=============================================================================
