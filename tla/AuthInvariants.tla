--------------------------- MODULE AuthInvariants ---------------------------
(***************************************************************************)
(* The inductive invariant behind the safety properties of AuthService:    *)
(* what a request in flight may have staged, and what it has locked for it.*)
(***************************************************************************)
EXTENDS AuthService

\* Where a request stands in its program, and which account it is about: an
\* idle slot holds nothing, a LOGIN has no account and no staged row before its
\* insert, no session without an account and no transaction once it has
\* committed, a REFRESH has none at all, every other request is about an account
\* that exists.
Shape ==
  \A p \in Proc :
    LET r == req[p] IN
    /\ Idle(p) => r = NoRequest /\ tx[p] = NoTx
    /\ r.op = "LOGIN" =>
         /\ pc[p] \in 0 .. 6
         /\ pc[p] <= 3 => /\ r.acct = None /\ tx[p].owner = None
                          /\ tx[p].found \cup tx[p].del \cup tx[p].ins = {}
         /\ r.acct = None => pc[p] <= 5
         /\ tx[p].ins # {} => tx[p].owner # None
         /\ pc[p] > 4 => tx[p] = NoTx
    /\ r.op = "REFRESH" => pc[p] \in 1 .. 4 /\ tx[p] = NoTx
    /\ r.op # "LOGIN" => r.acct # None
    /\ r.op \notin {"LOGIN", "REFRESH"} => accounts[r.acct] # None
    /\ tx[p].owner # None => r.acct # None

\* A transaction writes role rows of one account only.
OwnWrites ==
  \A p \in Proc :
    \A r \in tx[p].found \cup tx[p].del \cup tx[p].ins : r.acct = req[p].acct

\* A staged row collides with no row that its transaction leaves in place, with
\* no row another transaction has staged, and with none beside it.
KeyClaims ==
  \A p \in Proc : \A r \in tx[p].ins :
    /\ \A k \in roles \ tx[p].del : ~Conflict(r, k)
    /\ \A q \in Proc \ {p} : \A k \in tx[q].ins : ~Conflict(r, k)
    /\ \A k \in tx[p].ins : Conflict(r, k) => r = k

Inv ==
  /\ TypeOK /\ Shape /\ OwnWrites /\ KeyClaims
  /\ NonceExclusive /\ OwnerAgreement /\ OneHolderPerRole

-----------------------------------------------------------------------------
(* What the properties about outcomes (the trigger, the audit log, ownership)  *)
(* need beyond Inv: what a transaction may have staged by each statement.      *)

\* The row that r gives its target, or takes from it.
Mine(r, role) == Row(r.acct, r.target, role)

\* The rows that the transaction of r may delete.
MayDelete(r) ==
  CASE r.op = "REVOKE_AUTH" -> {Mine(r, "AUTH")}
    [] r.op = "REMOVE_WALLET" -> {Mine(r, role) : role \in Role}
    [] r.op = "EXECUTE_RECOVERY" ->
         {Row(r.acct, w, "OWNER") : w \in Wallet} \cup {Mine(r, "RECOVERY")}
    [] OTHER -> {}

\* The rows that the transaction of r may insert.
MayInsert(r) ==
  CASE r.op = "LINK_WALLET" -> {Mine(r, "STANDARD")}
    [] r.op = "GRANT_AUTH" -> {Mine(r, "AUTH")}
    [] r.op = "ASSIGN_RECOVERY" -> {Mine(r, "RECOVERY")}
    [] r.op \in {"LOGIN", "EXECUTE_RECOVERY"} -> {Mine(r, "OWNER"), Mine(r, "AUTH")}
    [] OTHER -> {}

\* The transaction t of a request r at statement i stages the rows of its
\* operation and no other. One that makes an owner has staged both his rows, and a
\* recovery has done so once it is past its insert. A transfer never gets past its
\* first consume.
Fits(r, t, i) ==
  /\ t.found \cup t.del \subseteq MayDelete(r) /\ t.ins \subseteq MayInsert(r)
  /\ t.owner # None =>
       r.op \in {"LOGIN", "EXECUTE_RECOVERY"} /\ t.owner = r.target /\ t.ins = MayInsert(r)
  /\ r.op \in {"LOGIN", "EXECUTE_RECOVERY"} /\ t.owner = None => t.ins = {}
  /\ r.op = "LOGIN" => r.actor = r.target
  /\ r.op = "TRANSFER_OWNER" => i <= 2
  /\ r.op = "EXECUTE_RECOVERY" => (i > 6 <=> t.owner # None)
  /\ r.op \notin {"LOGIN", "REFRESH"} => i \in 1 .. Len(Program[r.op])

\* All transactions do, no nonce for a transfer is ever issued, and an account
\* that a first login has staged does not exist yet.
Staging ==
  /\ \A n \in Nonce : nonces[n] # None => nonces[n].purpose # "TRANSFER_OWNER"
  /\ \A p \in Proc : Fits(req[p], tx[p], pc[p])
  /\ \A p \in Proc :
       req[p].op = "LOGIN" /\ tx[p].owner # None => accounts[req[p].acct] = None

-----------------------------------------------------------------------------
(* What the properties about sessions and chains need beyond that: whom a      *)
(* request in flight is about, and which session it has opened.                *)

\* A request and its transaction at statement i: past its check the target has been
\* looked up on the chain of the caller, a login has no session before its insert
\* and ends none.
Follows(r, t, i) ==
  /\ i > 1 => ChainOf[r.target] = ChainOf[r.actor]
  /\ r.op = "REFRESH" => r.target = r.actor
  /\ r.op = "LOGIN" => t.dead = {} /\ (i <= 5 => r.sess = None)

\* The caller belongs to the account that r acts in, and that account exists in
\* owners, but for a first login that has not committed.
BelongsTo(r, t, owners) ==
  r.acct # None =>
    IF r.op = "LOGIN" /\ t.owner # None
    THEN owners[r.acct] = None
    ELSE owners[r.acct] # None /\ ChainOf[r.actor] = ChainOf[owners[r.acct]]

\* All requests do.
Callers ==
  \A p \in Proc :
    Follows(req[p], tx[p], pc[p]) /\ BelongsTo(req[p], tx[p], accounts)

\* A session that is still being opened is that of its request, and of no other.
Opening ==
  \A p \in Proc :
    LET g == GrantOf(p) IN
    g # None /\ g.opened # None =>
      /\ sessions[g.opened] \in
           {None, [acct |-> g.acct, wallet |-> g.wallet, known |-> FALSE]}
      /\ \A q \in Proc \ {p} : GrantOf(q) # None => GrantOf(q).opened # g.opened

SessionInv == OneChain /\ Callers /\ Opening
=============================================================================
