--------------------------- MODULE MCAuthService ---------------------------
(* Finite instances of AuthService: a chain map and seeded databases. *)
EXTENDS AuthInvariants, TLC

CONSTANTS a1, w1, w2, s1

\* Requests and nonces are interchangeable; used by safety runs only.
Symmetry == Permutations(Proc) \cup Permutations(Nonce)

\* With an empty database accounts and sessions are interchangeable as well.
EmptySymmetry == Symmetry \cup Permutations(Account) \cup Permutations(Session)

MCChainOf == [w \in Wallet |-> CHOOSE c \in Chain : TRUE]

\* Two chains: w1 and w2 on the first, the other wallets on the second.
MCTwoChains == [w \in Wallet |-> IF w \in {w1, w2} THEN 1 ELSE 2]

\* A database that earlier requests left behind: account a1 of w1, the rows rs
\* of a1, the wallets ws known, one session of w1.
Seeded(ws, rs) ==
  /\ wallets = ws /\ audit = {}
  /\ accounts = [a \in Account |-> IF a = a1 THEN w1 ELSE None]
  /\ roles = {Row(a1, w1, "OWNER"), Row(a1, w1, "AUTH")} \cup rs
  /\ nonces = [n \in Nonce |-> None]
  /\ sessions = [s \in Session |->
       IF s = s1 THEN [acct |-> a1, wallet |-> w1, known |-> TRUE] ELSE None]
  /\ pc = [p \in Proc |-> 0]
  /\ req = [p \in Proc |-> NoRequest]
  /\ tx = [p \in Proc |-> NoTx]

\* After LOGIN of w1, LINK_WALLET of w2 and ASSIGN_RECOVERY of w2.
RecoverySpec == Seeded(Wallet, {Row(a1, w2, "RECOVERY"), Row(a1, w2, "STANDARD")})
                /\ [][Next]_vars

\* After LOGIN of w1.
OwnerSpec == Seeded(Wallet, {}) /\ [][Next]_vars

OwnerFairSpec == OwnerSpec /\ Fairness
=============================================================================
