---------------------------- MODULE SessionGrants ----------------------------
(***************************************************************************)
(* What logins and refreshes promise about sessions, without nonces, roles *)
(* or transactions. A session is opened on a grant: to the wallet that     *)
(* owns the account at that moment, or to whoever holds a live session of  *)
(* the account. A grant opens one session, whose tokens are handed out     *)
(* once. Between these steps the session may end and the account may get   *)
(* another owner, and the grant holds all the same.                        *)
(***************************************************************************)
CONSTANTS
  Account, Wallet, Session,
  Asker,   \* who can have a grant at the same time: the requests in flight
  None

VARIABLES
  owner,     \* owner[a]: the wallet that owns a, None before a is created
  sessions,  \* sessions[s]: its account, its wallet and whether a client has its
             \* tokens; None while there is no such session
  grants     \* grants[p]: the account and the wallet that p may open a session
             \* for, and the one it has opened; None if it has no grant

vars == <<owner, sessions, grants>>

SessionOf(a, w, known) == [acct |-> a, wallet |-> w, known |-> known]

Granted(p, a, w) ==
  /\ grants[p] = None
  /\ grants' = [grants EXCEPT ![p] = [acct |-> a, wallet |-> w, opened |-> None]]

\* Any accounts and sessions, as earlier requests left them; nothing is granted.
Init ==
  /\ owner \in [Account -> Wallet \cup {None}]
  /\ \A s \in Session :
       sessions[s] = None \/ \E a \in Account, w \in Wallet, b \in BOOLEAN :
                               sessions[s] = SessionOf(a, w, b)
  /\ grants = [p \in Asker |-> None]

\* A login of the wallet that owns a. The first login of a wallet makes a.
Admit(p, a) ==
  /\ \/ owner[a] # None /\ owner' = owner
     \/ owner[a] = None /\ \E w \in Wallet : owner' = [owner EXCEPT ![a] = w]
  /\ Granted(p, a, owner'[a])
  /\ UNCHANGED sessions

\* A refresh by whoever has the tokens of s.
Renew(p, s) ==
  /\ sessions[s] # None /\ sessions[s].known
  /\ Granted(p, sessions[s].acct, sessions[s].wallet)
  /\ UNCHANGED <<owner, sessions>>

\* The one session of a grant.
Open(p, s) ==
  /\ grants[p] # None /\ grants[p].opened = None
  /\ sessions[s] = None /\ \A q \in Asker : grants[q] # None => grants[q].opened # s
  /\ sessions' = [sessions EXCEPT ![s] = SessionOf(grants[p].acct, grants[p].wallet, FALSE)]
  /\ grants' = [grants EXCEPT ![p].opened = s]
  /\ UNCHANGED owner

\* The client gets the tokens of the session that was opened for it, alive or not.
HandOut(p) ==
  /\ grants[p] # None /\ grants[p].opened # None
  /\ LET s == grants[p].opened IN
       /\ sessions[s] \in {None, SessionOf(grants[p].acct, grants[p].wallet, FALSE)}
       /\ sessions' = IF sessions[s] = None THEN sessions
                      ELSE [sessions EXCEPT ![s].known = TRUE]
  /\ grants' = [grants EXCEPT ![p] = None]
  /\ UNCHANGED owner

\* The request ends, and nobody gets the tokens.
Withdraw(p) ==
  /\ grants' = [grants EXCEPT ![p] = None]
  /\ UNCHANGED <<owner, sessions>>

\* Sessions end, alone or because an account gets another owner.
End(gone) ==
  /\ sessions' = [s \in Session |-> IF s \in gone THEN None ELSE sessions[s]]
  /\ \/ owner' = owner
     \/ \E a \in Account, w \in Wallet :
          owner[a] # None /\ owner' = [owner EXCEPT ![a] = w]
  /\ UNCHANGED grants

Next ==
  \/ \E p \in Asker :
       \/ HandOut(p) \/ Withdraw(p)
       \/ \E a \in Account : Admit(p, a)
       \/ \E s \in Session : Renew(p, s) \/ Open(p, s)
  \/ \E gone \in SUBSET Session : End(gone)

Spec == Init /\ [][Next]_vars
=============================================================================
