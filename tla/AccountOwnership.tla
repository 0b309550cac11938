-------------------------- MODULE AccountOwnership --------------------------
(***************************************************************************)
(* What the role and recovery operations promise about who owns an account *)
(* and who may recover it, without nonces, sessions, locks, transactions   *)
(* or failures. Every change is made on a mandate: an operation that the   *)
(* account's owner at that moment, or its recovery wallet, was authorised  *)
(* to ask for. A mandate is used at most once; between its grant and its   *)
(* use other operations may have changed the account, and it is used all   *)
(* the same.                                                               *)
(***************************************************************************)
CONSTANTS
  Account, Wallet,
  Asker,   \* who can be authorised at the same time: the requests in flight
  None

VARIABLES
  owner,     \* owner[a]: the wallet that owns a, None before a is created
  recovery,  \* recovery[a]: the wallets that may recover a, at most one
  mandates   \* mandates[p]: what p may do, None if nothing

vars == <<owner, recovery, mandates>>

Mandate == [op : {"GRANT_AUTH", "REVOKE_AUTH", "ASSIGN_RECOVERY", "TRANSFER_OWNER",
                  "REMOVE_WALLET", "EXECUTE_RECOVERY"},
            acct : Account, actor : Wallet, target : Wallet]

\* Any accounts, as earlier operations left them; nothing is authorised.
Init ==
  /\ owner \in [Account -> Wallet \cup {None}]
  /\ recovery \in [Account -> {{}} \cup {{w} : w \in Wallet}]
  /\ \A a \in Account : owner[a] = None => recovery[a] = {}
  /\ mandates = [p \in Asker |-> None]

\* The first login of w makes an account.
Create(a, w) ==
  /\ owner[a] = None /\ owner' = [owner EXCEPT ![a] = w]
  /\ UNCHANGED <<recovery, mandates>>

\* p is authorised to do m: a recovery if its target is the recovery wallet now,
\* any other operation if its actor is the owner now.
Authorise(p, m) ==
  /\ IF m.op = "EXECUTE_RECOVERY" THEN m.target \in recovery[m.acct]
     ELSE m.actor = owner[m.acct]
  /\ mandates' = [mandates EXCEPT ![p] = m]
  /\ UNCHANGED <<owner, recovery>>

\* p does nothing with its mandate, or something that is not about ownership.
Withdraw(p) ==
  /\ mandates' = [mandates EXCEPT ![p] = None]
  /\ UNCHANGED <<owner, recovery>>

\* The owner names the recovery wallet, if there is none.
Assign(m) ==
  /\ m.op = "ASSIGN_RECOVERY" /\ recovery[m.acct] = {}
  /\ recovery' = [recovery EXCEPT ![m.acct] = {m.target}]
  /\ UNCHANGED owner

\* A wallet is removed, which never changes the owner.
Remove(m) ==
  /\ m.op = "REMOVE_WALLET"
  /\ recovery' = [recovery EXCEPT ![m.acct] = @ \ {m.target}]
  /\ UNCHANGED owner

\* The target becomes the owner, and its right to recover is used up unless it
\* was taken and given again meanwhile.
Recover(m) ==
  /\ m.op = "EXECUTE_RECOVERY" /\ owner[m.acct] # None
  /\ owner' = [owner EXCEPT ![m.acct] = m.target]
  /\ \/ recovery' = [recovery EXCEPT ![m.acct] = @ \ {m.target}]
     \/ UNCHANGED recovery

\* p uses its mandate, once.
Use(p) ==
  /\ mandates[p] \in Mandate
  /\ Assign(mandates[p]) \/ Remove(mandates[p]) \/ Recover(mandates[p])
  /\ mandates' = [mandates EXCEPT ![p] = None]

Next ==
  \/ \E a \in Account, w \in Wallet : Create(a, w)
  \/ \E p \in Asker : Withdraw(p) \/ Use(p) \/ \E m \in Mandate : Authorise(p, m)

Spec == Init /\ [][Next]_vars
=============================================================================
