----------------------------- MODULE AuthClaims -----------------------------
(***************************************************************************)
(* What the documentation and the comments of the auth service say that    *)
(* the code does not keep. Each claim is checked alone and TLC shows a     *)
(* behaviour of AuthService that breaks it.                                *)
(***************************************************************************)
EXTENDS MCAuthService

\* The README: TRANSFER_OWNER "moves OWNER to target". So a transfer that the owner
\* asks for, to another wallet that is found, with live nonces of the two wallets and
\* their signatures of the messages that /roles/challenge issued, is not turned away.
TransferAdmitted ==
  \A p \in Proc :
    LET r == req[p]
        live(n, w) == n # None /\ nonces[n] # None /\ nonces[n].wallet = w IN
    /\ At(p, "check") /\ r.op = "TRANSFER_OWNER"
    /\ HasRole(r.acct, r.actor, {"OWNER"})
    /\ Findable(r.actor, r.target) /\ r.target # r.actor
    /\ live(r.n1, r.actor) /\ live(r.n2, r.target)
    /\ r.signed = {nonces[r.n1].purpose, nonces[r.n2].purpose}
    => ~Rejected(p)

\* AccountService: the nonce is only ever burned together with the outcome it
\* authorizes. So a login whose nonce is burned has an account to log in to.
LoginBurnsWithOutcome ==
  \A p \in Proc : At(p, "session") => req[p].acct # None

\* The README: /recovery/execute grants OWNER + AUTH to the recovery wallet. So
\* an accepted recovery does not fail on the rows it inserts.
RecoveryInserts ==
  \A p \in Proc :
    At(p, "insert") /\ req[p].op = "EXECUTE_RECOVERY" => ~DuplicateKey(p)
=============================================================================
