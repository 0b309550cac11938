----------------------------- MODULE AuthTables -----------------------------
(***************************************************************************)
(* The relational side of the auth service: the rows of                    *)
(* packages/database and the constraints that PostgreSQL enforces on them  *)
(* (the unique indexes and the deferred owner trigger of migration 0000).  *)
(* Everything here is a pure operator on sets of rows; the transactions    *)
(* that write the rows are in AuthService.                                 *)
(***************************************************************************)
EXTENDS Naturals, FiniteSets

CONSTANTS
  Account,   \* account ids that can be generated
  Wallet,    \* wallets rows: one per (address, chain) pair
  Chain,     \* supported chain ids
  ChainOf,   \* ChainOf[w]: the chain_id column of wallet w
  Nonce,     \* nonce_challenges ids
  Session,   \* session ids
  None       \* SQL NULL, and "no such row"

ASSUME ChainAssumption == ChainOf \in [Wallet -> Chain]

ASSUME WalletAssumption == Wallet # {}

Role == {"OWNER", "AUTH", "STANDARD", "RECOVERY"}

Purpose == {"LOGIN", "LINK_WALLET", "GRANT_AUTH", "TRANSFER_OWNER", "RECOVERY"}

\* account_wallet_roles, keyed by its unique index; granted_by is left out.
RoleRow == [acct : Account, wallet : Wallet, role : Role]

Row(a, w, r) == [acct |-> a, wallet |-> w, role |-> r]

\* A challenge that can still be consumed: unused and not expired. A used,
\* an expired and a never-issued nonce are all None: consume treats them alike.
Challenge == [wallet : Wallet, purpose : Purpose]

\* A session that is neither revoked nor expired; `known` says that the
\* response carrying its tokens was sent.
LiveSession == [acct : Account, wallet : Wallet, known : BOOLEAN]

ASSUME NoneAssumption ==
  /\ None \notin Account \cup Wallet \cup Nonce \cup Session
  /\ None \notin Challenge \cup LiveSession

-----------------------------------------------------------------------------
(* Constraints *)

\* Mutated form: the migration creates only the (account, wallet, role) index.
ConflictWithoutPartialIndexes(r, k) ==
  r.acct = k.acct /\ r.role = k.role /\ r.wallet = k.wallet

\* Two rows no unique index admits together: the (account, wallet, role)
\* index, and the two partial ones that allow one OWNER and one RECOVERY row
\* per account.
Conflict(r, k) ==
  /\ r.acct = k.acct
  /\ r.role = k.role
  /\ \/ r.wallet = k.wallet
     \/ r.role \in {"OWNER", "RECOVERY"}

OwnerRows(rs, a) == {r \in rs : r.acct = a /\ r.role = "OWNER"}

\* check_account_owner_invariant for account a over the role rows rs and the
\* owner_wallet_id column accts: an account that exists has exactly one OWNER
\* row, and it is the canonical owner's.
OwnerInvariant(rs, accts, a) ==
  accts[a] # None => OwnerRows(rs, a) = {Row(a, accts[a], "OWNER")}
=============================================================================
