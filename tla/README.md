# Formal model of the Atra services

TLA+ specifications of the two services of this repository that have behaviour
of their own: the **auth service** (accounts, wallets, roles, recovery,
sessions and the audit log, over one PostgreSQL database) and the **market
service** (client sockets and symbol subscriptions over one connection to
Binance, and a price cache that REST requests and the stream share). TLC checks
them on small instances; TLAPS proves their safety properties, and that they
implement three abstract specifications, for every value of the constants.

## 1. The system

### Components

| Component | Source | State | Operations | Modelled in |
|---|---|---|---|---|
| Identity | `apps/auth-service/src/modules/identity` | `wallets`, `accounts`, role rows | challenge, verify (login and provisioning) | `AuthService` |
| Nonces | `NonceService.ts`, `NonceRepository.ts` | `nonce_challenges` | create, consume, expiry | `AuthTables`, `AuthService` |
| Sessions | `modules/auth` | `sessions` | create, refresh, revoke, expiry | `AuthService`, `SessionGrants` |
| Authentication | `middleware/authenticate.ts` | none | admits a request | `AuthService` (`Usable`) |
| Wallet linking | `modules/wallets` | role rows | link challenge, link verify | `AuthService` |
| Roles | `modules/roles` | role rows, `accounts` | dual challenge; GRANT_AUTH, REVOKE_AUTH, ASSIGN_RECOVERY, TRANSFER_OWNER, REMOVE_WALLET | `AuthService`, `AccountOwnership` |
| Recovery | `modules/recovery` | role rows, `accounts`, sessions | challenge, execute | `AuthService`, `AccountOwnership` |
| Schema | `packages/database` | unique indexes, deferred owner trigger | enforced by PostgreSQL | `AuthTables`, `AuthService` |
| Audit log | `modules/audit` | `audit_logs` | append (inline in each service), paginated query | rows written: `AuthService`; query: `AuditPages` |
| Stream manager | `market-service/src/services/MarketStreamManager.ts` | symbol and connection registries | subscribe, unsubscribe, disconnect, incoming ticker | `MarketStream`, `Subscriptions` |
| Gateway | `market-service/src/ws/WebSocketGateway.ts` | open sockets | connection, message, close | `MarketStream` |
| Binance stream adapter | `market-service/src/adapters/BinanceWsAdapter.ts` | connection, active symbols, reconnect timer | open, close, subscribe, unsubscribe, ticker | `MarketStream` |
| Price service, cache | `PriceService.ts`, `InMemoryPriceCache.ts`, `BinanceRestAdapter.ts` | price cache, in-flight map | getTickers, background refresh, answers and failures | `PriceService`, with the stream: `MarketService` |
| REST router | `rest/router.ts` | none | `GET /prices`, `GET /search` | `/prices` with its 502: `PriceService`; `/search` is a filter over a constant |
| Symbol catalogue | `SymbolCatalogService.ts` | constant list | search | not modelled: loaded before the server listens, then a pure filter |
| Signatures, tokens | `SignatureService.ts`, `TokenService.ts` | none | cryptography | not modelled, but for the purpose that a signed message names (`signed`) |
| Chain configuration | `shared/chains` | constant table | lookups | not modelled: pure |
| Stubs | `api-gateway`, `notification-service`, `portfolio-service`, `worker-service`, six packages | none | none | not modelled: files of one or two lines |

### How they interact

The auth service is stateless Express handlers; everything they share is the
database. A handler is a sequence of awaited SQL statements, some before, some
inside and some after one `db.transaction()`. Between any two of them other
requests run, in the same Node process or in another, so the interleavings that
matter are those of statements.

In the market service everything shared is in the memory of one Node process
and every handler runs to its end. What interleaves there are handlers, with
the network between them: frames under way to Binance, tickers under way
back, connections that are lost and opened again, sockets that are already
closing when a ticker is handled, REST answers that arrive late or never
succeed. The stream and the price service meet in one object, the price cache.

### What is hard, and what has to hold

*Auth service.*
- Tests made by one statement are stale when a later one acts on them: the
  owner test before the transaction, the SELECT before an INSERT, the owner
  test before the DELETE of REMOVE_WALLET. Unique indexes and the deferred
  trigger are what is left to stop two requests that pass the same test.
- Two requests with the same nonce; nonce rows locked in opposite order.
- A crash or a failed statement anywhere: nonce and outcome must go together.
- Sessions that a concurrent refresh or login creates while a recovery revokes.
- Challenges name any chain, look-ups are on the chain of the session, and no
  constraint ties the roles of an account to one chain.
- A log that grows while a client walks through its pages.

What must hold: exactly one owner per account, agreeing with
`accounts.owner_wallet_id`; at most one recovery wallet; a nonce authorises one
transaction and is burned with its outcome; nothing about roles or owners
changes without an audit row that says exactly that; ownership changes only on the
mandate of somebody who was owner or could recover; a session is opened only for the owner
or for who holds a live session, and its tokens are handed out once; the roles and
sessions of an account are on one chain; every request is answered; a walk
through the audit log ends, and skips or repeats no row but those that are out of order with another.

*Market service.*
- Lists with repetitions and two spellings of a symbol, messages of a socket
  that does not hold what it drops, messages after the socket began to close.
- Symbols taken and dropped while no connection is open.
- Reconnection: one timer at a time, an attempt that fails.
- One call to Binance shared by requests that wait for it and by background refreshes, of
  which some fail; an answer computed before, and arriving after, a ticker of the stream.

What must hold: counts equal subscribers, the registries mirror each other,
Binance streams exactly what somebody holds once it has read what was sent,
clients get newer tickers of what they hold only, and a symbol that is held is
streamed in the end; one call per symbol, nobody waits for a call that is over, a cached
price goes back only where the two ways into the cache meet, and `GET /prices` is answered.

## 2. The modules

| Module | Contents |
|---|---|
| `AuthTables` | rows, unique keys, the owner trigger's condition: operators on sets of rows, no variables |
| `AuthService` | the handlers as processes over the tables; actions, fairness, properties |
| `AccountOwnership` | abstract: who owns an account and who may recover it, changed on mandates |
| `SessionGrants` | abstract: sessions opened on grants, their tokens handed out once |
| `AuthInvariants` | the inductive invariant `Inv`; `Staging`: what a transaction may have staged by each statement; `SessionInv`: whom a request is about and what it has opened |
| `AuthService_proofs` | `Inv` is invariant, and what follows from it |
| `AuthOutcome_proofs` | `Staging` is invariant; the trigger, the audit rows, nonces burned with their outcome, transfers |
| `AuthOwnership_proofs` | `AuthService` implements `AccountOwnership` |
| `AuthSession_proofs` | `SessionInv` is invariant; `AuthService` implements `SessionGrants` |
| `MCAuthService` | finite instances, seeded databases, symmetry |
| `AuthClaims` | what docs and comments say that the code does not keep |
| `AuditPages`, `AuditPages_proofs` | the paginated query over a log that grows; its proofs |
| `MarketStream` | registries, gateway, adapter and network; fairness, properties |
| `Subscriptions` | abstract: a set of (client, symbol) pairs and the tickers sent for them |
| `MarketStream_proofs` | the registries, the order of tickers, what Binance streams; `MarketStream` implements `Subscriptions` |
| `PriceService`, `PriceService_proofs` | `GET /prices` over the cache, with a stream that writes it too; its proofs |
| `MarketService` | `MarketStream` and `PriceService` composed, over one cache |
| `MarketService_proofs` | the composition implements `PriceService`; the properties of both components hold of it |
| `MCMarketStream`, `MCMarketService`, `MarketClaims` | finite instances; a claim of a comment |

`AuthService` instantiates `AccountOwnership` and `SessionGrants`, `MarketStream` instantiates `Subscriptions`,
and `MarketService` instantiates `MarketStream` and `PriceService`.

Operators described as "Mutated form" are what a plausible bug would make of the
definition below them. No specification uses them; each one, put in the place
of the original, makes a property fail, which shows that the property depends on
that piece of code.

### AuthService and the code

`wallets`, `accounts`, `roles`, `nonces`, `sessions` are the tables. `audit` is
the set of `audit_logs` rows the last step appended (the log is never read by a
handler that changes state). A nonce that was used, has expired or was never
issued is `None`, since `consume` tells them apart no more than the model does;
so is a session that was revoked or has expired.

A request in slot `p` walks through `Program[op]`: the SQL statements of its
handler in source order. `tx[p]` holds the uncommitted part of its transaction:
nonces consumed, rows read, rows deleted and inserted, the owner written,
sessions revoked.

| Statement | Action | Code |
|---|---|---|
| look-ups, role test and signatures before the transaction | `Check` | `assertOwner`, `assertHasRole`, `assertRecoveryRole`, `verifySignature` |
| the conditional UPDATE of a nonce | `Consume` | `NonceRepository.consume` |
| a SELECT that a later statement relies on | `Read` | `existing`, `ownerCheck`, `previousOwnerRows` |
| DELETE of role rows | `Scan` (rows matched at its start), `Delete` (those that remain once locked) | `RoleService.applyOperation`, `executeRecovery` |
| INSERT of role rows with the UPDATE of `accounts` that goes with it | `Insert`, `ProvisionAccount` | all four services |
| UPDATE of `sessions` | `KillSessions` | REVOKE_AUTH, TRANSFER_OWNER, recovery |
| COMMIT with its deferred triggers | `Commit` | end of `db.transaction()` |
| statements outside transactions | `RevokeOld`, `CreateSession`, `AuditCreated`, `AuditRefreshed` | `SessionService` |
| an error, of the handler or of a constraint | `Fail` | thrown errors, unique violation, trigger exception, `account.id` of undefined |

PostgreSQL is modelled as these handlers see it: READ COMMITTED visibility, row
locks held to the end of the transaction, an INSERT that waits for another
transaction holding the same unique key, a broken deadlock (`DeadlockVictim`),
a rollback when the process or its connection dies (`Crash`).

What is abstracted, and why nothing is lost for the properties:
- The find-or-insert of a `wallets` row and the nonce that follows are one
  action; a race between two of them is stopped by the unique index with an error that
  leaves no trace.
- An INSERT of role rows, the UPDATE of `accounts` and, in a recovery, the DELETE of the
  RECOVERY row are one action. They are adjacent statements of one transaction
  whose locks are on rows that the first already excludes others from, or that
  `WaitsFor` includes.
- Locks on `sessions` rows are left out: they are taken by the last statement
  before COMMIT and by single statements, and cannot be part of a cycle.
- The audit INSERT of a transaction is part of `Commit`. It cannot fail: its foreign
  keys name rows that the transaction has already used.
- Signatures are kept as far as handlers tell them apart: `signed` is the set of purposes in the
  messages that the wallets of a request signed, and `Check` wants just that of the operation, since
  the handler rebuilds the messages with it. In a role operation the wallets may have signed the
  messages issued with the nonces or others for the operation (`Signable`); elsewhere a challenge
  already is for its operation. A signature by somebody else, or of a login that
  does not verify, is turned away before any statement that writes.
- `SessionService.revoke` is an UPDATE and an audit INSERT outside a transaction. They are one
  action that may leave the row out, as when the process dies in between; nothing reads the log,
  so it makes no difference when the row comes.
- The access token's list of roles is left out: no handler reads it.

### MarketStream and the code

One action per handler or callback: `Connect`, `Subscribe`, `Unsubscribe`,
`Disconnect` (gateway and manager together), `Open`, `Close`, `ConnectFails`,
`Reconnect` (the timer), `HandleTicker`. The network is `frames` (to Binance),
`tickers` (from it), `upstream` (what Binance has subscribed on this
connection), `Drop` (the connection is lost; the adapter learns of it with
`Close`), and `StartClose` (a client socket leaves OPEN; its close event follows).

A message's list of names is a set: a repeated item finds the socket already
subscribed and changes nothing. The order in which its symbols go out is left
open, which covers every order of the list. Acknowledgements, and messages that are not JSON,
of an unknown type or without a list, change nothing and are left out. A list item that is not a
string is left out too, for another reason: it throws in `toUpperCase` (`MarketStreamManager.ts` 59, 69)
inside a message handler that catches nothing (`WebSocketGateway.ts` 70), which ends the process. All state of
the service is in memory and ends with it, so the next process starts in `Init`.

### PriceService and the code

What Node runs in one turn of the event loop is one action. `Serve` is `GET /prices`
up to its first wait: it sorts the symbols into fresh, stale (`Refreshed`) and
missing (`Missing`), starts a call for each that has none in flight, and is answered at
once unless a symbol is missing. `Complete` and `Fail` are the end of a call with all
that its promise triggers in the same turn: the cache entry, `finally` removing the
in-flight entry, and the requests that waited. Promise.all makes one failure
answer a request 502 whatever else it waits for; its other calls go on.

A price is the event time of its ticker. A call's `answer` is fixed when Binance
computes it (`Compute`), which may be long before it arrives. `stale` is the set of
entries older than the TTL; `Expire` is the clock. `source` is not in the code: it
remembers which path wrote an entry, for the property. `StreamWrites` stands for the
stream: any ticker that is newer than the stream's last one.

### MarketService and the code

`bootstrap` in `index.ts` gives `MarketStreamManager` and `PriceService` the same cache object and
the same Binance. `MarketService` instantiates both modules as they are. They share
`tick`, Binance's newest ticker. `MarketStream`'s variable `cache` becomes `streamed`, what the stream
last cached, and each entry that it changes is also written to `cache`,
which `PriceService` reads (`CacheStreamed`). So `PriceService`'s assumption about the stream is
no longer an assumption: `PricesImplemented` says that the real stream keeps it.

### AuditPages and the code

`rows` are the committed rows of the client's account, `open` those of transactions
that have begun. `created_at` is PostgreSQL's `now()`, the *start* of the transaction,
so a row may commit behind newer ones. Ids are numbers in the order in which uuids
compare, generated in any order. `GetLogs` is the query, with its clamped limit, the
extra row, and the cursor; cursor 0 stands for null. `walk` is the client: it begins,
takes each next cursor, and remembers what it was shown. `Cap` is 200 in the code. A
limit that is not a number makes the driver fail and changes nothing; it is left out.

### The abstract specifications

`AccountOwnership` has no nonces, sessions, locks or transactions. An asker is given a
mandate (an operation, asked for by who is owner *now*, or for a wallet that may
recover *now*) and uses it later, at most once, or never. Every change of `owner` or
`recovery` after creation is the use of a mandate, and a removal never changes the owner.
`AuthService` implements it with the mapping `owner <- accounts`, `recovery <-` the wallets with a
RECOVERY row, `mandates <- MandateOf`: a request whose authorisation has passed and
that has not ended. This is what is true of the code although `assertOwner` and
`assertRecoveryRole` precede the transaction. "The actor is owner when its operation takes
effect" would be false, see section 4.

`SessionGrants` has no nonces, roles or transactions either. A grant is given to the wallet
that owns the account at that moment (`Admit`), or to who holds the tokens of a live
session (`Renew`); it opens one session, for the account and wallet it was given for, whose
tokens are handed out once. Sessions end at any time, alone or with a change of owner, and a grant is not
taken back: a login and a refresh that a recovery overtakes go on, which is what the code does (section 4).
The mapping is `owner <- accounts`, `sessions <- sessions`, `grants <- GrantOf`. A login has
its grant from the look-up of its account on; a first login, whose account is not committed,
from its commit. A refresh has it from the look-up of its session. What it rules out: a session of
an account that is neither the caller's nor that of his token, a second session on one grant, a
session id shared by two requests, and tokens of a session that was never created.

`Subscriptions` has no counts, no second registry, no closing sockets and no connection.
A client changes its own pairs; `wanted` is always what somebody holds; a
ticker goes to some of its holders. The mapping takes the pairs from
`symbolRegistry` and `wanted` from the adapter's `activeSymbols`.

## 3. What is checked

| Run | Instance | Properties |
|---|---|---|
| `recovery_races` | two requests, each a recovery, a removal or a refresh; account with an owner and a recovery wallet | `TypeOK`, `OwnerAgreement`, `TriggerStopsOnlyRemovals`, `ChangesAreAudited`, `OwnershipImplemented`, `SessionsImplemented` |
| `role_races` | two ASSIGN_RECOVERY requests of one owner, three wallets of which one is on another chain, four nonces | `OneHolderPerRole`, `NonceExclusive`, `OneChain`, `NonceBurnedWithOutcome`, `ChangesAreAudited`, `OwnershipImplemented` |
| `login` | empty database, two accounts, three session ids; login, refresh, link | `Inv`, `ChangesAreAudited`, `SessionsImplemented` |
| `answers` | GRANT_AUTH and REVOKE_AUTH whose nonces may be the same pair in opposite order | `RequestsFinish`, `ChangesAreAudited` |
| `audit_pages` | a walk with any of four limits over a log of up to three rows with random ids | `OnceUnlessInverted`, `CursorDescends`, `WalkEnds` |
| `market_stream` | two clients, two symbols in three spellings, two lost connections | `TypeOK`, `RefCounts`, `Mirrored`, `UpstreamAgrees`, `SentInOrder`, `SubscriptionsImplemented` |
| `price_service` | two requests for two symbols, three tickers each | `InFlightAgrees`, `BackOnlyBetweenPaths`, `PricesAnswered` |
| `market_service` | the composition: two clients, two requests, two lost connections | `PricesImplemented`, `HeldIsStreamed`, `PricesAnswered` |

Four more runs end in a violation on purpose; they are the table of section 4.

What the less obvious ones say:
- `OwnerAgreement`: the condition of REQ-DATA-006 in *every committed state*.
  The mutated form without the trigger breaks it: the handlers alone do not keep it.
- `TriggerStopsOnlyRemovals`: what the trigger is needed for. Only REMOVE_WALLET,
  whose owner test a recovery may outdate, ever runs into it; all other handlers keep the
  owner rows right by themselves.
- `ChangesAreAudited`: an action property. A step that changes roles or owners appends
  a row whose account, wallets and action account for the change exactly.
- `NonceBurnedWithOutcome`: a nonce that does not expire goes in the step that
  logs an operation of its wallet. LOGIN nonces are excepted, see `claim_login`.
- `OneChain`: no role row and no session of an account is of a wallet on another chain than its
  owner's, though wallets of any chain are challenged. The mutated form that looks an address up
  anywhere breaks it: nothing but the look-ups keeps chains apart.
- `OwnershipImplemented`, `SessionsImplemented`, `SubscriptionsImplemented`, `PricesImplemented`: the refinements of section 2.
- `OnceUnlessInverted`: pages are cut by id and ordered by time, and ids are random, so a walk may
  skip rows and show rows twice. The property says which. A row that was there when the walk
  began is skipped only if some row with a lower id is not older (a page that ends there
  leaves it behind), and shown twice only if some row with a higher id is not newer. Every other row is
  shown exactly once, in whatever order the rest of the log is, so that in a log whose ids followed the
  time walks would be complete. Rows that commit late, limits below one, full pages and rows appended
  meanwhile are all in the run.
- `CursorDescends`: a next cursor is lower than the cursor asked with, whatever the order of ids:
  a walk may skip rows, it never goes round in a circle.
- `BackOnlyBetweenPaths`: a price goes back only when its writer changes. A REST answer may
  overwrite a newer ticker of the stream, so "a price never goes back" would be
  false. That two REST answers keep their order rests on the in-flight map: the
  mutated form without it breaks the property.
- `HeldIsStreamed` and `PricesAnswered` are checked together in the composition,
  where neither component may starve the other.
- `UpstreamAgrees`: what Binance streams, after the frames under way are applied,
  is what the adapter has active. Binance's own state lags, so equality
  of `upstream` and `activeSymbols` would be false.

### Bounds

Auth runs have one account that exists (two ids where accounts are made), two
wallets on one chain (`role_races` a third on another), two request slots, and enough nonces for two challenges. Two
slots suffice for each race named above: a stale test needs one request that
tests and one that changes what was tested. `FreshNonce`, `SessionRoom` and
`AccountRoom` keep ids from running out half-way through a request; ids that nothing
refers to are used again, so behaviours are not bounded in length. Runs other than `login`
start from a database that earlier requests left (`Seeded` in `MCAuthService`
says which), so that two slots are spent on the race and not on its setup. Symmetry
(requests and nonces, from the empty database also accounts and sessions) is used by
safety runs only.

`recovery_races` has two session ids, the owner's and the one a refresh opens, so that a recovery can
revoke either before, between and after the statements of the refresh; two refreshes of one
token at a time, and logins next to them, are in `login`, which has a third id for that. In `role_races` the third wallet is known and on another chain: it may be named for
recovery as the second may, and is turned away by the look-up alone.

`audit_pages` has three ids, four moments (0 to 3), limits 0, 1, 2 and 9, and a cap of 2: below,
at and above one, at the cap and clamped; three rows make a full page, a last page
and an extra row possible, and leave ids to be appended behind and in front of the cursor.

`price_service` has a symbol that fails while the other is waited for, two
requests that share a call, and three tickers, so that an answer can be older than a cached one
that is itself not the first. `market_service` has one symbol (symbols interact
only in a request for both, which is in `price_service`), two sockets that share or drop
it, two requests and two lost connections.

`market_stream` has two sockets, two symbols of which one is sent in two spellings, two
tickers per symbol, two frames and one ticker under way, and two lost
connections: a symbol can be shared, kept by one and dropped by the other across a
reconnect. `MaxFrames` stops clients from adding to a full queue, never a
disconnect.

`CHECK_DEADLOCK FALSE` is given where a bound or the end of the workload may stop the
system: sessions that have expired admit no further request, and ticker, socket
and connection bounds run out. `login` checks deadlock.

### Fairness

`answers` assumes weak fairness of each request's next step: Node runs every
continuation and PostgreSQL answers or breaks a deadlock. It assumes strong fairness of the statements
that wait for locks: waiters are queued, so a lock that becomes
free again and again is not withheld from one of them for ever. Nothing is assumed
of clients, of expiry or of crashes. `market_service` assumes weak fairness of
the adapter's events and timer, of a connection attempt being answered and of
Binance reading its frames. It takes attempts to reconnect to succeed (`RetryMayFail =
FALSE`), because `claim_reconnect` shows that the property fails otherwise.

`price_service` and `market_service` assume that every REST call ends, with an answer or an
error. The code does not see to that: axios has no timeout by default, and a call that
never ends keeps its entry in the in-flight map, so that every later request for a missing
entry waits with it. It is the network that is trusted here. `audit_pages` assumes
that a client with a cursor asks for the next page; a client that stops asking does not walk.

## 4. Where the code and its documentation differ

Each of these runs checks one statement of a README or a comment and ends with
a behaviour that breaks it. A transfer has no way around its refusal: a client that builds the
messages for TRANSFER_OWNER itself passes the signatures, and is then answered INVALID_OWNER_NONCE
(line 127), because the nonces were issued for GRANT_AUTH (line 75). `TransfersNeverCommit` proves that.

| Run | Statement | What the code does |
|---|---|---|
| `claim_transfer` | TRANSFER_OWNER "moves `OWNER` to target" (auth README 351) | the messages that a role challenge issues say GRANT_AUTH, and the verify step rebuilds them with TRANSFER_OWNER: a client that signs what it was issued is answered OWNER_SIGNATURE_MISMATCH (`RoleService.ts` 112) |
| `claim_login` | the nonce is burned only together with its outcome (`AccountService.ts` 123) | a wallet with a role but no account of its own commits the nonce, then the handler fails |
| `claim_recovery_insert` | recovery grants OWNER and AUTH (auth README 404) | it fails on a duplicate key when the wallet already holds AUTH |
| `claim_reconnect` | close triggers a reconnect (`BinanceWsAdapter.ts` 109) | not after a failed attempt: `reconnecting` stays true |

The models also contain, without a run of their own:
- a role operation that takes effect after its actor has lost OWNER: the test precedes
  the transaction (auth README 298 requires OWNER);
- a recovery that takes effect after a REMOVE_WALLET has taken its RECOVERY row, for the same
  reason;
- a session that a concurrent refresh inserts after a recovery has revoked the old owner's
  (`RecoveryService.ts` 119);
- two first logins of one wallet with two nonces, which make two accounts (database README
  56, "One logical account per user");
- a GRANT_AUTH that skips its insert for a row that a concurrent revocation deletes;
- two concurrent refreshes of one token that both succeed (the session is looked up and
  revoked in two statements);
- a link challenge for a wallet on another chain than the session's (`chainId` is in its body, auth README 252,
  and is the "chain for the new wallet", `WalletLinkingService.ts` 53): its live nonce ends in
  WALLET_NOT_FOUND, since verifying looks the wallet up on the chain of the session
  (`WalletController.ts` 113), and a new challenge in ADDRESS_ALREADY_LINKED;
- audit pages that skip or repeat rows: they are cut by a random id and ordered by
  time alone, while the comment (`AuditLogService.ts` 37) relies on "createdAt DESC + id for
  stable pagination".

Seen while reading, not modelled: `accounts.recovery_wallet_id` is never
written; `ADDRESS_ALREADY_LINKED` is answered for any wallet that has a row,
linked or not; `/prices` answers `{ticker, freshness}` objects where the README
shows plain tickers.

## 5. What is proved

Proofs are checked by TLAPS (SMT, Zenon, LS4). They hold for any sets of
accounts, wallets, nonces, sessions and request slots, under these assumptions
on the constants: `ChainOf` is a function, there is at least one wallet, `None` is
nothing else (neither a wallet, an account, a session, nor a grant of `SessionGrants`), `Ops` are
operations; for the audit log, ids are positive numbers and `Cap` is at least one; for the market stream, `Upper` is a function, the
exchange lists finitely many symbols, bounds are numbers.

| Theorem | Statement |
|---|---|
| `AuthService_proofs!Invariance` | `Spec => []Inv` |
| `AuthService_proofs!TypeCorrectness` | `Spec => []TypeOK` |
| `AuthService_proofs!OwnerAgreementHolds` | `Spec => []OwnerAgreement` |
| `AuthService_proofs!OneHolderPerRoleHolds` | `Spec => []OneHolderPerRole` |
| `AuthService_proofs!NonceExclusiveHolds` | `Spec => []NonceExclusive` |
| `AuthOutcome_proofs!OutcomeInvariance` | `Spec => [](Inv /\ Staging)` |
| `AuthOutcome_proofs!TriggerStopsOnlyRemovalsHolds` | `Spec => []TriggerStopsOnlyRemovals` |
| `AuthOutcome_proofs!ChangesAreAuditedHolds` | `Spec => ChangesAreAudited` |
| `AuthOutcome_proofs!NonceBurnedWithOutcomeHolds` | `Spec => NonceBurnedWithOutcome` |
| `AuthOutcome_proofs!TransfersNeverCommit` | `Spec =>` no OWNER_TRANSFERRED row is ever logged, and no transfer passes its first consume |
| `AuthOwnership_proofs!ImplementsOwnership` | `Spec => OwnershipImplemented` |
| `AuthSession_proofs!SessionInvariance` | `Spec => [](Inv /\ Staging /\ SessionInv)` |
| `AuthSession_proofs!OneChainHolds` | `Spec => []OneChain` |
| `AuthSession_proofs!ImplementsSessions` | `Spec => SessionsImplemented` |
| `AuditPages_proofs!OnceUnlessInvertedHolds` | `Spec => []OnceUnlessInverted` |
| `AuditPages_proofs!CursorDescendsHolds` | `Spec => CursorDescends` |
| `MarketStream_proofs!TypeCorrectness` | `Spec => []TypeOK` |
| `MarketStream_proofs!RefCountsHold` | `Spec => []RefCounts` |
| `MarketStream_proofs!MirroredHolds` | `Spec => []Mirrored` |
| `MarketStream_proofs!SentInOrderHolds` | `Spec => SentInOrder` |
| `MarketStream_proofs!UpstreamAgreesHolds` | `Spec => []UpstreamAgrees` |
| `MarketStream_proofs!ImplementsSubscriptions` | `Spec => SubscriptionsImplemented` |
| `PriceService_proofs!TypeCorrectness` | `Spec => []TypeOK` |
| `PriceService_proofs!InFlightAgreesHolds` | `Spec => []InFlightAgrees` |
| `PriceService_proofs!BackOnlyBetweenPathsHolds` | `Spec => BackOnlyBetweenPaths` |
| `MarketService_proofs!ImplementsPrices` | `Spec => PricesImplemented` |
| `MarketService_proofs!StreamHolds` | `Spec => [](RefCounts /\ Mirrored /\ UpstreamAgrees) /\ SentInOrder`, of the stream in the service |
| `MarketService_proofs!PricesHold` | `Spec => []InFlightAgrees /\ BackOnlyBetweenPaths`, of the prices in the service |

**The auth invariant.** None of the properties is inductive, because each is
about committed rows and what may be committed depends on what is staged. `Inv`
adds three parts. `Shape` ties a request's position to what its transaction may
hold (an idle slot nothing, a LOGIN no account before its insert, others
an account that exists). `OwnWrites`: a transaction writes rows of its request's
account only, so the trigger, which looks at that account, looks at all
that changes. `KeyClaims`: a staged row conflicts with no row its transaction
leaves in place and with none another transaction has staged. `KeyClaims` is where
the waiting on in-flight keys is needed: with it, a commit cannot publish a
second OWNER or RECOVERY row, although the SELECT that looked for one was stale.
`OwnerAgreement` at a commit is the trigger's condition for the request's
account, and `OwnWrites` for the others. There is one lemma per action.

**Outcomes.** What a commit changes is what its transaction has staged, so the
properties about outcomes need to know what may be staged. `Staging` says it for each
operation and each position in its program: which rows may be deleted, which
inserted, who may become owner, and that a transfer never gets past its first consume.
`TriggerStopsOnlyRemovals`, `ChangesAreAudited` and the steps of the ownership refinement
that use a mandate are read off it, operation by operation, at the commit.
For nonces the corresponding invariant is `HeldFit`: what a transaction has consumed was
issued for its operation, to a wallet that signs for it. A commit burns just
that, and logs the operation. `TransfersNeverCommit` is the reverse side of `claim_transfer`: not only a client that signs
the issued messages, but every transfer is refused, because no nonce is ever issued for one.

**The ownership refinement.** Check, consume and the arrival of a request change
`MandateOf` only; the mandate is taken when the program counter leaves the test, where the
test has just read the committed rows. A commit uses it; a rollback, a rejection or a crash drops it.
Two recoveries may both have a mandate, and the abstract specification allows both to be used.

**Sessions and chains.** `OneChain` is not inductive: what a commit publishes was looked up statements
before, when other rows were there. `Callers` carries it over. Past its check a request's
target is on its caller's chain, and the caller is on the chain of the owner of the account that the request acts
in. The second half has to survive that somebody else changes the owner meanwhile: a recovery
makes its target owner, who is on the chain of the recovery's own caller, and so of the old owner. A first login is the
exception: its account is not in the table yet, no other request is in it (`FreshAccount` sees
what others have staged), and at its commit the owner is the caller. Sessions enter the same
invariant because an authenticated request takes its caller from one.
For the refinement `Opening` adds that a session which a request has opened and not yet handed out is
that of its grant or has ended, and that no other request has opened it; without it a session that
ends while its request is still in flight could be confused with one that reuses its id. Each action of `AuthService` is then a step
of `SessionGrants` or none: a login's look-up or commit is `Admit`, a refresh's start `Renew`, `CreateSession`
is `Open`, the last statement of either is `HandOut`, a failure after the grant `Withdraw`, and
expiry, revocation and every commit that revokes sessions or changes an owner is `End`.

**Audit pages.** No induction over the sorted sequence is needed. Of the sort the proof uses
that it is injective, onto and ordered. From that `PageCut` draws all that matters of a page:
the row that the next cursor names is not newer than the rows of the page, and not older than those that
did not fit. So a matching row with a higher id than the cursor that did not fit is left behind by a row
that overtakes it, and one with a lower id that was shown is undercut by that row and may be shown again.
`WalkInv` says so of the whole walk: a row still ahead of the cursor was shown only if it is
undercut, one behind it was missed only if it is overtaken. The log only grows,
so a row that is overtaken or undercut stays so, and rows that commit late were not there when the walk began.

**The market invariant** is `TypeOK /\ RefCounts /\ Mirrored`: counts alone are
not inductive, since `Disconnect` decrements for the symbols the connection
registry lists, and those are the ones counted only because the registries
mirror each other. The lemmas are about the size of a set that gains or loses one
socket. `SentInOrder` needs `TickersAhead` besides: tickers under way are newer than the
cached one, and in order. `UpstreamAgrees` follows frame by frame: `WillStream`
of a symbol looks at the last frame about it, so that reading the first frame changes
no answer and a new frame changes only that of its symbols.

**The price service.** That a REST answer is never older than the REST answer it
replaces is not visible in one state: `AnswersAhead` adds that while a computed answer
is under way an entry written by REST is not newer than it. It holds because the in-flight map allows
one call per symbol.

**The composition.** That the service behaves as `MarketStream` is a matter of variables: no step of
the price service touches the stream's. `ImplementsPrices` needs that what `HandleTicker` caches is
newer than the stream's previous ticker, the ordering lemmas of `MarketStream_proofs`, which
are cited through an instance, and that an entry written by the stream is still the
stream's last ticker (`Linked`). `StreamHolds` and `PricesHold` draw the conclusion: the theorems about
both components are instantiated, and hold of the service.

**Only model-checked.** Liveness (`RequestsFinish`, `HeldIsStreamed`, `PricesAnswered`, `WalkEnds`)
is beyond the prover. Every safety property that a run checks is also a theorem.

## 6. What is left

Not modelled, with the reason: signatures and tokens (cryptography: a signature is
the purpose of the message it is of, a token is the session it
names); chain configuration, the symbol catalogue and `GET /search` (pure look-ups
and filters in data that never changes); request validation that answers 400 and changes nothing;
the stub services and packages (files of one or two lines). Repositories' methods
that no handler calls (`markUsed`, `revokeAllForAccount`, `delete` and `has` of the cache)
have no behaviour to model.

What could still be added: a run of `recovery_races` with a third slot or a third kind of
request, whose state space outgrows a run of minutes. The theorems cover it.
