# A verification project for YYB-Go-Enhanced

YYB-Go-Enhanced keeps WeChat authorizations alive and hands out login codes to
scripts. This directory models the part of it whose correctness depends on the order of
events: what happens to an account's credentials and sessions while refreshes, scans,
calls and an operator act on it; the three guards (pacing, circuit breaker and login
budget) that keep scripts from getting an account locked out; the one-shot keys that
outlive an authorization; the account and link IDs other things hang on; and the agent
that updates the service. Everything is translated from the source; file names below are
relative to `src/internal/`.

## 1. The system

| component | state | operations | why it is hard |
|---|---|---|---|
| credential lifecycle (`httpapi/keepalive.go`, `httpapi/account_status.go`, `store/account_rebind.go`) | a row of `wechat_accounts` (status, openid, credentials, login buffer), a refresh lock per account | refresh a token (keepalive, on demand), apply its result, change the status, replace the authorization | an upstream call between read and write; rotating one-time tokens; a lost reply or crash spends the only token |
| store (`store/store.go`) | SQLite tables `wechat_accounts`, `sessions` | upsert by identity, compare-and-set on a row snapshot, status writes by ID, delete with cascade, reuse of the lowest free ID | some writes are compare-and-set and some are not; IDs come back for other identities |
| session pool (`protocol/pool.go`) | session rows per (account, route), a lock per route | reuse, log in and store, invalidate | a login takes seconds and is stored for an account that may have changed |
| call path (`httpapi/app.go`, `invokeWXApp`) | none of its own | check status, breaker, pacing; call; record; repair once | checks age while the request queues |
| request pacing (`httpapi/pacing.go`) | per account: next slot and burst counters; settings from `tuning.json` | reserve a slot, wait, prune, reload | the clock is read before the mutex; the table is bounded |
| circuit breaker (`httpapi/circuit.go`) | targets (account, AppID, class) and sessions (account) | check, record, forget | outcomes arrive late and out of order; eviction at 4096 targets |
| login budget (`protocol/login_budget.go`) | per account: recent uses | take, prune, set | as for pacing; asked from three places |
| code recovery (`protocol/code_recovery.go`) | repair attempts, the session that served the last code | recover a refused session once per backoff | two locks, concurrent repairs, a session replaced since |
| native sessions (`protocol/autoauth.go`, `store/native_session.go`) | one-shot AutoAuth key in the session blob | mark, send, rotate | a key must never be sent twice, crashes included |
| authorization links, QR sessions (`httpapi/account_links.go`, `account_link_multi.go`, `quick_login.go`, `qr/`, `store/account_links.go`) | one-time links, QR logins in memory | create, start, poll, confirm, consume | polls race; a link is consumed before the account is written |
| fleets, ID compaction, merge (`httpapi/fleet*.go`, `account_compact.go`, `account_merge.go`, `store/`) | fleet pointers, account IDs, ownership in another database | bind, unbind, renumber, merge | two databases; IDs held by requests under way |
| maintenance (`httpapi/maintenance.go`, `../packaging/maintenance/agent.py`) | cached latest version; the agent's job | check, submit, update, restart, roll back | the request's own process is what gets replaced; commands fail half way |
| AppID policy (`httpapi/appid_policy.go`) | allow and deny lists, learned refusals | check, learn, edit | read without the lock |
| account proxies (`httpapi/account_proxy.go`) | leases by account | resolve, invalidate | a fetch outlives its setting |
| offline notices (`httpapi/offline_notify.go`) | notified authorization per account | claim, send | delivery is asynchronous |

The remaining packages are wire protocol and cryptography, clients of other login
services, script panels, script runs, users, packaging and the sign-in scripts. They are
listed in `PROJECT.json` with the reason they are left out.

How the parts meet: `invokeWXApp` reads the account, asks the breaker, waits in the
pacer, and calls the pool, which reuses or creates a session row. The outcome is folded
into the breaker; a session_only account whose session is gone is expired. A refused code
goes through `RecoverCodeSession`, any other unexplained failure through one fresh ticket
or one forced refresh and a replay, and each of these asks the login budget first. The
keepalive loop and on-demand repair run `refreshAccountOnce` under a per-account lock. Scans,
update links and the operator write the same rows, most of them without that lock; the
row snapshot in the `WHERE` clause of `ApplyCredentialRefresh` and `PutSessionForAccount`
is what keeps the writers apart.

What makes each modelled component correct:

- *credentials*: a withdrawn authorization never comes back without a scan; a rejected
  one keeps no secret; a good one is never withdrawn; the newest token is in the row or
  there is a reason outside the service; a session belongs to the identity of its row; a
  dead authorization is noticed.
- *pacing*: slots of an account keep their distance, whatever the clock readings, the
  table and the settings do; the queue stays short.
- *breaker*: a hold-off lasts until its deadline; a lockout happens on evidence and
  whenever there is evidence; the table is bounded and protects whom it can.
- *budget*: no more OAuth-layer calls in any window than the limit, up to the delay.
- *sessions and recovery*: a one-shot key is sent once and its successor is not lost to
  another request; a session is stored only for its authorization; a repair is skipped only
  for a session that works, and held off only by one that was made; every request returns.
- *links and IDs*: a link stays with the account it was made for and serves once; an
  update replaces the account the link names; renumbering keeps owners.
- *maintenance*: one job at a time, which ends, tells the truth and never downgrades.

## 2. Modules

| module | models |
|---|---|
| `AuthorizationRegister` | abstract: what an account slot promises about its authorization (granted by a scan, renewed one rotation at a time, withdrawn for good) |
| `CredentialRefresh` | one account slot: `refreshAccountOnce`, scans, update links, deletion, the operator, protocol logins, session expiry, revocation, crashes; refines `AuthorizationRegister` |
| `CredentialRefreshProofs` | its inductive invariant, every safety property, the refinement, how far a refresh is from its end |
| `Pacer`, `PacerProofs` | `accountPacer` and `paceWXApp`; its invariant and every property of it |
| `CircuitBreaker`, `CircuitBreakerProofs` | `circuitBreaker` and its use by `invokeWXApp`; its invariant and every property of it |
| `LoginBudget` | the sliding window of `loginBudget` for one account |
| `CodeSession` | one account and route: `GetCode`, the other data requests, `RecoverCodeSession`, the one-shot key and the repairs of `invokeWXApp`; extends `LoginBudget`, refines `SessionCell` |
| `SessionCell` | abstract: what the store promises about the one session it keeps for an account on a route (taken once, in the order of issue, from its own authorization or its spent predecessor; a spent key stays spent; a restricted account loses it only as a whole) |
| `CodeSessionProofs`, `SuccessorProofs`, `CellProofs` | its invariants and all its safety properties; the refinement of `SessionCell`; bounded retries and the locks |
| `AccountLinks`, `AccountLinksProofs` | the account, link and ownership tables: link life, `confirmAccountLinkQR`, deletion, ID reuse, compaction over two databases; every property of it |
| `Maintenance`, `MaintenanceProofs` | the version check, the request to the agent, the agent's job; its invariant and safety properties, how far a job is from its end |
| `MC*` | instances for TLC |

### CredentialRefresh

| variable | code |
|---|---|
| `row` | the row of one ID in `wechat_accounts`; `absent` when there is none |
| `row.cred` = `[scan, seq]` | the credentials JSON: the scan that granted them (`refresh_token_observed_at`) and how often they were rotated. `seq = 0`: no refresh token |
| `row.buffer` | the rotation the login buffer was fetched with, 0 for none |
| `sessions` | the `sessions` rows of that ID, by route |
| `server` | WeChat: the rotation it accepts, per scan; 0 before the scan and after a revocation |
| `lock`, `pc`, `snap`, `verdict` | `refreshLockFor(id)`; where a goroutine is in `refreshAccountOnce`; its `latest` (later `saved`) row; the status of a failed refresh |
| `cpc`, `csnap` | protocol calls under way and the account they were called with |
| `operator` | `handleAccountStatus` between its check, its write and its cleanup |
| `lost`, `touched` | history: tokens whose successor never reached the store; tokens under which the operator set a status |

One action per step between two points where another goroutine may act: each upstream
call and each SQLite statement or transaction. `ExchangeReplyLost` is a rotation whose
answer never arrives; `SaveFails` a failed or timed-out write; `Crash` drops locks and
requests and keeps the database. Compare-and-set writes test `Unchanged(snap)`;
`MarkUnknown` and `SetAccountStatus` write by ID, as the code does. `Scan` takes no lock
and leaves the sessions; `UpdateFromLink` takes the refresh lock and drops them.
`MarkFails` is a status write that fails after a failed refresh (`keepalive.go:285`),
`OperatorFails` a status write or purge of the operator's that fails, `LookAgain` the second
reading of the account before a login (`pool.go:352`).

Abstracted: which refreshes are due and backed off (one may start whenever the row
allows it), devices and proxies, profile columns, events and notices. Whether a session
is reusable is its presence; `SessionLapses` is the passing of its key's deadline.
`KeepsMarker` distinguishes channels whose marker survives a wipe (`keepChannelMarkers`):
there the wiped credentials are not `NULL`, so the refresh meets `ErrMissingRefreshToken`
instead of the missing-credentials branch. `KeptAlive` says whether the keepalive loop visits the
account: not when the loop is off (interval 0, `keepalive.go:35`), and not in proxy mode `api`
(`keepAliveShouldSkip`, `keepalive.go:128`); then a refresh is only ever made on demand.

### Pacer

`ReadClock` is the `p.now()` before the mutex, `Claim`, `Refuse` and `Unpaced` what
happens under it, `Start` and `Cancel` the end of the wait. `queue` is the account table,
`busy` stands for `waited + refused > 0`, `due` is history: the last slot plus its gap.
`Reload` is an edited `tuning.json`, at any time.

### CircuitBreaker

`Check` lets a request through; `Succeed`, `Refused` and `Drop` are the outcomes
`recordCircuitOutcome` distinguishes; `Forget` is a scan, an update link or an operator's
expiry. The session map is total: an account without an entry has an empty one, which
behaves alike. `Room` is the set of tables the lookup may leave, one for each oldest
closed target when several are equally old (Go's map order). `rejected` is history: the
newest -14 per AppID since the account's slate was last clean.

### CodeSession and LoginBudget

| variable | code |
|---|---|
| `acc` | the account row: which authorization (`auth`) and its status |
| `row` | the `sessions` row of one route: `id` names the session and the key that came with it, `live` its PSK deadline, `spent` the key's `AttemptedAt`, `owner` (history) the authorization whose ticket opened it |
| `codeLock`, `stateLock` | `codeLockFor(account)` and `lockFor(account, route)`, always taken in this order |
| `verified`, `repairs` | `Pool.verified` and `Pool.codeRepairs` of this route |
| `pc`, `mode`, `round`, `again` | where a request is; inside `GetCode` or `RecoverCodeSession`; first call or replay; its one retry used |
| `snap`, `hand`, `base` | the account a request was called with, the session it works on, the row its next compare-and-set must find |
| `uses`, `refusing` | the account's entry in the budget table |
| `sent`, `served`, `grants` | history: how often a key went out, when a session last returned a code, when the budget said yes |

The steps follow the code between two points where another goroutine may act: a lock, a
statement, an upstream call. `Consume`, `SendKey`, `KeyReply` and `SaveKey` are the life of a
one-shot key; a reply may be lost, refused or come without transport keys. `Discard`
(`app.go:1604`) deletes the row without any lock of the pool. `Writable`, `Replaceable` and the
condition in `Drop` are the `WHERE` clauses of the three writes of sessions. A request that was
not session_only is repaired by `invokeWXApp` once: a fresh ticket after a -10, a forced
refresh after an error nobody recognises, of a login as of a use. `Reauthorize` is a scan or an
update link at any time, `BackgroundRefresh` the keepalive loop, `Crash` a restart: the store
stays, the pool and the budget are new.

Abstracted: one route, without the direct fallback; failing statements of the database; the
semaphore over concurrent logins; a refresh is one step (its steps are `CredentialRefresh`'s);
the PSK deadline passes only by invalidation, since a session found too old and one that was
invalidated take the same path; WeChat never issues the same key twice; the settings do not
change. `HasResidue` says whether a refused authorization leaves its scan time in the
credentials column: without it two refused authorizations look alike to `SameAuthorization`,
which is the harder case and the one checked; the proofs are for both.

### AccountLinks

`account`, `link` and `linkSeq` are the tables `wechat_accounts`, `account_links` and its
row of `sqlite_sequence`; `owner` is `account_owners` in the other database. `Check` to
`DropLink` are the stretches of `confirmAccountLinkQR` between two statements of either
database; `req` is what a request has read. `Plan`, `RemapOwners`, `CompactRows`,
`RowsFail` and `Undo` are `handleAccountCompact`.

Making a link is `Resolve` (the account is looked up, `httpapi/account_links.go:171`),
`ReadLinkOwner` (`:193`, for an administrator), `PurgeFirst` (`:217`), `List` (`:221`) and
`Insert` (`:248`); `make` holds what the request has read. `accountLinkMu` is held from the
purge to the end and keeps other makers out, and nobody else: accounts may be deleted, added or
renumbered and links revoked or consumed between any two of these steps. A purge, a revocation
and the deletion of a used link are a `DELETE` and then, without a transaction, the rewinding
of the ID sequence, itself a `SELECT` and a write (`SelectMax`, `WriteSeq`,
`store/account_links.go:135`); `reclaim` is where a process is in it. A link inserted in
between leaves its ID above the sequence; `NextLink` is what SQLite then hands out. `linkSeq =
0` is a record that is 0 or gone: the write of another process updates it or finds nothing to
update.

`born` and `home` are history: they number insertions of accounts and say which one a link
pointed to when it was inserted. Ownership records of deleted accounts stay, as in the code,
and `Init` allows any.

Abstracted: links for one channel only; scans outside links; the refresh lock an update
waits for (`CredentialRefresh` has it); leases and retry state.

### Maintenance

`Ask` and `Answer` are `handleMaintenance` in the service, which dies with its container
(`Replace`); `Submit` and the phases of `run` are the agent's `submit` and `execute`. An
image is its version. `Release` moves the main branch ahead and the image behind its tag
after it; a version source may lag behind. Any command may fail, those that poll the
container's health included; a failed `compose up` leaves the old container or none running.
`Crash` ends the agent with its threads.

Abstracted: what the operator does with Docker by hand, a killed command that takes effect
later, the page itself.

## 3. Runs

| run | question | size |
|---|---|---|
| `credential_refresh` | all safety properties and the refinement, with two identities, two refreshes, one call, one route, two scans, three rotations, one click | bounds below |
| `credential_liveness` | a dead token is noticed | one identity and one refresh |
| `session_only_revived` | finding 1 | |
| `rescan_keeps_sessions` | finding 2 | |
| `pacer` | spacing and queue length: three callers, two accounts, a table of one, three settings | clock to 5 |
| `circuit_breaker` | the session layer: one account, two AppIDs, three targets | clock to 6 |
| `breaker_table` | the full table: four targets of two accounts in two slots | clock to 5 |
| `success_keeps_targets` | finding 3 | |
| `code_session` | keys, successors, backoffs and ownership of sessions, and the refinement of `SessionCell`: one code request and one data request, a re-authorization, a restart | 2 sessions, clock to 2 |
| `code_locks` | two code requests for one AppID: the budget with two logins to a window, skipped repairs, and every request returns | 2 sessions, clock to 2 |
| `account_links` | links, IDs and owners under two confirmations, the making of links, revocations, purges, deletions and a compaction | 3 IDs, 2 links |
| `maintenance` | two requests to the agent | 3 versions |

What each property says:

- `SessionIdentity`: a stored session belongs to the row's present identity, across
  deletion, ID reuse and relinking.
- `RejectedHoldsNoToken`: expired and session_only rows hold neither token nor buffer.
- `TokenAccountedFor`: the row's token is the newest unless WeChat revoked it, its
  successor is about to be saved or was lost, or the operator changed the status under it
  (which makes the refresh discard its result).
- `WithdrawsOnlyDead`: a refresh withdraws only an authorization that is dead.
- `NoRevivalWithoutScan`: a wiped token comes back only with a scan.
- `RegisterSpec`: the row implements the abstract register.
- `DeadTokenIsNoticed` (liveness): where the keepalive loop visits the account, a
  usable-looking row with a dead token does not stay so.
- `SlotsSpaced`, `TrackedSlotsExact`: slots keep the gap up to the delay of a clock
  reading; exactly, for an account that is in the table.
- `QueueShort`: the callers ahead of their slots fit into the longest wait.
- `TargetHolds`, `SessionHolds`: a hold-off is not shortened but by a success or a new start.
- `LockoutJustified`, `LockoutNotMissed`: an account is held off on, and upon, rejections
  of enough distinct AppIDs within the window.
- `TableBounded`, `RefusedIsTracked`: the table keeps its limit, and a refused target is
  tracked unless every slot is holding requests off.

- `WithinBudget`: any `Limit + 1` grants span a window, up to the delay of a clock reading.
- `KeySentOnce`: no one-shot key goes upstream twice, restarts included.
- `SuccessorHasAPlace`: between the spending of a key and the save of its successor nobody
  takes away the row to be replaced, unless the account changed hands or status.
- `StoredForItsAuthorization`: a new session in the store belongs to the stored
  authorization, or continues the session it replaces; never for an expired account.
- `BackoffWasGranted`: a repair backoff stands only if the budget granted that very repair.
- `SkipsOnlyWhatServed`: a repair is skipped only if the session stored at that moment has
  returned a code within the fresh-session window.
- `CellSpec`: the stored session is a cell of `SessionCell`: a session enters it at most
  once, the newest one, opened by the present authorization or in place of the spent one it
  succeeds; a spent key never becomes usable; a restricted account is left without a session
  only when it expires, and an authorization that is refused leaves a restricted account only
  if the session can still be used.
- `RequestsReturn` (liveness): every request returns.
- `LinksPointHome`: from its insertion on a link points at one and the same account, across
  deletion, reuse of IDs and renumbering.
- `AddsWithinLinks`: no more accounts are added than links were made.
- `UpdatesItsOwnAccount`: an update link writes only to the account it was inserted for, while
  that account has the identity that was looked up when the link was asked for, and this
  link is unused.
- `OwnedStayOwned`: a compaction that nothing else runs into, completed or taken back, keeps
  every owned account with its owner, whatever stale ownership records there are.
- `OutcomeIsTrue`: what the agent says of a job holds when the job ends.
- `NeverOlder`: only the rollback of a failed update installs an older image than runs.
- `JobEnds` (liveness): a job ends and the agent takes the next one.

**Bounds and why they suffice.** `MaxScan = 2` lets one authorization be replaced by
another while work on the first is under way; a third adds nothing a stale snapshot could
be confused with. `MaxSeq = 3` gives a rotation after a rotation, so that a stale save has
a newer token to destroy. Two identities make ID reuse and relinking visible; two workers
make the lock matter; one call and one route are enough for a stale login, because calls
meet only in the session row. `MaxClicks = 1`: the operator's writes do not build on each
other. In `Pacer` a table of one makes every second account a newcomer to a full table;
`MaxLag = 1` is a delay of one tick between clock reading and mutex, `MaxTime` covers two
full gaps. In `CircuitBreaker` the thresholds are scaled to two rejections or one empty
code for a target and two AppIDs for a session, with windows of two and three ticks, so
that opening, the deadline, lapse and reopening all happen within the clock bound.
`Workers`, `OpenIDs`, requests, callers and accounts are interchangeable and used as
symmetry sets in safety runs only; the liveness runs use none.

In `code_session` a code request and a data request are the two kinds that share a row; the
first takes both locks, recovers and discards, the second takes the state lock, and each can be
in the middle of a rotation, a login or a repair while the other acts. Two sessions are a
session and its replacement or successor, two authorizations a stale snapshot, two ticks a
window and a backoff that end. The proofs are for any number of requests. `code_locks` has two
requests that compete for the code lock, so that one can replace or invalidate what the other
had verified. Its budget allows two logins to a window, with readings one tick late
(`code_session` has one login and no delay): the record of uses holds two entries, out of order
too, the front expires while the other stays, and a full table prunes by the last of them. To
pay for that it starts from an account in order whose session has a spent key (`InOrder`), has
one authorization and no restart; `code_session` has the others. In `account_links` three IDs
let a freed low ID be reused and a compaction move two accounts, the two links share one ID in
turn, one user is an owner as against none, and `births` needs no bound because accounts are
added by links only. Two confirmations, one maker and one cleaner (the purge timer, or a
revocation) are there, of whom the constraint `TwoAtATime` lets two requests be under way at
once; a rewinding of the sequence runs beside the maker, which is whom it can disturb; and a
compaction runs beside one request, the making of the first link or its confirmation. The
proofs are without the constraint. In `maintenance` three versions are an old, an installed and
a newer one, and two requests the job and its rival.

**Fairness** (`FairSpec`). `DeadTokenIsNoticed` rests on these assumptions, of which the first
two are about the code and its settings and the others about its surroundings:

- the keepalive loop runs (`KeepAliveInterval > 0`, the default is two minutes; with 0
  `startKeepAlive` returns, `keepalive.go:35`) and visits the account, which it never does in
  proxy mode `api` (`keepalive.go:128`). The property says so itself (`KeptAlive`); for other
  accounts the code promises nothing until a request meets the dead token, and the run has
  `KeptAlive = TRUE`. Where it visits, it starts refreshes again and again, once the
  token is due and its backoff is over: weak fairness of `KeepAlive`. A refresh on demand is
  under no fairness.
- a worker that is inside a refresh goes on: weak fairness of `Proceed`; every request and
  statement in it has a timeout;
- a token that WeChat refuses is refused with a definitive code again and again, and not
  hidden behind transport errors, failing lookups of the route or settings or the database for
  ever: strong fairness of `ExchangeRejected`;
- the status that says so can be written now and then: strong fairness of `Withdraws`.

The liveness run leaves out `Crash` (a service
that restarts for ever promises nothing) and has `KeepsMarker = TRUE`. The other
channels' rows without any credentials are only marked unknown, which is not the subject
of the property. Its behaviours end when the bounds on scans and rotations are reached
and nothing is left to refresh, so deadlock is not checked there.

`RequestsReturn` assumes weak fairness of every step of a request (`Fairness` in
`CodeSession`): sockets, locks and statements carry the deadline of the request
(`app.go:1489`), and a lock that is free is handed to a waiter. Weak fairness is enough
because a request passes at most two locks, each of which other requests, of which there
are finitely many, take a bounded number of times. `JobEnds` assumes weak fairness of the
steps of a running job, whose commands and waits all have timeouts (`agent.py:26`, `:83`), and
that the thread of an accepted job starts: when it cannot be started (`agent.py:71`, a host
out of threads) the job stays marked running until the agent is restarted, since nothing but
the thread takes the mark back. `NeverOlder` assumes that the published tag never goes back to
an older image (`Release`).
Requests in `code_session`, confirmations and page requests may end for good, so deadlock
is not checked in these runs.

**Findings.** Three statements of the documentation that the code does not keep, each a
run that ends in a counterexample:

1. *session_only turned back by hand.* `handleAccountStatus` checks for session_only
   (`account_status.go:35`) and writes by ID later (`:39`). A refresh in between makes the
   row session_only, and the click makes it alive, without a token.
   `docs/credential-session-layers.md:12` rules this out.
2. *A rescan keeps the old sessions.* `UpsertAccount` (`store.go:477`) leaves them;
   `docs/native-autoauth-recovery.md:14` says a rescan clears them.
3. *A success clears one target.* `circuit.go:49` and
   `docs/code-circuit-breaker-20261101.md:34` say both layers of the account;
   `circuit.go:188` deletes the target that succeeded and the session.

Also met while modelling, without a run: `docs/code-circuit-breaker-20261101.md:56` says a
full table takes no new targets, while `targetLocked` evicts the least recently active
closed one; requests that passed the breaker and queue in the pacer go upstream although
it has opened since; and a clock reading folded in late overwrites newer stamps, which is
why `LockoutNotMissed` has a slack of twice the delay.

Further, in the parts added later, each visible in the model and none promised away by a
document unless noted:

- `app.go:1604` deletes the stored session before the forced refresh. If WeChat then refuses
  the authorization, nothing is left that could make the account session_only, so it
  expires, although `docs/credential-session-layers.md:11` says session_only keeps a usable
  PSK or native material.
- A renumbering that fails in the account database undoes the ownership with the request's
  own context and drops the error (`account_compact.go:87`); a crash in between, an account
  created or deleted meanwhile, or ownership records of deleted accounts (which
  `DeleteAccount` leaves, `store.go:938`) leave owners misplaced. `OwnedStayOwned` therefore
  speaks of a compaction nothing else runs into.
- A link may be inserted on another account than the one that was asked for: the account is
  looked up at `httpapi/account_links.go:171`, its owner at `:193`, and the link is inserted at
  `:248`, by ID, while nothing holds off a deletion whose ID is given to another account, or a
  compaction. An update link made that way names the identity of the old account, so no scan
  updates anything through it (`UpdatesItsOwnAccount`) unless that identity is at that ID again;
  an add link takes the proxy settings, and through `:193` the owner, of the other account.
  `LinksPointHome` therefore speaks of a link from its insertion on.
- `RevokeAccountLink`, `DeleteAccountLink` and the purge rewind the link sequence in statements
  of their own (`store/account_links.go:135`), so a link inserted in between has an ID above it.
  SQLite goes by the larger of the two, and no ID is handed out twice at a time.
- `ConsumeAccountLink` and `DeleteAccountLink` match the link's ID alone, and IDs of links
  are reused (`account_links.go:135`), so a link made meanwhile can be reserved or deleted in
  place of the one that was read. `UpdateAccountFromLink` tests the token as well.
- Whether an account existed is read before it is stored, and a failed claim deletes an
  account that did not; that may be another confirmation's by then. A claim that loses
  against another reports success (`auth/store.go:559`).
- The outcome of the replay after a forced refresh (`app.go:1623`) is not folded into the
  breaker.
- The agent remembers the last `request_id` only: a repeat of an older one runs again.
- A data request of a session_only account looks for a session without the state lock
  (`pool.go:325`). While another request exchanges the session's key, the key is marked spent
  and its PSK may have lapsed; the data request then takes the session for gone and expires
  the account (`app.go:1530`), and the successor that arrives a moment later is lost. The
  cell allows it: `GiveUp` may happen while a successor is in flight.

## 4. Proofs

`CredentialRefreshProofs` proves, for every value of the constants, `TypeOK`,
`SessionIdentity`, `RejectedHoldsNoToken`, `TokenAccountedFor`, `WithdrawsOnlyDead`,
`NoRevivalWithoutScan` and the refinement `RegisterSpec`. The assumptions are the
module's: `None` is no identity and no worker, and the bounds are natural numbers.

The argument. `TokenAccountedFor` is not inductive: to see that a refresh may save the
successor it holds, one must know that the worker at `save` holds the lock and that WeChat
accepts exactly that successor or nothing. `IInv` adds
`RowInv` (a token belongs to a scan that has happened, so a new scan is never mistaken for
an old one), `LockInv` (the lock holder is the one worker inside), `WorkerInv` (what a
worker knows at each place: the rotation upstream while it saves, the rejection behind its
verdict), `TouchedInv` (while a worker holds the lock, a row that differs from its
snapshot and still has its token was changed by the operator), `ClientInv` and
`SessionInv`. Lemma `RowEffect` classifies once what any step can do to the row (a scan, a
renewal, a withdrawal, a status change, nothing) and the other step lemmas, the action
properties and the refinement use that classification instead of the actions.
`RefreshesAdvance` is the part of `DeadTokenIsNoticed` that can be proved: a refresh is at most
five steps of its worker from handing its lock back, nobody else takes it back a step, and
the lock stays its own until then.

`PacerProofs` proves `TypeOK`, `SlotsSpaced`, `TrackedSlotsExact` and `QueueShort` for any
number of accounts and callers, any settings and table size. The invariant says that the table
is exact about the accounts it holds, that forgotten accounts have no slot ahead of the clock,
and that clock readings are at most `MaxLag` old. The bound `MaxLag` is what the delay term of
`SlotsSpaced` comes from. For `QueueShort` the invariant `Spread` says that slots ahead of the
clock are a gap apart and within the wait; that so many fit is lemma `SpacedFit`, which counts
by an injection of the gaps into the wait instead of by induction.

`CircuitBreakerProofs` proves every property of `CircuitBreaker` (the refuted claim aside) for
any targets, requests, thresholds, windows and table size. `ConfigAssumption` asks only that
the settings are positive numbers, `KeysAssumption` that a target is its account, AppID and
class; the sets of accounts and AppIDs may be infinite. The table's invariant is that it is
finite and bounded; that an eviction always finds a closed target unless all are open needs a
least element of a set of naturals, which `LeastRecent` gets from the well-founded order of
finite sets. The session layer's invariant compares what it remembers with the ghost
`rejected`, in both directions: what it counts has been rejected (`RecentBacked`), which proves
`LockoutJustified`, and what has been rejected is remembered with a reading at most `MaxLag`
older or is out of the window (`RejectedRemembered`), which proves `LockoutNotMissed`; its `2 *
MaxLag` is one delay for the remembered reading and one for the reading of the rejection that
prunes. Lemma `RefusedFolds` reduces a refusal to what it does to the table and to the slate,
and the other proofs use those effects.

`CodeSessionProofs` proves, for any number of requests, sessions, authorizations, ticks and
restarts, `TypeOK`, `WithinBudget`, `BackoffWasGranted`, `KeySentOnce` and
`StoredForItsAuthorization`. `BudgetInv` relates the recorded uses to the real grants: each
remembered use is one of the last grants, recorded with a reading at most `MaxLag` older,
and whatever was forgotten is out of the window. `KeyInv` says who may still send a key: an
unspent key of the store was never sent, and a request that is about to send one has spent
it in the store, alone. `OwnInv` says what a request at each place knows of the session in
its hand.

`SuccessorProofs` proves `SuccessorHasAPlace` and `SkipsOnlyWhatServed`. The first needs four
facts at once: the state lock excludes (`LockInv`), a request's snapshot is no newer than the
account (`SnapInv`), a `Discard`, which takes no lock, belongs to an authorization that was
alive and so cannot have the credentials of a session_only account whose key is being
rotated (`DiscardInv`), and the rows a rotation and an invalidation expect are the stored
ones (`PlaceInv`). The second follows from `VerifiedInv`: what `Pool.verified` names has
served at that time.

`CellProofs` proves that `CodeSession` implements `SessionCell` for any number of requests,
sessions, authorizations and restarts (`CellHolds`). The cell's `inflight` is the session the
holder of the state lock has in hand and not yet stored (`InFlight`), so the locking is part of
the proof: two sessions on their way at once would have no place in the abstract state. Besides
the invariants above it needs that an expired account has no session (`EmptyWhenExpired`), that
only a restricted account is expired for want of one (`Expiring`), that an invalidation is
about to leave a key or has an account that can log in again (`Dropping`), that a request
remembers a row only from its read to its write (`Based`), and that what a key's successor
replaces is spent (`Replacing`).

The same module proves the safety part of `RequestsReturn`. `RetriesHold`: a request has a
rank of at most 300, made of the retries it has left, of the round it is in and of its place
in it; each of its own steps lowers the rank, and no step of another request, of the account
or of the process raises it, so the retry in `pool.go`, the recovery and the replay of
`invokeWXApp` cannot feed one another. `LocksHold`: each lock belongs to exactly the request
inside its section, on every way out. `NeverAllWait`: of the requests under way one waits for
no lock. What remains of `RequestsReturn` is that a request that can move does,
which is the fairness TLC checks it under.

`MaintenanceProofs` proves `TypeOK` (with the one thread of a running job), `OutcomeIsTrue`
and `NeverOlder`, for any number of requests and versions: only the thread of the running
job touches the container, so what it has read of it stays true until it ends.
`JobsAdvance` is the same for `JobEnds`: each step of a job's thread leads to a later phase,
of which there are seven, and nothing else, a repeated submission included, takes it back.

`AccountLinksProofs` proves `TypeOK` and every property of `AccountLinks` for any numbers of
IDs, links, requests and users, and without the constraint of the run. Lemma `TableSteps`
classifies what a step does to the two tables (nothing that matters, an account removed with
its links, one inserted at a free ID, a link inserted, everything renumbered), and the first three
properties are proved over those five cases. `LinksPointHome` is inductive with the types:
a link's home is the birth of an account that is there. The types are inductive with the
bound of link IDs by the links made: the sequence is only ever set to an ID that some link
had when it was read, so neither it nor `NextLink` gets ahead of that number, whatever is
inserted or deleted between the statements of a rewinding. `UpdatesItsOwnAccount` needs
`Tokens`: no two links have one token, and whoever finds a link by the token a request has
read finds one with the home that request has read, although its ID may be another's by now.
`AddsWithinLinks` follows from `Budget`: accounts added, requests that have reserved a link
and have not stored yet, and unused links together never exceed the links made.
`OwnedStayOwned` follows from `OwnersFollow`, which says where the owners found by `Plan`
are while nothing disturbs the compaction: at the accounts' IDs, and once the ownership
database has moved, at their ranks. That the records follow, and go back, whatever stale
records there are, are lemmas `RemapForward` and `RemapBack`; both rest on `RankFacts`,
that renumbering keeps the order of the accounts and moves none of them up.

Only model-checked: `DeadTokenIsNoticed`, `RequestsReturn` and `JobEnds` (liveness under
fairness, and what depends on `ENABLED`, is out of the prover's reach; the ranks that bound
the steps of a request, a refresh and a job are proved, see above). No module uses
recursive operators; what a recursive definition computes for every input could not be
proved with the provers at hand, induction being out of their reach.

## 5. What is left

In this order:

1. The rest of `AccountLinks`: links for several channels, fleets and their repair, merge.
2. `ProxyLease`, `AppIDPolicy`, offline notices, as small modules.
3. The direct fallback of the pool, a second route with its own row and lock.

## 6. Not modelled

- Wire protocol and cryptography: nothing to check without modelling bytes.
- The clients of other login services and of script panels: the state they act on lives
  outside the repository.
- Script runs, users, settings pages, logs: files, processes and listings without
  interleavings that matter.
- `src/scripts`: by lines, most of the repository. They are some two hundred stand-alone
  sign-in programs, each a fixed sequence of requests to one site, with the site's
  signatures and messages. They keep no state that another part reads, do not run together,
  and their result is whatever the site answers, so a model of one would restate its text.
  What they ask of the service, a code for an AppID, is the request of `CodeSession`. The
  model is therefore of the service and its agent, and covers only a small share of the
  repository's lines.
