# Stellar Deepdive: specifications, model checking and proofs

This directory holds TLA+ specifications of the parts of Stellar Deepdive whose
correctness depends on order, concurrency or failure: the Soroban contracts that
govern and record analytics snapshots, the backend pipeline that gets a snapshot
from the database to the ledger, the circuit breaker and the HTTP rate limiter
of the backend, and, of the frontend, the notifications over their WebSocket and
the API keys page over the wallet session and the backend's table. Each
component has a module, a small instance that TLC checks (`MC*.tla`, `MC*.cfg`)
and a module of theorems that TLAPS proves (`*Proofs.tla`); the breaker and the
rate limiter share theirs, `BackendGuardProofs`. `PROJECT.json` names, for every
definition, the source lines it models.

    tlc -workers 2 -config MCGovernance.cfg MCGovernance
    tlapm GovernanceProofs.tla

## 1. The system

A Rust backend (axum, sqlx, Redis) collects ledgers, payments, trades and prices
from the Stellar RPC and Horizon endpoints, computes corridor and anchor metrics,
and serves them over REST and WebSocket to a Next.js frontend. For every epoch it
aggregates a snapshot, hashes it, stores it, and submits the hash to a Soroban
contract, so that anybody may later check that the numbers were not altered. A
governance contract may administer the analytics contract by votes.

The backend crate in this repository is incomplete (`backend/KNOWN_ISSUES.md`):
`services/contract.rs`, the ingestion modules, the webhook dispatcher and the
snapshot schema are referred to and absent. What is modelled is the code that is
here; the one absent module the core needs, the contract service, is modelled
from its uses and marked external.

### Components

| Component | State | Operations | What makes it correct |
|---|---|---|---|
| **Governance contract** `contracts/governance` | admin, quorum, voting period, proposal counter; per proposal its record, its ballots, four counters, its parameter action | initialize, create_proposal, create_parameter_proposal, vote, finalize, mark_executed | one ballot per account; counters equal ballots; decided once, after the deadline; executed only when passed |
| **Analytics contract** `contracts/analytics` | admin, latest epoch, map of snapshots, paused, governance address | initialize, submit_snapshot, set_admin, pause, unpause, set_governance, the two governance entry points | append-only in epoch order; latest epoch agrees with the map; a pause freezes the ledger; governance acts through proposals |
| **Snapshot contract** `contracts/snapshot-contract` | admin, stopped, paused, metadata, latest epoch, snapshots | initialize, stop/resume, transfer_admin, upgrade, submit_snapshot, pause/unpause, verifying readers | readers agree, an answer once given stands, switches hold, only the admin writes (documented, see section 5) |
| **Snapshot pipeline** `backend/src/services/snapshot.rs` | the snapshots table; per request, the await it is at | generate → store → submit → wait two seconds → verify | verified means anchored; anchored means stored; requests end |
| **Circuit breaker** `backend/src/rpc/circuit_breaker.rs`, `with_retry` in `rpc/error.rs` | Closed(failures), Open(since), HalfOpen(successes) behind a mutex; per caller its loop | is_open, on_success, on_failure, retry with backoff | an open circuit keeps its opening time, only a success closes it, calls return, it recovers |
| RPC rate limiter `rpc/rate_limiter.rs` | tokens, queue length | acquire | no task waits for ever; the queue's bound holds |
| **HTTP rate limiter** `rate_limit.rs` | one Redis counter per client and endpoint, in-memory fallback | GET, INCR, EXPIRE, fallback under a lock | the limit is exceeded by no more than the requests under way; a limit reached is lifted again |
| **WebSocket hook** `frontend/hooks/useWebSocket.ts` | socket, reconnect timer, connection state | connect, disconnect, the effect of every render, socket handlers | one live socket, and none after the component is gone |
| **Notifications** `frontend/contexts/NotificationContext.tsx`, `hooks/useLocalStorage.ts`, `components/notifications` | list, preferences, localStorage, clean-up timer | show, dismiss, mark, clear, batch delete, update preferences, clean-up | muted categories stay silent; nothing removed returns; the list is cut to its limit |
| **Wallet session** `frontend/components/lib/wallet-context.tsx`, `wallet-connect.tsx` | address, what is awaited | connect, disconnect, logout, reload | read by the keys page |
| **API keys** `frontend/app/[locale]/developer/keys/page.tsx`, `lib/api-keys.ts`, `backend/database.rs` | rows shown, dialog, requests under way; the table `api_keys` | list, create, rotate, revoke | a replaced key is dead; only its owner revokes a key; the page does not stay loading |
| SEP-10 and refresh tokens `auth/sep10.rs`, `auth.rs` | challenges, sessions and refresh tokens in Redis | challenge, verify, refresh, logout | a challenge is used once; logout ends the session |
| WebSocket server `websocket.rs` | connection and subscription maps, two tasks per connection | connect, subscribe, broadcast, clean-up, shutdown | a closed connection leaves nothing behind |
| WebSocket client `frontend/src/lib/websocket.ts` | socket, reconnect timer, manual-close flag, subscriptions | connect, disconnect, close event, reconnect | imported by nothing |
| Dashboard refresh `frontend/hooks/useDataRefresh.ts`, realtime feeds | countdown and refresh timers; last messages | automatic and manual refresh | one loop, and none without a page |
| Aggregation jobs `services/aggregation.rs`, `jobs/scheduler.rs` | job rows: status, retry count | start, complete, fail, retry | every job ends completed or failed |
| Shutdown `shutdown.rs`, `main.rs` | phases with timeouts | signal, drain, close | no task uses a closed database |
| Response cache `cache.rs`, `cache_middleware.rs` | Redis keys with a time to live | get_or_fetch, invalidate | no value older than the last refresh outlives it |
| Price feed `services/price_feed.rs` | cache of prices | get_prices | every asset gets its own price |
| Registry, access control, secure contract, deepdive contract | owned entries and a counter; roles and permissions; a ledger | as named | counters equal contents; roles gate writes |
| Alerts, webhooks, detectors, REST handlers, analytics algorithms, observability, frontend pages | rows and configuration | queries and inserts | input and output; see section 9 |

### How they interact

- Governance → analytics: `mark_executed` calls `set_admin_by_governance` or
  `set_paused_by_governance` on the proposal's target inside its own transaction;
  a panic there rolls both contracts back.
- Backend → snapshot contract: `SnapshotService` submits a transaction through the
  contract service, sleeps two seconds and reads back
  `verify_snapshot_at_epoch`. The ledger and the database share nothing else.
- Everything that calls RPC or Horizon goes through one `CircuitBreaker` inside
  one `with_retry`, behind one rate limiter.
- Jobs and REST handlers share the Redis cache; jobs push to the WebSocket server.
- Every HTTP request passes the rate limiter, several at a time.
- In the browser, components share state through React contexts: the notification
  provider renders whenever its list, its preferences or the state of its socket
  changes, and each render closes and reopens the socket. The keys page reads the
  address of the wallet context and sends it with every request.

### Where it is hard

Interleaving: several generate requests for one epoch, tasks that hold an
admission of a breaker whose state has since changed, contract calls by admin,
governance and others in any order. Failure: a crash or a dropped handler future
between two awaits, a transaction repeated, late or lost, a target that refuses a
cross-contract call. Renders: handlers, timers and callbacks keep what their
render saw, updates wait for the next render, and two requests of one page
overtake each other while the wallet changes. Boundaries: `now == voting_ends_at`,
a quorum or a voting period of zero, a counter at its threshold. The `hazards` of
`PROJECT.json` list these one by one at their lines, with the properties that
cover them or the reason none does.

## 2. Plan

In order of importance; all these stages are complete, with their runs and their
theorems.

| | Modules | What they are for |
|---|---|---|
| 1 | `SorobanStorage`, `Referendum`, `Governance` | voting, refined to an abstract referendum |
| 2 | `SnapshotLedger`, `Analytics` | the admin-written ledger, refined to an append-only ledger |
| 3 | `GovernedAnalytics` | stages 1 and 2 composed by the cross-contract call |
| 4 | `SnapshotContract`, `SnapshotPipeline` | the hash ledger, and its composition with the backend |
| 5 | `CircuitBreaker` | breaker and retries under concurrency, safety and liveness |
| 6 | `RateLimiter` | GET / INCR / EXPIRE by concurrent requests, the fallback, the key's expiry |
| 7 | `WebSocketHook`, `NotificationFeed` | the hook composed with the provider that uses it, the toasts, the panel and localStorage |
| 8 | `WalletSession`, `DeveloperKeys` | the session composed with the page, its requests and the table |

What could come next, in this order: `reconnect()` of the WebSocket hook with
the dashboard that calls it and its refresh loop (`useDataRefresh`), which
section 5 already mentions; the RPC token bucket, of which `CircuitBreaker` has only
the wait; the registry contract. Section 9 says why the rest is left out.

## 3. The modules

### Soroban contracts in general

A contract call is a transaction: an `Err` or a panic leaves no effect. So each
entry point that writes storage is one action, its early returns and `unwrap`s are
conjuncts of the guard, and a refused call is a step that does not exist.
`require_auth` is modelled by letting the caller range over `Signer`, the
addresses that can sign; an argument nobody authenticates ranges over every
address: so `Governance` has an `Address` beside `Signer`, as anybody may
`initialize` it with an admin that never signs. A `soroban_sdk::Map` is a function on its keys (`SorobanStorage`).
`LedgerClose` advances the timestamp.

Definitions commented as a *fault* (`FinalizeEarly`, `VerdictOnTie`, ...) occur in
no specification. Each is a plausible bug put in place of the definition below it,
to confirm that the property guarding against it is violated; `PROJECT.json` pairs
them under `mutants`.

### Governance, Referendum

| TLA+ | Code, `contracts/governance/src/lib.rs` |
|---|---|
| `admin`, `quorum`, `votingPeriod`, `proposalCount` | instance storage |
| `proposals`, `votes`, `tally`, `parameterAction` | persistent storage, one key per proposal each |
| `Initialize` … `MarkExecuted` | the entry points of those names |
| `OpenProposal` | the part the two create entry points share; `now + votingPeriod <= MaxU64` is the u64 addition, which panics |
| `VotingOpen`, `CountBallot` | the checks of `vote` and its update of the counters |
| `Verdict` | the decision in `finalize` |

`Referendum` is the promise with neither counters nor clocks: a question is opened
once, an account votes at most once while it is open, it is decided once by
counting the ballots, a passed one is carried out at most once, and the quorum is
settled before the first question. The refinement maps `ballots` to `votes` and
`outcome` to the proposals' statuses.

Titles, proposers (always the admin), wasm hashes and events do not influence
control and are left out.

### Analytics, SnapshotLedger

The entry points are actions of the same names. The two governance entry points
authenticate nobody: they compare an argument with the stored address, and the
argument ranges over `Address`. `SnapshotLedger` is an append-only set of entries
in which a new entry has a later epoch and no earlier time than all others; both
contracts with snapshots implement it, with the set of values of their map.

### GovernedAnalytics

Instantiates both contracts over one clock. `Execute` conjoins
`Gov!MarkExecuted` with `Apply`, the call on the target, which exists only if the
target is the analytics contract and its stored governance address is the calling
contract. Anybody may still call the analytics contract directly
(`AnalyticsCall`).

### SnapshotContract

Two switches guard different entry points: `paused` is read by `SubmitSnapshot`
alone, `stopped` by the admin's entry points and by the readers, which are
operators (`VerifySnapshot`, `VerifySnapshotAtEpoch`, `VerifyLatestSnapshot`).
`prepare_upgrade` and `migrate` only publish events. The code installed by
`Upgrade` is assumed to be this contract again.

### SnapshotPipeline

One request is one call of `generate_and_submit_snapshot`; `place` is the await it
is at.

| TLA+ | Code, `backend/src/services/snapshot.rs` |
|---|---|
| `Generate` | aggregate, serialise to canonical JSON, SHA-256 |
| `Store` | `store_snapshot_in_database`: inserts a row, whatever rows there are, with `epoch as i64` (`AsI64`), which wraps |
| `Send`, `Accepted` | `submit_snapshot` on the contract service, which may send again |
| `Verify` | `verify_submission_success`: after the sleep, the contract's answer, or `false` for an error |
| `Fail`, `Drop`, `Crash` | the `?` returns; the handler's future dropped; the process gone |
| `Land`, `Lose` | the network executes the transaction, late perhaps, or never does |
| `OtherCall` | every other user of the contract |

A request's epoch and hash are chosen at the start: two requests for an epoch may
have the same hash or different ones, since the timestamp is part of what is
hashed. Different clients of the contract have hashes of their own
(`OtherHash`): SHA-256 is taken to be free of collisions. The handler takes any
u64 for an epoch and the transaction carries it as it is, while the row has it
cast: `AnchoredIsStored` therefore promises the row `RowOf(entry)`, and the run has
an epoch for which the two differ.

### CircuitBreaker

`call` takes the mutex, releases it for the request and takes it again. The
request itself begins with a wait for a token of the client's own rate limiter
(`stellar.rs:1430`). So `CheckOpen`, `Acquire`, `Respond` and `Report` are separate
steps and any task may run in between: a request admitted before the circuit
opened may be sent while it is open. A full queue of the rate limiter is a failure
like those of the endpoint. `Report` includes what `with_retry` does with the result. `attempt` is
its loop counter; the delays of the backoff are left out, a task may sleep for any
time. `HttpCaller`s may be dropped at any await. `opened_at` is the number of
ticks since, counted up to `Timeout`, so that no unbounded clock is needed. `up`
says whether requests succeed now; `Outage` changes it at any time.

### RateLimiter

One client at one endpoint, requests as tasks. `Get`, `Incr` and `Expire` are the
three Redis commands, so that any request may run in between; the look-up of the
time to live only fills a header. Each command may fail before Redis has executed
it or after (`Lost`), which sends the request to the counter in memory (`Fail`,
`CheckMemory`), except for GET, whose error the code reads as zero. A client that
hangs up drops its request at whatever it waits for (`HangUp`). A window is not
counted in seconds: it passes in two stages, `Ages` and `Expires`, each at any
time, and every EXPIRE takes the key back before the first (`StartWindow`), also
one that a failed read caused. `MemoryExpires` may come at any time too. Which
limit a client has, the white list and how the client is identified are
configuration, read before and abstracted to `Limit`.

### WebSocketHook, NotificationFeed

`WebSocketHook` gives the state of `useWebSocket` and what its effects, timer and
socket handlers do to it. Its callers pass callbacks written inline, so `connect`
is a new function in every render, and `HookRenders` is the clean-up and the
effect that follow each one. `NotificationFeed` is the provider that calls the
hook. The path on which the WebSocket constructor throws is left out: it depends on
the url alone, which is a constant of the build, so such a hook never has a socket.

React is modelled by what the hooks rely on. `state` is what the setters were
asked for so far, `view` what the last committed render saw; `Render` commits the
one to the other and runs the effects whose dependencies changed. `dirty` says
that a setter was called with an object that is new though perhaps equal, which
makes React render too. What a handler or timer captured at its render is a value
of its own (`Closure`, kept per socket in `onMessage`). A functional updater, and
the write to localStorage inside it, runs in the render, or at once when nothing
else is due (`Set`, `SavedByRender`). The timer that cuts the list is a debounce:
every render that sees another length clears it and sets it anew (`TrimArmed`), it
comes due only when left alone (`TrimDue`), and then fires (`TrimFires`). `Unmount` followed by `Mount` is both a page
load and the provider mounted again: updates no render has run are lost.

A notification is its number; as numbers grow with the timestamps, the list, to
which each is prepended, is a set. Toasts, panel and dialog appear as what they
call: `DismissToast` comes at any time after its notification was rendered,
whether by the toast's timers, its cross or the bin of a row. Sounds, desktop
notifications, filters, statistics and read flags touch none of this, and other
tabs' storage events are left out.

### WalletSession, DeveloperKeys

`WalletSession` keeps the address and what is awaited: a wallet's answer, the
logout before a disconnection. The token of a SEP-10 session is left out; it would
multiply the states of the page without touching what the page reads.

`DeveloperKeys` composes it with the page and the table. `Init` is the page after
its first effect, which resets the `loading` the state starts with. A request is a record
that names its wallet, and a stage of the server's work on it: a rotation is one
step to select, one to revoke and one to insert, since `rotate_api_key` uses no
transaction. `Serve` is one statement. An answer may be lost, in which case the
request may be worked on still (`orphans`); `ActionFails` and `Reopen` leave such
requests behind. `lists` are the fetches of the effect on the address, which
nothing cancels; `action` is the request of a handler, of which `actionLoading`
allows one. `api/api_keys.rs` is not in the repository: that it answers an error
for a statement that found no row is taken from what the page does with answers.

## 4. The runs

| Run | Distinct states | What it shows |
|---|---|---|
| `governance` | 505,000 | counters are the cardinalities of the ballots (`TallyCountsBallots`); a decision was taken after the deadline and is the verdict on what is stored now (`DecisionStands`); no ballot changes or arrives late (`BallotsAreFinal`); with a voting period of zero nothing passes, even with a quorum of zero (`EmptyWindowNeverPasses`); the contract implements `Referendum` |
| `analytics` | 2,000 | `latestEpoch` is the largest key (`LatestEpochIsLast`); nothing is recorded while paused (`PausedLedgerIsFrozen`); the contract implements `SnapshotLedger` |
| `governed_analytics` | 397,000 | a proposal becomes executed in the step that applies it, to the target and the value voted on, or stays passed (`ExecutionIsAtomic`); what a proposal changes was carried by the stored ballots, after its deadline (`EffectsAreVoted`) |
| `snapshot_contract` | 14,000 | the readers agree (`ReadersAgree`); an answer once given for an epoch is given for ever, also after stops in which submissions went on (`AnswersStand`); stop freezes admin and code, pause the ledger (`SwitchesHold`); the contract implements `SnapshotLedger` |
| `snapshot_pipeline` | 90,000 | a request that reports verification has its hash on the ledger from then on (`VerifiedIsAnchored`); a hash of the backend on the ledger has its row, with the epoch as the cast leaves it (`AnchoredIsStored`); every request ends (`RequestsEnd`) |
| `circuit_breaker` | 58,000 | failures reported late do not restart the timeout of an open circuit (`OpenKeepsItsTime`); only the report of a success closes it (`OnlySuccessCloses`); calls return (`CallsReturn`); once the endpoint works for good the circuit closes for good (`RecoversWhenUp`) |
| `rate_limiter` | 108,000 | a counter lets in at most the limit and one for each other request under way, requests whose read failed aside, and the counter in memory at most the limit (`OvershootBounded`); a client at its limit is let in again once reads stop failing, unless a lost command or an expiry in between left the counter without a time to live (`LimitLifts`) |
| `notifications` | 246,000 | one live socket, the one that will be closed (`OneLiveSocket`); nothing of a category the last render knew to be muted (`MutedStaysSilent`); nothing taken off the screen returns, by a setter or from localStorage (`NothingComesBack`); a list past its limit does not stay at one length, but in the case section 5 names (`EventuallyTrimmed`) |
| `developer_keys` | 2,508,000 | a key that replaces another replaces a revoked one of the same wallet (`ReplacedKeyIsDead`); a key is revoked only after its own wallet, connected, confirmed a dialog on it (`OnlyItsOwnerRevokes`); the page is loading only while a list is under way (`LoadingEnds`) |
| `governance_acts`, `breaker_open`, `rate_limit_tests` | violation | the disagreements of section 5 |

`TypeOK` of the contracts, the pipeline and the breaker is checked along, and is
proved of the frontend's modules. It states more than types: which keys
exist together, that an entry names its own epoch, what has been stored by the
time something is in flight.

### Bounds

- `governance`: three accounts, so that a majority, a tie, an abstention and a
  missed quorum all occur; two proposals with different creation times, so that
  one is open while the other is decided; `MaxU64 = 3` with voting periods 0 and 2,
  so that windows end, and the addition of the deadline overflows within the
  reachable times; quorums 0 and 2; and an address that cannot sign, for the admin.
  Accounts are interchangeable (symmetry).
- `analytics`: two accounts that sign and a governance address that does not,
  epochs up to 3 to skip one and attempt to come back for it, two hashes, three
  timestamps.
- `governed_analytics` and `governance_acts`: one account that is admin of both, a
  target that is the analytics contract or one without its entry points, two
  proposals, one epoch, voting period 1. A second account adds nothing to the
  cross-contract call, since votes of several accounts are the subject of
  `governance`. That the properties of each contract hold in the composition is not
  checked again but proved (`GovernancePromisesHold`, `AnalyticsPromisesHold`).
- `snapshot_contract`: two accounts and an address that
  cannot sign, two hashes and a string of another length, three epochs, one
  upgrade (`MaxVersion = 2`), three timestamps. No symmetry: `AnswersStand` is a
  temporal formula about single hashes and epochs.
- `snapshot_pipeline`: two requests whose epochs and hashes may coincide or
  differ, one other writer, two epochs, of which `MaxI64 = 1` lets only the first
  keep its sign. `MaxTime = 0`: no property of the pipeline
  reads a timestamp, and the contract's are the subject of `snapshot_contract`.
  One address and one version, for the same reason.
- `circuit_breaker` and `breaker_open`: three callers are the least with which two
  requests in flight can report on both sides of a state change made by a third;
  thresholds of 2 distinguish counting from jumping; `Timeout = 1` and
  `MaxAttempts = 2` have one step before and one after the boundary.
- `rate_limiter` and `rate_limit_tests`: three requests at a time, two of which may
  count on what was read before the third, and a limit of 3, so that the boundary,
  the request before it and the one after it are all reached. The counter stops at
  `MaxCount = Limit`, from where on every value is read alike.
- `notifications`: two sockets (one live, one closing), three notifications ever,
  of which `Keep = 1` is kept, so that the list outgrows its limit twice; one
  category; one retry of the connection between two renders.
- `developer_keys`: two wallets, interchangeable (symmetry), two keys (one and
  its replacement, or one of each wallet), one abandoned request beside the
  running one, so that two rotations of one key run side by side, and one list of
  the effect beside the one of a handler.

`MaxEpoch`, `MaxTime`, `MaxVersion` and `MaxProposals` stand for u64 counters;
`MaxU64` in `Governance` and `MaxI64` in `SnapshotPipeline` model a width itself.
Where a bound is reached the model stops, hence
`CHECK_DEADLOCK FALSE`; the contracts also wait for calls that need not come, and
the theorems of section 7 hold for every value of these bounds. `MaxCount`,
`MaxId`, `MaxKey`, `MaxOrphans` and `MaxLists` bound what is unbounded in the code;
`Limit`, `Keep` and `MaxReconnectAttempts` are its own parameters (for the last,
see section 5).

## 5. Where code and documentation disagree

- **`governance_acts`**. `contracts/analytics/src/lib.rs:357` and `:372` say of the
  governance entry points "Only the governance contract may call this (after a
  passed proposal)". The code compares the `caller` argument with the stored
  address and never asks that address to authorise the call. TLC finds a change
  of admin or pause state that neither the admin signed nor a proposal made.
- **`breaker_open`**. The module comment of `circuit_breaker.rs` says the circuit
  opens, "After a timeout, the circuit moves to half-open". `on_success` closes
  the circuit from any state but half-open, so the success of a request admitted
  before it opened closes it at once, with no timeout and no probe. That there is
  no third way is the theorem `OpenEnds`.
- **`rate_limit_tests`**. `backend/tests/rate_limit_tests.rs:69` says, for a limit of
  10, "First 10 requests should succeed", and asserts it of each (lines 70-77;
  likewise 108-115, 146-152 and 234-240). The request that brings the count to the
  limit is counted and refused (`rate_limit.rs:335` in Redis, `:363` in memory), so
  the tenth is not let in: TLC finds a request that the counter in memory counted
  and refused.

Seen and not given a run: `docs/SNAPSHOT_CONTRACT.md:11` says "only the contract
admin can submit snapshots", while `submit_snapshot` (`lib.rs:252`) reads no admin
and asks nobody to sign, before `initialize` included: the guard of
`SubmitSnapshot` shows it as the code does. In the other contracts and the
backend: `half_open_max_calls` is never read, so the half-open
circuit admits everybody; one breaker guards two endpoints; the snapshot handler
ignores `submit_to_contract` (`snapshot_handlers.rs:62-66`, documented at line 50);
`stop_contract` does not keep `submit_snapshot` from writing; a stored row whose
submission failed is never submitted again; successes of requests admitted before
the circuit opened count toward the half-open threshold.

In the rate limiter: the count can stay without an expiry, which refuses the client
until the key is deleted by hand; and a failed read starts the window again, so
that failed reads that recur keep a client refused. In the pipeline: from 2^63 on
the row of an epoch carries a negative number (`snapshot.rs:309`).

In the frontend: between the timer that cuts the list and the next render, arrivals
can make up the old length, and the list stays too long until its length changes,
against `components/notifications/README.md:220`, "keeps last 100". TLC shows it
when `cut = "missed"` is taken out of `EventuallyTrimmed`; arrivals less than a
second apart put the cut off as long as they go on. Every render of a component
that uses `useWebSocket` closes its socket and opens another, since the callbacks are new each time, and clears the
retry timer with it, so that the backoff and the limit of five attempts never
apply after the first render. `reconnect()` opens a socket by a timer nobody
clears (`useWebSocket.ts:148`). The preference `autoHide` is never read.
"Select all" compares sizes only (`NotificationCenter.tsx:151`), and a batch
deletes ticked rows that the filter hides. A storage event of another tab replaces
the whole list (`useLocalStorage.ts:60`). Rows and dialogs of one wallet stay on
the keys page when another is connected; the dialog that shows a new key does so
too. A rotation that ends after the revocation leaves no key
(`database.rs:1165`). A sign-in that outlasts a disconnection stores its token
beside the next wallet's address (`wallet-context.tsx:165`). A refresh under way
when the dashboard is left starts its timers again (`useDataRefresh.ts:90`), and
`isRefreshing`, described as "True while an in-flight refresh is pending"
(`useDataRefresh.ts:17`), is reset by the first of two refreshes to end.

## 6. Fairness

Only the components with processes of their own have liveness properties. No contract call
is fair: nobody must ever vote or submit.

- `SnapshotPipeline`: weak fairness of each request's next step. Its awaits are a
  database call, a call of the contract service and a two-second sleep, and tokio
  polls a ready task again. Since a request that is sending can send once more for
  ever, weak fairness of `Accepted \/ Fail` says that the contract service answers
  in the end, in either way. It is an assumption on a module that is not in the
  repository. Nothing is assumed of the network: no transaction need ever land.
- `CircuitBreaker`: weak fairness of each caller's next step (no lock is held
  across an await, the HTTP client gives up after 30 seconds, backoffs are bounded,
  and the rate limiter is taken to give a waiting task its token: its bucket refills
  with time, and its wait is a sleep), of the clock,
  and of new calls by background tasks only, which run in endless loops. HTTP
  handlers need not come, and outages need not end: `RecoversWhenUp` supposes in
  its own premise that one did.
- `RateLimiter`: weak fairness of both stages of the key's expiry in Redis, and of
  an EXPIRE that was sent, which is executed or fails: an assumption on Redis and
  its client. It does not make a window end that is started again and again, since
  `StartWindow` disables `Expires`; `LimitLifts` therefore has the premise that reads
  stop failing, and TLC refutes it without. Clients owe nothing, and `LimitLifts`
  needs no further request.
- `NotificationFeed`: React renders what is due, animation frames come, a timer
  that is left alone comes due and fires, and a socket that was closed reports it.
  A timer that is set anew before it is due need never fire: `EventuallyTrimmed`
  says that the list does not keep one length for ever. Users, servers and the network owe
  nothing: a message need not arrive, a socket need not open. `Mount` is not fair,
  since nobody need come back. The property is a disjunction that includes leaving
  the page for that reason.
- `DeveloperKeys` needs no fairness: `LoadingEnds` is stated as an invariant, that
  a list is under way, and a fetch that was sent is answered or fails.

## 7. What is proved

All theorems hold for any values of the constants under the assumption each module
names (`GovernanceConstants`, `AnalyticsConstants`, `GovernedConstants`,
`SnapshotContractConstants`, `PipelineConstants`, `BreakerConstants`,
`LimiterConstants`, `HookConstants`, `FeedConstants`, `SessionConstants`, `KeyConstants`,
`NoneIsNoRequest`): sets of
addresses disjoint where they mean different things, bounds that are natural
numbers, and a finite set of accounts where ballots are counted, or of requests
where those under way are.

- **`GovernanceProofs`**: `TypeCorrect`, `TallyCorrect`, `DecisionsCorrect`,
  `EmptyWindow`, `BallotsFinal`, `GovernanceImplementsReferendum`. `TypeOK` is
  inductive. `TallyCountsBallots` is inductive relative to it: the step of interest
  is `Vote`, where the lemma `BallotCounts` relates the cardinality of a choice's
  supporters before and after a ballot to the counter's increment, and needs that
  the account had not voted. `DecisionStands` rests on the tallies: the verdict
  computed from counters is the verdict on ballots, and a decided proposal admits no
  further ballot. `EmptyWindowNeverPasses` needs a strengthening: as long as the
  voting period is zero every deadline is the time of creation, so no proposal has
  a ballot. The refinement uses all of them, since `finalize` reads counters where
  `Referendum` reads ballots.
- **`AnalyticsProofs`**: `TypeCorrect`, `LatestEpochCorrect`, `PauseHolds`,
  `AnalyticsImplementsLedger`. `LatestEpochIsLast` alone does not imply that a new
  entry's time is not earlier than the others', so the invariant is
  `LedgerInv == LatestEpochIsLast /\ NoFutureEntries`.
- **`GovernedAnalyticsProofs`**: `ExecutionAppliesProposal`, `EffectsCorrect` and
  what the contracts promise in the composition. By the lemmas
  `GovernanceKeepsItsSpec` and `AnalyticsKeepsItsSpec` the composition implements
  each contract's specification step by step, as its steps are built of theirs. A call made by `Apply` is a call of the analytics
  contract's own interface only because stored actions have the type their
  proposals were made with (`ActionsTyped`), which is the invariant it needs.
  With this the theorems of each contract apply to it here: `GovFacts` and
  `AnaFacts` instantiate `GovernanceProofs` and `AnalyticsProofs` for the
  composition's variables, their assumptions follow from `GovernedConstants`
  (`GovernanceFactsApply`), and `GovernancePromisesHold`,
  `CompositionImplementsReferendum` and `AnalyticsPromisesHold` are what comes out.
  `EffectsCorrect` needs both contracts: that an executed proposal had passed is the
  governance contract's, that its ballots carry it now is `DecisionStands` in the
  composition, and that its effect is there is the atomicity of `Execute`.
- **`SnapshotContractProofs`**: `TypeCorrect`, `ReadersCorrect`, `AnswersCorrect`,
  `SwitchesCorrect`, `SnapshotContractImplementsLedger`, by
  `LatestIsLast /\ NoFutureEntries`. `AnswersCorrect` is about all later states, not
  the next one: that an epoch has an entry with a given hash is kept by every step,
  whether the contract is stopped or not. That the latest epoch is an option here, not 0,
  is why the check of epoch 0 is needed.
- **`SnapshotPipelineProofs`**: `TypeCorrect`, `VerificationCorrect`,
  `AnchoringCorrect`, for any number of requests. `TypeOK` carries the order of
  the steps (what is in flight has its row, and so has a request from `stored` on;
  a row's epoch is cast, and `RowType` shows that the cast fits the column); entries of the contract stay (`AnchorsStay`), and the contract's steps are
  used through lemmas on its actions, not through their definitions.
  `VerificationIsForEver` goes on from there to what a reader is told at any later
  time. `RequestsOnlyAdvance` ranks the awaits of a request. The lemma
  `ContractKeepsItsSpec` says that pipeline and other clients only use the contract's interface, so that
  `Facts`, the instance of `SnapshotContractProofs` with the pipeline's hashes,
  gives `ContractKeepsItsPromises`.
- **`BackendGuardProofs`** extends two modules without a common variable.
  *Of the breaker*: `TypeCorrect`, `OpeningTimeKept`, `ClosedBySuccess`, `OpenEnds`,
  `CallsAreBounded`, `RecoveryOnlyAdvances`, for any number of callers and any
  thresholds, 0 included. Type correctness needs that a sleeping caller has attempts
  left (`SleepersRetry`). `CallsAreBounded` measures a call by `StepsLeft`, five
  steps for each attempt left and those of the current one: no step of its own
  leaves it as it is and no step of another changes it, by
  `CallInv == CallersOK /\ SleepersRetry /\ CallsBegun`. `RecoveryOnlyAdvances`
  measures the breaker by `Recovered`, from open through half-open to closed, while
  the endpoint works: it can fall only by the report of a failure, of which there
  are ever fewer (`FailuresHeld`).
  *Of the rate limiter*: `LimiterTypeCorrect`, `OvershootCorrect`, `ExpiryCorrect`,
  for any finite set of requests and any limit. `OvershootBounded` is not inductive:
  what is let in later depends on what requests under way have read before. With
  `Pending`, the requests whose next increment will be let in on what they read,
  `OvershootInv` says that no more were let in than counted and, once the counter is
  one below the limit, that

      passed + Cardinality(Pending) <= Limit - 1 + (Cardinality(Task) - 1)

  From then on no request joins `Pending`: what it reads is too much, and one whose
  read failed is counted neither there nor in `passed`. One that is let in leaves
  it. The request that took the counter to that value is not pending itself, hence
  the `- 1` of the tasks. Lost commands and hang-ups only make `Pending` smaller, and
  an expiry starts all over. The property itself leaves one more, as it is to hold
  also of a limiter that lets in the request that reaches the limit, which the tests
  ask for. `MemoryInv` is the same for the fallback, which needs no slack as its
  check and its update are under one lock.

- **`NotificationFeedProofs`**: `TypeCorrect`, `SocketCorrect`, `MutingCorrect`,
  `ListCorrect`, `TrimmingIsDue`, `TrimmingCuts`, for any numbers of sockets, categories and notifications.
  `OneLiveSocket` is not inductive: a retry could open a socket beside the one
  `wsRef` holds. `HookInv` adds that until the first clean-up there is one socket
  and at most one retry, not both, and that after it no retry is ever pending,
  because `shouldReconnect` stays false. `MutedStaysSilent` rests on
  `HandlersAre(Closure(view.state))`: whatever socket hands out messages, its
  handlers are those of the last committed render, as the effect replaces it in
  each one. `NothingComesBack` rests on `ListsInv`: what setters and localStorage
  hold was on the screen or is newer than anything rendered. The lemma `HasLast`,
  that a set of numbers that is finite and not empty has a largest one, which a
  render needs, follows from the well-foundedness of the strict subset order on
  finite sets. `TrimmingIsDue` rests on `TrimInv`: the clean-up effect of the last
  render that saw a list too long has its timer pending, or the timer has fired
  since, and then the setter it called makes a render due. `TrimmingCuts` says what
  the timer does to the list: of any finite set of numbers `Newest` keeps at
  most `Keep` (`NewestCount`).
- **`DeveloperKeysProofs`**: `TypeCorrect`, `RotationCorrect`, `RevocationCorrect`,
  `LoadingCorrect`, `RowsAgeCorrect`, for any numbers of wallets, keys and requests. The invariant
  says of every request under way, abandoned ones included, what its stage has
  already done to the table: its key was confirmed by its owner if it is the
  wallet's at all; from the selection on it is the wallet's; after the revocation
  it is revoked. Statements of other requests keep this because the table only
  grows: a row's owner never changes, and a revoked row stays revoked (`Grows`).
  `RowsAgeCorrect` states that as an action property of the whole table, with who
  may revoke a row: a request that is held, for this key, of the row's own wallet.

## 8. What is only model-checked

Liveness (`RequestsEnd`, `CallsReturn`, `RecoversWhenUp`, `LimitLifts`,
`EventuallyTrimmed`) is beyond the prover, which has neither `ENABLED` nor
fairness; TLC checks it on the instances above. What each of them rests on that is
safety is proved, for every value of the constants:

| Liveness | Its safety half | Left to fairness |
|---|---|---|
| `RequestsEnd` | `RequestsOnlyAdvance`: the rank of a request's await never falls | that a request which sends again does so finitely often, and is polled |
| `CallsReturn` | `CallsAreBounded`: at most five steps for each attempt | that a caller takes its steps |
| `RecoversWhenUp` | `RecoveryOnlyAdvances` | that the clock ticks and background tasks call |
| `LimitLifts` | `ExpiryCorrect`: a counter has a time to live or is about to get one, but in the cases named | that an EXPIRE sent is executed or fails, that the key expires, and (its premise) that reads stop failing |
| `EventuallyTrimmed` | `TrimmingIsDue`, `TrimmingCuts` | that renders come, and timers that are left alone |

Every safety and action property of a passing run is stated by a theorem. The
three violation runs are counterexamples and have nothing to prove.

## 9. What is not modelled, and why

- SEP-10: `auth/sep10.rs` is commented out of the build and its replacement,
  `auth::sep10_simple`, is absent. Refresh tokens: `authenticate` refuses every
  user (`auth.rs:96`), so none is issued. `lib/websocket.ts` is imported by
  nothing.
- Aggregation jobs end at `pending_retry`, as the scheduler's retry is a stub; the
  shutdown waits for tasks of `main.rs` and of absent modules; the response cache
  promises nothing but its time to live; the WebSocket server's broadcasts come
  from absent modules; the price feed is a pure function with an error that one
  test shows (assets without a mapping shift the prices of a batch).
- The RPC token bucket computes in floating point; what it does to a caller of the
  breaker, a wait or a refusal between its admission and its request, is `Acquire`.
- The registry, access-control and secure contracts are used by no other part;
  each of their calls is one transaction on one or two keys.
- Of the frontend: pages, charts and wizards that fetch into one component's
  state, keyboard shortcuts and preferences, which clicks change alone, and the
  dashboard's refresh loop with `reconnect()` (section 2).
- Analytics algorithms (corridor scores, success rates, slippage) are
  floating-point statistics.
- REST handlers, other database queries, alerts, detectors and observability
  translate input to output and keep no state that others race for. The
  webhook dispatcher and the ingestion loop are not in the repository.
- The deepdive contract is the analytics contract without governance, and
  `example-contract` keeps no state.
- Inside the modelled parts: what the aggregation computes and how it is
  serialised (a hash stands for it), titles, events, wasm hashes, fees, storage
  time to live, and the length of backoffs.
