# Verification of the exchange backend

TLA+ models, TLC runs and TLAPS proofs for the Go backend in `src/`: a currency
exchange with user wallets, an in-memory cache in front of PostgreSQL, and a
background worker that refreshes exchange rates.

## 1. Inventory

The program is one process. Every HTTP request is served by its own goroutine;
all of them, and one worker goroutine, share an in-memory cache
(`pkg/cache`, go-cache: an atomic map) and a PostgreSQL pool. **No request holds
a lock or a database transaction across two statements** (the only transaction
is the one UPDATE of `BatchUpdate`), so almost every hard behaviour of the
program is an interleaving of single statements and single cache operations, or
a failure between two of them.

| Component | State | Operations | Hard behaviours | What makes it correct |
|---|---|---|---|---|
| Wallet money path (`wallet_service.go`, `wallet_repository.go`) | rows of `wallets`, `transactions` | Deposit, Withdraw, admin ManualDeposit | absolute writes of a balance read earlier; lost answers; cancelled contexts; crash between row and balance | no deep overdraft; updates lost only under overlap; a journal row before every change |
| Currency exchange (`order_service.go`) | two rows of `wallets`, `currency_exchanges` | CreateExchange with two compensation paths, CancelExchange | half-done swaps, failing compensation | success means both legs; a rollback restores |
| Wallet cache (`cache_service.go`) | `wallet:<user>:<currency>`, `wallets:user:<user>`, no TTL | read-through fill, write-through set, list invalidation | late fills, inverted UPDATE/Set order | cache = row unless requests overlapped; stale lists do not last |
| Journal (`transaction_repository.go`) | `transactions.status` | Create, Update (GetPending is never called) | crash leaves `pending` rows | write-ahead, at most once |
| Rates (`exchange_rate_repository.go`, `exchange_rate_service.go`) | rows of `exchange_rates`; entries by pair, by id, two lists | Create, Update, Delete, BatchUpdate, four readers | re-read from a stale cache after COMMIT; late fills; inactive rates served from the cache | the rate used is one the table has |
| Rate updater (`rate_updater.go`, `health_handler.go`, end of `main.go`) | running flag, mutex, last run and error, two channels | Start, Stop, run, executeUpdate, getBinanceRate, Health, IsHealthy | TryLock against health probes, long critical section, stop timeout | rates are ratios, rounds and shutdown end, health tells the truth |
| Users and sessions (`auth_service.go`, `user_repository.go`) | `users`, `user_sessions`; entries by id, e-mail, token | Register, Login, RefreshToken, Logout, view of a user | shared pointers into the cache, token rotation races, late fills, partial registration, TTL counted from the fill | a spent token stays dead; roles never ahead of the table; missing wallets are explained |
| Paged lists (`query_builder.go`, list queries) | none of their own | lists and counts of users, exchanges, transactions | numbered placeholders, offset paging over a changing table, page and count in two statements | filters honoured; rows are missed only for a reason |
| Warm-up (`cache_loader.go`), `main.go` | the cache at start | load currencies, rates, users; shutdown order | nothing loads wallets | |
| Cache writer (`cache_writer.go`) | - | dead code | comments still rely on it | |
| WebSocket, routing, middleware, DTOs, JWT, e-mail, config | - | I/O | - | - |

Interactions: handlers call services, services call repositories, repositories
call the cache and the database. CreateExchange reads rates through the rate
entries of the cache; the worker reads the active list and writes through
BatchUpdate; health handlers read the worker's state under its mutex.
`PROJECT.json` lists every component with its status and every hazard at its line.

## 2. Plan

| # | Module | Contents | State |
|---|---|---|---|
| 1 | `WalletLedger` (+ abstract `Journal`) | money path, exchange, wallet cache, lists, crash and cancel | done |
| 2 | `WalletLedgerProofs`, `JournalProofs` | overdraft, cache, lists, lost updates, answered exchanges and the journal of 1 | done |
| 3 | `RateCache` | rate rows, the four kinds of cache entries, admin operations, BatchUpdate, readers, warm-up | done |
| 4 | `RateCacheProofs`, `RateEntriesProofs` | every property of 3 that holds | done |
| 5 | `AuthSessions` | user cache with shared records, registration, login, token rotation, logout, TTL, roles | done |
| 6 | `AuthSessionsProofs` | every property of 5 | done |
| 7 | `RateUpdater` | worker life, retries, Binance requests, mutex, health, shutdown, liveness | done |
| 8 | `RateUpdaterProofs` | every safety property of 7 | done |
| 9 | `Listings` | query builder, paged lists, counts | done |
| 10 | `ListingsProofs` | every property of 9 | done |
| 11 | `Reconciliation` | sums over the rows of 1: do the books explain the balances? | done |
| 12 | `ReconciliationProofs` | the property of 11, with a theory of sums over finite sets | done |

Composition. `WalletLedger` and `Journal` are composed by refinement. The rate
lookup of CreateExchange is part of `RateCache`, its result the `credit` of
`WalletLedger`. `RateUpdater` says when a round runs `BatchUpdateRates` and with
which rates, `RateCache` what that does to rows and entries: the two share only
that call, so a product of them would check nothing that neither shows alone.
`RateUpdater` composes main, the worker and the health endpoints. `AuthSessions`
contains the wallets a registration creates, `WalletLedger` starts from them.
Every safety property that a passing run checks is also a theorem.

## 3. Modules

### WalletLedger

A request is a process `q`; `pc[q]` names the statement it will execute next.
One action is one SQL statement or one cache operation with the local code
around it.

| Model | Code |
|---|---|
| `wallets` | column `wallets.balance` (`locked` is always written back unchanged and is always 0) |
| `txs[q]`, `exchanges` | the row a deposit or withdrawal / an exchange inserts |
| `walletCache`, `listCache` | cache entries, `Miss` when absent |
| `bal[q][l]` | `wallet.Balance` in the service's local variables |
| `LookupFrom/To`, `SelectFrom/To`, `FillFrom/To` | `GetByUserAndCurrency`: cache, SELECT, `SetWallet` |
| `UpdateRow`, `CacheRow` | `UpdateBalance`: UPDATE, then `SetWallet` |
| `Book`, `Move`, `Moved`, `Settle` | `Deposit`, `Withdraw` |
| `Debit` ... `Record`, `Revert` ... `UndidCredit` | `CreateExchange` and its two compensation paths |
| `ListMiss`, `ListSelect`, `ListFill` | `GetUserWallets` of the repository |
| `Cancel` | the client goes away and net/http cancels `r.Context()` |
| `Restart` | crash or stop of the process, start with an empty wallet cache |

Every statement has up to three outcomes: applied and answered; applied, the
answer lost; failed. After `Cancel` only failure is left (the drivers check the
context first); SetWallet does not look at the context.

History variables (never read by a guard): `moved[q]` (legs whose change is in
the database), `dirty` (wallets two requests used at once, or with a lost
answer, since the last start), `lost` (wallets where an update overwrote
another), `taken` (what exchanges with a negative credit took from a wallet),
`listStale` (users whose cached list may be old).

Abstractions: integers for `float64`/`DECIMAL(20,8)`; amounts are multiples of
1000 so that the 0.1 % fee is whole. `credit` is FromAmount x Rate less the fee.
It may be negative: UpdateRate does not look at the fee and the column holds up
to 999.99 %, so an exchange at more than 100 % takes money from both wallets, and
nothing tests the second.
"Wallet not found" is the read's error outcome. The SELECT by id in
UpdateBalance only names the cache key; its failure is the UPDATE's failure.
`SetWallet` changes two keys; no request reads both, so it is one step. The
e-mail and the user lookup after the record are left out (users are always
cached). A statement that takes effect after its caller has seen the error is
not modelled beyond "applied, answer lost".

### Journal

The abstract specification: `row` and `applied`, with `Book`, `Apply`, `Settle`.
`WalletLedger` implements it with `row <- txs` and `applied <-` the deposits and
withdrawals with a moved leg.

### Reconciliation

Properties only, on top of `WalletLedger`: `Rows`, `Answered` and `Booked` say
which rows of `transactions` and `currency_exchanges` concern a wallet and what
each of them adds to it, `SumOver` adds them up, and
`PendingRowsExplainBalance` compares the sum with the row of `wallets`. The code
never does this: it writes balances as absolute values. `RequestsFinite` assumes
that the server has got finitely many requests.

### MCWalletLedger

Model values, jobs and the symmetry set.

Operators called `...Untested`, `...Unchecked`, `...Stale`, `...Skipped`,
`...Blind`, `...Forever`, `SetWalletKeepsList`, `CreditUnconverted` in
`WalletLedger` are mutants: plausible bugs, used by no specification, that show
each property can fail. In the other modules the comment "Mutant of" marks them.

### RateCache

Rows of `exchange_rates` and the entries made of them. A process is a request
about single rates, a request for a list, or the worker.

| Model | Code |
|---|---|
| `rows[i]` | the row with id `i`: `Fresh` before its INSERT, `Gone` after its DELETE; ids are serial, so each belongs to one pair (`PairOf`) |
| `terms`, `rate` | columns `fee` and `is_active`, which the program changes in UpdateRate; column `rate`, which it changes in the worker's batch |
| `StoredTerms`, `StoredRate`, `Stored` | what `DECIMAL(5,2)` and `DECIMAL(20,8)` keep of a value; Create and Update cache the value they were given, not the one the column has |
| `byPair`, `byId`, `lists` | entries `exchange_rate:<from>:<to>`, `exchange_rate:id:<id>`, `exchange_rates:all` and `:active` |
| `GetExchangeRate`, `GetByPair`, `GetById`, then `Select`, `PutPair`, `PutId` | the read-through paths of exchange, WebSocket and admin; a hit changes nothing and is no step |
| `UpdateRate`, `Assign`, `UpdateRow`, `PutPair`, `PutId` | `UpdateRate` of the service with `GetByID` and `Update` |
| `CreateRate`, `DeleteRate`, `DropPair`, `DropId` | `Create`, `Delete` with their cache updates |
| `ListMiss`, `ListSelect`, `ListFill` | `GetAll`, `GetActive`, also for the worker |
| `Fetch`, `AskBinance`, `Commit`, `Refresh`, `DropLists` | `performUpdate` and `BatchUpdate` |
| `EditRate` | the UPDATE of a rate by hand that the repository's README asks operators for, with the server running |
| `Restart`, `WarmUp` | a start of the process, `loadExchangeRates` |

`alias[x]` says which entries are the very record `x` points to. It matters in
one place: after a miss `GetByID` returns the pointer it has put into the cache,
and `UpdateRate` assigns to it before its UPDATE (`Assign`). The two assignments
are one step; a lookup that copies the record between them, a data race, would
see one of the two new values.

Histories: `dirty` (pairs where a writer and another process were at work at
once, an INSERT, UPDATE or DELETE lost its answer, a batch lost its answer while
somebody was at work on the pair, or an UPDATE failed after its record was put
into the cache, or an operator edited the rate while somebody was at work on the
pair), `frozen` (ids whose rate a batch or an operator changed under a cached
one), `listOld` (lists filled after the rows changed, or missed by a write whose
answer was lost or by an operator). All end with a restart.

Abstractions: currencies stay active (no code changes them), so a rate is on the
active list when its own `is_active` is set. `Quoted` are the pairs
rate_updater.go:314 does not skip; it skips every pair with a crypto currency, so
that of the seeded rates none is ever updated. The byId entry and the two lists
change in one step, see the comment at `PutId`. Of rounding only this is
assumed: what is rounded stays as it is when it is rounded again, and the flag
`is_active` is not touched. An entry can thus have more digits than its row for
as long as it lives; entry and row are compared up to those digits. An operator
edits one rate at a time; editing fees, flags or several rows in SQL is not
asked for anywhere and not modelled.

### AuthSessions

A request is a process `r` with its stage `pc[r]` and its local variables
`loc[r]`.

| Model | Code |
|---|---|
| `row[u]`, `session[t]`, `wallets[u]` | rows of `users` (their role), `user_sessions`, `wallets` (their currency) |
| `userCache[u]` | `user:<id>` and `user:email:<email>`: role, and whether the hash is blank |
| `sessCache[t]` | `session:<token>` with the time go-cache drops it |
| `loc[r].shared` | the request's `*User` is the record the cache points to |
| `Register`, `LoginHit`, `LoginMiss`, `SelectEmail`, `FillEmail` | `GetByEmail` in `Register` and `Login`, and the password test |
| `Insert`, `CacheUser`, `AddWallet` | `UserRepository.Create`, the loop over the currencies |
| `OpenSession`, `CacheSession`, `Answer` | `generateTokensWithRememberMe`, `CreateSession`, the tokens in the answer |
| `Refresh`, `SelectSession`, `FillSession`, `LookupUser`, `SelectUser`, `FillUser`, `DeleteRow`, `DropEntry` | `RefreshToken`: `GetSessionByToken`, `GetByID`, `DeleteSession`, then as above |
| `Logout` | `Logout`, which is `DeleteSession` |
| `View`, `BlankView` | the administrator's `GetUserWithWallets`, behind `RequireRole` |
| `Promote` | the UPDATE by which the repository's README makes an administrator |
| `Tick`, `Restart` | the clock; a crash and start with `loadUsers` |

`shared` is what the comments at `cache_service.go:52` and `:67` are about: a hit
gives the request a copy, a fill or an insert leaves it with the record it has
just put there, and `PasswordHash = ""` then reaches the cache. A later `SetUser`
replaces the record, after which nobody shares it.

Histories: `acked` (tokens deleted from table and cache), `late` (tokens put back
by a fill whose row was gone), `booted` (users that were there at the last
start), `missed` (wallets whose INSERT failed, lost its answer without effect, or
was never reached).

Abstractions: passwords are right or wrong; a refusal changes nothing and is no
step. Both cache keys of a user are set in one step: a request that finds one
and not the other would go to the database instead. A session whose INSERT lost
its answer is a row nobody knows the token of, and is not kept. Access tokens do
not expire in the model (an expired one opens nothing) and are not revoked
either. A request takes less than one tick, which is the shorter of the two
lifetimes, 7 days. `UserRepository.Update` is never called. A user is missing
from the cache of a running process only if its INSERT lost its answer or its
registration is under way, so that the miss paths run in those two cases.
`OtherAdmin` says whether there are administrators besides those in `User`.

### RateUpdater

The goroutines are main, the worker and the health probes.

| Model | Code |
|---|---|
| `main`: `StartWorker`, `Listen`, `ServerFails`, `Signal`, `StopReturns`, `StopTimesOut`, `Drain`, `DrainTimesOut`, `CancelBackground`, `CloseDatabase`, `Exit` | `main` from `rateUpdater.Start` to its last deferred call, `Stop` |
| `worker`: `BeginRound`, `SkipRound`, `List`, `FinishFetch`, `Batch`, `FailAttempt`, `Retry`, `TakeTick`, `TakeStop`, `ClearRunning`, `CloseDone` | `run`, `executeUpdate`, `performUpdate` |
| `AskDirect`, `AskReverse`, `AskFromUsdt`, `AskToUsdt` | `getBinanceRate`, one action per symbol |
| `mu`, `running`, `tick` | `ru.mu`, `ru.running`, the ticker's channel |
| `failed`, `age` | `lastError # nil`; intervals since `lastRunTime` up to "more than two" |
| `probe[p].running`, `.error`, `.stale` | what the body says: Running, LastError, how old LastRunTime is |
| `probe[p]`: `Request`, `Lock`, `ReadHealth`, `LoadRunning`, `Verify`, `Answer` | `HealthDetailed` (`Health`, then `IsHealthy`) and `Ready` |

`stopChan`, `doneChan` and the context are functions of `main` and `worker`: each
is closed once and stays closed (`StopClosed`, `worker = "done"`, `Cancelled`).
`Stop`'s early return for a worker that is not running does not happen, because main calls Stop
once, while the worker runs. Prices are fractions, so a rate can be compared with
what the currencies are worth; Binance may also quote 0, which the direct symbol
and FROM/USDT accept and the two divisors refuse. The counters are printed only.
Timeouts of a request to Binance or of an update are its failure outcome. After
`CloseDatabase` a batch can only fail; the list may still come from the cache.
Histories: `between` and `cleared` note that a round ended, or the worker cleared
its flag, after a probe had read its body.

Three things the model makes plain: a round that fetches nothing, because all
pairs have a crypto currency or no symbol answered, is a success that clears
`lastError`, so "healthy" does not mean fresh rates; the message "previous update
still in progress" (`rate_updater.go:236`) is never true; and a probe can wait
through a round with all its retries.

### Listings

A client walks one of the four paged lists (users, exchanges, the client's own
exchanges, the transaction history) while rows are inserted and users become
administrators and so leave the list. `NewBuilder`, `AddWhere`, `AddWhereIfSet`,
`Paged` are the query builder; a condition keeps the number of its placeholder
and the query its arguments, so a wrong number is a wrong answer. `Matching`,
`Ordered` and `Pages` say what PostgreSQL makes of a query: any order of rows with equal
`created_at`. `SelectPage` and `CountRows` are the two statements of a
page. Rows become visible in another order than that of their `created_at`,
because that is the time their statement began. ILIKE is the relation `Like`.

## 4. Runs

| Run | Instance | Checks |
|---|---|---|
| `ledger_transfers` | 1 wallet, 3 requests (deposit 2000 or withdraw 1000), 1 list reader, opening 1000 | type, overdraft, cache, books, lost updates, journal, lists |
| `ledger_exchange` | 2 wallets, 2 requests (swaps both ways, one at a fee above 100 %, a deposit), `FairSpec` | overdraft, cache, books, lost updates, journal, answered exchanges, every started request ends |
| `ledger_rollback` | 1 swap | **violated**: `RollbackRestores` |
| `ledger_synced` | 2 deposits | **violated**: `CacheSynced` |
| `rates_admin` | 1 row, 2 requests, 1 list reader, a fee and a rate with more digits than their columns | type, entries, keys, lists |
| `rates_batch` | 1 pair with 2 ids (a row can be deleted and created anew), 1 request, the worker, 2 rates | entries, keys, lists |
| `rates_refreshed` | 1 row, 1 request, the worker | **violated**: `BatchRefreshesCache` |
| `rates_active` | as above | **violated**: `ExchangesUseActiveRates` |
| `auth_sessions` | 1 user, 1 currency, 2 requests, 2 refresh tokens, lives of 1 and 2 ticks, clock to 2 | type, spent tokens, expiry, logins, wallets, roles |
| `auth_copies` | the same | **violated**: `CachedHashesIntact` |
| `rate_updater` | 3 currencies, one of them crypto, 2 pairs, 2 retries, 1 probe, `FairSpec` | type, database, rates, health, skipped rounds; probes, rounds and shutdown end |
| `listings` | 2 owners, 3 rows, 3 times, limits 1 and 2 | type, filters, walks, totals |

What they show:

* **Overdraft.** Lost updates are possible, but since every write is absolute and
  starts from a tested balance, no balance falls more than one withdrawal fee
  below zero. It does fall by the fee: the test ignores it. Beyond that only
  exchanges at a fee above 100 % overdraw a wallet, by what they take from it.
* **Cache.** On a wallet used by one request at a time whose statements were all
  answered, the cached balance is the row's. `CacheSynced` shows that two
  overlapping deposits, both successful, suffice to leave a wrong one for good.
* **Lost updates** need overlap or a lost answer, even through the rollbacks.
* **Lists.** A stale wallet list comes only from a late fill or a lost answer and
  lasts until the owner's next SetWallet.
* **Books.** Where no update was lost and no exchange stopped half-way, the
  balance is explained by the completed rows and some of the pending ones.
* **Exchange.** Success means both legs. Failure does not mean neither: in the
  trace of `RollbackRestores` the credit fails and then the write that should
  restore the first wallet. A client that goes away in between is one cause of
  both.
* **Rates.** On a pair that was left alone, in the sense of `dirty`, both entries
  have the row's fee, up to the digits the column cuts off, and its activity,
  none belongs to a deleted row, and both are the same record. The rate is the
  row's, up to its digits, unless a batch or an operator changed it: then the
  cached one stays (`BatchRefreshesCache` for the batch; nothing tells the cache
  of an operator's UPDATE, so the manual update of the README reaches no customer
  whose pair is cached before the next restart).
* **Rate lists** are what the query would return, except after a late fill, a
  lost answer or an operator's edit, until the next write or fill of a rate.
* **Inactive rates** can be exchanged as long as they are cached, whether they
  were created inactive or deactivated later (`ExchangesUseActiveRates`).
* **Refresh tokens.** A spent or logged-out token is dead, except that a
  read-through fill under way revives it, until its TTL ends or the next
  restart. Nothing stops two refreshes under way together from both succeeding.
* **Expiry.** A cached session is served past `expires_at`, by at most one
  lifetime.
* **Logins.** Users that were there at the start can log in; a new one cannot
  (`CachedHashesIntact`), which includes the first administrator of the
  procedure in the repository's README until the process is restarted.
* **Roles.** However many copies of a role there are, none says admin before the
  table does. (They may say client long after: nothing refreshes them.)
* **Registration.** Wallets missing after a registration are exactly those whose
  INSERT went wrong or was never reached; nothing creates them later.
* **Worker.** Rounds, probes and shutdown end; rounds are skipped for probes
  only; the database closes under the worker only after Stop's timeout. The two
  halves of a health answer disagree on the last round only if one ended between
  them, and on the worker only in a shutdown: the body says that it runs, the
  status 503 that it does not.
* **Lists.** Every filter meets its own argument. A walk misses at most one
  row for each row that leaves the list; inserts hide nothing. A total covers
  the rows handed out so far, but for those that left.

Bounds of the ledger runs: three requests on one wallet give every shape of
overlap of a read, a write and a cache set (two to invert an order, one to
consume the result); two requests on two wallets give opposite swaps. Amounts
are chosen so that a withdrawal fits the opening balance exactly (the fee makes
it negative) and a second one does not. Restarts and cancels need no bound: each
request runs once, so the state space is finite.

Bounds of the rate runs: in `rates_admin` two requests and a reader give every
overlap of two writers, or of a writer, a fill and a list; in `rates_batch` the
worker's fill and put meet an update, a delete and a create under a second id;
two rates tell an old one from a new one, also when an operator sets it. Fees and
rates that the columns round are in `rates_admin`, where rows are created and
updated under every overlap; there is one rounded rate, since no request of that
run changes a rate. Requests serve one operation after the other; ids are used
up, so the state space is finite.

Bounds of the auth runs: two requests are enough for a fill against a delete,
two refreshes of one token and a login against a registration; with two tokens
one session can replace another; with a clock of two ticks both lives run out,
and a session refilled just before its end outlives it. Users meet only where
an administrator views another one; `OtherAdmin` stands for an administrator
outside the instance, so one user is enough. Tokens are used up and the clock
is bounded, so the state space is finite; a request may serve any number of
calls.

Bounds of `rate_updater`: one probe meets every stage of a round; two probes
meet each other only at the mutex. Two retries show a first, a middle and a last
attempt (the program has three). Two pairs, one of them passed over, give an
empty round, a round with nothing fetched and a batch; every symbol answers with its
price, with 0 or not at all. `Stale` is the code's own constant.

Bounds of `listings`: three rows with three times and pages of one or two
rows let an insert or a removal fall before, on and behind the current page.
`DefaultLimit` is 1 and `MaxLimit` 2 instead of 20 and 100, with 0, negative and
too large limits among those asked for; a client's first offset is 0 (or a
negative one, which the handler makes 0).

Requests and tokens are symmetric, and so are the ids and rates of `rates_batch`; the runs with `FairSpec` use no symmetry. Deadlock is
checked by every run but `rate_updater`, where the process ends. In the ledger,
rate and auth runs `Restart` is always enabled, so that check says nothing beyond
the absence of errors; that requests do not get stuck is what `RequestsEnd` shows.

Fairness of the ledger: `WF_vars(Serve(q))` per request. The Go scheduler runs
every runnable goroutine and every statement returns (database/sql answers or
fails). Nothing is assumed of clients, cancels and restarts.

Fairness of `RateUpdater`: weak for main's steps, the worker's steps, the timer
and the steps of a probe that needs no lock: goroutines run, requests and
statements return, since each has a timeout. Strong for `Lock`: the mutex is free
again and again, and `sync.Mutex` hands it to a waiter that has waited for 1 ms.
Nothing is assumed of the random choice in the worker's `select`: that is why the
end of the process, and not of the worker, is what is shown (`Stop` and
`Shutdown` have timeouts).

## 5. Proofs

`WalletLedgerProofs` and `JournalProofs` prove, for every set of users, wallets,
requests, readers, jobs and opening balances allowed by `LedgerAssumption`:

| Theorem | Argument |
|---|---|
| `TypeCorrect` | inductive by itself |
| `StagesCorrect` | `StagesFit`: a stage fixes the status of the row and the moved legs; inductive with the type |
| `AnsweredExchangeCorrect` | a part of `StagesFit` |
| `OverdraftBounded` | `FloorInv`: rows, cache entries and local balances are above the floor but for what exchanges with a negative credit took, which only grows; a request past its test has a covered balance |
| `Coherent` | `CoherenceInv`: cache true, `ReadsFresh` (what a sole user read, plus what it moved, is what the row has) and `SoleUser` (a clean wallet has one user at a time); steps are grouped into four kinds (`StepKinds`) |
| `CacheTruthful`, `LostUpdatesExplained` | from `CoherenceInv` |
| `ListsTruthful` | `ListInv`: also the rows in a reader's hands are current unless marked old |
| `JournalImplemented` | refinement: each ledger step is a `Journal` step or a stutter, by `StagesFit` |

`ReconciliationProofs` proves, from `LedgerAssumption` and `RequestsFinite`:

| Theorem | Argument |
|---|---|
| `LegsCorrect` | `LegsFit`: a transfer moves its first leg only, and only after its row is there; an exchange has no row in `transactions`; inductive with type and stages |
| `BalancesAddUp` | `Balanced`: outside `lost`, the balance is the opening balance plus the sum of the *shares*, what each request has in the database right now; an UPDATE that overwrites nobody changes the row by as much as its request's share, and all other shares stay |
| `BooksReconciled` | from the shares to the rows: the pending rows that count are those whose UPDATE was applied, a settled exchange counts on both wallets or on none, and terms that are zero may be left out of a sum |

`PendingRowsExplainBalance` is not inductive: it says nothing while an exchange
is half done, and does not fix which pending rows count. `Balanced` says both
with `moved`, and holds of broken-off and half rolled back exchanges too.
`SumOver` is a fold of the community modules, defined by recursion over the
subsets of a set. Without induction theorems that take an operator, its laws are
proved by smallest counterexamples (`SmallestSubset`, by well-foundedness of the
strict subset order): the recursion has a solution (`SumExists`), which is unique
(`SumUnique`); so a sum may take any element first (`SumTakesAny`), leave out
zeros (`SumOverPart`) and changes by as much as one of its terms (`SumChanges`).

Why `CacheTrueWithoutOverlap` is not inductive: a fill or a SetWallet writes what
the request believes; one must know that the belief is right, which needs that
nobody else used the wallet since the first look, which is what `dirty` and the
spans of stages (`FromSpan`, `ToSpan`) record.

`RateCacheProofs` and `RateEntriesProofs` prove, for every set of pairs, ids,
rates, terms, requests and viewers allowed by `RateAssumption`, with any worker:

| Theorem | Argument |
|---|---|
| `TypeCorrect` | `Shape`: the type, and what a stage says of operation, id and record; one row per pair; an entry is under its own key; the worker loads a list only between its rounds |
| `ListsCorrect` | `ListInv`: also a list being loaded is the table unless marked old; a step keeps rows and lists, drops the lists, or leaves somebody who will |
| `EntriesCorrect`, `KeysCorrect` | `CleanInv`: on each pair that is not dirty a writer is alone, and the records in the hands of the processes are fit to become entries (`HandOk`) |

`EntriesTrue` is not inductive for the reason above, and because it says nothing
while a writer is between its two keys. `CleanInv` is one invariant per pair: a
step on another pair keeps it (`Frame`), a writer's step concerns nobody else
(`Alone`), and what is left are readers, all of whom hold the same row (`Readers`).

`AuthSessionsProofs` proves, for every set of users, currencies, requests and
tokens and all lifetimes allowed by `AuthAssumption`:

| Theorem | Argument |
|---|---|
| `TypeCorrect` | `Shape`: the type, what a stage says of the locals (`Fits`), and that only cached records are shared |
| `SpentTokensDead` | `TokenInv`: a token is drawn once, so a deleted row stays away; a session is cached by the one request that has just created it, or by a fill, which marks the token late if its row is gone |
| `RolesSound` | also the role in every local record is not ahead of the table |
| `SessionsOutliveByOneLife` | the session a request holds was read before it expired, at most one tick ago |
| `BootedUsersServed` | nobody who shares a record, or is about to replace one, works for a user who was there at the start |
| `WalletsComplete` | while a registration works through the currencies, the wallets are those done and not missed; one registration per user (`WalletInv`) |

`RateUpdaterProofs` proves, for all pairs, currencies, market values, numbers of
retries and sets of probes allowed by `UpdaterAssumption`:

| Theorem | Argument |
|---|---|
| `TypeCorrect` | the type, with `attempt < MaxRetries` in a backoff and a pair in hand between two symbols |
| `RoundsSkippedForProbes` | `MutexInv`: who holds the mutex is where the code between Lock and Unlock is |
| `DatabaseClosedLast`, `WorkerServesWhileServing` | `LifeInv`: flag, worker and main keep in step |
| `MixedAnswersExplained` | `MixInv`: with no round ended in between, what the body says of the last round is so still, and none can end under the second lock; a probe past its test of the flag has a body that says running, since the flag is set before main serves and never again (`LifeInv`) |
| `RatesRight` | `RatioInv`: the price kept for a crossed rate is that of its FROM/USDT |

`ListingsProofs` proves, for every set of users, filters, limits, times and rows
allowed by `ListAssumption` (the table and the pages may have any size):

| Theorem | Argument |
|---|---|
| `TypeCorrect` | part of `ListInv` |
| `FiltersHonoured` | `WellFormed`: condition k of a builder has placeholder k and argument k, so a query finds the rows that meet all its conditions (`QueriesFind`); a page is a slice of them (`PageIsSlice`); a row leaves the filter only by leaving the list |
| `TotalsCoverPages` | `RowsCounted`: the rows behind a page were all found, and are found still unless they left |
| `WalksMissFew` | `FewOverlooked`: see below |

That a walk misses few rows is not inductive. `ListInv` counts the rows it has
*overlooked*: those the client has not been given whose place in the order is
before the end of the last page. A row's place is the number of found rows with
a later `created_at` (`Place`, `OrderedPlace`). An insert, whatever its time, can
only move other rows backward, away from that end; a row that leaves moves those
after it forward by one, and since two rows never have the same place
(`PlacesDiffer`) at most one of them passes the end. When a page comes back empty
every row that is still missed has been overlooked. Rows with equal `created_at`
are excepted because PostgreSQL may order them differently in each query.

Only model-checked: the liveness properties `RequestsEnd`, `ProbesAnswer`,
`RoundsEnd` and `ShutdownCompletes` (liveness under fairness is out of the
prover's reach), and the properties of the five runs that find a violation.

## 6. Findings

1. `order_service.go:82`, `:102`: the rollback runs under the request's own
   context and its error is dropped; if the credit failed because the client
   went away, the rollback fails too and the wallet stays debited.
2. `cache_service.go:237` says the entries are "synced with DB via cache_writer";
   no cache writer is ever created and the order of SetWallet calls is not that
   of the UPDATEs.
3. `exchange_rate_repository.go:211`: after the COMMIT the cache is "updated" with
   what `GetByID` finds in the cache, the old rate. Active rates are cached from
   the warm-up on, so new rates reach no customer before a restart.
4. `order_repository.go:118`: the query of `GetExchangeRate` asks for an active
   rate, its cache lookup does not: deactivated pairs can still be exchanged.
5. `auth_service.go:171` blanks the hash of the record that `Register` has just
   put into the cache, which `cache_service.go:52` and `:67` mean to rule out by
   handing out copies: a new user cannot log in before the next restart.

## 7. Not modelled

CancelExchange acts on pending exchanges, and nothing creates one. The cache
writer, `UserRepository.Update` and `GetPendingTransactions` are never called. The
WebSocket's connections, parsing and formatting of requests and answers, DTO
mappers, signatures of tokens, password hashes, validation, e-mail, logging,
configuration and the database connection are I/O or wrappers without state
that a request or the worker changes. A warm-up that fails ends the process
before it serves anything.
