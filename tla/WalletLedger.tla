----------------------------- MODULE WalletLedger -----------------------------
(***************************************************************************)
(* The money path of the backend: WalletService.Deposit and Withdraw,      *)
(* CurrencyExchangeService.CreateExchange and WalletService.GetUserWallets *)
(* on top of WalletRepository, TransactionRepository,                      *)
(* CurrencyExchangeRepository and the wallet entries of CacheService.      *)
(*                                                                         *)
(* Each HTTP request is a process of its own (one goroutine).  One step is *)
(* one SQL statement or one cache operation together with the local code   *)
(* around it: no request holds a lock or a database transaction across two *)
(* of them, so any other request may run in between.  A statement can be   *)
(* applied, refused, or applied with its answer lost; a client can go away *)
(* (its context is cancelled and every later statement of the request      *)
(* fails); the server can be restarted, which empties the cache.           *)
(***************************************************************************)
EXTENDS Integers, FiniteSets

CONSTANTS
    User,       \* registered users
    Wallet,     \* rows of table wallets, one per cache key wallet:<user>:<currency>
    Owner,      \* Owner[w]: the user wallet row w belongs to
    Opening,    \* Opening[w]: balance of w before the requests of this model
    Req,        \* HTTP requests that move money; each runs once
    Reader,     \* goroutines that serve GET /wallets, again and again
    Job,        \* the bodies a request may carry
    Miss        \* what a lookup returns for a key the cache does not hold

\* WithdrawRequest costs 0.1 %; amounts are counted in thousandths of the
\* smallest amount a client asks for, so that the fee is a whole number.
WithdrawFee(amount) == amount \div 1000

Leg == {"from", "to"}

\* A deposit or a withdrawal works on its "from" wallet only (to = from, no
\* credit).  For an exchange `credit` stands for FromAmount * Rate less the
\* fee; nobody refuses a rate's fee above 100 % (UpdateRate), so it may be
\* negative.  The validator refuses amounts that are not positive, and no rate
\* row pairs a currency with itself, so the wallets of an exchange differ.
JobAssumption ==
    Job \subseteq [op : {"deposit", "withdraw", "exchange"}, from : Wallet,
                   to : Wallet, amount : Nat \ {0}, credit : Int]

ExchangeAssumption ==
    \A j \in Job : j.op = "exchange" => j.from # j.to /\ Owner[j.from] = Owner[j.to]

ASSUME LedgerAssumption ==
    /\ Owner \in [Wallet -> User]
    /\ Opening \in [Wallet -> Nat]
    /\ JobAssumption
    /\ ExchangeAssumption
    /\ Miss \notin Int

VARIABLES
    wallets,      \* wallets.balance, per row
    txs,          \* transactions.status of the row a request inserts, "none" before
    exchanges,    \* requests whose row (status completed) is in currency_exchanges
    walletCache,  \* cache entries wallet:<user>:<currency>
    listCache,    \* cache entries wallets:user:<user>
    pc,           \* where a request is
    job,          \* its body, fixed by the client
    bal,          \* bal[q][l]: the balance a request read for its wallet l
    cancelled,    \* requests whose client has gone
    view,         \* the list readers
    moved,        \* history: legs whose balance change is in the database
    taken,        \* history: what exchanges took from the wallet they pay into
    dirty,        \* history: wallets with overlapping users or a lost answer
    lost,         \* history: wallets where an update overwrote another one
    listStale     \* history: users whose cached list may be older than the rows

dbVars == <<wallets, txs, exchanges>>
vars == <<wallets, txs, exchanges, walletCache, listCache, pc, job, bal,
          cancelled, view, moved, taken, dirty, lost, listStale>>

-------------------------------------------------------------------------------
(* Where a request can be.  A name in -ed is the moment between an UPDATE  *)
(* of wallets and the SetWallet that follows it in UpdateBalance.          *)

Idle == {"idle"}
Ended == {"ok", "error", "dead"}
FromWriting == {"moved", "debited", "reverted", "undidDebit"}
ToWriting == {"credited", "undidCredit"}

\* Stages between the first look at a wallet and the last use of it.
FromSpan == {"select", "fill", "lookupTo", "selectTo", "fillTo", "book", "move",
             "debit", "credit", "record", "revert", "undoDebit"}
            \cup FromWriting \cup {"credited"}
ToSpan == {"selectTo", "fillTo", "debit", "debited", "credit", "credited",
           "record", "undoDebit", "undidDebit", "undoCredit", "undidCredit"}

Stage == Idle \cup Ended \cup FromSpan \cup ToSpan \cup {"lookup", "settle"}

WalletOf(q, l) == IF l = "from" THEN job[q].from ELSE job[q].to

\* What a completed request adds to its wallet l.
Delta(q, l) ==
    IF job[q].op = "deposit" THEN job[q].amount
    ELSE IF job[q].op = "withdraw" THEN 0 - (job[q].amount + WithdrawFee(job[q].amount))
    ELSE IF l = "from" THEN 0 - job[q].amount
    ELSE job[q].credit

\* The balance the request believes its wallet l has by its own doing.
Current(q, l) == IF l \in moved[q] THEN bal[q][l] + Delta(q, l) ELSE bal[q][l]

Using(q, w) == \/ pc[q] \in FromSpan /\ job[q].from = w
               \/ pc[q] \in ToSpan /\ job[q].to = w

Writing(q, w) == \/ pc[q] \in FromWriting /\ job[q].from = w
                 \/ pc[q] \in ToWriting /\ job[q].to = w

WalletsOf(u) == {w \in Wallet : Owner[w] = u}

\* What WalletGetUserWalletsQuery may return, and what it returns now.
Lists == UNION {[WalletsOf(u) -> Int] : u \in User}

Balances(u) == [w \in WalletsOf(u) |-> wallets[w]]

\* A list reader: the user it serves, the rows it has read, and (history)
\* whether one of them has changed since.
NoView == [at |-> "idle", user |-> Miss, list |-> Miss, old |-> FALSE]
Selecting(u) == [at |-> "select", user |-> u, list |-> Miss, old |-> FALSE]
Filling(u, rows, isOld) == [at |-> "fill", user |-> u, list |-> rows, old |-> isOld]

View == {NoView} \cup {Selecting(u) : u \in User}
                 \cup [at : {"fill"}, user : User, list : Lists, old : BOOLEAN]

Covered(q) == bal[q]["from"] >= job[q].amount

Live(q) == q \notin cancelled

Goto(q, stage) == pc' = [pc EXCEPT ![q] = stage]

-------------------------------------------------------------------------------
Init ==
    /\ wallets = Opening
    /\ txs = [q \in Req |-> "none"]
    /\ exchanges = {}
    /\ walletCache = [w \in Wallet |-> Miss]
    /\ listCache = [u \in User |-> Miss]
    /\ pc = [q \in Req |-> "idle"]
    /\ job \in [Req -> Job]
    /\ bal = [q \in Req |-> [l \in Leg |-> 0]]
    /\ cancelled = {}
    /\ view = [v \in Reader |-> NoView]
    /\ moved = [q \in Req |-> {}]
    /\ taken = [w \in Wallet |-> 0]
    /\ dirty = {}
    /\ lost = {}
    /\ listStale = {}

\* Mutant of SetWallet: the list is not dropped.
SetWalletKeepsList(w, balance) ==
    /\ walletCache' = [walletCache EXCEPT ![w] = balance]
    /\ UNCHANGED <<listCache, listStale>>

\* CacheService.SetWallet: the wallet's entry is set, the list of its owner
\* dropped.  No request reads both keys, so the two calls are one step.
SetWallet(w, balance) ==
    /\ walletCache' = [walletCache EXCEPT ![w] = balance]
    /\ listCache' = [listCache EXCEPT ![Owner[w]] = Miss]
    /\ listStale' = listStale \ {Owner[w]}

-------------------------------------------------------------------------------
(* WalletRepository.GetByUserAndCurrency, for leg l of request q.          *)

\* Mutant of Lookup: a miss is taken for a hit.
LookupBlind(q, l, onHit, onMiss) ==
    /\ bal' = [bal EXCEPT ![q] = [@ EXCEPT ![l] = walletCache[WalletOf(q, l)]]]
    /\ Goto(q, onHit)
    /\ UNCHANGED <<dbVars, walletCache, listCache, job, cancelled, view, moved, taken, dirty, lost, listStale>>

\* The key is looked up; a hit returns a copy of the entry.
Lookup(q, l, onHit, onMiss) ==
    LET w == WalletOf(q, l)
    IN  /\ dirty' = IF \E p \in Req \ {q} : Using(p, w) THEN dirty \cup {w} ELSE dirty
        /\ \/ /\ walletCache[w] # Miss
              /\ bal' = [bal EXCEPT ![q] = [@ EXCEPT ![l] = walletCache[w]]]
              /\ Goto(q, onHit)
           \/ /\ walletCache[w] = Miss
              /\ Goto(q, onMiss)
              /\ UNCHANGED bal
        /\ UNCHANGED <<dbVars, walletCache, listCache, job, cancelled, view, moved, taken, lost, listStale>>

\* After a miss: SELECT the row.  An error ends the request.
SelectWallet(q, l, onRow) ==
    /\ \/ /\ Live(q)
          /\ bal' = [bal EXCEPT ![q] = [@ EXCEPT ![l] = wallets[WalletOf(q, l)]]]
          /\ Goto(q, onRow)
       \/ /\ Goto(q, "error")
          /\ UNCHANGED bal
    /\ UNCHANGED <<dbVars, walletCache, listCache, job, cancelled, view, moved, taken, dirty, lost, listStale>>

\* The row read goes into the cache, whatever happened to it since.
FillWallet(q, l, next) ==
    /\ SetWallet(WalletOf(q, l), bal[q][l])
    /\ Goto(q, next)
    /\ UNCHANGED <<dbVars, job, bal, cancelled, view, moved, taken, dirty, lost>>

AfterFrom(q) == IF job[q].op = "exchange" THEN "lookupTo" ELSE "book"

LookupFrom(q) == pc[q] = "lookup" /\ Lookup(q, "from", AfterFrom(q), "select")
SelectFrom(q) == pc[q] = "select" /\ SelectWallet(q, "from", "fill")
FillFrom(q) == pc[q] = "fill" /\ FillWallet(q, "from", AfterFrom(q))
LookupTo(q) == pc[q] = "lookupTo" /\ Lookup(q, "to", "debit", "selectTo")
SelectTo(q) == pc[q] = "selectTo" /\ SelectWallet(q, "to", "fillTo")
FillTo(q) == pc[q] = "fillTo" /\ FillWallet(q, "to", "debit")

-------------------------------------------------------------------------------
(* WalletRepository.UpdateBalance, in two steps.                           *)

\* The row of leg l is overwritten with `balance`.  The SELECT by id before
\* the UPDATE only names the cache key; its failure is the last disjunct.
UpdateRow(q, l, balance, legsMoved, onOk, onErr) ==
    LET w == WalletOf(q, l)
        Apply == /\ wallets' = [wallets EXCEPT ![w] = balance]
                 /\ moved' = [moved EXCEPT ![q] = legsMoved]
                 /\ taken' = IF l = "to" /\ balance < bal[q][l]
                             THEN [taken EXCEPT ![w] = @ + (bal[q][l] - balance)] ELSE taken
                 /\ lost' = IF wallets[w] # Current(q, l) THEN lost \cup {w} ELSE lost
                 /\ view' = [v \in Reader |->
                               IF view[v].at = "fill" /\ view[v].user = Owner[w]
                               THEN Filling(view[v].user, view[v].list, TRUE) ELSE view[v]]
    IN  /\ \/ /\ Live(q)
              /\ Apply
              /\ Goto(q, onOk)
              /\ UNCHANGED <<dirty, listStale>>
           \/ /\ Live(q)            \* applied, but the answer never arrives
              /\ Apply
              /\ dirty' = dirty \cup {w}
              /\ listStale' = listStale \cup {Owner[w]}
              /\ Goto(q, onErr)
           \/ /\ Goto(q, onErr)
              /\ UNCHANGED <<wallets, moved, taken, lost, view, dirty, listStale>>
        /\ UNCHANGED <<txs, exchanges, walletCache, listCache, job, bal, cancelled>>

\* Mutant of CacheRow: the entry that was there before the UPDATE stays.
CacheRowSkipped(q, l, balance, next) ==
    /\ Goto(q, next)
    /\ UNCHANGED <<dbVars, walletCache, listCache, job, bal, cancelled, view, moved, taken, dirty, lost, listStale>>

\* SetWallet with the balance just written.
CacheRow(q, l, balance, next) ==
    /\ SetWallet(WalletOf(q, l), balance)
    /\ Goto(q, next)
    /\ UNCHANGED <<dbVars, job, bal, cancelled, view, moved, taken, dirty, lost>>

-------------------------------------------------------------------------------
(* WalletService.Deposit and Withdraw.                                     *)

\* A client's request reaches the service; currency and rate are found.
Start(q) ==
    /\ pc[q] = "idle"
    /\ Goto(q, "lookup")
    /\ UNCHANGED <<dbVars, walletCache, listCache, job, bal, cancelled, view, moved, taken, dirty, lost, listStale>>

\* "insufficient balance": the withdrawal's fee is not part of the test.
Insufficient(q) ==
    /\ \/ pc[q] = "book" /\ job[q].op = "withdraw"
       \/ pc[q] = "debit"
    /\ ~Covered(q)
    /\ Goto(q, "error")
    /\ UNCHANGED <<dbVars, walletCache, listCache, job, bal, cancelled, view, moved, taken, dirty, lost, listStale>>

\* Mutants of Book: the balance is not tested, or the INSERT's error is dropped.
BookUntested(q) ==
    /\ pc[q] = "book"
    /\ txs' = [txs EXCEPT ![q] = "pending"]
    /\ Goto(q, "move")
    /\ UNCHANGED <<wallets, exchanges, walletCache, listCache, job, bal, cancelled, view, moved,
                   taken, dirty, lost, listStale>>

BookUnchecked(q) ==
    /\ pc[q] = "book"
    /\ job[q].op = "withdraw" => Covered(q)
    /\ txs' = [txs EXCEPT ![q] = "pending"] \/ UNCHANGED txs
    /\ Goto(q, "move")
    /\ UNCHANGED <<wallets, exchanges, walletCache, listCache, job, bal, cancelled, view, moved,
                   taken, dirty, lost, listStale>>

\* INSERT INTO transactions, status pending.
Book(q) ==
    /\ pc[q] = "book"
    /\ job[q].op = "withdraw" => Covered(q)
    /\ \/ Live(q) /\ txs' = [txs EXCEPT ![q] = "pending"] /\ Goto(q, "move")
       \/ Live(q) /\ txs' = [txs EXCEPT ![q] = "pending"] /\ Goto(q, "error")
       \/ Goto(q, "error") /\ UNCHANGED txs
    /\ UNCHANGED <<wallets, exchanges, walletCache, listCache, job, bal, cancelled, view, moved,
                   taken, dirty, lost, listStale>>

\* Mutant of Move: the error of UpdateBalance is dropped.
MoveUnchecked(q) ==
    /\ pc[q] = "move"
    /\ UpdateRow(q, "from", bal[q]["from"] + Delta(q, "from"), {"from"}, "moved", "settle")

Move(q) ==
    /\ pc[q] = "move"
    /\ UpdateRow(q, "from", bal[q]["from"] + Delta(q, "from"), {"from"}, "moved", "error")

\* Mutant of Moved: the cache gets the balance from before.
MovedStale(q) ==
    /\ pc[q] = "moved"
    /\ CacheRow(q, "from", bal[q]["from"], "settle")

Moved(q) ==
    /\ pc[q] = "moved"
    /\ CacheRow(q, "from", bal[q]["from"] + Delta(q, "from"), "settle")

\* UPDATE transactions SET status = completed.
Settle(q) ==
    /\ pc[q] = "settle"
    /\ \/ Live(q) /\ txs' = [txs EXCEPT ![q] = "completed"] /\ Goto(q, "ok")
       \/ Live(q) /\ txs' = [txs EXCEPT ![q] = "completed"] /\ Goto(q, "error")
       \/ Goto(q, "error") /\ UNCHANGED txs
    /\ UNCHANGED <<wallets, exchanges, walletCache, listCache, job, bal, cancelled, view, moved,
                   taken, dirty, lost, listStale>>

-------------------------------------------------------------------------------
(* CurrencyExchangeService.CreateExchange, after both wallets are read.    *)

\* Mutant of Debit: the balance is not tested.
DebitUntested(q) ==
    /\ pc[q] = "debit"
    /\ UpdateRow(q, "from", bal[q]["from"] + Delta(q, "from"), {"from"}, "debited", "error")

Debit(q) ==
    /\ pc[q] = "debit"
    /\ Covered(q)
    /\ UpdateRow(q, "from", bal[q]["from"] + Delta(q, "from"), {"from"}, "debited", "error")

Debited(q) ==
    /\ pc[q] = "debited"
    /\ CacheRow(q, "from", bal[q]["from"] + Delta(q, "from"), "credit")

\* Mutants of Credit: the amount of the wrong currency; the error is dropped.
CreditUnconverted(q) ==
    /\ pc[q] = "credit"
    /\ UpdateRow(q, "to", bal[q]["to"] + job[q].amount, {"from", "to"}, "credited", "revert")

CreditUnchecked(q) ==
    /\ pc[q] = "credit"
    /\ UpdateRow(q, "to", bal[q]["to"] + Delta(q, "to"), {"from", "to"}, "credited", "record")

Credit(q) ==
    /\ pc[q] = "credit"
    /\ UpdateRow(q, "to", bal[q]["to"] + Delta(q, "to"), {"from", "to"}, "credited", "revert")

Credited(q) ==
    /\ pc[q] = "credited"
    /\ CacheRow(q, "to", bal[q]["to"] + Delta(q, "to"), "record")

\* INSERT INTO currency_exchanges, status completed.
Record(q) ==
    /\ pc[q] = "record"
    /\ \/ Live(q) /\ exchanges' = exchanges \cup {q} /\ Goto(q, "ok")
       \/ Live(q) /\ exchanges' = exchanges \cup {q} /\ Goto(q, "undoDebit")
       \/ Goto(q, "undoDebit") /\ UNCHANGED exchanges
    /\ UNCHANGED <<wallets, txs, walletCache, listCache, job, bal, cancelled, view, moved,
                   taken, dirty, lost, listStale>>

\* The credit failed: the first wallet gets the balance back that was read
\* before the debit.  The result of this UpdateBalance is not looked at.
Revert(q) ==
    /\ pc[q] = "revert"
    /\ UpdateRow(q, "from", bal[q]["from"], moved[q] \ {"from"}, "reverted", "error")

\* Mutant of Reverted: the cache keeps the debited balance.
RevertedStale(q) ==
    /\ pc[q] = "reverted"
    /\ CacheRow(q, "from", bal[q]["from"] + Delta(q, "from"), "error")

Reverted(q) ==
    /\ pc[q] = "reverted"
    /\ CacheRow(q, "from", bal[q]["from"], "error")

\* The record failed: both wallets get back what was read; the second
\* UpdateBalance runs whatever came of the first.
UndoDebit(q) ==
    /\ pc[q] = "undoDebit"
    /\ UpdateRow(q, "from", bal[q]["from"], moved[q] \ {"from"}, "undidDebit", "undoCredit")

UndidDebit(q) ==
    /\ pc[q] = "undidDebit"
    /\ CacheRow(q, "from", bal[q]["from"], "undoCredit")

\* Mutant of UndoCredit: the rollback is tried until it works.
UndoCreditForever(q) ==
    /\ pc[q] = "undoCredit"
    /\ UpdateRow(q, "to", bal[q]["to"], moved[q] \ {"to"}, "undidCredit", "undoCredit")

UndoCredit(q) ==
    /\ pc[q] = "undoCredit"
    /\ UpdateRow(q, "to", bal[q]["to"], moved[q] \ {"to"}, "undidCredit", "error")

UndidCredit(q) ==
    /\ pc[q] = "undidCredit"
    /\ CacheRow(q, "to", bal[q]["to"], "error")

-------------------------------------------------------------------------------
(* WalletRepository.GetUserWallets.  A hit changes nothing.                *)

ListMiss(v, u) ==
    /\ view[v].at = "idle"
    /\ listCache[u] = Miss
    /\ view' = [view EXCEPT ![v] = Selecting(u)]
    /\ UNCHANGED <<dbVars, walletCache, listCache, pc, job, bal, cancelled, moved, taken, dirty, lost, listStale>>

ListSelect(v) ==
    /\ view[v].at = "select"
    /\ \/ view' = [view EXCEPT ![v] = Filling(view[v].user, Balances(view[v].user), FALSE)]
       \/ view' = [view EXCEPT ![v] = NoView]
    /\ UNCHANGED <<dbVars, walletCache, listCache, pc, job, bal, cancelled, moved, taken, dirty, lost, listStale>>

\* SetUserWallets with the rows that were read.
ListFill(v) ==
    /\ view[v].at = "fill"
    /\ listCache' = [listCache EXCEPT ![view[v].user] = view[v].list]
    /\ listStale' = IF view[v].old THEN listStale \cup {view[v].user}
                                   ELSE listStale \ {view[v].user}
    /\ view' = [view EXCEPT ![v] = NoView]
    /\ UNCHANGED <<dbVars, walletCache, pc, job, bal, cancelled, moved, taken, dirty, lost>>

-------------------------------------------------------------------------------
(* The environment.                                                        *)

\* The client disconnects: net/http cancels the request's context.
Cancel(q) ==
    /\ pc[q] \notin Idle \cup Ended
    /\ Live(q)
    /\ cancelled' = cancelled \cup {q}
    /\ UNCHANGED <<dbVars, walletCache, listCache, pc, job, bal, view, moved, taken, dirty, lost, listStale>>

\* The process dies and is started again: requests in flight are gone, the
\* cache is empty (the warm-up loads no wallets), the rows stay.
Restart ==
    /\ pc' = [q \in Req |-> IF pc[q] \in Idle \cup Ended THEN pc[q] ELSE "dead"]
    /\ walletCache' = [w \in Wallet |-> Miss]
    /\ listCache' = [u \in User |-> Miss]
    /\ view' = [v \in Reader |-> NoView]
    /\ dirty' = {}
    /\ listStale' = {}
    /\ UNCHANGED <<dbVars, job, bal, cancelled, moved, taken, lost>>

-------------------------------------------------------------------------------
ReadWallets(q) == \/ LookupFrom(q) \/ SelectFrom(q) \/ FillFrom(q)
                  \/ LookupTo(q) \/ SelectTo(q) \/ FillTo(q)

Transfer(q) == Book(q) \/ Move(q) \/ Moved(q) \/ Settle(q)

Swap(q) == Debit(q) \/ Debited(q) \/ Credit(q) \/ Credited(q) \/ Record(q)

Rollback(q) == \/ Revert(q) \/ Reverted(q) \/ UndoDebit(q) \/ UndidDebit(q)
               \/ UndoCredit(q) \/ UndidCredit(q)

\* What the request's own goroutine does once it is started.
Serve(q) == ReadWallets(q) \/ Insufficient(q) \/ Transfer(q) \/ Swap(q) \/ Rollback(q)

Next ==
    \/ \E q \in Req : Start(q) \/ Serve(q) \/ Cancel(q)
    \/ \E v \in Reader : ListSelect(v) \/ ListFill(v) \/ (\E u \in User : ListMiss(v, u))
    \/ Restart

Spec == Init /\ [][Next]_vars

\* Every goroutine the Go scheduler runs goes on, and every statement returns
\* (database/sql answers or fails); clients need not start or cancel anything.
FairSpec == Spec /\ \A q \in Req : WF_vars(Serve(q))

-------------------------------------------------------------------------------
(* Properties.                                                             *)

\* The type of every variable.
TypeOK ==
    /\ wallets \in [Wallet -> Int]
    /\ txs \in [Req -> {"none", "pending", "completed"}]
    /\ exchanges \subseteq Req
    /\ walletCache \in [Wallet -> Int \cup {Miss}]
    /\ listCache \in [User -> {Miss} \cup Lists]
    /\ pc \in [Req -> Stage]
    /\ job \in [Req -> Job]
    /\ bal \in [Req -> [Leg -> Int]]
    /\ cancelled \subseteq Req
    /\ view \in [Reader -> View]
    /\ moved \in [Req -> SUBSET Leg]
    /\ taken \in [Wallet -> Nat]
    /\ dirty \subseteq Wallet
    /\ lost \subseteq Wallet
    /\ listStale \subseteq User

\* No balance, in a row, in the cache or in a request's hands, is ever below
\* zero by more than the fee of one withdrawal and what exchanges with a
\* negative credit took from that wallet, which nothing tests: whatever
\* requests overlap, fail, roll back or are cut off, two withdrawals never add
\* up to a deeper overdraft (every write is absolute and starts from a balance
\* that was tested, wallet_service.go:81 and order_service.go:69).
AboveFloor(n) == n >= 0 \/ \E j \in Job : j.op = "withdraw" /\ n >= 0 - WithdrawFee(j.amount)

OverdraftExplained ==
    /\ \A w \in Wallet :
          /\ AboveFloor(wallets[w] + taken[w])
          /\ walletCache[w] # Miss => AboveFloor(walletCache[w] + taken[w])
    /\ \A q \in Req, l \in Leg : AboveFloor(bal[q][l] + taken[WalletOf(q, l)])

\* The cache tells the truth about a wallet that no two requests used at the
\* same time and none of whose updates lost its answer since the server
\* started: outside the window between an UPDATE and its SetWallet, the entry
\* is absent or equals the row ("synced with DB", cache_service.go:237).
CacheTrueWithoutOverlap ==
    \A w \in Wallet \ dirty :
        (\A q \in Req : ~Writing(q, w)) => walletCache[w] \in {Miss, wallets[w]}

\* A step overwrites somebody else's balance change (UpdateBalance writes an
\* absolute value, wallet_repository.go:99) only on a wallet that two requests
\* used at once or whose cached balance missed a lost answer.
LostUpdateNeedsOverlap == [][lost' \subseteq lost \cup dirty]_vars

\* A cached wallet list that is not known to be older than the rows shows the
\* rows, unless a request is between an UPDATE and the SetWallet that drops
\* the list: a stale list lives only until the next SetWallet of that user.
ListTrueUnlessOld ==
    \A u \in User \ listStale :
        (\A q \in Req, w \in WalletsOf(u) : ~Writing(q, w)) => listCache[u] \in {Miss, Balances(u)}

\* A row in currency_exchanges says completed only if both legs were moved and
\* neither was given back, once the client was told the exchange succeeded.
AnsweredExchangeMovedBothLegs ==
    \A q \in Req : pc[q] = "ok" /\ job[q].op = "exchange" => q \in exchanges /\ moved[q] = Leg

\* The deposits and withdrawals keep a write-ahead journal in transactions:
\* every step of the ledger is a step of module Journal or leaves it alone.
Books == INSTANCE Journal WITH
            row <- txs,
            applied <- {q \in Req : job[q].op # "exchange" /\ moved[q] # {}}

WriteAheadJournal == Books!Spec

\* A request that was started is answered or dies with the server.
RequestsEnd == \A q \in Req : (pc[q] = "lookup") ~> (pc[q] \in Ended)

-------------------------------------------------------------------------------
(* What comments of the code say and the code does not keep.               *)

\* order_service.go:81 "Rollback the first update" and :101 "Rollback wallet
\* updates": once the service is done with the first wallet's rollback, that
\* wallet has the balance again that it had before the exchange.
RollbackRestores ==
    [][\A q \in Req :
        pc[q] \in {"revert", "undoDebit"} /\ pc'[q] \notin {pc[q], "dead"}
            => wallets'[job[q].from] = bal[q]["from"]]_vars

\* cache_service.go:237 "No TTL - synced with DB via cache_writer": when every
\* request has been answered with success, cached balances are the rows'.
CacheSynced ==
    (\A q \in Req : pc[q] = "ok") => \A w \in Wallet : walletCache[w] \in {Miss, wallets[w]}

===============================================================================
