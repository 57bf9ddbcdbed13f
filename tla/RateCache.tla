------------------------------- MODULE RateCache -------------------------------
(***************************************************************************)
(* Exchange rates: the rows of table exchange_rates, the four kinds of     *)
(* cache entries made of them (by pair, by id, the list of all rates, the  *)
(* list of active rates), the operations of ExchangeRateRepository and     *)
(* ExchangeRatesService, the rate lookup of CreateExchange, and the part   *)
(* of the rate updater that reads and writes them.                         *)
(*                                                                         *)
(* As in WalletLedger one step is one SQL statement or one cache operation *)
(* with the local code around it, and a statement can be applied, fail, or *)
(* be applied with its answer lost.  A lookup that hits and only answers   *)
(* the caller changes nothing and is no step.                              *)
(***************************************************************************)
EXTENDS Naturals, FiniteSets

CONSTANTS
    Pair,        \* ordered pairs of currencies
    Id,          \* values of exchange_rates.id, each handed out at most once
    PairOf,      \* PairOf[i]: the pair the row with id i is inserted for
    Rate,        \* values of column rate
    Terms,       \* values of the columns the admin updates: fee and is_active
    ActiveTerms, \* those with is_active = true
    StoredRate,  \* the column keeps of a rate what DECIMAL(20,8) can hold,
    StoredTerms, \* and of a fee what DECIMAL(5,2) can
    Quoted,      \* pairs the updater asks Binance for: no leg is a crypto currency
    Req,         \* requests about single rates; each serves one after the other
    Viewer,      \* requests for one of the two lists
    Worker,      \* the rate updater: one process, or none
    Fresh, Gone, \* a row that was not inserted yet, a row that was deleted
    Miss         \* what a lookup returns for a key the cache does not hold

\* A row of exchange_rates, or the copy of one in the cache.
Record == [id : Id, rate : Rate, terms : Terms]

\* What the table makes of a record that is written to it.
Stored(rec) == [id |-> rec.id, rate |-> StoredRate[rec.rate], terms |-> StoredTerms[rec.terms]]

ASSUME RateAssumption ==
    /\ PairOf \in [Id -> Pair]
    /\ ActiveTerms \subseteq Terms
    /\ StoredRate \in [Rate -> Rate] /\ StoredTerms \in [Terms -> Terms]
    /\ \A r \in Rate : StoredRate[StoredRate[r]] = StoredRate[r]
    /\ \A t \in Terms : /\ StoredTerms[StoredTerms[t]] = StoredTerms[t]
                        /\ StoredTerms[t] \in ActiveTerms <=> t \in ActiveTerms
    /\ Quoted \subseteq Pair
    /\ Req \cap Worker = {} /\ Viewer \cap Worker = {}
    /\ Miss \notin Id /\ Miss \notin Pair /\ Miss \notin Record
    /\ Fresh \notin Record /\ Gone \notin Record

VARIABLES
    rows,      \* exchange_rates, by id
    byPair,    \* entries exchange_rate:<from>:<to>
    byId,      \* entries exchange_rate:id:<id>
    lists,     \* entries exchange_rates:all and exchange_rates:active
    st,        \* where a process is, its operation and the record in its hands
    alias,     \* alias[x]: the entries that are the very record x holds a pointer to
    view,      \* who is loading a list
    batch,     \* the update round of the worker
    dirty,     \* history: pairs whose cached terms may be wrong, see Note
    frozen,    \* history: ids whose rate was changed while an old one was cached
    listOld    \* history: lists that may be older than the rows

cacheVars == <<byPair, byId, lists>>
vars == <<rows, byPair, byId, lists, st, alias, view, batch, dirty, frozen, listOld>>

-------------------------------------------------------------------------------
Proc == Req \cup Worker
Key == {"pair", "id"}
List == {"all", "active"}

\* A process on its way through GetByID, a statement or a cache update.  Op
\* "write" is the second half of "update", "again" that of "refresh".
Op == {"exchange", "pair", "get", "update", "write", "create", "delete", "refresh", "again"}
Stage == {"select", "putPair", "putId", "assign", "update", "dropPair", "dropId"}
Idle == [at |-> "idle", op |-> "none", pair |-> Miss, id |-> Miss, rec |-> Miss]
Busy(at, op, p, i, rec) == [at |-> at, op |-> op, pair |-> p, id |-> i, rec |-> rec]

NoView == [at |-> "idle", list |-> Miss, rates |-> Miss, old |-> FALSE]
Selecting(l) == [at |-> "select", list |-> l, rates |-> Miss, old |-> FALSE]
Filling(l, rates, isOld) == [at |-> "fill", list |-> l, rates |-> rates, old |-> isOld]

NoBatch == [at |-> "idle", updates |-> Miss, left |-> {}]

Live == {i \in Id : rows[i] \in Record}

\* ExchangeRateWithCurrenciesQuery and ExchangeRateGetActiveQuery.  The
\* currencies are all active: no code deactivates one.
Table(l) == {rows[i] : i \in {j \in Live : l = "active" => rows[j].terms \in ActiveTerms}}

\* The rows a SELECT of x returns: by id, by pair, or by pair and active.
Found(x) == {i \in Live : /\ PairOf[i] = st[x].pair
                          /\ st[x].id # Miss => i = st[x].id
                          /\ st[x].op = "exchange" => rows[i].terms \in ActiveTerms}

-------------------------------------------------------------------------------
(* Who is at work on a pair, from the first look at its row, or at its     *)
(* entry to write from, to the last cache operation.                       *)

UsedBy(x) ==
    (IF st[x].at = "idle" THEN {} ELSE {st[x].pair})
    \cup (IF x \in Worker THEN {PairOf[i] : i \in batch[x].left} ELSE {})

WrittenBy(x) ==
    (IF st[x].op \in {"update", "write", "create", "delete"} THEN {st[x].pair} ELSE {})
    \cup (IF x \in Worker THEN {PairOf[i] : i \in batch[x].left} ELSE {})

Used == UNION {UsedBy(x) : x \in Proc}

\* Pairs with two processes at work, one of them a writer.
Clash == {p \in Pair : \E x, y \in Proc : x # y /\ p \in WrittenBy(x) /\ p \in UsedBy(y)}

\* Every step notes clashes; a step names the pairs it spoils by itself.
Note(S) == dirty' = dirty \cup S \cup Clash'

\* A change of the rows makes the lists that are being loaded old.
RowsChange == view' = [v \in DOMAIN view |->
    IF view[v].at = "fill" THEN Filling(view[v].list, view[v].rates, TRUE) ELSE view[v]]

\* A write whose answer was lost does not drop the lists.
ListsMissed == listOld' = listOld \cup {l \in List : lists[l] # Miss}

DropBoth == lists' = [l \in List |-> Miss] /\ listOld' = {}

\* Entries of `key` are replaced or removed: no other process points into them.
\* x has a pointer into the new entry when it fills the cache for an update.
Repoint(x, key, holders) ==
    alias' = [y \in Proc |->
        IF y = x /\ st[x].op = "update" THEN alias[y] \cup {key}
        ELSE IF y \in holders THEN alias[y] \ {key}
        ELSE alias[y]]

PairHolders(p) == {y \in Proc : st[y].pair = p}
IdHolders(i) == {y \in Proc : st[y].id = i}

\* The operation of x is over.  If x is the worker, so is one turn of its loop.
Finish(x) ==
    /\ st' = [st EXCEPT ![x] = Idle]
    /\ batch' = [w \in Worker |->
        IF w = x THEN [batch[w] EXCEPT !.left = @ \ {st[x].id}] ELSE batch[w]]

Goto(x, at, op, i, rec) == st' = [st EXCEPT ![x] = Busy(at, op, st[x].pair, i, rec)]

-------------------------------------------------------------------------------
\* loadExchangeRates: the active rows under both keys, then the lists, one
\* after the other; a failed SELECT of a list ends the warm-up without an error.
WarmUp(table) ==
    LET warm == {i \in Id : table[i] \in Record /\ table[i].terms \in ActiveTerms}
        all == {table[i] : i \in {j \in Id : table[j] \in Record}}
        active == {table[i] : i \in warm}
    IN  [byId : {[i \in Id |-> IF i \in warm THEN table[i] ELSE Miss]},
         byPair : {[p \in Pair |-> IF \E i \in warm : PairOf[i] = p
                                   THEN table[CHOOSE i \in warm : PairOf[i] = p] ELSE Miss]},
         lists : {[l \in List |-> Miss],
                  [l \in List |-> IF l = "all" THEN all ELSE Miss],
                  [l \in List |-> IF l = "all" THEN all ELSE active]}]

\* A migrated table: at most one row for a pair, each under its own id.
Seeded(table) ==
    /\ \A i \in Id : table[i] # Fresh => table[i].id = i /\ Stored(table[i]) = table[i]
    /\ \A i, j \in Id : table[i] # Fresh /\ table[j] # Fresh /\ PairOf[i] = PairOf[j] => i = j

Init ==
    /\ rows \in [Id -> Record \cup {Fresh}] /\ Seeded(rows)
    /\ \E warm \in WarmUp(rows) :
        byPair = warm.byPair /\ byId = warm.byId /\ lists = warm.lists
    /\ st = [x \in Proc |-> Idle]
    /\ alias = [x \in Proc |-> {}]
    /\ view = [v \in Viewer \cup Worker |-> NoView]
    /\ batch = [w \in Worker |-> NoBatch]
    /\ dirty = {} /\ frozen = {} /\ listOld = {}

-------------------------------------------------------------------------------
(* ExchangeRateRepository.GetByPair, GetByID and the lookup of             *)
(* CurrencyExchangeRepository.GetExchangeRate, on a miss.                  *)

Ask(x, op, p, i) ==
    /\ st[x] = Idle
    /\ st' = [st EXCEPT ![x] = Busy("select", op, p, i, Miss)]
    /\ UNCHANGED <<rows, cacheVars, alias, view, batch, frozen, listOld>>
    /\ Note({})

GetExchangeRate(q, p) == byPair[p] = Miss /\ Ask(q, "exchange", p, Miss)
GetByPair(q, p) == byPair[p] = Miss /\ Ask(q, "pair", p, Miss)
GetById(q, i) == byId[i] = Miss /\ Ask(q, "get", PairOf[i], i)

\* The SELECT: a row, or no row, or an error.
Select(x) ==
    /\ st[x].at = "select"
    /\ \/ \E i \in Found(x) : Goto(x, "putPair", st[x].op, i, rows[i]) /\ UNCHANGED batch
       \/ Finish(x)
    /\ UNCHANGED <<rows, cacheVars, alias, view, frozen, listOld>>
    /\ Note({})

\* Mutant of PutPair: only the entry by id will be set.
PutPairSkipped(x) ==
    /\ st[x].at = "putPair"
    /\ IF st[x].op = "exchange" THEN Finish(x)
       ELSE Goto(x, "putId", st[x].op, st[x].id, st[x].rec) /\ UNCHANGED batch
    /\ UNCHANGED <<rows, cacheVars, alias, view, frozen, listOld>>
    /\ Note({})

\* The entry by pair is set: SetExchangeRate for an exchange, else the first
\* half of UpdateExchangeRateCache or UpdateExchangeRateCacheOnly.
PutPair(x) ==
    LET p == st[x].pair
    IN  /\ st[x].at = "putPair"
        /\ byPair' = [byPair EXCEPT ![p] = st[x].rec]
        /\ Repoint(x, "pair", PairHolders(p))
        /\ IF st[x].op = "exchange" THEN Finish(x)
           ELSE Goto(x, "putId", st[x].op, st[x].id, st[x].rec) /\ UNCHANGED batch
        /\ UNCHANGED <<rows, byId, lists, view, frozen, listOld>>
        /\ Note({})

\* Mutant of PutId: the lists stay.
PutIdKeepsLists(x) ==
    LET i == st[x].id
    IN  /\ st[x].at = "putId"
        /\ byId' = [byId EXCEPT ![i] = st[x].rec]
        /\ Repoint(x, "id", IdHolders(i))
        /\ CASE st[x].op = "update" -> Goto(x, "assign", "update", i, st[x].rec) /\ UNCHANGED batch
             [] st[x].op = "refresh" -> Goto(x, "putPair", "again", i, st[x].rec) /\ UNCHANGED batch
             [] OTHER -> Finish(x)
        /\ UNCHANGED <<rows, byPair, lists, view, frozen, listOld>>
        /\ Note({})

\* The entry by id is set and, but for UpdateExchangeRateCacheOnly, the lists
\* are dropped.  One step: requests read one of these keys, and the worker
\* drops the lists itself between reading an entry by id and the next list.
PutId(x) ==
    LET i == st[x].id
    IN  /\ st[x].at = "putId"
        /\ byId' = [byId EXCEPT ![i] = st[x].rec]
        /\ Repoint(x, "id", IdHolders(i))
        /\ IF st[x].op = "again" THEN UNCHANGED <<lists, listOld>> ELSE DropBoth
        /\ CASE st[x].op = "update" -> Goto(x, "assign", "update", i, st[x].rec) /\ UNCHANGED batch
             [] st[x].op = "refresh" -> Goto(x, "putPair", "again", i, st[x].rec) /\ UNCHANGED batch
             [] OTHER -> Finish(x)
        /\ UNCHANGED <<rows, byPair, view, frozen>>
        /\ Note({})

-------------------------------------------------------------------------------
(* ExchangeRatesService.UpdateRate.                                        *)

\* GetByID: a hit gives a copy of the entry, a miss goes to the database.
UpdateRate(q, i) ==
    /\ st[q] = Idle
    /\ st' = [st EXCEPT ![q] =
                IF byId[i] # Miss THEN Busy("assign", "update", PairOf[i], i, byId[i])
                ELSE Busy("select", "update", PairOf[i], i, Miss)]
    /\ UNCHANGED <<rows, cacheVars, alias, view, batch, frozen, listOld>>
    /\ Note({})

\* rate.Fee and rate.IsActive are assigned.  After a miss the record is the
\* one GetByID has just put into the cache, not a copy: the entries that still
\* are that record change with it, before the UPDATE is even sent.
Assign(q, t) ==
    /\ st[q].at = "assign"
    /\ Goto(q, "update", "update", st[q].id, [st[q].rec EXCEPT !.terms = t])
    /\ byPair' = IF "pair" \in alias[q]
                 THEN [byPair EXCEPT ![st[q].pair] = [st[q].rec EXCEPT !.terms = t]] ELSE byPair
    /\ byId' = IF "id" \in alias[q]
               THEN [byId EXCEPT ![st[q].id] = [st[q].rec EXCEPT !.terms = t]] ELSE byId
    /\ UNCHANGED <<rows, lists, alias, view, batch, frozen, listOld>>
    /\ Note({})

\* Mutant of UpdateRow: the cache is not told.
UpdateRowUncached(q) ==
    /\ st[q].at = "update"
    /\ st[q].id \in Live
    /\ rows' = [rows EXCEPT ![st[q].id] = [@ EXCEPT !.terms = StoredTerms[st[q].rec.terms]]]
    /\ RowsChange
    /\ alias' = [alias EXCEPT ![q] = {}]
    /\ Finish(q)
    /\ UNCHANGED <<cacheVars, frozen, listOld>>
    /\ Note({})

\* UPDATE fee and is_active of the row; without a row it is an error.  Only
\* updated_at comes back: what will be cached is the fee the admin sent, not
\* the one the column keeps.  An error leaves the entries Assign has changed
\* as they are.
UpdateRow(q) ==
    LET i == st[q].id
        Apply == /\ i \in Live
                 /\ rows' = [rows EXCEPT ![i] =
                                [rows[i] EXCEPT !.terms = StoredTerms[st[q].rec.terms]]]
                 /\ RowsChange
    IN  /\ st[q].at = "update"
        /\ alias' = [alias EXCEPT ![q] = {}]
        /\ \/ /\ Apply
              /\ Goto(q, "putPair", "write", i, st[q].rec)
              /\ UNCHANGED <<batch, listOld>>
              /\ Note({})
           \/ /\ Apply
              /\ Finish(q)
              /\ Note({st[q].pair})
              /\ ListsMissed
           \/ /\ Finish(q)
              /\ Note(IF alias[q] # {} THEN {st[q].pair} ELSE {})
              /\ UNCHANGED <<rows, view, listOld>>
        /\ UNCHANGED <<cacheVars, frozen>>

-------------------------------------------------------------------------------
(* CreateRate and DeleteRate.  A statement that fails changes nothing.     *)

\* Mutant of CreateRate: the id of the new row is not read back.
CreateRateUnscanned(q, i, r, t) ==
    /\ st[q] = Idle
    /\ rows[i] = Fresh
    /\ \A j \in Live : PairOf[j] # PairOf[i]
    /\ rows' = [rows EXCEPT ![i] = Stored([id |-> i, rate |-> r, terms |-> t])]
    /\ RowsChange
    /\ st' = [st EXCEPT ![q] = Busy("putPair", "create", PairOf[i], i,
                                    [id |-> Miss, rate |-> r, terms |-> t])]
    /\ UNCHANGED <<cacheVars, alias, batch, frozen, listOld>>
    /\ Note({})

\* INSERT: the database refuses a second row for a pair.  Of the columns it
\* gives back only the id: what will be cached is the rate and fee as sent.
CreateRate(q, i, r, t) ==
    /\ st[q] = Idle
    /\ rows[i] = Fresh
    /\ \A j \in Live : PairOf[j] # PairOf[i]
    /\ rows' = [rows EXCEPT ![i] = Stored([id |-> i, rate |-> r, terms |-> t])]
    /\ RowsChange
    /\ UNCHANGED <<cacheVars, alias, batch, frozen>>
    /\ \/ /\ st' = [st EXCEPT ![q] = Busy("putPair", "create", PairOf[i], i,
                                          [id |-> i, rate |-> r, terms |-> t])]
          /\ Note({})
          /\ UNCHANGED listOld
       \/ /\ UNCHANGED st
          /\ Note({PairOf[i]})
          /\ ListsMissed

\* DELETE ... RETURNING the pair.
DeleteRate(q, i) ==
    /\ st[q] = Idle
    /\ i \in Live
    /\ rows' = [rows EXCEPT ![i] = Gone]
    /\ RowsChange
    /\ UNCHANGED <<cacheVars, alias, batch, frozen>>
    /\ \/ /\ st' = [st EXCEPT ![q] = Busy("dropPair", "delete", PairOf[i], i, Miss)]
          /\ Note({})
          /\ UNCHANGED listOld
       \/ /\ UNCHANGED st
          /\ Note({PairOf[i]})
          /\ ListsMissed

\* InvalidateExchangeRateCache, in two steps.
DropPair(q) ==
    /\ st[q].at = "dropPair"
    /\ byPair' = [byPair EXCEPT ![st[q].pair] = Miss]
    /\ Repoint(q, "pair", PairHolders(st[q].pair))
    /\ Goto(q, "dropId", "delete", st[q].id, Miss)
    /\ UNCHANGED <<rows, byId, lists, view, batch, frozen, listOld>>
    /\ Note({})

\* Mutant of DropId: the entry by id stays.
DropIdSkipped(q) ==
    /\ st[q].at = "dropId"
    /\ DropBoth
    /\ Finish(q)
    /\ UNCHANGED <<rows, byPair, byId, alias, view, frozen>>
    /\ Note({})

DropId(q) ==
    /\ st[q].at = "dropId"
    /\ byId' = [byId EXCEPT ![st[q].id] = Miss]
    /\ DropBoth
    /\ Repoint(q, "id", IdHolders(st[q].id))
    /\ Finish(q)
    /\ UNCHANGED <<rows, byPair, view, frozen>>
    /\ Note({})

-------------------------------------------------------------------------------
(* GetAll and GetActive, on a miss.  The worker reads the active list.     *)

ListMiss(v, l) ==
    /\ view[v] = NoView
    /\ lists[l] = Miss
    /\ v \in Worker => l = "active" /\ batch[v] = NoBatch
    /\ view' = [view EXCEPT ![v] = Selecting(l)]
    /\ UNCHANGED <<rows, cacheVars, st, alias, batch, dirty, frozen, listOld>>

ListSelect(v) ==
    /\ view[v].at = "select"
    /\ \/ view' = [view EXCEPT ![v] = Filling(view[v].list, Table(view[v].list), FALSE)]
       \/ view' = [view EXCEPT ![v] = NoView]
    /\ UNCHANGED <<rows, cacheVars, st, alias, batch, dirty, frozen, listOld>>

\* The new rates the worker may come back with: Binance answers for some of
\* the quoted pairs of the list, or for none, which ends the round.
Quotes(rates) ==
    LET asked == {r.id : r \in {s \in rates : PairOf[s.id] \in Quoted}}
    IN  UNION {[some -> Rate] : some \in SUBSET asked \ {{}}}

AskBinance(w, rates) ==
    \/ batch' = [batch EXCEPT ![w] = NoBatch]
    \/ \E u \in Quotes(rates) :
          batch' = [batch EXCEPT ![w] = [at |-> "commit", updates |-> u, left |-> {}]]

\* The list goes into the cache, whatever happened to the rows since.
ListFill(v) ==
    LET l == view[v].list
    IN  /\ view[v].at = "fill"
        /\ lists' = [lists EXCEPT ![l] = view[v].rates]
        /\ listOld' = IF view[v].old THEN listOld \cup {l} ELSE listOld \ {l}
        /\ view' = [view EXCEPT ![v] = NoView]
        /\ IF v \in Worker THEN AskBinance(v, view[v].rates) ELSE UNCHANGED batch
        /\ UNCHANGED <<rows, byPair, byId, st, alias, dirty, frozen>>

-------------------------------------------------------------------------------
(* RateUpdater.performUpdate and ExchangeRateRepository.BatchUpdate.       *)

\* The active list is cached.
Fetch(w) ==
    /\ view[w] = NoView /\ batch[w] = NoBatch
    /\ lists["active"] # Miss
    /\ AskBinance(w, lists["active"])
    /\ UNCHANGED <<rows, cacheVars, st, alias, view, dirty, frozen, listOld>>

Cached(i) == byId[i] # Miss \/ byPair[PairOf[i]] # Miss

\* One UPDATE of all rates, and COMMIT; if a row is missing, or anything
\* fails, nothing changes and the caller tries a new round.  If the answer is
\* lost the worker goes on like that without having met who is at work on
\* the pairs, so these are spoiled at once.
Commit(w) ==
    LET u == batch[w].updates
        Apply == /\ DOMAIN u \subseteq Live
                 /\ rows' = [i \in Id |->
                       IF i \in DOMAIN u THEN [rows[i] EXCEPT !.rate = StoredRate[u[i]]]
                       ELSE rows[i]]
                 /\ RowsChange
    IN  /\ batch[w].at = "commit"
        /\ UNCHANGED <<cacheVars, st, alias>>
        /\ \/ /\ Apply
              /\ batch' = [batch EXCEPT ![w] = [at |-> "refresh", updates |-> u, left |-> DOMAIN u]]
              /\ frozen' = frozen \cup {i \in DOMAIN u : Cached(i)}
              /\ UNCHANGED listOld
              /\ Note({})
           \/ /\ Apply
              /\ batch' = [batch EXCEPT ![w] = NoBatch]
              /\ frozen' = frozen \cup {i \in DOMAIN u : Cached(i)}
              /\ ListsMissed
              /\ Note({PairOf[i] : i \in DOMAIN u} \cap Used)
           \/ /\ batch' = [batch EXCEPT ![w] = NoBatch]
              /\ UNCHANGED <<rows, view, frozen, listOld>>
              /\ Note({})

\* The loop "update cache for all updated rates": GetByID answers from the
\* cache if it can; the record is then put under both keys (again).
Refresh(w, i) ==
    /\ batch[w].at = "refresh" /\ i \in batch[w].left
    /\ st[w] = Idle
    /\ st' = [st EXCEPT ![w] =
                IF byId[i] # Miss THEN Busy("putPair", "again", PairOf[i], i, byId[i])
                ELSE Busy("select", "refresh", PairOf[i], i, Miss)]
    /\ UNCHANGED <<rows, cacheVars, alias, view, batch, frozen, listOld>>
    /\ Note({})

\* Mutant of DropLists: the lists are forgotten.
DropListsForgotten(w) ==
    /\ batch[w].at = "refresh" /\ batch[w].left = {}
    /\ st[w] = Idle
    /\ batch' = [batch EXCEPT ![w] = NoBatch]
    /\ UNCHANGED <<rows, cacheVars, st, alias, view, dirty, frozen, listOld>>

\* InvalidateExchangeRateListCaches, when the loop is over.
DropLists(w) ==
    /\ batch[w].at = "refresh" /\ batch[w].left = {}
    /\ st[w] = Idle
    /\ DropBoth
    /\ batch' = [batch EXCEPT ![w] = NoBatch]
    /\ UNCHANGED <<rows, byPair, byId, st, alias, view, dirty, frozen>>

-------------------------------------------------------------------------------
\* An operator sets the rate of a row in SQL while the server runs, as the
\* documentation asks for.  Nobody tells the cache.
EditRate(i, r) ==
    /\ i \in Live
    /\ rows' = [rows EXCEPT ![i] = [rows[i] EXCEPT !.rate = StoredRate[r]]]
    /\ RowsChange
    /\ frozen' = IF Cached(i) THEN frozen \cup {i} ELSE frozen
    /\ ListsMissed
    /\ UNCHANGED <<cacheVars, st, alias, batch>>
    /\ Note({PairOf[i]} \cap Used)

\* The process dies and starts again: the cache is empty, then warmed up.
Restart ==
    /\ \E warm \in WarmUp(rows) :
          byPair' = warm.byPair /\ byId' = warm.byId /\ lists' = warm.lists
    /\ st' = [x \in Proc |-> Idle]
    /\ alias' = [x \in Proc |-> {}]
    /\ view' = [v \in Viewer \cup Worker |-> NoView]
    /\ batch' = [w \in Worker |-> NoBatch]
    /\ dirty' = {} /\ frozen' = {} /\ listOld' = {}
    /\ UNCHANGED rows

Read(q) == \/ \E p \in Pair : GetExchangeRate(q, p) \/ GetByPair(q, p)
           \/ \E i \in Id : GetById(q, i)

Administer(q) ==
    \/ \E i \in Id : UpdateRate(q, i) \/ DeleteRate(q, i)
    \/ \E i \in Id, r \in Rate, t \in Terms : CreateRate(q, i, r, t)
    \/ \E t \in Terms : Assign(q, t)
    \/ UpdateRow(q) \/ DropPair(q) \/ DropId(q)

FillCache(x) == Select(x) \/ PutPair(x) \/ PutId(x)

LoadList(v) == ListSelect(v) \/ ListFill(v) \/ \E l \in List : ListMiss(v, l)

UpdateBatch(w) == Fetch(w) \/ Commit(w) \/ DropLists(w) \/ \E i \in Id : Refresh(w, i)

Next == \/ \E q \in Req : Read(q) \/ Administer(q)
        \/ \E x \in Proc : FillCache(x)
        \/ \E v \in Viewer \cup Worker : LoadList(v)
        \/ \E w \in Worker : UpdateBatch(w)
        \/ \E i \in Id, r \in Rate : EditRate(i, r)
        \/ Restart

Spec == Init /\ [][Next]_vars

-------------------------------------------------------------------------------
Doing == {Idle} \cup [at : Stage, op : Op, pair : Pair, id : Id \cup {Miss},
                      rec : Record \cup {Miss}]
Loading == {NoView} \cup [at : {"select", "fill"}, list : List,
                          rates : (SUBSET Record) \cup {Miss}, old : BOOLEAN]
Updates == UNION {[some -> Rate] : some \in SUBSET Id}
Round == [at : {"idle", "commit", "refresh"}, updates : Updates \cup {Miss}, left : SUBSET Id]

\* Every variable keeps its shape.
TypeOK ==
    /\ rows \in [Id -> Record \cup {Fresh, Gone}]
    /\ byPair \in [Pair -> Record \cup {Miss}]
    /\ byId \in [Id -> Record \cup {Miss}]
    /\ lists \in [List -> (SUBSET Record) \cup {Miss}]
    /\ st \in [Proc -> Doing]
    /\ alias \in [Proc -> SUBSET Key]
    /\ view \in [Viewer \cup Worker -> Loading]
    /\ batch \in [Worker -> Round]
    /\ dirty \subseteq Pair /\ frozen \subseteq Id /\ listOld \subseteq List

\* A pair nobody is at work on and whose entries were not spoiled.
Clean(p) == p \notin dirty /\ p \notin Used

\* The entry e is one of the row with id i: its fee and is_active are the
\* row's, and its rate too, unless it was changed under a cached rate.  The
\* entry may have more digits than the columns.
TrueTo(e, i) ==
    /\ i \in Live
    /\ e.id = i /\ StoredTerms[e.terms] = rows[i].terms
    /\ i \notin frozen => StoredRate[e.rate] = rows[i].rate

\* Both kinds of single entries tell the truth, up to the digits the columns
\* cut off, about fee, is_active and the existence of the row, and about a rate
\* no batch and no operator has changed under an entry, on every pair where no
\* writer met another process, no UPDATE or DELETE lost its answer and no
\* UPDATE failed after its record was put into the cache
\* (exchange_rate_repository.go:27-150).
EntriesTrue ==
    \A p \in Pair : Clean(p) =>
        /\ byPair[p] # Miss => PairOf[byPair[p].id] = p /\ TrueTo(byPair[p], byPair[p].id)
        /\ \A i \in Id : PairOf[i] = p /\ byId[i] # Miss => TrueTo(byId[i], i)

\* On such a pair a customer's exchange and the admin's GetRate see the same
\* record, stale rate or not: no operation sets or drops the entry by id
\* without the entry by pair (cache_service.go:160-207).
KeysAgree ==
    \A p \in Pair : Clean(p) =>
        \A i \in Id : PairOf[i] = p /\ byId[i] # Miss => byPair[p] = byId[i]

\* A writer between its statement and the end of its cache operations.
Pending ==
    \/ \E x \in Proc : st[x].op \in {"write", "create", "delete"}
    \/ \E w \in Worker : batch[w].at = "refresh"

\* A cached list is the one the query would return, unless it was loaded
\* while the rows changed, a write lost its answer or an operator has edited a
\* rate since; the next write or fill of any single rate drops it
\* (exchange_rate_repository.go:85-121).
ListsTrue ==
    ~Pending => \A l \in List : lists[l] # Miss /\ l \notin listOld => lists[l] = Table(l)

\* exchange_rate_repository.go:209, "Update cache for all updated rates": when
\* the loop is over the cache has the rates just written, at least of the
\* pairs that nobody else was at work on.
BatchRefreshesCache ==
    \A w \in Worker : batch[w].at = "refresh" /\ batch[w].left = {} =>
        \A i \in DOMAIN batch[w].updates :
            Clean(PairOf[i]) /\ byId[i] # Miss =>
                StoredRate[byId[i].rate] = StoredRate[batch[w].updates[i]]

\* order_repo.go:99, "AND is_active = true": the rate an exchange finds is
\* active, also when it finds it in the cache.
ExchangesUseActiveRates ==
    \A p \in Pair : byPair[p] # Miss => byPair[p].terms \in ActiveTerms

===============================================================================
