---------------------------- MODULE RateCacheProofs ----------------------------
(***************************************************************************)
(* Proofs about RateCache, for every table, every number of requests and   *)
(* viewers, with or without the worker.                                    *)
(***************************************************************************)
EXTENDS RateCache, TLAPS

Reads == {"exchange", "pair", "get", "update", "refresh"}
Puts == {"putPair", "putId", "assign", "update"}

\* What a stage says of the operation, the id and the record of process x.
Fits(x, s) ==
    /\ s.at = "select" => s.op \in Reads
    /\ s.at = "select" /\ s.op \in {"exchange", "pair"} => s.id = Miss
    /\ s.at = "select" /\ s.op \notin {"exchange", "pair"} => s.id \in Id
    /\ s.id # Miss => s.id \in Id /\ PairOf[s.id] = s.pair
    /\ s.at \in Puts => /\ s.id \in Id /\ s.rec \in Record
                        /\ s.rec.id = s.id
                        /\ s.op \in Op \ {"delete"}
    /\ s.at = "putId" => s.op # "exchange"
    /\ s.at \in {"assign", "update"} => s.op = "update"
    /\ s.op \in {"write", "create", "again"} => s.at \in {"putPair", "putId"}
    /\ s.at \in {"dropPair", "dropId"} => s.op = "delete" /\ s.id \in Id
    /\ s.op = "delete" => s.at \in {"dropPair", "dropId"}
    /\ x \in Req => s.op \notin {"refresh", "again"}
    /\ x \in Worker => s.op \in {"none", "refresh", "again"}

StagesFit == \A x \in Proc : Fits(x, st[x])

\* The columns hold all digits of r.
Kept(r) == StoredRate[r.rate] = r.rate /\ StoredTerms[r.terms] = r.terms

\* The rows have their own ids and what the columns can hold, and no two of
\* them are for the same pair.
TableFit ==
    /\ \A i \in Live : rows[i].id = i /\ Kept(rows[i])
    /\ \A i, j \in Live : PairOf[i] = PairOf[j] => i = j

ViewsFit == \A v \in Viewer \cup Worker : view[v].at = "fill" => view[v].rates \in SUBSET Record

\* The worker is at a rate only in its loop, and at one that is left.
BatchFits ==
    \A w \in Worker :
        /\ batch[w].at = "commit" => batch[w].updates \in Updates
        /\ batch[w].at # "refresh" => batch[w].left = {}
        /\ st[w] # Idle => st[w].id \in batch[w].left

\* An entry is under its own id and its own pair.
EntriesFit ==
    /\ \A i \in Id : byId[i] # Miss => byId[i].id = i
    /\ \A p \in Pair : byPair[p] # Miss => PairOf[byPair[p].id] = p

\* The worker loads the list before its round, not during it.
OneRound == \A w \in Worker : view[w] # NoView => batch[w] = NoBatch

Shape == TypeOK /\ StagesFit /\ TableFit /\ ViewsFit /\ BatchFits /\ EntriesFit /\ OneRound

-------------------------------------------------------------------------------
\* Writing to the columns a second time cuts off nothing more.
LEMMA StoredKept ==
    ASSUME NEW r \in Record
    PROVE  Stored(r) \in Record /\ Stored(r).id = r.id /\ Kept(Stored(r))
<1>1. /\ Stored(r).id = r.id
      /\ Stored(r).rate = StoredRate[r.rate] /\ Stored(r).terms = StoredTerms[r.terms]
  BY DEF Stored
<1>2. r.id \in Id /\ r.rate \in Rate /\ r.terms \in Terms
  BY DEF Record
<1>3. Stored(r) \in Record
  BY <1>2, RateAssumption DEF Stored, Record
<1> QED
  BY <1>1, <1>2, <1>3, RateAssumption DEF Kept

\* A step changes what one process does, to something of the right shape.
LEMMA StChange ==
    ASSUME TypeOK, StagesFit, NEW x \in Proc, NEW s \in Doing, Fits(x, s),
           st' = [st EXCEPT ![x] = s]
    PROVE  st' \in [Proc -> Doing] /\ StagesFit'
  BY DEF TypeOK, StagesFit, Fits

\* Idle fits everybody, and nothing else is as short.
LEMMA IdleFits == \A x \in Proc : Fits(x, Idle) /\ Idle \in Doing
  BY RateAssumption DEF Fits, Idle, Doing, Puts, Reads

\* Op, Stage and pair of a process that is not idle.
LEMMA BusyTyped ==
    ASSUME TypeOK, NEW x \in Proc, st[x].at # "idle"
    PROVE  st[x] \in [at : Stage, op : Op, pair : Pair, id : Id \cup {Miss}, rec : Record \cup {Miss}]
  BY DEF TypeOK, Doing, Idle

\* The history is about pairs.
LEMMA NoteTyped ==
    ASSUME TypeOK, NEW S \in SUBSET Pair, Note(S)
    PROVE  dirty' \subseteq Pair
  BY DEF TypeOK, Note, Clash

LEMMA FinishFits ==
    ASSUME Shape, NEW x \in Proc, Finish(x)
    PROVE  st' \in [Proc -> Doing] /\ StagesFit' /\ batch' \in [Worker -> Round] /\ BatchFits'
<1>1. st' \in [Proc -> Doing] /\ StagesFit'
  BY IdleFits, StChange DEF Shape, Finish
<1>2. batch' \in [Worker -> Round]
  BY DEF Shape, TypeOK, Finish, Round
<1>3. BatchFits'
  <2> SUFFICES ASSUME NEW w \in Worker
               PROVE  /\ batch'[w].at = "commit" => batch'[w].updates \in Updates
                      /\ batch'[w].at # "refresh" => batch'[w].left = {}
                      /\ st'[w] # Idle => st'[w].id \in batch'[w].left
    BY DEF BatchFits
  <2>0. w \in Proc
    BY DEF Proc
  <2>1. CASE w = x
    <3>1. st'[w] = Idle
      BY <2>0, <2>1 DEF Finish, Shape, TypeOK
    <3>2. batch'[w] = [batch[w] EXCEPT !.left = @ \ {st[x].id}]
      BY <2>1 DEF Finish
    <3> QED
      BY <3>1, <3>2 DEF Shape, TypeOK, Round, BatchFits
  <2>2. CASE w # x
    BY <2>0, <2>2 DEF Finish, Shape, TypeOK, BatchFits
  <2> QED
    BY <2>1, <2>2
<1> QED
  BY <1>1, <1>2, <1>3

\* A step of one process that leaves the round of the worker alone.
LEMMA GoFits ==
    ASSUME Shape, NEW x \in Proc, NEW s \in Doing, Fits(x, s),
           st' = [st EXCEPT ![x] = s], batch' = batch,
           x \in Worker => s.id \in batch[x].left
    PROVE  st' \in [Proc -> Doing] /\ StagesFit' /\ batch' \in [Worker -> Round] /\ BatchFits'
<1>1. st' \in [Proc -> Doing] /\ StagesFit'
  BY StChange DEF Shape
<1>2. batch' \in [Worker -> Round]
  BY DEF Shape, TypeOK
<1>3. BatchFits'
  BY DEF Shape, TypeOK, BatchFits, Proc
<1> QED
  BY <1>1, <1>2, <1>3

\* As long as the rows stay the table has its shape.
LEMMA TableSame ==
    ASSUME Shape, rows' = rows
    PROVE  TableFit' /\ rows' \in [Id -> Record \cup {Fresh, Gone}] /\ Live' = Live
  BY DEF Shape, TypeOK, TableFit, Live

LEMMA EntriesSame ==
    ASSUME Shape, byPair' = byPair, byId' = byId
    PROVE  EntriesFit'
  BY DEF Shape, EntriesFit

LEMMA ViewSame ==
    ASSUME Shape, view' = view
    PROVE  ViewsFit' /\ view' \in [Viewer \cup Worker -> Loading]
  BY DEF Shape, TypeOK, ViewsFit

LEMMA ViewChange ==
    ASSUME Shape, RowsChange
    PROVE  ViewsFit' /\ view' \in [Viewer \cup Worker -> Loading]
<1> DEFINE V == Viewer \cup Worker
<1>1. view \in [V -> Loading] /\ DOMAIN view = V
  BY DEF Shape, TypeOK
<1>2. view' = [v \in V |->
         IF view[v].at = "fill" THEN Filling(view[v].list, view[v].rates, TRUE) ELSE view[v]]
  BY <1>1 DEF RowsChange
<1>3. ASSUME NEW v \in V, view[v].at = "fill"
      PROVE  /\ view[v].list \in List /\ view[v].rates \in SUBSET Record
             /\ Filling(view[v].list, view[v].rates, TRUE) \in Loading
  <2>1. view[v].rates \in SUBSET Record
    BY <1>3 DEF Shape, ViewsFit
  <2>2. view[v].list \in List
    BY <1>1, <1>3 DEF Loading, NoView
  <2> QED
    BY <2>1, <2>2 DEF Filling, Loading
<1>4. view' \in [V -> Loading]
  BY <1>1, <1>2, <1>3
<1>5. ViewsFit'
  <2> SUFFICES ASSUME NEW v \in V, view'[v].at = "fill" PROVE view'[v].rates \in SUBSET Record
    BY DEF ViewsFit
  <2>1. CASE view[v].at = "fill"
    BY <1>2, <1>3, <2>1 DEF Filling
  <2>2. CASE view[v].at # "fill"
    BY <1>2, <2>2
  <2> QED
    BY <2>1, <2>2
<1> QED
  BY <1>4, <1>5

LEMMA AliasTyped ==
    ASSUME Shape, NEW x \in Proc, NEW key \in Key, NEW H, Repoint(x, key, H)
    PROVE  alias' \in [Proc -> SUBSET Key]
  BY DEF Shape, TypeOK, Repoint

LEMMA MissedTyped ==
    ASSUME Shape, ListsMissed
    PROVE  listOld' \subseteq List
  BY DEF Shape, TypeOK, ListsMissed

LEMMA DropTyped ==
    ASSUME DropBoth
    PROVE  lists' \in [List -> (SUBSET Record) \cup {Miss}] /\ listOld' \subseteq List
  BY DEF DropBoth

LEMMA RoundKept ==
    ASSUME Shape, view' = view \/ RowsChange, batch' = batch \/ \E x \in Proc : Finish(x)
    PROVE  OneRound'
<1> SUFFICES ASSUME NEW w \in Worker, view'[w] # NoView PROVE batch'[w] = NoBatch
  BY DEF OneRound
<1>1. view[w] # NoView
  <2>1. w \in DOMAIN view /\ NoView.at # "fill"
    BY DEF NoView, Shape, TypeOK
  <2> QED
    BY <2>1 DEF RowsChange
<1>2. batch[w] = NoBatch
  BY <1>1 DEF Shape, OneRound
<1>3. CASE batch' = batch
  BY <1>2, <1>3
<1>4. ASSUME NEW x \in Proc, Finish(x) PROVE batch'[w] = NoBatch
  <2>1. [batch[w] EXCEPT !.left = @ \ {st[x].id}] = NoBatch
    BY <1>2 DEF NoBatch
  <2> QED
    BY <1>2, <1>4, <2>1 DEF Finish
<1> QED
  BY <1>3, <1>4

\* A row is inserted, updated or deleted.
LEMMA RowSet ==
    ASSUME Shape, NEW i \in Id, NEW r, rows' = [rows EXCEPT ![i] = r],
           \/ r = Gone
           \/ /\ r \in Record /\ r.id = i /\ Kept(r)
              /\ \A j \in Live : PairOf[j] = PairOf[i] => j = i
    PROVE  TableFit' /\ rows' \in [Id -> Record \cup {Fresh, Gone}]
<1>1. rows' \in [Id -> Record \cup {Fresh, Gone}]
  BY DEF Shape, TypeOK
<1>2. \A j \in Id : rows'[j] = IF j = i THEN r ELSE rows[j]
  BY DEF Shape, TypeOK
<1>3. CASE r = Gone
  BY <1>1, <1>2, <1>3, RateAssumption DEF Shape, TableFit, Live
<1>4. CASE r \in Record /\ r.id = i /\ Kept(r) /\ \A j \in Live : PairOf[j] = PairOf[i] => j = i
  BY <1>1, <1>2, <1>4 DEF Shape, TableFit, Live
<1> QED
  BY <1>1, <1>3, <1>4

\* A batch changes the rates of some rows and nothing else of them.
LEMMA RatesSet ==
    ASSUME Shape, NEW u \in Updates, DOMAIN u \subseteq Live,
           rows' = [i \in Id |-> IF i \in DOMAIN u THEN [rows[i] EXCEPT !.rate = StoredRate[u[i]]]
                                 ELSE rows[i]]
    PROVE  /\ TableFit' /\ rows' \in [Id -> Record \cup {Fresh, Gone}] /\ Live' = Live
           /\ DOMAIN u \subseteq Id
           /\ \A i \in DOMAIN u : /\ rows[i] \in Record /\ rows'[i] \in Record
                                  /\ rows'[i].rate = StoredRate[u[i]]
                                  /\ rows'[i].terms = rows[i].terms
<1>1. PICK some \in SUBSET Id : u \in [some -> Rate]
  BY DEF Updates
<1>2. ASSUME NEW i \in DOMAIN u
      PROVE  /\ i \in Id /\ rows[i] \in Record /\ rows'[i] \in Record
             /\ rows'[i].id = rows[i].id /\ rows'[i].rate = StoredRate[u[i]]
             /\ rows'[i].terms = rows[i].terms
             /\ StoredRate[StoredRate[u[i]]] = StoredRate[u[i]]
  <2>1. i \in Id /\ rows[i] \in Record /\ u[i] \in Rate
    BY <1>1 DEF Live
  <2>2. StoredRate[u[i]] \in Rate /\ StoredRate[StoredRate[u[i]]] = StoredRate[u[i]]
    BY <2>1, RateAssumption
  <2>3. rows'[i] = [rows[i] EXCEPT !.rate = StoredRate[u[i]]]
    BY <2>1
  <2> QED
    BY <2>1, <2>2, <2>3 DEF Record
<1>3. \A i \in Id : i \notin DOMAIN u => rows'[i] = rows[i]
  OBVIOUS
<1>4. rows' \in [Id -> Record \cup {Fresh, Gone}]
  BY <1>2, <1>3 DEF Shape, TypeOK
<1>5. Live' = Live
  BY <1>2, <1>3 DEF Live
<1>6. ASSUME NEW i \in Live PROVE rows'[i].id = i /\ Kept(rows'[i])
  <2>1. i \in Id /\ rows[i].id = i /\ Kept(rows[i])
    BY DEF Shape, TableFit, Live
  <2> QED
    BY <1>2, <1>3, <2>1 DEF Kept
<1>7. TableFit'
  BY <1>5, <1>6 DEF Shape, TableFit, Kept
<1> QED
  BY <1>1, <1>2, <1>4, <1>5, <1>7

\* What loadExchangeRates puts into the cache.
LEMMA WarmTyped ==
    ASSUME NEW table \in [Id -> Record \cup {Fresh, Gone}], NEW warm \in WarmUp(table),
           \A i \in Id : table[i] \in Record => table[i].id = i
    PROVE  /\ warm.byPair \in [Pair -> Record \cup {Miss}]
           /\ warm.byId \in [Id -> Record \cup {Miss}]
           /\ warm.lists \in [List -> (SUBSET Record) \cup {Miss}]
           /\ \A i \in Id : warm.byId[i] # Miss => warm.byId[i].id = i
           /\ \A p \in Pair : warm.byPair[p] # Miss => PairOf[warm.byPair[p].id] = p
<1> DEFINE W == {i \in Id : table[i] \in Record /\ table[i].terms \in ActiveTerms}
           A == {table[i] : i \in {j \in Id : table[j] \in Record}}
           B == {table[i] : i \in W}
<1>1. W \subseteq Id /\ \A i \in W : table[i] \in Record
  OBVIOUS
<1>0. \A i \in W : table[i].id = i
  BY <1>1
<1>2. A \in SUBSET Record /\ B \in SUBSET Record
  OBVIOUS
<1>3. /\ warm.byId = [i \in Id |-> IF i \in W THEN table[i] ELSE Miss]
      /\ warm.byPair = [p \in Pair |-> IF \E i \in W : PairOf[i] = p
                           THEN table[CHOOSE i \in W : PairOf[i] = p] ELSE Miss]
      /\ \/ warm.lists = [l \in List |-> Miss]
         \/ warm.lists = [l \in List |-> IF l = "all" THEN A ELSE Miss]
         \/ warm.lists = [l \in List |-> IF l = "all" THEN A ELSE B]
  BY DEF WarmUp
<1> HIDE DEF W, A, B
<1>4. warm.byId \in [Id -> Record \cup {Miss}]
  BY <1>1, <1>3
<1>5. warm.byPair \in [Pair -> Record \cup {Miss}]
  BY <1>1, <1>3
<1>6. warm.lists \in [List -> (SUBSET Record) \cup {Miss}]
  BY <1>2, <1>3
<1>7. \A i \in Id : warm.byId[i] # Miss => warm.byId[i].id = i
  BY <1>0, <1>3
<1>8. \A p \in Pair : warm.byPair[p] # Miss => PairOf[warm.byPair[p].id] = p
  BY <1>0, <1>1, <1>3
<1> QED
  BY <1>4, <1>5, <1>6, <1>7, <1>8

-------------------------------------------------------------------------------
(* Shape is an invariant: it holds at the start and each step keeps it.    *)

\* The processes, the viewers and the worker of a process just started.
LEMMA FreshProcesses ==
    ASSUME st = [x \in Proc |-> Idle], alias = [x \in Proc |-> {}],
           view = [v \in Viewer \cup Worker |-> NoView], batch = [w \in Worker |-> NoBatch]
    PROVE  /\ st \in [Proc -> Doing] /\ alias \in [Proc -> SUBSET Key]
           /\ view \in [Viewer \cup Worker -> Loading] /\ batch \in [Worker -> Round]
           /\ StagesFit /\ ViewsFit /\ BatchFits
<1>1. st \in [Proc -> Doing] /\ StagesFit
  BY IdleFits DEF StagesFit
<1>2. view \in [Viewer \cup Worker -> Loading] /\ ViewsFit
  BY DEF Loading, NoView, ViewsFit
<1>3. batch \in [Worker -> Round] /\ BatchFits
  BY DEF NoBatch, Round, BatchFits, Proc
<1> QED
  BY <1>1, <1>2, <1>3

LEMMA ShapeInit == Init => Shape
<1> SUFFICES ASSUME Init PROVE Shape
  OBVIOUS
<1>1. rows \in [Id -> Record \cup {Fresh, Gone}]
  BY DEF Init
<1>2. PICK warm \in WarmUp(rows) : byPair = warm.byPair /\ byId = warm.byId /\ lists = warm.lists
  BY DEF Init
<1>4. TableFit /\ \A i \in Id : rows[i] \in Record => rows[i].id = i
  <2>1. Seeded(rows) /\ \A i \in Live : i \in Id /\ rows[i] # Fresh
    BY RateAssumption DEF Init, Live
  <2>2. ASSUME NEW i \in Live PROVE rows[i].id = i /\ Kept(rows[i])
    <3>1. rows[i].id = i /\ Stored(rows[i]) = rows[i]
      BY <2>1 DEF Seeded
    <3> QED
      BY <3>1 DEF Stored, Kept
  <2>3. \A i, j \in Live : PairOf[i] = PairOf[j] => i = j
    BY <2>1 DEF Seeded
  <2> QED
    BY <2>2, <2>3 DEF TableFit, Live
<1>3. /\ byPair \in [Pair -> Record \cup {Miss}]
      /\ byId \in [Id -> Record \cup {Miss}]
      /\ lists \in [List -> (SUBSET Record) \cup {Miss}]
      /\ EntriesFit
  BY <1>1, <1>2, <1>4, WarmTyped DEF EntriesFit
<1>5. /\ st \in [Proc -> Doing] /\ alias \in [Proc -> SUBSET Key]
      /\ view \in [Viewer \cup Worker -> Loading] /\ batch \in [Worker -> Round]
      /\ StagesFit /\ ViewsFit /\ BatchFits
  BY FreshProcesses DEF Init
<1>6. dirty \subseteq Pair /\ frozen \subseteq Id /\ listOld \subseteq List /\ OneRound
  BY DEF Init, OneRound
<1> QED
  BY <1>1, <1>3, <1>4, <1>5, <1>6 DEF Shape, TypeOK

LEMMA ShapeRestart ==
    ASSUME Shape, Restart
    PROVE  Shape'
<1>1. TableFit' /\ rows' \in [Id -> Record \cup {Fresh, Gone}]
  BY TableSame DEF Restart
<1>2. PICK warm \in WarmUp(rows) : byPair' = warm.byPair /\ byId' = warm.byId /\ lists' = warm.lists
  BY DEF Restart
<1>3. /\ byPair' \in [Pair -> Record \cup {Miss}]
      /\ byId' \in [Id -> Record \cup {Miss}]
      /\ lists' \in [List -> (SUBSET Record) \cup {Miss}]
      /\ EntriesFit'
  <2>1. rows \in [Id -> Record \cup {Fresh, Gone}] /\ \A i \in Id : rows[i] \in Record => rows[i].id = i
    BY DEF Shape, TypeOK, TableFit, Live
  <2> QED
    BY <1>2, <2>1, WarmTyped DEF EntriesFit
<1>4. st' \in [Proc -> Doing] /\ StagesFit'
  BY IdleFits DEF StagesFit, Restart
<1>5. view' \in [Viewer \cup Worker -> Loading] /\ ViewsFit'
  BY DEF Loading, NoView, ViewsFit, Restart
<1>6. batch' \in [Worker -> Round] /\ BatchFits' /\ OneRound'
  BY DEF NoBatch, Round, BatchFits, OneRound, Proc, Restart
<1>7. alias' \in [Proc -> SUBSET Key] /\ dirty' \subseteq Pair /\ frozen' \subseteq Id /\ listOld' \subseteq List
  BY DEF Restart
<1> QED
  BY <1>1, <1>3, <1>4, <1>5, <1>6, <1>7 DEF Shape, TypeOK

\* The look at a key the cache does not hold.
LEMMA ShapeRead ==
    ASSUME Shape, NEW q \in Req, Read(q)
    PROVE  Shape'
<1>1. q \in Proc /\ q \notin Worker
  BY RateAssumption DEF Proc
<1>2. ASSUME NEW op \in {"exchange", "pair", "get"}, NEW p \in Pair, NEW i \in Id \cup {Miss},
             i = Miss <=> op # "get", i # Miss => PairOf[i] = p, Ask(q, op, p, i)
      PROVE  Shape'
  <2> DEFINE s == Busy("select", op, p, i, Miss)
  <2>1. s \in Doing /\ Fits(q, s)
    BY <1>1, <1>2, RateAssumption DEF Busy, Doing, Stage, Op, Fits, Reads, Puts
  <2>2. st' \in [Proc -> Doing] /\ StagesFit' /\ batch' \in [Worker -> Round] /\ BatchFits'
    BY <1>1, <1>2, <2>1, GoFits DEF Ask
  <2>3. dirty' \subseteq Pair
    BY <1>2, NoteTyped DEF Ask, Shape
  <2> QED
    BY <1>2, <2>2, <2>3, TableSame, ViewSame, EntriesSame, RoundKept DEF Ask, Shape, TypeOK, cacheVars
<1>3. ASSUME NEW i \in Id PROVE PairOf[i] \in Pair /\ i # Miss
  BY RateAssumption
<1>4. CASE \E p \in Pair : GetExchangeRate(q, p) \/ GetByPair(q, p)
  BY <1>2, <1>4 DEF GetExchangeRate, GetByPair
<1>5. CASE \E i \in Id : GetById(q, i)
  BY <1>2, <1>3, <1>5 DEF GetById
<1> QED
  BY <1>4, <1>5 DEF Read

\* The record of a SELECT is one of the table.
LEMMA ShapeSelect ==
    ASSUME Shape, NEW x \in Proc, Select(x)
    PROVE  Shape'
<1>1. st[x] \in [at : Stage, op : Op, pair : Pair, id : Id \cup {Miss}, rec : Record \cup {Miss}]
  BY BusyTyped DEF Select, Shape
<1>2. Fits(x, st[x])
  BY DEF Shape, StagesFit
<1>3. st' \in [Proc -> Doing] /\ StagesFit' /\ batch' \in [Worker -> Round] /\ BatchFits'
  <2>1. CASE Finish(x)
    BY <2>1, FinishFits
  <2>2. ASSUME NEW i \in Found(x), Goto(x, "putPair", st[x].op, i, rows[i]), batch' = batch
        PROVE  st' \in [Proc -> Doing] /\ StagesFit' /\ batch' \in [Worker -> Round] /\ BatchFits'
    <3> DEFINE s == Busy("putPair", st[x].op, st[x].pair, i, rows[i])
    <3>1. i \in Id /\ rows[i] \in Record /\ rows[i].id = i /\ PairOf[i] = st[x].pair
      BY DEF Found, Live, Shape, TableFit
    <3>2. st[x].op \in Reads
      BY <1>2 DEF Fits, Select
    <3>3. s \in Doing /\ s.at \in Puts
      BY <1>1, <3>1 DEF Busy, Doing, Stage, Puts
    <3>4. Fits(x, s)
      BY <1>2, <3>1, <3>2 DEF Busy, Fits, Reads, Puts, Op
    <3>5. x \in Worker => s.id \in batch[x].left
      <4> SUFFICES ASSUME x \in Worker PROVE i \in batch[x].left
        BY DEF Busy
      <4>1. st[x].op = "refresh" /\ st[x].id \in Id
        BY <1>2, <3>2 DEF Fits, Reads, Select
      <4>2. i = st[x].id
        BY <4>1, RateAssumption DEF Found
      <4>3. st[x] # Idle
        BY DEF Select, Idle
      <4> QED
        BY <4>2, <4>3 DEF Shape, BatchFits
    <3>6. st' = [st EXCEPT ![x] = s]
      BY <2>2 DEF Goto
    <3> QED
      BY <2>2, <3>3, <3>4, <3>5, <3>6, GoFits
  <2> QED
    BY <2>1, <2>2 DEF Select
<1>4. dirty' \subseteq Pair
  BY NoteTyped DEF Select, Shape
<1> QED
  BY <1>3, <1>4, TableSame, ViewSame, EntriesSame, RoundKept DEF Select, Shape, TypeOK, cacheVars

LEMMA ShapePutPair ==
    ASSUME Shape, NEW x \in Proc, PutPair(x)
    PROVE  Shape'
<1>1. st[x] \in [at : Stage, op : Op, pair : Pair, id : Id \cup {Miss}, rec : Record \cup {Miss}]
  BY BusyTyped DEF PutPair, Shape
<1>2. Fits(x, st[x]) /\ st[x].at = "putPair"
  BY DEF Shape, StagesFit, PutPair
<1>3. st[x].rec \in Record /\ st[x].id \in Id
  BY <1>2 DEF Fits, Puts
<1>4. st' \in [Proc -> Doing] /\ StagesFit' /\ batch' \in [Worker -> Round] /\ BatchFits'
  <2>1. CASE Finish(x)
    BY <2>1, FinishFits
  <2>2. CASE st[x].op # "exchange" /\ Goto(x, "putId", st[x].op, st[x].id, st[x].rec) /\ batch' = batch
    <3> DEFINE s == Busy("putId", st[x].op, st[x].pair, st[x].id, st[x].rec)
    <3>1. s \in Doing
      BY <1>1 DEF Busy, Doing, Stage
    <3>2. Fits(x, s)
      BY <1>2, <2>2 DEF Busy, Fits, Reads, Puts, Op
    <3>3. x \in Worker => s.id \in batch[x].left
      BY <1>2 DEF Busy, Idle, Shape, BatchFits
    <3> QED
      BY <2>2, <3>1, <3>2, <3>3, GoFits DEF Goto
  <2> QED
    BY <2>1, <2>2 DEF PutPair
<1>5. dirty' \subseteq Pair
  BY NoteTyped DEF PutPair, Shape
<1>6. alias' \in [Proc -> SUBSET Key]
  BY AliasTyped DEF PutPair, Key
<1>7. byPair' \in [Pair -> Record \cup {Miss}] /\ EntriesFit'
  <2>1. PairOf[st[x].rec.id] = st[x].pair
    BY <1>2, RateAssumption DEF Fits, Puts
  <2> QED
    BY <1>3, <2>1 DEF PutPair, Shape, TypeOK, EntriesFit
<1> QED
  BY <1>4, <1>5, <1>6, <1>7, TableSame, ViewSame, RoundKept DEF PutPair, Shape, TypeOK

LEMMA ShapePutId ==
    ASSUME Shape, NEW x \in Proc, PutId(x)
    PROVE  Shape'
<1>1. st[x] \in [at : Stage, op : Op, pair : Pair, id : Id \cup {Miss}, rec : Record \cup {Miss}]
  BY BusyTyped DEF PutId, Shape
<1>2. Fits(x, st[x]) /\ st[x].at = "putId"
  BY DEF Shape, StagesFit, PutId
<1>3. st[x].rec \in Record /\ st[x].id \in Id
  BY <1>2 DEF Fits, Puts
<1>4. st' \in [Proc -> Doing] /\ StagesFit' /\ batch' \in [Worker -> Round] /\ BatchFits'
  <2>0. x \in Worker => st[x].id \in batch[x].left
    BY <1>2 DEF Idle, Shape, BatchFits
  <2>1. CASE Finish(x)
    BY <2>1, FinishFits
  <2>2. CASE st[x].op = "update" /\ Goto(x, "assign", "update", st[x].id, st[x].rec) /\ batch' = batch
    <3> DEFINE s == Busy("assign", "update", st[x].pair, st[x].id, st[x].rec)
    <3>1. s \in Doing
      BY <1>1 DEF Busy, Doing, Stage, Op
    <3>2. Fits(x, s)
      BY <1>2, <2>2 DEF Busy, Fits, Reads, Puts, Op
    <3> QED
      BY <2>0, <2>2, <3>1, <3>2, GoFits DEF Goto, Busy
  <2>3. CASE st[x].op = "refresh" /\ Goto(x, "putPair", "again", st[x].id, st[x].rec) /\ batch' = batch
    <3> DEFINE s == Busy("putPair", "again", st[x].pair, st[x].id, st[x].rec)
    <3>1. s \in Doing
      BY <1>1 DEF Busy, Doing, Stage, Op
    <3>2. Fits(x, s)
      BY <1>2, <2>3 DEF Busy, Fits, Reads, Puts, Op
    <3> QED
      BY <2>0, <2>3, <3>1, <3>2, GoFits DEF Goto, Busy
  <2> QED
    BY <2>1, <2>2, <2>3 DEF PutId
<1>5. dirty' \subseteq Pair
  BY NoteTyped DEF PutId, Shape
<1>6. alias' \in [Proc -> SUBSET Key]
  BY AliasTyped DEF PutId, Key
<1>7. byId' \in [Id -> Record \cup {Miss}] /\ EntriesFit'
  <2>1. st[x].rec.id = st[x].id
    BY <1>2 DEF Fits, Puts
  <2> QED
    BY <1>3, <2>1 DEF PutId, Shape, TypeOK, EntriesFit
<1>8. lists' \in [List -> (SUBSET Record) \cup {Miss}] /\ listOld' \subseteq List
  BY DropTyped DEF PutId, Shape, TypeOK
<1> QED
  BY <1>4, <1>5, <1>6, <1>7, <1>8, TableSame, ViewSame, RoundKept DEF PutId, Shape, TypeOK

LEMMA ShapeUpdateRate ==
    ASSUME Shape, NEW q \in Req, NEW i \in Id, UpdateRate(q, i)
    PROVE  Shape'
<1> DEFINE s == IF byId[i] # Miss THEN Busy("assign", "update", PairOf[i], i, byId[i])
                ELSE Busy("select", "update", PairOf[i], i, Miss)
<1>1. q \in Proc /\ q \notin Worker /\ PairOf[i] \in Pair
  BY RateAssumption DEF Proc
<1>2. s \in Doing /\ Fits(q, s)
  <2>1. CASE byId[i] # Miss
    <3>1. byId[i] \in Record /\ byId[i].id = i
      BY <2>1 DEF Shape, TypeOK, EntriesFit
    <3> QED
      BY <1>1, <2>1, <3>1 DEF Busy, Doing, Stage, Op, Fits, Reads, Puts
  <2>2. CASE byId[i] = Miss
    BY <1>1, <2>2 DEF Busy, Doing, Stage, Op, Fits, Reads, Puts
  <2> QED
    BY <2>1, <2>2
<1>3. st' \in [Proc -> Doing] /\ StagesFit' /\ batch' \in [Worker -> Round] /\ BatchFits'
  BY <1>1, <1>2, GoFits DEF UpdateRate
<1>4. dirty' \subseteq Pair
  BY NoteTyped DEF UpdateRate, Shape
<1> QED
  BY <1>3, <1>4, TableSame, ViewSame, EntriesSame, RoundKept DEF UpdateRate, Shape, TypeOK, cacheVars

LEMMA ShapeAssign ==
    ASSUME Shape, NEW q \in Req, NEW t \in Terms, Assign(q, t)
    PROVE  Shape'
<1> DEFINE e == [st[q].rec EXCEPT !.terms = t]
           s == Busy("update", "update", st[q].pair, st[q].id, e)
<1>1. q \in Proc /\ q \notin Worker /\ st[q].at = "assign"
  BY RateAssumption DEF Proc, Assign
<1>2. st[q] \in [at : Stage, op : Op, pair : Pair, id : Id \cup {Miss}, rec : Record \cup {Miss}]
  BY <1>1, BusyTyped DEF Shape
<1>3. Fits(q, st[q])
  BY <1>1 DEF Shape, StagesFit
<1>4. /\ e \in Record /\ e.id = st[q].id /\ st[q].id \in Id /\ PairOf[st[q].id] = st[q].pair
      /\ st[q].pair \in Pair
  <2>1. st[q].rec \in Record /\ st[q].rec.id = st[q].id /\ st[q].id \in Id
    BY <1>1, <1>3 DEF Fits, Puts
  <2>2. e \in Record /\ e.id = st[q].rec.id
    BY <2>1 DEF Record
  <2> QED
    BY <1>2, <1>3, <2>1, <2>2, RateAssumption DEF Fits
<1>5. s \in Doing /\ Fits(q, s)
  BY <1>1, <1>2, <1>3, <1>4 DEF Busy, Doing, Stage, Op, Fits, Reads, Puts
<1>6. st' \in [Proc -> Doing] /\ StagesFit' /\ batch' \in [Worker -> Round] /\ BatchFits'
  BY <1>1, <1>5, GoFits DEF Assign, Goto
<1>7. dirty' \subseteq Pair
  BY NoteTyped DEF Assign, Shape
<1>8. /\ byPair' = byPair \/ byPair' = [byPair EXCEPT ![st[q].pair] = e]
      /\ byId' = byId \/ byId' = [byId EXCEPT ![st[q].id] = e]
  BY DEF Assign
<1> HIDE DEF e
<1>9. /\ byPair' \in [Pair -> Record \cup {Miss}]
      /\ byId' \in [Id -> Record \cup {Miss}]
      /\ EntriesFit'
  BY <1>4, <1>8 DEF Shape, TypeOK, EntriesFit
<1> QED
  BY <1>6, <1>7, <1>9, TableSame, ViewSame, RoundKept DEF Assign, Shape, TypeOK

LEMMA ShapeUpdateRow ==
    ASSUME Shape, NEW q \in Req, UpdateRow(q)
    PROVE  Shape'
<1> DEFINE s == Busy("putPair", "write", st[q].pair, st[q].id, st[q].rec)
           i == st[q].id
           r == [rows[i] EXCEPT !.terms = StoredTerms[st[q].rec.terms]]
<1>1. q \in Proc /\ q \notin Worker /\ st[q].at = "update"
  BY RateAssumption DEF Proc, UpdateRow
<1>2. st[q] \in [at : Stage, op : Op, pair : Pair, id : Id \cup {Miss}, rec : Record \cup {Miss}]
  BY <1>1, BusyTyped DEF Shape
<1>3. Fits(q, st[q])
  BY <1>1 DEF Shape, StagesFit
<1>4. st[q].rec \in Record /\ i \in Id
  BY <1>1, <1>3 DEF Fits, Puts
<1>6. ASSUME i \in Live, rows' = [rows EXCEPT ![i] = r], RowsChange
      PROVE  /\ TableFit' /\ rows' \in [Id -> Record \cup {Fresh, Gone}]
             /\ ViewsFit' /\ view' \in [Viewer \cup Worker -> Loading]
  <2>1. rows[i] \in Record /\ rows[i].id = i /\ Kept(rows[i]) /\ st[q].rec.terms \in Terms
    BY <1>4, <1>6 DEF Shape, TableFit, Live, Record
  <2>2. r \in Record /\ r.id = i /\ Kept(r)
    <3> DEFINE t == StoredTerms[st[q].rec.terms]
    <3>1. t \in Terms /\ StoredTerms[t] = t /\ r = [rows[i] EXCEPT !.terms = t]
      BY <2>1, RateAssumption
    <3> HIDE DEF r, t
    <3>2. r.rate = rows[i].rate /\ r.terms = t /\ r.id = i /\ r \in Record
      BY <2>1, <3>1 DEF Record
    <3> QED
      BY <2>1, <3>1, <3>2 DEF Kept
  <2>3. \A j \in Live : PairOf[j] = PairOf[i] => j = i
    BY <1>6 DEF Shape, TableFit
  <2> HIDE DEF r
  <2> QED
    BY <1>4, <1>6, <2>2, <2>3, RowSet, ViewChange
<1>7. /\ TableFit' /\ rows' \in [Id -> Record \cup {Fresh, Gone}]
      /\ ViewsFit' /\ view' \in [Viewer \cup Worker -> Loading]
  BY <1>6, TableSame, ViewSame DEF UpdateRow
<1>8. st' \in [Proc -> Doing] /\ StagesFit' /\ batch' \in [Worker -> Round] /\ BatchFits'
  <2>1. CASE Finish(q)
    BY <1>1, <2>1, FinishFits
  <2>2. CASE Goto(q, "putPair", "write", st[q].id, st[q].rec) /\ batch' = batch
    <3>1. s \in Doing
      BY <1>2 DEF Busy, Doing, Stage, Op
    <3>2. Fits(q, s)
      BY <1>1, <1>3 DEF Busy, Fits, Reads, Puts, Op
    <3> QED
      BY <1>1, <2>2, <3>1, <3>2, GoFits DEF Goto
  <2> QED
    BY <2>1, <2>2 DEF UpdateRow
<1>9. dirty' \subseteq Pair
  BY <1>2, NoteTyped DEF UpdateRow, Shape
<1>10. listOld' \subseteq List
  BY MissedTyped DEF UpdateRow, Shape, TypeOK
<1>11. alias' \in [Proc -> SUBSET Key]
  BY DEF UpdateRow, Shape, TypeOK
<1> QED
  BY <1>7, <1>8, <1>9, <1>10, <1>11, EntriesSame, RoundKept DEF UpdateRow, Shape, TypeOK, cacheVars

LEMMA ShapeCreateRate ==
    ASSUME Shape, NEW q \in Req, NEW i \in Id, NEW r \in Rate, NEW t \in Terms, CreateRate(q, i, r, t)
    PROVE  Shape'
<1> DEFINE e == [id |-> i, rate |-> r, terms |-> t]
           s == Busy("putPair", "create", PairOf[i], i, e)
<1>1. q \in Proc /\ q \notin Worker /\ PairOf[i] \in Pair
  BY RateAssumption DEF Proc
<1>2. e \in Record /\ e.id = i
  BY DEF Record
<1>3. s \in Doing /\ Fits(q, s)
  BY <1>1, <1>2 DEF Busy, Doing, Stage, Op, Fits, Reads, Puts
<1>4. TableFit' /\ rows' \in [Id -> Record \cup {Fresh, Gone}]
  <2>1. rows' = [rows EXCEPT ![i] = Stored(e)] /\ \A j \in Live : PairOf[j] # PairOf[i]
    BY DEF CreateRate
  <2>2. Stored(e) \in Record /\ Stored(e).id = i /\ Kept(Stored(e))
    BY <1>2, StoredKept
  <2> HIDE DEF e
  <2> QED
    BY <2>1, <2>2, RowSet
<1>5. st' \in [Proc -> Doing] /\ StagesFit' /\ batch' \in [Worker -> Round] /\ BatchFits'
  <2>1. CASE st' = [st EXCEPT ![q] = s]
    BY <1>1, <1>3, <2>1, GoFits DEF CreateRate
  <2>2. CASE st' = st
    BY <2>2 DEF CreateRate, Shape, TypeOK, StagesFit, BatchFits
  <2> QED
    BY <2>1, <2>2 DEF CreateRate
<1>6. dirty' \subseteq Pair
  BY <1>1, NoteTyped DEF CreateRate, Shape
<1>7. listOld' \subseteq List
  BY MissedTyped DEF CreateRate, Shape, TypeOK
<1> QED
  BY <1>4, <1>5, <1>6, <1>7, ViewChange, EntriesSame, RoundKept DEF CreateRate, Shape, TypeOK, cacheVars

LEMMA ShapeDeleteRate ==
    ASSUME Shape, NEW q \in Req, NEW i \in Id, DeleteRate(q, i)
    PROVE  Shape'
<1> DEFINE s == Busy("dropPair", "delete", PairOf[i], i, Miss)
<1>1. q \in Proc /\ q \notin Worker /\ PairOf[i] \in Pair
  BY RateAssumption DEF Proc
<1>2. s \in Doing /\ Fits(q, s)
  BY <1>1 DEF Busy, Doing, Stage, Op, Fits, Reads, Puts
<1>3. TableFit' /\ rows' \in [Id -> Record \cup {Fresh, Gone}]
  BY RowSet DEF DeleteRate
<1>4. st' \in [Proc -> Doing] /\ StagesFit' /\ batch' \in [Worker -> Round] /\ BatchFits'
  <2>1. CASE st' = [st EXCEPT ![q] = s]
    BY <1>1, <1>2, <2>1, GoFits DEF DeleteRate
  <2>2. CASE st' = st
    BY <2>2 DEF DeleteRate, Shape, TypeOK, StagesFit, BatchFits
  <2> QED
    BY <2>1, <2>2 DEF DeleteRate
<1>5. dirty' \subseteq Pair
  BY <1>1, NoteTyped DEF DeleteRate, Shape
<1>6. listOld' \subseteq List
  BY MissedTyped DEF DeleteRate, Shape, TypeOK
<1> QED
  BY <1>3, <1>4, <1>5, <1>6, ViewChange, EntriesSame, RoundKept DEF DeleteRate, Shape, TypeOK, cacheVars

LEMMA ShapeDropPair ==
    ASSUME Shape, NEW q \in Req, DropPair(q)
    PROVE  Shape'
<1> DEFINE s == Busy("dropId", "delete", st[q].pair, st[q].id, Miss)
<1>1. q \in Proc /\ q \notin Worker /\ st[q].at = "dropPair"
  BY RateAssumption DEF Proc, DropPair
<1>2. st[q] \in [at : Stage, op : Op, pair : Pair, id : Id \cup {Miss}, rec : Record \cup {Miss}]
  BY <1>1, BusyTyped DEF Shape
<1>3. Fits(q, st[q])
  BY <1>1 DEF Shape, StagesFit
<1>4. s \in Doing /\ Fits(q, s)
  BY <1>1, <1>2, <1>3 DEF Busy, Doing, Stage, Op, Fits, Reads, Puts
<1>5. st' \in [Proc -> Doing] /\ StagesFit' /\ batch' \in [Worker -> Round] /\ BatchFits'
  BY <1>1, <1>4, GoFits DEF DropPair, Goto
<1>6. dirty' \subseteq Pair
  BY NoteTyped DEF DropPair, Shape
<1>7. alias' \in [Proc -> SUBSET Key]
  BY <1>1, AliasTyped DEF DropPair, Key
<1>8. byPair' \in [Pair -> Record \cup {Miss}] /\ EntriesFit'
  BY DEF DropPair, Shape, TypeOK, EntriesFit
<1> QED
  BY <1>5, <1>6, <1>7, <1>8, TableSame, ViewSame, RoundKept DEF DropPair, Shape, TypeOK

LEMMA ShapeDropId ==
    ASSUME Shape, NEW q \in Req, DropId(q)
    PROVE  Shape'
<1>1. q \in Proc
  BY DEF Proc
<1>2. st' \in [Proc -> Doing] /\ StagesFit' /\ batch' \in [Worker -> Round] /\ BatchFits'
  BY <1>1, FinishFits DEF DropId
<1>3. dirty' \subseteq Pair
  BY NoteTyped DEF DropId, Shape
<1>4. alias' \in [Proc -> SUBSET Key]
  BY <1>1, AliasTyped DEF DropId, Key
<1>5. byId' \in [Id -> Record \cup {Miss}] /\ EntriesFit'
  BY DEF DropId, Shape, TypeOK, EntriesFit
<1>6. lists' \in [List -> (SUBSET Record) \cup {Miss}] /\ listOld' \subseteq List
  BY DropTyped DEF DropId
<1> QED
  BY <1>1, <1>2, <1>3, <1>4, <1>5, <1>6, TableSame, ViewSame, RoundKept DEF DropId, Shape, TypeOK

\* The worker asks for rates of the list it has read.
LEMMA AskFits ==
    ASSUME Shape, NEW w \in Worker, batch[w] = NoBatch, NEW rates \in SUBSET Record,
           AskBinance(w, rates), st' = st
    PROVE  batch' \in [Worker -> Round] /\ BatchFits'
<1>1. Quotes(rates) \subseteq Updates
  BY DEF Quotes, Updates, Record
<1>2. ASSUME NEW b \in Round, b.at # "refresh", b.left = {},
             b.at = "commit" => b.updates \in Updates, batch' = [batch EXCEPT ![w] = b]
      PROVE  batch' \in [Worker -> Round] /\ BatchFits'
  BY <1>2 DEF Shape, TypeOK, BatchFits, NoBatch
<1>3. NoBatch \in Round
  BY DEF NoBatch, Round
<1>4. ASSUME NEW u \in Updates
      PROVE  [at |-> "commit", updates |-> u, left |-> {}] \in Round
  BY DEF Round
<1> QED
  BY <1>1, <1>2, <1>3, <1>4 DEF AskBinance, NoBatch

LEMMA ShapeLoadList ==
    ASSUME Shape, NEW v \in Viewer \cup Worker, LoadList(v)
    PROVE  Shape'
<1> DEFINE V == Viewer \cup Worker
<1>0. view \in [V -> Loading]
  BY DEF Shape, TypeOK
<1>1. ASSUME NEW l \in List, ListMiss(v, l)
      PROVE  Shape'
  <2>1. Selecting(l) \in Loading
    BY DEF Selecting, Loading
  <2>2. view' \in [V -> Loading] /\ ViewsFit' /\ OneRound'
    BY <1>0, <1>1, <2>1 DEF ListMiss, Selecting, Shape, ViewsFit, OneRound
  <2>3. BatchFits' /\ StagesFit'
    BY <1>1 DEF ListMiss, Shape, BatchFits, StagesFit
  <2> QED
    BY <1>1, <2>2, <2>3, TableSame, EntriesSame DEF ListMiss, Shape, TypeOK, cacheVars
<1>2. CASE ListSelect(v)
  <2>1. view[v].list \in List
    BY <1>0, <1>2 DEF ListSelect, Loading, NoView
  <2>2. Table(view[v].list) \in SUBSET Record
    BY DEF Table, Live
  <2> DEFINE f == Filling(view[v].list, Table(view[v].list), FALSE)
  <2>3. /\ f \in Loading /\ f.rates \in SUBSET Record
        /\ NoView \in Loading /\ NoView.at # "fill"
    BY <2>1, <2>2 DEF Filling, Loading, NoView
  <2>4. view' \in [V -> Loading] /\ ViewsFit'
    <3>1. view' = [view EXCEPT ![v] = f] \/ view' = [view EXCEPT ![v] = NoView]
      BY <1>2 DEF ListSelect
    <3> HIDE DEF f
    <3> QED
      BY <1>0, <2>3, <3>1 DEF Shape, ViewsFit
  <2>6. OneRound'
    <3>1. view[v] # NoView
      BY <1>2 DEF ListSelect, NoView
    <3> QED
      BY <1>0, <1>2, <3>1 DEF ListSelect, Shape, OneRound
  <2>5. BatchFits' /\ StagesFit'
    BY <1>2 DEF ListSelect, Shape, BatchFits, StagesFit
  <2> QED
    BY <1>2, <2>4, <2>5, <2>6, TableSame, EntriesSame DEF ListSelect, Shape, TypeOK, cacheVars
<1>3. CASE ListFill(v)
  <2>1. view[v].list \in List /\ view[v].rates \in SUBSET Record
    BY <1>0, <1>3 DEF ListFill, Loading, NoView, Shape, ViewsFit
  <2>2. view' \in [V -> Loading] /\ ViewsFit' /\ OneRound'
    BY <1>0, <1>3 DEF ListFill, AskBinance, Loading, NoView, Shape, TypeOK, ViewsFit, OneRound
  <2>3. lists' \in [List -> (SUBSET Record) \cup {Miss}] /\ listOld' \subseteq List
    BY <1>3, <2>1 DEF ListFill, Shape, TypeOK
  <2>4. batch' \in [Worker -> Round] /\ BatchFits'
    BY <1>3, <2>1, AskFits DEF ListFill, NoView, Shape, TypeOK, BatchFits, OneRound
  <2>5. StagesFit'
    BY <1>3 DEF ListFill, Shape, StagesFit
  <2> QED
    BY <1>3, <2>2, <2>3, <2>4, <2>5, TableSame, EntriesSame DEF ListFill, Shape, TypeOK
<1> QED
  BY <1>1, <1>2, <1>3 DEF LoadList

LEMMA ShapeFetch ==
    ASSUME Shape, NEW w \in Worker, Fetch(w)
    PROVE  Shape'
<1>1. lists["active"] \in SUBSET Record
  BY DEF Fetch, Shape, TypeOK, List
<1>2. batch' \in [Worker -> Round] /\ BatchFits'
  BY <1>1, AskFits DEF Fetch
<1>3. OneRound'
  BY DEF Fetch, AskBinance, Shape, OneRound, TypeOK
<1>4. StagesFit'
  BY DEF Fetch, Shape, StagesFit
<1> QED
  BY <1>2, <1>3, <1>4, TableSame, ViewSame, EntriesSame DEF Fetch, Shape, TypeOK, cacheVars

LEMMA ShapeCommit ==
    ASSUME Shape, NEW w \in Worker, Commit(w)
    PROVE  Shape'
<1> DEFINE u == batch[w].updates
           b == [at |-> "refresh", updates |-> u, left |-> DOMAIN u]
<1>1. u \in Updates /\ batch[w] # NoBatch /\ view[w] = NoView
  BY DEF Commit, NoBatch, Shape, BatchFits, OneRound
<1>2. DOMAIN u \subseteq Id
  BY <1>1 DEF Updates
<1>3. /\ TableFit' /\ rows' \in [Id -> Record \cup {Fresh, Gone}]
      /\ ViewsFit' /\ view' \in [Viewer \cup Worker -> Loading]
  BY <1>1, RatesSet, ViewChange, TableSame, ViewSame DEF Commit
<1>4. view'[w] = NoView
  <2>1. w \in DOMAIN view /\ NoView.at # "fill"
    BY DEF NoView, Shape, TypeOK
  <2> QED
    BY <1>1, <2>1 DEF Commit, RowsChange
<1>5. b \in Round /\ NoBatch \in Round
  BY <1>1, <1>2 DEF Round, NoBatch
<1>6. st[w] = Idle
  <2>1. batch[w].left = {}
    BY DEF Commit, Shape, BatchFits
  <2> QED
    BY <2>1 DEF Shape, BatchFits
<1>7. batch' \in [Worker -> Round] /\ BatchFits'
  <2>1. batch' = [batch EXCEPT ![w] = b] \/ batch' = [batch EXCEPT ![w] = NoBatch]
    BY DEF Commit
  <2>2. b.at = "refresh" /\ NoBatch.at = "idle" /\ NoBatch.left = {}
    BY DEF NoBatch
  <2>3. st' = st
    BY DEF Commit
  <2> HIDE DEF b
  <2> QED
    BY <1>5, <1>6, <2>1, <2>2, <2>3 DEF Shape, TypeOK, BatchFits
<1>8. OneRound'
  <2> SUFFICES ASSUME NEW y \in Worker, view'[y] # NoView PROVE batch'[y] = NoBatch
    BY DEF OneRound
  <2>1. y # w
    BY <1>4
  <2>2. view[y] # NoView
    <3>1. y \in DOMAIN view /\ NoView.at # "fill"
      BY DEF NoView, Shape, TypeOK
    <3> QED
      BY <3>1 DEF Commit, RowsChange
  <2> QED
    BY <2>1, <2>2 DEF Commit, Shape, OneRound, TypeOK
<1>9. dirty' \subseteq Pair
  <2>1. {PairOf[i] : i \in DOMAIN u} \cap Used \subseteq Pair
    BY <1>2, RateAssumption
  <2> QED
    BY <2>1, NoteTyped DEF Commit, Shape
<1>10. frozen' \subseteq Id /\ listOld' \subseteq List
  BY <1>2, MissedTyped DEF Commit, Shape, TypeOK
<1>11. StagesFit'
  BY DEF Commit, Shape, StagesFit
<1> QED
  BY <1>3, <1>7, <1>8, <1>9, <1>10, <1>11, EntriesSame DEF Commit, Shape, TypeOK, cacheVars

LEMMA ShapeRefresh ==
    ASSUME Shape, NEW w \in Worker, NEW i \in Id, Refresh(w, i)
    PROVE  Shape'
<1> DEFINE s == IF byId[i] # Miss THEN Busy("putPair", "again", PairOf[i], i, byId[i])
                ELSE Busy("select", "refresh", PairOf[i], i, Miss)
<1>1. w \in Proc /\ w \notin Req /\ PairOf[i] \in Pair
  BY RateAssumption DEF Proc
<1>2. s \in Doing /\ Fits(w, s) /\ s.id = i
  <2>1. CASE byId[i] # Miss
    <3>1. byId[i] \in Record /\ byId[i].id = i
      BY <2>1 DEF Shape, TypeOK, EntriesFit
    <3> QED
      BY <1>1, <2>1, <3>1 DEF Busy, Doing, Stage, Op, Fits, Reads, Puts
  <2>2. CASE byId[i] = Miss
    BY <1>1, <2>2 DEF Busy, Doing, Stage, Op, Fits, Reads, Puts
  <2> QED
    BY <2>1, <2>2
<1>3. st' \in [Proc -> Doing] /\ StagesFit' /\ batch' \in [Worker -> Round] /\ BatchFits'
  BY <1>1, <1>2, GoFits DEF Refresh
<1>4. dirty' \subseteq Pair
  BY NoteTyped DEF Refresh, Shape
<1> QED
  BY <1>3, <1>4, TableSame, ViewSame, EntriesSame, RoundKept DEF Refresh, Shape, TypeOK, cacheVars

LEMMA ShapeDropLists ==
    ASSUME Shape, NEW w \in Worker, DropLists(w)
    PROVE  Shape'
<1>1. batch' \in [Worker -> Round] /\ BatchFits' /\ OneRound'
  BY DEF DropLists, NoBatch, Round, Shape, TypeOK, BatchFits, OneRound
<1>2. StagesFit'
  BY DEF DropLists, Shape, StagesFit
<1> QED
  BY <1>1, <1>2, DropTyped, TableSame, ViewSame, EntriesSame DEF DropLists, Shape, TypeOK

LEMMA ShapeEditRate ==
    ASSUME Shape, NEW i \in Id, NEW r \in Rate, EditRate(i, r)
    PROVE  Shape'
<1> DEFINE u == [j \in {i} |-> r]
<1>1. u \in Updates /\ DOMAIN u = {i} /\ u[i] = r
  <2>1. u \in [{i} -> Rate] /\ {i} \in SUBSET Id
    OBVIOUS
  <2> QED
    BY <2>1 DEF Updates
<1>2. DOMAIN u \subseteq Live
  BY <1>1 DEF EditRate
<1>3. rows' = [j \in Id |-> IF j \in DOMAIN u THEN [rows[j] EXCEPT !.rate = StoredRate[u[j]]]
                            ELSE rows[j]]
  BY <1>1 DEF EditRate, Shape, TypeOK
<1> HIDE DEF u
<1>4. TableFit' /\ rows' \in [Id -> Record \cup {Fresh, Gone}]
  BY <1>1, <1>2, <1>3, RatesSet
<1>5. ViewsFit' /\ view' \in [Viewer \cup Worker -> Loading] /\ OneRound'
  BY ViewChange, RoundKept DEF EditRate
<1>6. dirty' \subseteq Pair
  <2>1. {PairOf[i]} \cap Used \in SUBSET Pair
    BY RateAssumption
  <2> QED
    BY <2>1, NoteTyped DEF EditRate, Shape
<1>7. frozen' \subseteq Id /\ listOld' \subseteq List
  BY MissedTyped DEF EditRate, Shape, TypeOK
<1>8. StagesFit' /\ BatchFits'
  BY DEF EditRate, Shape, StagesFit, BatchFits
<1> QED
  BY <1>4, <1>5, <1>6, <1>7, <1>8, EntriesSame DEF EditRate, Shape, TypeOK, cacheVars

LEMMA ShapeStutter ==
    ASSUME Shape, UNCHANGED vars
    PROVE  Shape'
BY TableSame, ViewSame, EntriesSame
   DEF vars, Shape, TypeOK, StagesFit, BatchFits, OneRound

LEMMA ShapeStep == Shape /\ [Next]_vars => Shape'
<1> SUFFICES ASSUME Shape, [Next]_vars PROVE Shape'
  OBVIOUS
<1>1. ASSUME NEW q \in Req, Read(q) PROVE Shape'
  BY <1>1, ShapeRead
<1>2. ASSUME NEW q \in Req, Administer(q) PROVE Shape'
  BY <1>2, ShapeUpdateRate, ShapeDeleteRate, ShapeCreateRate, ShapeAssign, ShapeUpdateRow,
     ShapeDropPair, ShapeDropId DEF Administer
<1>3. ASSUME NEW x \in Proc, FillCache(x) PROVE Shape'
  BY <1>3, ShapeSelect, ShapePutPair, ShapePutId DEF FillCache
<1>4. ASSUME NEW v \in Viewer \cup Worker, LoadList(v) PROVE Shape'
  BY <1>4, ShapeLoadList
<1>5. ASSUME NEW w \in Worker, UpdateBatch(w) PROVE Shape'
  BY <1>5, ShapeFetch, ShapeCommit, ShapeDropLists, ShapeRefresh DEF UpdateBatch
<1>6. CASE UNCHANGED vars
  BY <1>6, ShapeStutter
<1>7. ASSUME NEW i \in Id, NEW r \in Rate, EditRate(i, r) PROVE Shape'
  BY <1>7, ShapeEditRate
<1> QED
  BY <1>1, <1>2, <1>3, <1>4, <1>5, <1>6, <1>7, ShapeRestart DEF Next

LEMMA ShapeAlways == Spec => []Shape
BY ShapeInit, ShapeStep, PTL DEF Spec

\* Every variable keeps its shape.
THEOREM TypeCorrect == Spec => []TypeOK
<1>1. Shape => TypeOK
  BY DEF Shape
<1> QED
  BY <1>1, ShapeAlways, PTL

-------------------------------------------------------------------------------
(* The cached lists.  Beside them the lists that are being loaded matter.  *)

FillsTrue ==
    \A v \in Viewer \cup Worker :
        view[v].at = "fill" /\ ~view[v].old => view[v].rates = Table(view[v].list)

ListInv == ListsTrue /\ FillsTrue

\* A step of process x is not the one that ends the pending writes.
LEMMA PendingStays ==
    ASSUME Shape, NEW x \in Proc, NEW s,
           st[x].op \in {"write", "create", "delete"} => s.op \in {"write", "create", "delete"},
           st' = [st EXCEPT ![x] = s], batch' = batch \/ Finish(x)
    PROVE  Pending => Pending'
<1>1. ASSUME NEW y \in Proc, st[y].op \in {"write", "create", "delete"}
      PROVE  st'[y].op \in {"write", "create", "delete"}
  BY <1>1 DEF Shape, TypeOK
<1>2. ASSUME NEW w \in Worker, batch[w].at = "refresh"
      PROVE  batch'[w].at = "refresh"
  <2>1. batch[w] \in Round
    BY DEF Shape, TypeOK
  <2> QED
    BY <1>2, <2>1 DEF Finish, Round
<1> QED
  BY <1>1, <1>2 DEF Pending

LEMMA ListsKept ==
    ASSUME ListInv, rows' = rows, view' = view, lists' = lists, listOld' = listOld,
           Pending => Pending'
    PROVE  ListInv'
<1>1. \A l : Table(l)' = Table(l)
  BY DEF Table, Live
<1>2. ListsTrue'
  BY <1>1 DEF ListInv, ListsTrue
<1>3. FillsTrue'
  BY <1>1 DEF ListInv, FillsTrue
<1> QED
  BY <1>2, <1>3 DEF ListInv

LEMMA ListsDropped ==
    ASSUME ListInv, rows' = rows, view' = view, DropBoth
    PROVE  ListInv'
<1>1. \A l : Table(l)' = Table(l)
  BY DEF Table, Live
<1>2. ListsTrue'
  BY DEF ListsTrue, DropBoth
<1>3. FillsTrue'
  BY <1>1 DEF ListInv, FillsTrue
<1> QED
  BY <1>2, <1>3 DEF ListInv

\* The rows change: a process has to tell the cache, or it will never know.
LEMMA ListsAging ==
    ASSUME Shape, RowsChange, lists' = lists, Pending' \/ ListsMissed
    PROVE  ListInv'
<1>1. ListsTrue'
  BY DEF ListsTrue, ListsMissed
<1>2. FillsTrue'
  <2> SUFFICES ASSUME NEW v \in Viewer \cup Worker PROVE ~(view'[v].at = "fill" /\ ~view'[v].old)
    BY DEF FillsTrue
  <2>1. view'[v] = IF view[v].at = "fill" THEN Filling(view[v].list, view[v].rates, TRUE) ELSE view[v]
    BY DEF RowsChange, Shape, TypeOK
  <2> QED
    BY <2>1 DEF Filling
<1> QED
  BY <1>1, <1>2 DEF ListInv

\* loadExchangeRates puts the tables of both lists into the cache.
LEMMA WarmLists ==
    ASSUME NEW warm \in WarmUp(rows), NEW l \in List, warm.lists[l] # Miss
    PROVE  warm.lists[l] = Table(l)
<1> DEFINE A == {rows[i] : i \in {j \in Id : rows[j] \in Record}}
           B == {rows[i] : i \in {j \in Id : rows[j] \in Record /\ rows[j].terms \in ActiveTerms}}
<1>1. Table("all") = A /\ Table("active") = B
  BY DEF Table, Live
<1>2. \/ warm.lists = [k \in List |-> Miss]
      \/ warm.lists = [k \in List |-> IF k = "all" THEN A ELSE Miss]
      \/ warm.lists = [k \in List |-> IF k = "all" THEN A ELSE B]
  BY DEF WarmUp
<1> HIDE DEF A, B
<1> QED
  BY <1>1, <1>2 DEF List

LEMMA ListInit == Init => ListInv
<1> SUFFICES ASSUME Init PROVE ListInv
  OBVIOUS
<1>1. ListsTrue
  BY WarmLists DEF Init, ListsTrue
<1>2. FillsTrue
  BY DEF Init, FillsTrue, NoView
<1> QED
  BY <1>1, <1>2 DEF ListInv

LEMMA ListRestart ==
    ASSUME Restart
    PROVE  ListInv'
<1>1. \A l : Table(l)' = Table(l)
  BY DEF Table, Live, Restart
<1>2. ListsTrue'
  BY <1>1, WarmLists DEF Restart, ListsTrue
<1>3. FillsTrue'
  BY DEF Restart, FillsTrue, NoView
<1> QED
  BY <1>2, <1>3 DEF ListInv

LEMMA ListRead ==
    ASSUME Shape, ListInv, NEW q \in Req, Read(q)
    PROVE  ListInv'
<1>1. ASSUME NEW op \in {"exchange", "pair", "get"}, NEW p, NEW i, Ask(q, op, p, i)
      PROVE  ListInv'
  <2>1. q \in Proc /\ st[q].op = "none"
    BY <1>1 DEF Ask, Idle, Proc
  <2> QED
    BY <1>1, <2>1, PendingStays, ListsKept DEF Ask, cacheVars
<1> QED
  BY <1>1 DEF Read, GetExchangeRate, GetByPair, GetById

LEMMA ListFillCache ==
    ASSUME Shape, ListInv, NEW x \in Proc, FillCache(x)
    PROVE  ListInv'
<1>1. Fits(x, st[x])
  BY DEF Shape, StagesFit
<1>2. CASE Select(x)
  <2>1. st[x].op \notin {"write", "create", "delete"}
    BY <1>1, <1>2 DEF Fits, Reads, Select
  <2>2. Pending => Pending'
    BY <1>2, <2>1, PendingStays DEF Select, Goto, Finish
  <2> QED
    BY <1>2, <2>2, ListsKept DEF Select, cacheVars
<1>3. CASE PutPair(x)
  <2>1. CASE st[x].op = "exchange" /\ Finish(x)
    BY <1>3, <2>1, PendingStays, ListsKept DEF PutPair, Finish
  <2>2. CASE Goto(x, "putId", st[x].op, st[x].id, st[x].rec) /\ batch' = batch
    <3>1. Busy("putId", st[x].op, st[x].pair, st[x].id, st[x].rec).op = st[x].op
      BY DEF Busy
    <3>2. Pending => Pending'
      BY <2>2, <3>1, PendingStays DEF Goto
    <3> QED
      BY <1>3, <3>2, ListsKept DEF PutPair
  <2> QED
    BY <1>3, <2>1, <2>2 DEF PutPair
<1>4. CASE PutId(x)
  <2>1. CASE st[x].op = "again"
    <3>1. Finish(x)
      BY <1>4, <2>1 DEF PutId
    <3>2. Pending => Pending'
      BY <2>1, <3>1, PendingStays DEF Finish
    <3> QED
      BY <1>4, <2>1, <3>2, ListsKept DEF PutId
  <2>2. CASE st[x].op # "again"
    BY <1>4, <2>2, ListsDropped DEF PutId
  <2> QED
    BY <2>1, <2>2
<1> QED
  BY <1>2, <1>3, <1>4 DEF FillCache

LEMMA ListAdminister ==
    ASSUME Shape, ListInv, NEW q \in Req, Administer(q)
    PROVE  ListInv'
<1>1. q \in Proc
  BY DEF Proc
<1>2. ASSUME NEW s, st' = [st EXCEPT ![q] = s], s.op \in {"write", "create", "delete"}
      PROVE  Pending'
  <2>1. st'[q] = s
    BY <1>1, <1>2 DEF Shape, TypeOK
  <2> QED
    BY <1>1, <1>2, <2>1 DEF Pending
<1>3. ASSUME NEW i \in Id, UpdateRate(q, i) PROVE ListInv'
  <2>1. st[q].op = "none"
    BY <1>3 DEF UpdateRate, Idle
  <2>2. Pending => Pending'
    BY <1>1, <1>3, <2>1, PendingStays DEF UpdateRate
  <2> QED
    BY <1>3, <2>2, ListsKept DEF UpdateRate, cacheVars
<1>4. ASSUME NEW i \in Id, DeleteRate(q, i) PROVE ListInv'
  <2>1. Pending' \/ ListsMissed
    BY <1>2, <1>4 DEF DeleteRate, Busy
  <2> QED
    BY <1>4, <2>1, ListsAging DEF DeleteRate, cacheVars
<1>5. ASSUME NEW i \in Id, NEW r \in Rate, NEW t \in Terms, CreateRate(q, i, r, t) PROVE ListInv'
  <2>1. Pending' \/ ListsMissed
    BY <1>2, <1>5 DEF CreateRate, Busy
  <2> QED
    BY <1>5, <2>1, ListsAging DEF CreateRate, cacheVars
<1>6. ASSUME NEW t \in Terms, Assign(q, t) PROVE ListInv'
  <2>1. st[q].op = "update"
    BY <1>1, <1>6 DEF Assign, Shape, StagesFit, Fits
  <2>2. Pending => Pending'
    BY <1>1, <1>6, <2>1, PendingStays DEF Assign, Goto
  <2> QED
    BY <1>6, <2>2, ListsKept DEF Assign
<1>7. CASE UpdateRow(q)
  <2>1. st[q].op = "update"
    BY <1>1, <1>7 DEF UpdateRow, Shape, StagesFit, Fits
  <2>2. CASE RowsChange /\ (Goto(q, "putPair", "write", st[q].id, st[q].rec) \/ ListsMissed)
    <3>1. Pending' \/ ListsMissed
      BY <1>2, <2>2 DEF Goto, Busy
    <3> QED
      BY <1>7, <2>2, <3>1, ListsAging DEF UpdateRow, cacheVars
  <2>3. CASE Finish(q) /\ UNCHANGED <<rows, view, listOld>>
    <3>1. Pending => Pending'
      BY <1>1, <2>1, <2>3, PendingStays DEF Finish
    <3> QED
      BY <1>7, <2>3, <3>1, ListsKept DEF UpdateRow, cacheVars
  <2> QED
    BY <1>7, <2>2, <2>3 DEF UpdateRow
<1>8. CASE DropPair(q)
  <2>1. Busy("dropId", "delete", st[q].pair, st[q].id, Miss).op = "delete"
    BY DEF Busy
  <2>2. Pending => Pending'
    BY <1>1, <1>8, <2>1, PendingStays DEF DropPair, Goto
  <2> QED
    BY <1>8, <2>2, ListsKept DEF DropPair
<1>9. CASE DropId(q)
  BY <1>9, ListsDropped DEF DropId
<1> QED
  BY <1>3, <1>4, <1>5, <1>6, <1>7, <1>8, <1>9 DEF Administer

\* A list goes into the cache: it is the table, or it is known to be old.
LEMMA ListLoadList ==
    ASSUME Shape, ListInv, NEW v \in Viewer \cup Worker, LoadList(v)
    PROVE  ListInv'
<1> DEFINE V == Viewer \cup Worker
<1>0. view \in [V -> Loading]
  BY DEF Shape, TypeOK
<1>1. ASSUME NEW l \in List, ListMiss(v, l) PROVE ListInv'
  <2>1. \A k : Table(k)' = Table(k)
    BY <1>1 DEF ListMiss, Table, Live
  <2>2. Selecting(l).at # "fill"
    BY DEF Selecting
  <2>3. FillsTrue'
    BY <1>0, <1>1, <2>1, <2>2 DEF ListMiss, ListInv, FillsTrue
  <2>4. ListsTrue'
    BY <1>1, <2>1 DEF ListMiss, cacheVars, ListInv, ListsTrue, Pending
  <2> QED
    BY <2>3, <2>4 DEF ListInv
<1>2. CASE ListSelect(v)
  <2> DEFINE f == Filling(view[v].list, Table(view[v].list), FALSE)
  <2>1. \A k : Table(k)' = Table(k)
    BY <1>2 DEF ListSelect, cacheVars, Table, Live
  <2>2. f.rates = Table(f.list) /\ NoView.at # "fill"
    BY DEF Filling, NoView
  <2>3. view' = [view EXCEPT ![v] = f] \/ view' = [view EXCEPT ![v] = NoView]
    BY <1>2 DEF ListSelect
  <2> HIDE DEF f
  <2>4. FillsTrue'
    BY <1>0, <2>1, <2>2, <2>3 DEF ListInv, FillsTrue
  <2>5. ListsTrue'
    BY <1>2, <2>1 DEF ListSelect, cacheVars, ListInv, ListsTrue, Pending
  <2> QED
    BY <2>4, <2>5 DEF ListInv
<1>3. CASE ListFill(v)
  <2> DEFINE l == view[v].list
  <2>1. \A k : Table(k)' = Table(k)
    BY <1>3 DEF ListFill, Table, Live
  <2>2. FillsTrue'
    BY <1>0, <1>3, <2>1 DEF ListFill, NoView, ListInv, FillsTrue
  <2>3. Pending => Pending'
    <3>1. v \in Worker => batch[v] = NoBatch
      BY <1>3 DEF ListFill, NoView, Shape, OneRound
    <3>2. ASSUME NEW w \in Worker, batch[w].at = "refresh" PROVE batch'[w].at = "refresh"
      <4>1. v \in Worker => w # v
        BY <3>1, <3>2 DEF NoBatch
      <4> QED
        BY <1>3, <3>2, <4>1 DEF ListFill, AskBinance, Shape, TypeOK
    <3> QED
      BY <1>3, <3>2 DEF ListFill, Pending
  <2>4. ASSUME ~Pending', NEW k \in List, lists'[k] # Miss, k \notin listOld'
        PROVE  lists'[k] = Table(k)
    <3>1. CASE k = l
      <4>1. lists'[k] = view[v].rates /\ ~view[v].old
        BY <1>3, <2>4, <3>1 DEF ListFill, Shape, TypeOK
      <4> QED
        BY <1>3, <3>1, <4>1 DEF ListFill, ListInv, FillsTrue
    <3>2. CASE k # l
      <4>1. lists'[k] = lists[k] /\ k \notin listOld
        BY <1>3, <2>4, <3>2 DEF ListFill, Shape, TypeOK
      <4> QED
        BY <2>3, <2>4, <4>1 DEF ListInv, ListsTrue
    <3> QED
      BY <3>1, <3>2
  <2>5. ListsTrue'
    BY <2>1, <2>4 DEF ListsTrue
  <2> QED
    BY <2>2, <2>5 DEF ListInv
<1> QED
  BY <1>1, <1>2, <1>3 DEF LoadList

LEMMA ListUpdateBatch ==
    ASSUME Shape, ListInv, NEW w \in Worker, UpdateBatch(w)
    PROVE  ListInv'
<1>1. CASE Fetch(w)
  <2>1. ASSUME NEW y \in Worker, batch[y].at = "refresh" PROVE batch'[y].at = "refresh"
    BY <1>1, <2>1 DEF Fetch, AskBinance, NoBatch, Shape, TypeOK
  <2>2. Pending => Pending'
    BY <1>1, <2>1 DEF Fetch, Pending
  <2> QED
    BY <1>1, <2>2, ListsKept DEF Fetch, cacheVars
<1>2. CASE Commit(w)
  <2>1. CASE RowsChange /\ batch' = [batch EXCEPT ![w] =
                 [at |-> "refresh", updates |-> batch[w].updates, left |-> DOMAIN batch[w].updates]]
    <3>1. Pending'
      BY <2>1 DEF Pending, Shape, TypeOK
    <3> QED
      BY <1>2, <2>1, <3>1, ListsAging DEF Commit, cacheVars
  <2>2. CASE RowsChange /\ ListsMissed
    BY <1>2, <2>2, ListsAging DEF Commit, cacheVars
  <2>3. CASE batch' = [batch EXCEPT ![w] = NoBatch] /\ UNCHANGED <<rows, view, frozen, listOld>>
    <3>1. ASSUME NEW y \in Worker, batch[y].at = "refresh" PROVE batch'[y].at = "refresh"
      <4>1. y # w
        BY <1>2, <3>1 DEF Commit
      <4> QED
        BY <2>3, <3>1, <4>1 DEF Shape, TypeOK
    <3>2. Pending => Pending'
      BY <1>2, <3>1 DEF Commit, Pending
    <3> QED
      BY <1>2, <2>3, <3>2, ListsKept DEF Commit, cacheVars
  <2> QED
    BY <1>2, <2>1, <2>2, <2>3 DEF Commit
<1>3. ASSUME NEW i \in Id, Refresh(w, i) PROVE ListInv'
  <2>1. w \in Proc /\ st[w].op = "none"
    BY <1>3 DEF Refresh, Idle, Proc
  <2>2. Pending => Pending'
    BY <1>3, <2>1, PendingStays DEF Refresh
  <2> QED
    BY <1>3, <2>2, ListsKept DEF Refresh, cacheVars
<1>4. CASE DropLists(w)
  BY <1>4, ListsDropped DEF DropLists
<1> QED
  BY <1>1, <1>2, <1>3, <1>4 DEF UpdateBatch

LEMMA ListStep == Shape /\ ListInv /\ [Next]_vars => ListInv'
<1> SUFFICES ASSUME Shape, ListInv, [Next]_vars PROVE ListInv'
  OBVIOUS
<1>1. CASE UNCHANGED vars
  BY <1>1, ListsKept DEF vars, Pending
<1>2. ASSUME NEW i \in Id, NEW r \in Rate, EditRate(i, r) PROVE ListInv'
  BY <1>2, ListsAging DEF EditRate, cacheVars
<1>3. CASE Next
  BY <1>2, <1>3, ListRead, ListAdminister, ListFillCache, ListLoadList, ListUpdateBatch, ListRestart
     DEF Next
<1> QED
  BY <1>1, <1>3

\* A cached list is the one the query would return, unless it was loaded while
\* the rows changed, a write is still to drop it or lost its answer, or an
\* operator has edited a rate since (exchange_rate_repository.go:85-121).
THEOREM ListsCorrect == Spec => []ListsTrue
<1>1. ListInv => ListsTrue
  BY DEF ListInv
<1> QED
  BY <1>1, ShapeAlways, ListInit, ListStep, PTL DEF Spec

===============================================================================
