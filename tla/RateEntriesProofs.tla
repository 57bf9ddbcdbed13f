--------------------------- MODULE RateEntriesProofs ---------------------------
(***************************************************************************)
(* Proofs about the single entries of RateCache.  An entry is set from the *)
(* record in a process's hands, so the invariant is about these records    *)
(* too; and it is one pair's own: what is at work on other pairs is of no  *)
(* concern, and a writer is alone on its pair as long as it is not dirty.  *)
(***************************************************************************)
EXTENDS RateCacheProofs

ReadOps == {"exchange", "pair", "get"}
Holds == {"putPair", "putId"}

\* Between the change of a row, or of the record in the cache, and the end of
\* the cache operations of that writer.
Middle(x) == \/ st[x].op \in {"write", "create", "delete"}
             \/ st[x].at = "update" /\ alias[x] # {}

\* A reader about to SELECT will find no other record than the cached ones.
SelectOk(x) ==
    st[x].at = "select" =>
        \A j \in Id : PairOf[j] = st[x].pair /\ (st[x].id # Miss => j = st[x].id)
                      /\ byId[j] # Miss => byId[j] = rows[j]

\* A reader holds its row, and the entry by id is that row or missing.
ReadOk(x) ==
    st[x].at \in Holds /\ st[x].op \in Reads =>
        /\ st[x].id \in Live
        /\ st[x].rec = rows[st[x].id]
        /\ byId[st[x].id] # Miss => byId[st[x].id] = st[x].rec

\* A writer holds what will be a true entry.
WriteOk(x) ==
    /\ st[x].at \in Holds /\ st[x].op \in {"write", "create"} => TrueTo(st[x].rec, st[x].id)
    /\ st[x].at = "assign" => TrueTo(st[x].rec, st[x].id)
    /\ st[x].at = "update" => /\ st[x].id \in Live
                              /\ st[x].id \notin frozen => StoredRate[st[x].rec.rate] = rows[st[x].id].rate

\* The cache operations that are done.
HalfOk(x) ==
    /\ st[x].op = "again" => byPair[st[x].pair] = st[x].rec /\ byId[st[x].id] = st[x].rec
    /\ st[x].at = "putId" => byPair[st[x].pair] = st[x].rec
    /\ st[x].at = "dropId" => byPair[st[x].pair] = Miss

\* The entries by id a writer does not set or drop are not there.
OnlyOne(x) == Middle(x) => \A j \in Id : PairOf[j] = st[x].pair /\ j # st[x].id => byId[j] = Miss

HandOk(x) == SelectOk(x) /\ ReadOk(x) /\ WriteOk(x) /\ HalfOk(x) /\ OnlyOne(x)

EntriesOk(p) ==
    /\ byPair[p] # Miss => PairOf[byPair[p].id] = p /\ TrueTo(byPair[p], byPair[p].id)
    /\ \A i \in Id : PairOf[i] = p /\ byId[i] # Miss => TrueTo(byId[i], i) /\ byPair[p] = byId[i]

PairInv(p) ==
    /\ \A x \in Proc : st[x].pair = p => HandOk(x)
    /\ (\A x \in Proc : st[x].pair = p => ~Middle(x)) => EntriesOk(p)

CleanInv == \A p \in Pair \ dirty : p \notin Clash /\ PairInv(p)

-------------------------------------------------------------------------------
(* Who can be at work on a pair that is not dirty.                         *)

\* x is at work on p and its operation, or its round, writes it.
Writing(x, p) ==
    \/ st[x].pair = p /\ st[x].op \notin ReadOps
    \/ x \in Worker /\ \E i \in batch[x].left : PairOf[i] = p

LEMMA WritingMeans ==
    ASSUME Shape, NEW p \in Pair, NEW x \in Proc, Writing(x, p)
    PROVE  p \in WrittenBy(x)
<1>1. Fits(x, st[x]) /\ st[x] \in Doing
  BY DEF Shape, StagesFit, TypeOK
<1>2. CASE x \in Worker /\ \E i \in batch[x].left : PairOf[i] = p
  BY <1>2 DEF WrittenBy
<1>3. CASE st[x].pair = p /\ st[x].op \notin ReadOps
  <2>1. st[x] # Idle
    BY <1>3, RateAssumption DEF Idle
  <2>2. st[x].op \in Op
    BY <1>1, <2>1 DEF Doing
  <2>3. CASE x \in Worker
    <3>1. st[x].id \in batch[x].left
      BY <2>1, <2>3 DEF Shape, BatchFits
    <3>2. PairOf[st[x].id] = p
      <4>1. batch[x].left \subseteq Id
        BY <2>3 DEF Shape, TypeOK, Round
      <4> QED
        BY <1>1, <1>3, <3>1, <4>1, RateAssumption DEF Fits
    <3> QED
      BY <2>3, <3>1, <3>2 DEF WrittenBy
  <2>4. CASE x \notin Worker
    <3>1. st[x].op \in {"update", "write", "create", "delete"}
      BY <1>1, <1>3, <2>2, <2>4 DEF Fits, Op, ReadOps, Proc
    <3> QED
      BY <1>3, <3>1 DEF WrittenBy
  <2> QED
    BY <2>3, <2>4
<1> QED
  BY <1>2, <1>3 DEF Writing

LEMMA WriterAlone ==
    ASSUME Shape, NEW p \in Pair, p \notin Clash, NEW x \in Proc, Writing(x, p),
           NEW y \in Proc, st[y].pair = p
    PROVE  y = x
<1>1. st[y].at # "idle"
  BY RateAssumption DEF Shape, TypeOK, Doing, Idle, Stage
<1>2. p \in UsedBy(y)
  BY <1>1 DEF UsedBy
<1> QED
  BY <1>2, WritingMeans DEF Clash

\* The same after a step.
LEMMA AloneNext ==
    ASSUME NEW p \in Pair, p \notin Clash', NEW x \in Proc, p \in WrittenBy(x)',
           NEW y \in Proc, st'[y].pair = p, st'[y].at # "idle"
    PROVE  y = x
BY DEF Clash, UsedBy

\* The other readers of a pair somebody reads.
LEMMA OnlyReaders ==
    ASSUME Shape, NEW p \in Pair, p \notin Clash,
           NEW x \in Proc, st[x].pair = p, st[x].op \in ReadOps,
           NEW y \in Proc, st[y].pair = p
    PROVE  st[y].op \in ReadOps
BY WriterAlone DEF Writing

LEMMA MiddleWrites ==
    ASSUME Shape, NEW x \in Proc, Middle(x)
    PROVE  st[x].op \notin ReadOps
BY DEF Shape, StagesFit, Fits, Middle, ReadOps

\* Without a writer nobody is in the middle of a write: the entries are true.
LEMMA QuietEntries ==
    ASSUME Shape, NEW p \in Pair, PairInv(p),
           \A y \in Proc : st[y].pair = p => st[y].op \in ReadOps
    PROVE  EntriesOk(p)
BY MiddleWrites DEF PairInv

-------------------------------------------------------------------------------
(* What a step has to show of a pair p.                                    *)

\* A step that has nothing to do with p.
LEMMA Frame ==
    ASSUME NEW p \in Pair, PairInv(p),
           \A x \in Proc : st'[x].pair = p => st'[x] = st[x] /\ alias'[x] = alias[x],
           \A x \in Proc : st[x].pair = p => st'[x] = st[x],
           byPair'[p] = byPair[p],
           \A j \in Id : PairOf[j] = p => /\ byId'[j] = byId[j] /\ rows'[j] = rows[j]
                                          /\ j \in frozen' => j \in frozen
                                          /\ j \in frozen => j \in frozen',
           StagesFit
    PROVE  PairInv(p)'
<1>1. ASSUME NEW j \in Id, PairOf[j] = p
      PROVE  /\ byId'[j] = byId[j] /\ rows'[j] = rows[j]
             /\ j \in Live => j \in Live'
             /\ \A e : TrueTo(e, j) => TrueTo(e, j)'
  BY <1>1 DEF Live, TrueTo
<1>2. EntriesOk(p) => EntriesOk(p)'
  <2>1. ASSUME NEW e, NEW i, TrueTo(e, i) PROVE i \in Id
    BY <2>1 DEF TrueTo, Live
  <2> QED
    BY <1>1, <2>1 DEF EntriesOk
<1>3. ASSUME NEW x \in Proc, st'[x].pair = p
      PROVE  HandOk(x)'
  <2> DEFINE i == st[x].id
  <2>1. st'[x] = st[x] /\ alias'[x] = alias[x] /\ st[x].pair = p
    BY <1>3
  <2>2. HandOk(x)
    BY <2>1 DEF PairInv
  <2>3. Fits(x, st[x])
    BY DEF StagesFit
  <2>4. SelectOk(x)'
    BY <1>1, <2>1, <2>2 DEF HandOk, SelectOk
  <2>5. ReadOk(x)'
    <3>1. st[x].at \in Holds => i \in Id /\ PairOf[i] = p
      BY <2>1, <2>3, RateAssumption DEF Fits, Holds, Puts
    <3> QED
      BY <1>1, <2>1, <2>2, <3>1 DEF HandOk, ReadOk
  <2>6. WriteOk(x)'
    <3>1. st[x].at \in Puts => i \in Id /\ PairOf[i] = p
      BY <2>1, <2>3, RateAssumption DEF Fits, Puts
    <3>2. st[x].at \in Holds \/ st[x].at = "assign" \/ st[x].at = "update" => st[x].at \in Puts
      BY DEF Holds, Puts
    <3> QED
      BY <1>1, <2>1, <2>2, <3>1, <3>2 DEF HandOk, WriteOk
  <2>7. HalfOk(x)'
    <3>1. st[x].op = "again" => i \in Id /\ PairOf[i] = p
      BY <2>1, <2>3, RateAssumption DEF Fits, Puts
    <3> QED
      BY <1>1, <2>1, <2>2, <3>1 DEF HandOk, HalfOk
  <2>8. OnlyOne(x)'
    BY <1>1, <2>1, <2>2 DEF HandOk, OnlyOne, Middle
  <2> QED
    BY <2>4, <2>5, <2>6, <2>7, <2>8 DEF HandOk
<1>4. ASSUME NEW x \in Proc, st[x].pair = p
      PROVE  st'[x].pair = p /\ (Middle(x) => Middle(x)')
  BY <1>4 DEF Middle
<1> QED
  BY <1>2, <1>3, <1>4 DEF PairInv

\* At most x is at work on p after the step.
LEMMA Alone ==
    ASSUME NEW p \in Pair, NEW x \in Proc,
           \A y \in Proc : st'[y].pair = p => y = x,
           st'[x].pair = p => HandOk(x)',
           (st'[x].pair = p => ~Middle(x)') => EntriesOk(p)'
    PROVE  PairInv(p)'
BY DEF PairInv

\* Only readers are at work on p after the step.
LEMMA Readers ==
    ASSUME NEW p \in Pair, Shape',
           \A y \in Proc : st'[y].pair = p =>
                st'[y].op \in ReadOps /\ SelectOk(y)' /\ ReadOk(y)' /\ HalfOk(y)',
           EntriesOk(p)'
    PROVE  PairInv(p)'
<1> SUFFICES ASSUME NEW y \in Proc, st'[y].pair = p PROVE HandOk(y)'
  BY DEF PairInv
<1>1. Fits(y, st'[y])
  BY DEF Shape, StagesFit
<1>2. WriteOk(y)' /\ OnlyOne(y)'
  BY <1>1 DEF Fits, ReadOps, WriteOk, OnlyOne, Middle
<1> QED
  BY <1>2 DEF HandOk

-------------------------------------------------------------------------------
(* One lemma per operation: a pair that is not dirty keeps its invariant.  *)

LEMMA NoteMeans ==
    ASSUME NEW S, Note(S), NEW p \in Pair \ dirty'
    PROVE  p \notin dirty /\ p \notin S /\ p \notin Clash'
BY DEF Note

LEMMA PairRead ==
    ASSUME Shape, Shape', NEW p \in Pair \ dirty', p \notin Clash, PairInv(p),
           NEW q \in Req, Read(q)
    PROVE  PairInv(p)'
<1> USE DEF ReadOps
<1>1. q \in Proc
  BY DEF Proc
<1>2. ASSUME NEW op \in ReadOps, NEW P \in Pair, NEW i \in Id \cup {Miss}, Ask(q, op, P, i),
             /\ i # Miss => byId[i] = Miss
             /\ i = Miss => byPair[P] = Miss
      PROVE  PairInv(p)'
  <2> DEFINE s == Busy("select", op, P, i, Miss)
  <2>1. st' = [st EXCEPT ![q] = s] /\ st[q].pair = Miss
    BY <1>2 DEF Ask, Idle
  <2>2. st'[q] = s /\ \A y \in Proc : y # q => st'[y] = st[y]
    BY <1>1, <2>1 DEF Shape, TypeOK
  <2>3. /\ byPair' = byPair /\ byId' = byId /\ rows' = rows /\ frozen' = frozen
        /\ alias' = alias /\ batch' = batch /\ p \notin Clash'
    BY <1>2, NoteMeans DEF Ask, cacheVars
  <2>4. CASE p # P
    <3>1. \A y \in Proc : st'[y].pair = p => y # q
      BY <2>2, <2>4 DEF Busy
    <3>2. \A y \in Proc : st[y].pair = p => y # q
      BY <2>1, RateAssumption
    <3> QED
      BY <2>2, <2>3, <3>1, <3>2, Frame DEF Shape
  <2>5. CASE p = P
    <3>1. ASSUME NEW y \in Proc, st[y].pair = p PROVE st[y].op \in ReadOps
      <4>1. y # q /\ st'[y] = st[y]
        BY <2>1, <2>2, <3>1, RateAssumption
      <4>2. st'[q].pair = p /\ st'[q].at # "idle"
        BY <2>2, <2>5 DEF Busy
      <4>3. p \in WrittenBy(y) => p \in WrittenBy(y)'
        BY <2>3, <4>1 DEF WrittenBy
      <4> QED
        BY <1>1, <2>3, <3>1, <4>1, <4>2, <4>3, AloneNext, WritingMeans DEF Writing
    <3>2. EntriesOk(p)
      BY <3>1, QuietEntries
    <3>3. EntriesOk(p)'
      BY <2>3, <3>2 DEF EntriesOk, TrueTo, Live
    <3>4. SelectOk(q)'
      <4>1. \A j \in Id : PairOf[j] = p /\ (i # Miss => j = i) => byId[j] = Miss
        BY <1>2, <2>5, <3>2 DEF EntriesOk
      <4> QED
        BY <2>2, <2>3, <2>5, <4>1 DEF SelectOk, Busy
    <3>5. ReadOk(q)' /\ HalfOk(q)' /\ st'[q].op \in ReadOps
      BY <2>2 DEF Busy, ReadOk, HalfOk, Holds
    <3>6. ASSUME NEW y \in Proc, st'[y].pair = p, y # q
          PROVE  st'[y].op \in ReadOps /\ SelectOk(y)' /\ ReadOk(y)' /\ HalfOk(y)'
      <4>1. st'[y] = st[y] /\ HandOk(y)
        BY <2>2, <3>6 DEF PairInv
      <4> QED
        BY <2>3, <3>1, <3>6, <4>1 DEF HandOk, SelectOk, ReadOk, HalfOk, Live
    <3> QED
      BY <3>3, <3>4, <3>5, <3>6, Readers
  <2> QED
    BY <2>4, <2>5
<1>3. CASE \E P \in Pair : GetExchangeRate(q, P) \/ GetByPair(q, P)
  BY <1>2, <1>3 DEF GetExchangeRate, GetByPair
<1>4. CASE \E i \in Id : GetById(q, i)
  <2>1. PICK i \in Id : GetById(q, i)
    BY <1>4
  <2>2. PairOf[i] \in Pair /\ i # Miss
    BY RateAssumption
  <2> QED
    BY <1>2, <2>1, <2>2 DEF GetById
<1> QED
  BY <1>3, <1>4 DEF Read

-------------------------------------------------------------------------------
(* A process goes on, or ends, its work on p.                              *)

\* If it is not in the middle of a write nobody is: it is a writer, alone on
\* the pair, or all others are readers too.
LEMMA EntriesAt ==
    ASSUME Shape, NEW p \in Pair, p \notin Clash, PairInv(p),
           NEW x \in Proc, st[x].pair = p, ~Middle(x)
    PROVE  EntriesOk(p)
<1>1. CASE st[x].op \in ReadOps
  BY <1>1, OnlyReaders, QuietEntries
<1>2. CASE st[x].op \notin ReadOps
  BY <1>2, WriterAlone DEF Writing, PairInv
<1> QED
  BY <1>1, <1>2

LEMMA GoesOn ==
    ASSUME Shape, Shape', NEW p \in Pair, p \notin Clash,
           NEW x \in Proc, st[x].pair = p,
           \A y \in Proc : y # x => st'[y] = st[y],
           st'[x].pair = p => HandOk(x)',
           (st'[x].pair = p => ~Middle(x)') => EntriesOk(p)',
           st[x].op \in ReadOps =>
              /\ st'[x].pair = p => st'[x].op \in ReadOps
              /\ \A y \in Proc : y # x /\ st[y].pair = p => SelectOk(y)' /\ ReadOk(y)' /\ HalfOk(y)'
    PROVE  PairInv(p)'
<1>1. CASE st[x].op \notin ReadOps
  <2>1. ASSUME NEW y \in Proc, st'[y].pair = p PROVE y = x
    BY <1>1, <2>1, WriterAlone DEF Writing
  <2> QED
    BY <2>1, Alone
<1>2. CASE st[x].op \in ReadOps
  <2>1. ASSUME NEW y \in Proc, st'[y].pair = p
        PROVE  st'[y].op \in ReadOps /\ SelectOk(y)' /\ ReadOk(y)' /\ HalfOk(y)'
    BY <1>2, <2>1, OnlyReaders DEF HandOk
  <2>2. st'[x].pair = p => ~Middle(x)'
    BY <2>1 DEF Middle, Shape, StagesFit, Fits, ReadOps
  <2> QED
    BY <2>1, <2>2, Readers
<1> QED
  BY <1>1, <1>2

\* What the others read does not change with the process x.
LEMMA OthersSame ==
    ASSUME Shape, NEW p \in Pair, PairInv(p), NEW y \in Proc, st[y].pair = p, st'[y] = st[y],
           byPair' = byPair, byId' = byId, rows' = rows
    PROVE  SelectOk(y)' /\ ReadOk(y)' /\ HalfOk(y)'
<1>1. HandOk(y)
  BY DEF PairInv
<1> QED
  BY <1>1 DEF HandOk, SelectOk, ReadOk, HalfOk, Live

LEMMA EntriesSameOk ==
    ASSUME NEW p \in Pair, EntriesOk(p), byPair' = byPair, byId' = byId, rows' = rows, frozen' = frozen
    PROVE  EntriesOk(p)'
BY DEF EntriesOk, TrueTo, Live

\* The process x is somewhere else.
LEMMA Elsewhere ==
    ASSUME Shape, NEW p \in Pair, PairInv(p), NEW x \in Proc,
           st[x].pair # p, st'[x].pair # p,
           \A y \in Proc : y # x => st'[y] = st[y],
           \A y \in Proc : st[y].pair = p => alias'[y] = alias[y],
           byPair'[p] = byPair[p],
           \A j \in Id : PairOf[j] = p => byId'[j] = byId[j] /\ rows'[j] = rows[j],
           frozen' = frozen
    PROVE  PairInv(p)'
BY Frame DEF Shape

LEMMA GotoMeans ==
    ASSUME Shape, NEW x \in Proc, NEW at, NEW op, NEW i, NEW rec, Goto(x, at, op, i, rec)
    PROVE  /\ st'[x] = Busy(at, op, st[x].pair, i, rec)
           /\ \A y \in Proc : y # x => st'[y] = st[y]
           /\ st'[x].at = at /\ st'[x].op = op /\ st'[x].pair = st[x].pair
           /\ st'[x].id = i /\ st'[x].rec = rec
BY DEF Shape, TypeOK, Goto, Busy

LEMMA FinishMeans ==
    ASSUME Shape, NEW x \in Proc, Finish(x)
    PROVE  st'[x] = Idle /\ st'[x].pair \notin Pair /\ \A y \in Proc : y # x => st'[y] = st[y]
BY RateAssumption DEF Shape, TypeOK, Finish, Idle

LEMMA PairSelect ==
    ASSUME Shape, Shape', NEW p \in Pair \ dirty', p \notin Clash, PairInv(p),
           NEW x \in Proc, Select(x)
    PROVE  PairInv(p)'
<1>1. /\ byPair' = byPair /\ byId' = byId /\ rows' = rows /\ frozen' = frozen /\ alias' = alias
  BY DEF Select, cacheVars
<1>2. /\ \A y \in Proc : y # x => st'[y] = st[y]
      /\ st'[x].pair = st[x].pair \/ st'[x].pair \notin Pair
  BY GotoMeans, FinishMeans DEF Select
<1>3. Fits(x, st[x]) /\ st[x].at = "select" /\ st[x].op \in Reads
  BY DEF Shape, StagesFit, Fits, Select
<1>4. CASE st[x].pair # p
  BY <1>1, <1>2, <1>4, Elsewhere
<1>5. CASE st[x].pair = p
  <2>1. ~Middle(x)
    BY <1>3 DEF Middle, Reads
  <2>2. EntriesOk(p)'
    BY <1>1, <1>5, <2>1, EntriesAt, EntriesSameOk
  <2>3. \A y \in Proc : y # x /\ st[y].pair = p => SelectOk(y)' /\ ReadOk(y)' /\ HalfOk(y)'
    BY <1>1, <1>2, OthersSame
  <2>4. CASE Finish(x)
    BY <1>2, <1>5, <2>2, <2>3, <2>4, FinishMeans, GoesOn
  <2>5. ASSUME NEW i \in Found(x), Goto(x, "putPair", st[x].op, i, rows[i])
        PROVE  PairInv(p)'
    <3>1. /\ st'[x].at = "putPair" /\ st'[x].op = st[x].op /\ st'[x].pair = p
          /\ st'[x].id = i /\ st'[x].rec = rows[i]
      BY <1>5, <2>5, GotoMeans
    <3>2. i \in Live /\ i \in Id /\ PairOf[i] = p /\ (st[x].id # Miss => i = st[x].id)
      BY <1>5 DEF Found, Live
    <3>3. SelectOk(x)
      BY <1>5 DEF PairInv, HandOk
    <3>4. byId[i] # Miss => byId[i] = rows[i]
      BY <1>3, <1>5, <3>2, <3>3 DEF SelectOk
    <3>5. ReadOk(x)'
      BY <1>1, <3>1, <3>2, <3>4 DEF ReadOk, Live
    <3>6. SelectOk(x)' /\ WriteOk(x)' /\ HalfOk(x)' /\ OnlyOne(x)'
      BY <1>3, <3>1 DEF SelectOk, WriteOk, HalfOk, OnlyOne, Middle, Reads
    <3> QED
      BY <1>2, <1>5, <2>2, <2>3, <3>1, <3>5, <3>6, GoesOn DEF HandOk
  <2> QED
    BY <2>4, <2>5 DEF Select
<1> QED
  BY <1>4, <1>5

\* Two processes with rows of the same pair have the same row.
LEMMA OneRow ==
    ASSUME Shape, NEW i \in Live, NEW j \in Live, PairOf[i] = PairOf[j]
    PROVE  i = j
BY DEF Shape, TableFit

\* A row is a true entry of itself.
LEMMA RowTrue ==
    ASSUME Shape, NEW i \in Live
    PROVE  TrueTo(rows[i], i)
BY DEF Shape, TableFit, Kept, TrueTo

LEMMA PairPutPair ==
    ASSUME Shape, Shape', NEW p \in Pair \ dirty', p \notin Clash, PairInv(p),
           NEW x \in Proc, PutPair(x)
    PROVE  PairInv(p)'
<1>3. Fits(x, st[x]) /\ st[x].at = "putPair" /\ st[x].op \in Op \ {"delete"}
  BY DEF Shape, StagesFit, Fits, PutPair, Puts
<1>4. PICK i \in Id, e \in Record : i = st[x].id /\ e = st[x].rec /\ e.id = i
                                /\ PairOf[i] = st[x].pair /\ st[x].pair \in Pair
  BY <1>3, RateAssumption DEF Fits, Puts
<1>1. /\ byPair' = [byPair EXCEPT ![st[x].pair] = e]
      /\ byId' = byId /\ rows' = rows /\ frozen' = frozen
  BY <1>4 DEF PutPair
<1>2. /\ \A y \in Proc : y # x => st'[y] = st[y]
      /\ st'[x].pair = st[x].pair \/ st'[x].pair \notin Pair
  BY GotoMeans, FinishMeans DEF PutPair
<1>5. CASE st[x].pair # p
  <2>1. \A y \in Proc : st[y].pair = p => alias'[y] = alias[y]
    BY <1>5 DEF PutPair, Repoint, PairHolders
  <2>2. byPair'[p] = byPair[p]
    BY <1>1, <1>5 DEF Shape, TypeOK
  <2> QED
    BY <1>1, <1>2, <1>5, <2>1, <2>2, Elsewhere
<1>6. CASE st[x].pair = p
  <2>1. byPair'[p] = e
    BY <1>1, <1>6 DEF Shape, TypeOK
  <2>2. HandOk(x)
    BY <1>6 DEF PairInv
  <2>3. ASSUME Goto(x, "putId", st[x].op, i, e)
        PROVE  HandOk(x)' /\ (Middle(x)' <=> Middle(x)) /\ st'[x].op = st[x].op
    <3>1. /\ st'[x].at = "putId" /\ st'[x].op = st[x].op /\ st'[x].pair = p
          /\ st'[x].id = i /\ st'[x].rec = e
      BY <1>6, <2>3, GotoMeans
    <3>2. SelectOk(x)' /\ HalfOk(x)'
      BY <1>1, <1>4, <1>6, <2>1, <2>2, <3>1 DEF SelectOk, HalfOk, HandOk
    <3>3. ReadOk(x)' /\ WriteOk(x)'
      BY <1>1, <1>3, <1>4, <2>2, <3>1 DEF ReadOk, WriteOk, HandOk, Holds, TrueTo, Live
    <3>4. Middle(x)' <=> Middle(x)
      BY <1>3, <3>1 DEF Middle
    <3>5. OnlyOne(x)'
      BY <1>1, <1>4, <1>6, <2>2, <3>1, <3>4 DEF OnlyOne, HandOk
    <3> QED
      BY <3>1, <3>2, <3>3, <3>4, <3>5 DEF HandOk
  <2>4. ASSUME st[x].op = "exchange", Finish(x)
        PROVE  st'[x].pair # p /\ ~Middle(x)
    BY <1>3, <2>4, FinishMeans DEF Middle
  <2>5. ASSUME ~Middle(x)
        PROVE  EntriesOk(p)'
    <3>1. EntriesOk(p)
      BY <1>6, <2>5, EntriesAt
    <3>2. CASE st[x].op \in Reads
      <4>1. i \in Live /\ e = rows[i] /\ (byId[i] # Miss => byId[i] = e)
        BY <1>3, <1>4, <2>2, <3>2 DEF HandOk, ReadOk, Holds
      <4>2. TrueTo(e, i)'
        BY <1>1, <1>4, <4>1, RowTrue DEF TrueTo, Live
      <4>3. ASSUME NEW j \in Id, PairOf[j] = p, byId[j] # Miss
            PROVE  TrueTo(byId[j], j)' /\ e = byId[j]
        <5>1. TrueTo(byId[j], j) /\ j = i
          BY <1>4, <1>6, <3>1, <4>1, <4>3, OneRow DEF EntriesOk, TrueTo
        <5> QED
          BY <1>1, <4>1, <4>2, <4>3, <5>1 DEF TrueTo
      <4> QED
        BY <1>1, <1>4, <1>6, <2>1, <4>2, <4>3 DEF EntriesOk
    <3>3. CASE st[x].op = "again"
      <4>1. byPair[p] = e
        BY <1>4, <1>6, <2>2, <3>3 DEF HandOk, HalfOk
      <4>2. byPair' = byPair
        BY <1>1, <1>6, <4>1 DEF Shape, TypeOK
      <4> QED
        BY <1>1, <3>1, <4>2, EntriesSameOk
    <3> QED
      BY <1>3, <2>5, <3>2, <3>3 DEF Middle, Op, Reads
  <2>6. ASSUME st[x].op \in ReadOps, NEW y \in Proc, y # x, st[y].pair = p
        PROVE  SelectOk(y)' /\ ReadOk(y)' /\ HalfOk(y)'
    <3>1. st'[y] = st[y] /\ HandOk(y) /\ st[y].op \in ReadOps /\ Fits(y, st[y])
      BY <1>2, <1>6, <2>6, OnlyReaders DEF PairInv, Shape, StagesFit
    <3>2. SelectOk(y)' /\ ReadOk(y)'
      BY <1>1, <3>1 DEF HandOk, SelectOk, ReadOk, Live
    <3>3. ASSUME st[y].at = "putId" PROVE st[y].rec = e
      <4>1. st[y].id \in Live /\ st[y].rec = rows[st[y].id] /\ PairOf[st[y].id] = p
        BY <2>6, <3>1, <3>3, RateAssumption DEF HandOk, ReadOk, Holds, ReadOps, Reads, Fits, Puts
      <4>2. i \in Live /\ e = rows[i]
        BY <1>3, <1>4, <2>2, <2>6 DEF HandOk, ReadOk, Holds, ReadOps, Reads
      <4> QED
        BY <1>4, <1>6, <4>1, <4>2, OneRow
    <3>4. HalfOk(y)'
      BY <2>1, <2>6, <3>1, <3>3 DEF HalfOk, ReadOps, Fits
    <3> QED
      BY <3>2, <3>4
  <2>7. \/ Goto(x, "putId", st[x].op, i, e)
        \/ st[x].op = "exchange" /\ Finish(x)
    BY <1>4 DEF PutPair
  <2>8. (st'[x].pair = p => ~Middle(x)') => EntriesOk(p)'
    BY <1>6, <2>3, <2>4, <2>5, <2>7, GotoMeans
  <2>9. st'[x].pair = p => HandOk(x)' /\ st'[x].op = st[x].op
    BY <2>3, <2>4, <2>7
  <2> QED
    BY <1>2, <1>6, <2>6, <2>8, <2>9, GoesOn
<1> QED
  BY <1>5, <1>6

LEMMA PairPutId ==
    ASSUME Shape, Shape', NEW p \in Pair \ dirty', p \notin Clash, PairInv(p),
           NEW x \in Proc, PutId(x)
    PROVE  PairInv(p)'
<1>1. Fits(x, st[x]) /\ st[x].at = "putId" /\ st[x].op \in Op \ {"delete", "exchange"}
  BY DEF Shape, StagesFit, Fits, PutId, Puts
<1>2. PICK i \in Id, e \in Record : i = st[x].id /\ e = st[x].rec /\ e.id = i
                                /\ PairOf[i] = st[x].pair /\ st[x].pair \in Pair
  BY <1>1, RateAssumption DEF Fits, Puts
<1>3. /\ byId' = [byId EXCEPT ![i] = e]
      /\ byPair' = byPair /\ rows' = rows /\ frozen' = frozen
  BY <1>2 DEF PutId
<1>4. \/ st[x].op = "update" /\ Goto(x, "assign", "update", i, e)
      \/ st[x].op = "refresh" /\ Goto(x, "putPair", "again", i, e)
      \/ st[x].op \notin {"update", "refresh"} /\ Finish(x)
  BY <1>2 DEF PutId
<1>5. /\ \A y \in Proc : y # x => st'[y] = st[y]
      /\ st'[x].pair = st[x].pair \/ st'[x].pair \notin Pair
  BY <1>4, GotoMeans, FinishMeans
<1>6. byId'[i] = e /\ \A j \in Id : j # i => byId'[j] = byId[j]
  BY <1>3 DEF Shape, TypeOK
<1>7. CASE st[x].pair # p
  <2>1. ASSUME NEW y \in Proc, st[y].pair = p PROVE alias'[y] = alias[y]
    <3>1. y # x /\ st[y].id # i
      BY <1>2, <1>7, <2>1, RateAssumption DEF Shape, StagesFit, Fits
    <3> QED
      BY <1>2, <3>1 DEF PutId, Repoint, IdHolders
  <2> QED
    BY <1>2, <1>3, <1>5, <1>6, <1>7, <2>1, Elsewhere
<1>8. CASE st[x].pair = p
  <2>1. HandOk(x)
    BY <1>8 DEF PairInv
  <2>2. byPair[p] = e
    BY <1>1, <1>2, <1>8, <2>1 DEF HandOk, HalfOk
  <2>3. /\ st[x].op \in Reads => i \in Live /\ e = rows[i]
        /\ st[x].op \in {"write", "create"} => TrueTo(e, i)
        /\ st[x].op = "again" => byId[i] = e
    BY <1>1, <1>2, <2>1 DEF HandOk, ReadOk, WriteOk, HalfOk, Holds
  <2>4. st[x].op \in Reads => TrueTo(e, i)
    BY <2>3, RowTrue
  <2>5. EntriesOk(p)'
    <3>1. CASE st[x].op \in {"write", "create"}
      <4>1. \A j \in Id : PairOf[j] = p /\ j # i => byId'[j] = Miss
        BY <1>2, <1>6, <1>8, <2>1, <3>1 DEF HandOk, OnlyOne, Middle
      <4>2. TrueTo(e, i)'
        BY <1>3, <2>3, <3>1 DEF TrueTo, Live
      <4> QED
        BY <1>2, <1>3, <1>6, <1>8, <2>2, <4>1, <4>2 DEF EntriesOk, TrueTo
    <3>2. CASE st[x].op \notin {"write", "create"}
      <4>1. EntriesOk(p)
        BY <1>1, <1>8, <3>2, EntriesAt DEF Middle
      <4>2. TrueTo(e, i)
        BY <1>1, <1>2, <1>8, <2>3, <2>4, <3>2, <4>1, RateAssumption DEF EntriesOk, Op, Reads
      <4>3. ASSUME NEW j \in Id, PairOf[j] = p, byId'[j] # Miss
            PROVE  TrueTo(byId[j], j)' /\ byPair[p] = byId'[j]
        <5>1. CASE j = i
          BY <1>3, <1>6, <2>2, <4>2, <5>1 DEF TrueTo, Live
        <5>2. CASE j # i
          BY <1>3, <1>6, <4>1, <4>3, <5>2 DEF EntriesOk, TrueTo, Live
        <5> QED
          BY <5>1, <5>2
      <4> QED
        BY <1>3, <4>1, <4>3 DEF EntriesOk, TrueTo, Live
    <3> QED
      BY <3>1, <3>2
  <2>6. ASSUME st'[x].pair = p
        PROVE  HandOk(x)'
    <3>1. CASE st[x].op = "update" /\ Goto(x, "assign", "update", i, e)
      <4>1. st'[x].at = "assign" /\ st'[x].op = "update" /\ st'[x].id = i /\ st'[x].rec = e
        BY <3>1, GotoMeans
      <4>2. WriteOk(x)'
        BY <1>3, <2>4, <3>1, <4>1 DEF WriteOk, TrueTo, Live, Holds, Reads
      <4> QED
        BY <4>1, <4>2 DEF HandOk, SelectOk, ReadOk, HalfOk, OnlyOne, Middle, Holds
    <3>2. CASE st[x].op = "refresh" /\ Goto(x, "putPair", "again", i, e)
      <4>1. st'[x].at = "putPair" /\ st'[x].op = "again" /\ st'[x].id = i /\ st'[x].rec = e
        BY <3>2, GotoMeans
      <4>2. HalfOk(x)'
        BY <1>3, <1>6, <2>2, <2>6, <4>1 DEF HalfOk
      <4> QED
        BY <4>1, <4>2 DEF HandOk, SelectOk, ReadOk, WriteOk, OnlyOne, Middle, Reads
    <3> QED
      BY <1>4, <2>6, <3>1, <3>2, FinishMeans
  <2>7. ASSUME st[x].op \in ReadOps, NEW y \in Proc, y # x, st[y].pair = p
        PROVE  SelectOk(y)' /\ ReadOk(y)' /\ HalfOk(y)'
    <3>1. st'[y] = st[y] /\ HandOk(y) /\ Fits(y, st[y]) /\ st[y].op \in ReadOps
      BY <1>5, <1>8, <2>7, OnlyReaders DEF PairInv, Shape, StagesFit
    <3>2. i \in Live /\ e = rows[i]
      BY <2>3, <2>7 DEF ReadOps, Reads
    <3>3. SelectOk(y)'
      BY <1>3, <1>6, <3>1, <3>2 DEF HandOk, SelectOk
    <3>4. ReadOk(y)'
      <4> SUFFICES ASSUME st[y].at \in Holds, st[y].op \in Reads
                   PROVE  /\ st[y].id \in Live
                          /\ st[y].rec = rows[st[y].id]
                          /\ byId'[st[y].id] # Miss => byId'[st[y].id] = st[y].rec
        BY <1>3, <3>1 DEF ReadOk, Live
      <4>1. /\ st[y].id \in Live /\ st[y].rec = rows[st[y].id]
            /\ byId[st[y].id] # Miss => byId[st[y].id] = st[y].rec
        BY <3>1 DEF HandOk, ReadOk
      <4>2. st[y].id \in Id
        BY <4>1 DEF Live
      <4> QED
        BY <1>6, <3>2, <4>1, <4>2
    <3>5. HalfOk(y)'
      BY <1>3, <3>1 DEF HandOk, HalfOk, ReadOps
    <3> QED
      BY <3>3, <3>4, <3>5
  <2>8. st[x].op \in ReadOps => st'[x].pair # p
    BY <1>4, <1>8, FinishMeans DEF ReadOps
  <2> QED
    BY <1>5, <1>8, <2>5, <2>6, <2>7, <2>8, GoesOn
<1> QED
  BY <1>7, <1>8

\* A process that starts to write p meets nobody there, or p gets dirty.
LEMMA StartsAlone ==
    ASSUME Shape, Shape', NEW p \in Pair, p \notin Clash', PairInv(p),
           NEW x \in Proc, st[x].pair # p, st'[x].pair = p,
           st'[x].op \in {"update", "write", "create", "delete"} \/ (x \in Worker /\ p \in WrittenBy(x)'),
           \A y \in Proc : y # x => st'[y] = st[y]
    PROVE  EntriesOk(p) /\ \A y \in Proc : st'[y].pair = p => y = x
<1>1. p \in WrittenBy(x)'
  BY DEF WrittenBy
<1>2. ASSUME NEW y \in Proc, st'[y].pair = p PROVE y = x
  <2>1. st'[y].at # "idle"
    BY <1>2, RateAssumption DEF Shape, TypeOK, Doing, Idle, Stage
  <2> QED
    BY <1>1, <1>2, <2>1, AloneNext
<1>3. ASSUME NEW y \in Proc PROVE st[y].pair # p
  BY <1>2
<1> QED
  BY <1>2, <1>3 DEF PairInv

LEMMA PairUpdateRate ==
    ASSUME Shape, Shape', NEW p \in Pair \ dirty', p \notin Clash, PairInv(p),
           NEW q \in Req, NEW i \in Id, UpdateRate(q, i)
    PROVE  PairInv(p)'
<1> DEFINE s == IF byId[i] # Miss THEN Busy("assign", "update", PairOf[i], i, byId[i])
                ELSE Busy("select", "update", PairOf[i], i, Miss)
<1>1. q \in Proc
  BY DEF Proc
<1>2. st'[q] = s /\ \A y \in Proc : y # q => st'[y] = st[y]
  BY <1>1 DEF UpdateRate, Shape, TypeOK
<1>3. /\ byPair' = byPair /\ byId' = byId /\ rows' = rows /\ frozen' = frozen
      /\ alias' = alias /\ p \notin Clash' /\ st[q].pair # p
  BY NoteMeans, RateAssumption DEF UpdateRate, cacheVars, Idle
<1>4. /\ st'[q].pair = PairOf[i] /\ st'[q].op = "update" /\ st'[q].id = i
      /\ byId[i] = Miss => st'[q].at = "select"
      /\ byId[i] # Miss => st'[q].at = "assign" /\ st'[q].rec = byId[i]
  BY <1>2 DEF Busy
<1>5. CASE PairOf[i] # p
  BY <1>1, <1>2, <1>3, <1>4, <1>5, Elsewhere
<1>6. CASE PairOf[i] = p
  <2>1. EntriesOk(p) /\ \A y \in Proc : st'[y].pair = p => y = q
    BY <1>1, <1>2, <1>3, <1>4, <1>6, StartsAlone
  <2>2. EntriesOk(p)'
    BY <1>3, <2>1, EntriesSameOk
  <2>3. WriteOk(q)'
    BY <1>3, <1>4, <1>6, <2>1 DEF WriteOk, EntriesOk, TrueTo, Live, Holds
  <2>4. SelectOk(q)'
    <3> SUFFICES ASSUME st'[q].at = "select" PROVE SelectOk(q)'
      BY DEF SelectOk
    <3>1. byId'[i] = Miss /\ i # Miss
      BY <1>3, <1>4, RateAssumption
    <3> QED
      BY <1>4, <3>1 DEF SelectOk
  <2>5. HandOk(q)'
    BY <1>4, <2>3, <2>4 DEF HandOk, ReadOk, HalfOk, OnlyOne, Middle, Holds
  <2> QED
    BY <1>1, <2>1, <2>2, <2>5, Alone
<1> QED
  BY <1>5, <1>6

LEMMA PairAssign ==
    ASSUME Shape, Shape', NEW p \in Pair \ dirty', p \notin Clash, PairInv(p),
           NEW q \in Req, NEW t \in Terms, Assign(q, t)
    PROVE  PairInv(p)'
<1>1. q \in Proc /\ Fits(q, st[q]) /\ st[q].at = "assign" /\ st[q].op = "update"
  BY DEF Proc, Assign, Shape, StagesFit, Fits
<1>2. PICK i \in Id, f \in Record : i = st[q].id /\ f = st[q].rec /\ f.id = i
                                /\ PairOf[i] = st[q].pair /\ st[q].pair \in Pair
  BY <1>1, RateAssumption DEF Fits, Puts
<1>3. PICK e \in Record : e = [f EXCEPT !.terms = t] /\ e.rate = f.rate
  <2>1. [f EXCEPT !.terms = t] \in Record /\ [f EXCEPT !.terms = t].rate = f.rate
    BY <1>2 DEF Record
  <2> QED
    BY <2>1
<1>4. /\ byPair' = IF "pair" \in alias[q] THEN [byPair EXCEPT ![st[q].pair] = e] ELSE byPair
      /\ byId' = IF "id" \in alias[q] THEN [byId EXCEPT ![i] = e] ELSE byId
      /\ rows' = rows /\ frozen' = frozen /\ alias' = alias
  BY <1>2, <1>3 DEF Assign
<1>5. /\ st'[q].at = "update" /\ st'[q].op = "update" /\ st'[q].pair = st[q].pair
      /\ st'[q].id = i /\ st'[q].rec = e
      /\ \A y \in Proc : y # q => st'[y] = st[y]
  BY <1>1, <1>2, <1>3, GotoMeans DEF Assign
<1>6. \A j \in Id : j # i => byId'[j] = byId[j]
  BY <1>4 DEF Shape, TypeOK
<1>7. CASE st[q].pair # p
  <2>1. byPair'[p] = byPair[p]
    BY <1>4, <1>7 DEF Shape, TypeOK
  <2> QED
    BY <1>1, <1>2, <1>4, <1>5, <1>6, <1>7, <2>1, Elsewhere
<1>8. CASE st[q].pair = p
  <2>1. EntriesOk(p) /\ TrueTo(f, i)
    BY <1>1, <1>2, <1>8, EntriesAt DEF Middle, PairInv, HandOk, WriteOk
  <2>2. WriteOk(q)'
    BY <1>2, <1>3, <1>4, <1>5, <2>1 DEF WriteOk, Holds, TrueTo, Live
  <2>3. OnlyOne(q)'
    <3>1. ASSUME NEW j \in Id, PairOf[j] = p, j # i PROVE byId[j] = Miss
      BY <1>2, <1>8, <2>1, <3>1, OneRow DEF EntriesOk, TrueTo
    <3> QED
      BY <1>5, <1>6, <1>8, <3>1 DEF OnlyOne
  <2>4. HandOk(q)'
    BY <1>5, <2>2, <2>3 DEF HandOk, SelectOk, ReadOk, HalfOk, Holds
  <2>5. ASSUME ~Middle(q)' PROVE EntriesOk(p)'
    <3>1. alias[q] = {}
      BY <1>4, <1>5, <2>5 DEF Middle
    <3> QED
      BY <1>4, <2>1, <3>1, EntriesSameOk
  <2>6. \A y \in Proc : st'[y].pair = p => y = q
    BY <1>1, <1>5, <1>8, WriterAlone DEF Writing, ReadOps
  <2> QED
    BY <1>1, <1>5, <1>8, <2>4, <2>5, <2>6, Alone
<1> QED
  BY <1>7, <1>8

LEMMA PairUpdateRow ==
    ASSUME Shape, Shape', NEW p \in Pair \ dirty', p \notin Clash, PairInv(p),
           NEW q \in Req, UpdateRow(q)
    PROVE  PairInv(p)'
<1>1. q \in Proc /\ Fits(q, st[q]) /\ st[q].at = "update" /\ st[q].op = "update"
  BY DEF Proc, UpdateRow, Shape, StagesFit, Fits
<1>2. PICK i \in Id, e \in Record : i = st[q].id /\ e = st[q].rec /\ e.id = i
                                /\ PairOf[i] = st[q].pair /\ st[q].pair \in Pair
  BY <1>1, RateAssumption DEF Fits, Puts
<1> DEFINE Applied == i \in Live /\ rows' = [rows EXCEPT ![i] = [rows[i] EXCEPT !.terms = StoredTerms[e.terms]]]
<1>3. /\ byPair' = byPair /\ byId' = byId /\ frozen' = frozen
      /\ alias' = [alias EXCEPT ![q] = {}]
      /\ \/ Applied /\ Goto(q, "putPair", "write", i, e)
         \/ Applied /\ Finish(q) /\ Note({st[q].pair})
         \/ rows' = rows /\ Finish(q) /\ Note(IF alias[q] # {} THEN {st[q].pair} ELSE {})
  BY <1>2 DEF UpdateRow, cacheVars
<1>4. /\ \A y \in Proc : y # q => st'[y] = st[y] /\ alias'[y] = alias[y]
      /\ st'[q].pair = st[q].pair \/ st'[q].pair \notin Pair
      /\ \A j \in Id : j # i => rows'[j] = rows[j]
  BY <1>1, <1>3, GotoMeans, FinishMeans DEF Shape, TypeOK
<1>5. CASE st[q].pair # p
  BY <1>1, <1>2, <1>3, <1>4, <1>5, Elsewhere
<1>6. CASE st[q].pair = p
  <2>1. \A y \in Proc : st'[y].pair = p => y = q
    BY <1>1, <1>4, <1>6, WriterAlone DEF Writing, ReadOps
  <2>2. ASSUME Applied, Goto(q, "putPair", "write", i, e) PROVE PairInv(p)'
    <3>1. /\ st'[q].at = "putPair" /\ st'[q].op = "write" /\ st'[q].pair = p
          /\ st'[q].id = i /\ st'[q].rec = e
      BY <1>1, <1>6, <2>2, GotoMeans
    <3>2. HandOk(q)
      BY <1>1, <1>6 DEF PairInv
    <3>3. rows[i] \in Record /\ rows[i].id = i
      BY <2>2 DEF Live, Shape, TableFit
    <3>4. rows'[i] = [rows[i] EXCEPT !.terms = StoredTerms[e.terms]] /\ rows'[i] \in Record
      <4>1. StoredTerms[e.terms] \in Terms
        BY <1>2, RateAssumption DEF Record
      <4> QED
        BY <1>2, <2>2, <3>3, <4>1 DEF Shape, TypeOK, Record
    <3>5. TrueTo(e, i)'
      <4>1. i \notin frozen => StoredRate[e.rate] = rows[i].rate
        BY <1>1, <1>2, <3>2 DEF HandOk, WriteOk
      <4>2. rows'[i].terms = StoredTerms[e.terms] /\ rows'[i].rate = rows[i].rate
        BY <3>3, <3>4 DEF Record
      <4> QED
        BY <1>2, <1>3, <3>4, <4>1, <4>2 DEF TrueTo, Live
    <3>6. WriteOk(q)'
      BY <3>1, <3>5 DEF WriteOk, TrueTo, Live
    <3>7. ASSUME NEW j \in Id, PairOf[j] = p, j # i PROVE byId[j] = Miss
      <4>1. CASE Middle(q)
        BY <1>1, <1>2, <1>6, <3>2, <3>7, <4>1 DEF HandOk, OnlyOne
      <4>2. CASE ~Middle(q)
        BY <1>1, <1>2, <1>6, <2>2, <3>7, <4>2, EntriesAt, OneRow DEF EntriesOk, TrueTo
      <4> QED
        BY <4>1, <4>2
    <3>8. HandOk(q)' /\ Middle(q)'
      BY <1>3, <3>1, <3>6, <3>7 DEF HandOk, SelectOk, ReadOk, HalfOk, OnlyOne, Middle, Reads
    <3> QED
      BY <1>1, <2>1, <3>1, <3>8, Alone
  <2>3. ASSUME rows' = rows, Finish(q), Note(IF alias[q] # {} THEN {st[q].pair} ELSE {})
        PROVE  PairInv(p)'
    <3>1. ~Middle(q)
      BY <1>1, <1>6, <2>3 DEF Note, Middle
    <3>2. EntriesOk(p)'
      BY <1>1, <1>3, <1>6, <2>3, <3>1, EntriesAt, EntriesSameOk
    <3>3. st'[q].pair # p
      BY <1>1, <2>3, FinishMeans
    <3> QED
      BY <1>1, <2>1, <3>2, <3>3, Alone
  <2>4. ~Note({st[q].pair})
    BY <1>6, NoteMeans
  <2> QED
    BY <1>3, <2>2, <2>3, <2>4
<1> QED
  BY <1>5, <1>6

LEMMA PairCreateRate ==
    ASSUME Shape, Shape', NEW p \in Pair \ dirty', p \notin Clash, PairInv(p),
           NEW q \in Req, NEW i \in Id, NEW r \in Rate, NEW t \in Terms, CreateRate(q, i, r, t)
    PROVE  PairInv(p)'
<1>1. PICK e \in Record : e = [id |-> i, rate |-> r, terms |-> t] /\ e.id = i
  <2>1. [id |-> i, rate |-> r, terms |-> t] \in Record /\ [id |-> i, rate |-> r, terms |-> t].id = i
    BY DEF Record
  <2> QED
    BY <2>1
<1>2. /\ q \in Proc /\ st[q].pair # p /\ PairOf[i] \in Pair
      /\ byPair' = byPair /\ byId' = byId /\ frozen' = frozen /\ alias' = alias
      /\ rows'[i] = Stored(e) /\ \A j \in Id : j # i => rows'[j] = rows[j]
      /\ \A j \in Live : PairOf[j] # PairOf[i]
  <2>1. q \in Proc /\ st[q].pair # p /\ PairOf[i] \in Pair
    BY RateAssumption DEF CreateRate, Idle, Proc
  <2>2. rows' = [rows EXCEPT ![i] = Stored(e)]
    BY <1>1 DEF CreateRate
  <2>3. rows'[i] = Stored(e) /\ \A j \in Id : j # i => rows'[j] = rows[j]
    BY <2>2 DEF Shape, TypeOK
  <2> QED
    BY <2>1, <2>3 DEF CreateRate, cacheVars
<1>3. \/ st' = [st EXCEPT ![q] = Busy("putPair", "create", PairOf[i], i, e)]
      \/ st' = st /\ Note({PairOf[i]})
  BY <1>1 DEF CreateRate
<1>4. p \notin Clash'
  BY NoteMeans DEF CreateRate
<1>5. CASE PairOf[i] # p
  <2>1. st'[q].pair # p /\ \A y \in Proc : y # q => st'[y] = st[y]
    BY <1>2, <1>3, <1>5 DEF Shape, TypeOK, Busy
  <2> QED
    BY <1>2, <1>5, <2>1, Elsewhere
<1>6. CASE PairOf[i] = p
  <2>1. /\ st'[q].at = "putPair" /\ st'[q].op = "create" /\ st'[q].pair = p
        /\ st'[q].id = i /\ st'[q].rec = e /\ \A y \in Proc : y # q => st'[y] = st[y]
    BY <1>2, <1>3, <1>6, NoteMeans DEF Shape, TypeOK, Busy
  <2>2. EntriesOk(p) /\ \A y \in Proc : st'[y].pair = p => y = q
    BY <1>2, <1>4, <2>1, StartsAlone
  <2>3. \A j \in Id : PairOf[j] = p => byId'[j] = Miss
    BY <1>2, <1>6, <2>2 DEF EntriesOk, TrueTo
  <2>4. TrueTo(e, i)'
    <3>1. /\ Stored(e) \in Record
          /\ Stored(e).rate = StoredRate[e.rate] /\ Stored(e).terms = StoredTerms[e.terms]
      BY StoredKept DEF Stored
    <3> QED
      BY <1>1, <1>2, <3>1 DEF TrueTo, Live
  <2>6. WriteOk(q)'
    BY <2>1, <2>4 DEF WriteOk, TrueTo, Live
  <2>5. HandOk(q)' /\ Middle(q)'
    BY <2>1, <2>3, <2>6 DEF HandOk, SelectOk, ReadOk, HalfOk, OnlyOne, Middle, Reads
  <2> QED
    BY <1>2, <2>1, <2>2, <2>5, Alone
<1> QED
  BY <1>5, <1>6

LEMMA PairDeleteRate ==
    ASSUME Shape, Shape', NEW p \in Pair \ dirty', p \notin Clash, PairInv(p),
           NEW q \in Req, NEW i \in Id, DeleteRate(q, i)
    PROVE  PairInv(p)'
<1>1. /\ q \in Proc /\ st[q].pair # p /\ PairOf[i] \in Pair /\ i \in Live
      /\ byPair' = byPair /\ byId' = byId /\ frozen' = frozen /\ alias' = alias
      /\ \A j \in Id : j # i => rows'[j] = rows[j]
  <2>1. q \in Proc /\ st[q].pair # p /\ PairOf[i] \in Pair
    BY RateAssumption DEF DeleteRate, Idle, Proc
  <2>2. \A j \in Id : j # i => rows'[j] = rows[j]
    BY DEF DeleteRate, Shape, TypeOK
  <2> QED
    BY <2>1, <2>2 DEF DeleteRate, cacheVars
<1>2. \/ st' = [st EXCEPT ![q] = Busy("dropPair", "delete", PairOf[i], i, Miss)]
      \/ st' = st /\ Note({PairOf[i]})
  BY DEF DeleteRate
<1>3. p \notin Clash'
  BY NoteMeans DEF DeleteRate
<1>4. CASE PairOf[i] # p
  <2>1. st'[q].pair # p /\ \A y \in Proc : y # q => st'[y] = st[y]
    BY <1>1, <1>2, <1>4 DEF Shape, TypeOK, Busy
  <2> QED
    BY <1>1, <1>4, <2>1, Elsewhere
<1>5. CASE PairOf[i] = p
  <2>1. /\ st'[q].at = "dropPair" /\ st'[q].op = "delete" /\ st'[q].pair = p
        /\ st'[q].id = i /\ \A y \in Proc : y # q => st'[y] = st[y]
    BY <1>1, <1>2, <1>5, NoteMeans DEF Shape, TypeOK, Busy
  <2>2. EntriesOk(p) /\ \A y \in Proc : st'[y].pair = p => y = q
    BY <1>1, <1>3, <2>1, StartsAlone
  <2>3. \A j \in Id : PairOf[j] = p /\ j # i => byId'[j] = Miss
    BY <1>1, <1>5, <2>2, OneRow DEF EntriesOk, TrueTo
  <2>4. HandOk(q)' /\ Middle(q)'
    BY <2>1, <2>3 DEF HandOk, SelectOk, ReadOk, WriteOk, HalfOk, OnlyOne, Middle, Holds
  <2> QED
    BY <1>1, <2>1, <2>2, <2>4, Alone
<1> QED
  BY <1>4, <1>5

LEMMA PairDropPair ==
    ASSUME Shape, Shape', NEW p \in Pair \ dirty', p \notin Clash, PairInv(p),
           NEW q \in Req, DropPair(q)
    PROVE  PairInv(p)'
<1>1. /\ q \in Proc /\ st[q].op = "delete" /\ st[q].pair \in Pair
      /\ byPair' = [byPair EXCEPT ![st[q].pair] = Miss]
      /\ byId' = byId /\ rows' = rows /\ frozen' = frozen
  BY BusyTyped DEF DropPair, Proc, Shape, StagesFit, Fits
<1>2. /\ st'[q].at = "dropId" /\ st'[q].op = "delete" /\ st'[q].pair = st[q].pair
      /\ st'[q].id = st[q].id /\ \A y \in Proc : y # q => st'[y] = st[y]
  BY <1>1, GotoMeans DEF DropPair
<1>3. CASE st[q].pair # p
  <2>1. byPair'[p] = byPair[p]
    BY <1>1, <1>3 DEF Shape, TypeOK
  <2>2. \A y \in Proc : st[y].pair = p => alias'[y] = alias[y]
    BY <1>3 DEF DropPair, Repoint, PairHolders
  <2> QED
    BY <1>1, <1>2, <1>3, <2>1, <2>2, Elsewhere
<1>4. CASE st[q].pair = p
  <2>1. \A y \in Proc : st'[y].pair = p => y = q
    BY <1>1, <1>2, <1>4, WriterAlone DEF Writing, ReadOps
  <2>2. OnlyOne(q)' /\ Middle(q)'
    BY <1>1, <1>2, <1>4 DEF PairInv, HandOk, OnlyOne, Middle
  <2>3. HalfOk(q)'
    BY <1>1, <1>2, <1>4 DEF HalfOk, Shape, TypeOK
  <2>4. HandOk(q)'
    BY <1>2, <2>2, <2>3 DEF HandOk, SelectOk, ReadOk, WriteOk, Holds
  <2> QED
    BY <1>1, <1>2, <1>4, <2>1, <2>2, <2>4, Alone
<1> QED
  BY <1>3, <1>4

LEMMA PairDropId ==
    ASSUME Shape, Shape', NEW p \in Pair \ dirty', p \notin Clash, PairInv(p),
           NEW q \in Req, DropId(q)
    PROVE  PairInv(p)'
<1>1. /\ q \in Proc /\ st[q].op = "delete" /\ st[q].at = "dropId"
      /\ st[q].id \in Id /\ PairOf[st[q].id] = st[q].pair
      /\ byId' = [byId EXCEPT ![st[q].id] = Miss]
      /\ byPair' = byPair /\ rows' = rows /\ frozen' = frozen
  BY RateAssumption DEF DropId, Proc, Shape, StagesFit, Fits
<1>2. st'[q].pair \notin Pair /\ \A y \in Proc : y # q => st'[y] = st[y]
  BY <1>1, FinishMeans DEF DropId
<1>3. byId'[st[q].id] = Miss /\ \A j \in Id : j # st[q].id => byId'[j] = byId[j]
  BY <1>1 DEF Shape, TypeOK
<1>4. CASE st[q].pair # p
  <2>1. ASSUME NEW y \in Proc, st[y].pair = p PROVE alias'[y] = alias[y]
    <3>1. y # q /\ st[y].id # st[q].id
      BY <1>1, <1>4, <2>1, RateAssumption DEF Shape, StagesFit, Fits
    <3> QED
      BY <1>1, <3>1 DEF DropId, Repoint, IdHolders
  <2> QED
    BY <1>1, <1>2, <1>3, <1>4, <2>1, Elsewhere
<1>5. CASE st[q].pair = p
  <2>1. \A y \in Proc : st'[y].pair = p => y = q
    BY <1>1, <1>2, <1>5, WriterAlone DEF Writing, ReadOps
  <2>2. byPair[p] = Miss /\ \A j \in Id : PairOf[j] = p /\ j # st[q].id => byId[j] = Miss
    BY <1>1, <1>5 DEF PairInv, HandOk, HalfOk, OnlyOne, Middle
  <2>3. EntriesOk(p)'
    BY <1>1, <1>3, <2>2 DEF EntriesOk
  <2> QED
    BY <1>1, <1>2, <2>1, <2>3, Alone
<1> QED
  BY <1>4, <1>5

LEMMA PairRefresh ==
    ASSUME Shape, Shape', NEW p \in Pair \ dirty', p \notin Clash, PairInv(p),
           NEW w \in Worker, NEW i \in Id, Refresh(w, i)
    PROVE  PairInv(p)'
<1> DEFINE s == IF byId[i] # Miss THEN Busy("putPair", "again", PairOf[i], i, byId[i])
                ELSE Busy("select", "refresh", PairOf[i], i, Miss)
<1>1. w \in Proc
  BY DEF Proc
<1>2. st'[w] = s /\ \A y \in Proc : y # w => st'[y] = st[y]
  BY <1>1 DEF Refresh, Shape, TypeOK
<1>3. /\ byPair' = byPair /\ byId' = byId /\ rows' = rows /\ frozen' = frozen
      /\ alias' = alias /\ p \notin Clash' /\ st[w].pair # p
  BY NoteMeans, RateAssumption DEF Refresh, cacheVars, Idle
<1>4. /\ st'[w].pair = PairOf[i] /\ st'[w].id = i
      /\ byId[i] = Miss => st'[w].at = "select" /\ st'[w].op = "refresh"
      /\ byId[i] # Miss => st'[w].at = "putPair" /\ st'[w].op = "again" /\ st'[w].rec = byId[i]
  BY <1>2 DEF Busy
<1>5. CASE PairOf[i] # p
  BY <1>1, <1>2, <1>3, <1>4, <1>5, Elsewhere
<1>6. CASE PairOf[i] = p
  <2>1. p \in WrittenBy(w)'
    BY <1>6 DEF Refresh, WrittenBy
  <2>2. EntriesOk(p) /\ \A y \in Proc : st'[y].pair = p => y = w
    BY <1>1, <1>2, <1>3, <1>4, <1>6, <2>1, StartsAlone
  <2>3. EntriesOk(p)'
    BY <1>3, <2>2, EntriesSameOk
  <2>4. HalfOk(w)'
    BY <1>3, <1>4, <1>6, <2>2 DEF HalfOk, EntriesOk
  <2>5. SelectOk(w)'
    <3>1. st'[w].at = "select" => byId'[i] = Miss /\ i # Miss
      BY <1>3, <1>4, RateAssumption
    <3> QED
      BY <1>4, <3>1 DEF SelectOk
  <2>6. HandOk(w)'
    BY <1>4, <2>4, <2>5 DEF HandOk, ReadOk, WriteOk, OnlyOne, Middle, Holds, Reads
  <2> QED
    BY <1>1, <2>2, <2>3, <2>6, Alone
<1> QED
  BY <1>5, <1>6

\* A rate is changed under cached entries, and noted; nobody is at work on p.
LEMMA RateMoved ==
    ASSUME Shape, NEW p \in Pair, PairInv(p), \A y \in Proc : st[y].pair # p,
           st' = st, byPair' = byPair, byId' = byId,
           NEW i \in Live, PairOf[i] = p, i \in Live', rows'[i].terms = rows[i].terms,
           Cached(i) => i \in frozen'
    PROVE  PairInv(p)'
<1>1. EntriesOk(p)
  BY DEF PairInv
<1>2. i \in Id
  BY DEF Live
<1>3. ASSUME NEW e, NEW j, TrueTo(e, j), PairOf[j] = p, Cached(i)
      PROVE  TrueTo(e, j)'
  <2>1. j = i
    BY <1>3, OneRow DEF TrueTo
  <2> QED
    BY <1>3, <2>1 DEF TrueTo
<1>4. byPair[p] # Miss => Cached(i)
  BY DEF Cached
<1>5. \A j \in Id : PairOf[j] = p /\ byId[j] # Miss => Cached(i)
  BY <1>1, <1>2, OneRow DEF Cached, EntriesOk, TrueTo
<1>6. byPair[p] # Miss => TrueTo(byPair[p], byPair[p].id)'
  <2> SUFFICES ASSUME byPair[p] # Miss PROVE TrueTo(byPair[p], byPair[p].id)'
    OBVIOUS
  <2>1. PICK e, j : e = byPair[p] /\ j = byPair[p].id
    OBVIOUS
  <2>2. TrueTo(e, j)'
    BY <1>1, <1>3, <1>4, <2>1 DEF EntriesOk
  <2> QED
    BY <2>1, <2>2 DEF TrueTo
<1>7. ASSUME NEW j \in Id, PairOf[j] = p, byId[j] # Miss PROVE TrueTo(byId[j], j)'
  <2>1. PICK e : e = byId[j]
    OBVIOUS
  <2>2. TrueTo(e, j)'
    BY <1>1, <1>3, <1>5, <1>7, <2>1 DEF EntriesOk
  <2> QED
    BY <2>1, <2>2 DEF TrueTo
<1>8. EntriesOk(p)'
  BY <1>1, <1>6, <1>7 DEF EntriesOk
<1> QED
  BY <1>8 DEF PairInv

\* Who has noted the pairs somebody uses has met nobody on p.
LEMMA UnusedPair ==
    ASSUME Shape, NEW p \in Pair, p \notin Used
    PROVE  \A y \in Proc : st[y].pair # p
<1> SUFFICES ASSUME NEW y \in Proc, st[y].pair = p PROVE FALSE
  OBVIOUS
<1>1. st[y].at # "idle"
  BY RateAssumption DEF Shape, TypeOK, Doing, Idle, Stage
<1> QED
  BY <1>1 DEF Used, UsedBy

\* A batch changes rates; nobody else is at work on their pairs.
LEMMA PairCommit ==
    ASSUME Shape, Shape', NEW p \in Pair \ dirty', p \notin Clash, PairInv(p),
           NEW w \in Worker, Commit(w)
    PROVE  PairInv(p)'
<1>1. PICK u \in Updates : u = batch[w].updates
  BY DEF Commit, Shape, BatchFits
<1> DEFINE Applied == /\ DOMAIN u \subseteq Live
                      /\ rows' = [i \in Id |-> IF i \in DOMAIN u
                                              THEN [rows[i] EXCEPT !.rate = StoredRate[u[i]]]
                                              ELSE rows[i]]
                      /\ frozen' = frozen \cup {i \in DOMAIN u : Cached(i)}
<1>2. /\ byPair' = byPair /\ byId' = byId /\ st' = st /\ alias' = alias
      /\ \/ /\ Applied
            /\ batch' = [batch EXCEPT ![w] = [at |-> "refresh", updates |-> u, left |-> DOMAIN u]]
            /\ Note({})
         \/ Applied /\ Note({PairOf[i] : i \in DOMAIN u} \cap Used)
         \/ rows' = rows /\ frozen' = frozen
  BY <1>1 DEF Commit, cacheVars
<1>3. CASE rows' = rows /\ frozen' = frozen
  BY <1>2, <1>3, Frame DEF Shape
<1>4. CASE Applied /\ \A i \in DOMAIN u : PairOf[i] # p
  <2>1. \A j \in Id : PairOf[j] = p => rows'[j] = rows[j] /\ (j \in frozen' <=> j \in frozen)
    BY <1>4
  <2> QED
    BY <1>2, <2>1, Frame DEF Shape
<1>5. ASSUME Applied, NEW i \in DOMAIN u, PairOf[i] = p,
             \A y \in Proc : st[y].pair # p
      PROVE  PairInv(p)'
  <2>1. i \in Live /\ i \in Live' /\ rows'[i].terms = rows[i].terms
    BY <1>5, RatesSet
  <2>2. Cached(i) => i \in frozen'
    BY <1>5
  <2> QED
    BY <1>2, <1>5, <2>1, <2>2, RateMoved
<1>6. ASSUME Applied, NEW i \in DOMAIN u, PairOf[i] = p, Note({}),
             batch' = [batch EXCEPT ![w] = [at |-> "refresh", updates |-> u, left |-> DOMAIN u]]
      PROVE  PairInv(p)'
  <2>1. batch'[w].left = DOMAIN u
    BY <1>6 DEF Shape, TypeOK
  <2>2. p \in WrittenBy(w)'
    BY <1>6, <2>1 DEF WrittenBy
  <2>3. st[w] = Idle
    <3>1. batch[w].left = {}
      BY DEF Commit, Shape, BatchFits
    <3> QED
      BY <3>1 DEF Shape, BatchFits
  <2>4. ASSUME NEW y \in Proc PROVE st[y].pair # p
    <3> SUFFICES ASSUME st[y].pair = p PROVE FALSE
      OBVIOUS
    <3>1. st'[y].pair = p /\ st'[y].at # "idle"
      BY <1>2, RateAssumption DEF Shape, TypeOK, Doing, Idle, Stage
    <3>2. y = w
      BY <1>6, <2>2, <3>1, AloneNext, NoteMeans DEF Proc
    <3> QED
      BY <2>3, <3>2, RateAssumption DEF Idle
  <2> QED
    BY <1>5, <1>6, <2>4
<1>7. ASSUME Applied, NEW i \in DOMAIN u, PairOf[i] = p, Note({PairOf[j] : j \in DOMAIN u} \cap Used)
      PROVE  PairInv(p)'
  <2>1. p \notin Used
    BY <1>7, NoteMeans
  <2> QED
    BY <1>5, <1>7, <2>1, UnusedPair
<1> QED
  BY <1>2, <1>3, <1>4, <1>6, <1>7

LEMMA PairEditRate ==
    ASSUME Shape, Shape', NEW p \in Pair \ dirty', p \notin Clash, PairInv(p),
           NEW i \in Id, NEW r \in Rate, EditRate(i, r)
    PROVE  PairInv(p)'
<1>1. /\ byPair' = byPair /\ byId' = byId /\ st' = st /\ alias' = alias
      /\ rows' = [rows EXCEPT ![i] = [rows[i] EXCEPT !.rate = StoredRate[r]]]
      /\ frozen' = IF Cached(i) THEN frozen \cup {i} ELSE frozen
  BY DEF EditRate, cacheVars
<1>2. \A j \in Id : j # i => rows'[j] = rows[j] /\ (j \in frozen' <=> j \in frozen)
  BY <1>1 DEF Shape, TypeOK
<1>3. CASE PairOf[i] # p
  BY <1>1, <1>2, <1>3, Frame DEF Shape
<1>4. CASE PairOf[i] = p
  <2>1. p \notin Used
    BY <1>4, NoteMeans DEF EditRate
  <2>2. i \in Live /\ rows[i] \in Record
    BY DEF EditRate, Live
  <2>3. rows'[i] = [rows[i] EXCEPT !.rate = StoredRate[r]]
    BY <1>1 DEF Shape, TypeOK
  <2>4. StoredRate[r] \in Rate
    BY RateAssumption
  <2>5. rows'[i] \in Record /\ rows'[i].terms = rows[i].terms
    BY <2>2, <2>3, <2>4 DEF Record
  <2>6. i \in Live'
    BY <2>5 DEF Live
  <2>7. Cached(i) => i \in frozen'
    BY <1>1
  <2> QED
    BY <1>1, <1>4, <2>1, <2>2, <2>5, <2>6, <2>7, UnusedPair, RateMoved
<1> QED
  BY <1>3, <1>4

\* Nothing about single entries changes.
LEMMA PairSame ==
    ASSUME Shape, NEW p \in Pair, PairInv(p),
           UNCHANGED <<st, alias, byPair, byId, rows, frozen>>
    PROVE  PairInv(p)'
BY Frame DEF Shape

LEMMA ClashSame ==
    ASSUME st' = st, \A w \in Worker : batch'[w].left = batch[w].left
    PROVE  Clash' = Clash
<1>1. \A x \in Proc : UsedBy(x)' = UsedBy(x) /\ WrittenBy(x)' = WrittenBy(x)
  BY DEF UsedBy, WrittenBy
<1> QED
  BY <1>1 DEF Clash

-------------------------------------------------------------------------------
(* The cache after the warm-up: the entries are the rows.                  *)

LEMMA WarmEntries ==
    ASSUME TableFit, NEW warm \in WarmUp(rows), NEW p \in Pair
    PROVE  /\ warm.byPair[p] # Miss =>
                  \E i \in Live : PairOf[i] = p /\ rows[i].id = i /\ Kept(rows[i]) /\ warm.byPair[p] = rows[i]
           /\ \A i \in Id : PairOf[i] = p /\ warm.byId[i] # Miss =>
                  /\ i \in Live /\ rows[i].id = i /\ Kept(rows[i])
                  /\ warm.byId[i] = rows[i] /\ warm.byPair[p] = rows[i]
<1> DEFINE W == {i \in Id : rows[i] \in Record /\ rows[i].terms \in ActiveTerms}
<1>1. /\ warm.byId = [i \in Id |-> IF i \in W THEN rows[i] ELSE Miss]
      /\ warm.byPair = [r \in Pair |-> IF \E i \in W : PairOf[i] = r
                      THEN rows[CHOOSE i \in W : PairOf[i] = r] ELSE Miss]
  BY DEF WarmUp
<1>2. W \subseteq Live /\ W \subseteq Id
  BY DEF Live
<1>3. \A i \in W : rows[i].id = i /\ Kept(rows[i]) /\ rows[i] # Miss
  BY <1>2, RateAssumption DEF TableFit
<1> HIDE DEF W
<1>4. \A i \in W : PairOf[i] = p => warm.byPair[p] = rows[i]
  <2> SUFFICES ASSUME NEW i \in W, PairOf[i] = p PROVE warm.byPair[p] = rows[i]
    OBVIOUS
  <2>1. \A j \in W : PairOf[j] = p => j = i
    BY <1>2 DEF TableFit
  <2> QED
    BY <1>1, <2>1
<1>5. warm.byPair[p] # Miss => \E i \in W : PairOf[i] = p
  BY <1>1
<1>6. \A i \in Id : warm.byId[i] # Miss => i \in W /\ warm.byId[i] = rows[i]
  BY <1>1
<1> QED
  BY <1>2, <1>3, <1>4, <1>5, <1>6

\* Nobody is at work after a start.
LEMMA NobodyThere ==
    ASSUME st = [x \in Proc |-> Idle], batch = [w \in Worker |-> NoBatch], NEW p \in Pair
    PROVE  p \notin Clash /\ \A x \in Proc : st[x].pair # p
BY RateAssumption DEF Clash, UsedBy, WrittenBy, Idle, NoBatch

LEMMA CleanInit == Init => CleanInv
<1> SUFFICES ASSUME Init, NEW p \in Pair PROVE p \notin Clash /\ PairInv(p)
  BY DEF CleanInv
<1>1. TableFit
  BY ShapeInit DEF Shape
<1>2. PICK warm \in WarmUp(rows) : byPair = warm.byPair /\ byId = warm.byId
  BY DEF Init
<1>3. p \notin Clash /\ \A x \in Proc : st[x].pair # p
  BY NobodyThere DEF Init
<1>4. EntriesOk(p)
  BY <1>1, <1>2, WarmEntries DEF EntriesOk, TrueTo, Kept
<1> QED
  BY <1>3, <1>4 DEF PairInv

LEMMA CleanRestart ==
    ASSUME Shape, Restart, NEW p \in Pair
    PROVE  p \notin Clash' /\ PairInv(p)'
<1>1. TableFit
  BY DEF Shape
<1>2. PICK warm \in WarmUp(rows) : byPair' = warm.byPair /\ byId' = warm.byId
  BY DEF Restart
<1>3. p \notin Clash' /\ \A x \in Proc : st'[x].pair # p
  BY RateAssumption DEF Restart, Clash, UsedBy, WrittenBy, Idle, NoBatch
<1>4. rows' = rows
  BY DEF Restart
<1>5. EntriesOk(p)'
  BY <1>1, <1>2, <1>4, WarmEntries DEF EntriesOk, TrueTo, Live, Kept
<1> QED
  BY <1>3, <1>5 DEF PairInv

-------------------------------------------------------------------------------
(* CleanInv is an invariant.                                               *)

\* Every step on single entries notes the clashes.
LEMMA StepNotes ==
    ASSUME NEW p \in Pair \ dirty',
           \/ \E q \in Req : Read(q) \/ Administer(q)
           \/ \E x \in Proc : FillCache(x)
           \/ \E w \in Worker : Commit(w) \/ \E i \in Id : Refresh(w, i)
           \/ \E i \in Id, r \in Rate : EditRate(i, r)
    PROVE  p \notin dirty /\ p \notin Clash'
<1>1. ASSUME NEW S, Note(S) PROVE p \notin dirty /\ p \notin Clash'
  BY <1>1, NoteMeans
<1>2. CASE \E q \in Req : Read(q)
  BY <1>1, <1>2 DEF Read, GetExchangeRate, GetByPair, GetById, Ask
<1>3. CASE \E q \in Req : Administer(q)
  <2>1. PICK q \in Req : Administer(q)
    BY <1>3
  <2>2. CASE \E i \in Id : UpdateRate(q, i)
    BY <1>1, <2>2 DEF UpdateRate, Ask
  <2>3. CASE \E i \in Id : DeleteRate(q, i)
    BY <1>1, <2>3 DEF DeleteRate
  <2>4. CASE \E i \in Id, r \in Rate, t \in Terms : CreateRate(q, i, r, t)
    BY <1>1, <2>4 DEF CreateRate
  <2>5. CASE \E t \in Terms : Assign(q, t)
    BY <1>1, <2>5 DEF Assign
  <2>6. CASE UpdateRow(q)
    BY <1>1, <2>6 DEF UpdateRow
  <2>7. CASE DropPair(q) \/ DropId(q)
    BY <1>1, <2>7 DEF DropPair, DropId
  <2> QED
    BY <2>1, <2>2, <2>3, <2>4, <2>5, <2>6, <2>7 DEF Administer
<1>4. CASE \E x \in Proc : FillCache(x)
  BY <1>1, <1>4 DEF FillCache, Select, PutPair, PutId
<1>5. CASE \E w \in Worker : Commit(w) \/ \E i \in Id : Refresh(w, i)
  BY <1>1, <1>5 DEF Commit, Refresh
<1>6. CASE \E i \in Id, r \in Rate : EditRate(i, r)
  BY <1>1, <1>6 DEF EditRate
<1> QED
  BY <1>2, <1>3, <1>4, <1>5, <1>6

\* The steps on the lists.
LEMMA ListSteps ==
    ASSUME Shape, CleanInv, NEW p \in Pair \ dirty',
           \/ UNCHANGED vars
           \/ \E v \in Viewer \cup Worker : LoadList(v)
           \/ \E w \in Worker : Fetch(w) \/ DropLists(w)
    PROVE  p \notin Clash' /\ PairInv(p)'
<1>1. UNCHANGED <<st, alias, byPair, byId, rows, frozen, dirty>>
  BY DEF vars, LoadList, ListMiss, ListSelect, ListFill, Fetch, DropLists, cacheVars
<1>2. ASSUME NEW w \in Worker PROVE batch'[w].left = batch[w].left
  <2>1. CASE UNCHANGED vars
    BY <2>1 DEF vars
  <2>2. CASE \E v \in Viewer \cup Worker : LoadList(v)
    <3>1. PICK v \in Viewer \cup Worker : LoadList(v)
      BY <2>2
    <3>2. CASE ListFill(v) /\ v = w
      <4>1. batch[w] = NoBatch
        BY <3>2 DEF ListFill, NoView, Shape, OneRound
      <4> QED
        BY <3>2, <4>1 DEF ListFill, AskBinance, NoBatch, Shape, TypeOK
    <3>3. CASE ListFill(v) /\ v # w
      BY <3>3 DEF ListFill, AskBinance, Shape, TypeOK
    <3> QED
      BY <3>1, <3>2, <3>3 DEF LoadList, ListMiss, ListSelect
  <2>3. CASE \E y \in Worker : Fetch(y)
    <3>1. PICK y \in Worker : Fetch(y)
      BY <2>3
    <3>2. NoBatch.left = {} /\ batch \in [Worker -> Round]
      BY DEF NoBatch, Shape, TypeOK
    <3>3. PICK b : batch' = [batch EXCEPT ![y] = b] /\ b.left = {}
      BY <3>1, <3>2 DEF Fetch, AskBinance
    <3> QED
      BY <3>1, <3>2, <3>3 DEF Fetch
  <2>4. CASE \E y \in Worker : DropLists(y)
    <3>1. PICK y \in Worker : DropLists(y)
      BY <2>4
    <3>2. NoBatch.left = {} /\ batch \in [Worker -> Round]
      BY DEF NoBatch, Shape, TypeOK
    <3> QED
      BY <3>1, <3>2 DEF DropLists
  <2> QED
    BY <2>1, <2>2, <2>3, <2>4
<1>3. p \notin Clash /\ PairInv(p)
  BY <1>1 DEF CleanInv
<1> QED
  BY <1>1, <1>2, <1>3, ClashSame, PairSame

LEMMA CleanStep == Shape /\ Shape' /\ CleanInv /\ [Next]_vars => CleanInv'
<1> SUFFICES ASSUME Shape, Shape', CleanInv, [Next]_vars, NEW p \in Pair \ dirty'
             PROVE  p \notin Clash' /\ PairInv(p)'
  BY DEF CleanInv
<1>1. ASSUME NEW q \in Req, Read(q) PROVE p \notin Clash' /\ PairInv(p)'
  BY <1>1, StepNotes, PairRead DEF CleanInv
<1>2. ASSUME NEW q \in Req, Administer(q) PROVE p \notin Clash' /\ PairInv(p)'
  <2>1. p \notin Clash' /\ p \notin Clash /\ PairInv(p)
    BY <1>2, StepNotes DEF CleanInv
  <2> QED
    BY <1>2, <2>1, PairUpdateRate, PairDeleteRate, PairCreateRate, PairAssign, PairUpdateRow,
       PairDropPair, PairDropId DEF Administer
<1>3. ASSUME NEW x \in Proc, FillCache(x) PROVE p \notin Clash' /\ PairInv(p)'
  <2>1. p \notin Clash' /\ p \notin Clash /\ PairInv(p)
    BY <1>3, StepNotes DEF CleanInv
  <2> QED
    BY <1>3, <2>1, PairSelect, PairPutPair, PairPutId DEF FillCache
<1>4. ASSUME NEW w \in Worker, Commit(w) \/ \E i \in Id : Refresh(w, i)
      PROVE  p \notin Clash' /\ PairInv(p)'
  <2>1. p \notin Clash' /\ p \notin Clash /\ PairInv(p)
    BY <1>4, StepNotes DEF CleanInv
  <2> QED
    BY <1>4, <2>1, PairCommit, PairRefresh
<1>5. CASE \/ UNCHANGED vars
           \/ \E v \in Viewer \cup Worker : LoadList(v)
           \/ \E w \in Worker : Fetch(w) \/ DropLists(w)
  BY <1>5, ListSteps
<1>6. CASE Restart
  BY <1>6, CleanRestart
<1>7. ASSUME NEW i \in Id, NEW r \in Rate, EditRate(i, r)
      PROVE  p \notin Clash' /\ PairInv(p)'
  <2>1. p \notin Clash' /\ p \notin Clash /\ PairInv(p)
    BY <1>7, StepNotes DEF CleanInv
  <2> QED
    BY <1>7, <2>1, PairEditRate
<1> QED
  BY <1>1, <1>2, <1>3, <1>4, <1>5, <1>6, <1>7 DEF Next, UpdateBatch

LEMMA CleanAlways == Spec => [](Shape /\ CleanInv)
<1>1. Init => Shape /\ CleanInv
  BY ShapeInit, CleanInit
<1>2. Shape /\ CleanInv /\ [Next]_vars => (Shape /\ CleanInv)'
  BY ShapeStep, CleanStep
<1> QED
  BY <1>1, <1>2, PTL DEF Spec

\* On a clean pair nobody is in the middle of anything.
LEMMA CleanEntries ==
    ASSUME Shape, CleanInv, NEW p \in Pair, Clean(p)
    PROVE  EntriesOk(p)
<1>1. ASSUME NEW x \in Proc PROVE st[x].pair # p
  BY RateAssumption DEF Clean, Used, UsedBy, Shape, TypeOK, Doing, Idle, Stage
<1> QED
  BY <1>1 DEF Clean, CleanInv, PairInv

\* Single entries tell the truth, up to the digits the columns cut off, about
\* fee, is_active and the existence of the row on every clean pair, and about the
\* rate that no batch and no operator has changed under an entry
\* (exchange_rate_repository.go:27-150).
THEOREM EntriesCorrect == Spec => []EntriesTrue
<1>1. Shape /\ CleanInv => EntriesTrue
  BY CleanEntries DEF EntriesTrue, EntriesOk
<1> QED
  BY <1>1, CleanAlways, PTL

\* The entry by pair and the entry by id of a clean pair are the same record
\* (cache_service.go:160-207).
THEOREM KeysCorrect == Spec => []KeysAgree
<1>1. Shape /\ CleanInv => KeysAgree
  BY CleanEntries DEF KeysAgree, EntriesOk
<1> QED
  BY <1>1, CleanAlways, PTL

===============================================================================
