--------------------------- MODULE RateUpdaterProofs ---------------------------
(***************************************************************************)
(* Proofs about RateUpdater, for any pairs, currencies, market values,     *)
(* number of retries and probes.                                           *)
(***************************************************************************)
EXTENDS RateUpdater, TLAPS

\* The worker holds the mutex; the worker is between two symbols of one rate.
Inner == {"list", "fetch", "reverse", "fromUsdt", "toUsdt", "batch", "backoff"}
Asking == {"reverse", "fromUsdt", "toUsdt"}

Typed ==
    /\ TypeOK
    /\ worker \in Asking => asked \in Pair
    /\ worker = "backoff" => attempt < MaxRetries

LEMMA QuotesTyped ==
    ASSUME NEW a \in Code, NEW b \in Code, NEW price \in Quotes(a, b)
    PROVE  price \in Price
  BY UpdaterAssumption DEF Quotes, Price

LEMMA OverTyped ==
    ASSUME NEW x \in Price, NEW y \in Price
    PROVE  Over(x, y) \in Price
<1>1. \A m, n \in Nat : m * n \in Nat
  OBVIOUS
<1> QED
  BY <1>1 DEF Over, Price

LEMMA TakeTyped ==
    ASSUME Typed, NEW p \in Pair, NEW price \in Price, Take(p, price), UNCHANGED fetchFrame
    PROVE  Typed'
<1>1. [pair |-> p, rate |-> price] \in Update /\ <<0, 1>> \in Price
  BY DEF Update, Price
<1>2. worker' \in WorkerStage /\ worker' \notin Asking \cup {"backoff"}
  BY DEF Take, WorkerStage, Asking
<1> QED
  BY <1>1, <1>2 DEF Take, fetchFrame, health, Typed, TypeOK

LEMMA PassOverTyped ==
    ASSUME Typed, NEW p \in Pair, PassOver(p), UNCHANGED fetchFrame
    PROVE  Typed'
<1>1. <<0, 1>> \in Price
  BY DEF Price
<1>2. worker' \in WorkerStage /\ worker' \notin Asking \cup {"backoff"}
  BY DEF PassOver, WorkerStage, Asking
<1> QED
  BY <1>1, <1>2 DEF PassOver, fetchFrame, health, Typed, TypeOK

LEMMA PairCodes ==
    ASSUME NEW p \in Pair
    PROVE  p.from \in Code /\ p.to \in Code /\ Usdt \in Code
  BY UpdaterAssumption

LEMMA AsksTyped ==
    ASSUME Typed, AskDirect \/ AskReverse \/ AskFromUsdt \/ AskToUsdt
    PROVE  Typed'
<1>0. UNCHANGED fetchFrame
  BY DEF AskDirect, AskReverse, AskFromUsdt, AskToUsdt
<1>1. CASE AskDirect
  <2>1. PICK p \in todo :
          \/ \E price \in Quotes(p.from, p.to) : Take(p, price)
          \/ worker' = "reverse" /\ asked' = p /\ UNCHANGED <<todo, base, updates>>
    BY <1>1 DEF AskDirect
  <2>2. p \in Pair
    BY DEF Typed, TypeOK
  <2>3. CASE worker' = "reverse" /\ asked' = p /\ UNCHANGED <<todo, base, updates>>
    BY <1>0, <2>2, <2>3 DEF fetchFrame, health, Typed, TypeOK, WorkerStage, Asking
  <2> QED
    BY <1>0, <2>1, <2>2, <2>3, PairCodes, QuotesTyped, TakeTyped
<1>2. CASE AskReverse
  <2>1. worker = "reverse" /\ asked \in Pair
    BY <1>2 DEF AskReverse, Typed, Asking
  <2>2. CASE worker' = "fromUsdt" /\ UNCHANGED <<todo, asked, base, updates>>
    BY <1>0, <2>1, <2>2 DEF fetchFrame, health, Typed, TypeOK, WorkerStage, Asking
  <2>3. ASSUME NEW price \in Quotes(asked.to, asked.from), Take(asked, Over(One, price))
        PROVE  Typed'
    BY <1>0, <2>1, <2>3, PairCodes, QuotesTyped, OverTyped, TakeTyped, One \in Price
       DEF One, Price
  <2> QED
    BY <1>0, <1>2, <2>1, <2>2, <2>3, PassOverTyped DEF AskReverse
<1>3. CASE AskFromUsdt
  <2>1. worker = "fromUsdt" /\ asked \in Pair
    BY <1>3 DEF AskFromUsdt, Typed, Asking
  <2>2. ASSUME NEW price \in Quotes(asked.from, Usdt),
               worker' = "toUsdt", base' = price, UNCHANGED <<todo, asked, updates>>
        PROVE  Typed'
    <3>1. price \in Price
      BY <2>1, PairCodes, QuotesTyped
    <3> QED
      BY <1>0, <2>1, <2>2, <3>1 DEF fetchFrame, health, Typed, TypeOK, WorkerStage, Asking
  <2> QED
    BY <1>0, <1>3, <2>1, <2>2, PassOverTyped DEF AskFromUsdt
<1>4. CASE AskToUsdt
  <2>1. worker = "toUsdt" /\ asked \in Pair /\ base \in Price
    BY <1>4 DEF AskToUsdt, Typed, TypeOK, Asking
  <2>2. ASSUME NEW price \in Quotes(asked.to, Usdt), Take(asked, Over(base, price))
        PROVE  Typed'
    BY <1>0, <2>1, <2>2, PairCodes, QuotesTyped, OverTyped, TakeTyped
  <2> QED
    BY <1>0, <1>4, <2>1, <2>2, PassOverTyped DEF AskToUsdt
<1> QED
  BY <1>1, <1>2, <1>3, <1>4

\* What the worker notes in a probe.
LEMMA NoteTyped ==
    ASSUME NEW old \in [Probe -> Seen]
    PROVE  /\ [p \in Probe |-> [old[p] EXCEPT !.between = @ \/ old[p].at = "load"
                                                        \/ old[p].at = "check"]]
                  \in [Probe -> Seen]
           /\ [p \in Probe |-> [old[p] EXCEPT !.cleared = @ \/ old[p].at = "load"]]
                  \in [Probe -> Seen]
<1>1. ASSUME NEW seen \in Seen, NEW b \in BOOLEAN
      PROVE  [seen EXCEPT !.between = b] \in Seen /\ [seen EXCEPT !.cleared = b] \in Seen
  BY DEF Seen
<1>2. ASSUME NEW p \in Probe
      PROVE  /\ [old[p] EXCEPT !.between = @ \/ old[p].at = "load" \/ old[p].at = "check"] \in Seen
             /\ [old[p] EXCEPT !.cleared = @ \/ old[p].at = "load"] \in Seen
  <2>1. (old[p].between \/ old[p].at = "load" \/ old[p].at = "check") \in BOOLEAN
        /\ (old[p].cleared \/ old[p].at = "load") \in BOOLEAN
    OBVIOUS
  <2> QED
    BY <1>1, <2>1
<1> QED
  BY <1>2

LEMMA EndRoundTyped ==
    ASSUME Typed, EndRound, failed' \in BOOLEAN, age' \in 0 .. Stale,
           UNCHANGED <<main, gaveUp, running, tick>>
    PROVE  Typed'
<1>0. probe \in [Probe -> Seen]
  BY DEF Typed, TypeOK
<1>1. probe' \in [Probe -> Seen]
  BY <1>0, NoteTyped DEF EndRound
<1>2. <<0, 1>> \in Price /\ 0 \in 0 .. MaxRetries
  BY UpdaterAssumption DEF Price
<1> QED
  BY <1>1, <1>2 DEF EndRound, Typed, TypeOK, WorkerStage, Asking

LEMMA RoundsTyped ==
    ASSUME Typed, List \/ FinishFetch \/ Batch
    PROVE  Typed'
<1>0. UNCHANGED <<main, gaveUp, running, tick>>
  BY DEF List, FinishFetch, Batch
<1>1. CASE Succeed
  <2>1. EndRound /\ failed' = FALSE /\ age' = 0
    BY <1>1 DEF Succeed
  <2>2. failed' \in BOOLEAN
    BY <2>1
  <2>3. age' \in 0 .. Stale
    BY <2>1 DEF Stale
  <2> QED
    BY <1>0, <2>1, <2>2, <2>3, EndRoundTyped
<1>2. CASE FailAttempt
  <2>1. CASE attempt = MaxRetries /\ EndRound /\ failed' = TRUE /\ UNCHANGED age
    BY <1>0, <2>1, EndRoundTyped DEF Typed, TypeOK
  <2>2. CASE /\ attempt < MaxRetries /\ worker' = "backoff" /\ todo' = {} /\ updates' = {}
             /\ UNCHANGED <<attempt, asked, base, mu, health, probe>>
    BY <1>0, <2>2 DEF health, Typed, TypeOK, WorkerStage, Asking
  <2> QED
    BY <1>2, <2>1, <2>2 DEF FailAttempt
<1>3. ASSUME NEW rates \in SUBSET Pair, worker' = "fetch", todo' = Fiat(rates),
             UNCHANGED <<attempt, asked, base, updates, mu, health, probe>>
      PROVE  Typed'
  BY <1>0, <1>3 DEF Fiat, health, Typed, TypeOK, WorkerStage, Asking
<1>4. CASE worker' = "batch" /\ UNCHANGED <<attempt, todo, asked, base, updates, mu, health, probe>>
  BY <1>0, <1>4 DEF health, Typed, TypeOK, WorkerStage, Asking
<1> QED
  BY <1>1, <1>2, <1>3, <1>4 DEF List, FinishFetch, Batch

LEMMA LoopTyped ==
    ASSUME Typed,
           \/ BeginRound \/ SkipRound \/ Retry
           \/ TakeTick \/ TakeStop \/ ClearRunning \/ CloseDone
    PROVE  Typed'
<1>1. CASE BeginRound \/ SkipRound
  BY <1>1, UpdaterAssumption
     DEF BeginRound, SkipRound, At, health, Typed, TypeOK, WorkerStage, Asking
<1>2. CASE Retry
  BY <1>2, UpdaterAssumption DEF Retry, At, health, Typed, TypeOK, WorkerStage, Asking
<1>3. CASE TakeTick \/ TakeStop \/ CloseDone
  BY <1>3 DEF TakeTick, TakeStop, CloseDone, At, health, Typed, TypeOK, WorkerStage, Asking
<1>4. CASE ClearRunning
  <2>1. probe' \in [Probe -> Seen]
    BY <1>4, NoteTyped DEF ClearRunning, Typed, TypeOK
  <2> QED
    BY <1>4, <2>1 DEF ClearRunning, At, health, Typed, TypeOK, WorkerStage, Asking
<1> QED
  BY <1>1, <1>2, <1>3, <1>4

LEMMA MainTyped ==
    ASSUME Typed, Boot \/ ServerFails \/ Signal \/ Leave \/ Elapse \/ UNCHANGED vars
    PROVE  Typed'
<1>1. CASE UNCHANGED vars
  BY <1>1 DEF vars, workerVars, health, Typed, TypeOK
<1>2. CASE Elapse
  <2>1. age' \in 0 .. Stale
    BY <1>2 DEF Elapse, Typed, TypeOK, Stale
  <2> QED
    BY <1>2, <2>1 DEF Elapse, workerVars, Typed, TypeOK
<1>3. CASE StartWorker
  BY <1>3 DEF StartWorker, Goto, health, Typed, TypeOK, MainStage, WorkerStage, Asking
<1>4. CASE Listen \/ ServerFails \/ Signal \/ Leave
  <2>1. /\ main' \in MainStage /\ gaveUp' \in BOOLEAN
        /\ UNCHANGED <<workerVars, mu, health, tick, probe>>
    BY <1>4 DEF Listen, ServerFails, Signal, Leave, StopReturns, StopTimesOut, Drain,
       DrainTimesOut, CancelBackground, CloseDatabase, Exit, Goto, MainStage, Typed, TypeOK
  <2> QED
    BY <2>1 DEF workerVars, health, Typed, TypeOK
<1> QED
  BY <1>1, <1>2, <1>3, <1>4 DEF Boot

LEMMA ProbesTyped ==
    ASSUME Typed, NEW p \in Probe,
           (\E detailed \in BOOLEAN : Request(p, detailed)) \/ Lock(p) \/ Respond(p)
    PROVE  Typed'
<1>1. probe[p] \in Seen /\ NoProbe \in Seen /\ failed \in BOOLEAN /\ running \in BOOLEAN
  BY DEF Typed, TypeOK, NoProbe, Seen, ProbeStage
<1>2. mu' \in {"nobody", "worker"} \cup Probe /\ UNCHANGED probeFrame
  BY DEF Request, Lock, Respond, ReadHealth, LoadRunning, Verify, Answer, Typed, TypeOK
<1>3. probe' \in [Probe -> Seen]
  <2>1. ASSUME NEW seen \in Seen, See(p, seen) PROVE probe' \in [Probe -> Seen]
    BY <2>1 DEF See, Typed, TypeOK
  <2>2. CASE \E detailed \in BOOLEAN : Request(p, detailed)
    BY <1>1, <2>1, <2>2 DEF Request, NoProbe, Seen, ProbeStage
  <2>3. CASE Lock(p)
    BY <1>1, <2>1, <2>3 DEF Lock, Move, Seen, ProbeStage
  <2>4. CASE ReadHealth(p)
    BY <1>1, <2>1, <2>4 DEF ReadHealth, Seen, ProbeStage
  <2>5. CASE LoadRunning(p)
    BY <1>1, <2>1, <2>5 DEF LoadRunning, Seen, ProbeStage
  <2>6. CASE Verify(p)
    BY <1>1, <2>1, <2>6 DEF Verify, Seen, ProbeStage
  <2>7. CASE Answer(p)
    BY <1>1, <2>1, <2>7 DEF Answer
  <2> QED
    BY <2>2, <2>3, <2>4, <2>5, <2>6, <2>7 DEF Respond
<1> QED
  BY <1>2, <1>3 DEF probeFrame, workerVars, health, Typed, TypeOK

LEMMA TypedHolds == Spec => []Typed
<1>1. Init => Typed
  <2> SUFFICES ASSUME Init PROVE Typed
    OBVIOUS
  <2>1. NoProbe \in Seen /\ <<0, 1>> \in Price /\ Stale \in 0 .. Stale /\ 0 \in 0 .. MaxRetries
    BY UpdaterAssumption DEF NoProbe, Seen, ProbeStage, Price, Stale
  <2>2. main \in MainStage /\ worker \in WorkerStage /\ worker \notin Asking \cup {"backoff"}
    BY DEF Init, MainStage, WorkerStage, Asking
  <2> QED
    BY <2>1, <2>2 DEF Init, Typed, TypeOK
<1>2. Typed /\ [Next]_vars => Typed'
  BY AsksTyped, RoundsTyped, LoopTyped, MainTyped, ProbesTyped DEF Next, Work
<1> QED
  BY <1>1, <1>2, PTL DEF Spec

\* The variables keep their types; attempts never pass MaxRetries, though
\* Retry adds without looking (rate_updater.go:247).
THEOREM TypeCorrect == Spec => []TypeOK
<1>1. Typed => TypeOK
  BY DEF Typed
<1> QED
  BY <1>1, TypedHolds, PTL

-------------------------------------------------------------------------------
(* What the steps do to the mutex, the flag and the round *)

Cleared == probe' = [p \in Probe |-> [probe[p] EXCEPT !.cleared = @ \/ probe[p].at = "load"]]

\* Of the worker's steps probes note the end of a round and of the worker.
LEMMA WorkKinds ==
    ASSUME Typed, Work
    PROVE  /\ Up /\ UNCHANGED <<main, gaveUp>>
           /\ \/ /\ EndRound /\ worker \in {"list", "fetch", "batch"} /\ running' = running
              \/ /\ worker = "ending" /\ worker' = "ended" /\ ~running'
                 /\ UNCHANGED <<mu, failed, age>> /\ Cleared
              \/ /\ UNCHANGED <<probe, failed, age>>
                 /\ \/ /\ worker = "round" /\ worker' = "list" /\ running' = running
                       /\ mu = "nobody" /\ mu' = "worker"
                    \/ /\ worker = "round" /\ worker' = "select" /\ running' = running
                       /\ mu # "nobody" /\ mu' = mu
                    \/ worker \in Inner /\ worker' \in Inner /\ running' = running /\ mu' = mu
                    \/ /\ worker = "select" /\ running' = running /\ mu' = mu
                       /\ worker' = "round" \/ (worker' = "ending" /\ StopClosed)
                    \/ worker = "ended" /\ worker' = "done" /\ running' = running /\ mu' = mu
<1>1. CASE List \/ FinishFetch \/ Batch
  <2>1. Up /\ UNCHANGED <<main, gaveUp, running>> /\ worker \in {"list", "fetch", "batch"}
    BY <1>1 DEF List, FinishFetch, Batch
  <2>2. EndRound \/ (worker' \in {"fetch", "batch", "backoff"} /\ UNCHANGED <<probe, failed, age, mu>>)
    BY <1>1 DEF List, FinishFetch, Batch, Succeed, FailAttempt, health
  <2> QED
    BY <2>1, <2>2 DEF Inner
<1>2. CASE AskDirect \/ AskReverse \/ AskFromUsdt \/ AskToUsdt
  <2>1. Up /\ UNCHANGED fetchFrame /\ worker \in Inner
    BY <1>2 DEF AskDirect, AskReverse, AskFromUsdt, AskToUsdt, Inner
  <2>2. worker' \in Inner
    BY <1>2 DEF AskDirect, AskReverse, AskFromUsdt, AskToUsdt, Take, PassOver, Inner
  <2> QED
    BY <2>1, <2>2 DEF fetchFrame, health
<1>3. CASE BeginRound \/ SkipRound \/ Retry
  BY <1>3 DEF BeginRound, SkipRound, Retry, At, health, Inner
<1>4. CASE TakeTick \/ TakeStop \/ CloseDone
  BY <1>4 DEF TakeTick, TakeStop, CloseDone, At, health, StopClosed, Cancelled
<1>5. CASE ClearRunning
  BY <1>5 DEF ClearRunning, At, health, Cleared
<1> QED
  BY <1>1, <1>2, <1>3, <1>4, <1>5 DEF Work

\* The other steps, but for the start, leave the worker alone.
LEMMA MainKinds ==
    ASSUME Listen \/ ServerFails \/ Signal \/ Leave \/ Elapse \/ UNCHANGED vars
    PROVE  UNCHANGED <<worker, running, mu, failed, probe>>
  BY DEF Listen, ServerFails, Signal, Leave, StopReturns, StopTimesOut, Drain, DrainTimesOut,
     CancelBackground, CloseDatabase, Exit, Elapse, vars, workerVars, health

LEMMA ProbeKinds ==
    ASSUME NEW p \in Probe,
           (\E detailed \in BOOLEAN : Request(p, detailed)) \/ Lock(p) \/ Respond(p)
    PROVE  /\ Up /\ UNCHANGED <<main, gaveUp, worker, running, failed>>
           /\ \E seen : probe' = [probe EXCEPT ![p] = seen]
  BY DEF Request, Lock, Respond, ReadHealth, LoadRunning, Verify, Answer, Move, See, Up,
     probeFrame, workerVars, health

-------------------------------------------------------------------------------
(* The mutex *)

MutexInv ==
    /\ mu = "worker" <=> worker \in Inner
    /\ \A p \in Probe : probe[p].at \in {"read", "verify"} <=> mu = p

LEMMA MutexStep == Typed /\ MutexInv /\ [Next]_vars => MutexInv'
<1> SUFFICES ASSUME Typed, MutexInv, [Next]_vars PROVE MutexInv'
  OBVIOUS
<1>0. /\ probe \in [Probe -> Seen] /\ \A p \in Probe : p # "nobody" /\ p # "worker"
      /\ mu \in {"nobody", "worker"} \cup Probe
  BY UpdaterAssumption DEF Typed, TypeOK
<1>1. CASE Work
  <2>1. CASE EndRound /\ worker \in {"list", "fetch", "batch"}
    <3>1. \A p \in Probe : probe'[p].at = probe[p].at
      BY <1>0, <2>1 DEF EndRound, Seen
    <3> QED
      BY <1>0, <2>1, <3>1 DEF EndRound, MutexInv, Inner
  <2>2. CASE worker = "ending" /\ worker' = "ended" /\ mu' = mu /\ Cleared
    <3>1. \A p \in Probe : probe'[p].at = probe[p].at
      BY <1>0, <2>2 DEF Cleared, Seen
    <3> QED
      BY <2>2, <3>1 DEF MutexInv, Inner
  <2>3. CASE probe' = probe
    BY <1>0, <1>1, <2>3, WorkKinds DEF MutexInv, Inner, EndRound
  <2> QED
    BY <1>1, <2>1, <2>2, <2>3, WorkKinds
<1>2. CASE StartWorker
  BY <1>2 DEF StartWorker, MutexInv, Inner
<1>3. CASE Listen \/ ServerFails \/ Signal \/ Leave \/ Elapse \/ UNCHANGED vars
  BY <1>3, MainKinds DEF MutexInv
<1>4. ASSUME NEW p \in Probe,
             (\E detailed \in BOOLEAN : Request(p, detailed)) \/ Lock(p) \/ Respond(p)
      PROVE  MutexInv'
  <2>0. worker' = worker /\ \A q \in Probe : q # p => probe'[q] = probe[q]
    BY <1>0, <1>4, ProbeKinds
  <2>1. CASE Lock(p)
    <3>1. probe'[p].at \in {"read", "verify"} /\ mu = "nobody" /\ mu' = p
      BY <1>0, <2>1 DEF Lock, Move, See, Seen
    <3> QED
      BY <1>0, <2>0, <3>1 DEF MutexInv
  <2>2. CASE ReadHealth(p) \/ Verify(p)
    <3>1. probe[p].at \in {"read", "verify"} /\ mu' = "nobody"
      BY <2>2 DEF ReadHealth, Verify
    <3>2. probe'[p].at \in {"load", "answer"}
      <4>1. CASE ReadHealth(p)
        BY <1>0, <4>1 DEF ReadHealth, See, Seen
      <4>2. CASE Verify(p)
        BY <1>0, <4>2 DEF Verify, See, Seen
      <4> QED
        BY <2>2, <4>1, <4>2
    <3> QED
      BY <1>0, <2>0, <3>1, <3>2 DEF MutexInv
  <2>3. CASE (\E detailed \in BOOLEAN : Request(p, detailed)) \/ LoadRunning(p) \/ Answer(p)
    <3>1. mu' = mu /\ probe[p].at \in {"idle", "load", "answer"}
      BY <2>3 DEF Request, LoadRunning, Answer
    <3>2. probe'[p].at \notin {"read", "verify"}
      <4>1. CASE \E detailed \in BOOLEAN : Request(p, detailed)
        BY <1>0, <4>1 DEF Request, See, NoProbe
      <4>2. CASE LoadRunning(p)
        BY <1>0, <4>2 DEF LoadRunning, See, Seen
      <4>3. CASE Answer(p)
        BY <1>0, <4>3 DEF Answer, See, NoProbe
      <4> QED
        BY <2>3, <4>1, <4>2, <4>3
    <3> QED
      BY <1>0, <2>0, <3>1, <3>2 DEF MutexInv
  <2> QED
    BY <1>4, <2>1, <2>2, <2>3 DEF Respond
<1> QED
  BY <1>1, <1>2, <1>3, <1>4 DEF Next, Boot

LEMMA MutexHolds == Spec => [](Typed /\ MutexInv)
<1>1. Init => MutexInv
  BY UpdaterAssumption DEF Init, MutexInv, Inner, NoProbe
<1> QED
  BY <1>1, MutexStep, TypedHolds, PTL DEF Spec

\* A round is skipped for a probe that holds the mutex, never for another round
\* (rate_updater.go:236).
THEOREM RoundsSkippedForProbes == Spec => SkipsOnlyForProbe
<1>1. Typed /\ MutexInv /\ [Next]_vars => [worker = "round" /\ worker' = "select" => mu \in Probe]_vars
  <2> SUFFICES ASSUME Typed, MutexInv, [Next]_vars, worker = "round", worker' = "select"
               PROVE  mu \in Probe
    OBVIOUS
  <2>1. Work
    BY MainKinds, ProbeKinds DEF Next, Boot, StartWorker
  <2>2. mu # "nobody"
    BY <2>1, WorkKinds DEF Inner
  <2> QED
    BY <2>2 DEF MutexInv, Inner, Typed, TypeOK
<1> QED
  BY <1>1, MutexHolds, PTL DEF Spec, SkipsOnlyForProbe

-------------------------------------------------------------------------------
(* Start and shutdown *)

Ending == {"ending", "ended", "done"}

LifeInv ==
    /\ main = "starting" <=> worker = "none"
    /\ running <=> worker \notin {"none", "ended", "done"}
    /\ worker \in Ending => StopClosed \/ ~Up
    /\ main \in {"draining", "drained", "cancelled", "closed"} => worker = "done" \/ gaveUp
    /\ \A p \in Probe : probe[p].at # "idle" => main # "starting"
    /\ DownOnlyInShutdown

LEMMA LifeWork == ASSUME Typed, LifeInv, Work PROVE LifeInv'
<1>0. probe \in [Probe -> Seen] /\ running \in BOOLEAN /\ running' \in BOOLEAN
  BY RoundsTyped, AsksTyped, LoopTyped DEF Typed, TypeOK, Work
<1>1. Up /\ UNCHANGED <<main, gaveUp>>
  BY WorkKinds
<1>2. \A p \in Probe : probe'[p].at = probe[p].at /\ probe'[p].verdict = probe[p].verdict
  <2>1. CASE EndRound
    BY <1>0, <2>1 DEF EndRound, Seen
  <2>2. CASE Cleared
    BY <1>0, <2>2 DEF Cleared, Seen
  <2> QED
    BY <2>1, <2>2, WorkKinds
<1>3. worker # "none" /\ worker' # "none" /\ worker # "done"
  BY WorkKinds DEF Inner, EndRound
<1>4. worker' \in Ending => StopClosed
  BY <1>1, WorkKinds DEF LifeInv, Inner, Ending, EndRound
<1>5. running' <=> worker' \notin {"none", "ended", "done"}
  <2>1. CASE EndRound /\ worker \in {"list", "fetch", "batch"} /\ running' = running
    BY <2>1 DEF LifeInv, EndRound
  <2>2. CASE worker \in {"ending", "ended"}
    BY <1>0, <2>2, WorkKinds DEF LifeInv, Inner, EndRound
  <2>3. CASE worker \in Inner \cup {"round", "select"} /\ running' = running
             /\ worker' \in Inner \cup {"round", "select", "ending"}
    BY <2>3 DEF LifeInv, Inner
  <2> QED
    BY <2>1, <2>2, <2>3, WorkKinds DEF Inner
<1>6. StopClosed' = StopClosed /\ Up' = Up
  BY <1>1 DEF StopClosed, Up
<1> QED
  BY <1>1, <1>2, <1>3, <1>4, <1>5, <1>6 DEF LifeInv, DownOnlyInShutdown

LEMMA LifeMain ==
    ASSUME Typed, LifeInv, Boot \/ ServerFails \/ Signal \/ Leave \/ Elapse \/ UNCHANGED vars
    PROVE  LifeInv'
<1>1. CASE StartWorker
  BY <1>1 DEF StartWorker, Goto, LifeInv, DownOnlyInShutdown, StopClosed, Up, Ending
<1>2. CASE Elapse \/ UNCHANGED vars
  BY <1>2 DEF Elapse, vars, workerVars, LifeInv, DownOnlyInShutdown, StopClosed, Up, Ending
<1>3. CASE Listen \/ ServerFails \/ Signal \/ Leave
  <2>0. UNCHANGED <<worker, running, probe>>
    BY <1>3, MainKinds
  <2>1. main # "starting" /\ main' # "starting"
    BY <1>3 DEF Listen, ServerFails, Signal, Leave, StopReturns, StopTimesOut, Drain,
       DrainTimesOut, CancelBackground, CloseDatabase, Exit, Goto
  <2>2. StopClosed \/ ~Up => StopClosed' \/ ~Up'
    BY <1>3 DEF Listen, ServerFails, Signal, Leave, StopReturns, StopTimesOut, Drain,
       DrainTimesOut, CancelBackground, CloseDatabase, Exit, Goto, StopClosed, Up
  <2>3. main' \in {"draining", "drained", "cancelled", "closed"} => worker = "done" \/ gaveUp'
    BY <1>3 DEF Listen, ServerFails, Signal, Leave, StopReturns, StopTimesOut, Drain,
       DrainTimesOut, CancelBackground, CloseDatabase, Exit, Goto, LifeInv
  <2> QED
    BY <2>0, <2>1, <2>2, <2>3 DEF LifeInv, DownOnlyInShutdown
<1> QED
  BY <1>1, <1>2, <1>3 DEF Boot

LEMMA LifeProbe ==
    ASSUME Typed, LifeInv, NEW p \in Probe,
           (\E detailed \in BOOLEAN : Request(p, detailed)) \/ Lock(p) \/ Respond(p)
    PROVE  LifeInv'
<1>0. probe \in [Probe -> Seen] /\ probe[p] \in Seen
  BY DEF Typed, TypeOK
<1>1. /\ Up /\ UNCHANGED <<main, gaveUp, worker, running>>
      /\ \A q \in Probe : q # p => probe'[q] = probe[q]
  BY <1>0, ProbeKinds
<1>2. /\ probe'[p].at # "idle" => main # "starting"
      /\ probe'[p].verdict = "down" => StopClosed
  <2>1. CASE \E detailed \in BOOLEAN : Request(p, detailed)
    BY <1>0, <2>1 DEF Request, See, NoProbe
  <2>2. CASE Answer(p)
    BY <1>0, <2>2 DEF Answer, See, NoProbe
  <2>3. CASE LoadRunning(p)
    <3>1. main # "starting"
      BY <2>3 DEF LoadRunning, LifeInv
    <3>2. ~running => StopClosed
      BY <1>1, <3>1 DEF LifeInv, Ending
    <3>3. CASE running
      BY <1>0, <1>1, <2>3, <3>1, <3>3 DEF LoadRunning, See, Seen, LifeInv, DownOnlyInShutdown
    <3>4. CASE ~running
      BY <3>1, <3>2, <3>4
    <3> QED
      BY <3>3, <3>4
  <2>4. CASE Lock(p) \/ ReadHealth(p)
    <3>1. probe[p].at # "idle" /\ probe'[p].verdict = probe[p].verdict
      <4>1. CASE Lock(p)
        BY <1>0, <4>1 DEF Lock, Move, See, Seen
      <4>2. CASE ReadHealth(p)
        BY <1>0, <4>2 DEF ReadHealth, See, Seen
      <4> QED
        BY <2>4, <4>1, <4>2
    <3> QED
      BY <1>1, <3>1 DEF LifeInv, DownOnlyInShutdown
  <2>5. CASE Verify(p)
    <3>1. probe[p].at # "idle" /\ probe'[p].verdict # "down"
      BY <1>0, <2>5 DEF Verify, See, Seen
    <3> QED
      BY <3>1 DEF LifeInv
  <2> QED
    BY <2>1, <2>2, <2>3, <2>4, <2>5 DEF Respond
<1>3. StopClosed' = StopClosed /\ Up' = Up
  BY <1>1 DEF StopClosed, Up
<1> QED
  BY <1>1, <1>2, <1>3 DEF LifeInv, DownOnlyInShutdown

LEMMA LifeHolds == Spec => []LifeInv
<1>1. Init => LifeInv
  BY DEF Init, LifeInv, DownOnlyInShutdown, Ending, NoProbe
<1>2. Typed /\ LifeInv /\ [Next]_vars => LifeInv'
  BY LifeWork, LifeMain, LifeProbe DEF Next
<1> QED
  BY <1>1, <1>2, TypedHolds, PTL DEF Spec

\* The database is closed under a worker that still lives only if Stop gave up
\* waiting for it (rate_updater.go:103, main.go:41 and :150).
THEOREM DatabaseClosedLast == Spec => []DatabaseOutlivesWorker
<1>1. LifeInv => DatabaseOutlivesWorker
  BY DEF LifeInv, DatabaseOutlivesWorker, DatabaseOpen
<1> QED
  BY <1>1, LifeHolds, PTL

\* Probes that find the worker down were answered during a shutdown
\* (rate_updater.go:397, main.go:118 and :150).
THEOREM WorkerServesWhileServing == Spec => []DownOnlyInShutdown
<1>1. LifeInv => DownOnlyInShutdown
  BY DEF LifeInv
<1> QED
  BY <1>1, LifeHolds, PTL

-------------------------------------------------------------------------------
(* The two looks of one probe *)

\* What a detailed probe has seen of the last round and of the worker's flag,
\* between its two looks and after them.
RoundSeen(seen) ==
    seen.at \in {"load", "check", "verify"} /\ ~seen.between =>
        (failed => seen.error) /\ (seen.error => failed) /\ (seen.stale => age = Stale)
FlagSeen(seen) ==
    /\ seen.at = "load" /\ running => seen.running
    /\ seen.at = "load" /\ ~running => ~seen.running \/ seen.cleared
    /\ seen.at \in {"check", "verify"} => seen.running
Agrees(seen) ==
    /\ seen.verdict = "failing" => seen.error \/ seen.between
    /\ seen.verdict = "healthy" /\ ~seen.between => ~(seen.error /\ seen.stale)
    /\ seen.verdict = "down" => ~seen.running \/ seen.cleared
    /\ seen.verdict \in {"healthy", "failing"} => seen.running
Explained(seen) ==
    /\ seen.at \in {"lock", "read", "load", "check", "verify"} => seen.verdict = "none"
    /\ seen.detailed => RoundSeen(seen) /\ FlagSeen(seen) /\ Agrees(seen)

MixInv == \A p \in Probe : Explained(probe[p])

\* The end of a round is noted by every probe between its looks; none is under
\* the second lock.
LEMMA MixEndRound ==
    ASSUME Typed, MutexInv, MixInv, EndRound, worker \in Inner, running' = running
    PROVE  MixInv'
<1> SUFFICES ASSUME NEW p \in Probe PROVE Explained(probe[p])'
  BY DEF MixInv
<1>1. probe[p].at # "verify"
  BY UpdaterAssumption DEF MutexInv
<1>2. probe[p] \in Seen /\ Explained(probe[p])
  BY DEF MixInv, Typed, TypeOK
<1>3. /\ probe'[p].at = probe[p].at /\ probe'[p].detailed = probe[p].detailed
      /\ probe'[p].running = probe[p].running /\ probe'[p].cleared = probe[p].cleared
      /\ probe'[p].error = probe[p].error /\ probe'[p].stale = probe[p].stale
      /\ probe'[p].verdict = probe[p].verdict
      /\ probe[p].between \/ probe[p].at \in {"load", "check"} => probe'[p].between
  BY <1>2 DEF EndRound, Seen
<1> QED
  BY <1>1, <1>2, <1>3 DEF Explained, RoundSeen, FlagSeen, Agrees

LEMMA MixCleared ==
    ASSUME Typed, MixInv, Cleared, ~running', UNCHANGED <<failed, age>>
    PROVE  MixInv'
<1> SUFFICES ASSUME NEW p \in Probe PROVE Explained(probe[p])'
  BY DEF MixInv
<1>1. probe[p] \in Seen /\ Explained(probe[p])
  BY DEF MixInv, Typed, TypeOK
<1>2. /\ probe'[p].at = probe[p].at /\ probe'[p].detailed = probe[p].detailed
      /\ probe'[p].running = probe[p].running /\ probe'[p].between = probe[p].between
      /\ probe'[p].error = probe[p].error /\ probe'[p].stale = probe[p].stale
      /\ probe'[p].verdict = probe[p].verdict
      /\ probe[p].cleared \/ probe[p].at = "load" => probe'[p].cleared
  BY <1>1 DEF Cleared, Seen
<1> QED
  BY <1>1, <1>2 DEF Explained, RoundSeen, FlagSeen, Agrees

\* main starts the worker before it serves: no probe looks yet.
LEMMA MixStart ==
    ASSUME Typed, LifeInv, MixInv, StartWorker
    PROVE  MixInv'
<1> SUFFICES ASSUME NEW p \in Probe PROVE Explained(probe[p])'
  BY DEF MixInv
<1>1. probe[p].at = "idle" /\ Explained(probe[p])
  BY DEF MixInv, LifeInv, StartWorker, Goto
<1>2. probe' = probe
  BY DEF StartWorker
<1> QED
  BY <1>1, <1>2 DEF Explained, RoundSeen, FlagSeen, Agrees

LEMMA MixElapse ==
    ASSUME Typed, MixInv, Elapse
    PROVE  MixInv'
<1>1. age = Stale => age' = Stale
  BY DEF Elapse, Stale
<1>2. UNCHANGED <<probe, failed, running>>
  BY DEF Elapse, workerVars
<1> QED
  BY <1>1, <1>2 DEF MixInv, Explained, RoundSeen, FlagSeen, Agrees

LEMMA MixProbe ==
    ASSUME Typed, MixInv, NEW p \in Probe,
           (\E detailed \in BOOLEAN : Request(p, detailed)) \/ Lock(p) \/ Respond(p)
    PROVE  MixInv'
<1>0. probe \in [Probe -> Seen] /\ failed \in BOOLEAN /\ running \in BOOLEAN
  BY DEF Typed, TypeOK
<1>1. UNCHANGED <<running, failed, age>> /\ \A q \in Probe : q # p => probe'[q] = probe[q]
  <2>1. UNCHANGED probeFrame
    BY DEF Request, Lock, Respond, ReadHealth, LoadRunning, Verify, Answer
  <2> QED
    BY <1>0, <2>1, ProbeKinds DEF probeFrame, workerVars, health
<1>2. Explained(probe[p]) /\ probe[p] \in Seen
  BY <1>0 DEF MixInv
<1>3. Explained(probe[p])'
  <2>1. CASE \E detailed \in BOOLEAN : Request(p, detailed)
    <3>1. probe'[p].at \in {"lock", "load"} /\ probe'[p].verdict = "none"
          /\ (probe'[p].detailed => probe'[p].at = "lock")
      <4>1. PICK detailed \in BOOLEAN : Request(p, detailed)
        BY <2>1
      <4>2. CASE detailed
        BY <1>0, <4>1, <4>2 DEF Request, See, NoProbe
      <4>3. CASE ~detailed
        BY <1>0, <4>1, <4>3 DEF Request, See, NoProbe
      <4> QED
        BY <4>2, <4>3
    <3> QED
      BY <3>1 DEF Explained, RoundSeen, FlagSeen, Agrees
  <2>2. CASE Answer(p)
    <3>1. probe'[p].at = "idle" /\ ~probe'[p].detailed
      BY <1>0, <2>2 DEF Answer, See, NoProbe
    <3> QED
      BY <3>1 DEF Explained
  <2>3. CASE ReadHealth(p)
    <3>1. /\ probe'[p].at = "load" /\ probe'[p].verdict = "none"
          /\ probe'[p].running = running /\ probe'[p].error = failed
          /\ probe'[p].stale = (age = Stale)
      BY <1>0, <1>2, <2>3 DEF ReadHealth, See, Seen, Explained
    <3> QED
      BY <1>1, <3>1 DEF Explained, RoundSeen, FlagSeen, Agrees
  <2>4. CASE Lock(p)
    <3>1. \/ probe[p].at = "lock" /\ probe'[p].at = "read" /\ probe'[p].verdict = "none"
          \/ probe[p].at = "check" /\ probe'[p].at = "verify" /\ probe'[p].verdict = "none"
      BY <1>0, <1>2, <2>4 DEF Lock, Move, See, Seen, Explained
    <3>2. /\ probe'[p].detailed = probe[p].detailed /\ probe'[p].running = probe[p].running
          /\ probe'[p].error = probe[p].error /\ probe'[p].stale = probe[p].stale
          /\ probe'[p].between = probe[p].between
      BY <1>0, <1>2, <2>4 DEF Lock, Move, See, Seen
    <3> QED
      BY <1>1, <1>2, <3>1, <3>2 DEF Explained, RoundSeen, FlagSeen, Agrees
  <2>5. CASE LoadRunning(p)
    <3>1. CASE running
      BY <1>0, <1>1, <1>2, <2>5, <3>1
         DEF LoadRunning, See, Seen, Explained, RoundSeen, FlagSeen, Agrees
    <3>2. CASE ~running
      BY <1>0, <1>1, <1>2, <2>5, <3>2
         DEF LoadRunning, See, Seen, Explained, RoundSeen, FlagSeen, Agrees
    <3> QED
      BY <3>1, <3>2
  <2>6. CASE Verify(p)
    BY <1>0, <1>1, <1>2, <2>6
       DEF Verify, See, Seen, Explained, RoundSeen, FlagSeen, Agrees
  <2> QED
    BY <2>1, <2>2, <2>3, <2>4, <2>5, <2>6 DEF Respond
<1> QED
  BY <1>1, <1>3 DEF MixInv, Explained, RoundSeen, FlagSeen, Agrees

LEMMA MixStep == Typed /\ MutexInv /\ LifeInv /\ MixInv /\ [Next]_vars => MixInv'
<1> SUFFICES ASSUME Typed, MutexInv, LifeInv, MixInv, [Next]_vars PROVE MixInv'
  OBVIOUS
<1>1. CASE UNCHANGED <<probe, running, failed, age>>
  BY <1>1 DEF MixInv, Explained, RoundSeen, FlagSeen, Agrees
<1>2. CASE Work
  BY <1>1, <1>2, WorkKinds, MixEndRound, MixCleared DEF Inner
<1>3. CASE Listen \/ ServerFails \/ Signal \/ Leave \/ UNCHANGED vars
  <2>1. UNCHANGED <<probe, running, failed, age>>
    BY <1>3 DEF Listen, ServerFails, Signal, Leave, StopReturns, StopTimesOut, Drain,
       DrainTimesOut, CancelBackground, CloseDatabase, Exit, vars, workerVars, health
  <2> QED
    BY <1>1, <2>1
<1> QED
  BY <1>2, <1>3, MixStart, MixElapse, MixProbe DEF Next, Boot

\* The body of /health/detailed and its status disagree on the last round only
\* if a round ended between the two looks, and on the worker only if it cleared
\* its flag between them (health_handler.go:47 and :52).
THEOREM MixedAnswersExplained == Spec => []MixedAnswerNeedsCause
<1>1. Init => MixInv
  BY DEF Init, MixInv, Explained, NoProbe
<1>2. MixInv => MixedAnswerNeedsCause
  BY DEF MixInv, Explained, Agrees, MixedAnswerNeedsCause
<1> QED
  BY <1>1, <1>2, MutexHolds, LifeHolds, MixStep, PTL DEF Spec

-------------------------------------------------------------------------------
(* Fetched rates *)

Ratio(p, rate) == rate[1] = 0 \/ rate[1] * Value[p.to] = rate[2] * Value[p.from]

RatioInv ==
    /\ RatesAreRatios
    /\ worker = "toUsdt" => base \in Quotes(asked.from, Usdt)

\* The three ways to a rate: the price, its inverse, a quotient of two prices.
LEMMA DirectRatio ==
    ASSUME NEW p \in Pair, NEW price \in Quotes(p.from, p.to)
    PROVE  price[2] > 0 /\ Ratio(p, price)
<1>1. Value[p.from] \in Nat \ {0} /\ Value[p.to] \in Nat \ {0}
  BY UpdaterAssumption, PairCodes
<1>2. CASE price = <<0, 1>>
  BY <1>2 DEF Ratio
<1>3. CASE price = <<Value[p.from], Value[p.to]>>
  BY <1>1, <1>3 DEF Ratio
<1> QED
  BY <1>2, <1>3 DEF Quotes

LEMMA InverseRatio ==
    ASSUME NEW p \in Pair, NEW price \in Quotes(p.to, p.from), price[1] # 0
    PROVE  Over(One, price)[2] > 0 /\ Ratio(p, Over(One, price))
<1>1. Value[p.from] \in Nat \ {0} /\ Value[p.to] \in Nat \ {0}
  BY UpdaterAssumption, PairCodes
<1>2. price = <<Value[p.to], Value[p.from]>>
  BY DEF Quotes
<1>3. Over(One, price)[1] = Value[p.from] /\ Over(One, price)[2] = Value[p.to]
  BY <1>1, <1>2 DEF Over, One
<1> QED
  BY <1>1, <1>3 DEF Ratio

LEMMA CrossRatio ==
    ASSUME NEW p \in Pair, NEW x \in Quotes(p.from, Usdt), NEW y \in Quotes(p.to, Usdt),
           y[1] # 0
    PROVE  Over(x, y)[2] > 0 /\ Ratio(p, Over(x, y))
<1> DEFINE f == Value[p.from]
           t == Value[p.to]
           u == Value[Usdt]
<1>1. f \in Nat \ {0} /\ t \in Nat \ {0} /\ u \in Nat \ {0}
  BY UpdaterAssumption, PairCodes
<1>2. y = <<t, u>> /\ (x = <<f, u>> \/ x = <<0, 1>>)
  BY DEF Quotes
<1> HIDE DEF f, t, u
<1>3. CASE x = <<f, u>>
  <2>1. Over(x, y)[1] = f * u /\ Over(x, y)[2] = u * t
    BY <1>2, <1>3 DEF Over
  <2>2. u * t > 0 /\ (f * u) * t = (u * t) * f
    BY <1>1
  <2> QED
    BY <2>1, <2>2 DEF Ratio, f, t
<1>4. CASE x = <<0, 1>>
  <2>1. Over(x, y)[1] = 0 /\ Over(x, y)[2] = t
    BY <1>1, <1>2, <1>4 DEF Over
  <2> QED
    BY <1>1, <2>1 DEF Ratio
<1> QED
  BY <1>2, <1>3, <1>4

LEMMA TakeRatio ==
    ASSUME RatioInv, NEW p \in Pair, NEW rate, rate[2] > 0, Ratio(p, rate), Take(p, rate)
    PROVE  RatioInv'
<1>1. worker' # "toUsdt"
  BY DEF Take
<1>2. RatesAreRatios'
  <2> SUFFICES ASSUME NEW v \in updates' PROVE v.rate[2] > 0 /\ Ratio(v.pair, v.rate)
    BY DEF RatesAreRatios, Ratio
  <2>1. CASE v \in updates
    BY <2>1 DEF RatioInv, RatesAreRatios, Ratio
  <2>2. CASE v = [pair |-> p, rate |-> rate]
    BY <2>2
  <2> QED
    BY <2>1, <2>2 DEF Take
<1> QED
  BY <1>1, <1>2 DEF RatioInv

\* Steps that fetch nothing.
LEMMA NoneFetched ==
    ASSUME RatioInv, updates' = updates \/ updates' = {}, worker' # "toUsdt"
    PROVE  RatioInv'
  BY DEF RatioInv, RatesAreRatios

LEMMA AsksRatio ==
    ASSUME Typed, RatioInv, AskDirect \/ AskReverse \/ AskFromUsdt \/ AskToUsdt
    PROVE  RatioInv'
<1>1. ASSUME NEW p, PassOver(p) PROVE RatioInv'
  BY <1>1, NoneFetched DEF PassOver
<1>2. CASE AskDirect
  <2>1. PICK p \in todo :
          \/ \E price \in Quotes(p.from, p.to) : Take(p, price)
          \/ worker' = "reverse" /\ asked' = p /\ UNCHANGED <<todo, base, updates>>
    BY <1>2 DEF AskDirect
  <2>2. p \in Pair
    BY DEF Typed, TypeOK
  <2> QED
    BY <2>1, <2>2, DirectRatio, TakeRatio, NoneFetched
<1>3. CASE AskReverse
  <2>1. asked \in Pair
    BY <1>3 DEF AskReverse, Typed, Asking
  <2> QED
    BY <1>1, <1>3, <2>1, InverseRatio, TakeRatio, NoneFetched DEF AskReverse
<1>4. CASE AskFromUsdt
  BY <1>1, <1>4 DEF AskFromUsdt, RatioInv, RatesAreRatios
<1>5. CASE AskToUsdt
  <2>1. asked \in Pair /\ base \in Quotes(asked.from, Usdt)
    BY <1>5 DEF AskToUsdt, Typed, Asking, RatioInv
  <2> QED
    BY <1>1, <1>5, <2>1, CrossRatio, TakeRatio DEF AskToUsdt
<1> QED
  BY <1>2, <1>3, <1>4, <1>5

LEMMA RatioStep == Typed /\ RatioInv /\ [Next]_vars => RatioInv'
<1> SUFFICES ASSUME Typed, RatioInv, [Next]_vars PROVE RatioInv'
  OBVIOUS
<1>1. CASE UNCHANGED <<worker, asked, base, updates>>
  BY <1>1 DEF RatioInv, RatesAreRatios, Quotes
<1>2. CASE List \/ FinishFetch \/ Batch
  BY <1>2, NoneFetched DEF List, FinishFetch, Batch, Succeed, FailAttempt, EndRound
<1>3. CASE \/ BeginRound \/ SkipRound \/ Retry
           \/ TakeTick \/ TakeStop \/ ClearRunning \/ CloseDone
  BY <1>3, NoneFetched DEF BeginRound, SkipRound, Retry, TakeTick, TakeStop, ClearRunning,
     CloseDone, At
<1>4. CASE StartWorker
  BY <1>4, NoneFetched DEF StartWorker
<1>5. CASE Listen \/ ServerFails \/ Signal \/ Leave \/ Elapse \/ UNCHANGED vars
  BY <1>1, <1>5 DEF Listen, ServerFails, Signal, Leave, StopReturns, StopTimesOut, Drain,
     DrainTimesOut, CancelBackground, CloseDatabase, Exit, Elapse, vars, workerVars
<1>6. ASSUME NEW p \in Probe,
             (\E detailed \in BOOLEAN : Request(p, detailed)) \/ Lock(p) \/ Respond(p)
      PROVE  RatioInv'
  BY <1>1, <1>6 DEF Request, Lock, Respond, ReadHealth, LoadRunning, Verify, Answer, probeFrame,
     workerVars
<1> QED
  BY <1>2, <1>3, <1>4, <1>5, <1>6, AsksRatio DEF Next, Boot, Work

\* Whichever of the four symbols answer, a fetched rate is the ratio of the two
\* currencies or a quoted 0, and nothing is divided by 0 (rate_updater.go:180).
THEOREM RatesRight == Spec => []RatesAreRatios
<1>1. Init => RatioInv
  BY DEF Init, RatioInv, RatesAreRatios
<1>2. RatioInv => RatesAreRatios
  BY DEF RatioInv
<1> QED
  BY <1>1, <1>2, TypedHolds, RatioStep, PTL DEF Spec

================================================================================
