------------------------------ MODULE RateUpdater ------------------------------
(***************************************************************************)
(* The life of the rate updater and of the process around it:              *)
(* rate_updater.go, the health endpoints and the end of main.go.           *)
(*                                                                         *)
(* The goroutines are main, the worker and the probes (requests for the    *)
(* health endpoints).  They share the worker's mutex, its running flag and *)
(* the channels stopChan and doneChan.  One action is one statement of a   *)
(* goroutine that another one can see, or one answer of Binance or of the  *)
(* database, with the local code around it.                                *)
(*                                                                         *)
(* The counters runCount and failCount are only printed and left out.      *)
(* What a batch does to rows and cache entries is RateCache's subject.     *)
(***************************************************************************)
EXTENDS Naturals, FiniteSets

CONSTANTS
    Pair,          \* rows of exchange_rates: [from, to : Code]
    Code,          \* currency codes
    Crypto,        \* the codes with is_crypto
    Usdt,          \* the code crossed rates go through
    Value,         \* what each currency is worth on the market
    MaxRetries,    \* config.MaxRetries, 3 in the program
    Probe          \* requests for /health/detailed and /ready

ASSUME UpdaterAssumption ==
    /\ Pair \subseteq [from : Code, to : Code]
    /\ Crypto \subseteq Code /\ Usdt \in Code
    /\ Value \in [Code -> Nat \ {0}]
    /\ MaxRetries \in Nat
    /\ {"nobody", "worker"} \cap Probe = {}

VARIABLES
    main,          \* where main is
    gaveUp,        \* Stop returned by its timeout
    running,       \* ru.running
    worker,        \* where the worker is
    attempt,       \* the attempt of executeUpdate
    todo,          \* the rates performUpdate has yet to fetch
    asked,         \* the rate it is fetching, among todo
    base,          \* the FROM/USDT price of a crossed rate
    updates,       \* the rates it has fetched
    mu,            \* who holds ru.mu
    failed,        \* ru.lastError # nil
    age,           \* intervals begun since ru.lastRunTime; Stale: more than two
    tick,          \* ticker.C, a channel with room for one tick
    probe          \* each probe: where it is, and what it has seen

workerVars == <<running, worker, attempt, todo, asked, base, updates>>
health == <<failed, age>>
vars == <<main, gaveUp, workerVars, mu, health, tick, probe>>

Stale == 3
Price == Nat \X Nat                         \* a fraction
Update == [pair : Pair, rate : Price]
NoPair == [from |-> Usdt, to |-> Usdt]

MainStage ==
    {"starting", "started", "serving", "stopping", "draining", "drained",
     "cancelled", "closed", "exited"}
WorkerStage ==
    {"none", "round", "list", "fetch", "reverse", "fromUsdt", "toUsdt", "batch",
     "backoff", "select", "ending", "ended", "done"}
ProbeStage == {"idle", "lock", "read", "load", "check", "verify", "answer"}

\* The body: Running, LastError and whether LastRunTime is two intervals old.
\* History: between, a round has ended since the body was read; cleared, the
\* worker has cleared its flag since then.
Seen ==
    [at : ProbeStage, detailed : BOOLEAN,
     running : BOOLEAN, error : BOOLEAN, stale : BOOLEAN,
     between : BOOLEAN, cleared : BOOLEAN,
     verdict : {"none", "healthy", "failing", "down"}]
NoProbe ==
    [at |-> "idle", detailed |-> FALSE, running |-> FALSE, error |-> FALSE, stale |-> FALSE,
     between |-> FALSE, cleared |-> FALSE, verdict |-> "none"]

Init ==
    /\ main = "starting" /\ gaveUp = FALSE
    /\ running = FALSE /\ worker = "none"
    /\ attempt = 0 /\ todo = {} /\ asked = NoPair /\ base = <<0, 1>> /\ updates = {}
    /\ mu = "nobody"
    /\ failed = FALSE /\ age = Stale
    /\ tick = FALSE
    /\ probe = [p \in Probe |-> NoProbe]

Up == main # "exited"
StopClosed == main \in {"stopping", "draining", "drained", "cancelled", "closed"}
Cancelled == main \in {"cancelled", "closed"}
DatabaseOpen == main # "closed"

-------------------------------------------------------------------------------
(* main *)

Goto(from, to) == main = from /\ main' = to

\* Mutant of StartWorker: the flag is looked at, not set.
StartWorkerUnset ==
    /\ Goto("starting", "started")
    /\ ~running
    /\ worker = "none" /\ worker' = "round"
    /\ UNCHANGED <<gaveUp, running, attempt, todo, asked, base, updates, mu, health, tick, probe>>

StartWorker ==
    /\ Goto("starting", "started")
    /\ ~running /\ running' = TRUE
    /\ worker = "none" /\ worker' = "round"
    /\ UNCHANGED <<gaveUp, attempt, todo, asked, base, updates, mu, health, tick, probe>>

Listen ==
    /\ Goto("started", "serving")
    /\ UNCHANGED <<gaveUp, workerVars, mu, health, tick, probe>>

\* os.Exit(1): nothing deferred runs.
ServerFails ==
    /\ Goto("serving", "exited")
    /\ UNCHANGED <<gaveUp, workerVars, mu, health, tick, probe>>

\* SIGTERM: the 30 seconds for the shutdown start, Stop closes stopChan.  The
\* worker is running: only stopChan and the context end it.
Signal ==
    /\ running
    /\ Goto("serving", "stopping")
    /\ UNCHANGED <<gaveUp, workerVars, mu, health, tick, probe>>

\* Mutant of StopReturns: Stop does not wait for doneChan.
StopReturnsAtOnce ==
    /\ Goto("stopping", "draining")
    /\ UNCHANGED <<gaveUp, workerVars, mu, health, tick, probe>>

StopReturns ==
    /\ worker = "done"
    /\ Goto("stopping", "draining")
    /\ UNCHANGED <<gaveUp, workerVars, mu, health, tick, probe>>

\* Mutant of StopTimesOut: there is no time.After.
StopTimesOutNever ==
    /\ worker = "done"
    /\ Goto("stopping", "draining")
    /\ gaveUp' = TRUE
    /\ UNCHANGED <<workerVars, mu, health, tick, probe>>

StopTimesOut ==
    /\ Goto("stopping", "draining")
    /\ gaveUp' = TRUE
    /\ UNCHANGED <<workerVars, mu, health, tick, probe>>

\* Shutdown waits for the requests under way, or Close drops their connections.
Drain ==
    /\ \A p \in Probe : probe[p].at = "idle"
    /\ Goto("draining", "drained")
    /\ UNCHANGED <<gaveUp, workerVars, mu, health, tick, probe>>

DrainTimesOut ==
    /\ Goto("draining", "drained")
    /\ UNCHANGED <<gaveUp, workerVars, mu, health, tick, probe>>

\* The deferred calls, last one first; after them the process is gone.
CancelBackground ==
    /\ Goto("drained", "cancelled")
    /\ UNCHANGED <<gaveUp, workerVars, mu, health, tick, probe>>

CloseDatabase ==
    /\ Goto("cancelled", "closed")
    /\ UNCHANGED <<gaveUp, workerVars, mu, health, tick, probe>>

Exit ==
    /\ Goto("closed", "exited")
    /\ UNCHANGED <<gaveUp, workerVars, mu, health, tick, probe>>

-------------------------------------------------------------------------------
(* The worker: run and executeUpdate *)

At(from, to) == Up /\ worker = from /\ worker' = to

\* The timer fires: an interval ends.  A full channel drops the tick.
Elapse ==
    /\ Up /\ worker # "none"
    /\ tick' = (worker \notin {"ended", "done"})
    /\ age' = IF age < Stale THEN age + 1 ELSE Stale
    /\ UNCHANGED <<main, gaveUp, workerVars, mu, failed, probe>>

\* TryLock.
BeginRound ==
    /\ At("round", "list")
    /\ mu = "nobody" /\ mu' = "worker"
    /\ attempt' = 0
    /\ UNCHANGED <<main, gaveUp, running, todo, asked, base, updates, health, tick, probe>>

SkipRound ==
    /\ At("round", "select")
    /\ mu # "nobody"
    /\ UNCHANGED <<main, gaveUp, running, attempt, todo, asked, base, updates, mu, health, tick,
                   probe>>

\* The deferred Unlock; every probe that waits may go on.
EndRound ==
    /\ worker' = "select"
    /\ mu' = "nobody"
    /\ todo' = {} /\ updates' = {} /\ asked' = NoPair /\ base' = <<0, 1>> /\ attempt' = 0
    /\ probe' = [p \in Probe |-> [probe[p] EXCEPT !.between = @ \/ probe[p].at = "load"
                                                                \/ probe[p].at = "check"]]

Succeed == EndRound /\ failed' = FALSE /\ age' = 0

\* Mutant of FailAttempt: one attempt too many.
FailAttemptOnceMore ==
    \/ /\ attempt <= MaxRetries
       /\ worker' = "backoff"
       /\ todo' = {} /\ updates' = {}
       /\ UNCHANGED <<attempt, asked, base, mu, health, probe>>
    \/ /\ attempt = MaxRetries
       /\ EndRound /\ failed' = TRUE
       /\ UNCHANGED age

\* Mutant of FailAttempt: after the last attempt the mutex is not unlocked.
FailAttemptLocked ==
    \/ /\ attempt < MaxRetries
       /\ worker' = "backoff"
       /\ todo' = {} /\ updates' = {}
       /\ UNCHANGED <<attempt, asked, base, mu, health, probe>>
    \/ /\ attempt = MaxRetries
       /\ worker' = "select" /\ failed' = TRUE
       /\ todo' = {} /\ updates' = {}
       /\ UNCHANGED <<attempt, asked, base, mu, age, probe>>

FailAttempt ==
    \/ /\ attempt < MaxRetries
       /\ worker' = "backoff"
       /\ todo' = {} /\ updates' = {}
       /\ UNCHANGED <<attempt, asked, base, mu, health, probe>>
    \/ /\ attempt = MaxRetries
       /\ EndRound /\ failed' = TRUE
       /\ UNCHANGED age

\* Mutant of Retry: attempts are not counted.
RetryForever ==
    /\ At("backoff", "list")
    /\ UNCHANGED <<main, gaveUp, running, attempt, todo, asked, base, updates, mu, health, tick,
                   probe>>

\* time.Sleep, with the mutex held.
Retry ==
    /\ At("backoff", "list")
    /\ attempt' = attempt + 1
    /\ UNCHANGED <<main, gaveUp, running, todo, asked, base, updates, mu, health, tick, probe>>

\* GetActiveRatesWithCurrencies; pairs with a crypto currency are passed over.
Fiat(rates) == {r \in rates : r.from \notin Crypto /\ r.to \notin Crypto}

List ==
    /\ Up /\ worker = "list"
    /\ \/ Succeed
       \/ FailAttempt
       \/ \E rates \in SUBSET Pair \ {{}} :
             /\ worker' = "fetch"
             /\ todo' = Fiat(rates)
             /\ UNCHANGED <<attempt, asked, base, updates, mu, health, probe>>
    /\ UNCHANGED <<main, gaveUp, running, tick>>

\* A round that fetched nothing is a success.
FinishFetch ==
    /\ Up /\ worker = "fetch" /\ todo = {}
    /\ IF updates = {} THEN Succeed
       ELSE worker' = "batch" /\ UNCHANGED <<attempt, todo, asked, base, updates, mu, health, probe>>
    /\ UNCHANGED <<main, gaveUp, running, tick>>

\* BatchUpdateRates, over the database.
Batch ==
    /\ Up /\ worker = "batch"
    /\ (DatabaseOpen /\ Succeed) \/ FailAttempt
    /\ UNCHANGED <<main, gaveUp, running, tick>>

-------------------------------------------------------------------------------
(* fetchBinancePrice and getBinanceRate *)

\* A price Binance may quote for the symbol a+b; 0 is not ruled out.  No price
\* (unknown symbol, HTTP error, timeout of the context) is the other outcome.
Quotes(a, b) == {<<Value[a], Value[b]>>, <<0, 1>>}

Over(x, y) == <<x[1] * y[2], x[2] * y[1]>>
One == <<1, 1>>

fetchFrame == <<main, gaveUp, running, attempt, mu, health, tick, probe>>

Take(p, rate) ==
    /\ updates' = updates \cup {[pair |-> p, rate |-> rate]}
    /\ todo' = todo \ {p}
    /\ worker' = "fetch"
    /\ asked' = NoPair /\ base' = <<0, 1>>

PassOver(p) ==
    /\ todo' = todo \ {p}
    /\ worker' = "fetch"
    /\ asked' = NoPair /\ base' = <<0, 1>>
    /\ UNCHANGED updates

AskDirect ==
    /\ Up /\ worker = "fetch"
    /\ \E p \in todo :
        \/ \E price \in Quotes(p.from, p.to) : Take(p, price)
        \/ worker' = "reverse" /\ asked' = p /\ UNCHANGED <<todo, base, updates>>
    /\ UNCHANGED fetchFrame

\* Mutant of AskReverse: the price is not inverted.
AskReverseUninverted ==
    /\ Up /\ worker = "reverse"
    /\ \/ \E price \in Quotes(asked.to, asked.from) :
             IF price[1] = 0 THEN PassOver(asked) ELSE Take(asked, price)
       \/ worker' = "fromUsdt" /\ UNCHANGED <<todo, asked, base, updates>>
    /\ UNCHANGED fetchFrame

AskReverse ==
    /\ Up /\ worker = "reverse"
    /\ \/ \E price \in Quotes(asked.to, asked.from) :
             IF price[1] = 0 THEN PassOver(asked) ELSE Take(asked, Over(One, price))
       \/ worker' = "fromUsdt" /\ UNCHANGED <<todo, asked, base, updates>>
    /\ UNCHANGED fetchFrame

AskFromUsdt ==
    /\ Up /\ worker = "fromUsdt"
    /\ \/ \E price \in Quotes(asked.from, Usdt) :
             /\ worker' = "toUsdt" /\ base' = price
             /\ UNCHANGED <<todo, asked, updates>>
       \/ PassOver(asked)
    /\ UNCHANGED fetchFrame

AskToUsdt ==
    /\ Up /\ worker = "toUsdt"
    /\ \/ \E price \in Quotes(asked.to, Usdt) :
             IF price[1] = 0 THEN PassOver(asked) ELSE Take(asked, Over(base, price))
       \/ PassOver(asked)
    /\ UNCHANGED fetchFrame

-------------------------------------------------------------------------------
\* The select of run: Go picks any of the cases that are ready.
TakeTick ==
    /\ tick /\ tick' = FALSE
    /\ At("select", "round")
    /\ UNCHANGED <<main, gaveUp, running, attempt, todo, asked, base, updates, mu, health, probe>>

TakeStop ==
    /\ StopClosed \/ Cancelled
    /\ At("select", "ending")
    /\ UNCHANGED <<main, gaveUp, running, attempt, todo, asked, base, updates, mu, health, tick,
                   probe>>

\* The deferred calls: ticker.Stop and running.Store(false), close(doneChan).
ClearRunning ==
    /\ At("ending", "ended")
    /\ running' = FALSE
    /\ probe' = [p \in Probe |-> [probe[p] EXCEPT !.cleared = @ \/ probe[p].at = "load"]]
    /\ UNCHANGED <<main, gaveUp, attempt, todo, asked, base, updates, mu, health, tick>>

CloseDone ==
    /\ At("ended", "done")
    /\ UNCHANGED <<main, gaveUp, running, attempt, todo, asked, base, updates, mu, health, tick,
                   probe>>

-------------------------------------------------------------------------------
(* HealthDetailed (Health, then IsHealthy) and Ready (IsHealthy) *)

See(p, seen) == probe' = [probe EXCEPT ![p] = seen]
Move(p, from, to) == Up /\ probe[p].at = from /\ See(p, [probe[p] EXCEPT !.at = to])
probeFrame == <<main, gaveUp, workerVars, health, tick>>

Request(p, detailed) ==
    /\ main \in {"serving", "stopping"} /\ probe[p].at = "idle"
    /\ See(p, [NoProbe EXCEPT !.at = IF detailed THEN "lock" ELSE "load", !.detailed = detailed])
    /\ UNCHANGED <<probeFrame, mu>>

\* ru.mu.Lock() in Health and in IsHealthy.
Lock(p) ==
    /\ mu = "nobody" /\ mu' = p
    /\ Move(p, "lock", "read") \/ Move(p, "check", "verify")
    /\ UNCHANGED probeFrame

\* Mutant of ReadHealth: LastError is left out of the status.
ReadHealthSilent(p) ==
    /\ Up /\ probe[p].at = "read"
    /\ See(p, [probe[p] EXCEPT !.at = "load", !.running = running, !.stale = (age = Stale)])
    /\ mu' = "nobody"
    /\ UNCHANGED probeFrame

ReadHealth(p) ==
    /\ Up /\ probe[p].at = "read"
    /\ See(p, [probe[p] EXCEPT !.at = "load", !.running = running, !.error = failed,
                               !.stale = (age = Stale)])
    /\ mu' = "nobody"
    /\ UNCHANGED probeFrame

LoadRunning(p) ==
    /\ Up /\ probe[p].at = "load"
    /\ See(p, IF running THEN [probe[p] EXCEPT !.at = "check"]
              ELSE [probe[p] EXCEPT !.at = "answer", !.verdict = "down"])
    /\ UNCHANGED <<probeFrame, mu>>

Verify(p) ==
    /\ Up /\ probe[p].at = "verify"
    /\ See(p, [probe[p] EXCEPT !.at = "answer",
                   !.verdict = IF failed /\ age = Stale THEN "failing" ELSE "healthy"])
    /\ mu' = "nobody"
    /\ UNCHANGED probeFrame

Answer(p) ==
    /\ Up /\ probe[p].at = "answer"
    /\ See(p, NoProbe)
    /\ UNCHANGED <<probeFrame, mu>>

-------------------------------------------------------------------------------
Leave ==
    \/ StopReturns \/ StopTimesOut \/ Drain \/ DrainTimesOut
    \/ CancelBackground \/ CloseDatabase \/ Exit
Boot == StartWorker \/ Listen
Work ==
    \/ BeginRound \/ SkipRound \/ Retry \/ List \/ FinishFetch \/ Batch
    \/ AskDirect \/ AskReverse \/ AskFromUsdt \/ AskToUsdt
    \/ TakeTick \/ TakeStop \/ ClearRunning \/ CloseDone
Respond(p) == ReadHealth(p) \/ LoadRunning(p) \/ Verify(p) \/ Answer(p)

Next ==
    \/ Boot \/ ServerFails \/ Signal \/ Leave
    \/ Elapse \/ Work
    \/ \E p \in Probe :
          \/ \E detailed \in BOOLEAN : Request(p, detailed)
          \/ Lock(p) \/ Respond(p)

\* Runnable goroutines run, requests and statements return, timers fire.  A
\* waiting Lock is handed the mutex sooner or later (sync.Mutex turns to
\* starvation mode after 1 ms).  Nothing is assumed of the choices of a select.
Fairness ==
    /\ WF_vars(Boot) /\ WF_vars(Leave)
    /\ WF_vars(Elapse) /\ WF_vars(Work)
    /\ \A p \in Probe : SF_vars(Lock(p)) /\ WF_vars(Respond(p))

Spec == Init /\ [][Next]_vars
FairSpec == Spec /\ Fairness

-------------------------------------------------------------------------------
TypeOK ==
    /\ main \in MainStage /\ gaveUp \in BOOLEAN
    /\ running \in BOOLEAN /\ worker \in WorkerStage
    /\ attempt \in 0 .. MaxRetries
    /\ todo \subseteq Pair /\ asked \in Pair \cup {NoPair}
    /\ base \in Price /\ updates \subseteq Update
    /\ mu \in {"nobody", "worker"} \cup Probe
    /\ failed \in BOOLEAN /\ age \in 0 .. Stale
    /\ tick \in BOOLEAN
    /\ probe \in [Probe -> Seen]

\* The database is closed under a worker that still lives only if Stop gave up
\* waiting for it (rate_updater.go:103, main.go:41 and :150).
DatabaseOutlivesWorker == ~DatabaseOpen => worker = "done" \/ gaveUp

\* Whichever of the four symbols answer, a fetched rate is the ratio of the two
\* currencies or the 0 that Binance quoted, and never a division by zero.
RatesAreRatios ==
    \A u \in updates :
        /\ u.rate[2] > 0
        /\ u.rate[1] = 0
           \/ u.rate[1] * Value[u.pair.to] = u.rate[2] * Value[u.pair.from]

\* The body of /health/detailed and its status are two looks (health_handler.go:47
\* and :52).  They disagree on the last round only if a round ended in between,
\* and on the worker only if it cleared its flag in between: the body then says
\* that it runs, and never that it does not run under a status that takes it to.
MixedAnswerNeedsCause ==
    \A p \in Probe : probe[p].detailed =>
        /\ probe[p].verdict = "failing" => probe[p].error \/ probe[p].between
        /\ probe[p].verdict = "healthy" /\ ~probe[p].between =>
               ~(probe[p].error /\ probe[p].stale)
        /\ probe[p].verdict = "down" => ~probe[p].running \/ probe[p].cleared
        /\ probe[p].verdict \in {"healthy", "failing"} => probe[p].running

\* Probes that find the worker down were answered during a shutdown: main starts
\* it before it serves, and only Stop or the context ends it.
DownOnlyInShutdown ==
    \A p \in Probe : probe[p].verdict = "down" => StopClosed \/ ~Up

\* A round is skipped for a probe that holds the mutex, never for another round,
\* although that is what the message at rate_updater.go:236 says.
SkipsOnlyForProbe ==
    [][worker = "round" /\ worker' = "select" => mu \in Probe]_vars

\* A probe that came is answered, though it waits for a whole update with all
\* its retries, or the process ends.
ProbesAnswer ==
    \A p \in Probe : probe[p].at # "idle" ~> probe[p].at = "idle" \/ ~Up

\* Once it is told to stop, the process ends, whatever the worker does.
ShutdownCompletes == StopClosed ~> ~Up

\* Every round, failed attempts and sleeps included, comes to its end.
RoundsEnd == mu = "worker" ~> mu # "worker" \/ ~Up

===============================================================================
