-------------------------- MODULE ServiceLifecycle --------------------------
(***************************************************************************)
(* Starting, resizing and stopping the worker threads of async::Service    *)
(* (src/async/impl/service.cpp, Worker::threadProc and ~Worker), and the   *)
(* thread that does it: Manager::run, which starts the service, waits for  *)
(* signals and stops it, or a program that uses async::Service without a   *)
(* Manager and may also call balance.  The worker threads run the          *)
(* io_service.                                                             *)
(*                                                                         *)
(* The io_service is external (boost::asio), modelled from its use here:   *)
(* run returns when the service is stopped, and the service stops by       *)
(* itself when run or the end of some work finds nothing outstanding: no   *)
(* io_service::work, no queued or running handler, no pending timer or     *)
(* signal wait.  Only io_service::reset would undo that; nobody calls it.  *)
(***************************************************************************)
EXTENDS Naturals, Sequences, FiniteSets

CONSTANTS Workers,  \* Worker objects that may be created
          Targets,  \* arguments of start and balance
          Jobs,     \* handlers and timeouts the running code may add
          MaxBalance, \* bound: balance calls between start and stop
          None

Handlers == Jobs \cup {"onStart", "onStop", "onSignal"}

ASSUME ServiceAssumption ==
    /\ IsFiniteSet(Workers)
    /\ Targets \subseteq 1 .. Cardinality(Workers)
    /\ MaxBalance \in Nat
    /\ None \notin Workers /\ None \notin Handlers

VARIABLES
    workers,   \* Service::_workers
    amount,    \* Service::_workersAmount
    work,      \* Service::_work is not null
    timers,    \* Service::_timers, the pending ones
    signals,   \* the signal_set of Manager::run waits
    queue,     \* handlers queued in the io_service
    stopped,   \* the io_service is stopped
    ctl,       \* where the control thread is
    call,      \* the call it is in: start, balance or stop
    target,    \* numThreads of Service::balance
    stopping,  \* local variable stopped of Service::balance
    wpc,       \* where each worker thread is
    stop,      \* Worker::_stop
    job,       \* the handler the worker runs
    added, ran, balances, pumping  \* history

ioVars   == <<work, timers, signals, queue, stopped>>
ctlVars  == <<workers, ctl, call, target, stopping>>
thrVars  == <<amount, wpc, stop, job>>
histVars == <<added, ran, balances, pumping>>
serviceVars == <<ioVars, ctlVars, thrVars, histVars>>

ServiceInit ==
    /\ workers = {} /\ amount = 0
    /\ work = FALSE /\ timers = {} /\ signals = FALSE /\ queue = <<>> /\ stopped = FALSE
    /\ ctl = "new" /\ call = "none" /\ target = 0 /\ stopping = {}
    /\ wpc = [w \in Workers |-> "none"]
    /\ stop = [w \in Workers |-> FALSE]
    /\ job = [w \in Workers |-> None]
    /\ added = {} /\ ran = {} /\ balances = 0 /\ pumping = FALSE

(* Nothing is outstanding any more, with the values the step leaves. *)
Idle(wk, jb) ==
    ~wk /\ timers = {} /\ ~signals /\ queue = <<>> /\ \A w \in Workers : jb[w] = None

Live == {w \in Workers : wpc[w] \notin {"none", "gone"}}

-----------------------------------------------------------------------------
(* The control thread. *)

Balance(c, n) ==
    /\ call' = c
    /\ target' = n
    /\ ctl' = "resize"

(* Service::start, called by Manager::run, begins with balance. *)
Start(n) ==
    /\ ctl = "new"
    /\ Balance("start", n)
    /\ UNCHANGED <<workers, stopping, ioVars, thrVars, histVars>>

(* The rest of the start of Manager::run: ss.async_wait, once. *)
WaitSignal ==
    /\ ctl = "up" /\ call = "start"
    /\ ~signals /\ "onSignal" \notin added
    /\ signals' = TRUE
    /\ UNCHANGED <<work, timers, queue, stopped, ctlVars, thrVars, histVars>>

(* A signal: Manager::onSignal is queued. *)
Signal ==
    /\ signals
    /\ signals' = FALSE
    /\ queue' = Append(queue, "onSignal")
    /\ added' = added \cup {"onSignal"}
    /\ UNCHANGED <<work, timers, stopped, ctlVars, thrVars, ran, balances, pumping>>

(* Service::balance, from a program without a Manager. *)
Rebalance(n) ==
    /\ ctl = "up" /\ ~signals
    /\ balances < MaxBalance
    /\ balances' = balances + 1
    /\ Balance("balance", n)
    /\ UNCHANGED <<workers, stopping, ioVars, thrVars, added, ran, pumping>>

(* Manager::run cancels the signal wait, if it waits; Service::stop spawns *)
(* onStop and calls balance(0).                                            *)
Stop ==
    /\ ctl = "up"
    /\ signals' = FALSE
    /\ queue' = queue \o (IF signals THEN <<"onSignal", "onStop">> ELSE <<"onStop">>)
    /\ added' = added \cup {"onStop"} \cup (IF signals THEN {"onSignal"} ELSE {})
    /\ pumping' = (~stopped /\ \E w \in workers : wpc[w] \in {"run", "handler"})
    /\ Balance("stop", 0)
    /\ UNCHANGED <<workers, stopping, work, timers, stopped, thrVars, ran, balances>>

(* The first critical section of balance: workers to stop are taken out of *)
(* _workers, or new ones are created, whose threads begin at once.         *)
Resize ==
    /\ ctl = "resize"
    /\ \/ /\ Cardinality(workers) > target
          /\ \E S \in SUBSET workers :
                /\ Cardinality(S) = Cardinality(workers) - target
                /\ stopping' = S
                /\ workers' = workers \ S
          /\ ctl' = "dropWork"
          /\ UNCHANGED wpc
       \/ /\ Cardinality(workers) <= target
          /\ \E S \in SUBSET {w \in Workers : wpc[w] = "none"} :
                /\ Cardinality(S) = target - Cardinality(workers)
                /\ workers' = workers \cup S
                /\ wpc' = [w \in Workers |-> IF w \in S THEN "starting" ELSE wpc[w]]
          /\ ctl' = "setWork"
          /\ UNCHANGED stopping
    /\ UNCHANGED <<call, target, amount, stop, job, ioVars, histVars>>

(* _work.reset(): the work ends, and with it perhaps the io_service. *)
WorkKept == TRUE
WorkDropped == FALSE

DropWork ==
    /\ ctl = "dropWork"
    /\ work' = WorkDropped
    /\ stopped' = (stopped \/ Idle(work', job))
    /\ ctl' = "signal"
    /\ UNCHANGED <<workers, call, target, stopping, timers, signals, queue, thrVars, histVars>>

(* ~Worker of the next stopped worker: tell it, then join it. *)
SignalWorker ==
    /\ ctl = "signal"
    /\ stopping # {}
    /\ \E w \in stopping :
        /\ stop' = [stop EXCEPT ![w] = TRUE]
        /\ stopping' = stopping \ {w}
    /\ ctl' = "join"
    /\ UNCHANGED <<workers, call, target, amount, wpc, job, ioVars, histVars>>

Joined(w) == wpc[w] = "gone"

JoinWorker ==
    /\ ctl = "join"
    /\ \A w \in Workers : stop[w] => Joined(w)
    /\ ctl' = IF stopping = {} THEN "setWork" ELSE "signal"
    /\ UNCHANGED <<workers, call, target, stopping, ioVars, thrVars, histVars>>

(* The second critical section of balance: new work, or with no worker     *)
(* left cancelAllTimeouts, which queues the handlers of all timers.        *)
SetWork ==
    /\ ctl = "setWork"
    /\ \/ /\ workers # {}
          /\ work' = TRUE
          /\ UNCHANGED <<timers, queue>>
       \/ /\ workers = {}
          /\ \E q \in [1 .. Cardinality(timers) -> timers] :
                /\ \A t \in timers : \E i \in DOMAIN q : q[i] = t
                /\ queue' = queue \o q
          /\ timers' = {}
          /\ UNCHANGED work
    /\ ctl' = "await"
    /\ UNCHANGED <<workers, call, target, stopping, signals, stopped, thrVars, histVars>>

(* balance waits on _cvWorkersAmount until the threads are counted; start  *)
(* then spawns onStart.                                                    *)
AmountReached == Cardinality(workers) = amount

Await ==
    /\ ctl = "await"
    /\ AmountReached
    /\ ctl' = IF call = "stop" THEN "down" ELSE "up"
    /\ \/ /\ call = "start"
          /\ queue' = Append(queue, "onStart")
          /\ added' = added \cup {"onStart"}
       \/ /\ call # "start"
          /\ UNCHANGED <<queue, added>>
    /\ UNCHANGED <<workers, call, target, stopping, work, timers, signals, stopped, thrVars>>
    /\ UNCHANGED <<ran, balances, pumping>>

-----------------------------------------------------------------------------
(* Worker::threadProc. *)

(* Service::onThreadStart: counted under _mtxWorkers. *)
ThreadStart(w) ==
    /\ wpc[w] = "starting"
    /\ amount' = amount + 1
    /\ wpc' = [wpc EXCEPT ![w] = "loop"]
    /\ UNCHANGED <<stop, job, ioVars, ctlVars, histVars>>

(* while(!_stop) io.run(): run stops an io_service without work, and       *)
(* returns from a stopped one (a turn of the loop that changes nothing).   *)
EnterRun(w) ==
    /\ wpc[w] = "loop"
    /\ ~stop[w]
    /\ ~stopped
    /\ \/ /\ Idle(work, job)
          /\ stopped' = TRUE
          /\ UNCHANGED wpc
       \/ /\ ~Idle(work, job)
          /\ wpc' = [wpc EXCEPT ![w] = "run"]
          /\ UNCHANGED stopped
    /\ UNCHANGED <<work, timers, signals, queue, amount, stop, job, ctlVars, histVars>>

(* run gives a queued handler to the worker. *)
RunOne(w) ==
    /\ wpc[w] = "run"
    /\ ~stopped
    /\ queue # <<>>
    /\ job' = [job EXCEPT ![w] = Head(queue)]
    /\ queue' = Tail(queue)
    /\ wpc' = [wpc EXCEPT ![w] = "handler"]
    /\ UNCHANGED <<work, timers, signals, stopped, amount, stop, ctlVars, histVars>>

(* The handler calls Service::spawn, *)
Spawn(w, j) ==
    /\ wpc[w] = "handler" /\ job[w] # "onSignal"
    /\ j \notin added
    /\ added' = added \cup {j}
    /\ queue' = Append(queue, j)
    /\ UNCHANGED <<work, timers, signals, stopped, ctlVars, thrVars, ran, balances, pumping>>

(* or Service::timeout. *)
Timeout(w, j) ==
    /\ wpc[w] = "handler" /\ job[w] # "onSignal"
    /\ j \notin added
    /\ added' = added \cup {j}
    /\ timers' = timers \cup {j}
    /\ UNCHANGED <<work, signals, queue, stopped, ctlVars, thrVars, ran, balances, pumping>>

(* A deadline passes; onTimer is queued. *)
Expire(j) ==
    /\ j \in timers
    /\ timers' = timers \ {j}
    /\ queue' = Append(queue, j)
    /\ UNCHANGED <<work, signals, stopped, ctlVars, thrVars, histVars>>

(* The handler returns: its work is done. *)
HandlerDone(w) ==
    /\ wpc[w] = "handler"
    /\ ran' = ran \cup {job[w]}
    /\ job' = [job EXCEPT ![w] = None]
    /\ stopped' = (stopped \/ Idle(work, job'))
    /\ wpc' = [wpc EXCEPT ![w] = "run"]
    /\ UNCHANGED <<work, timers, signals, queue, amount, stop, ctlVars, added, balances, pumping>>

(* run returns only from a stopped io_service. *)
RunEndsEarly(w) == stopped \/ stop[w]
RunEnds(w) == stopped

LeaveRun(w) ==
    /\ wpc[w] = "run"
    /\ RunEnds(w)
    /\ wpc' = [wpc EXCEPT ![w] = "loop"]
    /\ UNCHANGED <<amount, stop, job, ioVars, ctlVars, histVars>>

CountedOut == amount - 1

(* The loop ends; Service::onThreadStop. *)
ThreadStop(w) ==
    /\ wpc[w] = "loop"
    /\ stop[w]
    /\ amount' = CountedOut
    /\ wpc' = [wpc EXCEPT ![w] = "gone"]
    /\ UNCHANGED <<stop, job, ioVars, ctlVars, histVars>>

-----------------------------------------------------------------------------
Control == Resize \/ DropWork \/ SignalWorker \/ JoinWorker \/ SetWork \/ Await
Thread(w) ==
    \/ ThreadStart(w) \/ EnterRun(w) \/ RunOne(w) \/ HandlerDone(w)
    \/ LeaveRun(w) \/ ThreadStop(w)

ServiceNext ==
    \/ \E n \in Targets : Start(n) \/ Rebalance(n)
    \/ WaitSignal \/ Signal \/ Stop
    \/ Control
    \/ \E w \in Workers : Thread(w) \/ \E j \in Jobs : Spawn(w, j) \/ Timeout(w, j)
    \/ \E j \in Jobs : Expire(j)

ServiceSpec == ServiceInit /\ [][ServiceNext]_serviceVars

(* The operating system runs every thread, a handler returns, a deadline   *)
(* passes.                                                                 *)
ServiceFairness ==
    /\ WF_serviceVars(Control)
    /\ \A w \in Workers : WF_serviceVars(Thread(w))
    /\ \A j \in Jobs : WF_serviceVars(Expire(j))

ServiceFairSpec == ServiceSpec /\ ServiceFairness

-----------------------------------------------------------------------------
(* Properties. *)

(* Service, Worker and io_service members have their types. *)
ServiceTypeOK ==
    /\ workers \subseteq Workers /\ stopping \subseteq Workers
    /\ amount \in 0 .. Cardinality(Workers)
    /\ work \in BOOLEAN /\ signals \in BOOLEAN /\ stopped \in BOOLEAN /\ pumping \in BOOLEAN
    /\ timers \subseteq Jobs
    /\ queue \in Seq(Handlers)
    /\ ctl \in {"new", "resize", "dropWork", "signal", "join", "setWork", "await", "up", "down"}
    /\ call \in {"none", "start", "balance", "stop"}
    /\ target \in {0} \cup Targets
    /\ wpc \in [Workers -> {"none", "starting", "loop", "run", "handler", "gone"}]
    /\ stop \in [Workers -> BOOLEAN]
    /\ job \in [Workers -> Handlers \cup {None}]
    /\ added \subseteq Handlers /\ ran \subseteq Handlers
    /\ balances \in 0 .. MaxBalance

(* start, balance and stop return only when the threads that live are      *)
(* exactly those of _workers, each one counted: no thread of the service   *)
(* outlives the call that dropped it.                                      *)
ThreadsAccounted ==
    ctl \in {"new", "up", "down"} =>
        Live = workers /\ amount = Cardinality(workers)

(* stop drains the service: if some worker was in io_service::run when     *)
(* stop was called, every handler and timeout added, onStop too, has run   *)
(* when stop returns.  So cancelAllTimeouts finds no timer: stop waits for *)
(* all deadlines to pass.  Without the condition it fails: ~Worker sets    *)
(* _stop, and a thread that has not entered run yet never does.            *)
StopDrains == ctl = "down" /\ pumping => ran = added /\ "onStop" \in ran

(* What a call of start, balance or stop leaves behind when it returns: the *)
(* threads that live are those of _workers, and stop has run every handler. *)
CallsLeaveOrder == ThreadsAccounted /\ StopDrains

(* start, balance and stop return. *)
CallsReturn == ctl \notin {"new", "up", "down"} ~> ctl \in {"up", "down"}

(* The root fiber of a worker "runs the loop that pumps the events of the  *)
(* proactor" (worker.hpp): while the service is up, the io_service that    *)
(* the workers run is not stopped.                                         *)
PumpRuns == ctl = "up" => ~stopped
=============================================================================
