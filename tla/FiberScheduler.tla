--------------------------- MODULE FiberScheduler ---------------------------
(***************************************************************************)
(* The M:N fiber scheduler of lib async: Worker, Fiber, FiberPool and      *)
(* Service::spawn (src/async/impl).  Every worker thread runs              *)
(* io_service::run on its root fiber; a handler enters Worker::exec, which *)
(* runs the fibers that became ready, gives the queued tasks and its own   *)
(* task to idle or new fibers, and runs the ready fibers again.            *)
(*                                                                         *)
(* One action is one critical section of the code (_mtxFibers, _mtxTasks   *)
(* or Fiber::_mtx) or one context switch, so that threads interleave       *)
(* wherever the code lets them.  The code a fiber runs is any sequence of  *)
(* the calls it may make: wait, wake, yield, return.                       *)
(***************************************************************************)
EXTENDS Naturals, Sequences, FiniteSets

CONSTANTS Workers,    \* worker threads (Service::_workers)
          Fibers,     \* fiber objects that may be allocated
          Tasks,      \* the handlers and spawned functions of one behaviour
          MaxFibers,  \* Service::_maxFibers (option fiber.maxAmount)
          None        \* a null FiberPtr / an empty boost::function

ASSUME ConstantsAssumption ==
    /\ IsFiniteSet(Workers) /\ Workers # {}
    /\ IsFiniteSet(Fibers)
    /\ MaxFibers \in Nat
    /\ None \notin Fibers /\ None \notin Tasks

VARIABLES
    totalAmount,   \* FiberPool::_totalAmount
    fibersIdle,    \* FiberPool::_fibersIdle
    fibersReady,   \* FiberPool::_fibersReady
    tasks,         \* FiberPool::_tasks
    io,            \* handlers posted to the io_service, in order
    created,       \* fibers constructed and initialized
    isLocked,      \* Fiber::_isLocked
    code,          \* Fiber::_code
    waiting,       \* fibers on the waiter list of an Event or a Mutex
    pc,            \* where each worker thread is
    fiber,         \* the FiberPtr the worker has in hand or runs
    task,          \* argument of Worker::exec, None once handed over
    fromQueue,     \* tasksFromQueue of Worker::exec
    notExecuted,   \* fibersNotActivated of Worker::exec
    notActivated,  \* fibersNotActivated of Worker::processReadyFibers
    last,          \* the processReadyFibers loop that ends Worker::exec
    back,          \* where the root fiber continues after Fiber::leave
    arrived, done  \* history: tasks handed to the scheduler, tasks returned

poolVars  == <<totalAmount, fibersIdle, fibersReady, tasks, io>>
fiberVars == <<created, isLocked, code, waiting>>
workVars  == <<pc, fiber, task, fromQueue, notExecuted, notActivated, last, back>>
histVars  == <<arrived, done>>
vars      == <<poolVars, fiberVars, workVars, histVars>>

PC == {"poll", "ready", "activate", "requeue", "takeTask", "takeFiber",
       "create", "execute", "noFiber", "flush", "user", "switch", "leave"}

(* The worker is between Fiber::enter and Fiber::leave of fiber[w]. *)
OnFiber == {"user", "switch", "leave"}

Goto(w, l) == pc' = [pc EXCEPT ![w] = l]

Init ==
    /\ totalAmount = 0
    /\ fibersIdle = {}
    /\ fibersReady = <<>>
    /\ tasks = <<>>
    /\ io = <<>>
    /\ created = {}
    /\ isLocked = [f \in Fibers |-> FALSE]
    /\ code = [f \in Fibers |-> None]
    /\ waiting = {}
    /\ pc = [w \in Workers |-> "poll"]
    /\ fiber = [w \in Workers |-> None]
    /\ task = [w \in Workers |-> None]
    /\ fromQueue = [w \in Workers |-> None]
    /\ notExecuted = [w \in Workers |-> {}]
    /\ notActivated = [w \in Workers |-> <<>>]
    /\ last = [w \in Workers |-> FALSE]
    /\ back = [w \in Workers |-> "ready"]
    /\ arrived = {}
    /\ done = {}

-----------------------------------------------------------------------------
(* Handing tasks to the scheduler. *)

(* Service::spawn, from a fiber or from a thread of the application: join  *)
(* the queue if there is one, otherwise post to the io_service (after the  *)
(* unlock, but a delayed post is a Complete of the same task).             *)
Spawn(t) ==
    /\ t \notin arrived
    /\ arrived' = arrived \cup {t}
    /\ \/ /\ tasks # <<>>
          /\ tasks' = Append(tasks, t)
          /\ UNCHANGED io
       \/ /\ tasks = <<>>
          /\ io' = Append(io, t)
          /\ UNCHANGED tasks
    /\ UNCHANGED <<totalAmount, fibersIdle, fibersReady, done>>
    /\ UNCHANGED <<fiberVars, workVars>>

(* An asynchronous operation ends and the io_service queues its handler,   *)
(* an AsioBridge that calls async::exec.                                   *)
Complete(t) ==
    /\ t \notin arrived
    /\ arrived' = arrived \cup {t}
    /\ io' = Append(io, t)
    /\ UNCHANGED <<totalAmount, fibersIdle, fibersReady, tasks, done>>
    /\ UNCHANGED <<fiberVars, workVars>>

(* io_service::run gives the first handler to a worker; the bridge calls   *)
(* Worker::exec on the root fiber, which starts with processReadyFibers.   *)
RunHandler(w) ==
    /\ pc[w] = "poll"
    /\ io # <<>>
    /\ task' = [task EXCEPT ![w] = Head(io)]
    /\ io' = Tail(io)
    /\ last' = [last EXCEPT ![w] = FALSE]
    /\ Goto(w, "ready")
    /\ UNCHANGED <<totalAmount, fibersIdle, fibersReady, tasks>>
    /\ UNCHANGED <<fiber, fromQueue, notExecuted, notActivated, back>>
    /\ UNCHANGED <<fiberVars, histVars>>

(* Worker::exec called when a fiber is current already: the task is a call *)
(* on that fiber's stack.                                                  *)
ExecInline(w, t) ==
    /\ pc[w] = "user"
    /\ t \notin arrived
    /\ arrived' = arrived \cup {t}
    /\ done' = done \cup {t}
    /\ UNCHANGED <<poolVars, fiberVars, workVars>>

-----------------------------------------------------------------------------
(* Worker::processReadyFibers. *)

PopReady(w) ==
    /\ pc[w] = "ready"
    /\ \/ /\ fibersReady # <<>>
          /\ fiber' = [fiber EXCEPT ![w] = Head(fibersReady)]
          /\ fibersReady' = Tail(fibersReady)
          /\ Goto(w, "activate")
       \/ /\ fibersReady = <<>>
          /\ Goto(w, "requeue")
          /\ UNCHANGED <<fiber, fibersReady>>
    /\ UNCHANGED <<totalAmount, fibersIdle, tasks, io>>
    /\ UNCHANGED <<task, fromQueue, notExecuted, notActivated, last, back>>
    /\ UNCHANGED <<fiberVars, histVars>>

(* Fiber::enter would succeed. *)
EnterUnchecked(f) == TRUE
CanEnter(f) == ~isLocked[f]

(* Fiber::activate of a ready fiber: switch to it, or keep it aside while  *)
(* the thread it last ran on has not left it yet.                          *)
Activate(w) ==
    /\ pc[w] = "activate"
    /\ \/ /\ CanEnter(fiber[w])
          /\ isLocked' = [isLocked EXCEPT ![fiber[w]] = TRUE]
          /\ back' = [back EXCEPT ![w] = "ready"]
          /\ Goto(w, "user")
          /\ UNCHANGED <<fiber, notActivated>>
       \/ /\ ~CanEnter(fiber[w])
          /\ notActivated' = [notActivated EXCEPT ![w] = Append(@, fiber[w])]
          /\ fiber' = [fiber EXCEPT ![w] = None]
          /\ Goto(w, "ready")
          /\ UNCHANGED <<isLocked, back>>
    /\ UNCHANGED <<created, code, waiting>>
    /\ UNCHANGED <<task, fromQueue, notExecuted, last>>
    /\ UNCHANGED <<poolVars, histVars>>

(* The end of processReadyFibers: put the fibers kept aside back.  The     *)
(* first call in Worker::exec ignores the result, the last one is repeated *)
(* until nothing was kept aside.                                           *)
RequeueForgotten(w) == fibersReady
Requeued(w) == fibersReady \o notActivated[w]

Retry(w) == notActivated[w] # <<>>

Requeue(w) ==
    /\ pc[w] = "requeue"
    /\ fibersReady' = Requeued(w)
    /\ notActivated' = [notActivated EXCEPT ![w] = <<>>]
    /\ \/ ~last[w] /\ Goto(w, "takeTask")
       \/ last[w] /\ Retry(w) /\ Goto(w, "ready")
       \/ last[w] /\ ~Retry(w) /\ Goto(w, "poll")
    /\ UNCHANGED <<totalAmount, fibersIdle, tasks, io>>
    /\ UNCHANGED <<fiber, task, fromQueue, notExecuted, last, back>>
    /\ UNCHANGED <<fiberVars, histVars>>

-----------------------------------------------------------------------------
(* Worker::exec, the loop over the queued tasks and the incoming one. *)

TakeTask(w) ==
    /\ pc[w] = "takeTask"
    /\ \/ /\ tasks # <<>>
          /\ fromQueue' = [fromQueue EXCEPT ![w] = Head(tasks)]
          /\ tasks' = Tail(tasks)
       \/ /\ tasks = <<>>
          /\ fromQueue' = [fromQueue EXCEPT ![w] = None]
          /\ UNCHANGED tasks
    /\ Goto(w, "takeFiber")
    /\ UNCHANGED <<totalAmount, fibersIdle, fibersReady, io>>
    /\ UNCHANGED <<fiber, task, notExecuted, notActivated, last, back>>
    /\ UNCHANGED <<fiberVars, histVars>>

(* The count still allows one more fiber. *)
MayCreateInclusive == totalAmount <= MaxFibers
MayCreate == totalAmount < MaxFibers

(* An idle fiber if there is one; otherwise the decision to create one is  *)
(* taken on the value of _totalAmount read here, under _mtxFibers.         *)
TakeFiber(w) ==
    /\ pc[w] = "takeFiber"
    /\ \/ \E f \in fibersIdle :
            /\ fiber' = [fiber EXCEPT ![w] = f]
            /\ fibersIdle' = fibersIdle \ {f}
            /\ Goto(w, "execute")
       \/ /\ fibersIdle = {}
          /\ Goto(w, IF MayCreate THEN "create" ELSE "noFiber")
          /\ UNCHANGED <<fiber, fibersIdle>>
    /\ UNCHANGED <<totalAmount, fibersReady, tasks, io>>
    /\ UNCHANGED <<task, fromQueue, notExecuted, notActivated, last, back>>
    /\ UNCHANGED <<fiberVars, histVars>>

(* new Fiber, Fiber::initialize and, under _mtxFibers again, the count;    *)
(* initialization may fail.                                                *)
CreateFiber(w) ==
    /\ pc[w] = "create"
    /\ \/ \E f \in Fibers \ created :
            /\ created' = created \cup {f}
            /\ totalAmount' = totalAmount + 1
            /\ fiber' = [fiber EXCEPT ![w] = f]
            /\ Goto(w, "execute")
       \/ /\ Goto(w, "noFiber")
          /\ UNCHANGED <<created, totalAmount, fiber>>
    /\ UNCHANGED <<fibersIdle, fibersReady, tasks, io>>
    /\ UNCHANGED <<isLocked, code, waiting>>
    /\ UNCHANGED <<task, fromQueue, notExecuted, notActivated, last, back>>
    /\ UNCHANGED histVars

(* Fiber::execute with the queued task or else the incoming one.  If the   *)
(* fiber is still locked the loop starts again: the incoming task is tried *)
(* again, a task taken from the queue is not kept.                         *)
Execute(w) ==
    /\ pc[w] = "execute"
    /\ \/ /\ CanEnter(fiber[w])
          /\ isLocked' = [isLocked EXCEPT ![fiber[w]] = TRUE]
          /\ Goto(w, "user")
          /\ \/ /\ fromQueue[w] # None
                /\ code' = [code EXCEPT ![fiber[w]] = fromQueue[w]]
                /\ back' = [back EXCEPT ![w] = "takeTask"]
                /\ UNCHANGED task
             \/ /\ fromQueue[w] = None
                /\ code' = [code EXCEPT ![fiber[w]] = task[w]]
                /\ back' = [back EXCEPT ![w] = "flush"]
                /\ task' = [task EXCEPT ![w] = None]
          /\ UNCHANGED <<fiber, notExecuted>>
       \/ /\ ~CanEnter(fiber[w])
          /\ notExecuted' = [notExecuted EXCEPT ![w] = @ \cup {fiber[w]}]
          /\ fiber' = [fiber EXCEPT ![w] = None]
          /\ Goto(w, "takeTask")
          /\ UNCHANGED <<isLocked, code, back, task>>
    /\ fromQueue' = [fromQueue EXCEPT ![w] = None]
    /\ UNCHANGED <<created, waiting, notActivated, last>>
    /\ UNCHANGED <<poolVars, histVars>>

(* No fiber: the queued task goes back to the front of the queue and the   *)
(* incoming one to its end.                                                *)
QueueAgain(w) ==
    (IF fromQueue[w] = None THEN tasks ELSE <<fromQueue[w]>> \o tasks) \o <<task[w]>>

NoFiber(w) ==
    /\ pc[w] = "noFiber"
    /\ tasks' = QueueAgain(w)
    /\ fromQueue' = [fromQueue EXCEPT ![w] = None]
    /\ task' = [task EXCEPT ![w] = None]
    /\ Goto(w, "flush")
    /\ UNCHANGED <<totalAmount, fibersIdle, fibersReady, io>>
    /\ UNCHANGED <<fiber, notExecuted, notActivated, last, back>>
    /\ UNCHANGED <<fiberVars, histVars>>

(* After the loop: the fibers that could not be entered become idle again, *)
(* then the ready fibers once more.                                        *)
Flush(w) ==
    /\ pc[w] = "flush"
    /\ fibersIdle' = fibersIdle \cup notExecuted[w]
    /\ notExecuted' = [notExecuted EXCEPT ![w] = {}]
    /\ last' = [last EXCEPT ![w] = TRUE]
    /\ Goto(w, "ready")
    /\ UNCHANGED <<totalAmount, fibersReady, tasks, io>>
    /\ UNCHANGED <<fiber, task, fromQueue, notActivated, back>>
    /\ UNCHANGED <<fiberVars, histVars>>

-----------------------------------------------------------------------------
(* What the code of the fiber that worker w runs may do. *)

(* Event::wait, Mutex::lock, waitAny: on a waiter list, then fiberYield. *)
FiberWait(w) ==
    /\ pc[w] = "user"
    /\ waiting' = waiting \cup {fiber[w]}
    /\ Goto(w, "switch")
    /\ UNCHANGED <<created, isLocked, code>>
    /\ UNCHANGED <<fiber, task, fromQueue, notExecuted, notActivated, last, back>>
    /\ UNCHANGED <<poolVars, histVars>>

(* Event::set, Mutex::unlock: Worker::fiberReady of a fiber that is on a   *)
(* waiter list; that fiber may not have left its own worker yet.           *)
FiberWake(w, f) ==
    /\ pc[w] = "user"
    /\ f \in waiting
    /\ waiting' = waiting \ {f}
    /\ fibersReady' = Append(fibersReady, f)
    /\ UNCHANGED <<totalAmount, fibersIdle, tasks, io>>
    /\ UNCHANGED <<created, isLocked, code>>
    /\ UNCHANGED <<workVars, histVars>>

(* Worker::yield: fiberReady of the current fiber, then fiberYield. *)
FiberYield(w) ==
    /\ pc[w] = "user"
    /\ fibersReady' = Append(fibersReady, fiber[w])
    /\ Goto(w, "switch")
    /\ UNCHANGED <<totalAmount, fibersIdle, tasks, io>>
    /\ UNCHANGED <<fiber, task, fromQueue, notExecuted, notActivated, last, back>>
    /\ UNCHANGED <<fiberVars, histVars>>

(* The code the fiber is left with: boost::function<void()>().swap(_code). *)
CodeDropped(f) == [code EXCEPT ![f] = None]

(* The task returns or throws: Fiber::fiberProc drops the code and         *)
(* Worker::fiberExecuted makes the fiber idle before it is switched out.   *)
FiberExecuted(w) ==
    /\ pc[w] = "user"
    /\ done' = done \cup {code[fiber[w]]}
    /\ code' = CodeDropped(fiber[w])
    /\ fibersIdle' = fibersIdle \cup {fiber[w]}
    /\ Goto(w, "switch")
    /\ UNCHANGED <<totalAmount, fibersReady, tasks, io>>
    /\ UNCHANGED <<created, isLocked, waiting>>
    /\ UNCHANGED <<fiber, task, fromQueue, notExecuted, notActivated, last, back>>
    /\ UNCHANGED arrived

(* FiberRoot::activate: the context of the fiber is saved and the root     *)
(* fiber of the thread continues inside Fiber::activate.                   *)
SwitchToRoot(w) ==
    /\ pc[w] = "switch"
    /\ Goto(w, "leave")
    /\ UNCHANGED <<fiber, task, fromQueue, notExecuted, notActivated, last, back>>
    /\ UNCHANGED <<poolVars, fiberVars, histVars>>

(* Fiber::leave, on the root fiber. *)
Leave(w) ==
    /\ pc[w] = "leave"
    /\ isLocked' = [isLocked EXCEPT ![fiber[w]] = FALSE]
    /\ fiber' = [fiber EXCEPT ![w] = None]
    /\ Goto(w, back[w])
    /\ UNCHANGED <<created, code, waiting>>
    /\ UNCHANGED <<task, fromQueue, notExecuted, notActivated, last, back>>
    /\ UNCHANGED <<poolVars, histVars>>

-----------------------------------------------------------------------------
(* The loops of threadProc and exec on the root fiber. *)
RootStep(w) ==
    \/ RunHandler(w)
    \/ PopReady(w) \/ Activate(w) \/ Requeue(w)
    \/ TakeTask(w) \/ TakeFiber(w) \/ CreateFiber(w) \/ Execute(w)
    \/ NoFiber(w) \/ Flush(w)
    \/ Leave(w)

(* The code of the fiber gives the worker back. *)
UserStep(w) ==
    \/ FiberWait(w) \/ FiberYield(w) \/ FiberExecuted(w)
    \/ SwitchToRoot(w)

Environment ==
    \E t \in Tasks : Spawn(t) \/ Complete(t) \/ \E w \in Workers : ExecInline(w, t)

Next ==
    \/ Environment
    \/ \E w \in Workers :
        \/ RootStep(w)
        \/ UserStep(w)
        \/ \E f \in Fibers : FiberWake(w, f)

Spec == Init /\ [][Next]_vars

(* A worker thread is never stopped by the scheduler and a task does not   *)
(* keep its worker forever: the operating system runs every thread.        *)
Fairness == \A w \in Workers : WF_vars(RootStep(w)) /\ WF_vars(UserStep(w))

FairSpec == Spec /\ Fairness

-----------------------------------------------------------------------------
(* Properties. *)

(* Every variable of the pool, the fibers and the workers has the type of  *)
(* its declaration in src/async/impl.                                      *)
TypeOK ==
    /\ totalAmount \in Nat
    /\ fibersIdle \subseteq Fibers
    /\ fibersReady \in Seq(Fibers)
    /\ tasks \in Seq(Tasks)
    /\ io \in Seq(Tasks)
    /\ created \subseteq Fibers
    /\ isLocked \in [Fibers -> BOOLEAN]
    /\ code \in [Fibers -> Tasks \cup {None}]
    /\ waiting \subseteq Fibers
    /\ pc \in [Workers -> PC]
    /\ fiber \in [Workers -> Fibers \cup {None}]
    /\ task \in [Workers -> Tasks \cup {None}]
    /\ fromQueue \in [Workers -> Tasks \cup {None}]
    /\ notExecuted \in [Workers -> SUBSET Fibers]
    /\ notActivated \in [Workers -> Seq(Fibers)]
    /\ last \in [Workers -> BOOLEAN]
    /\ back \in [Workers -> {"ready", "takeTask", "flush"}]
    /\ arrived \subseteq Tasks
    /\ done \subseteq Tasks

(* Two workers are never on the stack of the same fiber: Fiber::enter and  *)
(* Fiber::leave keep a fiber that was woken or became idle before it was   *)
(* switched out from being resumed by another thread.                      *)
OneWorkerPerFiber ==
    \A v, w \in Workers :
        /\ v # w
        /\ pc[v] \in OnFiber
        /\ pc[w] \in OnFiber
        => fiber[v] # fiber[w]

(* Where the program keeps a fiber: on the idle side, on the ready side,   *)
(* on a waiter list, or running.                                           *)
IdleAt(f) ==
    {<<"idle">> : x \in {y \in fibersIdle : y = f}}
    \cup {<<"notExecuted", w>> : w \in {v \in Workers : f \in notExecuted[v]}}
    \cup {<<"execute", w>> : w \in {v \in Workers : pc[v] = "execute" /\ fiber[v] = f}}
KeptAsideAt(f) ==
    UNION {{<<"notActivated", w, i>> :
                i \in {j \in DOMAIN notActivated[w] : notActivated[w][j] = f}}
                : w \in Workers}
ReadyAt(f) ==
    {<<"ready", i>> : i \in {j \in DOMAIN fibersReady : fibersReady[j] = f}}
    \cup KeptAsideAt(f)
    \cup {<<"activate", w>> : w \in {v \in Workers : pc[v] = "activate" /\ fiber[v] = f}}
WaitingAt(f) == {<<"waiting">> : x \in {y \in waiting : y = f}}
RunningAt(f) ==
    {<<"user", w>> : w \in {v \in Workers : pc[v] = "user" /\ fiber[v] = f}}

(* No fiber is lost and none is in two places: every fiber that was        *)
(* created is idle, ready, waiting or running, once, and it is on the idle *)
(* side exactly when it has no code.  The assertions of fiberExecuted and  *)
(* fiberReady (an idle fiber is not ready, a ready one is not idle) are    *)
(* instances.                                                              *)
FiberInOnePlace ==
    /\ \A f \in created :
        /\ Cardinality(IdleAt(f) \cup ReadyAt(f) \cup WaitingAt(f) \cup RunningAt(f)) = 1
        /\ IdleAt(f) # {} <=> code[f] = None
    /\ \A f \in Fibers \ created :
        IdleAt(f) \cup ReadyAt(f) \cup WaitingAt(f) \cup RunningAt(f) = {}

(* Where the program keeps a task that did not start, runs, or returned. *)
TaskAt(t) ==
    {<<"io", i>> : i \in {j \in DOMAIN io : io[j] = t}}
    \cup {<<"tasks", i>> : i \in {j \in DOMAIN tasks : tasks[j] = t}}
    \cup {<<"task", w>> : w \in {v \in Workers : task[v] = t}}
    \cup {<<"fromQueue", w>> : w \in {v \in Workers : fromQueue[v] = t}}
    \cup {<<"code", f>> : f \in {g \in Fibers : code[g] = t}}
    \cup {<<"done">> : x \in done \cap {t}}

(* A task is never in two places, so no interleaving of the workers runs   *)
(* one twice; and what was not handed to the scheduler is nowhere in it.   *)
TaskInOnePlace ==
    \A t \in Tasks :
        /\ Cardinality(TaskAt(t)) <= 1
        /\ t \notin arrived => TaskAt(t) = {}

(* Option fiber.maxAmount, the "maximum amount of fibers" of manager.cpp,  *)
(* is exceeded, but by less than the number of workers: each worker        *)
(* decides on a count it read before it counts its own fiber.              *)
FiberOvershootBounded ==
    totalAmount <= MaxFibers + Cardinality(Workers) - 1

(* Service::spawn adds to a nonempty queue and starts nobody, because "the *)
(* worker will take all tasks out": while tasks are queued and an idle     *)
(* fiber could run one, some worker is in Worker::exec or will be.         *)
QueuedTaskNotStranded ==
    tasks # <<>> /\ fibersIdle # {} =>
        io # <<>> \/ \E w \in Workers : pc[w] # "poll"

(* The same comment, for one task: a task handed to the scheduler is in    *)
(* one of its queues, on a fiber or done.                                  *)
NoTaskDropped == \A t \in arrived : TaskAt(t) # {}

(* The condition the liveness of the scheduler rests on.  Worker::exec     *)
(* ends with while(!processReadyFibers()), which goes on as long as fibers *)
(* become ready: fibers that suspend and wake each other for ever keep     *)
(* their worker there, away from the io_service and from the fibers the    *)
(* call has set aside.                                                     *)
SuspendFinitelyOften == <>[][~ \E w \in Workers : FiberWait(w) \/ FiberYield(w)]_vars

(* A fiber that was woken runs again: the worker it is woken on comes back *)
(* to processReadyFibers, and a worker that could not enter it yet retries.*)
WokenFiberRuns ==
    SuspendFinitelyOften => \A f \in Fibers : ReadyAt(f) # {} ~> RunningAt(f) # {}

(* A posted handler is taken out of the io_service by some worker. *)
HandlerTaken ==
    SuspendFinitelyOften =>
        \A t \in Tasks : (\E i \in DOMAIN io : io[i] = t) ~> (\A i \in DOMAIN io : io[i] # t)

(* What wakes a fiber or posts a handler is served in the end. *)
SchedulerServes == WokenFiberRuns /\ HandlerTaken

-----------------------------------------------------------------------------
(* The scheduler implements TaskRuntime. *)

FiberOf(t) == CHOOSE f \in Fibers : code[f] = t

StatusOf(t) ==
    IF t \notin arrived THEN "new"
    ELSE IF t \in done THEN "done"
    ELSE IF \E f \in Fibers : code[f] = t
         THEN IF WaitingAt(FiberOf(t)) # {} THEN "suspended"
              ELSE IF ReadyAt(FiberOf(t)) # {} THEN "woken" ELSE "running"
    ELSE IF TaskAt(t) # {} THEN "pending" ELSE "dropped"

Runtime == INSTANCE TaskRuntime
    WITH MaxLive <- MaxFibers + Cardinality(Workers) - 1,
         status <- [t \in Tasks |-> StatusOf(t)],
         on <- [w \in Workers |-> IF pc[w] \in OnFiber THEN code[fiber[w]] ELSE None]

(* Every step of the scheduler is a step TaskRuntime allows: started at    *)
(* most once, one worker at a time, resumed only when woken and off the    *)
(* worker it was suspended on, a bounded number of tasks in progress.      *)
ImplementsRuntime == Runtime!RuntimeSpec
=============================================================================
