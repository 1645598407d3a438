# A TLA+ verification of adel

adel is a C++ server platform: a fiber runtime on top of boost::asio (`async`), network
channels (`net`), a PostgreSQL client (`pgc`), an HTTP server and client (`http`), a variant type
(`utils`), and two services built from them, a site search service (`scom`) and a crawler
(`spider`). Everything above `async` is straight-line code on fibers: it locks, waits for futures
and spawns, while several threads run the fibers. What makes the program correct is therefore
decided in a few small files with many interleavings, and, above them, in code that reads what
others wrote: packets cut anywhere, pages with any nesting, buffers that may be damaged, tables
that change between two queries. This directory models those files, checks the models with TLC on
small instances and proves the most important facts of the runtime with TLAPS for every value of
the constants.

Paths below are relative to the repository's `src/` unless they start with `include/`.

## 1. Inventory

| Component | State | Operations | What is hard |
|---|---|---|---|
| **async: fiber scheduler** `async/impl/worker.cpp`, `fiber.cpp`, `fiberPool.hpp` | idle set, ready queue, overflow queue of tasks, fiber count; per fiber a lock bit and its code; per worker the locals of `exec` | `Worker::exec`, `processReadyFibers`, `yield`, `fiberReady`, `fiberYield`, `fiberExecuted`; `Fiber::enter`, `leave`; `Service::spawn` | fibers become ready or idle while a thread is still on their stack; lists in locals between critical sections; a count read in one critical section and used in another |
| **async: Mutex** `async/impl/mutex.cpp` | queue of owners | `lock`, `tryLock`, `unlock` | the gap between joining the queue and yielding |
| **async: Event, EventWaiter, Future** `async/impl/event.cpp`, `include/async/eventWaiter.hpp`, `future.hpp`, `futureWaiter.hpp` | flag, two waiter lists; per `waitAny` a notifier with its own mutex; two arrays reordered in step | `set`, `reset`, `wait`, `waitAny`, the waiters' `++` and data | a signal that arrives during the rollback of a `waitAny`; lock order |
| **async: Service, Manager** `async/impl/service.cpp`, `async/manager.cpp` | workers, thread count, `io_service::work`, timers | `start`, `balance`, `stop`, `timeout`, `spawn`, signals | threads run before the service has work; stop must drain |
| **net: Channel** `net/impl/channel.cpp` | two send queues, `_sendInProcess`, queue of reads, socket | `send` (two kinds), `listen`, `receive`, `close` | who drains the queue; one writer at a time; failed writes |
| **net: Acceptor, Connector** `net/impl/acceptor.cpp`, `connector.cpp` | `_inProcess`, SSL context, acceptor; the addresses left | `listen`, `unlisten`, `accept_f`, `connect` | error paths that leave flags set; `unlisten` during any step |
| **pgc: connection pool** `pgc/impl/db.cpp` | starting, ready and working connections, waiters, retry timer, maximum | `allocConnection`, `balanceConnections`, `makeConnection`, `unwork`, `reset` | decisions that are stale when spawned calls run; every waiter needs a later balance |
| **pgc: connection** `pgc/impl/connectionHolder.cpp` | request queue, prepared statement cache, transaction status | `query`, `prepare`, `beginWork`, `endWork` | retries with save points, early returns, a cache that must agree with the server |
| **pgc: values** `pgc/impl/bindData.cpp`, `result.cpp`, `include/utils/julian.hpp` | the caller's Variant, used again | bind, fetch | widths, calendars, rows half fetched |
| **http** `http/impl`, `http/server`, `http/client`, `http/headerValue*` | parser position, body extractors, filters, keep-alive; a file's stat | read and write messages, serve, typed headers, files | input in arbitrary pieces; framing chosen in several places; a file that changes while it is served |
| **scom** `scom/impl` | worker count; pages, hosts, rules and reports in the database; a cache of rules | start, stop, workers, loaders, rules, merger, interface calls | loaders start before their transaction commits; a cache changed before the rows; shutdown |
| **spider** `spider/` | worker count, stop flag; pages and sites in the database | start, stop, `processLoop`, `processOne`, text parser, phrases | a counter under two different mutexes; pages taken a second time; shutdown |
| **html** `htmlcxx/`, `utils/htmlEntities*` | tree under construction | tokens to tree, attributes, uris, entities, charset | tags closed in any order; links written in many ways |
| **utils: Variant** `utils/variant*` | type, value or owned block; loader's stack of frames | construct, assign, convert, compare, serialize, load | who owns memory; three walks that must agree to the byte; aliasing |
| **entry** `entry/main.cpp` | none | option parsing, wiring | - |
| third party: utf8proc, sqlitepp | | | vendored |

How they interact. The threads of `Service` run `io_service::run`; a completed asynchronous
operation arrives as a handler that calls `Worker::exec`, which runs it on a fiber. Code on
fibers suspends in `Mutex::lock`, `Event::wait` and `waitAny`, and is made ready by
`Worker::fiberReady`. `Channel`, `Db` and the services protect their state with a
`boost::mutex` or an `async::Mutex` held for short critical sections and continue in fibers
they `spawn`. `http` reads and writes through `Channel`. `scom` and `spider` take connections
from `Db`, load pages through `http` and read them with `html`; rows go to and from the database
as Variants.

Properties that make each part correct: one thread per fiber stack, no lost or doubled fiber or
task, woken fibers run (scheduler); exclusion, order, no lost wake-up (Mutex); signals conserved
(Event); calls return, threads accounted for, stop drains (Service); one writer, order of
packets, futures resolved (Channel); every call answered, loops end after `unlisten` (Acceptor);
no shared or leaked connection, waiters answered, maximum restored (Db); answers in the order of
requests, a cache of statements that is true of the server (connection); what comes back equals
what was sent (values, serialization, texts); what is read does not depend on how input is cut,
and neither side waits for the other for ever (http); a host is not asked too often, no page is
pending without a loader, stop returns when, and only when, nobody is left (scom, spider); all the
text and the links of a page, and nothing else (html).

`PROJECT.json` lists the hazards line by line, with the properties that cover each.

## 2. Modules

| Module | Models | One action is |
|---|---|---|
| `TaskRuntime` | what `async` promises its users; no code of its own | one visible change of a task |
| `FiberScheduler` (`MCFiberScheduler` for TLC), `FiberScheduler_proofs` | Worker, Fiber, FiberPool, `Service::spawn` | one critical section or context switch |
| `Mutex`, `Mutex_proofs` | `async::Mutex` | one critical section; the yield after it; the resume |
| `Event`, `Future` (`MCEvent`), `Event_proofs` | Event, MultiNotifier, EventWaiter; Future, FutureWaiter | the code between two acquisitions of a mutex; one call of the waiter |
| `ServiceLifecycle`, `ServiceLifecycle_proofs` | Service, Worker threads, Manager's signal wait | one statement of `balance` that others can see; one step of a thread |
| `Channel`, `Channel_proofs` | `net::impl::Channel` | one critical section, or the end of a socket operation |
| `Endpoints` | Acceptor, Connector and the handshake of both sides | the code between two waits |
| `HttpInput`, `HttpOutput`, `Http` (`MCNet`) | a message being read, a response being written, a connection of server and client | one packet received; one write or flush of the handler |
| `HttpValues` | typed header fields, `parseUrl` | one value written and read |
| `HandlerFs`, `Channel_proofs` | the file handler, a client that caches, a disk that changes | one system call of the handler |
| `PgcDb` | `pgc::impl::Db` | one critical section of `_mtx` |
| `ConnectionHolder`, `Pgc_proofs` (both) | `pgc::impl::ConnectionHolder` with its server | the code up to the next round trip |
| `PgcValues`, `PgcResult` | BindData and Result for one value; rows, columns and maps fetched into a used Variant | one bind and fetch; one call of fetch |
| `VariantTypes`, `Variant` | types; the object with its memory | one member function |
| `VariantConvert` | `less`, `equal`, the conversion matrix | one pair of values |
| `Serialization` | `calcSize`, `write`, `read`, the header | serialize, one damaged byte, deserialize |
| `VariantLoad` (`MCPgc` for all from `PgcDb` on) | the text grammar, its scope stack, includes | one token |
| `ScomService`, `ScomService_proofs` | `scom::impl::Service`, PageRuleApplyersContainer | one transaction, or the part of one up to a spawn |
| `PageRules`, `ScomService_proofs` | PageRuleApplyer and its rules | load pages, update, drop |
| `HtmlUri`, `HtmlPage` (`MCPage`) | Uri and links; the parser, the tree, entities, what scom and spider take from a page | one token of a page |
| `SpiderService`, `SpiderService_proofs`, `SpiderText` | `spider::Service`; TextParser, PhraseStreamer, Phrase | one critical section or transaction; one text |
| `ReportGenerator` | the merger's reading of the tables, scom's ReportGenerator | one portion of rows |
| `MCScom`, `MCAsync` | instances for TLC | |

`FiberScheduler` implements `TaskRuntime` (refinement mapping at its end). The modules above it
use what it shows: their fairness conditions are `WokenFiberRuns` and `HandlerTaken`, and a fiber
that was made ready is resumed once (`FiberInOnePlace`). Components meet only in `spawn`, wake,
resume and in calls whose results the caller's model takes as nondeterministic; they share no
data, which is why each is a module with variables of its own. The exceptions are composed:
`Http` runs the server's and the client's `HttpInput` and the server's `HttpOutput` over two streams cut anywhere,
`HtmlPage` uses `HtmlUri`, `PgcResult` uses `PgcValues`, `VariantLoad` and `Serialization` use
`VariantTypes`.

### async
**FiberScheduler.** The variables are the members of `FiberPool` (`totalAmount`, `fibersIdle`,
`fibersReady`, `tasks`), of `Fiber` (`isLocked`, `code`), and the locals of `exec` and
`processReadyFibers` per worker (`fiber`, `task`, `fromQueue`, `notExecuted`, `notActivated`); `pc`
is the worker's place in these two functions, `last` and `back` say in which loop it is. `arrived`
and `done` are history. A fiber's code is any sequence of wait, wake of another fiber, yield, nested
`exec` and return. `fiberExecuted` and `fiberReady` come before the context switch (`SwitchToRoot`)
and `Fiber::leave`, as in the code: that window is what `Fiber::enter` guards. `fiberReadyIfWait`
has no caller. `ucontext` and Windows fibers are one atomic switch.

**Mutex.** `owners` is `_owners`. Between `Lock` and `Resume` a fiber is first `queued` (`_mtx` is
free again, the fiber has not yielded) and then `asleep`; `wakes` counts `fiberReady` calls it has
not run for.

**Event, Future.** `evLock` and `pmnLock` are the two kinds of `boost::mutex`, held across steps where
the code holds them while it takes another one. `set` is `SetBegin`, one `Notify` per registered
notifier and `SetEnd`; `waitAny` is `WaitAny`, one `Register` per event, then the sleep or the rollback,
one `Cancel` per event, `WaitAnyReturn`. `Future` has the data of futures of one to three parts, stored
before the event is set, and the waiter whose two arrays `events` and `customs` are swapped in step.

**ServiceLifecycle.** `ctl` is the control thread's place in `start`, `balance` or `stop`. The
`io_service` is external: it stops when nothing is outstanding (no `work`, queued or running handler,
timer or signal wait), and `run` then returns; nobody calls `io_service::reset`.

### net and http
**Channel.** A `send_f` is named after the packet whose `send` spawned it, a `receiveLoop_f` or
`receive_f` after its call. The socket is external: an operation ends well, or with an error, and
always with an error after `close`.

**Endpoints.** `lpc`, `accepting` and `cpc` are the places of `listen_f`, `accept_f` and `connect_f`; every
early return of `listen_f` leaves `inProcess` as the code does. After an ssl context that could not be set up
`inProcess` is true and `acceptor` empty: `unlisten` (also that of the destructor) and a stale `accept_f` then
dereference it, and the program ends (`crashed`). Peers, the resolver, and what a
handshake negotiates are external.

**Http.** A byte is a record: a letter of the caption, CR, LF, or a body byte; what `spirit` parses is
recognised on these. `Receive` moves any prefix of what is on the wire to a message, so all ways to
cut it occur. `im` holds both messages being read with their extractor and zlib state, `out` the
one being written. zlib is external: it may hold back `ZHold` bytes until it is flushed.

**HandlerFs.** Each system call (`stat`, `open`, `read`, `close`) is a step between which the file may be
rewritten in place, replaced or removed; the client stores what it gets and asks again
conditionally.

### pgc and utils
**PgcDb.** `balances` and `makes` count calls of `balanceConnections` and `makeConnection` that were
spawned, or follow a critical section, and have not run. libpq is external: connecting succeeds or
fails, and a connection breaks only while a client uses it, since nobody calls libpq for a pooled one.

**ConnectionHolder.** `requests`, `prepareds` (with `now`) and the fibers that run `processRequest_f`; the
server is a record of its transaction, its named statements and those a savepoint would restore.
Names are drawn from three, so that they collide.

**Values, Variants.** A value is a record of type, null flag, numbers, elements. Integers are as wide as
a constant says and wrap. `Variant` keeps a heap of blocks, so that a double free, a leak or a shared
block is a state. `Serialization` works on bytes of eight bits; it is recursive and TLC's only.

### scom and spider
**ScomService.** `page`, `active`, `rules`, `stage` are the tables of one instance, `cache` is
PageRuleApplyersContainer. A transaction is one action where nothing outside sees its parts; where
loaders are spawned inside, or the cache is changed, before the COMMIT, the failing alternatives roll
the tables back and leave the rest. `clock` counts units of the access delay. The transaction of `workerMain` is two
actions: it begins, which is the CURRENT_TIMESTAMP (`began`) that it compares and stamps hosts with, and waits for
three locks; then it selects, stamps and spawns, at a later `clock`. `asked` is history: the BEGIN of the last transaction
that committed a load from a host. The merger that has made a report waits in `std::cin >> c` (`asking`), still counted.

**PageRules.** Levels stay in the pages between searches (`level` is `_levelInCurrentUpdate`), as in the code.
A pattern is compared with the labels of a host (domain rules) or, on its own host, with the directories of a
path (path rules); regular expressions are left out: they too select some set of pages.

**HtmlPage.** A body is a sequence of tokens (tags with an attribute or not, text, entity, bytes, comment).
`answer` is what the server sends, `outcome` what the crawler takes from it.

**SpiderService.** `counter` has two mutexes: an update under one may overlap an update under the
other, and then one is lost (`raced`), which is what the data race can produce. What still runs when stop has
reset `_db` and asks for a connection dereferences nothing, and the program ends (`crashed`).

**ReportGenerator.** `flips` are pages that enter or leave the result set between two portions.

## 3. Runs

Components that share no state are checked in one run: an MC module composes them with a variable
`part` that the initial state chooses and no step changes. A step of a part is a step of its module
and leaves the variables of the other modules at one fixed initial value, so the states of a run
are the sum, not the product, of the states of its parts, and what a property says of one part is
checked in all states of that part. Liveness of a part assumes the fairness of its own module; the
fairness conditions of the others hold trivially, since none of their actions can take a step.

| Run | Parts and instance | Distinct states |
|---|---|---|
| `FiberScheduler` | 2 workers, 4 fibers, 4 tasks, limit 2; symmetric | 100,401 |
| `FiberSchedulerLive` | 2 workers, 2 fibers, 3 tasks, limit 1; fair | 315,340 |
| `Event` | `event`: 3 fibers; an auto-reset event, a future, a broadcast event; 3 sets; symmetric. `future`: four futures of one to three parts, waiters over four and over one | 1,682,044 |
| `Net` | `send`: 4 packets, two gathered. `receive`: 3 calls of up to 2 reads. `acceptor`: 2 listens (with and without ssl), 5 `accept_f`, a peer. `connector`: 2 calls, 2 addresses. `http`: 9 dialogs, 3 bodies, granulas 3, one break. `files`: 2 inodes, 2 changes, with and without etags, times and compression. `values`: dates, lists of up to three codings, 324 urls | 245,487 |
| `Pgc` | `pool`: 3 clients, 3 connections, maximum 1. `connection`: 2 fibers, 3 statement names, 1 prepared, 4 requests. `values`: every type in lists of one to three. `result`: 3 rows of 3 columns. `serialization`: every type, nested, each byte damaged. `convert`: all pairs of values of every type. `objects`: 2 objects, 5 contents. `load`: a rich text with any one token left out, every kind of value, includes | 83,123 |
| `Scom` | `crawl`: 2 pages, 1 rule, 4 workers and a granula of 2, 1 helper, 1 failing statement, clock 2. `rules`: every link graph of 3 pages, 3 lists of reference rules, a domain rule and two path rules. `page`: some 5,800 answers | 613,871 |
| `Async` | `mutex`: 3 fibers for ever. `service`: 3 worker threads, targets 1 and 2, 2 jobs, 1 balance. `spider`: 2 pages, 2 loads, 1 failure. `text`: texts of up to 4 characters, phrases of up to 7 words. `report`: 3 tables of pages, portions of 2 rows, 1 change | 253,921 |
| `NoTaskDropped`, `QueuedTaskNotStranded`, `PumpRuns`, `WellFormedAccepted`, `ReferenceRuleExact` | as above, in part smaller | violated, see section 6 |

Why the bounds are enough.
- *Scheduler*: two workers give every race of two threads for one fiber; with four fibers and
  limit two, a worker sees an idle, a waiting and a running fiber at once and the limit can be
  overshot (a third fiber); four tasks fill the overflow queue behind running ones. The liveness
  run takes the smallest pool in which the queue, the overshoot and refused fibers still occur.
- *Mutex*: three fibers give a holder, a woken one and one that joins. The proofs cover every number.
- *Event*: the third fiber can set an event while one registers and one notifies. `MaxSets` bounds
  the effective `set` calls of a behaviour; three allow a kept, a delivered and a late signal. The wait
  list has a future and an auto-reset event, the combination in which a signal can be lost. Four
  futures make the waiter swap places in the middle of its arrays.
- *ServiceLifecycle*: growing from one to two and shrinking needs a third `Worker` object; one job
  can be queued while another is a timer.
- *Channel*: packets of both queues in flight, queued, and arriving at the moment `send_f` finds the
  queues empty. Three calls are enough for two receive loops and a third that arrives.
- *Endpoints*: two `listen`, one with ssl and one without, in either order; a second one after a failed, an undone or a working one; a stale `accept_f` beside
  new ones; an address that fails and one that works.
- *Http*: bodies longer and shorter than the granulas, chunk sizes of one and of several digits
  (`Radix` 2), a compressor that keeps one byte, two requests on a connection, and every way to cut.
- *HandlerFs*: files shorter and longer than one read; two changes give A-B-A by time and by inode.
- *PgcDb*: a maximum of one, exceeded by a late `makeConnection`; a third client can overtake a
  waiter. `MaxPending` two lets spawned calls overlap.
- *ConnectionHolder*: three names for three statements with room for one prepared statement: names
  collide, and a statement is evicted. Two fibers race in `processRequest_f`.
- *Values*: the dates are around leap days, centuries, the epoch and the Gregorian reform;
  numbers at each end of their (narrowed) type and around zero.
- *ScomService*: two pages of one host, the smallest case in which a host is asked again, and at most four
  workers, of which one is a loader: this instance never goes over its maximum, and how far several hosts and larger
  granulas can is the theorem's (`WorkersStayAccounted`). One failing statement anywhere is enough to lose
  or keep any single effect; a clock of two passes the delay and the timeout of a host, also while a transaction waits.
- *PageRules*: three pages are the smallest graph with two paths of different length to a page.
- *HtmlPage*: three tokens nest, cross and leave open a pair of tags; four tag tokens do so with text after.
- *SpiderService*: a page that is taken a second time beside a first load that is still at work.
- *ReportGenerator*: four pages in portions of two; phrases whose gaps reach the last word.

Deadlock checking is off where a behaviour may end (all tasks, packets or requests used up, service
stopped, a value read). Every property has a mutant in `PROJECT.json`: a changed definition (a
dropped guard, a forgotten call) under which TLC finds the property violated.

### Fairness
- A worker thread is scheduled, and code on a fiber does not keep its worker for ever
  (`FiberScheduler`): weak fairness of each thread. `WokenFiberRuns` and `HandlerTaken` need
  `SuspendFinitelyOften` too. `exec` ends with `while(!processReadyFibers())`, so fibers that wake
  each other for ever really do keep a worker from the `io_service`.
- `Mutex`: a woken fiber runs (shown above), and `ScopedLock` unlocks at the end of its scope.
- `ServiceLifecycle`: threads run, handlers return, deadlines pass.
- `Channel`, `Endpoints`: spawned fibers run, every operation of a socket ends, except the handshake with
  a silent peer, for which the code has no timeout: it may hang.
- `PgcDb`: spawned calls run, a poll ends, the timer fires, a client returns its connection (its
  destructor does). `AllocAnswered` and `LimitRestored` assume that clients do not call
  `allocConnection` for ever: the fast path gives ready connections to newcomers past the queue.
  Without it a waiter can starve. `AllocAnswered` assumes too that the server accepts connections from
  some time on.
- `ConnectionHolder`: a round trip ends. Strong fairness of `FreshName`: names are random
  (`genPrid`), so that one which is tried again and again is a free one in the end. A client ends its work.
- `ScomService`: as long as a fiber can go on (a worker, a loader, a helper that ends, stop itself) one does, and a
  transaction gets its locks in the end. The scheduler gives more, weak fairness of each, but stop needs no more.
  Clients, the clock and whoever the merger asks need not act.
- `SpiderService`: fibers run, a page older than an hour becomes old, as long as no update of the counter
  was lost.

## 4. What the properties say

- `OneWorkerPerFiber`, `FiberInOnePlace`: two threads are never on one stack; each created fiber is
  in exactly one queue, list or hand. `FiberOvershootBounded`: the configured maximum of fibers is exceeded by
  less than the number of workers. `ImplementsRuntime`: tasks start once, are resumed only when woken and
  off the worker they were suspended on. `SchedulerServes`: woken fibers run, posted handlers are taken.
- `MutualExclusion`, `FirstComeFirstServed`, `LockReturns`.
- `FuturesDelivered`, `SignalConserved`, `NoLockCycle`: an event that is set leaves nobody asleep; notifiers
  are registered while they should be and not longer; a waiter gives each future once, whole and
  under its own index; each signal of an auto-reset event ends one wait, is on its way to one, or is kept;
  the two kinds of mutex cause no deadlock as long as wait lists name common events in one order.
- `CallsLeaveOrder`, `CallsReturn`: the threads that live are those of `_workers`, stop has run every handler.
- `OneWriter`, `WireOrder`, `ChannelServes`: packets of one kind are written in the order of the
  calls; unless an operation failed, no packet or read is left behind. After a failed
  write packets may be left behind: the failing `send_f` leaves the queue to nobody, and a later
  `send` that finds it nonempty spawns nobody.
- `EndpointsServe`: after `unlisten` the loops end; a listening acceptor serves its backlog; calls are
  answered. An `unlisten` that comes while `listen_f` resolves is undone by it (`hurried`). All this unless the
  program crashes, and it does so on an empty `_acceptor` only after a `listen` for ssl that failed.
- `Delivered`, `FramingAnnounced`, `NoMutualWait`: a client that takes a response for complete has the
  bytes the handler wrote; the headers announce the framing that `bodyFlush` produces; server and client
  never wait for each other.
- `FilesServed`: a client is told to use its copy only if that is the file; a file that does not
  change is served whole; header values read as they were written. `excused` are two changes at one
  time of the file system's clock, and an `open` that failed after `stat`. A replaced file gets
  the current time; one moved in with an older time is not modelled.
- `PoolConsistent`, `PoolServes`: `pgc.maxConnections` may be exceeded for a while, because
  `makeConnection` does not look at it again, but the excess is closed, even that of a
  `makeConnection` that runs after `reset` has returned.
- `AnsweredInOrder`, `HolderConsistent`, `RequestsAnswered`: answers in order; the cache of statements is true of
  the server, and what returns to the pool is clean; every request is answered, unless a name
  collides outside a transaction (`Collides`).
- `ResultsExact`: what is bound reads back as the same value, and rows and columns stand where they
  were asked for, with nothing left of earlier rows. `Lossy` lists the values of which the code loses part.
- `SerializationFaithful`, `VariantSound`, `ValuesKept`: a value survives its binary form and a
  damaged byte is noticed where the crc covers it; objects own their blocks, hold what they were
  given (unless an assignment reads what it has destroyed, `astray`); values are ordered by a strict weak order and survive
  conversion to a type with room for them (`OrderLawful`, `ConvertsBack`: a `Float` has room for integers of two bytes, a
  `Double` for those of four and for a `Float`; the others are rounded); a text loads as what it means or is an error that
  leaves the caller's value alone (`LoadExact`).
- `HostPolite`: a transaction loads no two pages from one host, and none from a host sooner than
  `net.hostAccessDelay` after the BEGIN of the last committed transaction that did. This is less than the option says
  ("delay between requests to one host, seconds", `scom/impl/service.cpp:42`), and the code does not keep that: a host is
  stamped with the time of BEGIN, its loader is spawned when the locks have come, and it connects later still; what the
  earlier one waited is missing from the delay. And the loaders of a transaction that then failed are not counted: they
  run, the stamps are rolled back, and the next transaction may ask the same host at once.
- `PendingIsLoaded`, `CacheTruthful`, `WorkersAccounted`: a pending page has a loader, the cache of rules is true, workers keep
  to their limit and are gone when stop returns. Excepted, by history variables that are set only where the code takes the
  failing path, are `orphans` (pending pages whose loader could not reach the database) and `tainted` (what is in the
  cache was left when rules could not be read, the COMMIT of an update failed, or start failed; stop ends it, and so does a
  failure that drops the entry).
- `StopReturns`: stop returns, unless the merger makes a report: it then waits for somebody to type, is counted in
  `_numWorkers`, and stop waits for it.
- `UnlimitedRulesExact`: rules select exactly the pages in their range, if no rule has an amount;
  `LoadsExact`: no rule selects more pages than its amount (`AmountKept`), and all of a page's shown text and links are
  taken, decoded once, in order (`PageExact`). `TextRead` excepts pages whose meta is closed by nothing.
- `SpiderAccounts`, `SpiderProgress`: counter, site amounts and tables agree; a pending page is settled
  and stop returns. `raced` is the lost update, `late` a `processLoop` past its test of `_stop` (which may crash), `twice` a page
  given out again while its first load is at work.
- `TextsCounted`: words and phrases are those of the definitions, and the report counts the phrases
  pages have in common, unless the table changed between two portions (`flips`).

`NoTaskDropped`, `QueuedTaskNotStranded`, `PumpRuns`, `WellFormedAccepted` and `ReferenceRuleExact` are what comments of the
code say; they are violated.

## 5. Proofs

All theorems hold for every value of the constants that satisfies the named `ASSUME` of the
module (finite sets of workers, fibers and pages, natural limits, `None` outside the sets, wait lists
that name no event twice). A run evaluates each assumption on its instance. The shape is always the
same: an inductive invariant, checked by TLC before it was proved, with the property among its parts
or following from it; one step per action of `Next`.

- **FiberScheduler_proofs**: `TypeCorrect`, `NoSharedStack` (`OneWorkerPerFiber`), `NoFiberLost`
  (`FiberInOnePlace`), `OvershootBound` (`FiberOvershootBounded`). `OneWorkerPerFiber` is not
  inductive. The strengthening is `IInv`: `Homes` says that each fiber has one home among the idle
  set, the ready queue, the waiter list, the lists in the workers' locals and the workers' hands,
  with the condition on its code; `StackLocked` that a fiber some worker is on is locked, and by
  one worker only; `FiberKnown` and `TaskKept` that what a worker has in hand at a given place is
  not null. `HomesSame` and `HomesMove` reduce each action to "nothing moved" or "one fiber moved
  from one home to another". The bound rests on `CountInv`: the count plus the workers that
  have decided to create a fiber never exceeds the limit plus the workers minus one.
  `NoTaskTwice` (`TaskInOnePlace`) says the same of tasks: `TaskHomes` gives each task one home among the queue,
  the workers' locals, the fibers' code and the done, and `TaskMoved` is the step that moves one. On it rests
  the refinement, `SchedulerImplementsRuntime` (`ImplementsRuntime`): under `RInv` (`IInv`, `TaskHomes`, `Counted` and the
  bound) `StatusIs` reads the status of a task off its home and its fiber's, and each action of the scheduler is a
  `Submit`, `Drop`, `RunNested`, `Start`, `Suspend`, `Yield`, `Wake`, `Finish`, `Release` or `Resume` of `TaskRuntime` or leaves its variables
  alone. `Resume` needs `OneWorkerPerFiber`, and `Start` that the fibers with a task are at most those counted.
- **Mutex_proofs**: `TypeCorrect`, `HandedOver` (`LockHandedOver`, inductive together with the
  types), `Exclusion` (`MutualExclusion`) and `Fifo` (`FirstComeFirstServed`), which follow from it.
- **Channel_proofs**: `TypeCorrect`, `SingleWriter` (`OneWriter`, with `NotSpawned`: a packet not
  sent yet has no `send_f`), and the action property `WrittenInOrder` (`WireOrder`). `OrderInv` says that each queue
  holds packets in the order of the calls (`QueuesInOrder`), that what a `send_f` writes was sent before all of its
  kind in the queue (`WriterFirst`), and that a packet whose future is not set is in a queue or being written
  (`PendingKept`).
  `FilesServedTrue` (`FilesServed`) is about `HandlerFs` and `HttpValues`. `FsInv`
  says of an answer of stat that it is of the file that is there now or of one that has become younger since (`Seen`),
  that what was read and what a client keeps agrees with the file as long as the answer is to be believed
  (`ReplyTrue`, `CopyTrue`), and `ChangesKeep` that a change ends that. The header fields and addresses of `ValuesExact`
  need no invariant but their algorithms: a time is read back exactly from each form of text that says it
  (`FormRead`: timegm undoes gmtime whenever there is a year and a month to choose); reading a list of codings, mention after
  mention, leaves those whose last mention has a weight (`ReadMeans`), and what is written for a set is read as that set
  (`CodingsWritten`); an address falls apart where the sign of its next part is (`AddressTaken`), as long as a host has no
  signs and a path no "#" (`Address`). `ValuesAssumption` and `FsAssumption` end the times with a 32-bit time_t.
- **Event_proofs**: `SignalsConserved` (`SignalConserved`), `MutexesInOrder` and `PairsNeverCycle` (both `NoLockCycle`), and
  `FuturesAreDelivered` (`FuturesDelivered`). `EventInv` says, for each point of `waitAny`, which events hold the fiber's
  notifier (`Registering`, `OnNotifiers`), that a list names a fiber once (`ListsDistinct`), that a
  set event has nobody waiting and a fiber is woken once per wait, and counts signals: those in the
  event, on their way (`OnTheWay`) and taken are those of the effective calls of `set`. The first half of
  the module is about the operators on lists (`Erased`, `Without`, ...): each takes out exactly the one
  occurrence. `NoLockCycle` is false for all wait lists: two waiters may name two events in opposite orders. `MutexesInOrder`
  proves it of lists that name common events in one order (`InOneOrder`): of the events whose mutex is held, the holder of the one
  that is lowest in that order goes on (`HolderGoesOn`), for a fiber blocked behind it would hold one lower still.
  `InOneOrder` asks this of the lists that `EventWaiter` leaves after a report too, which the instance satisfies
  (`MCInOneOrder`) and lists of at most two events always do (`PairsNeverCycle`); a longer list may be turned by the swap.
  `FutureInv` keeps the two arrays of `FutureWaiter` a permutation of the futures in step
  with each other behind what was reported.
- **Pgc_proofs**: `PoolTypeCorrect`, `PoolStaysConsistent` (`PoolConsistent`), with the queue free of
  repetitions (`WaitersDistinct`) as the strengthening; `balance`, which closes connections and serves
  the first waiters in one critical section, is the long case. `RequestsAnsweredInOrder`
  (`AnsweredInOrder`) and `HolderStaysConsistent` (`HolderConsistent`) rest on `HolderInv`: the request
  in work and the queue are the requests that follow the last answer (`Numbered`), whoever is inside has a
  request of the right kind whose statement is in the cache (`JobsFit`), the client's state fits what is
  open (`ClientFits`), and the cache names what the session has prepared (`CacheAgrees`).
  `ResultsStayExact` (`ResultsExact`) is about `PgcValues` and `PgcResult`. `ValuesInv` says of each stage that its form is
  computed from the parameters alone, so that what is left is a fact about numbers for each type (`ValuesSurvive`). A number
  keeps its bits through `Wrap`; ticks and days come apart into quotient and rest; a bitset is the sum of its weights. Dates
  are the long case: `j2date` undoes `date2j` because the day number of a year that begins in March has one part each for
  its 400 years, its centuries, its leap cycles and its years (`YearParts`, `PartsStart`), and each division of `j2date`
  finds one of them (`CenturyRead`, `CycleRead`, `YearRead`, `MarchRead`). `ParamsAssumption` bounds the dates by boost's
  calendar, since a fetch makes boost dates of them, and lets a second divide a minute, an hour and a day. For
  rows, `FirstBadIs` says where a loop that fails stops and `AllOverwritten` that one that does not fail leaves nothing of
  what the Variant held; `RowsOfRange` that a range which ends too far is cut. `ResultAssumption` has rows counted from 1.
  `VariantsStaySound` (`VariantSound`) is about `Variant`. `Fine` is what holds in the midst of an operation: the heap is the
  blocks of the other objects and the object's own, if it has one. Each helper keeps it (`ConstructFine`, `DestructFine`,
  `SwappedFine` for the copy and swap, ...), a new block is found since there are more names than objects (`FreshIsFree`), and
  what ends `Fine` disturbs no other object (`OthersUndisturbed`). What `convert` makes of a value is the constant `Converted`,
  which the instance takes from `VariantConvert`; `VariantAssumption` asks that the elements of values and what becomes of
  them are values (`Variants`), and that nothing else is behind a null.
- **ServiceLifecycle_proofs**: `CallsLeaveOrderAlways` (`CallsLeaveOrder`). `CountExact` says that
  `_workersAmount` is the number of threads between their two updates of it, `OwnersKnown` that each live thread's Worker is in `_workers`, being stopped or told to stop, `BalanceStage` and `StopStage` what holds at
  each point of the two calls, `AddedKept` that a handler is never lost between the queue, the timers and the
  workers, `PumpedOut` that some worker pumps on as long as anything is outstanding.
- **SpiderService_proofs**: `SpiderStaysAccounted` (`SpiderAccounts`). `CounterExact` adds to the
  count that it is below the limit whenever `processLoop` is on its way to a spawn; `PickedLoadable` that the page
  it picked under the table locks stays to be loaded; `LoadsDistinct` that each page has one fiber, which
  finds it there and not done: without it the amounts of a site would be lowered twice for one page.
- **ScomService_proofs**: `PendingStaysLoaded`, `CacheStaysTruthful`, `WorkersStayAccounted` and
  the action property `HostsAskedPolitely` (`HostPolite`). `CountMatches` counts the fibers of loaders
  as pairs of a page and a number, so that a granula adds as many as it spawns. `RowsDistinct` (an id of `active_host` is
  not used again, and a page names the row of its own host or none) and `AskedKnown` (a host that was
  asked has a row that says so until it has rested, which is why the row may be deleted after
  `_activeHostDeleteTimeout` and not before), with `Begun` (what was true of the limit of workers and of the clock at BEGIN is
  still true when the locks come: only this transaction adds loaders), give `HostPolite`. The loop of `workerMain` is proved by
  induction on its rounds: `LoopInv` holds of the tables before and after each page, for granulas of any size.
  The second half is about the rules. `RulesKeepTheirAmount` (`AmountKept`) counts along the loops that select.
  `UnlimitedRulesSelectExactly` (`UnlimitedRulesExact`) is the correctness of the breadth first search, on every graph:
  after wave n (`Searched`) a page that n links or fewer lead to has the least such number as its level, the others
  have `INT_MAX`, and the buffer is what one more link adds, so that the last wave has the distances (`SearchExact`).
  It holds of levels that were all forgotten before, and `RulesInv` says that they are as long as no rule has an
  amount: finding 5 is what happens with one. `RulesAssumption` asks for fewer pages than an int can count.

Induction. The induction theorems of the library take a predicate as a parameter, which the
provers cannot instantiate. `Upwards` (in `ScomService_proofs`) is induction for a set of numbers, derived from the
well-foundedness of `<`, and `LoopExists` and `LoopSteps` derive from it that the recursive function `Loop`
is what its equation says; `StepsExist` does it once for any state that is computed in n steps (the waves of
the search, its loop of selection, the rules one after the other). `Channel_proofs` does the same for
the list of codings (`ReadCodings`). That works for functions over an interval. It does not reach the folds of the community modules or recursive operators.

Only model-checked, and why:
- every liveness property: `ENABLED` and fairness are outside the prover's reach;
- the part `PageExact` of `LoadsExact`, `TextsCounted`, and the http properties `Delivered`, `FramingAnnounced`,
  `NoMutualWait`: what they say is computed by folds over sequences, which would need induction over data;
- `SerializationFaithful`, `ValuesKept`: `Serialization`, `VariantConvert` and `VariantLoad` declare
  recursive operators, which the prover does not take.

The type invariants of the modules with proofs are proved and not checked by a run of their own.

## 6. Findings

1. `NoTaskDropped` is violated. `Worker::exec` takes a task out of the overflow queue into a local,
   and when `Fiber::execute` refuses the fiber it had chosen (its last worker has not left it
   yet) it continues with the next round and the local is destroyed (`async/impl/worker.cpp:218`).
2. `QueuedTaskNotStranded` is violated. `Service::spawn` appends to a nonempty overflow queue and
   relies on a worker that will empty it (`async/impl/service.cpp:168`); the workers may all have
   left `exec` while fibers are idle.
3. `PumpRuns` is violated. `Service::balance` starts threads before it creates the
   `io_service::work` (`async/impl/service.cpp:125`); a fast thread stops the `io_service` for good.
4. `WellFormedAccepted` is violated. The caption of a chunk is parsed with an optional CR LF in front; a packet
   that ends between the two makes the body an error (`http/impl/bodyExtractorChunked.cpp:85`). The server reads a
   POST with the chunked body "1 CRLF x CRLF 0 CRLF CRLF": when a packet ends with x and CR, the lone CR is parsed as a caption and
   refused with `bad_message`, while LF and the last chunk are on the wire.
5. `ReferenceRuleExact` is violated. Once a rule's amount is used up, the levels of its search stay in the
   pages, and the next rule takes them for its own (`scom/impl/pageRuleApplyer.cpp:487`), although a level is "formed anew
   at each computation" (`pageRuleApplyer.hpp:105`). With one link, from page 1 to page 3, a rule from page 1 with amount 1
   leaves level 1 in page 3, and an unlimited rule from page 2 with levels 0 to 1 then selects page 3.

`HandlerTaken` and the modules above the scheduler do not rest on 1 and 2: those concern tasks that
found no fiber, that is, a pool at its limit. A spawned fiber that "runs" in the fairness of the
modules above assumes a pool with fibers to spare.

Met while modelling, and in the models as the code has it, but contradicted by no doc, comment or test:
- *async*: `set(true)` of an auto-reset event that a `waitAny` waits for goes on with an erased iterator
  (`event.cpp:62`; `EventAssumption` excludes the call, which nobody makes). An exhausted `EventWaiter` compares with `>`
  where `>=` is meant. `Future3::data3NoWait` returns the type of the second part.
- *net*: early returns of `listen_f` leave `_inProcess` set (`acceptor.cpp:50`), and before line 79 `_acceptor`
  empty, which `unlisten`, the destructor and a stale `accept_f` dereference (`acceptor.cpp:299`, `200`: the model
  crashes there too); a lasting error of accept is
  retried at once (`acceptor.cpp:215`); after a failed handshake the same socket is used again
  (`connector.cpp:158`); a stale `accept_f` spawned for ssl that
  runs after a later `listen` without ssl fails an assertion (`acceptor.cpp:183`) and, asserts compiled out, serves
  without ssl.
- *http*: a message of version 1.0 without a length and without a Connection field is refused
  (`inputMessage.cpp:441`); a pipelined request is lost between two messages; the 405 answer says "close" and the
  connection stays; a truncated zlib stream is accepted; `HandlerFs` tests a failed `open` for 0 (200 with an
  empty body), and looks at If-Modified-Since although If-None-Match is there and differs; `parseUrl` takes a
  host that begins with "http" for a scheme; the asctime form wants full names of days.
- *pgc*: the endless retry on 42P05 (`connectionHolder.cpp:346`), the assertion on a connection lost during its
  work (`:727`), `_now` left set by an early return (`:537`); statements are evicted by the time of their
  creation, where the header says inactivity. A list with a value that cannot be bound before its end is bound out of bounds (`bindData.cpp:48`: the model ends
  there, as undefined). Unsigned integers wrap, a uuid is swapped on one side only, numeric
  digit groups lose zeros.
- *utils*: `VariantPtr` needs 8 bytes and `calcSize` counts 4 (`BufferExact` in `Serialization`, in no run); the crc leaves the
  last four bytes out; sets come back in the opposite order; `assign` destroys before it copies, from its own part
  too; a bitset's conversions loop over bytes; an include cycle recurses without a bound.
- *html*: "//host/x" keeps the host of the page; "/a/.." becomes "/a/"; lower-case hex escapes lose their "%";
  entities with upper-case names decode as the lower-case ones; text behind a meta that nothing closes is dropped.
- *scom*: `page.atime` is never written, so that pages are never loaded anew (`service.cpp:266`); `processUri` keeps
  links to one fixed host only (`:1284`); an event is set after the count is lowered (`workerRaii.hpp:26`). A
  reference to a page outside a report becomes one to the next page; a report of one page fails an assertion; the
  merger reads `std::cin`, which blocks its thread and stop, and ends with `exit(-1)` (`service.cpp:1474`); hosts are
  stamped with the time of BEGIN (`:760`), before the locks, and a failed transaction's loads are repeated at once.
- *spider*: a database error ends `processLoop` for good; stop does not wait for `processLoop`, which then asks the reset
  `_db` for a connection and dereferences null (`service.cpp:244`, `pgc/db.cpp:54`: the model crashes there too); the word tables' functions
  return before they write, and the trigger of `db.sql:61` compares the wrong column.

## 7. Not modelled, and the plan

- *entry*: option parsing and wiring. Logging, the option descriptions of each service, Windows-only code,
  per-thread callbacks of `Service`.
- *third party*: utf8proc (tables) and sqlitepp; of htmlcxx how a tag is cut out of its characters, CSS and the
  parts nobody calls. zlib, libpq, iconv, hunspell, asio and the peers are external, modelled by what the code
  relies on.
- *data*: real numbers beyond their order, equality and the rounding of `Assign`, fractions other than halves and texts with an exponent, numeric digits, the dumper of `utils` (formatting), error texts.
- *http*: the client's writing of requests beyond its url (it shares the framing of `HttpOutput`), the file handler's
  configuration from a tree of options.
- *spider*: the word tables (`updatePageWords` returns first), `processMoveTmp2/3` (never spawned).
- *scom*: SQL beyond its effect on the tables; sqlite, in which a report is stored, is a set of rows.

Left to prove: the properties of `Http`, with its folds written as recursive functions.
