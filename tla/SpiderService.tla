--------------------------- MODULE SpiderService ---------------------------
(***************************************************************************)
(* spider::Service (src/spider/service.cpp): processLoop picks one page    *)
(* after another from the database and spawns a processOne for it, which   *)
(* loads it and stores it with the pages it links to.                      *)
(*                                                                         *)
(* processLoop raises _numWorkers under _mtx, a processOne that ends       *)
(* lowers it under _mtxWorkers: neither lock orders the two, so each is a  *)
(* read and a later write of the counter.  Both kinds of transaction begin *)
(* with LOCK TABLE site and page; an UPDATE of a page outside a            *)
(* transaction waits for these locks too.  A site's time_access is as old  *)
(* as it matters: 0 younger than time_per_page, 1 older, 2 older than an   *)
(* hour.  PostgreSQL and HTTP are external; raced, late and twice are      *)
(* history.                                                                *)
(***************************************************************************)
EXTENDS Naturals, FiniteSets

CONSTANTS SpiderPages,   \* pages that may be found, by number
          Loads,         \* numbers for the processOne fibers
          Concurrency,   \* _net_concurrency
          SizeMax,       \* SIZE_MAX: the counter is a size_t
          MaxFailures    \* bound: failing statements

ASSUME SpiderAssumption ==
    /\ IsFiniteSet(SpiderPages) /\ SpiderPages \subseteq Nat \ {0} /\ 1 \in SpiderPages
    /\ IsFiniteSet(Loads) /\ Loads \subseteq Nat \ {0}
    /\ SizeMax \in Nat /\ Concurrency \in 0 .. SizeMax
    /\ MaxFailures \in Nat

VARIABLES
    stopFlag,     \* _stop
    phase,        \* of the service: "new", "running", "stopping", "stopped", "crashed"
    looping,      \* where processLoop is
    loopReg,      \* the value of the counter it has read
    picked,       \* the page of its transaction, 0 for none
    counter,      \* _numWorkers
    counterLock,  \* who holds _mtxWorkers, 0 if nobody
    loads,        \* processOne fibers: place, page, value of the counter read
    doneSet,      \* _evtWorkerDone
    status,       \* table page: "absent", "null", "pend", "failed", "done"
    age,          \* table site: age of time_access
    amounts,      \* table site: amount_page_all and amount_page_new
    failures, raced, late, twice

spiderDb == <<status, age, amounts>>
spiderHistory == <<failures, raced, late, twice>>
spiderVars == <<stopFlag, phase, looping, loopReg, picked, counter, counterLock, loads, doneSet,
                spiderDb, spiderHistory>>

SiteOf(p) == IF p <= 2 THEN "s" ELSE "t"
Sites == {SiteOf(p) : p \in SpiderPages}
Found == {p \in SpiderPages : status[p] # "absent"}
NoLoad == [at |-> "free", page |-> 0, reg |-> 0]

(* The constructor; the tables hold one page, not loaded yet. *)
SpiderInit ==
    /\ stopFlag = FALSE /\ phase = "new"
    /\ looping = "off" /\ loopReg = 0 /\ picked = 0
    /\ counter = 0 /\ counterLock = 0
    /\ loads = [l \in Loads |-> NoLoad]
    /\ doneSet = FALSE
    /\ status = [p \in SpiderPages |-> IF p = 1 THEN "null" ELSE "absent"]
    /\ age = [s \in Sites |-> 2]
    /\ amounts = [s \in Sites |-> IF s = "s" THEN [all |-> 1, new |-> 1] ELSE [all |-> 0, new |-> 0]]
    /\ failures = 0 /\ raced = FALSE /\ late = FALSE /\ twice = FALSE

StatementFails == failures < MaxFailures /\ failures' = failures + 1
TablesFree == looping \notin {"count", "spawn", "commit"} /\ phase # "stopped"

(* start: the database, and processLoop is spawned. *)
SpiderStart ==
    /\ phase = "new"
    /\ phase' = "running" /\ looping' = "check"
    /\ UNCHANGED <<stopFlag, loopReg, picked, counter, counterLock, loads, doneSet, spiderDb, spiderHistory>>

-----------------------------------------------------------------------------
(* processLoop *)

LoopCheck ==
    /\ looping = "check"
    /\ looping' = IF stopFlag THEN "off" ELSE "limit"
    /\ UNCHANGED <<stopFlag, phase, loopReg, picked, counter, counterLock, loads, doneSet, spiderDb, spiderHistory>>

PoolFull == counter >= Concurrency

LoopLimit ==
    /\ looping = "limit" /\ counterLock = 0
    /\ looping' = IF PoolFull THEN "wait" ELSE "select"
    /\ UNCHANGED <<stopFlag, phase, loopReg, picked, counter, counterLock, loads, doneSet, spiderDb, spiderHistory>>

LoopWait ==
    /\ looping = "wait" /\ doneSet
    /\ doneSet' = FALSE
    /\ looping' = "check"
    /\ UNCHANGED <<stopFlag, phase, loopReg, picked, counter, counterLock, loads, spiderDb, spiderHistory>>

(* _stSelectPages4Process. *)
NeverAgain(p) == status[p] = "null" /\ age[SiteOf(p)] >= 1
Selectable(p) ==
    \/ status[p] = "null" /\ age[SiteOf(p)] >= 1
    \/ status[p] = "pend" /\ age[SiteOf(p)] = 2

(* BEGIN, the locks and the SELECT; without a row ROLLBACK and a second's  *)
(* sleep.  CHECK_PGR leaves processLoop, for good.                         *)
LoopSelect ==
    /\ looping = "select" /\ TablesFree
    /\ \/ \E p \in SpiderPages : Selectable(p) /\ picked' = p /\ looping' = "count" /\ UNCHANGED failures
       \/ (\A p \in SpiderPages : ~Selectable(p)) /\ looping' = "check" /\ UNCHANGED <<picked, failures>>
       \/ StatementFails /\ looping' = "off" /\ UNCHANGED picked
    /\ UNCHANGED <<stopFlag, phase, loopReg, counter, counterLock, loads, doneSet, spiderDb, raced, late, twice>>

(* _numWorkers++ *)
LoopCount ==
    /\ looping = "count"
    /\ loopReg' = counter
    /\ looping' = "spawn"
    /\ UNCHANGED <<stopFlag, phase, picked, counter, counterLock, loads, doneSet, spiderDb, spiderHistory>>

LoopSpawn(l) ==
    /\ looping = "spawn" /\ loads[l].at = "free"
    /\ \A k \in Loads : k < l => loads[k].at # "free"
    /\ counter' = (loopReg + 1) % (SizeMax + 1)
    /\ raced' = (raced \/ counter # loopReg)
    /\ loads' = [loads EXCEPT ![l] = [NoLoad EXCEPT !.at = "get", !.page = picked]]
    /\ late' = (late \/ stopFlag)
    /\ twice' = (twice \/ \E k \in Loads : loads[k].at # "free" /\ loads[k].page = picked)
    /\ looping' = "commit"
    /\ loopReg' = 0
    /\ UNCHANGED <<stopFlag, phase, picked, counterLock, doneSet, spiderDb, failures>>

(* The updates of site and page become visible, or COMMIT or one of them   *)
(* fails and the loop is left.                                             *)
LoopCommit ==
    /\ looping = "commit"
    /\ picked' = 0
    /\ \/ /\ status' = [status EXCEPT ![picked] = "pend"]
          /\ age' = [age EXCEPT ![SiteOf(picked)] = 0]
          /\ looping' = "check"
          /\ UNCHANGED failures
       \/ /\ StatementFails
          /\ looping' = "off"
          /\ UNCHANGED <<status, age>>
    /\ UNCHANGED <<stopFlag, phase, loopReg, counter, counterLock, loads, doneSet, amounts, raced, late, twice>>

-----------------------------------------------------------------------------
(* processOne *)

At(l, place) == loads' = [loads EXCEPT ![l].at = place]

(* _htc.get, the first line, the headers and the body: good enough to be   *)
(* stored, or the reason goes to page.status, if that statement succeeds.  *)
Fetch(l) ==
    /\ loads[l].at = "get"
    /\ \/ At(l, "store") /\ UNCHANGED <<status, failures>>
       \/ /\ TablesFree /\ At(l, "end")
          /\ status' = [status EXCEPT ![loads[l].page] = "failed"]
          /\ UNCHANGED failures
       \/ TablesFree /\ At(l, "end") /\ StatementFails /\ UNCHANGED status
    /\ UNCHANGED <<stopFlag, phase, looping, loopReg, picked, counter, counterLock, doneSet, age, amounts, raced, late, twice>>

(* The new pages count for their sites, the loaded one is new no more. *)
OnlyNewCounted(p, new) ==
    [s \in Sites |-> [amounts[s] EXCEPT !.new = @ + Cardinality({q \in new : SiteOf(q) = s})
                                              - (IF s = SiteOf(p) THEN 1 ELSE 0)]]
Recounted(p, new) ==
    [s \in Sites |->
       LET more == Cardinality({q \in new : SiteOf(q) = s})
       IN  [all |-> amounts[s].all + more,
            new |-> amounts[s].new + more - (IF s = SiteOf(p) THEN 1 ELSE 0)]]

(* The transaction: links to pages that are there or not, their sites, the *)
(* page itself.  CHECK_PGR returns, and the connection rolls back as it    *)
(* goes back to its pool.  The words are parsed and streamed in another    *)
(* transaction but not written: updatePageWords2 and 3 return at once.     *)
StorePage(l) ==
    /\ loads[l].at = "store" /\ TablesFree
    /\ At(l, "end")
    /\ \/ \E links \in SUBSET SpiderPages :
            LET p == loads[l].page
                new == links \ Found
            IN  /\ status' = [q \in SpiderPages |->
                                IF q = p THEN "done" ELSE IF q \in new THEN "null" ELSE status[q]]
                /\ age' = [s \in Sites |-> IF \E q \in new : SiteOf(q) = s /\ amounts[s].all = 0 THEN 0 ELSE age[s]]
                /\ amounts' = Recounted(p, new)
                /\ UNCHANGED failures
       \/ StatementFails /\ UNCHANGED spiderDb
    /\ UNCHANGED <<stopFlag, phase, looping, loopReg, picked, counter, counterLock, doneSet, raced, late, twice>>

(* ~WorkerRaii: the counter, under its lock, then the event. *)
EndRead(l) ==
    /\ loads[l].at = "end" /\ counterLock = 0
    /\ counterLock' = l
    /\ loads' = [loads EXCEPT ![l].at = "write", ![l].reg = counter]
    /\ UNCHANGED <<stopFlag, phase, looping, loopReg, picked, counter, doneSet, spiderDb, spiderHistory>>

EndWrite(l) ==
    /\ loads[l].at = "write"
    /\ counter' = (loads[l].reg + SizeMax) % (SizeMax + 1)
    /\ raced' = (raced \/ counter # loads[l].reg)
    /\ counterLock' = 0
    /\ loads' = [loads EXCEPT ![l].at = "signal", ![l].reg = 0]
    /\ UNCHANGED <<stopFlag, phase, looping, loopReg, picked, doneSet, spiderDb, failures, late, twice>>

EndSignal(l) ==
    /\ loads[l].at = "signal"
    /\ doneSet' = TRUE
    /\ loads' = [loads EXCEPT ![l] = NoLoad]
    /\ UNCHANGED <<stopFlag, phase, looping, loopReg, picked, counter, counterLock, spiderDb, spiderHistory>>

-----------------------------------------------------------------------------
(* stop *)

SpiderStop ==
    /\ phase = "running"
    /\ stopFlag' = TRUE /\ phase' = "stopping"
    /\ UNCHANGED <<looping, loopReg, picked, counter, counterLock, loads, doneSet, spiderDb, spiderHistory>>

(* The counter is looked at every 100 ms; _db goes when it is 0. *)
StopReturnsAtZero ==
    /\ phase = "stopping" /\ counterLock = 0
    /\ counter = 0
    /\ phase' = "stopped"
    /\ UNCHANGED <<stopFlag, looping, loopReg, picked, counter, counterLock, loads, doneSet, spiderDb, spiderHistory>>

(* Nobody waits for processLoop: one that had passed its test of _stop, and *)
(* the processOne it spawned, call _db.allocConnection after _db.reset and  *)
(* dereference the empty Db::_impl.                                         *)
DbGone ==
    /\ phase = "stopped"
    /\ looping = "select" \/ \E l \in Loads : loads[l].at \in {"get", "store"}
    /\ phase' = "crashed"
    /\ UNCHANGED <<stopFlag, looping, loopReg, picked, counter, counterLock, loads, doneSet, spiderDb, spiderHistory>>

SiteAges(s) ==
    /\ age[s] < 2 /\ TablesFree
    /\ age' = [age EXCEPT ![s] = @ + 1]
    /\ UNCHANGED <<stopFlag, phase, looping, loopReg, picked, counter, counterLock, loads, doneSet, status, amounts, spiderHistory>>

LoopStep == LoopCheck \/ LoopLimit \/ LoopWait \/ LoopSelect \/ LoopCount \/ LoopCommit \/ \E l \in Loads : LoopSpawn(l)
LoadStep(l) == Fetch(l) \/ StorePage(l) \/ EndRead(l) \/ EndWrite(l) \/ EndSignal(l)

(* Behaviours are followed up to the first lost update of the counter. *)
Alive == ~raced /\ phase # "crashed"

SpiderNext ==
    /\ Alive
    /\ \/ LoopStep \/ (\E l \in Loads : LoadStep(l))
       \/ SpiderStart \/ SpiderStop \/ StopReturnsAtZero \/ DbGone \/ \E s \in Sites : SiteAges(s)

SpiderFairness ==
    /\ WF_spiderVars(Alive /\ LoopStep)
    /\ \A l \in Loads : WF_spiderVars(Alive /\ LoadStep(l))
    /\ WF_spiderVars(Alive /\ StopReturnsAtZero)
    /\ \A s \in Sites : WF_spiderVars(Alive /\ SiteAges(s))

SpiderSpec == SpiderInit /\ [][SpiderNext]_spiderVars /\ SpiderFairness

-----------------------------------------------------------------------------
(* Properties. *)

Counted(l) == loads[l].at \in {"get", "store", "end", "write"}
Loading(l) == loads[l].at \in {"get", "store"}

(* Unless an update of the counter was lost, it counts the processOne      *)
(* fibers and keeps them within _net_concurrency; and stop returns when no *)
(* page is being loaded, unless processLoop, which nobody waits for, had   *)
(* passed its test of _stop.                                               *)
LoadsAccounted ==
    ~raced => /\ counter = Cardinality({l \in Loads : Counted(l)})
              /\ counter <= Concurrency
              /\ phase = "stopped" /\ ~late => \A l \in Loads : ~Loading(l)

(* A site's amounts are its pages and those not stored yet, through failed *)
(* loads and transactions; unless a page was given to a second processOne  *)
(* while the first, after an hour, was still at it.                        *)
AmountsTrue ==
    ~twice => \A s \in Sites :
      /\ amounts[s].all = Cardinality({p \in Found : SiteOf(p) = s})
      /\ amounts[s].new = Cardinality({p \in Found : SiteOf(p) = s /\ status[p] # "done"})

(* The counter and the tables agree with what is going on. *)
SpiderAccounts == LoadsAccounted /\ AmountsTrue

(* A page that is pending is settled in the end, if need be by a second    *)
(* attempt after an hour, as long as processLoop goes on; and stop         *)
(* returns.                                                                *)
SpiderProgress ==
    <>[](raced \/ /\ phase # "stopping"
                  /\ stopFlag \/ looping = "off" \/ \A p \in SpiderPages : status[p] # "pend")
=============================================================================
