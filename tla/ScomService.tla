---------------------------- MODULE ScomService ----------------------------
(***************************************************************************)
(* scom::impl::Service (src/scom/impl/service.cpp) with the cache of page  *)
(* rules (pageRuleApplyersContainer.cpp): a crawl of one instance.  Six    *)
(* workers loop until stop; workerMain turns due pages to 'pend' and       *)
(* spawns their loaders; a loader fetches its page and stores the result   *)
(* and the pages it links to; workerPageRuleApplyer decides which pages    *)
(* are wanted; the merger ends the program when all is loaded.             *)
(*                                                                         *)
(* A transaction locks every table it writes (LOCK ... IN EXCLUSIVE MODE)  *)
(* and is one action; what it did outside the database before it failed    *)
(* (spawned loaders, cached rules) stays.  CURRENT_TIMESTAMP is the time   *)
(* of its BEGIN, which may be long past when it has its locks: workerMain  *)
(* begins in an action of its own.  PostgreSQL and HTTP are external:      *)
(* every statement may fail, MaxFaults times in a run.  Several variables  *)
(* are history: asked, tainted, orphans.                                   *)
(***************************************************************************)
EXTENDS Naturals, FiniteSets, Sequences, FiniteSetsExt, SequencesExt

CONSTANTS NumPages,       \* the pages of the instance are 1 .. NumPages
          MaxRules,       \* bound: rules of the instance
          Granula,        \* _pagesToLoadGranula
          MaxWorkers,     \* _maxWorkers
          HostDelay,      \* _net_hostAccessDelay
          HostTimeout,    \* _activeHostDeleteTimeout
          NumHelpers,     \* the other workers, 4 in the code
          MaxTime,        \* bound: the clock
          MaxFaults       \* bound: failing statements

ASSUME ScomAssumption ==
    /\ NumPages \in Nat /\ MaxRules \in Nat /\ MaxTime \in Nat /\ MaxFaults \in Nat
    /\ NumHelpers \in Nat /\ Granula \in Nat \ {0} /\ MaxWorkers \in Nat \ {0}
    /\ HostDelay \in Nat \ {0} /\ HostTimeout \in Nat /\ HostTimeout >= HostDelay

Pages == 1 .. NumPages
Hosts == {"a", "b"}
HostOf(p) == IF p <= 2 THEN "a" ELSE "b"

(* The workers that start runs.  Only two of them do something outside the *)
(* database that stop may meet half-way; the helpers (workerInstances-     *)
(* DeleteOld, PageRestatusPend, HostDeleteOld, Merger) are counted.        *)
Workers == {"main", "rules"}

VARIABLES
    stage,       \* table instance: "none" yet, "init", "load", or "gone"
    started,     \* instance.is_started
    rules,       \* table page_rule: how many rules there are
    page,        \* table page: access, status and active_host_id (0 is NULL)
    active,      \* table active_host: id and atime by name
    nextHost,    \* the next id of active_host
    cache,       \* _prac: the rules and accesses the applyer remembers
    service,     \* where Service::start and stop are
    worker,      \* where each worker is in workerWrapper
    began,       \* CURRENT_TIMESTAMP of workerMain's transaction, 0 without one
    helpers,     \* how many helpers run
    merger,      \* workerMerger: "loop", or it makes a report and is "asking"
    loaders,     \* running uriLoader fibers of each page
    numWorkers,  \* _numWorkers
    doneEvent,   \* _evtWorkerDone is signalled
    raii,        \* fibers of ~WorkerRaii between the decrement and the event
    clock, faults,
    asked,       \* BEGIN of the last transaction that committed loads of a host
    tainted,     \* what is in the cache was left by a failed call
    orphans      \* pending pages whose loader could not store its result

db == <<stage, started, rules, page, active, nextHost>>
pool == <<worker, began, helpers, merger, loaders, numWorkers, doneEvent, raii>>
history == <<asked, tainted, orphans>>
vars == <<db, cache, service, pool, clock, faults, history>>

NoPage == [access |-> "absent", status |-> "null", host |-> 0]
NoCache == [known |-> FALSE, rules |-> 0, access |-> [p \in Pages |-> "absent"]]
NoHost == [id |-> 0, atime |-> 0]

Init ==
    /\ stage = "none" /\ started = FALSE /\ rules = 0
    /\ page = [p \in Pages |-> NoPage]
    /\ active = [h \in Hosts |-> NoHost]
    /\ nextHost = 1
    /\ cache = NoCache
    /\ service = "running"
    /\ worker = [w \in Workers |-> "check"]
    /\ loaders = [p \in Pages |-> 0]
    /\ began = 0 /\ helpers = NumHelpers /\ merger = "loop"
    /\ numWorkers = Cardinality(Workers) + NumHelpers
    /\ doneEvent = FALSE /\ raii = 0
    /\ clock = 1 /\ faults = 0
    /\ asked = [h \in Hosts |-> 0]
    /\ tainted = FALSE /\ orphans = {}

Alive == service # "exited"
Fault == faults < MaxFaults /\ faults' = faults + 1
Present == {p \in Pages : page[p].access # "absent"}

(* insertPageIfAbsent and the stored function of the same name. *)
insertPageIfAbsent(new) ==
    [p \in Pages |-> IF p \in new \ Present THEN [NoPage EXCEPT !.access = "null"] ELSE page[p]]

-----------------------------------------------------------------------------
(* PageRuleApplyersContainer::update inside a transaction. *)

(* PageRuleApplyer::update: what n rules say of a page. *)
Verdict(n, p) == IF n > 0 THEN "use" ELSE "ignore"

Loaded(c) == [p \in Pages |-> IF c.access[p] = "absent" THEN page[p].access ELSE c.access[p]]
Judged(c) ==
    [c EXCEPT !.access =
       [p \in Pages |-> IF Loaded(c)[p] = "absent" THEN "absent" ELSE Verdict(c.rules, p)]]

Entry == IF cache.known THEN cache ELSE [NoCache EXCEPT !.known = TRUE, !.rules = rules]

(* storePages writes the accesses that differ from the remembered ones. *)
Stored(c) ==
    [p \in Pages |->
       IF Judged(c).access[p] # Loaded(c)[p]
       THEN [page[p] EXCEPT !.access = Judged(c).access[p]] ELSE page[p]]

UpdateOk == [ok |-> TRUE, cache |-> Judged(Entry), page |-> Stored(Entry), bad |-> FALSE]

(* loadRules fails and its entry stays, without rules; or loadPages fails; *)
(* or storePages fails and the entry goes.                                 *)
KeptEntry(c) == c
DroppedEntry(c) == NoCache
UpdateFailures ==
    {[ok |-> FALSE, page |-> page, cache |-> Entry, bad |-> FALSE],
     [ok |-> FALSE, page |-> page, cache |-> DroppedEntry(Judged(Entry)), bad |-> FALSE]}
    \cup IF cache.known THEN {}
         ELSE {[ok |-> FALSE, page |-> page, cache |-> [NoCache EXCEPT !.known = TRUE], bad |-> TRUE]}

-----------------------------------------------------------------------------
(* The interface.  A call that fails changes nothing in the database. *)

Create ==
    /\ service = "running" /\ stage = "none"
    /\ stage' = "init"
    /\ UNCHANGED <<started, rules, page, active, nextHost, cache, service, pool, clock, faults, history>>

(* setup of one more valid rule, which may bring pages of its own. *)
Setup ==
    /\ service = "running" /\ stage = "init"
    /\ rules < MaxRules
    /\ rules' = rules + 1
    /\ \E new \in SUBSET Pages : page' = insertPageIfAbsent(new)
    /\ UNCHANGED <<stage, started, active, nextHost, cache, service, pool, clock, faults, history>>

StartInstance ==
    /\ service = "running" /\ stage \in {"init", "load"}
    /\ stage' = "load" /\ started' = TRUE
    /\ cache' = UpdateOk.cache /\ page' = UpdateOk.page
    /\ UNCHANGED <<rules, active, nextHost, service, pool, clock, faults, history>>

(* _prac.update or the COMMIT after it fails.  An entry that stays keeps   *)
(* its rules, though setup may add others now.                             *)
StartFails ==
    /\ service = "running" /\ stage \in {"init", "load"}
    /\ Fault
    /\ \E u \in UpdateFailures \cup {UpdateOk} : cache' = u.cache
    /\ tainted' = cache'.known
    /\ UNCHANGED <<db, service, pool, clock, asked, orphans>>

StopInstance ==
    /\ service = "running" /\ stage = "load" /\ started
    /\ started' = FALSE
    /\ UNCHANGED <<stage, rules, page, active, nextHost, cache, service, pool, clock, faults, history>>

(* destroy removes the instance, its rules and its pages, not the cache. *)
Destroy ==
    /\ service = "running" /\ stage \in {"init", "load"}
    /\ stage' = "gone" /\ started' = FALSE
    /\ rules' = 0 /\ page' = [p \in Pages |-> NoPage] /\ orphans' = {}
    /\ UNCHANGED <<active, nextHost, cache, service, pool, clock, faults, asked, tainted>>

-----------------------------------------------------------------------------
(* workerWrapper and its workers. *)

(* The loop looks at _isWork before every call of the worker.  The helpers *)
(* are tested and called in one action.                                    *)
Check(w) ==
    /\ worker[w] = "check" /\ service = "running"
    /\ worker' = [worker EXCEPT ![w] = "body"]
    /\ UNCHANGED <<db, cache, service, began, helpers, merger, loaders, numWorkers, doneEvent, raii,
                   clock, faults, history>>

HelperRuns == service = "running" /\ UNCHANGED pool
Back(w) == worker' = [worker EXCEPT ![w] = "check"]

(* A worker that ends without its event. *)
EndsSilently(w) ==
    /\ worker[w] = "check" /\ service \in {"stopping", "waiting"}
    /\ worker' = [worker EXCEPT ![w] = "off"]
    /\ numWorkers' = numWorkers - 1
    /\ UNCHANGED <<db, cache, service, began, helpers, merger, loaders, doneEvent, raii, clock, faults, history>>

(* ~WorkerRaii of a worker: the count first, the event after it. *)
WorkerEnds(w) ==
    /\ Alive
    /\ worker[w] = "check" /\ service # "running"
    /\ worker' = [worker EXCEPT ![w] = "off"]
    /\ numWorkers' = numWorkers - 1
    /\ raii' = raii + 1
    /\ UNCHANGED <<db, cache, service, began, helpers, merger, loaders, doneEvent, clock, faults, history>>

(* One that waits for an answer does not end. *)
HelperEnds ==
    /\ Alive
    /\ helpers > (IF merger = "loop" THEN 0 ELSE 1) /\ service # "running"
    /\ helpers' = helpers - 1
    /\ numWorkers' = numWorkers - 1
    /\ raii' = raii + 1
    /\ UNCHANGED <<db, cache, service, worker, began, merger, loaders, doneEvent, clock, faults, history>>

SignalDone ==
    /\ Alive
    /\ raii > 0
    /\ raii' = raii - 1
    /\ doneEvent' = TRUE
    /\ UNCHANGED <<db, cache, service, worker, began, helpers, merger, loaders, numWorkers, clock, faults, history>>

(* _stMainSelectPage. *)
RowOf(p) == {h \in Hosts : page[p].host # 0 /\ active[h].id = page[p].host}
AlwaysRested(row) == TRUE
Rested(row) == row.atime + HostDelay <= began
Due ==
    {p \in Pages : /\ stage = "load" /\ started
                   /\ page[p].access = "use" /\ page[p].status = "null"
                   /\ \A h \in RowOf(p) : Rested(active[h])}

(* One page of workerMain's loop, on the tables and local variables of t.  *)
(* The page names its host row or the row is found by name; a host that is *)
(* not rested yet, or was used by this transaction, makes the page wait.   *)
StampHost(t, h) == [t EXCEPT !.active[h].atime = began]

PendedOnly(t, p, h) == [t EXCEPT !.page[p].status = "pend", !.page[p].host = t.active[h].id]
Pended(t, p, h) ==
    [t EXCEPT !.page[p].status = "pend", !.page[p].host = t.active[h].id,
              !.used = @ \cup {t.active[h].id}, !.spawned = @ \cup {p}]

LoadPage(t, p) ==
    LET h == HostOf(p)
        known == RowOf(p) # {}
        found == t.active[h].id # 0
    IN  IF known
        THEN IF t.active[h].id \in t.used THEN t ELSE Pended(StampHost(t, h), p, h)
        ELSE IF ~found
             THEN Pended([t EXCEPT !.active[h] = [id |-> t.next, atime |-> began],
                                   !.next = @ + 1], p, h)
             ELSE IF Rested(t.active[h]) THEN Pended(StampHost(t, h), p, h)
             ELSE [t EXCEPT !.page[p].host = t.active[h].id]

Tables == [page |-> page, active |-> active, next |-> nextHost, used |-> {}, spawned |-> {}]

(* The loop over the selected pages: what it has after n of them. *)
Loop(q) ==
    LET after[n \in 0 .. Len(q)] == IF n = 0 THEN Tables ELSE LoadPage(after[n - 1], q[n])
    IN  after

Spawn(s) ==
    /\ loaders' = [p \in Pages |-> loaders[p] + (IF p \in s THEN 1 ELSE 0)]
    /\ numWorkers' = numWorkers + Cardinality(s)

NoLimit == FALSE
TooManyWorkers == numWorkers >= MaxWorkers

(* workerMain: there are workers enough, or its transaction begins and     *)
(* waits for its three locks.                                              *)
MainIdle ==
    /\ Alive /\ worker["main"] = "body"
    /\ TooManyWorkers
    /\ Back("main")
    /\ UNCHANGED <<db, cache, service, began, helpers, merger, loaders, numWorkers, doneEvent, raii,
                   clock, faults, history>>

MainBegin ==
    /\ Alive /\ worker["main"] = "body"
    /\ ~TooManyWorkers
    /\ worker' = [worker EXCEPT !["main"] = "begun"]
    /\ began' = clock
    /\ UNCHANGED <<db, cache, service, helpers, merger, loaders, numWorkers, doneEvent, raii,
                   clock, faults, history>>

(* It has them and takes a granula of due pages in some order; a statement *)
(* may fail after some of their loaders were spawned.                      *)
Chosen == UNION {SetToSeqs(s) : s \in kSubset(Min({Granula, Cardinality(Due)}), Due)}

AskedBy(s) == [h \in Hosts |-> IF \E p \in s : HostOf(p) = h THEN began ELSE asked[h]]

Main ==
    /\ Alive /\ worker["main"] = "begun"
    /\ Back("main") /\ began' = 0
    /\ \E q \in Chosen :
         \/ LET t == Loop(q)[Len(q)] IN
              /\ page' = t.page /\ active' = t.active /\ nextHost' = t.next
              /\ Spawn(t.spawned)
              /\ asked' = AskedBy(t.spawned)
              /\ UNCHANGED faults
         \/ \E n \in 0 .. Len(q) :
              /\ Fault
              /\ Spawn(Loop(q)[n].spawned)
              /\ UNCHANGED <<page, active, nextHost, asked>>
    /\ UNCHANGED <<stage, started, rules, cache, service, helpers, merger, doneEvent, raii, clock, tainted, orphans>>

(* workerInstancesDeleteOld: the pages and rules of the instance stay. *)
DeleteOldInstance ==
    /\ HelperRuns
    /\ stage' = "gone" /\ started' = FALSE
    /\ UNCHANGED <<rules, page, active, nextHost, cache, service, clock, faults, history>>

(* workerPageRestatusPend: no statement ever sets page.atime, so its       *)
(* comparison with a time is never true.                                   *)
RestatusPend ==
    /\ HelperRuns
    /\ UNCHANGED <<db, cache, service, clock, faults, history>>

(* workerHostDeleteOld, whose transaction began some time ago. *)
DeleteOldHosts ==
    /\ HelperRuns
    /\ \E since \in 1 .. clock :
         active' = [h \in Hosts |->
                      IF active[h].atime + HostTimeout <= since THEN NoHost ELSE active[h]]
    /\ UNCHANGED <<stage, started, rules, page, nextHost, cache, service, clock, faults, history>>

(* workerPageRuleApplyer, when the instance has pages without an access;   *)
(* it commits whether or not the update succeeds.                          *)
Undecided == stage = "load" /\ started /\ \E p \in Pages : page[p].access = "null"

ApplyRules ==
    /\ Alive /\ worker["rules"] = "body"
    /\ Back("rules")
    /\ \/ ~Undecided /\ UNCHANGED <<page, cache, faults, tainted>>
       \/ /\ Undecided
          /\ cache' = UpdateOk.cache /\ page' = UpdateOk.page
          /\ UNCHANGED <<faults, tainted>>
       \/ /\ Undecided /\ Fault
          /\ \/ \E u \in UpdateFailures : cache' = u.cache /\ tainted' = (u.cache.known /\ (tainted \/ u.bad))
             \/ cache' = UpdateOk.cache /\ tainted' = TRUE
          /\ UNCHANGED page
    /\ UNCHANGED <<stage, started, rules, active, nextHost, service, began, helpers, merger, loaders,
                   numWorkers, doneEvent, raii, clock, asked, orphans>>

(* workerMerger: an instance is complete.  Its report is made outside of   *)
(* a transaction: if that fails nothing has changed; otherwise the worker  *)
(* waits for somebody to type, and the answer ends the program.            *)
Complete ==
    /\ stage = "load"
    /\ \A p \in Pages : /\ page[p].access # "null"
                        /\ page[p].access = "use" => page[p].status = "done"

Merging(from, to) == merger = from /\ merger' = to
MergerOnly ==
    UNCHANGED <<db, cache, worker, began, helpers, loaders, numWorkers, doneEvent, raii, clock, faults, history>>

Merge ==
    /\ service = "running" /\ helpers > 0
    /\ Complete
    /\ Merging("loop", "asking")
    /\ UNCHANGED service /\ MergerOnly

Answered ==
    /\ Alive
    /\ Merging("asking", "loop") /\ service' = "exited"
    /\ MergerOnly

-----------------------------------------------------------------------------
(* uriLoader, up to the decrement of its WorkerRaii: the page was fetched  *)
(* (or not) and the result and its links are stored; or the database fails.*)
Loader(p) ==
    /\ Alive /\ loaders[p] > 0
    /\ loaders' = [loaders EXCEPT ![p] = @ - 1]
    /\ numWorkers' = numWorkers - 1
    /\ raii' = raii + 1
    /\ \/ \E links \in SUBSET (Pages \ Present) :
            /\ page' = [insertPageIfAbsent(links) EXCEPT
                          ![p].status = IF p \in Present THEN "done" ELSE @]
            /\ UNCHANGED <<faults, orphans>>
       \/ Fault /\ orphans' = orphans \cup {q \in {p} : page[q].status = "pend"} /\ UNCHANGED page
    /\ UNCHANGED <<stage, started, rules, active, nextHost, cache, service, worker, began, helpers, merger, doneEvent,
                   clock, asked, tainted>>

-----------------------------------------------------------------------------
(* Service::stop and start. *)

StopBegins ==
    /\ service = "running"
    /\ service' = "stopping"
    /\ cache' = NoCache /\ tainted' = FALSE
    /\ UNCHANGED <<db, pool, clock, faults, asked, orphans>>

StopCheck ==
    /\ service = "stopping"
    /\ service' = IF numWorkers = 0 THEN "stopped" ELSE "waiting"
    /\ UNCHANGED <<db, cache, pool, clock, faults, history>>

(* The wait ends and resets the event. *)
StopWakes ==
    /\ service = "waiting" /\ doneEvent
    /\ service' = "stopping"
    /\ doneEvent' = FALSE
    /\ UNCHANGED <<db, cache, worker, began, helpers, merger, loaders, numWorkers, raii, clock, faults, history>>

Start ==
    /\ service = "stopped" /\ raii = 0
    /\ service' = "running"
    /\ cache' = NoCache
    /\ worker' = [w \in Workers |-> "check"]
    /\ helpers' = NumHelpers
    /\ numWorkers' = numWorkers + Cardinality(Workers) + NumHelpers
    /\ UNCHANGED <<db, began, merger, loaders, doneEvent, raii, clock, faults, history>>

Tick ==
    /\ Alive /\ clock < MaxTime
    /\ clock' = clock + 1
    /\ UNCHANGED <<db, cache, service, pool, faults, history>>

Next ==
    \/ Create \/ Setup \/ StartInstance \/ StartFails \/ StopInstance \/ Destroy
    \/ \E w \in Workers : Check(w) \/ WorkerEnds(w)
    \/ MainIdle \/ MainBegin \/ Main \/ DeleteOldInstance \/ RestatusPend \/ DeleteOldHosts \/ ApplyRules
    \/ Merge \/ Answered
    \/ \E p \in Pages : Loader(p)
    \/ HelperEnds \/ SignalDone \/ StopBegins \/ StopCheck \/ StopWakes \/ Start \/ Tick

Spec == Init /\ [][Next]_vars

(* As long as a fiber can go on, one does, also if it waits for a lock,    *)
(* which is held no longer than a transaction takes.  The scheduler gives  *)
(* more, but stop needs no more.  Clients, the clock and whoever is asked  *)
(* by the merger need not act.                                             *)
FiberGoesOn ==
    \/ MainIdle \/ MainBegin \/ Main \/ ApplyRules
    \/ \E w \in Workers : WorkerEnds(w)
    \/ \E p \in Pages : Loader(p)
    \/ HelperEnds \/ SignalDone \/ StopCheck \/ StopWakes

Fairness == WF_vars(FiberGoesOn)

FairSpec == Spec /\ Fairness

-----------------------------------------------------------------------------
(* Properties. *)

(* A transaction loads no two pages from one host, and none from a host    *)
(* that a committed transaction loaded from less than _net_hostAccessDelay *)
(* ago, counted from the BEGIN of that one, though host rows are deleted   *)
(* and made again and either transaction waits for its locks.  The wait of *)
(* the earlier one is missing from the delay between its load and this     *)
(* one, and loads spawned by a transaction that then failed do not count.  *)
HostPolite ==
    [][\A p, q \in {r \in Pages : loaders'[r] > loaders[r]} :
         /\ HostOf(p) = HostOf(q) => p = q
         /\ asked[HostOf(p)] = 0 \/ asked[HostOf(p)] + HostDelay <= clock]_vars

(* A page that is pending has a loader that will settle it, unless that    *)
(* loader could not reach the database.                                    *)
PendingIsLoaded ==
    \A p \in Pages : page[p].status = "pend" => loaders[p] > 0 \/ p \in orphans

(* The cache knows the rules of the instance and the accesses in the       *)
(* database, through failing updates and restarts; unless the rules could  *)
(* not be read, the COMMIT after an update failed, or start failed.        *)
CacheTruthful ==
    ~tainted /\ cache.known /\ stage = "load" =>
      /\ cache.rules = rules
      /\ \A p \in Pages : cache.access[p] \in {"absent", page[p].access}

(* workerMain overshoots _maxWorkers by less than one granula, unless the  *)
(* workers of start alone are more.                                        *)
OwnWorkers == Cardinality(Workers) + NumHelpers
WorkersBounded == numWorkers <= OwnWorkers \/ numWorkers < MaxWorkers + Granula

(* stop returns only when no worker and no loader runs, so that nobody     *)
(* uses the database pool it resets.                                       *)
StopDrains ==
    service = "stopped" => /\ \A w \in Workers : worker[w] = "off"
                           /\ helpers = 0
                           /\ \A p \in Pages : loaders[p] = 0

(* Workers are within their limit, and all gone when stop returns. *)
WorkersAccounted == WorkersBounded /\ StopDrains

(* stop returns: the last worker's event is not missed.  Excepted is a     *)
(* merger that makes its report: it is still counted when that is done, and *)
(* ends only when somebody types, with the program.                        *)
StopReturns == service = "stopping" ~> (service \in {"stopped", "exited"} \/ merger = "asking")

=============================================================================
