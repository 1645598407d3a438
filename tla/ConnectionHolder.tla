-------------------------- MODULE ConnectionHolder --------------------------
(***************************************************************************)
(* pgc::impl::ConnectionHolder (src/pgc/impl/connectionHolder.cpp): one    *)
(* PostgreSQL session, lent by the pool to one client after another.       *)
(* Clients push requests; fibers that run processRequest_f, one at a time  *)
(* under _mtxProcess, send them.  A statement is prepared on first use     *)
(* under a random name that the cache _prepareds remembers; inside a       *)
(* transaction a savepoint protects it.  endWork cleans the session.       *)
(*                                                                         *)
(* One action is one exchange with the server, or the code between two     *)
(* exchanges.  libpq and the server are external (Served): a command       *)
(* succeeds, fails with an error code, or finds the session lost.  Asserts *)
(* do not stop the program.  Clients wait for all their answers before     *)
(* they give the connection back, as every caller under src/ does.         *)
(***************************************************************************)
EXTENDS Naturals, Sequences, FiniteSets

CONSTANTS Procs,        \* fibers that run processRequest_f
          Prids,        \* names that pridGenerator may return
          MaxPrepared,  \* ConnectionHolder::_max
          Timeout,      \* ConnectionHolder::_timeout
          MaxRequests,  \* bound: requests in a run
          MaxTime       \* bound: readings of the clock

ASSUME HolderAssumption ==
    /\ IsFiniteSet(Procs) /\ IsFiniteSet(Prids)
    /\ MaxPrepared \in Nat /\ Timeout \in Nat
    /\ MaxRequests \in Nat /\ MaxTime \in Nat

Sqls == {"BEGIN", "COMMIT", "work"}

VARIABLES
    requests,   \* _requests: the requests and their numbers
    prepareds,  \* _prepareds, by statement
    now,        \* _now, 0 when it is not a date
    pc,         \* where each fiber is in processRequest_f
    job,        \* the request each fiber works on
    inTrans,    \* local variable of processQueryWithPrepare
    server,     \* the session: status, transaction, prepared statements
    pushed,     \* number of requests so far
    answers,    \* numbers of the requests whose future was set, in order
    client,     \* what the client that holds the connection does
    clock

holder == <<requests, prepareds, now>>
fibers == <<pc, job, inTrans>>
holderVars == <<holder, fibers, server, pushed, answers, client, clock>>

NoJob == [kind |-> "none", sql |-> "none", id |-> 0]

HolderInit ==
    /\ requests = <<>>
    /\ prepareds = <<>>
    /\ now = 0
    /\ pc = [f \in Procs |-> "none"]
    /\ job = [f \in Procs |-> NoJob]
    /\ inTrans = [f \in Procs |-> FALSE]
    /\ server = [status |-> "ok", trans |-> "idle", named |-> <<>>]
    /\ pushed = 0
    /\ answers = <<>>
    /\ client = "none"
    /\ clock = 1

-----------------------------------------------------------------------------
(* The server.  Served(cmd, name, sql) is what the session may be after a  *)
(* command, and the code of the answer.                                    *)

Without(fn, x) == [y \in DOMAIN fn \ {x} |-> fn[y]]
With(fn, x, v) == [y \in DOMAIN fn \cup {x} |-> IF y = x THEN v ELSE fn[y]]

Lost == [status |-> "lost", trans |-> "unknown", named |-> server.named]

(* A command that ends in an error aborts the transaction it is in. *)
Refused(code) ==
    [code |-> code,
     server |-> [server EXCEPT !.trans = IF @ = "idle" THEN "idle" ELSE "inerror"]]
Accepted(t) == [code |-> "ok", server |-> [server EXCEPT !.trans = t]]

Statement(sql) ==
    CASE sql = "BEGIN" -> {IF server.trans = "inerror" THEN Refused("25P02") ELSE Accepted("intrans")}
      [] sql \in {"COMMIT", "ROLLBACK"} -> {Accepted("idle")}
      [] OTHER -> IF server.trans = "inerror" THEN {Refused("25P02")}
                  ELSE {Accepted(server.trans), Refused("error")}

Prepared(name, sql) ==
    IF server.trans = "inerror" THEN {Refused("25P02")}
    ELSE IF name \in DOMAIN server.named THEN {Refused("42P05")}
    ELSE {[code |-> "ok", server |-> [server EXCEPT !.named = With(@, name, sql)]],
          Refused("error")}
Executed(name) ==
    IF name \in DOMAIN server.named THEN Statement(server.named[name]) ELSE {Refused("26000")}
Deallocated(name) ==
    IF server.trans = "inerror" THEN {Refused("25P02")}
    ELSE IF name \notin DOMAIN server.named THEN {Refused("26000")}
    ELSE {[code |-> "ok", server |-> [server EXCEPT !.named = Without(@, name)]]}

Served(cmd, name, sql) ==
    {[code |-> "lost", server |-> Lost]} \cup
    IF server.status # "ok" THEN {}
    ELSE CASE cmd = "QUERY" -> Statement(sql)
           [] cmd = "ROLLBACK TO" -> {Accepted("intrans")}
           [] cmd \in {"SAVEPOINT", "RELEASE"} ->
                {IF server.trans = "intrans" THEN Accepted("intrans") ELSE Refused("25P02")}
           [] cmd = "PREPARE" -> Prepared(name, sql)
           [] cmd = "EXECUTE" -> Executed(name)
           [] cmd = "DEALLOCATE" -> Deallocated(name)

-----------------------------------------------------------------------------
(* The client side. *)

(* pushRequest: the fiber is spawned when the queue was empty, whether or  *)
(* not another one is still busy with what it took out of it.              *)
Push(k, s) ==
    /\ pushed < MaxRequests
    /\ pushed' = pushed + 1
    /\ requests' = Append(requests, [kind |-> k, sql |-> s, id |-> pushed + 1])
    /\ IF requests = <<>>
       THEN \E f \in Procs : pc[f] = "none" /\ pc' = [pc EXCEPT ![f] = "spawned"]
       ELSE pc' = pc

AllAnswered == Len(answers) = pushed

(* beginWork. *)
BeginWork ==
    /\ client = "none"
    /\ client' = "work"
    /\ now' = clock
    /\ UNCHANGED <<requests, prepareds, fibers, server, pushed, answers, clock>>

(* runQuery and runQueryWithPrepare; the client need not wait in between.  *)
(* The last two requests are left for endWork.                             *)
Query ==
    /\ client = "work"
    /\ pushed + 2 < MaxRequests
    /\ \E k \in {"query", "prepared"}, s \in Sqls : Push(k, s)
    /\ UNCHANGED <<prepareds, now, job, inTrans, server, answers, client, clock>>

(* PQtransactionStatus says PQTRANS_INTRANS or PQTRANS_INERROR. *)
InTransaction == server.trans \in {"intrans", "inerror"}

(* endWork up to its first wait; an unknown transaction counts as none. *)
EndWork ==
    /\ client = "work"
    /\ AllAnswered
    /\ IF InTransaction
       THEN client' = "rollback" /\ Push("query", "ROLLBACK")
       ELSE client' = "end" /\ Push("end", "none")
    /\ UNCHANGED <<prepareds, now, job, inTrans, server, answers, clock>>

(* endWork after the rollback. *)
EndWorkRolledBack ==
    /\ client = "rollback"
    /\ AllAnswered
    /\ client' = "end"
    /\ Push("end", "none")
    /\ UNCHANGED <<prepareds, now, job, inTrans, server, answers, clock>>

(* The last line of endWork: Db::unwork keeps the holder or drops it. *)
GiveBack ==
    /\ client = "end"
    /\ AllAnswered
    /\ client' = IF server.status = "ok" THEN "none" ELSE "gone"
    /\ UNCHANGED <<holder, fibers, server, pushed, answers, clock>>

Tick ==
    /\ clock < MaxTime
    /\ clock' = clock + 1
    /\ UNCHANGED <<holder, fibers, server, pushed, answers, client>>

-----------------------------------------------------------------------------
(* processRequest_f. *)

MutexIgnored == TRUE
MutexFree == \A f \in Procs : pc[f] \in {"none", "spawned"}

Lock(f) ==
    /\ pc[f] = "spawned"
    /\ MutexFree
    /\ pc' = [pc EXCEPT ![f] = "pick"]
    /\ UNCHANGED <<holder, job, inTrans, server, pushed, answers, client, clock>>

(* getPrid of a cached statement, and of a new one with a generated name. *)
Touched(s) == [prepareds EXCEPT ![s].access = now]
Named(s, p) == With(prepareds, s, [prid |-> p, access |-> now, create |-> now])
Prid(s) == prepareds[s].prid

(* genPrid: another name for a cached statement. *)
OldName(s, p) == prepareds
genPrid(s, p) == [prepareds EXCEPT ![s].prid = p]

KeepPrepared(s) == prepareds
delPrepared(s) == Without(prepareds, s)

(* The queue is empty, or the session is bad and all requests fail. *)
Leave(f) ==
    /\ pc[f] = "pick"
    /\ requests = <<>> \/ server.status # "ok"
    /\ answers' = answers \o [i \in 1 .. Len(requests) |-> requests[i].id]
    /\ requests' = <<>>
    /\ pc' = [pc EXCEPT ![f] = "none"]
    /\ UNCHANGED <<prepareds, now, job, inTrans, server, pushed, client, clock>>

(* The first request is taken out, and run up to its first exchange. *)
Pick(f) ==
    /\ pc[f] = "pick"
    /\ requests # <<>> /\ server.status = "ok"
    /\ LET r == Head(requests) IN
         /\ job' = [job EXCEPT ![f] = r]
         /\ requests' = Tail(requests)
         /\ CASE r.kind = "prepared" /\ r.sql \in DOMAIN prepareds ->
                   /\ pc' = [pc EXCEPT ![f] = "execute"]
                   /\ prepareds' = Touched(r.sql)
                   /\ UNCHANGED inTrans
              [] r.kind = "prepared" /\ r.sql \notin DOMAIN prepareds ->
                   /\ inTrans' = [inTrans EXCEPT ![f] = InTransaction]
                   /\ pc' = [pc EXCEPT ![f] = IF InTransaction THEN "savepoint" ELSE "prepare"]
                   /\ \E p \in Prids : prepareds' = Named(r.sql, p)
              [] r.kind = "query" ->
                   pc' = [pc EXCEPT ![f] = "query"] /\ UNCHANGED <<prepareds, inTrans>>
              [] r.kind = "end" ->
                   pc' = [pc EXCEPT ![f] = "evict"] /\ UNCHANGED <<prepareds, inTrans>>
    /\ UNCHANGED <<now, server, pushed, answers, client, clock>>

(* The future of the request is set and the loop goes on. *)
Answer(f) ==
    /\ pc' = [pc EXCEPT ![f] = "pick"]
    /\ job' = [job EXCEPT ![f] = NoJob]
    /\ answers' = Append(answers, job[f].id)
GoOn(f, where) ==
    /\ pc' = [pc EXCEPT ![f] = where]
    /\ UNCHANGED <<job, answers>>

(* runQuery_f and runQueryPrepared_f, sent and received by processSingle. *)
Run(f) ==
    /\ \/ pc[f] = "query" /\ \E r \in Served("QUERY", "none", job[f].sql) : server' = r.server
       \/ pc[f] = "execute" /\ \E r \in Served("EXECUTE", Prid(job[f].sql), "none") : server' = r.server
    /\ Answer(f)
    /\ UNCHANGED <<holder, inTrans, pushed, client, clock>>


(* A step of processQueryWithPrepare that must succeed. *)
Guarded(f, here, cmd, next) ==
    /\ pc[f] = here
    /\ \E r \in Served(cmd, Prid(job[f].sql), job[f].sql) :
         /\ server' = r.server
         /\ IF r.code = "ok"
            THEN GoOn(f, next) /\ UNCHANGED prepareds
            ELSE Answer(f) /\ prepareds' = delPrepared(job[f].sql)
    /\ UNCHANGED <<requests, now, inTrans, pushed, client, clock>>

Savepoint(f) == Guarded(f, "savepoint", "SAVEPOINT", "prepare")
Release(f) == Guarded(f, "release", "RELEASE", "execute")

(* runPrepare_f.  A name in use is replaced in a transaction, and tried    *)
(* again outside of one.                                                   *)
Prepare(f) ==
    LET s == job[f].sql IN
    /\ pc[f] = "prepare"
    /\ \E r \in Served("PREPARE", Prid(s), s) :
         /\ server' = r.server
         /\ CASE r.code = "ok" ->
                   GoOn(f, IF inTrans[f] THEN "release" ELSE "execute") /\ UNCHANGED prepareds
              [] r.code = "42P05" /\ inTrans[f] ->
                   /\ GoOn(f, "rollbackTo")
                   /\ \E p \in Prids : prepareds' = genPrid(s, p)
              [] r.code = "42P05" /\ ~inTrans[f] -> GoOn(f, "prepare") /\ UNCHANGED prepareds
              [] OTHER -> Answer(f) /\ prepareds' = delPrepared(s)
    /\ UNCHANGED <<requests, now, inTrans, pushed, client, clock>>

(* Back to the savepoint of the old name, and all over with the new one. *)
RollbackTo(f) == Guarded(f, "rollbackTo", "ROLLBACK TO", "savepoint")

(* runEndWork_f: the least recently used statements beyond the maximum,    *)
(* then the oldest ones.  An error clears the cache and leaves _now set.   *)
Oldest(t) == {s \in DOMAIN prepareds : \A q \in DOMAIN prepareds : t[s] <= t[q]}
Evictable ==
    IF Cardinality(DOMAIN prepareds) > MaxPrepared
    THEN Oldest([s \in DOMAIN prepareds |-> prepareds[s].access])
    ELSE {s \in Oldest([q \in DOMAIN prepareds |-> prepareds[q].create]) :
             prepareds[s].create + Timeout < now}

Evict(f) ==
    /\ pc[f] = "evict"
    /\ \E s \in Evictable :
         \E r \in Served("DEALLOCATE", Prid(s), "none") :
            /\ server' = r.server
            /\ IF r.code \in {"ok", "26000"}
               THEN prepareds' = delPrepared(s) /\ UNCHANGED <<pc, job, answers>>
               ELSE prepareds' = <<>> /\ Answer(f)
    /\ UNCHANGED <<requests, now, inTrans, pushed, client, clock>>

EndWorkDone(f) ==
    /\ pc[f] = "evict"
    /\ Evictable = {}
    /\ now' = 0
    /\ Answer(f)
    /\ UNCHANGED <<requests, prepareds, inTrans, server, pushed, client, clock>>

Process(f) ==
    \/ Lock(f) \/ Leave(f) \/ Pick(f) \/ Run(f)
    \/ Savepoint(f) \/ Prepare(f) \/ RollbackTo(f) \/ Release(f)
    \/ Evict(f) \/ EndWorkDone(f)

HolderNext ==
    \/ BeginWork \/ Query \/ EndWork \/ EndWorkRolledBack \/ GiveBack \/ Tick
    \/ \E f \in Procs : Process(f)

HolderSpec == HolderInit /\ [][HolderNext]_holderVars

(* The generator returned a name that the server does not know. *)
FreshName(f) ==
    /\ Prepare(f)
    /\ pc'[f] = "rollbackTo"
    /\ prepareds'[job[f].sql].prid \notin DOMAIN server.named

(* Fibers that can run do run, a fiber that waits in endWork goes on, and  *)
(* the random names of a statement do not collide for ever.                *)
HolderFairness ==
    /\ \A f \in Procs : WF_holderVars(Process(f)) /\ SF_holderVars(FreshName(f))
    /\ WF_holderVars(EndWorkRolledBack) /\ WF_holderVars(GiveBack)

HolderFairSpec == HolderSpec /\ HolderFairness

-----------------------------------------------------------------------------
(* Properties. *)

(* Futures are set in the order of the requests and each one once, though  *)
(* pushRequest may spawn a second fiber while the first is still busy.     *)
AnsweredInOrder == answers = [i \in 1 .. Len(answers) |-> i]

(* What the cache says is prepared is prepared on the server, under that   *)
(* name and with that text, whatever errors, rollbacks, evictions and name *)
(* collisions there were; except what is being prepared right now.         *)
CacheAgrees ==
    server.status = "ok" =>
      \A s \in DOMAIN prepareds :
         \/ \E f \in Procs :
              pc[f] \in {"savepoint", "prepare", "rollbackTo"} /\ job[f].sql = s
         \/ Prid(s) \in DOMAIN server.named /\ server.named[Prid(s)] = s

(* A connection in the pool is clean: no transaction, no requests, no work *)
(* begun (which beginWork asserts), and the cache within its maximum.      *)
PoolClean ==
    client = "none" =>
      /\ server.trans = "idle"
      /\ requests = <<>> /\ now = 0
      /\ Cardinality(DOMAIN prepareds) <= MaxPrepared

(* The cache of prepared statements is true of the server, and what goes   *)
(* back to the pool is clean.                                              *)
HolderConsistent == CacheAgrees /\ PoolClean

(* A name collision outside a transaction, which is retried for ever. *)
Collides(f) ==
    /\ pc[f] = "prepare" /\ ~inTrans[f]
    /\ Prid(job[f].sql) \in DOMAIN server.named

(* Every request is answered, if only with an error. *)
RequestsAnswered ==
    ~AllAnswered ~> (AllAnswered \/ \E f \in Procs : Collides(f))

=============================================================================
