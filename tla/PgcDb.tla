------------------------------- MODULE PgcDb -------------------------------
(***************************************************************************)
(* pgc::Db (src/pgc/impl/db.cpp): a pool of PostgreSQL connections shared  *)
(* by fibers.  allocConnection answers with a ready connection or queues   *)
(* the caller; balanceConnections closes what exceeds the maximum, hands   *)
(* ready connections to the queue and spawns makeConnection; a connection  *)
(* comes back through ~Connection and unwork.  reset empties the pool.     *)
(*                                                                         *)
(* One action is one critical section of Db::_mtx.  Calls that were        *)
(* spawned, or follow a critical section in the same function, are counted *)
(* until they run.  libpq and the server are external: starting and        *)
(* polling a connection succeed or fail, and PQstatus of a connection in   *)
(* use may turn bad; while it is in the pool nobody calls libpq with it.   *)
(***************************************************************************)
EXTENDS Naturals, Sequences, FiniteSets, FiniteSetsExt

CONSTANTS Clients,         \* fibers that use the pool
          Conns,           \* ConnectionHolder objects
          MaxConnections,  \* argument of the constructor
          MaxPending,      \* bound: calls spawned and not run yet, per kind
          None

ASSUME DbAssumption ==
    /\ IsFiniteSet(Clients) /\ IsFiniteSet(Conns)
    /\ MaxConnections \in Nat \ {0}
    /\ MaxPending \in Nat
    /\ None \notin Conns

VARIABLES
    maxConnections,  \* Db::_maxConnections, 0 after reset
    start,           \* Db::_startConnections
    ready,           \* Db::_readyConnections
    work,            \* Db::_workConnections
    waiters,         \* Db::_waiters, by the fiber that waits
    timers,          \* pending handlers of Db::_timeout; it is null if none
    status,          \* ConnectionHolder::status
    balances,        \* calls of balanceConnections that have not run yet
    makes,           \* calls of makeConnection that have not run yet
    conn,            \* the connection each client holds
    resetting        \* where Db::reset is

poolVars == <<maxConnections, start, ready, work, waiters, timers>>
vars == <<poolVars, status, balances, makes, conn, resetting>>

Init ==
    /\ maxConnections = MaxConnections
    /\ start = {} /\ ready = {} /\ work = {}
    /\ waiters = <<>>
    /\ timers = 0
    /\ status = [c \in Conns |-> "null"]
    /\ balances = 0 /\ makes = 0
    /\ conn = [u \in Clients |-> None]
    /\ resetting = "no"

Waiting == {waiters[i] : i \in 1 .. Len(waiters)}
Total == Cardinality(start) + Cardinality(ready) + Cardinality(work)

-----------------------------------------------------------------------------
(* The users of the pool. *)

(* Db::allocConnection: a ready connection at once, past those who wait;   *)
(* or wait and have the pool balanced.                                     *)
Alloc(u) ==
    /\ conn[u] = None /\ u \notin Waiting
    /\ \/ \E c \in ready :
            /\ status[c] = "ok"
            /\ conn' = [conn EXCEPT ![u] = c]
            /\ ready' = ready \ {c}
            /\ work' = work \cup {c}
            /\ UNCHANGED <<waiters, balances>>
       \/ /\ ready = {} \/ \E c \in ready : status[c] # "ok"
          /\ balances < MaxPending
          /\ waiters' = Append(waiters, u)
          /\ balances' = balances + 1
          /\ UNCHANGED <<conn, ready, work>>
    /\ UNCHANGED <<maxConnections, start, timers, status, makes, resetting>>

(* A query on the connection finds it broken. *)
Break(c) ==
    /\ c \in work
    /\ status[c] = "ok"
    /\ status' = [status EXCEPT ![c] = "lost"]
    /\ UNCHANGED <<poolVars, balances, makes, conn, resetting>>

Reusable(c) == status[c] = "ok"

(* The calls of balanceConnections after unwork. *)
BalanceForgotten == balances
BalanceAgain == balances + 1

(* ~Connection and Db::unwork: ready again if it is not broken. *)
Unwork(u) ==
    /\ conn[u] # None
    /\ balances < MaxPending
    /\ work' = work \ {conn[u]}
    /\ ready' = IF Reusable(conn[u]) THEN ready \cup {conn[u]} ELSE ready
    /\ conn' = [conn EXCEPT ![u] = None]
    /\ balances' = BalanceAgain
    /\ UNCHANGED <<maxConnections, start, waiters, timers, status, makes, resetting>>

-----------------------------------------------------------------------------
(* Db::balanceConnections. *)

(* How many ready connections are closed. *)
Excess ==
    IF Total > maxConnections
    THEN Min({Total - maxConnections, Cardinality(ready)}) ELSE 0

(* One more connection is to be opened when the clients q wait and the     *)
(* connections w are in use.                                               *)
Wanted(q, w) ==
    /\ q # <<>>
    /\ maxConnections > 0
    /\ start = {}
    /\ Cardinality(w) < maxConnections

Balance ==
    /\ balances > 0
    /\ makes < MaxPending
    /\ balances' = balances - 1
    /\ \E closed \in kSubset(Excess, ready) :
         LET kept == ready \ closed
             n == Min({Len(waiters), Cardinality(kept)})
             rest == SubSeq(waiters, n + 1, Len(waiters))
         IN  \E given \in [1 .. n -> kept] :
               /\ \A i, j \in 1 .. n : given[i] = given[j] => i = j
               /\ conn' = [u \in Clients |->
                             IF \E i \in 1 .. n : waiters[i] = u
                             THEN given[CHOOSE i \in 1 .. n : waiters[i] = u] ELSE conn[u]]
               /\ ready' = kept \ {given[i] : i \in 1 .. n}
               /\ work' = work \cup {given[i] : i \in 1 .. n}
               /\ waiters' = IF maxConnections = 0 THEN <<>> ELSE rest
               /\ makes' = IF Wanted(rest, work') THEN makes + 1 ELSE makes
               /\ status' = [c \in Conns |-> IF c \in closed THEN "null" ELSE status[c]]
    /\ UNCHANGED <<maxConnections, start, timers, resetting>>

-----------------------------------------------------------------------------
(* Making connections. *)

(* A timer is set when _timeout is null. *)
TimerNeeded == timers = 0

RetryLater == timers' = IF TimerNeeded THEN timers + 1 ELSE timers

MayStartAlways == TRUE
MayStart == start = {}

(* Db::makeConnection: only one at a time; the maximum is not looked at.   *)
(* PQconnectStart succeeds,                                                *)
MakeConnection ==
    /\ makes > 0
    /\ makes' = makes - 1
    /\ \/ /\ ~MayStart
          /\ UNCHANGED <<start, status>>
       \/ /\ MayStart
          /\ \E c \in Conns \ (start \cup ready \cup work) :
                /\ start' = start \cup {c}
                /\ status' = [status EXCEPT ![c] = "ok"]
    /\ UNCHANGED <<maxConnections, ready, work, waiters, timers, balances, conn, resetting>>

(* or fails. *)
MakeConnectionFails ==
    /\ makes > 0
    /\ makes' = makes - 1
    /\ MayStart
    /\ RetryLater
    /\ UNCHANGED <<maxConnections, start, ready, work, waiters, status, balances, conn, resetting>>

(* makeConnection_poll ends with esOk, *)
PollOk(c) ==
    /\ c \in start
    /\ balances < MaxPending
    /\ start' = start \ {c}
    /\ ready' = ready \cup {c}
    /\ balances' = balances + 1
    /\ UNCHANGED <<maxConnections, work, waiters, timers, status, makes, conn, resetting>>

(* or with esBad. *)
PollBad(c) ==
    /\ c \in start
    /\ balances < MaxPending
    /\ start' = start \ {c}
    /\ status' = [status EXCEPT ![c] = "null"]
    /\ \/ /\ maxConnections = 0
          /\ balances' = balances + 1
          /\ UNCHANGED timers
       \/ /\ maxConnections > 0
          /\ RetryLater
          /\ UNCHANGED balances
    /\ UNCHANGED <<maxConnections, ready, work, waiters, makes, conn, resetting>>

(* Db::onRebalanceTimer, also when reset cancelled the timer. *)
OnRebalanceTimer ==
    /\ timers > 0
    /\ balances < MaxPending
    /\ timers' = 0
    /\ balances' = balances + 1
    /\ UNCHANGED <<maxConnections, start, ready, work, waiters, status, makes, conn, resetting>>

-----------------------------------------------------------------------------
(* Db::reset: the waiters get null connections, *)
Reset ==
    /\ resetting = "no"
    /\ resetting' = "draining"
    /\ maxConnections' = 0
    /\ waiters' = <<>>
    /\ UNCHANGED <<start, ready, work, timers, status, balances, makes, conn>>

(* and what is ready is closed every 50 milliseconds, until nothing is     *)
(* left.                                                                   *)
ResetDrain ==
    /\ resetting = "draining"
    /\ ready' = {}
    /\ status' = [c \in Conns |-> IF c \in ready THEN "null" ELSE status[c]]
    /\ resetting' = IF start = {} /\ work = {} THEN "done" ELSE "draining"
    /\ UNCHANGED <<maxConnections, start, work, waiters, timers, balances, makes, conn>>

-----------------------------------------------------------------------------
Next ==
    \/ \E u \in Clients : Alloc(u) \/ Unwork(u)
    \/ \E c \in Conns : Break(c) \/ PollOk(c) \/ PollBad(c)
    \/ Balance \/ MakeConnection \/ MakeConnectionFails \/ OnRebalanceTimer
    \/ Reset \/ ResetDrain

Spec == Init /\ [][Next]_vars

(* Spawned calls run, polling ends one way or the other, the timer fires,  *)
(* reset keeps looking, and a client gives its connection back.            *)
Fairness ==
    /\ WF_vars(Balance) /\ WF_vars(MakeConnection \/ MakeConnectionFails)
    /\ WF_vars(OnRebalanceTimer) /\ WF_vars(ResetDrain)
    /\ \A c \in Conns : WF_vars(PollOk(c) \/ PollBad(c))
    /\ \A u \in Clients : WF_vars(Unwork(u))

FairSpec == Spec /\ Fairness

-----------------------------------------------------------------------------
(* Properties. *)

(* The members of Db have their types, and _timeout is one timer at most. *)
TypeOK ==
    /\ maxConnections \in {0, MaxConnections}
    /\ start \subseteq Conns /\ ready \subseteq Conns /\ work \subseteq Conns
    /\ waiters \in Seq(Clients)
    /\ timers \in {0, 1}
    /\ status \in [Conns -> {"null", "ok", "lost"}]
    /\ balances \in 0 .. MaxPending /\ makes \in 0 .. MaxPending
    /\ conn \in [Clients -> Conns \cup {None}]
    /\ resetting \in {"no", "draining", "done"}

(* A connection is in one of the three sets at most, and in                *)
(* _workConnections exactly when one client holds it; connections are      *)
(* opened one at a time; what is ready is open and not broken; and nobody  *)
(* closes a connection a client holds.  The assertions of unwork,          *)
(* makeConnection_poll and beginWork are instances.                        *)
PoolConsistent ==
    /\ start \cap ready = {} /\ start \cap work = {} /\ ready \cap work = {}
    /\ work = {conn[u] : u \in Clients} \ {None}
    /\ \A u, v \in Clients : conn[u] = conn[v] /\ conn[u] # None => u = v
    /\ \A u \in Waiting : conn[u] = None
    /\ Cardinality(start) <= 1
    /\ \A c \in start \cup ready : status[c] = "ok"
    /\ \A c \in work : status[c] # "null"

(* The server accepts connections from some time on. *)
ServerComesUp == <>[][~(MakeConnectionFails \/ \E c \in Conns : PollBad(c))]_vars

(* allocConnection gives ready connections to newcomers, past the queue:   *)
(* the queue moves only if they do not come for ever.                      *)
AllocFinitelyOften == <>[][~ \E u \in Clients : Alloc(u)]_vars

(* Every future of allocConnection is set, with a connection or null: no   *)
(* order of balancing, connecting, retrying, giving back and resetting     *)
(* leaves a waiter that nobody will serve.                                 *)
AllocAnswered ==
    ServerComesUp /\ AllocFinitelyOften =>
        \A u \in Clients : u \in Waiting ~> u \notin Waiting

(* Option pgc.maxConnections, the "maximum number of connections to        *)
(* postgres database", is exceeded, since makeConnection does not look at  *)
(* it, but not for long: balanceConnections closes the excess.  After      *)
(* reset the maximum is 0, so reset returns and in the end no connection   *)
(* is left, not even one that a makeConnection spawned before reset opened *)
(* after reset had returned.                                               *)
LimitRestored ==
    AllocFinitelyOften =>
        /\ <>[](Total <= maxConnections)
        /\ resetting = "draining" ~> resetting = "done"

(* The pool serves its users: requests are answered, and the number of     *)
(* connections comes back to its maximum.                                  *)
PoolServes == AllocAnswered /\ LimitRestored
=============================================================================
