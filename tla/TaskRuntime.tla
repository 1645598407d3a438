----------------------------- MODULE TaskRuntime -----------------------------
(***************************************************************************)
(* What lib async promises the code that runs on it, without fibers,       *)
(* queues or locks: a task is started at most once, runs on one worker at  *)
(* a time, is resumed only after it was woken and only once its stack has  *)
(* left the worker it was suspended on.  A task that waited in the         *)
(* overflow queue may be dropped before it starts: the runtime makes no    *)
(* stronger promise.                                                       *)
(***************************************************************************)
EXTENDS Naturals, FiniteSets

CONSTANTS Workers, Tasks,
          MaxLive,   \* tasks that may be started and not finished at once
          None

VARIABLES status,    \* what became of each task
          on         \* the task whose stack each worker is on, or None

Status == {"new", "pending", "running", "suspended", "woken", "done", "dropped"}

RuntimeInit ==
    /\ status = [t \in Tasks |-> "new"]
    /\ on = [w \in Workers |-> None]

Live == {t \in Tasks : status[t] \in {"running", "suspended", "woken"}}

Become(t, from, to) ==
    /\ status[t] = from
    /\ status' = [status EXCEPT ![t] = to]

Submit(t) == Become(t, "new", "pending") /\ UNCHANGED on
Drop(t)   == Become(t, "pending", "dropped") /\ UNCHANGED on

(* Handed to code that already runs, and run to its end there. *)
RunNested(t) == Become(t, "new", "done") /\ UNCHANGED on

Start(w, t) ==
    /\ on[w] = None
    /\ Cardinality(Live) < MaxLive
    /\ Become(t, "pending", "running")
    /\ on' = [on EXCEPT ![w] = t]

Suspend(w) == on[w] # None /\ Become(on[w], "running", "suspended") /\ UNCHANGED on
Yield(w)   == on[w] # None /\ Become(on[w], "running", "woken") /\ UNCHANGED on
Wake(t)    == Become(t, "suspended", "woken") /\ UNCHANGED on

Finish(w) ==
    /\ on[w] # None
    /\ Become(on[w], "running", "done")
    /\ on' = [on EXCEPT ![w] = None]

(* The stack of a task that stopped running leaves its worker. *)
Release(w) ==
    /\ on[w] # None
    /\ status[on[w]] # "running"
    /\ on' = [on EXCEPT ![w] = None]
    /\ UNCHANGED status

Resume(w, t) ==
    /\ on[w] = None
    /\ \A v \in Workers : on[v] # t
    /\ Become(t, "woken", "running")
    /\ on' = [on EXCEPT ![w] = t]

RuntimeNext ==
    \/ \E t \in Tasks : Submit(t) \/ Drop(t) \/ RunNested(t) \/ Wake(t)
    \/ \E w \in Workers :
        \/ Suspend(w) \/ Yield(w) \/ Finish(w) \/ Release(w)
        \/ \E t \in Tasks : Start(w, t) \/ Resume(w, t)

RuntimeSpec == RuntimeInit /\ [][RuntimeNext]_<<status, on>>
=============================================================================
