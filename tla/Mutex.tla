------------------------------- MODULE Mutex -------------------------------
(***************************************************************************)
(* async::Mutex (src/async/impl/mutex.cpp): a lock for fibers.  Its state  *)
(* is the queue _owners, whose first element holds the lock and whose      *)
(* others sleep; unlock hands the lock to the next one and wakes it.  A    *)
(* fiber is queued under _mtx and yields after the unlock of _mtx, so it   *)
(* may be woken before it sleeps; the scheduler keeps that wake-up (see    *)
(* FiberScheduler: FiberWake, Activate, Requeue).                          *)
(*                                                                         *)
(* Fibers use the mutex through Mutex::ScopedLock, or tryLock and unlock:  *)
(* a fiber unlocks what it locked and does not lock what it holds.         *)
(***************************************************************************)
EXTENDS Naturals, Sequences

CONSTANT Fibers

VARIABLES owners,  \* Mutex::_owners
          pc,      \* where each fiber is
          wakes    \* Worker::fiberReady calls the fiber has not run for yet

vars == <<owners, pc, wakes>>

PC == {"out", "queued", "asleep", "in"}

Init ==
    /\ owners = <<>>
    /\ pc = [f \in Fibers |-> "out"]
    /\ wakes = [f \in Fibers |-> 0]

(* How lock queues a fiber, and the length at which it returns at once. *)
JoinInFront(queue, f) == <<f>> \o queue
Join(queue, f) == Append(queue, f)
FirstAmongTwo(queue) == Len(queue) <= 2
IsFirst(queue) == Len(queue) = 1

(* Mutex::lock: join the queue; the only element is the owner. *)
Lock(f) ==
    /\ pc[f] = "out"
    /\ owners' = Join(owners, f)
    /\ pc' = [pc EXCEPT ![f] = IF IsFirst(owners') THEN "in" ELSE "queued"]
    /\ UNCHANGED wakes

(* Mutex::tryLock that succeeds; one that fails changes nothing. *)
TryLock(f) ==
    /\ pc[f] = "out"
    /\ owners = <<>>
    /\ owners' = Join(owners, f)
    /\ pc' = [pc EXCEPT ![f] = "in"]
    /\ UNCHANGED wakes

(* The rest of Mutex::lock: Worker::fiberYield. *)
FiberYield(f) ==
    /\ pc[f] = "queued"
    /\ pc' = [pc EXCEPT ![f] = "asleep"]
    /\ UNCHANGED <<owners, wakes>>

Woken(f) == wakes[f] > 0

(* A worker takes the fiber out of the ready queue; lock returns. *)
Resume(f) ==
    /\ pc[f] = "asleep"
    /\ Woken(f)
    /\ wakes' = [wakes EXCEPT ![f] = @ - 1]
    /\ pc' = [pc EXCEPT ![f] = "in"]
    /\ UNCHANGED owners

(* Who is woken when the owner has been erased from the queue. *)
WakeNobody(queue) == {}
ToWake(queue) == IF queue = <<>> THEN {} ELSE {Head(queue)}

(* Mutex::unlock. *)
Unlock(f) ==
    /\ pc[f] = "in"
    /\ owners # <<>>
    /\ owners' = Tail(owners)
    /\ wakes' = [g \in Fibers |-> IF g \in ToWake(owners') THEN wakes[g] + 1 ELSE wakes[g]]
    /\ pc' = [pc EXCEPT ![f] = "out"]

(* What a fiber inside the mutex does by itself. *)
Step(f) == FiberYield(f) \/ Resume(f) \/ Unlock(f)

Next == \E f \in Fibers : Lock(f) \/ TryLock(f) \/ Step(f)

Spec == Init /\ [][Next]_vars

(* ScopedLock releases the mutex at the end of its scope, and FiberScheduler *)
(* runs a fiber that was woken (WokenFiberRuns).                             *)
MutexFairness == \A f \in Fibers : WF_vars(Step(f))

FairSpec == Spec /\ MutexFairness

-----------------------------------------------------------------------------
(* The state of a Mutex and the stages of Mutex::lock. *)
TypeOK ==
    /\ owners \in Seq(Fibers)
    /\ pc \in [Fibers -> PC]
    /\ wakes \in [Fibers -> Nat]

(* The fibers between a return of Mutex::lock and Mutex::unlock are at     *)
(* most one, whatever the order of queueing, waking, yielding and running. *)
MutualExclusion == \A f, g \in Fibers : pc[f] = "in" /\ pc[g] = "in" => f = g

(* A fiber is in the queue once, from Mutex::lock to Mutex::unlock. *)
QueuedOnce ==
    /\ \A i, j \in 1 .. Len(owners) : owners[i] = owners[j] => i = j
    /\ \A f \in Fibers : pc[f] # "out" <=> \E i \in 1 .. Len(owners) : owners[i] = f

(* The first of the queue runs or has been woken once; no other has. *)
LockWithFirst ==
    \A i \in 1 .. Len(owners) :
        IF i = 1 THEN wakes[owners[i]] = (IF pc[owners[i]] = "in" THEN 0 ELSE 1)
                 ELSE wakes[owners[i]] = 0 /\ pc[owners[i]] # "in"

(* A fiber outside the mutex has no wake-up left over from it. *)
NoStrayWake == \A f \in Fibers : pc[f] = "out" => wakes[f] = 0

(* The lock is always with the first of the queue and with nobody else:    *)
(* Mutex::unlock passes it on by one fiberReady, to a fiber that is asleep *)
(* or about to be, and lock takes it only when the queue was empty.        *)
LockHandedOver == QueuedOnce /\ LockWithFirst /\ NoStrayWake

(* Every fiber that calls Mutex::lock returns from it: no wake-up of       *)
(* Mutex::unlock is lost, and nobody overtakes the queue.                  *)
LockReturns == \A f \in Fibers : pc[f] \in {"queued", "asleep"} ~> pc[f] = "in"

(* Fibers get the lock in the order in which they joined the queue: no     *)
(* step gives it to a fiber that has another one before it.                *)
FirstComeFirstServed ==
    [][ \A f, g \in Fibers :
          (\E i, j \in DOMAIN owners : i < j /\ owners[i] = f /\ owners[j] = g)
          => pc'[g] # "in" ]_vars
=============================================================================
