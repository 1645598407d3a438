------------------------------- MODULE Event -------------------------------
(***************************************************************************)
(* async::Event and async::EventWaiter (src/async/impl/event.cpp,          *)
(* include/async/eventWaiter.hpp): manual-reset events, which every Future *)
(* is, auto-reset events, and a wait for any of several events.            *)
(*                                                                         *)
(* Two kinds of boost::mutex are involved: Event::_mtx, and the _mtx of    *)
(* the MultiNotifier a waitAny call allocates.  waitAny holds its notifier *)
(* while it takes the events one after the other; set holds its event      *)
(* while it takes the notifiers registered there.  One action is what is   *)
(* done between two acquisitions of a mutex.  A fiber waits for a mutex    *)
(* with its worker thread blocked.                                         *)
(***************************************************************************)
EXTENDS Naturals, Sequences, FiniteSets, Functions

CONSTANTS Fibers, Events,
          AutoReset,  \* the events constructed with autoReset = true
          Broadcast,  \* the events set with all = true (scom's _evtIface)
          WaitLists,  \* the event lists EventWaiters are built over
          MaxSets,    \* bound: set calls in one behaviour (see Reset)
          None

(* EventWaiter holds copies of distinct events.  No caller combines all =  *)
(* true with auto-reset and waitAny, where set would go on with an         *)
(* iterator that its own erase made invalid.                               *)
ASSUME EventAssumption ==
    /\ IsFiniteSet(Fibers)
    /\ AutoReset \subseteq Events /\ Broadcast \subseteq Events
    /\ WaitLists \subseteq Seq(Events)
    /\ \A l \in WaitLists :
        /\ l # <<>>
        /\ \A i, j \in 1 .. Len(l) : l[i] = l[j] => i = j
        /\ \A i \in 1 .. Len(l) : l[i] \notin AutoReset \cap Broadcast
    /\ MaxSets \in Nat
    /\ None \notin Events /\ None \notin Fibers

VARIABLES
    isSet,      \* Event::_isSet
    waiters,    \* Event::_waiters
    mnWaiters,  \* Event::_mnWaiters: the notifiers, by their _initiator
    evLock,     \* the fiber that holds Event::_mtx across steps, or None
    pmnLock,    \* MultiNotifier::_mtx of the fiber's waitAny is held by it
    readyKey,   \* MultiNotifier::_readyKey of the fiber's waitAny
    list,       \* EventWaiter::_events from _current on
    todo,       \* the events waitAny has yet to register with or to cancel
    ev,         \* the event of the call the fiber is in
    pc,
    wakes,      \* Worker::fiberReady calls the fiber has not run for yet
    sets, taken \* history: effective set calls, waits ended, per event

vars == <<isSet, waiters, mnWaiters, evLock, pmnLock, readyKey, list, todo,
          ev, pc, wakes, sets, taken>>

PC == {"run", "notify", "wait", "register", "waitAny", "cancel"}

Init ==
    /\ isSet = [e \in Events |-> FALSE]
    /\ waiters = [e \in Events |-> <<>>]
    /\ mnWaiters = [e \in Events |-> <<>>]
    /\ evLock = [e \in Events |-> None]
    /\ pmnLock = [f \in Fibers |-> FALSE]
    /\ readyKey = [f \in Fibers |-> None]
    /\ list = [f \in Fibers |-> <<>>]
    /\ todo = [f \in Fibers |-> <<>>]
    /\ ev = [f \in Fibers |-> None]
    /\ pc = [f \in Fibers |-> "run"]
    /\ wakes = [f \in Fibers |-> 0]
    /\ sets = [e \in Events |-> 0]
    /\ taken = [e \in Events |-> 0]

Goto(f, l) == pc' = [pc EXCEPT ![f] = l]
Ready(S) == wakes' = [f \in Fibers |-> IF f \in S THEN wakes[f] + 1 ELSE wakes[f]]
Elements(s) == {s[i] : i \in 1 .. Len(s)}
Position(s, x) == CHOOSE i \in 1 .. Len(s) : s[i] = x

-----------------------------------------------------------------------------
(* Event::set. *)

(* Lock the event.  If it is set there is nothing to do; otherwise go      *)
(* through its notifiers.                                                  *)
SetBegin(f, e) ==
    /\ pc[f] = "run"
    /\ evLock[e] = None
    /\ ~isSet[e]
    /\ SumFunction(sets) < MaxSets
    /\ sets' = [sets EXCEPT ![e] = @ + 1]
    /\ evLock' = [evLock EXCEPT ![e] = f]
    /\ isSet' = [isSet EXCEPT ![e] = e \notin AutoReset]
    /\ ev' = [ev EXCEPT ![f] = e]
    /\ Goto(f, "notify")
    /\ UNCHANGED <<waiters, mnWaiters, pmnLock, readyKey, list, todo, wakes, taken>>

(* MultiNotifier::notifyReady would return true. *)
Notifiable(g) == readyKey[g] = None

(* notifyReady of the first notifier.  A waitAny that was woken or found   *)
(* an event set does not count: an auto-reset event tries the next one.    *)
Notify(f) ==
    LET e == ev[f]
        g == Head(mnWaiters[e])
    IN  /\ pc[f] = "notify"
        /\ mnWaiters[e] # <<>>
        /\ ~pmnLock[g]
        /\ mnWaiters' = [mnWaiters EXCEPT ![e] = Tail(@)]
        /\ \/ /\ Notifiable(g)
              /\ readyKey' = [readyKey EXCEPT ![g] = e]
              /\ Ready({g})
              /\ \/ /\ e \in AutoReset
                    /\ evLock' = [evLock EXCEPT ![e] = None]
                    /\ Goto(f, "run")
                 \/ /\ e \notin AutoReset
                    /\ UNCHANGED <<evLock, pc>>
           \/ /\ ~Notifiable(g)
              /\ UNCHANGED <<readyKey, wakes, evLock, pc>>
        /\ UNCHANGED <<isSet, waiters, pmnLock, list, todo, ev, sets, taken>>

(* Who is made ready of the fibers in Event::wait: all of them, or for an  *)
(* auto-reset event that is not set with all = true the first.             *)
ReleasedAlways(e) == 1 .. Len(waiters[e])
Released(e) ==
    IF e \in AutoReset /\ e \notin Broadcast
    THEN {i \in 1 .. Len(waiters[e]) : i = 1} ELSE 1 .. Len(waiters[e])

(* An auto-reset event stays set when nobody was activated. *)
KeptIfNobody(e) == e \notin AutoReset \/ Released(e) = {}

(* The rest of set, when no notifier is left. *)
SetEnd(f) ==
    LET e == ev[f]
    IN  /\ pc[f] = "notify"
        /\ mnWaiters[e] = <<>>
        /\ Ready({waiters[e][i] : i \in Released(e)})
        /\ waiters' = [waiters EXCEPT ![e] = SubSeq(@, Cardinality(Released(e)) + 1, Len(@))]
        /\ isSet' = [isSet EXCEPT ![e] = KeptIfNobody(e)]
        /\ evLock' = [evLock EXCEPT ![e] = None]
        /\ Goto(f, "run")
        /\ UNCHANGED <<mnWaiters, pmnLock, readyKey, list, todo, ev, sets, taken>>

-----------------------------------------------------------------------------
(* Event::reset and Event::wait. *)

(* The signal an auto-reset event loses here is taken out of the count. *)
Reset(f, e) ==
    /\ pc[f] = "run"
    /\ evLock[e] = None
    /\ isSet[e]
    /\ isSet' = [isSet EXCEPT ![e] = FALSE]
    /\ sets' = [sets EXCEPT ![e] = @ - (IF e \in AutoReset THEN 1 ELSE 0)]
    /\ UNCHANGED <<waiters, mnWaiters, evLock, pmnLock, readyKey, list, todo, ev, pc, wakes, taken>>

(* A wait takes the signal of an auto-reset event it finds set. *)
Take(e) == isSet' = [isSet EXCEPT ![e] = e \notin AutoReset]
Took(e) == taken' = [taken EXCEPT ![e] = @ + (IF e \in AutoReset THEN 1 ELSE 0)]

(* wait returns at once, or the fiber joins the waiters, unlocks, yields. *)
Wait(f, e) ==
    /\ pc[f] = "run"
    /\ evLock[e] = None
    /\ \/ /\ isSet[e]
          /\ Take(e)
          /\ Took(e)
          /\ UNCHANGED <<waiters, ev, pc>>
       \/ /\ ~isSet[e]
          /\ waiters' = [waiters EXCEPT ![e] = Append(@, f)]
          /\ ev' = [ev EXCEPT ![f] = e]
          /\ Goto(f, "wait")
          /\ UNCHANGED <<isSet, taken>>
    /\ UNCHANGED <<mnWaiters, evLock, pmnLock, readyKey, list, todo, wakes, sets>>

Woken(f) == wakes[f] > 0

(* The fiber was made ready and runs: wait returns. *)
WaitResume(f) ==
    /\ pc[f] = "wait"
    /\ Woken(f)
    /\ wakes' = [wakes EXCEPT ![f] = @ - 1]
    /\ Took(ev[f])
    /\ Goto(f, "run")
    /\ UNCHANGED <<isSet, waiters, mnWaiters, evLock, pmnLock, readyKey, list, todo, ev, sets>>

-----------------------------------------------------------------------------
(* EventWaiter::wait and Event::waitAny. *)

(* A new EventWaiter, or the next wait of one: waitAny over the events not *)
(* reported yet, with a new notifier, whose mutex it locks first.          *)
WaitAny(f) ==
    /\ pc[f] = "run"
    /\ \E l \in WaitLists \cup {list[f]} :
        /\ l # <<>>
        /\ list' = [list EXCEPT ![f] = l]
        /\ todo' = [todo EXCEPT ![f] = l]
    /\ pmnLock' = [pmnLock EXCEPT ![f] = TRUE]
    /\ readyKey' = [readyKey EXCEPT ![f] = None]
    /\ Goto(f, "register")
    /\ UNCHANGED <<isSet, waiters, mnWaiters, evLock, ev, wakes, sets, taken>>

(* The notifiers' mutex when an event was found set: unlocked before the   *)
(* registrations are rolled back.                                          *)
HeldForRollback(f) == pmnLock
UnlockedForRollback(f) == [pmnLock EXCEPT ![f] = FALSE]

(* mnWait with the next event: registered, or it is set and waitAny rolls  *)
(* back the earlier registrations.  After the last one waitAny unlocks its *)
(* notifier and yields.                                                    *)
Register(f) ==
    LET e == Head(todo[f])
    IN  /\ pc[f] = "register"
        /\ evLock[e] = None
        /\ \/ /\ isSet[e]
              /\ Take(e)
              /\ readyKey' = [readyKey EXCEPT ![f] = e]
              /\ pmnLock' = UnlockedForRollback(f)
              /\ todo' = [todo EXCEPT ![f] = SubSeq(list[f], 1, Len(list[f]) - Len(@))]
              /\ Goto(f, "cancel")
              /\ UNCHANGED mnWaiters
           \/ /\ ~isSet[e]
              /\ mnWaiters' = [mnWaiters EXCEPT ![e] = Append(@, f)]
              /\ todo' = [todo EXCEPT ![f] = Tail(@)]
              /\ pmnLock' = [pmnLock EXCEPT ![f] = Len(todo[f]) > 1]
              /\ Goto(f, IF Len(todo[f]) > 1 THEN "register" ELSE "waitAny")
              /\ UNCHANGED <<isSet, readyKey>>
        /\ UNCHANGED <<waiters, evLock, list, ev, wakes, sets, taken>>

(* The first place of x is erased, as Event::mnCancel does with a notifier *)
(* and the loops around it with the event not to be cancelled.             *)
NotErased(s, x) == s
Erased(s, x) ==
    IF x \in Elements(s)
    THEN SubSeq(s, 1, Position(s, x) - 1) \o SubSeq(s, Position(s, x) + 1, Len(s))
    ELSE s

(* The fiber was made ready and runs: the other events are to be cancelled. *)
WaitAnyResume(f) ==
    /\ pc[f] = "waitAny"
    /\ Woken(f)
    /\ wakes' = [wakes EXCEPT ![f] = @ - 1]
    /\ todo' = [todo EXCEPT ![f] = Erased(list[f], readyKey[f])]
    /\ Goto(f, "cancel")
    /\ UNCHANGED <<isSet, waiters, mnWaiters, evLock, pmnLock, readyKey, list, ev, sets, taken>>

(* mnCancel with the next of them. *)
Cancel(f) ==
    /\ pc[f] = "cancel"
    /\ todo[f] # <<>>
    /\ evLock[Head(todo[f])] = None
    /\ mnWaiters' = [mnWaiters EXCEPT ![Head(todo[f])] = Erased(@, f)]
    /\ todo' = [todo EXCEPT ![f] = Tail(@)]
    /\ UNCHANGED <<isSet, waiters, evLock, pmnLock, readyKey, list, ev, pc, wakes, sets, taken>>

(* EventWaiter::wait swaps the event to the front; _current passes it. *)
Remaining(l, e) == Tail([i \in 1 .. Len(l) |->
                            IF i = 1 THEN e ELSE IF l[i] = e THEN l[1] ELSE l[i]])

WaitAnyReturn(f) ==
    /\ pc[f] = "cancel"
    /\ todo[f] = <<>>
    /\ list' = [list EXCEPT ![f] = Remaining(@, readyKey[f])]
    /\ Took(readyKey[f])
    /\ readyKey' = [readyKey EXCEPT ![f] = None]
    /\ Goto(f, "run")
    /\ UNCHANGED <<isSet, waiters, mnWaiters, evLock, pmnLock, todo, ev, wakes, sets>>

-----------------------------------------------------------------------------
Next ==
    \E f \in Fibers :
        \/ \E e \in Events : SetBegin(f, e) \/ Reset(f, e) \/ Wait(f, e)
        \/ Notify(f) \/ SetEnd(f)
        \/ WaitResume(f)
        \/ WaitAny(f) \/ Register(f) \/ WaitAnyResume(f) \/ Cancel(f) \/ WaitAnyReturn(f)

Spec == Init /\ [][Next]_vars

-----------------------------------------------------------------------------
(* Properties. *)

(* The members of Event, MultiNotifier and EventWaiter have their types. *)
TypeOK ==
    /\ isSet \in [Events -> BOOLEAN]
    /\ waiters \in [Events -> Seq(Fibers)]
    /\ mnWaiters \in [Events -> Seq(Fibers)]
    /\ evLock \in [Events -> Fibers \cup {None}]
    /\ pmnLock \in [Fibers -> BOOLEAN]
    /\ readyKey \in [Fibers -> Events \cup {None}]
    /\ list \in [Fibers -> Seq(Events)]
    /\ todo \in [Fibers -> Seq(Events)]
    /\ ev \in [Fibers -> Events \cup {None}]
    /\ pc \in [Fibers -> PC]
    /\ wakes \in [Fibers -> Nat]
    /\ sets \in [Events -> Nat]
    /\ taken \in [Events -> Nat]

(* An event that is set has nobody waiting for it: set and waitAny leave   *)
(* no fiber asleep on an event whose signal is there to take.  The         *)
(* assertion in Event::reset is the half of it about _waiters.             *)
SetMeansNoWaiters ==
    \A e \in Events : isSet[e] /\ evLock[e] = None => waiters[e] = <<>> /\ mnWaiters[e] = <<>>

Times(f, s) == Cardinality({i \in 1 .. Len(s) : s[i] = f})

(* A fiber that sleeps can be woken by each event it waits for, once: it   *)
(* is on the waiter list of its event, or registered with every event of   *)
(* its waitAny; and after waitAny returned, no event keeps its notifier,   *)
(* through which a later set would lose its signal.                        *)
WaitersRegistered ==
    \A f \in Fibers : \A e \in Events :
        /\ Times(f, waiters[e]) = (IF pc[f] = "wait" /\ wakes[f] = 0 /\ ev[f] = e THEN 1 ELSE 0)
        /\ pc[f] = "waitAny" /\ readyKey[f] = None =>
              Times(f, mnWaiters[e]) = (IF e \in Elements(list[f]) THEN 1 ELSE 0)
        /\ pc[f] \in {"run", "notify", "wait"} => Times(f, mnWaiters[e]) = 0

(* A fiber is made ready only while it waits, at most once per wait, and   *)
(* for waitAny exactly when an event has been chosen: assert(_readyKey) of *)
(* waitAny holds, and the assertions of fiberReady are not at risk.        *)
WokenOncePerWait ==
    \A f \in Fibers :
        /\ wakes[f] <= 1
        /\ wakes[f] = 1 => pc[f] \in {"wait", "waitAny"}
        /\ pc[f] = "waitAny" => (wakes[f] = 1 <=> readyKey[f] # None)

(* The waiter lists, the flags and the sleeping fibers agree, between any  *)
(* two steps of set, wait and waitAny.                                     *)
WaitersConsistent == TypeOK /\ SetMeansNoWaiters /\ WaitersRegistered /\ WokenOncePerWait

(* The fibers for which a signal of e is on its way: they were woken by it *)
(* or took it, and their wait has not returned yet.                        *)
OnTheWay(e) ==
    {f \in Fibers : \/ pc[f] = "wait" /\ wakes[f] > 0 /\ ev[f] = e
                    \/ pc[f] \in {"register", "waitAny", "cancel"} /\ readyKey[f] = e
                    \/ pc[f] = "notify" /\ ev[f] = e}

(* A signal of an auto-reset event is neither lost nor used twice: each    *)
(* set that found the event unset ends one wait, is on its way to one, or  *)
(* is kept.  A set that races a waitAny woken by another event, or one     *)
(* that rolls back, passes its signal on.                                  *)
SignalConserved ==
    \A e \in AutoReset \ Broadcast :
        sets[e] = taken[e] + Cardinality(OnTheWay(e)) + (IF isSet[e] THEN 1 ELSE 0)

(* The lists that waits go through name the events they have in common in  *)
(* one order.  These are the lists of the waiters and what is left of them *)
(* after a report: Remaining may turn a list of more than two events, and  *)
(* the code waits for two (src/pgc/impl/db.cpp).                           *)
InOneOrder(lists, rank) ==
    /\ rank \in [Events -> Nat]
    /\ WaitLists \cup {<<>>} \subseteq lists
    /\ \A l \in lists : \A i, j \in 1 .. Len(l) :
        /\ i < j => rank[l[i]] > rank[l[j]]
        /\ Remaining(l, l[i]) \in lists

(* The fiber is about to take a boost::mutex that another one holds. *)
Blocked(f) ==
    \/ pc[f] = "notify" /\ mnWaiters[ev[f]] # <<>> /\ pmnLock[Head(mnWaiters[ev[f]])]
    \/ pc[f] = "register" /\ evLock[Head(todo[f])] # None
    \/ pc[f] = "cancel" /\ todo[f] # <<>> /\ evLock[Head(todo[f])] # None

(* Workers never block each other for good on these mutexes: if some fiber *)
(* is blocked, one that holds a mutex is not.  This needs InOneOrder.      *)
NoLockCycle ==
    (\E f \in Fibers : Blocked(f)) =>
        \E f \in Fibers : ~Blocked(f) /\ (pmnLock[f] \/ \E e \in Events : evLock[e] = f)
=============================================================================
