------------------------------- MODULE Future -------------------------------
(***************************************************************************)
(* async::Future, Future2 and Future3 (include/async/future.hpp) and the   *)
(* FutureWaiter over several of them (futureWaiter.hpp, eventWaiter.hpp).  *)
(* A provider writes the data part by part and sets the event; a fiber     *)
(* waits for one future, or takes several in the order they get ready.     *)
(*                                                                         *)
(* Event says in detail how set and waitAny work; here set is a step, and  *)
(* waitAny returns any of its events that is set.  Nobody resets a future  *)
(* and each is provided once, as by every caller.                          *)
(***************************************************************************)
EXTENDS Integers, Sequences, FiniteSets

CONSTANTS Futures,
          Volume,      \* how many data a future holds: 1, 2 or 3
          FutureLists  \* what FutureWaiters are built over

ASSUME FutureAssumption ==
    /\ Volume \in [Futures -> 1 .. 3]
    /\ FutureLists \subseteq Seq(Futures)

VARIABLES data,      \* State::_data1 and so on, TRUE when written
          isReady,   \* the event of the future is set
          customs,   \* EventWaiter::_customs: the future and its original index
          events,    \* EventWaiter::_events
          current,   \* EventWaiter::_current
          exhausted, \* wait has returned false
          reports,   \* history: what the waiter gave, an index and the data each
          seen       \* history: what data() gave of each future

futureVars == <<data, isReady, customs, events, current, exhausted, reports, seen>>

WrongIndex == -1
NotSeen == <<>>

-----------------------------------------------------------------------------
(* operator() of the futures. *)

Written(f) == Cardinality({k \in 1 .. Volume[f] : data[f][k]})
WritePart(f) ==
    /\ Written(f) < Volume[f]
    /\ data' = [data EXCEPT ![f][Written(f) + 1] = TRUE]
    /\ UNCHANGED <<isReady, customs, events, current, exhausted, reports, seen>>

SetReady(f) ==
    /\ Written(f) = Volume[f]
    /\ ~isReady[f]
    /\ isReady' = [isReady EXCEPT ![f] = TRUE]
    /\ UNCHANGED <<data, customs, events, current, exhausted, reports, seen>>

(* data, data1 and so on: wait, then read. *)
ReadData(f) ==
    /\ isReady[f]
    /\ seen[f] = NotSeen
    /\ seen' = [seen EXCEPT ![f] = data[f]]
    /\ UNCHANGED <<data, isReady, customs, events, current, exhausted, reports>>

-----------------------------------------------------------------------------
(* EventWaiter.  Indices count from 0, as in the code. *)

Held(list) == [i \in DOMAIN list |-> [event |-> list[i], originalIndex |-> i - 1]]
Swapped(s, i, j) == [s EXCEPT ![i + 1] = s[j + 1], ![j + 1] = s[i + 1]]

NextIndex == IF current = WrongIndex THEN 0 ELSE current + 1

(* wait, with the reading of what it found: currentIndex and current. *)
WaitNext ==
    /\ ~exhausted
    /\ current' = NextIndex
    /\ NextIndex < Len(events)
    /\ \E ready \in NextIndex .. Len(events) - 1 :
         /\ isReady[events[ready + 1]]
         /\ events' = Swapped(events, NextIndex, ready)
         /\ customs' = Swapped(customs, NextIndex, ready)
    /\ LET c == customs'[NextIndex + 1]
       IN  reports' = Append(reports, [index |-> c.originalIndex, data |-> data[c.event], ready |-> isReady[c.event]])
    /\ UNCHANGED <<data, isReady, exhausted, seen>>

WaitExhausted ==
    /\ ~exhausted
    /\ NextIndex >= Len(events)
    /\ current' = NextIndex
    /\ exhausted' = TRUE
    /\ UNCHANGED <<data, isReady, customs, events, reports, seen>>

FutureStart(list) ==
    /\ data = [f \in Futures |-> [k \in 1 .. Volume[f] |-> FALSE]]
    /\ isReady = [f \in Futures |-> FALSE]
    /\ customs = Held(list)
    /\ events = list
    /\ current = WrongIndex /\ exhausted = FALSE
    /\ reports = <<>>
    /\ seen = [f \in Futures |-> NotSeen]
FutureInit == \E list \in FutureLists : FutureStart(list)

FutureNext ==
    \/ \E f \in Futures : WritePart(f) \/ SetReady(f) \/ ReadData(f)
    \/ WaitNext \/ WaitExhausted

-----------------------------------------------------------------------------
(* Properties. *)

Complete(d) == d # NotSeen /\ \A k \in DOMAIN d : d[k]

(* Whatever the order in which the futures get ready, a waiter gives each  *)
(* of them once, under the place it has in the constructor's arguments,    *)
(* when it is ready and with all its data, and ends when it has given all  *)
(* of them: the two arrays it reorders stay in step.                       *)
FutureExact ==
    /\ \A f \in Futures : seen[f] = NotSeen \/ Complete(seen[f])
    /\ \A i \in DOMAIN reports : reports[i].ready /\ Complete(reports[i].data)
    /\ \A i, j \in DOMAIN reports : reports[i].index = reports[j].index => i = j
    /\ \A i \in DOMAIN events : customs[i].event = events[i]
    /\ exhausted => {reports[i].index : i \in DOMAIN reports} = 0 .. Len(events) - 1
=============================================================================
