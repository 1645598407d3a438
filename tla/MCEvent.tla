------------------------------ MODULE MCEvent ------------------------------
(***************************************************************************)
(* Events for TLC: one auto-reset event, one future, one broadcast event;  *)
(* and futures, of every volume, with a waiter over all of them.  Each     *)
(* behaviour is about one of the two.                                      *)
(***************************************************************************)
EXTENDS Event, Future, TLC

CONSTANTS auto, future, iface
VARIABLE part

MCWaitLists == {<<auto, future>>}
MCFutureLists == {<<1, 2, 3, 4>>, <<3>>}
MCVolume == <<1, 2, 3, 1>>
ASSUME MCInOneOrder ==
    InOneOrder({<<auto, future>>, <<auto>>, <<future>>, <<>>}, [e \in Events |-> IF e = auto THEN 1 ELSE 0])
Symmetry == Permutations(Fibers)

EventInit ==
    /\ part \in {"event", "future"}
    /\ Init
    /\ IF part = "future" THEN FutureInit ELSE FutureStart(<<>>)

EventNext ==
    /\ UNCHANGED part
    /\ \/ part = "event" /\ Next /\ UNCHANGED futureVars
       \/ part = "future" /\ FutureNext /\ UNCHANGED vars

EventSpec == EventInit /\ [][EventNext]_<<part, vars, futureVars>>

(* Who waits for an event is woken by it, and who waits for a future gets  *)
(* all of its data, in whatever order futures get ready.                   *)
FuturesDelivered == WaitersConsistent /\ FutureExact
=============================================================================
