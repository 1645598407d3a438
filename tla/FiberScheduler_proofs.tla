------------------------ MODULE FiberScheduler_proofs ------------------------
(***************************************************************************)
(* The scheduler is safe for any number of workers, fibers and tasks.      *)
(*                                                                         *)
(* The inductive invariant says where every fiber is: At(k, v, f) is its   *)
(* one place.  A fiber that is switched out but not left yet has its place *)
(* on a list already, and only its lock keeps the others from entering it: *)
(* that is StackLocked.                                                    *)
(***************************************************************************)
EXTENDS FiberScheduler, TLAPS, FiniteSetTheorems

InSeq(s, x) == \E i \in 1 .. Len(s) : s[i] = x
Inj(s) == \A i, j \in 1 .. Len(s) : s[i] = s[j] => i = j

(* Queue operations, as the invariant sees them. *)
LEMMA SeqEmpty == ASSUME NEW x PROVE ~InSeq(<<>>, x) /\ Inj(<<>>)
BY DEF InSeq, Inj

LEMMA InAppend ==
    ASSUME NEW S, NEW s \in Seq(S), NEW y \in S
    PROVE  \A x : InSeq(Append(s, y), x) <=> InSeq(s, x) \/ x = y
<1>1. /\ Len(s) \in Nat
      /\ Len(Append(s, y)) = Len(s) + 1
      /\ \A i \in 1 .. Len(s) : Append(s, y)[i] = s[i]
      /\ Append(s, y)[Len(s) + 1] = y
  OBVIOUS
<1>2. ASSUME NEW x, InSeq(Append(s, y), x) PROVE InSeq(s, x) \/ x = y
  BY <1>2, <1>1 DEF InSeq
<1>3. ASSUME NEW x, InSeq(s, x) PROVE InSeq(Append(s, y), x) BY <1>3, <1>1 DEF InSeq
<1>4. InSeq(Append(s, y), y)
  <2>1. Len(s) + 1 \in 1 .. Len(Append(s, y)) BY <1>1
  <2> QED BY <1>1, <2>1 DEF InSeq
<1> QED BY <1>2, <1>3, <1>4

LEMMA InTail ==
    ASSUME NEW S, NEW s \in Seq(S), s # <<>>
    PROVE  \A x : InSeq(s, x) <=> InSeq(Tail(s), x) \/ x = Head(s)
<1>1. /\ Len(s) \in Nat /\ Len(s) >= 1
      /\ Len(Tail(s)) = Len(s) - 1
      /\ \A i \in 1 .. Len(s) - 1 : Tail(s)[i] = s[i + 1]
      /\ Head(s) = s[1]
  OBVIOUS
<1>2. ASSUME NEW x, InSeq(Tail(s), x) PROVE InSeq(s, x)
  <2>1. PICK i \in 1 .. Len(Tail(s)) : Tail(s)[i] = x BY <1>2 DEF InSeq
  <2>2. i + 1 \in 1 .. Len(s) /\ s[i + 1] = x BY <2>1, <1>1
  <2> QED BY <2>2 DEF InSeq
<1>3. InSeq(s, Head(s)) BY <1>1 DEF InSeq
<1>4. ASSUME NEW x, InSeq(s, x), x # Head(s) PROVE InSeq(Tail(s), x)
  <2>1. PICK i \in 1 .. Len(s) : s[i] = x BY <1>4 DEF InSeq
  <2>2. i - 1 \in 1 .. Len(Tail(s)) /\ Tail(s)[i - 1] = x BY <2>1, <1>4, <1>1
  <2> QED BY <2>2 DEF InSeq
<1> QED BY <1>2, <1>3, <1>4

LEMMA InConcat ==
    ASSUME NEW S, NEW s \in Seq(S), NEW t \in Seq(S)
    PROVE  \A x : InSeq(s \o t, x) <=> InSeq(s, x) \/ InSeq(t, x)
<1>1. /\ Len(s) \in Nat /\ Len(t) \in Nat
      /\ Len(s \o t) = Len(s) + Len(t)
      /\ \A i \in 1 .. Len(s) : (s \o t)[i] = s[i]
      /\ \A i \in 1 .. Len(t) : (s \o t)[Len(s) + i] = t[i]
  OBVIOUS
<1>2. ASSUME NEW x, InSeq(s \o t, x) PROVE InSeq(s, x) \/ InSeq(t, x)
  <2>1. PICK i \in 1 .. Len(s \o t) : (s \o t)[i] = x BY <1>2 DEF InSeq
  <2>2. CASE i <= Len(s) BY <2>1, <2>2, <1>1 DEF InSeq
  <2>3. CASE i > Len(s)
    <3>1. i - Len(s) \in 1 .. Len(t) /\ Len(s) + (i - Len(s)) = i BY <2>3, <1>1
    <3> QED BY <2>1, <3>1, <1>1 DEF InSeq
  <2> QED BY <2>1, <2>2, <2>3, <1>1
<1>3. ASSUME NEW x, InSeq(s, x) PROVE InSeq(s \o t, x)
  <2>1. PICK i \in 1 .. Len(s) : s[i] = x BY <1>3 DEF InSeq
  <2>2. i \in 1 .. Len(s \o t) BY <1>1
  <2> QED BY <2>1, <2>2, <1>1 DEF InSeq
<1>4. ASSUME NEW x, InSeq(t, x) PROVE InSeq(s \o t, x)
  <2>1. PICK i \in 1 .. Len(t) : t[i] = x BY <1>4 DEF InSeq
  <2>2. Len(s) + i \in 1 .. Len(s \o t) BY <1>1
  <2> QED BY <2>1, <2>2, <1>1 DEF InSeq
<1> QED BY <1>2, <1>3, <1>4

LEMMA SeqPush ==
    ASSUME NEW S, NEW s \in Seq(S), NEW y \in S, Inj(s), ~InSeq(s, y)
    PROVE  /\ Append(s, y) \in Seq(S)
           /\ Inj(Append(s, y))
           /\ \A x : InSeq(Append(s, y), x) <=> InSeq(s, x) \/ x = y
<1>1. /\ Append(s, y) \in Seq(S) /\ Len(s) \in Nat
      /\ Len(Append(s, y)) = Len(s) + 1
      /\ \A i \in 1 .. Len(s) : Append(s, y)[i] = s[i]
      /\ Append(s, y)[Len(s) + 1] = y
  OBVIOUS
<1>2. Inj(Append(s, y)) BY <1>1 DEF Inj, InSeq
<1> QED BY <1>1, <1>2, InAppend

LEMMA SeqPop ==
    ASSUME NEW S, NEW s \in Seq(S), s # <<>>, Inj(s)
    PROVE  /\ Tail(s) \in Seq(S)
           /\ Head(s) \in S
           /\ InSeq(s, Head(s))
           /\ Inj(Tail(s))
           /\ \A x : InSeq(Tail(s), x) <=> InSeq(s, x) /\ x # Head(s)
<1>1. /\ Tail(s) \in Seq(S) /\ Len(s) \in Nat /\ Len(s) >= 1
      /\ Len(Tail(s)) = Len(s) - 1
      /\ \A i \in 1 .. Len(s) - 1 : Tail(s)[i] = s[i + 1]
      /\ Head(s) = s[1] /\ Head(s) \in S
  OBVIOUS
<1>2. InSeq(s, Head(s)) BY <1>1 DEF InSeq
<1>3. Inj(Tail(s))
  <2> SUFFICES ASSUME NEW i \in 1 .. Len(Tail(s)), NEW j \in 1 .. Len(Tail(s)), Tail(s)[i] = Tail(s)[j]
               PROVE  i = j
    BY DEF Inj
  <2>1. i + 1 \in 1 .. Len(s) /\ j + 1 \in 1 .. Len(s) /\ s[i + 1] = s[j + 1] BY <1>1
  <2>2. i + 1 = j + 1 BY <2>1 DEF Inj
  <2> QED BY <2>2
<1>4. ASSUME NEW x PROVE InSeq(Tail(s), x) <=> InSeq(s, x) /\ x # Head(s)
  <2>1. ASSUME InSeq(Tail(s), x) PROVE InSeq(s, x) /\ x # Head(s)
    <3>1. PICK i \in 1 .. Len(Tail(s)) : Tail(s)[i] = x BY <2>1 DEF InSeq
    <3>2. i + 1 \in 1 .. Len(s) /\ s[i + 1] = x /\ 1 \in 1 .. Len(s) /\ i + 1 # 1 BY <3>1, <1>1
    <3> QED BY <3>2, <1>1 DEF InSeq, Inj
  <2>2. ASSUME InSeq(s, x), x # Head(s) PROVE InSeq(Tail(s), x)
    <3>1. PICK i \in 1 .. Len(s) : s[i] = x BY <2>2 DEF InSeq
    <3>2. i - 1 \in 1 .. Len(Tail(s)) /\ Tail(s)[i - 1] = x BY <3>1, <2>2, <1>1
    <3> QED BY <3>2 DEF InSeq
  <2> QED BY <2>1, <2>2
<1> QED BY <1>1, <1>2, <1>3, <1>4

LEMMA SeqConcat ==
    ASSUME NEW S, NEW s \in Seq(S), NEW t \in Seq(S), Inj(s), Inj(t),
           \A x : ~(InSeq(s, x) /\ InSeq(t, x))
    PROVE  /\ s \o t \in Seq(S)
           /\ Inj(s \o t)
           /\ \A x : InSeq(s \o t, x) <=> InSeq(s, x) \/ InSeq(t, x)
<1>1. /\ s \o t \in Seq(S) /\ Len(s) \in Nat /\ Len(t) \in Nat
      /\ Len(s \o t) = Len(s) + Len(t)
      /\ \A i \in 1 .. Len(s) : (s \o t)[i] = s[i]
      /\ \A i \in 1 .. Len(t) : (s \o t)[Len(s) + i] = t[i]
  OBVIOUS
<1>2. \A i \in 1 .. Len(s \o t) :
         \/ i \in 1 .. Len(s) /\ (s \o t)[i] = s[i]
         \/ i - Len(s) \in 1 .. Len(t) /\ (s \o t)[i] = t[i - Len(s)]
  <2> TAKE i \in 1 .. Len(s \o t)
  <2>1. CASE i <= Len(s) BY <2>1, <1>1
  <2>2. CASE i > Len(s)
    <3>1. i - Len(s) \in 1 .. Len(t) /\ Len(s) + (i - Len(s)) = i BY <2>2, <1>1
    <3> QED BY <3>1, <1>1
  <2> QED BY <2>1, <2>2, <1>1
<1>3. Inj(s \o t)
  <2> SUFFICES ASSUME NEW i \in 1 .. Len(s \o t), NEW j \in 1 .. Len(s \o t),
                      (s \o t)[i] = (s \o t)[j]
               PROVE  i = j
    BY DEF Inj
  <2>1. \A k \in 1 .. Len(s) : InSeq(s, s[k]) BY DEF InSeq
  <2>2. \A k \in 1 .. Len(t) : InSeq(t, t[k]) BY DEF InSeq
  <2>3. CASE i \in 1 .. Len(s) /\ j \in 1 .. Len(s) BY <2>3, <1>1 DEF Inj
  <2>4. CASE i - Len(s) \in 1 .. Len(t) /\ j - Len(s) \in 1 .. Len(t)
    <3>1. t[i - Len(s)] = t[j - Len(s)]
      <4>1. Len(s) + (i - Len(s)) = i /\ Len(s) + (j - Len(s)) = j BY <1>1
      <4> QED BY <2>4, <4>1, <1>1
    <3>2. i - Len(s) = j - Len(s) BY <3>1, <2>4 DEF Inj
    <3> QED BY <3>2, <1>1
  <2> QED BY <2>1, <2>2, <2>3, <2>4, <1>1, <1>2
<1> QED BY <1>1, <1>3, InConcat

-----------------------------------------------------------------------------
(* The inductive invariant. *)

Kinds == {"none", "idle", "ready", "waiting", "notExecuted", "notActivated", "hand"}

InHand == {"activate", "execute", "user"}

(* Fiber f is in the place k and in no other; if that place is a local     *)
(* variable of a worker, the worker is v.  Without code are the fibers     *)
(* that were not created, are idle or were taken to be given a task.       *)
At(k, v, f) ==
    /\ f \in created <=> k # "none"
    /\ f \in fibersIdle <=> k = "idle"
    /\ InSeq(fibersReady, f) <=> k = "ready"
    /\ f \in waiting <=> k = "waiting"
    /\ \A w \in Workers :
        /\ f \in notExecuted[w] <=> k = "notExecuted" /\ v = w
        /\ InSeq(notActivated[w], f) <=> k = "notActivated" /\ v = w
        /\ pc[w] \in InHand /\ fiber[w] = f <=> k = "hand" /\ v = w
    /\ code[f] = None <=> \/ k \in {"none", "idle", "notExecuted"}
                          \/ k = "hand" /\ pc[v] = "execute"

Homes ==
    /\ \A f \in Fibers : \E k \in Kinds, v \in Workers : At(k, v, f)
    /\ Inj(fibersReady)
    /\ \A w \in Workers : Inj(notActivated[w])

(* A worker that has a fiber in hand or is on its stack knows which. *)
FiberKnown == \A w \in Workers : pc[w] \in InHand \cup OnFiber => fiber[w] \in Fibers

(* Worker::exec has its argument exactly until it has handed it over, and  *)
(* a task it took from the queue only while it looks for a fiber for it.   *)
BeforeHandOver(w) ==
    \/ pc[w] \in {"takeTask", "takeFiber", "create", "execute", "noFiber"}
    \/ pc[w] \in {"ready", "activate", "requeue"} /\ ~last[w]
    \/ pc[w] \in OnFiber /\ (back[w] = "takeTask" \/ (back[w] = "ready" /\ ~last[w]))
HasQueuedTask == {"takeFiber", "create", "execute", "noFiber"}
TaskKept ==
    \A w \in Workers :
        /\ BeforeHandOver(w) <=> task[w] # None
        /\ fromQueue[w] # None => pc[w] \in HasQueuedTask

(* The fiber whose stack a worker is on is locked, and no other worker is  *)
(* on it.                                                                  *)
StackLocked ==
    /\ \A w \in Workers : pc[w] \in OnFiber => isLocked[fiber[w]]
    /\ OneWorkerPerFiber

IInv == TypeOK /\ FiberKnown /\ TaskKept /\ Homes /\ StackLocked

LEMMA InitIInv == Init => IInv
<1> SUFFICES ASSUME Init PROVE IInv OBVIOUS
<1> USE DEF Init
<1>1. TypeOK BY ConstantsAssumption DEF TypeOK, PC
<1>2. FiberKnown BY DEF FiberKnown, InHand, OnFiber
<1>3. TaskKept BY DEF TaskKept, BeforeHandOver, OnFiber
<1>4. Homes
  <2>1. PICK w0 : w0 \in Workers BY ConstantsAssumption
  <2>2. ASSUME NEW f \in Fibers PROVE At("none", w0, f)
    <3>1. ~InSeq(fibersReady, f) /\ \A w \in Workers : ~InSeq(notActivated[w], f)
      BY SeqEmpty
    <3>2. \A w \in Workers : f \notin notExecuted[w] /\ pc[w] \notin InHand BY DEF InHand
    <3> QED BY <3>1, <3>2 DEF At
  <2>3. Inj(fibersReady) /\ \A w \in Workers : Inj(notActivated[w]) BY SeqEmpty
  <2> QED BY <2>1, <2>2, <2>3 DEF Homes, Kinds
<1>5. StackLocked BY DEF StackLocked, OneWorkerPerFiber, OnFiber
<1> QED BY <1>1, <1>2, <1>3, <1>4, <1>5 DEF IInv

(* A fiber in the hand of a worker is nowhere else, has no code before     *)
(* Fiber::execute and has some while it runs or is to be resumed.          *)
LEMMA HandFacts ==
    ASSUME IInv, NEW w \in Workers, pc[w] \in InHand
    PROVE  /\ fiber[w] \in Fibers
           /\ fiber[w] \in created
           /\ pc[w] # "execute" <=> code[fiber[w]] \in Tasks
           /\ ~InSeq(fibersReady, fiber[w])
           /\ ~InSeq(notActivated[w], fiber[w])
<1>1. fiber[w] \in Fibers BY DEF IInv, FiberKnown
<1>2. PICK k \in Kinds, v \in Workers : At(k, v, fiber[w]) BY <1>1 DEF IInv, Homes
<1>3. k = "hand" /\ v = w BY <1>2 DEF At
<1>4. code[fiber[w]] = None <=> pc[w] = "execute" BY <1>2, <1>3 DEF At
<1>5. code[fiber[w]] \in Tasks \cup {None} BY <1>1 DEF IInv, TypeOK
<1> QED BY <1>1, <1>2, <1>3, <1>4, <1>5, ConstantsAssumption DEF At

-----------------------------------------------------------------------------
(* Types.  A fiber taken from a list is a fiber, a task taken from a queue *)
(* or kept by Worker::exec a task; HandFacts gives the rest.               *)
Typed == TypeOK /\ FiberKnown /\ TaskKept

LEMMA TypesKept == ASSUME IInv, [Next]_vars PROVE Typed'
<1> USE ConstantsAssumption DEF Goto, poolVars, fiberVars, workVars, histVars, IInv
<1>1. ASSUME NEW t \in Tasks, Spawn(t) PROVE Typed'
  <2>1. TypeOK'
    <3>1. CASE tasks # <<>>
      <4>1. tasks' = Append(tasks, t) /\ io' = io
        BY <3>1, <1>1 DEF Spawn
      <4> QED BY <4>1, <3>1, <1>1 DEF Spawn, TypeOK, PC
    <3>2. CASE tasks = <<>>
      <4>1. tasks' = tasks /\ io' = Append(io, t)
        BY <3>2, <1>1 DEF Spawn
      <4> QED BY <4>1, <3>2, <1>1 DEF Spawn, TypeOK, PC
    <3> QED BY <3>1, <3>2
  <2>2. FiberKnown' BY <1>1 DEF Spawn, FiberKnown, OnFiber, InHand, TypeOK, PC
  <2>3. TaskKept' BY <1>1 DEF Spawn, TaskKept, BeforeHandOver, HasQueuedTask, OnFiber, TypeOK, PC
  <2> QED BY <2>1, <2>2, <2>3 DEF Typed
<1>2. ASSUME NEW t \in Tasks, Complete(t) PROVE Typed'
  <2>1. TypeOK' BY <1>2 DEF Complete, TypeOK, PC
  <2>2. FiberKnown' BY <1>2 DEF Complete, FiberKnown, OnFiber, InHand, TypeOK, PC
  <2>3. TaskKept' BY <1>2 DEF Complete, TaskKept, BeforeHandOver, HasQueuedTask, OnFiber, TypeOK, PC
  <2> QED BY <2>1, <2>2, <2>3 DEF Typed
<1>3. ASSUME NEW w \in Workers, NEW t \in Tasks, ExecInline(w, t) PROVE Typed'
  <2>1. TypeOK' BY <1>3 DEF ExecInline, TypeOK, PC
  <2>2. FiberKnown' BY <1>3 DEF ExecInline, FiberKnown, OnFiber, InHand, TypeOK, PC
  <2>3. TaskKept' BY <1>3 DEF ExecInline, TaskKept, BeforeHandOver, HasQueuedTask, OnFiber, TypeOK, PC
  <2> QED BY <2>1, <2>2, <2>3 DEF Typed
<1>4. ASSUME NEW w \in Workers, RunHandler(w) PROVE Typed'
  <2>1. TypeOK' BY <1>4 DEF RunHandler, TypeOK, PC
  <2>2. FiberKnown' BY <1>4 DEF RunHandler, FiberKnown, OnFiber, InHand, TypeOK, PC
  <2>3. TaskKept' BY <1>4 DEF RunHandler, TaskKept, BeforeHandOver, HasQueuedTask, OnFiber, TypeOK, PC
  <2> QED BY <2>1, <2>2, <2>3 DEF Typed
<1>5. ASSUME NEW w \in Workers, PopReady(w) PROVE Typed'
  <2>1. TypeOK'
    <3>1. CASE fibersReady # <<>>
      <4>1. /\ fiber' = [fiber EXCEPT ![w] = Head(fibersReady)]
          /\ fibersReady' = Tail(fibersReady)
          /\ pc' = [pc EXCEPT ![w] = "activate"]
        BY <3>1, <1>5 DEF PopReady
      <4> QED BY <4>1, <3>1, <1>5 DEF PopReady, TypeOK, PC
    <3>2. CASE fibersReady = <<>>
      <4>1. fiber' = fiber /\ fibersReady' = fibersReady /\ pc' = [pc EXCEPT ![w] = "requeue"]
        BY <3>2, <1>5 DEF PopReady
      <4> QED BY <4>1, <3>2, <1>5 DEF PopReady, TypeOK, PC
    <3> QED BY <3>1, <3>2
  <2>2. FiberKnown' BY <1>5 DEF PopReady, FiberKnown, OnFiber, InHand, TypeOK, PC
  <2>3. TaskKept' BY <1>5 DEF PopReady, TaskKept, BeforeHandOver, HasQueuedTask, OnFiber, TypeOK, PC
  <2> QED BY <2>1, <2>2, <2>3 DEF Typed
<1>6. ASSUME NEW w \in Workers, Activate(w) PROVE Typed'
  <2>0. pc[w] \in InHand BY <1>6 DEF Activate, InHand
  <2>1. TypeOK'
    <3>1. CASE ~isLocked[fiber[w]]
      <4>1. /\ isLocked' = [isLocked EXCEPT ![fiber[w]] = TRUE]
          /\ back' = [back EXCEPT ![w] = "ready"]
          /\ pc' = [pc EXCEPT ![w] = "user"]
          /\ fiber' = fiber /\ notActivated' = notActivated
        BY <3>1, <1>6 DEF Activate, CanEnter
      <4> QED BY <4>1, <3>1, <1>6, <2>0, HandFacts DEF Activate, TypeOK, PC
    <3>2. CASE isLocked[fiber[w]]
      <4>1. /\ notActivated' = [notActivated EXCEPT ![w] = Append(@, fiber[w])]
          /\ fiber' = [fiber EXCEPT ![w] = None]
          /\ pc' = [pc EXCEPT ![w] = "ready"]
          /\ isLocked' = isLocked /\ back' = back
        BY <3>2, <1>6 DEF Activate, CanEnter
      <4> QED BY <4>1, <3>2, <1>6, <2>0, HandFacts DEF Activate, TypeOK, PC
    <3> QED BY <3>1, <3>2
  <2>2. FiberKnown' BY <1>6, <2>0, HandFacts DEF Activate, CanEnter, FiberKnown, OnFiber, InHand, TypeOK, PC
  <2>3. TaskKept' BY <1>6, <2>0, HandFacts DEF Activate, CanEnter, TaskKept, BeforeHandOver, HasQueuedTask, OnFiber, TypeOK, PC
  <2> QED BY <2>1, <2>2, <2>3 DEF Typed
<1>7. ASSUME NEW w \in Workers, Requeue(w) PROVE Typed'
  <2>1. TypeOK'
    <3>1. fibersReady' = fibersReady \o notActivated[w] BY <1>7 DEF Requeue, Requeued
    <3>2. notActivated' = [notActivated EXCEPT ![w] = <<>>] BY <1>7 DEF Requeue
    <3>3. UNCHANGED <<totalAmount, fibersIdle, tasks, io, fiberVars, histVars, fiber, task,
                      fromQueue, notExecuted, last, back>>
      BY <1>7 DEF Requeue
    <3>4. PICK l \in {"takeTask", "ready", "poll"} : pc' = [pc EXCEPT ![w] = l]
      BY <1>7 DEF Requeue
    <3> QED BY <3>1, <3>2, <3>3, <3>4 DEF TypeOK, PC
  <2>2. FiberKnown' BY <1>7 DEF Requeue, Requeued, Retry, FiberKnown, OnFiber, InHand, TypeOK, PC
  <2>3. TaskKept' BY <1>7 DEF Requeue, Requeued, Retry, TaskKept, BeforeHandOver, HasQueuedTask, OnFiber, TypeOK, PC
  <2> QED BY <2>1, <2>2, <2>3 DEF Typed
<1>8. ASSUME NEW w \in Workers, TakeTask(w) PROVE Typed'
  <2>1. TypeOK'
    <3>1. CASE tasks # <<>>
      <4>1. fromQueue' = [fromQueue EXCEPT ![w] = Head(tasks)] /\ tasks' = Tail(tasks)
        BY <3>1, <1>8 DEF TakeTask
      <4> QED BY <4>1, <3>1, <1>8 DEF TakeTask, TypeOK, PC
    <3>2. CASE tasks = <<>>
      <4>1. fromQueue' = [fromQueue EXCEPT ![w] = None] /\ tasks' = tasks
        BY <3>2, <1>8 DEF TakeTask
      <4> QED BY <4>1, <3>2, <1>8 DEF TakeTask, TypeOK, PC
    <3> QED BY <3>1, <3>2
  <2>2. FiberKnown' BY <1>8 DEF TakeTask, FiberKnown, OnFiber, InHand, TypeOK, PC
  <2>3. TaskKept' BY <1>8 DEF TakeTask, TaskKept, BeforeHandOver, HasQueuedTask, OnFiber, TypeOK, PC
  <2> QED BY <2>1, <2>2, <2>3 DEF Typed
<1>9. ASSUME NEW w \in Workers, TakeFiber(w) PROVE Typed'
  <2>1. TypeOK'
    <3>1. UNCHANGED <<totalAmount, fibersReady, tasks, io, task, fromQueue, notExecuted,
                      notActivated, last, back, fiberVars, histVars>>
      BY <1>9 DEF TakeFiber
    <3>2. ASSUME NEW f \in fibersIdle, fiber' = [fiber EXCEPT ![w] = f],
                 fibersIdle' = fibersIdle \ {f}, pc' = [pc EXCEPT ![w] = "execute"]
          PROVE  TypeOK'
      BY <3>1, <3>2 DEF TypeOK, PC
    <3>3. ASSUME NEW l \in {"create", "noFiber"}, fiber' = fiber, fibersIdle' = fibersIdle,
                 pc' = [pc EXCEPT ![w] = l]
          PROVE  TypeOK'
      BY <3>1, <3>3 DEF TypeOK, PC
    <3> QED BY <3>2, <3>3, <1>9 DEF TakeFiber
  <2>2. FiberKnown' BY <1>9 DEF TakeFiber, MayCreate, FiberKnown, OnFiber, InHand, TypeOK, PC
  <2>3. TaskKept' BY <1>9 DEF TakeFiber, MayCreate, TaskKept, BeforeHandOver, HasQueuedTask, OnFiber, TypeOK, PC
  <2> QED BY <2>1, <2>2, <2>3 DEF Typed
<1>10. ASSUME NEW w \in Workers, CreateFiber(w) PROVE Typed'
  <2>1. TypeOK'
    <3>1. UNCHANGED <<fibersIdle, fibersReady, tasks, io, isLocked, code, waiting, histVars,
                      task, fromQueue, notExecuted, notActivated, last, back>>
      BY <1>10 DEF CreateFiber
    <3>2. ASSUME NEW f \in Fibers \ created,
                 created' = created \cup {f}, totalAmount' = totalAmount + 1,
                 fiber' = [fiber EXCEPT ![w] = f], pc' = [pc EXCEPT ![w] = "execute"]
          PROVE  TypeOK'
      BY <3>1, <3>2 DEF TypeOK, PC
    <3>3. CASE /\ pc' = [pc EXCEPT ![w] = "noFiber"]
               /\ created' = created /\ totalAmount' = totalAmount /\ fiber' = fiber
      BY <3>1, <3>3 DEF TypeOK, PC
    <3> QED BY <3>2, <3>3, <1>10 DEF CreateFiber
  <2>2. FiberKnown' BY <1>10 DEF CreateFiber, FiberKnown, OnFiber, InHand, TypeOK, PC
  <2>3. TaskKept' BY <1>10 DEF CreateFiber, TaskKept, BeforeHandOver, HasQueuedTask, OnFiber, TypeOK, PC
  <2> QED BY <2>1, <2>2, <2>3 DEF Typed
<1>11. ASSUME NEW w \in Workers, Execute(w) PROVE Typed'
  <2>0. pc[w] \in InHand BY <1>11 DEF Execute, InHand
  <2>1. TypeOK'
    <3>0. task[w] \in Tasks /\ fiber[w] \in Fibers
      BY <1>11, <2>0, HandFacts DEF Execute, TypeOK, TaskKept, BeforeHandOver
    <3>1. CASE ~isLocked[fiber[w]] /\ fromQueue[w] # None
      <4>1. /\ isLocked' = [isLocked EXCEPT ![fiber[w]] = TRUE]
            /\ pc' = [pc EXCEPT ![w] = "user"]
            /\ code' = [code EXCEPT ![fiber[w]] = fromQueue[w]]
            /\ back' = [back EXCEPT ![w] = "takeTask"]
            /\ task' = task /\ fiber' = fiber /\ notExecuted' = notExecuted
            /\ fromQueue' = [fromQueue EXCEPT ![w] = None]
        BY <3>1, <1>11 DEF Execute, CanEnter
      <4>2. UNCHANGED <<created, waiting, notActivated, last, poolVars, histVars>> BY <1>11 DEF Execute
      <4> QED BY <4>1, <4>2, <3>0, <3>1 DEF TypeOK, PC
    <3>2. CASE ~isLocked[fiber[w]] /\ fromQueue[w] = None
      <4>1. /\ isLocked' = [isLocked EXCEPT ![fiber[w]] = TRUE]
            /\ pc' = [pc EXCEPT ![w] = "user"]
            /\ code' = [code EXCEPT ![fiber[w]] = task[w]]
            /\ back' = [back EXCEPT ![w] = "flush"]
            /\ task' = [task EXCEPT ![w] = None]
            /\ fiber' = fiber /\ notExecuted' = notExecuted
            /\ fromQueue' = [fromQueue EXCEPT ![w] = None]
        BY <3>2, <1>11 DEF Execute, CanEnter
      <4>2. UNCHANGED <<created, waiting, notActivated, last, poolVars, histVars>> BY <1>11 DEF Execute
      <4> QED BY <4>1, <4>2, <3>0, <3>2 DEF TypeOK, PC
    <3>3. CASE isLocked[fiber[w]]
      <4>1. /\ notExecuted' = [notExecuted EXCEPT ![w] = @ \cup {fiber[w]}]
            /\ fiber' = [fiber EXCEPT ![w] = None]
            /\ pc' = [pc EXCEPT ![w] = "takeTask"]
            /\ fromQueue' = [fromQueue EXCEPT ![w] = None]
            /\ isLocked' = isLocked /\ code' = code /\ back' = back /\ task' = task
        BY <3>3, <1>11 DEF Execute, CanEnter
      <4>2. UNCHANGED <<created, waiting, notActivated, last, poolVars, histVars>> BY <1>11 DEF Execute
      <4> QED BY <4>1, <4>2, <3>0 DEF TypeOK, PC
    <3> QED BY <3>1, <3>2, <3>3
  <2>2. FiberKnown' BY <1>11, <2>0, HandFacts DEF Execute, CanEnter, FiberKnown, OnFiber, InHand, TypeOK, PC
  <2>3. TaskKept' BY <1>11, <2>0, HandFacts DEF Execute, CanEnter, TaskKept, BeforeHandOver, HasQueuedTask, OnFiber, TypeOK, PC
  <2> QED BY <2>1, <2>2, <2>3 DEF Typed
<1>12. ASSUME NEW w \in Workers, NoFiber(w) PROVE Typed'
  <2>1. TypeOK'
    <3>0. task[w] \in Tasks
      BY <1>12 DEF NoFiber, QueueAgain, TypeOK, TaskKept, BeforeHandOver
    <3>1. CASE fromQueue[w] = None
      <4>1. tasks' = tasks \o <<task[w]>>
        BY <3>1, <1>12 DEF NoFiber, QueueAgain
      <4> QED BY <4>1, <3>1, <3>0, <1>12 DEF NoFiber, TypeOK, PC
    <3>2. CASE fromQueue[w] # None
      <4>1. tasks' = (<<fromQueue[w]>> \o tasks) \o <<task[w]>>
        BY <3>2, <1>12 DEF NoFiber, QueueAgain
      <4> QED BY <4>1, <3>2, <3>0, <1>12 DEF NoFiber, TypeOK, PC
    <3> QED BY <3>1, <3>2
  <2>2. FiberKnown' BY <1>12 DEF NoFiber, QueueAgain, FiberKnown, OnFiber, InHand, TypeOK, PC
  <2>3. TaskKept' BY <1>12 DEF NoFiber, QueueAgain, TaskKept, BeforeHandOver, HasQueuedTask, OnFiber, TypeOK, PC
  <2> QED BY <2>1, <2>2, <2>3 DEF Typed
<1>13. ASSUME NEW w \in Workers, Flush(w) PROVE Typed'
  <2>1. TypeOK' BY <1>13 DEF Flush, TypeOK, PC
  <2>2. FiberKnown' BY <1>13 DEF Flush, FiberKnown, OnFiber, InHand, TypeOK, PC
  <2>3. TaskKept' BY <1>13 DEF Flush, TaskKept, BeforeHandOver, HasQueuedTask, OnFiber, TypeOK, PC
  <2> QED BY <2>1, <2>2, <2>3 DEF Typed
<1>14. ASSUME NEW w \in Workers, FiberWait(w) PROVE Typed'
  <2>0. pc[w] \in InHand BY <1>14 DEF FiberWait, InHand
  <2>1. TypeOK' BY <1>14, <2>0, HandFacts DEF FiberWait, TypeOK, PC
  <2>2. FiberKnown' BY <1>14, <2>0, HandFacts DEF FiberWait, FiberKnown, OnFiber, InHand, TypeOK, PC
  <2>3. TaskKept' BY <1>14, <2>0, HandFacts DEF FiberWait, TaskKept, BeforeHandOver, HasQueuedTask, OnFiber, TypeOK, PC
  <2> QED BY <2>1, <2>2, <2>3 DEF Typed
<1>15. ASSUME NEW w \in Workers, FiberYield(w) PROVE Typed'
  <2>0. pc[w] \in InHand BY <1>15 DEF FiberYield, InHand
  <2>1. TypeOK' BY <1>15, <2>0, HandFacts DEF FiberYield, TypeOK, PC
  <2>2. FiberKnown' BY <1>15, <2>0, HandFacts DEF FiberYield, FiberKnown, OnFiber, InHand, TypeOK, PC
  <2>3. TaskKept' BY <1>15, <2>0, HandFacts DEF FiberYield, TaskKept, BeforeHandOver, HasQueuedTask, OnFiber, TypeOK, PC
  <2> QED BY <2>1, <2>2, <2>3 DEF Typed
<1>16. ASSUME NEW w \in Workers, FiberExecuted(w) PROVE Typed'
  <2>0. pc[w] \in InHand BY <1>16 DEF FiberExecuted, InHand
  <2>1. TypeOK' BY <1>16, <2>0, HandFacts DEF FiberExecuted, CodeDropped, TypeOK, PC
  <2>2. FiberKnown' BY <1>16, <2>0, HandFacts DEF FiberExecuted, CodeDropped, FiberKnown, OnFiber, InHand, TypeOK, PC
  <2>3. TaskKept' BY <1>16, <2>0, HandFacts DEF FiberExecuted, CodeDropped, TaskKept, BeforeHandOver, HasQueuedTask, OnFiber, TypeOK, PC
  <2> QED BY <2>1, <2>2, <2>3 DEF Typed
<1>17. ASSUME NEW w \in Workers, SwitchToRoot(w) PROVE Typed'
  <2>1. TypeOK' BY <1>17 DEF SwitchToRoot, TypeOK, PC
  <2>2. FiberKnown' BY <1>17 DEF SwitchToRoot, FiberKnown, OnFiber, InHand, TypeOK, PC
  <2>3. TaskKept' BY <1>17 DEF SwitchToRoot, TaskKept, BeforeHandOver, HasQueuedTask, OnFiber, TypeOK, PC
  <2> QED BY <2>1, <2>2, <2>3 DEF Typed
<1>18. ASSUME NEW w \in Workers, Leave(w) PROVE Typed'
  <2>1. TypeOK' BY <1>18 DEF Leave, TypeOK, PC
  <2>2. FiberKnown' BY <1>18 DEF Leave, FiberKnown, OnFiber, InHand, TypeOK, PC
  <2>3. TaskKept'
    <3>1. task' = task /\ last' = last /\ back' = back /\ pc' = [pc EXCEPT ![w] = back[w]]
      BY <1>18 DEF Leave
    <3>2. /\ pc[w] \in OnFiber /\ pc'[w] = back[w] /\ back[w] \in {"ready", "takeTask", "flush"}
          /\ fromQueue' = fromQueue /\ fromQueue[w] = None
      BY <1>18, <3>1 DEF Leave, OnFiber, TypeOK, TaskKept, HasQueuedTask
    <3>3. ASSUME NEW v \in Workers PROVE BeforeHandOver(v)' <=> BeforeHandOver(v)
      <4>1. CASE v # w BY <4>1, <3>1 DEF BeforeHandOver, TypeOK
      <4>2. CASE v = w
        <5>1. pc'[w] \notin OnFiber BY <3>2 DEF OnFiber
        <5>2. BeforeHandOver(w) <=> back[w] = "takeTask" \/ (back[w] = "ready" /\ ~last[w])
          BY <3>2 DEF BeforeHandOver, OnFiber
        <5>3. last'[w] = last[w] BY <3>1
        <5>4. CASE back[w] = "ready" BY <5>1, <5>2, <5>3, <5>4, <3>2, <4>2, Zenon DEF BeforeHandOver
        <5>5. CASE back[w] = "takeTask" BY <5>1, <5>2, <5>3, <5>5, <3>2, <4>2, Zenon DEF BeforeHandOver
        <5>6. CASE back[w] = "flush" BY <5>1, <5>2, <5>3, <5>6, <3>2, <4>2, Zenon DEF BeforeHandOver
        <5> QED BY <5>4, <5>5, <5>6, <3>2
      <4> QED BY <4>1, <4>2
    <3>4. \A v \in Workers \ {w} : pc'[v] = pc[v] BY <3>1 DEF TypeOK
    <3> QED BY <3>1, <3>2, <3>3, <3>4 DEF TaskKept
  <2> QED BY <2>1, <2>2, <2>3 DEF Typed
<1>19. ASSUME NEW w \in Workers, NEW f \in Fibers, FiberWake(w, f) PROVE Typed'
  <2>1. TypeOK' BY <1>19 DEF FiberWake, TypeOK, PC
  <2>2. FiberKnown' BY <1>19 DEF FiberWake, FiberKnown, OnFiber, InHand, TypeOK, PC
  <2>3. TaskKept' BY <1>19 DEF FiberWake, TaskKept, BeforeHandOver, HasQueuedTask, OnFiber, TypeOK, PC
  <2> QED BY <2>1, <2>2, <2>3 DEF Typed
<1>20. CASE UNCHANGED vars
  BY <1>20 DEF vars, Typed, TypeOK, FiberKnown, TaskKept, BeforeHandOver
<1> QED
  BY <1>1, <1>2, <1>3, <1>4, <1>5, <1>6, <1>7, <1>8, <1>9, <1>10, <1>11,
     <1>12, <1>13, <1>14, <1>15, <1>16, <1>17, <1>18, <1>19, <1>20 DEF Next,
     Environment, RootStep, UserStep
-----------------------------------------------------------------------------
(* Where the fibers are. *)

(* A step that moves no fiber. *)
LEMMA HomesSame ==
    ASSUME Homes,
           UNCHANGED <<created, fibersIdle, fibersReady, waiting, notExecuted, notActivated, code>>,
           \A w \in Workers :
             /\ pc'[w] \in InHand <=> pc[w] \in InHand
             /\ pc[w] \in InHand => fiber'[w] = fiber[w]
             /\ pc'[w] = "execute" <=> pc[w] = "execute"
    PROVE  Homes'
<1>1. ASSUME NEW f \in Fibers, NEW k \in Kinds, NEW v \in Workers, At(k, v, f)
      PROVE  At(k, v, f)'
  BY <1>1 DEF At
<1> QED BY <1>1 DEF Homes

(* A step that moves one fiber g: it leaves the places of the others.      *)
Same(f) ==
    /\ f \in created' <=> f \in created
    /\ f \in fibersIdle' <=> f \in fibersIdle
    /\ InSeq(fibersReady', f) <=> InSeq(fibersReady, f)
    /\ f \in waiting' <=> f \in waiting
    /\ \A w \in Workers :
        /\ f \in notExecuted'[w] <=> f \in notExecuted[w]
        /\ InSeq(notActivated'[w], f) <=> InSeq(notActivated[w], f)
        /\ pc'[w] \in InHand /\ fiber'[w] = f <=> pc[w] \in InHand /\ fiber[w] = f
        /\ pc[w] \in InHand /\ fiber[w] = f => (pc'[w] = "execute" <=> pc[w] = "execute")
    /\ code'[f] = code[f]

LEMMA HomesMove ==
    ASSUME Homes, NEW g \in Fibers, NEW k0 \in Kinds, NEW v0 \in Workers, At(k0, v0, g)',
           \A f \in Fibers \ {g} : Same(f),
           Inj(fibersReady'), \A w \in Workers : Inj(notActivated'[w])
    PROVE  Homes'
<1>1. ASSUME NEW f \in Fibers \ {g}, NEW k \in Kinds, NEW v \in Workers, At(k, v, f)
      PROVE  At(k, v, f)'
  <2>1. Same(f) OBVIOUS
  <2>2. k = "hand" => pc[v] \in InHand /\ fiber[v] = f BY <1>1 DEF At
  <2> QED BY <1>1, <2>1, <2>2 DEF At, Same
<1>2. ASSUME NEW f \in Fibers PROVE \E k \in Kinds, v \in Workers : At(k, v, f)'
  <2>1. PICK k \in Kinds, v \in Workers : At(k, v, f) BY DEF Homes
  <2>2. CASE f = g BY <2>2
  <2>3. CASE f # g BY <2>1, <2>3, <1>1
  <2> QED BY <2>2, <2>3
<1> QED BY <1>2 DEF Homes

LEMMA HomesKept == ASSUME IInv, [Next]_vars PROVE Homes'
<1> USE ConstantsAssumption DEF Goto, poolVars, fiberVars, workVars, histVars, IInv
<1>a. Inj(fibersReady) /\ \A w \in Workers : Inj(notActivated[w]) BY DEF Homes
<1>1. ASSUME NEW t \in Tasks, Spawn(t) PROVE Homes'
  BY <1>1, HomesSame DEF Spawn, TypeOK, InHand
<1>2. ASSUME NEW t \in Tasks, Complete(t) PROVE Homes'
  BY <1>2, HomesSame DEF Complete, TypeOK, InHand
<1>3. ASSUME NEW w \in Workers, NEW t \in Tasks, ExecInline(w, t) PROVE Homes'
  BY <1>3, HomesSame DEF ExecInline, TypeOK, InHand
<1>4. ASSUME NEW w \in Workers, RunHandler(w) PROVE Homes'
  BY <1>4, HomesSame DEF RunHandler, TypeOK, InHand
<1>5. ASSUME NEW w \in Workers, PopReady(w) PROVE Homes'
  <2>1. CASE fibersReady # <<>>
    <3>0. PICK g : g = Head(fibersReady) OBVIOUS
    <3>1. /\ fiber' = [fiber EXCEPT ![w] = g]
          /\ fibersReady' = Tail(fibersReady)
          /\ pc' = [pc EXCEPT ![w] = "activate"] /\ pc[w] = "ready"
          /\ UNCHANGED <<created, fibersIdle, waiting, notExecuted, notActivated, code>>
      BY <3>0, <2>1, <1>5 DEF PopReady
    <3>2. /\ g \in Fibers /\ InSeq(fibersReady, g) /\ Inj(fibersReady')
          /\ \A x : InSeq(fibersReady', x) <=> InSeq(fibersReady, x) /\ x # g
      BY <3>0, <2>1, <3>1, <1>a, SeqPop DEF TypeOK
    <3>3. At("hand", w, g)'
      <4>1. PICK k \in Kinds, v \in Workers : At(k, v, g) BY <3>0, <3>2 DEF Homes
      <4>2. k = "ready" BY <3>0, <4>1, <3>2 DEF At
      <4> QED BY <3>0, <4>1, <4>2, <3>1, <3>2 DEF At, TypeOK, InHand
    <3>4. \A f \in Fibers \ {g} : Same(f) BY <3>0, <3>1, <3>2 DEF Same, TypeOK, InHand
    <3> QED BY <3>0, <3>1, <3>2, <3>3, <3>4, <1>a, HomesMove DEF Kinds
  <2>2. CASE fibersReady = <<>> BY <2>2, <1>5, HomesSame DEF PopReady, TypeOK, InHand
  <2> QED BY <2>1, <2>2
<1>6. ASSUME NEW w \in Workers, Activate(w) PROVE Homes'
  <2>1. CASE ~isLocked[fiber[w]] BY <2>1, <1>6, HomesSame DEF Activate, CanEnter, TypeOK, InHand
  <2>2. CASE isLocked[fiber[w]]
    <3>0. PICK g : g = fiber[w] OBVIOUS
    <3>1. /\ notActivated' = [notActivated EXCEPT ![w] = Append(@, g)]
          /\ fiber' = [fiber EXCEPT ![w] = None]
          /\ pc' = [pc EXCEPT ![w] = "ready"] /\ pc[w] = "activate"
          /\ UNCHANGED <<created, fibersIdle, fibersReady, waiting, notExecuted, code>>
      BY <3>0, <2>2, <1>6 DEF Activate, CanEnter
    <3>2. pc[w] \in InHand BY <3>0, <3>1 DEF InHand
    <3>3. g \in Fibers /\ ~InSeq(notActivated[w], g) BY <3>0, <3>2, HandFacts
    <3>4. PICK k \in Kinds, v \in Workers : At(k, v, g) BY <3>0, <3>3 DEF Homes
    <3>5. k = "hand" /\ v = w BY <3>0, <3>2, <3>4 DEF At
    <3>6. /\ Inj(notActivated'[w])
          /\ \A x : InSeq(notActivated'[w], x) <=> InSeq(notActivated[w], x) \/ x = g
      <4>1. notActivated'[w] = Append(notActivated[w], g) /\ notActivated[w] \in Seq(Fibers)
        BY <3>0, <3>1 DEF TypeOK
      <4> QED BY <3>0, <4>1, <3>3, <1>a, SeqPush
    <3>7. \A u \in Workers \ {w} : notActivated'[u] = notActivated[u] BY <3>0, <3>1 DEF TypeOK
    <3>8. At("notActivated", w, g)'
      BY <3>0, <3>1, <3>2, <3>3, <3>4, <3>5, <3>6, <3>7 DEF At, TypeOK, InHand
    <3>9. \A f \in Fibers \ {g} : Same(f)
      BY <3>0, <3>1, <3>6, <3>7 DEF Same, TypeOK, InHand
    <3> QED BY <3>0, <3>1, <3>3, <3>6, <3>7, <3>8, <3>9, <1>a, HomesMove DEF Kinds
  <2> QED BY <2>1, <2>2
<1>7. ASSUME NEW w \in Workers, Requeue(w) PROVE Homes'
  <2>1. /\ fibersReady' = fibersReady \o notActivated[w]
        /\ notActivated' = [notActivated EXCEPT ![w] = <<>>]
        /\ UNCHANGED <<created, fibersIdle, waiting, notExecuted, code, fiber>>
        /\ pc[w] = "requeue"
    BY <1>7 DEF Requeue, Requeued
  <2>2. \A u \in Workers : IF u = w THEN pc'[u] \in {"takeTask", "ready", "poll"} ELSE pc'[u] = pc[u]
    BY <1>7 DEF Requeue, TypeOK
  <2>3. \A x : ~(InSeq(fibersReady, x) /\ InSeq(notActivated[w], x))
    <3> SUFFICES ASSUME NEW x, InSeq(fibersReady, x), InSeq(notActivated[w], x) PROVE FALSE
      OBVIOUS
    <3>1. x \in Fibers BY DEF InSeq, TypeOK
    <3>2. PICK k \in Kinds, v \in Workers : At(k, v, x) BY <3>1 DEF Homes
    <3> QED BY <3>2 DEF At
  <2>4. /\ Inj(fibersReady')
        /\ \A x : InSeq(fibersReady', x) <=> InSeq(fibersReady, x) \/ InSeq(notActivated[w], x)
    BY <2>1, <2>3, <1>a, SeqConcat DEF TypeOK
  <2>5. \A u \in Workers : notActivated'[u] = IF u = w THEN <<>> ELSE notActivated[u]
    BY <2>1 DEF TypeOK
  <2>6. \A u \in Workers : Inj(notActivated'[u]) BY <2>5, <1>a, SeqEmpty
  <2>7. ASSUME NEW f \in Fibers PROVE \E k \in Kinds, v \in Workers : At(k, v, f)'
    <3>1. PICK k \in Kinds, v \in Workers : At(k, v, f) BY DEF Homes
    <3>2. ~InSeq(<<>>, f) BY SeqEmpty
    <3>3. CASE InSeq(notActivated[w], f)
      <4>1. k = "notActivated" /\ v = w BY <3>1, <3>3 DEF At
      <4>2. At("ready", w, f)' BY <2>1, <2>2, <2>4, <2>5, <3>1, <3>2, <3>3, <4>1 DEF At, InHand
      <4> QED BY <4>2 DEF Kinds
    <3>4. CASE ~InSeq(notActivated[w], f)
      <4>1. At(k, v, f)' BY <2>1, <2>2, <2>4, <2>5, <3>1, <3>2, <3>4 DEF At, InHand
      <4> QED BY <4>1
    <3> QED BY <3>3, <3>4
  <2> QED BY <2>4, <2>6, <2>7 DEF Homes
<1>8. ASSUME NEW w \in Workers, TakeTask(w) PROVE Homes'
  BY <1>8, HomesSame DEF TakeTask, TypeOK, InHand
<1>9. ASSUME NEW w \in Workers, TakeFiber(w) PROVE Homes'
  <2>1. ASSUME NEW g \in fibersIdle, fiber' = [fiber EXCEPT ![w] = g],
               fibersIdle' = fibersIdle \ {g}, pc' = [pc EXCEPT ![w] = "execute"]
        PROVE  Homes'
    <3>1. /\ UNCHANGED <<created, fibersReady, waiting, notExecuted, notActivated, code>>
          /\ pc[w] = "takeFiber"
      BY <1>9 DEF TakeFiber
    <3>2. g \in Fibers BY DEF TypeOK
    <3>3. PICK k \in Kinds, v \in Workers : At(k, v, g) BY <3>2 DEF Homes
    <3>4. k = "idle" BY <3>3 DEF At
    <3>5. At("hand", w, g)' BY <2>1, <3>1, <3>2, <3>3, <3>4 DEF At, TypeOK, InHand
    <3>6. \A f \in Fibers \ {g} : Same(f) BY <2>1, <3>1 DEF Same, TypeOK, InHand
    <3> QED BY <3>1, <3>2, <3>5, <3>6, <1>a, HomesMove DEF Kinds
  <2>2. ASSUME NEW l \in {"create", "noFiber"}, fiber' = fiber, fibersIdle' = fibersIdle,
               pc' = [pc EXCEPT ![w] = l]
        PROVE  Homes'
    BY <2>2, <1>9, HomesSame DEF TakeFiber, TypeOK, InHand
  <2> QED BY <2>1, <2>2, <1>9 DEF TakeFiber
<1>10. ASSUME NEW w \in Workers, CreateFiber(w) PROVE Homes'
  <2>1. ASSUME NEW g \in Fibers \ created, created' = created \cup {g},
               fiber' = [fiber EXCEPT ![w] = g], pc' = [pc EXCEPT ![w] = "execute"]
        PROVE  Homes'
    <3>1. /\ UNCHANGED <<fibersIdle, fibersReady, waiting, notExecuted, notActivated, code>>
          /\ pc[w] = "create"
      BY <1>10 DEF CreateFiber
    <3>2. PICK k \in Kinds, v \in Workers : At(k, v, g) BY DEF Homes
    <3>3. k = "none" BY <3>2 DEF At
    <3>4. At("hand", w, g)' BY <2>1, <3>1, <3>2, <3>3 DEF At, TypeOK, InHand
    <3>5. \A f \in Fibers \ {g} : Same(f) BY <2>1, <3>1 DEF Same, TypeOK, InHand
    <3> QED BY <3>1, <3>4, <3>5, <1>a, HomesMove DEF Kinds
  <2>2. CASE pc' = [pc EXCEPT ![w] = "noFiber"] /\ created' = created /\ fiber' = fiber
    BY <2>2, <1>10, HomesSame DEF CreateFiber, TypeOK, InHand
  <2> QED BY <2>1, <2>2, <1>10 DEF CreateFiber
<1>11. ASSUME NEW w \in Workers, Execute(w) PROVE Homes'
  <2>0. PICK g : g = fiber[w] OBVIOUS
  <2>1. pc[w] = "execute" /\ pc[w] \in InHand BY <2>0, <1>11 DEF Execute, InHand
  <2>2. g \in Fibers BY <2>0, <2>1, HandFacts
  <2>3. PICK k \in Kinds, v \in Workers : At(k, v, g) BY <2>0, <2>2 DEF Homes
  <2>4. k = "hand" /\ v = w BY <2>0, <2>1, <2>3 DEF At
  <2>5. UNCHANGED <<created, fibersIdle, fibersReady, waiting, notActivated>>
    BY <2>0, <1>11 DEF Execute
  <2>6. CASE ~isLocked[g]
    <3>1. PICK t \in Tasks : code' = [code EXCEPT ![g] = t]
      <4>1. task[w] \in Tasks BY <2>0, <2>1 DEF TypeOK, TaskKept, BeforeHandOver
      <4>2. fromQueue[w] # None => fromQueue[w] \in Tasks BY DEF TypeOK
      <4> QED BY <2>0, <4>1, <4>2, <2>6, <1>11 DEF Execute, CanEnter
    <3>2. /\ fiber' = fiber /\ notExecuted' = notExecuted
          /\ pc' = [pc EXCEPT ![w] = "user"]
      BY <2>0, <2>6, <1>11 DEF Execute, CanEnter
    <3>3. code'[g] # None /\ \A f \in Fibers \ {g} : code'[f] = code[f]
      BY <2>0, <3>1, <2>2 DEF TypeOK
    <3>4. At("hand", w, g)' BY <2>0, <2>1, <2>2, <2>3, <2>4, <2>5, <3>2, <3>3 DEF At, TypeOK, InHand
    <3>5. \A f \in Fibers \ {g} : Same(f) BY <2>0, <2>1, <2>5, <3>2, <3>3 DEF Same, TypeOK, InHand
    <3> QED BY <2>0, <2>2, <2>5, <3>4, <3>5, <1>a, HomesMove DEF Kinds
  <2>7. CASE isLocked[g]
    <3>1. /\ notExecuted' = [notExecuted EXCEPT ![w] = @ \cup {g}]
          /\ fiber' = [fiber EXCEPT ![w] = None]
          /\ pc' = [pc EXCEPT ![w] = "takeTask"] /\ code' = code
      BY <2>0, <2>7, <1>11 DEF Execute, CanEnter
    <3>2. At("notExecuted", w, g)'
      BY <2>0, <2>1, <2>2, <2>3, <2>4, <2>5, <3>1 DEF At, TypeOK, InHand
    <3>3. \A f \in Fibers \ {g} : Same(f) BY <2>0, <2>1, <2>5, <3>1 DEF Same, TypeOK, InHand
    <3> QED BY <2>0, <2>2, <2>5, <3>2, <3>3, <1>a, HomesMove DEF Kinds
  <2> QED BY <2>0, <2>6, <2>7
<1>12. ASSUME NEW w \in Workers, NoFiber(w) PROVE Homes'
  BY <1>12, HomesSame DEF NoFiber, TypeOK, InHand
<1>13. ASSUME NEW w \in Workers, Flush(w) PROVE Homes'
  <2>1. /\ fibersIdle' = fibersIdle \cup notExecuted[w]
        /\ notExecuted' = [notExecuted EXCEPT ![w] = {}]
        /\ pc' = [pc EXCEPT ![w] = "ready"] /\ pc[w] = "flush"
        /\ UNCHANGED <<created, fibersReady, waiting, notActivated, code, fiber>>
    BY <1>13 DEF Flush
  <2>2. ASSUME NEW f \in Fibers PROVE \E k \in Kinds, v \in Workers : At(k, v, f)'
    <3>1. PICK k \in Kinds, v \in Workers : At(k, v, f) BY DEF Homes
    <3>2. CASE f \in notExecuted[w]
      <4>1. k = "notExecuted" /\ v = w BY <3>1, <3>2 DEF At
      <4>2. At("idle", w, f)' BY <2>1, <3>1, <3>2, <4>1 DEF At, InHand, TypeOK
      <4> QED BY <4>2 DEF Kinds
    <3>3. CASE f \notin notExecuted[w]
      <4>1. At(k, v, f)' BY <2>1, <3>1, <3>3 DEF At, InHand, TypeOK
      <4> QED BY <4>1
    <3> QED BY <3>2, <3>3
  <2> QED BY <2>1, <2>2, <1>a DEF Homes
<1>14. ASSUME NEW w \in Workers, FiberWait(w) PROVE Homes'
  <2>0. PICK g : g = fiber[w] OBVIOUS
  <2>1. /\ waiting' = waiting \cup {g}
        /\ pc' = [pc EXCEPT ![w] = "switch"] /\ pc[w] = "user"
        /\ UNCHANGED <<created, fibersIdle, fibersReady, notExecuted, notActivated, code, fiber>>
    BY <2>0, <1>14 DEF FiberWait
  <2>2. pc[w] \in InHand BY <2>0, <2>1 DEF InHand
  <2>3. g \in Fibers /\ ~InSeq(fibersReady, g) BY <2>0, <2>2, HandFacts
  <2>4. PICK k \in Kinds, v \in Workers : At(k, v, g) BY <2>0, <2>3 DEF Homes
  <2>5. k = "hand" /\ v = w BY <2>0, <2>2, <2>4 DEF At
  <2>6. Inj(fibersReady') BY <2>0, <2>1, <1>a
  <2>7. At("waiting", w, g)' BY <2>0, <2>1, <2>2, <2>3, <2>4, <2>5, <2>6 DEF At, TypeOK, InHand
  <2>8. \A f \in Fibers \ {g} : Same(f) BY <2>0, <2>1, <2>6 DEF Same, TypeOK, InHand
  <2> QED BY <2>0, <2>1, <2>3, <2>6, <2>7, <2>8, <1>a, HomesMove DEF Kinds
<1>15. ASSUME NEW w \in Workers, FiberYield(w) PROVE Homes'
  <2>0. PICK g : g = fiber[w] OBVIOUS
  <2>1. /\ fibersReady' = Append(fibersReady, g)
        /\ pc' = [pc EXCEPT ![w] = "switch"] /\ pc[w] = "user"
        /\ UNCHANGED <<created, fibersIdle, waiting, notExecuted, notActivated, code, fiber>>
    BY <2>0, <1>15 DEF FiberYield
  <2>2. pc[w] \in InHand BY <2>0, <2>1 DEF InHand
  <2>3. g \in Fibers /\ ~InSeq(fibersReady, g) BY <2>0, <2>2, HandFacts
  <2>4. PICK k \in Kinds, v \in Workers : At(k, v, g) BY <2>0, <2>3 DEF Homes
  <2>5. k = "hand" /\ v = w BY <2>0, <2>2, <2>4 DEF At
  <2>6. /\ Inj(fibersReady')
        /\ \A x : InSeq(fibersReady', x) <=> InSeq(fibersReady, x) \/ x = g
    BY <2>0, <2>1, <2>3, <1>a, SeqPush DEF TypeOK
  <2>7. At("ready", w, g)' BY <2>0, <2>1, <2>2, <2>3, <2>4, <2>5, <2>6 DEF At, TypeOK, InHand
  <2>8. \A f \in Fibers \ {g} : Same(f) BY <2>0, <2>1, <2>6 DEF Same, TypeOK, InHand
  <2> QED BY <2>0, <2>1, <2>3, <2>6, <2>7, <2>8, <1>a, HomesMove DEF Kinds
<1>16. ASSUME NEW w \in Workers, FiberExecuted(w) PROVE Homes'
  <2>0. PICK g : g = fiber[w] OBVIOUS
  <2>1. /\ code' = [code EXCEPT ![g] = None]
        /\ fibersIdle' = fibersIdle \cup {g}
        /\ pc' = [pc EXCEPT ![w] = "switch"] /\ pc[w] = "user"
        /\ UNCHANGED <<created, fibersReady, waiting, notExecuted, notActivated, fiber>>
    BY <2>0, <1>16 DEF FiberExecuted, CodeDropped
  <2>2. pc[w] \in InHand BY <2>0, <2>1 DEF InHand
  <2>3. g \in Fibers /\ ~InSeq(fibersReady, g) BY <2>0, <2>2, HandFacts
  <2>4. PICK k \in Kinds, v \in Workers : At(k, v, g) BY <2>0, <2>3 DEF Homes
  <2>5. k = "hand" /\ v = w BY <2>0, <2>2, <2>4 DEF At
  <2>6. Inj(fibersReady') BY <2>0, <2>1, <1>a
  <2>7. At("idle", w, g)' BY <2>0, <2>1, <2>2, <2>3, <2>4, <2>5, <2>6 DEF At, TypeOK, InHand
  <2>8. \A f \in Fibers \ {g} : Same(f) BY <2>0, <2>1, <2>6 DEF Same, TypeOK, InHand
  <2> QED BY <2>0, <2>1, <2>3, <2>6, <2>7, <2>8, <1>a, HomesMove DEF Kinds
<1>17. ASSUME NEW w \in Workers, SwitchToRoot(w) PROVE Homes'
  BY <1>17, HomesSame DEF SwitchToRoot, TypeOK, InHand
<1>18. ASSUME NEW w \in Workers, Leave(w) PROVE Homes'
  BY <1>18, HomesSame DEF Leave, TypeOK, InHand
<1>19. ASSUME NEW w \in Workers, NEW g \in Fibers, FiberWake(w, g) PROVE Homes'
  <2>1. /\ fibersReady' = Append(fibersReady, g)
        /\ waiting' = waiting \ {g} /\ g \in waiting
        /\ UNCHANGED <<created, fibersIdle, notExecuted, notActivated, code, fiber, pc>>
    BY <1>19 DEF FiberWake
  <2>2. PICK k \in Kinds, v \in Workers : At(k, v, g) BY DEF Homes
  <2>3. k = "waiting" BY <2>1, <2>2 DEF At
  <2>4. ~InSeq(fibersReady, g) BY <2>2, <2>3 DEF At
  <2>5. /\ Inj(fibersReady')
        /\ \A x : InSeq(fibersReady', x) <=> InSeq(fibersReady, x) \/ x = g
    BY <2>1, <2>4, <1>a, SeqPush DEF TypeOK
  <2>6. At("ready", w, g)' BY <2>1, <2>2, <2>3, <2>5 DEF At
  <2>7. \A f \in Fibers \ {g} : Same(f) BY <2>1, <2>5 DEF Same
  <2> QED BY <2>1, <2>5, <2>6, <2>7, <1>a, HomesMove DEF Kinds
<1>20. CASE UNCHANGED vars BY <1>20, HomesSame DEF vars
<1> QED
  BY <1>1, <1>2, <1>3, <1>4, <1>5, <1>6, <1>7, <1>8, <1>9, <1>10, <1>11,
     <1>12, <1>13, <1>14, <1>15, <1>16, <1>17, <1>18, <1>19, <1>20 DEF Next,
     Environment, RootStep, UserStep

-----------------------------------------------------------------------------
(* Stacks and locks. *)

(* A step of a worker that enters and leaves no fiber. *)
LEMMA StackSame ==
    ASSUME StackLocked, isLocked' = isLocked,
           \A w \in Workers : pc'[w] \in OnFiber => pc[w] \in OnFiber /\ fiber'[w] = fiber[w]
    PROVE  StackLocked'
BY DEF StackLocked, OneWorkerPerFiber

(* Fiber::enter succeeded: nobody was on the fiber. *)
LEMMA StackEntered ==
    ASSUME TypeOK, FiberKnown, StackLocked, NEW w \in Workers, fiber[w] \in Fibers,
           ~isLocked[fiber[w]], pc' = [pc EXCEPT ![w] = "user"], fiber' = fiber,
           isLocked' = [isLocked EXCEPT ![fiber[w]] = TRUE]
    PROVE  StackLocked'
<1>1. \A v \in Workers \ {w} : pc'[v] = pc[v] BY DEF TypeOK
<1>2. ASSUME NEW v \in Workers, v # w, pc[v] \in OnFiber
      PROVE  isLocked[fiber[v]] /\ fiber[v] # fiber[w] /\ fiber[v] \in Fibers
  BY <1>2 DEF StackLocked, FiberKnown
<1>3. ASSUME NEW v \in Workers, pc'[v] \in OnFiber PROVE isLocked'[fiber'[v]]
  <2>1. CASE v = w BY <2>1 DEF TypeOK
  <2>2. CASE v # w BY <2>2, <1>1, <1>2, <1>3 DEF TypeOK
  <2> QED BY <2>1, <2>2
<1>4. OneWorkerPerFiber' BY <1>1, <1>2 DEF OneWorkerPerFiber, StackLocked
<1> QED BY <1>3, <1>4 DEF StackLocked

LEMMA StackKept == ASSUME IInv, [Next]_vars PROVE StackLocked'
<1> USE ConstantsAssumption DEF Goto, poolVars, fiberVars, workVars, histVars, IInv
<1>1. ASSUME NEW t \in Tasks, Spawn(t) PROVE StackLocked'
  BY <1>1, StackSame DEF Spawn, TypeOK, OnFiber
<1>2. ASSUME NEW t \in Tasks, Complete(t) PROVE StackLocked'
  BY <1>2, StackSame DEF Complete, TypeOK, OnFiber
<1>3. ASSUME NEW w \in Workers, NEW t \in Tasks, ExecInline(w, t) PROVE StackLocked'
  BY <1>3, StackSame DEF ExecInline, TypeOK, OnFiber
<1>4. ASSUME NEW w \in Workers, RunHandler(w) PROVE StackLocked'
  BY <1>4, StackSame DEF RunHandler, TypeOK, OnFiber
<1>5. ASSUME NEW w \in Workers, PopReady(w) PROVE StackLocked'
  BY <1>5, StackSame DEF PopReady, TypeOK, OnFiber
<1>6. ASSUME NEW w \in Workers, Activate(w) PROVE StackLocked'
  <2>1. CASE ~isLocked[fiber[w]]
    <3>1. fiber[w] \in Fibers BY <1>6, HandFacts DEF Activate, InHand
    <3> QED BY <2>1, <3>1, <1>6, StackEntered DEF Activate, CanEnter
  <2>2. CASE isLocked[fiber[w]]
    BY <2>2, <1>6, StackSame DEF Activate, CanEnter, TypeOK, OnFiber
  <2> QED BY <2>1, <2>2
<1>7. ASSUME NEW w \in Workers, Requeue(w) PROVE StackLocked'
  BY <1>7, StackSame DEF Requeue, TypeOK, OnFiber
<1>8. ASSUME NEW w \in Workers, TakeTask(w) PROVE StackLocked'
  BY <1>8, StackSame DEF TakeTask, TypeOK, OnFiber
<1>9. ASSUME NEW w \in Workers, TakeFiber(w) PROVE StackLocked'
  BY <1>9, StackSame DEF TakeFiber, TypeOK, OnFiber
<1>10. ASSUME NEW w \in Workers, CreateFiber(w) PROVE StackLocked'
  BY <1>10, StackSame DEF CreateFiber, TypeOK, OnFiber
<1>11. ASSUME NEW w \in Workers, Execute(w) PROVE StackLocked'
  <2>1. CASE ~isLocked[fiber[w]]
    <3>1. fiber[w] \in Fibers BY <1>11, HandFacts DEF Execute, InHand
    <3> QED BY <2>1, <3>1, <1>11, StackEntered DEF Execute, CanEnter
  <2>2. CASE isLocked[fiber[w]]
    BY <2>2, <1>11, StackSame DEF Execute, CanEnter, TypeOK, OnFiber
  <2> QED BY <2>1, <2>2
<1>12. ASSUME NEW w \in Workers, NoFiber(w) PROVE StackLocked'
  BY <1>12, StackSame DEF NoFiber, TypeOK, OnFiber
<1>13. ASSUME NEW w \in Workers, Flush(w) PROVE StackLocked'
  BY <1>13, StackSame DEF Flush, TypeOK, OnFiber
<1>14. ASSUME NEW w \in Workers, FiberWait(w) PROVE StackLocked'
  BY <1>14, StackSame DEF FiberWait, TypeOK, OnFiber
<1>15. ASSUME NEW w \in Workers, FiberYield(w) PROVE StackLocked'
  BY <1>15, StackSame DEF FiberYield, TypeOK, OnFiber
<1>16. ASSUME NEW w \in Workers, FiberExecuted(w) PROVE StackLocked'
  BY <1>16, StackSame DEF FiberExecuted, TypeOK, OnFiber
<1>17. ASSUME NEW w \in Workers, SwitchToRoot(w) PROVE StackLocked'
  BY <1>17, StackSame DEF SwitchToRoot, TypeOK, OnFiber
<1>18. ASSUME NEW w \in Workers, Leave(w) PROVE StackLocked'
  <2>1. /\ isLocked' = [isLocked EXCEPT ![fiber[w]] = FALSE] /\ pc[w] = "leave"
        /\ fiber' = [fiber EXCEPT ![w] = None] /\ pc' = [pc EXCEPT ![w] = back[w]]
    BY <1>18 DEF Leave
  <2>2. pc'[w] \notin OnFiber BY <2>1 DEF TypeOK, OnFiber
  <2>3. \A v \in Workers \ {w} : pc'[v] = pc[v] /\ fiber'[v] = fiber[v] BY <2>1 DEF TypeOK
  <2>4. ASSUME NEW v \in Workers, pc'[v] \in OnFiber PROVE isLocked'[fiber'[v]]
    <3>1. v # w /\ pc[v] \in OnFiber /\ fiber'[v] = fiber[v] BY <2>2, <2>3, <2>4
    <3>2. fiber[v] \in Fibers /\ fiber[w] \in Fibers BY <2>1, <3>1 DEF FiberKnown, OnFiber
    <3>3. isLocked[fiber[v]] /\ fiber[v] # fiber[w]
      BY <2>1, <3>1 DEF StackLocked, OneWorkerPerFiber, OnFiber
    <3> QED BY <2>1, <3>1, <3>2, <3>3 DEF TypeOK
  <2>5. OneWorkerPerFiber' BY <2>2, <2>3 DEF StackLocked, OneWorkerPerFiber
  <2> QED BY <2>4, <2>5 DEF StackLocked
<1>19. ASSUME NEW w \in Workers, NEW f \in Fibers, FiberWake(w, f) PROVE StackLocked'
  BY <1>19, StackSame DEF FiberWake, TypeOK, OnFiber
<1>20. CASE UNCHANGED vars BY <1>20, StackSame DEF vars
<1> QED
  BY <1>1, <1>2, <1>3, <1>4, <1>5, <1>6, <1>7, <1>8, <1>9, <1>10, <1>11,
     <1>12, <1>13, <1>14, <1>15, <1>16, <1>17, <1>18, <1>19, <1>20 DEF Next,
     Environment, RootStep, UserStep

-----------------------------------------------------------------------------
(* The theorems. *)

LEMMA Inductive == Spec => []IInv
<1>1. IInv /\ [Next]_vars => IInv'
  BY TypesKept, HomesKept, StackKept DEF Typed, IInv
<1> QED BY InitIInv, <1>1, PTL DEF Spec

(* Worker, Fiber and FiberPool keep the types of their fields: in          *)
(* particular the task given to a fiber and the task that ends are tasks,  *)
(* never an empty boost::function.                                         *)
THEOREM TypeCorrect == Spec => []TypeOK
<1>1. IInv => TypeOK BY DEF IInv
<1> QED BY Inductive, <1>1, PTL

(* However many workers there are, no two are on the stack of one fiber.   *)
(* It is Fiber::enter that ensures it: a fiber is made ready or idle       *)
(* before its own worker has switched away from it.                        *)
THEOREM NoSharedStack == Spec => []OneWorkerPerFiber
<1>1. IInv => OneWorkerPerFiber BY DEF IInv, StackLocked
<1> QED BY Inductive, <1>1, PTL

(* The place At gives is the only member of the sets FiberInOnePlace       *)
(* counts.                                                                 *)
LEMMA PlacesOf ==
    ASSUME IInv, NEW f \in Fibers, NEW k \in Kinds, NEW v \in Workers, At(k, v, f)
    PROVE  LET places == IdleAt(f) \cup ReadyAt(f) \cup WaitingAt(f) \cup RunningAt(f)
           IN  /\ k = "none" => places = {}
               /\ k # "none" => \E x : places = {x}
               /\ IdleAt(f) # {} <=> k \in {"idle", "notExecuted"} \/ (k = "hand" /\ pc[v] = "execute")
<1>1. IdleAt(f) = CASE k = "idle" -> {<<"idle">>}
                    [] k = "notExecuted" -> {<<"notExecuted", v>>}
                    [] k = "hand" /\ pc[v] = "execute" -> {<<"execute", v>>}
                    [] OTHER -> {}
  <2>1. {y \in fibersIdle : y = f} = IF k = "idle" THEN {f} ELSE {} BY DEF At
  <2>2. {u \in Workers : f \in notExecuted[u]} = IF k = "notExecuted" THEN {v} ELSE {} BY DEF At
  <2>3. {u \in Workers : pc[u] = "execute" /\ fiber[u] = f}
          = IF k = "hand" /\ pc[v] = "execute" THEN {v} ELSE {}
    BY DEF At, InHand
  <2> QED BY <2>1, <2>2, <2>3 DEF IdleAt
<1>2. WaitingAt(f) = IF k = "waiting" THEN {<<"waiting">>} ELSE {} BY DEF WaitingAt, At
<1>3. RunningAt(f) = IF k = "hand" /\ pc[v] = "user" THEN {<<"user", v>>} ELSE {}
  <2>1. {u \in Workers : pc[u] = "user" /\ fiber[u] = f}
          = IF k = "hand" /\ pc[v] = "user" THEN {v} ELSE {}
    BY DEF At, InHand
  <2> QED BY <2>1 DEF RunningAt
<1>4. /\ k \notin {"ready", "notActivated"} /\ ~(k = "hand" /\ pc[v] = "activate") => ReadyAt(f) = {}
      /\ k \in {"ready", "notActivated"} \/ (k = "hand" /\ pc[v] = "activate") => \E x : ReadyAt(f) = {x}
  <2> DEFINE R == {<<"ready", i>> : i \in {j \in DOMAIN fibersReady : fibersReady[j] = f}}
             N == KeptAsideAt(f)
             A == {<<"activate", w>> : w \in {u \in Workers : pc[u] = "activate" /\ fiber[u] = f}}
  <2>1. ReadyAt(f) = R \cup N \cup A BY DEF ReadyAt
  <2>2. DOMAIN fibersReady = 1 .. Len(fibersReady)
        /\ \A w \in Workers : DOMAIN notActivated[w] = 1 .. Len(notActivated[w])
    BY DEF IInv, TypeOK
  <2>3. k # "ready" => R = {} BY <2>2 DEF At, InSeq
  <2>4. k = "ready" => \E x : R = {x}
    <3> SUFFICES ASSUME k = "ready" PROVE \E x : R = {x} OBVIOUS
    <3>1. PICK i \in 1 .. Len(fibersReady) : fibersReady[i] = f BY DEF At, InSeq
    <3>2. {j \in DOMAIN fibersReady : fibersReady[j] = f} = {i}
      BY <2>2, <3>1 DEF IInv, Homes, Inj
    <3>3. R = {<<"ready", i>>} BY <3>2
    <3> QED BY <3>3
  <2>5. k # "notActivated" => N = {}
    <3> SUFFICES ASSUME k # "notActivated" PROVE N = {} OBVIOUS
    <3>1. \A w \in Workers : {j \in DOMAIN notActivated[w] : notActivated[w][j] = f} = {}
      BY <2>2 DEF At, InSeq
    <3> QED BY <3>1 DEF KeptAsideAt
  <2>6. k = "notActivated" => \E x : N = {x}
    <3> SUFFICES ASSUME k = "notActivated" PROVE \E x : N = {x} OBVIOUS
    <3>1. PICK i \in 1 .. Len(notActivated[v]) : notActivated[v][i] = f BY DEF At, InSeq
    <3>2. {j \in DOMAIN notActivated[v] : notActivated[v][j] = f} = {i}
      BY <2>2, <3>1 DEF IInv, Homes, Inj
    <3>3. \A w \in Workers \ {v} : {j \in DOMAIN notActivated[w] : notActivated[w][j] = f} = {}
      BY <2>2 DEF At, InSeq
    <3>4. N = {<<"notActivated", v, i>>} BY <3>2, <3>3 DEF KeptAsideAt
    <3> QED BY <3>4
  <2>7. A = IF k = "hand" /\ pc[v] = "activate" THEN {<<"activate", v>>} ELSE {}
    <3>1. {u \in Workers : pc[u] = "activate" /\ fiber[u] = f}
            = IF k = "hand" /\ pc[v] = "activate" THEN {v} ELSE {}
      BY DEF At, InHand
    <3> QED BY <3>1
  <2> HIDE DEF R, N, A
  <2> QED BY <2>1, <2>3, <2>4, <2>5, <2>6, <2>7
<1>5. k = "hand" => pc[v] \in InHand BY DEF At
<1> HIDE DEF At
<1>6. k = "none" => IdleAt(f) = {} /\ ReadyAt(f) = {} /\ WaitingAt(f) = {} /\ RunningAt(f) = {}
  BY <1>1, <1>2, <1>3, <1>4
<1>7. k # "none" => \E x : IdleAt(f) \cup ReadyAt(f) \cup WaitingAt(f) \cup RunningAt(f) = {x}
  <2>1. CASE k \in {"idle", "notExecuted", "waiting"} BY <2>1, <1>1, <1>2, <1>3, <1>4
  <2>2. CASE k \in {"ready", "notActivated"} BY <2>2, <1>1, <1>2, <1>3, <1>4
  <2>3. CASE k = "hand" BY <2>3, <1>1, <1>2, <1>3, <1>4, <1>5 DEF InHand
  <2> QED BY <2>1, <2>2, <2>3 DEF Kinds
<1>8. IdleAt(f) # {} <=> k \in {"idle", "notExecuted"} \/ (k = "hand" /\ pc[v] = "execute")
  BY <1>1
<1> QED BY <1>6, <1>7, <1>8

(* No interleaving of the workers loses a fiber or puts one on two lists.  *)
THEOREM NoFiberLost == Spec => []FiberInOnePlace
<1>1. IInv => FiberInOnePlace
  <2> SUFFICES ASSUME IInv PROVE FiberInOnePlace OBVIOUS
  <2>1. ASSUME NEW f \in Fibers
        PROVE  LET places == IdleAt(f) \cup ReadyAt(f) \cup WaitingAt(f) \cup RunningAt(f)
               IN  /\ f \notin created => places = {}
                   /\ f \in created => Cardinality(places) = 1
                   /\ f \in created => (IdleAt(f) # {} <=> code[f] = None)
    <3>1. PICK k \in Kinds, v \in Workers : At(k, v, f) BY DEF IInv, Homes
    <3>2. f \in created <=> k # "none" BY <3>1 DEF At
    <3>3. code[f] = None <=> \/ k \in {"none", "idle", "notExecuted"}
                             \/ k = "hand" /\ pc[v] = "execute"
      BY <3>1 DEF At
    <3> QED BY <3>1, <3>2, <3>3, PlacesOf, FS_Singleton
  <2>2. created \subseteq Fibers BY DEF IInv, TypeOK
  <2> QED BY <2>1, <2>2 DEF FiberInOnePlace
<1> QED BY Inductive, <1>1, PTL

-----------------------------------------------------------------------------
(* The number of fibers.  A worker that has decided to create a fiber      *)
(* counts as one already.                                                  *)

Creators == {w \in Workers : pc[w] = "create"}

CountInv ==
    /\ totalAmount \in Nat
    /\ totalAmount + Cardinality(Creators) <= MaxFibers + Cardinality(Workers) - 1

LEMMA CreatorsFinite ==
    /\ IsFiniteSet(Creators) /\ Cardinality(Creators) \in Nat
    /\ Cardinality(Workers) \in Nat /\ Cardinality(Workers) >= 1
    /\ Cardinality(Creators) <= Cardinality(Workers)
<1>1. Creators \subseteq Workers BY DEF Creators
<1>2. IsFiniteSet(Workers) /\ Workers # {} BY ConstantsAssumption
<1>3. IsFiniteSet(Creators) /\ Cardinality(Creators) <= Cardinality(Workers)
  BY <1>1, <1>2, FS_Subset
<1>4. Cardinality(Workers) \in Nat /\ Cardinality(Creators) \in Nat
  BY <1>2, <1>3, FS_CardinalityType
<1>5. Cardinality(Workers) # 0 BY <1>2, FS_EmptySet
<1> QED BY <1>3, <1>4, <1>5

(* A step that counts nothing and does not decide to create a fiber. *)
LEMMA CountSame ==
    ASSUME CountInv, totalAmount' = totalAmount, Creators' \subseteq Creators
    PROVE  CountInv'
<1>1. Cardinality(Creators') <= Cardinality(Creators) /\ Cardinality(Creators') \in Nat
  BY CreatorsFinite, FS_Subset, FS_CardinalityType
<1> QED BY <1>1, CreatorsFinite, ConstantsAssumption DEF CountInv

LEMMA CountKept == ASSUME TypeOK, CountInv, [Next]_vars PROVE CountInv'
<1> USE DEF Goto, poolVars, fiberVars, workVars, histVars
<1>1. ASSUME NEW w \in Workers, TakeFiber(w), ~(MayCreate /\ fibersIdle = {}) PROVE CountInv'
  BY <1>1, CountSame DEF TakeFiber, Creators, TypeOK
<1>2. ASSUME NEW w \in Workers, TakeFiber(w), MayCreate PROVE CountInv'
  <2>1. totalAmount' = totalAmount /\ totalAmount < MaxFibers BY <1>2 DEF TakeFiber, MayCreate
  <2>2. Creators' \subseteq Workers BY DEF Creators
  <2>3. Cardinality(Creators') <= Cardinality(Workers) /\ Cardinality(Creators') \in Nat
    BY <2>2, ConstantsAssumption, FS_Subset, FS_CardinalityType
  <2> QED BY <2>1, <2>3, CreatorsFinite, ConstantsAssumption DEF CountInv
<1>3. ASSUME NEW w \in Workers, CreateFiber(w) PROVE CountInv'
  <2>1. CASE totalAmount' = totalAmount + 1
    <3>1. Creators' = Creators \ {w} /\ w \in Creators
      BY <2>1, <1>3 DEF CreateFiber, Creators, TypeOK
    <3>2. Cardinality(Creators') = Cardinality(Creators) - 1
      BY <3>1, CreatorsFinite, FS_RemoveElement
    <3> QED BY <2>1, <3>2, CreatorsFinite, ConstantsAssumption DEF CountInv
  <2>2. CASE totalAmount' = totalAmount
    <3>1. Creators' \subseteq Creators BY <1>3 DEF CreateFiber, Creators, TypeOK
    <3> QED BY <2>2, <3>1, CountSame
  <2> QED BY <2>1, <2>2, <1>3 DEF CreateFiber
<1>4. ASSUME NEW w \in Workers,
             \/ RunHandler(w) \/ PopReady(w) \/ Activate(w) \/ Requeue(w) \/ TakeTask(w)
             \/ Execute(w) \/ NoFiber(w) \/ Flush(w) \/ Leave(w) \/ UserStep(w)
             \/ \E f \in Fibers : FiberWake(w, f)
      PROVE  CountInv'
  <2>1. totalAmount' = totalAmount
    BY <1>4 DEF RunHandler, PopReady, Activate, Requeue, TakeTask, Execute, NoFiber, Flush,
       Leave, UserStep, FiberWait, FiberYield, FiberExecuted, SwitchToRoot, FiberWake
  <2>2. \A v \in Workers : pc'[v] = "create" => pc[v] = "create"
    BY <1>4 DEF RunHandler, PopReady, Activate, Requeue, TakeTask, Execute, NoFiber, Flush,
       Leave, UserStep, FiberWait, FiberYield, FiberExecuted, SwitchToRoot, FiberWake, TypeOK
  <2> QED BY <2>1, <2>2, CountSame DEF Creators
<1>5. CASE Environment \/ UNCHANGED vars
  <2>1. totalAmount' = totalAmount /\ pc' = pc
    BY <1>5 DEF Environment, Spawn, Complete, ExecInline, vars
  <2> QED BY <2>1, CountSame DEF Creators
<1> QED BY <1>1, <1>2, <1>3, <1>4, <1>5 DEF Next, RootStep

(* The limit checked under one lock and the fiber counted under a later    *)
(* one: fiber.maxAmount can be exceeded, by fewer fibers than there are    *)
(* workers and never by more.                                              *)
THEOREM OvershootBound == Spec => []FiberOvershootBounded
<1>1. Init => CountInv
  <2> SUFFICES ASSUME Init PROVE CountInv OBVIOUS
  <2>1. Creators = {} /\ totalAmount = 0 BY DEF Init, Creators
  <2>2. Cardinality(Creators) = 0 BY <2>1, FS_EmptySet
  <2> QED BY <2>1, <2>2, CreatorsFinite, ConstantsAssumption DEF CountInv
<1>2. TypeOK /\ CountInv /\ [Next]_vars => CountInv' BY CountKept
<1>3. CountInv => FiberOvershootBounded
  BY CreatorsFinite, ConstantsAssumption DEF CountInv, FiberOvershootBounded
<1> QED BY <1>1, <1>2, <1>3, TypeCorrect, PTL DEF Spec

-----------------------------------------------------------------------------
(* Where the tasks are: in one queue, in one local variable of one worker, *)
(* in the code of one fiber, returned, or dropped by Worker::exec.         *)

TaskKinds == {"new", "io", "queue", "argument", "taken", "code", "done", "dropped"}

(* Task t is in the place k and in no other; x is the worker or the fiber  *)
(* if the place belongs to one.                                            *)
TaskIn(k, x, t) ==
    /\ t \in arrived <=> k # "new"
    /\ t \in done <=> k = "done"
    /\ InSeq(io, t) <=> k = "io"
    /\ InSeq(tasks, t) <=> k = "queue"
    /\ \A w \in Workers :
        /\ task[w] = t <=> k = "argument" /\ x = w
        /\ fromQueue[w] = t <=> k = "taken" /\ x = w
    /\ \A f \in Fibers : code[f] = t <=> k = "code" /\ x = f

TaskHomes ==
    /\ \A t \in Tasks : \E k \in TaskKinds, x \in Workers \cup Fibers : TaskIn(k, x, t)
    /\ Inj(io)
    /\ Inj(tasks)

(* A step that moves no task. *)
LEMMA TasksSame ==
    ASSUME TaskHomes, UNCHANGED <<arrived, done, io, tasks, task, fromQueue, code>>
    PROVE  TaskHomes'
<1>1. ASSUME NEW t, NEW k, NEW x, TaskIn(k, x, t) PROVE TaskIn(k, x, t)' BY <1>1 DEF TaskIn
<1> QED BY <1>1 DEF TaskHomes

(* A step that moves one task leaves the others where they are. *)
TaskStays(u) ==
    /\ u \in arrived' <=> u \in arrived
    /\ u \in done' <=> u \in done
    /\ InSeq(io', u) <=> InSeq(io, u)
    /\ InSeq(tasks', u) <=> InSeq(tasks, u)
    /\ \A w \in Workers :
        /\ task'[w] = u <=> task[w] = u
        /\ fromQueue'[w] = u <=> fromQueue[w] = u
    /\ \A f \in Fibers : code'[f] = u <=> code[f] = u

LEMMA TaskMoved ==
    ASSUME TaskHomes, NEW t \in Tasks, NEW k0 \in TaskKinds, NEW x0 \in Workers \cup Fibers,
           TaskIn(k0, x0, t)', \A u \in Tasks \ {t} : TaskStays(u), Inj(io'), Inj(tasks')
    PROVE  TaskHomes'
<1>1. ASSUME NEW u \in Tasks \ {t}, NEW k, NEW x, TaskIn(k, x, u) PROVE TaskIn(k, x, u)'
  <2>1. TaskStays(u) OBVIOUS
  <2> QED BY <1>1, <2>1 DEF TaskIn, TaskStays
<1>2. ASSUME NEW u \in Tasks
      PROVE  \E k \in TaskKinds, x \in Workers \cup Fibers : TaskIn(k, x, u)'
  <2>1. PICK k \in TaskKinds, x \in Workers \cup Fibers : TaskIn(k, x, u) BY DEF TaskHomes
  <2>2. CASE u = t BY <2>2
  <2>3. CASE u # t BY <2>1, <2>3, <1>1
  <2> QED BY <2>2, <2>3
<1> QED BY <1>2 DEF TaskHomes

LEMMA SeqSingle ==
    ASSUME NEW S, NEW y \in S
    PROVE  /\ <<y>> \in Seq(S)
           /\ Inj(<<y>>)
           /\ \A x : InSeq(<<y>>, x) <=> x = y
BY DEF Inj, InSeq

LEMMA TaskHomesKept == ASSUME IInv, TaskHomes, [Next]_vars PROVE TaskHomes'
<1> USE ConstantsAssumption DEF Goto, poolVars, fiberVars, workVars, histVars, IInv
<1>a. Inj(io) /\ Inj(tasks) BY DEF TaskHomes
<1>b. PICK w0 : w0 \in Workers BY ConstantsAssumption
<1>1. ASSUME NEW t \in Tasks, Spawn(t) \/ Complete(t) PROVE TaskHomes'
  <2>1. PICK k \in TaskKinds, x \in Workers \cup Fibers : TaskIn(k, x, t) BY DEF TaskHomes
  <2>2. k = "new" BY <1>1, <2>1 DEF Spawn, Complete, TaskIn
  <2>3. /\ arrived' = arrived \cup {t}
        /\ UNCHANGED <<done, task, fromQueue, code>>
    BY <1>1 DEF Spawn, Complete
  <2>4. CASE tasks' = Append(tasks, t) /\ io' = io
    <3>1. ~InSeq(tasks, t) BY <2>1, <2>2 DEF TaskIn
    <3>2. /\ Inj(tasks')
          /\ \A y : InSeq(tasks', y) <=> InSeq(tasks, y) \/ y = t
      BY <2>4, <3>1, <1>a, SeqPush DEF TypeOK
    <3>3. TaskIn("queue", x, t)' BY <2>1, <2>2, <2>3, <2>4, <3>2 DEF TaskIn
    <3>4. \A u \in Tasks \ {t} : TaskStays(u) BY <2>3, <2>4, <3>2 DEF TaskStays
    <3> QED BY <2>4, <3>2, <3>3, <3>4, <1>a, TaskMoved DEF TaskKinds
  <2>5. CASE io' = Append(io, t) /\ tasks' = tasks
    <3>1. ~InSeq(io, t) BY <2>1, <2>2 DEF TaskIn
    <3>2. /\ Inj(io')
          /\ \A y : InSeq(io', y) <=> InSeq(io, y) \/ y = t
      BY <2>5, <3>1, <1>a, SeqPush DEF TypeOK
    <3>3. TaskIn("io", x, t)' BY <2>1, <2>2, <2>3, <2>5, <3>2 DEF TaskIn
    <3>4. \A u \in Tasks \ {t} : TaskStays(u) BY <2>3, <2>5, <3>2 DEF TaskStays
    <3> QED BY <2>5, <3>2, <3>3, <3>4, <1>a, TaskMoved DEF TaskKinds
  <2> QED BY <2>4, <2>5, <1>1 DEF Spawn, Complete
<1>2. ASSUME NEW w \in Workers, NEW t \in Tasks, ExecInline(w, t) PROVE TaskHomes'
  <2>1. PICK k \in TaskKinds, x \in Workers \cup Fibers : TaskIn(k, x, t) BY DEF TaskHomes
  <2>2. k = "new" BY <1>2, <2>1 DEF ExecInline, TaskIn
  <2>3. /\ arrived' = arrived \cup {t} /\ done' = done \cup {t}
        /\ UNCHANGED <<io, tasks, task, fromQueue, code>>
    BY <1>2 DEF ExecInline
  <2>4. TaskIn("done", x, t)' BY <2>1, <2>2, <2>3 DEF TaskIn
  <2>5. \A u \in Tasks \ {t} : TaskStays(u) BY <2>3 DEF TaskStays
  <2> QED BY <2>3, <2>4, <2>5, <1>a, TaskMoved DEF TaskKinds
<1>3. ASSUME NEW w \in Workers, RunHandler(w) PROVE TaskHomes'
  <2>0. PICK t : t = Head(io) OBVIOUS
  <2>1. /\ io # <<>> /\ io' = Tail(io) /\ task' = [task EXCEPT ![w] = t]
        /\ UNCHANGED <<arrived, done, tasks, fromQueue, code>>
    BY <2>0, <1>3 DEF RunHandler
  <2>2. /\ t \in Tasks /\ InSeq(io, t) /\ Inj(io')
        /\ \A y : InSeq(io', y) <=> InSeq(io, y) /\ y # t
    BY <2>0, <2>1, <1>a, SeqPop DEF TypeOK
  <2>3. task[w] = None BY <1>3 DEF RunHandler, TaskKept, BeforeHandOver, OnFiber
  <2>4. PICK k \in TaskKinds, x \in Workers \cup Fibers : TaskIn(k, x, t) BY <2>2 DEF TaskHomes
  <2>5. k = "io" BY <2>2, <2>4 DEF TaskIn
  <2>6. \A v \in Workers : task'[v] = IF v = w THEN t ELSE task[v] BY <2>1 DEF TypeOK
  <2>7. TaskIn("argument", w, t)' BY <2>1, <2>2, <2>4, <2>5, <2>6 DEF TaskIn
  <2>8. \A u \in Tasks \ {t} : TaskStays(u) BY <2>1, <2>2, <2>3, <2>6 DEF TaskStays
  <2> QED BY <2>1, <2>2, <2>7, <2>8, <1>a, TaskMoved DEF TaskKinds
<1>4. ASSUME NEW w \in Workers, TakeTask(w) PROVE TaskHomes'
  <2>0. fromQueue[w] = None BY <1>4 DEF TakeTask, TaskKept, HasQueuedTask
  <2>1. CASE tasks # <<>>
    <3>0. PICK t : t = Head(tasks) OBVIOUS
    <3>1. /\ tasks' = Tail(tasks) /\ fromQueue' = [fromQueue EXCEPT ![w] = t]
          /\ UNCHANGED <<arrived, done, io, task, code>>
      BY <3>0, <2>1, <1>4 DEF TakeTask
    <3>2. /\ t \in Tasks /\ InSeq(tasks, t) /\ Inj(tasks')
          /\ \A y : InSeq(tasks', y) <=> InSeq(tasks, y) /\ y # t
      BY <3>0, <2>1, <3>1, <1>a, SeqPop DEF TypeOK
    <3>3. PICK k \in TaskKinds, x \in Workers \cup Fibers : TaskIn(k, x, t) BY <3>2 DEF TaskHomes
    <3>4. k = "queue" BY <3>2, <3>3 DEF TaskIn
    <3>5. \A v \in Workers : fromQueue'[v] = IF v = w THEN t ELSE fromQueue[v]
      BY <3>1 DEF TypeOK
    <3>6. TaskIn("taken", w, t)' BY <3>1, <3>2, <3>3, <3>4, <3>5 DEF TaskIn
    <3>7. \A u \in Tasks \ {t} : TaskStays(u) BY <3>1, <3>2, <3>5, <2>0 DEF TaskStays
    <3> QED BY <3>1, <3>2, <3>6, <3>7, <1>a, TaskMoved DEF TaskKinds
  <2>2. CASE tasks = <<>>
    <3>1. fromQueue' = fromQueue BY <2>0, <2>2, <1>4 DEF TakeTask, TypeOK
    <3> QED BY <3>1, <2>2, <1>4, TasksSame DEF TakeTask
  <2> QED BY <2>1, <2>2
<1>5. ASSUME NEW w \in Workers, Execute(w) PROVE TaskHomes'
  <2>0. PICK g : g = fiber[w] OBVIOUS
  <2>1. pc[w] = "execute" /\ g \in Fibers /\ code[g] = None
    <3>1. pc[w] = "execute" /\ pc[w] \in InHand BY <1>5 DEF Execute, InHand
    <3>2. code[g] \in Tasks \cup {None} /\ g \in Fibers BY <2>0, <3>1, HandFacts DEF TypeOK
    <3> QED BY <2>0, <3>1, <3>2, HandFacts
  <2>2. /\ fromQueue' = [fromQueue EXCEPT ![w] = None]
        /\ UNCHANGED <<arrived, done, io, tasks>>
    BY <1>5 DEF Execute
  <2>3. \A v \in Workers : fromQueue'[v] = IF v = w THEN None ELSE fromQueue[v]
    BY <2>2 DEF TypeOK
  <2>4. CASE ~isLocked[g] /\ fromQueue[w] # None
    <3>0. PICK t : t = fromQueue[w] OBVIOUS
    <3>1. code' = [code EXCEPT ![g] = t] /\ task' = task
      BY <2>0, <3>0, <2>4, <1>5 DEF Execute, CanEnter
    <3>2. t \in Tasks BY <3>0, <2>4 DEF TypeOK
    <3>3. PICK k \in TaskKinds, x \in Workers \cup Fibers : TaskIn(k, x, t) BY <3>2 DEF TaskHomes
    <3>4. k = "taken" /\ x = w BY <3>0, <3>3 DEF TaskIn
    <3>5. \A f \in Fibers : code'[f] = IF f = g THEN t ELSE code[f] BY <3>1 DEF TypeOK
    <3>6. TaskIn("code", g, t)' BY <2>1, <2>2, <2>3, <3>1, <3>2, <3>3, <3>4, <3>5 DEF TaskIn
    <3>7. \A u \in Tasks \ {t} : TaskStays(u) BY <2>1, <2>2, <2>3, <3>0, <3>1, <3>5 DEF TaskStays
    <3> QED BY <2>1, <2>2, <3>2, <3>6, <3>7, <1>a, TaskMoved DEF TaskKinds
  <2>5. CASE ~isLocked[g] /\ fromQueue[w] = None
    <3>0. PICK t : t = task[w] OBVIOUS
    <3>1. code' = [code EXCEPT ![g] = t] /\ task' = [task EXCEPT ![w] = None]
      BY <2>0, <3>0, <2>5, <1>5 DEF Execute, CanEnter
    <3>2. t \in Tasks BY <3>0, <2>1 DEF TypeOK, TaskKept, BeforeHandOver
    <3>3. PICK k \in TaskKinds, x \in Workers \cup Fibers : TaskIn(k, x, t) BY <3>2 DEF TaskHomes
    <3>4. k = "argument" /\ x = w BY <3>0, <3>3 DEF TaskIn
    <3>5. /\ \A f \in Fibers : code'[f] = IF f = g THEN t ELSE code[f]
          /\ \A v \in Workers : task'[v] = IF v = w THEN None ELSE task[v]
      BY <3>1 DEF TypeOK
    <3>6. TaskIn("code", g, t)' BY <2>1, <2>2, <2>3, <3>2, <3>3, <3>4, <3>5 DEF TaskIn
    <3>7. \A u \in Tasks \ {t} : TaskStays(u)
      BY <2>1, <2>2, <2>3, <2>5, <3>0, <3>5 DEF TaskStays
    <3> QED BY <2>1, <2>2, <3>2, <3>6, <3>7, <1>a, TaskMoved DEF TaskKinds
  <2>6. CASE isLocked[g]
    <3>1. code' = code /\ task' = task BY <2>0, <2>6, <1>5 DEF Execute, CanEnter
    <3>2. CASE fromQueue[w] = None
      <4>1. fromQueue' = fromQueue BY <2>2, <3>2 DEF TypeOK
      <4> QED BY <2>2, <3>1, <4>1, TasksSame
    <3>3. CASE fromQueue[w] # None
      <4>0. PICK t : t = fromQueue[w] OBVIOUS
      <4>1. t \in Tasks BY <4>0, <3>3 DEF TypeOK
      <4>2. PICK k \in TaskKinds, x \in Workers \cup Fibers : TaskIn(k, x, t)
        BY <4>1 DEF TaskHomes
      <4>3. k = "taken" /\ x = w BY <4>0, <4>2 DEF TaskIn
      <4>4. TaskIn("dropped", w, t)' BY <2>2, <2>3, <3>1, <4>1, <4>2, <4>3 DEF TaskIn
      <4>5. \A u \in Tasks \ {t} : TaskStays(u) BY <2>2, <2>3, <3>1, <4>0 DEF TaskStays
      <4> QED BY <2>2, <4>1, <4>4, <4>5, <1>a, TaskMoved DEF TaskKinds
    <3> QED BY <3>2, <3>3
  <2> QED BY <2>4, <2>5, <2>6
<1>6. ASSUME NEW w \in Workers, NoFiber(w) PROVE TaskHomes'
  <2>0. DEFINE front == IF fromQueue[w] = None THEN tasks ELSE <<fromQueue[w]>> \o tasks
  <2>1. /\ tasks' = front \o <<task[w]>>
        /\ fromQueue' = [fromQueue EXCEPT ![w] = None]
        /\ task' = [task EXCEPT ![w] = None]
        /\ UNCHANGED <<arrived, done, io, code>>
    BY <1>6 DEF NoFiber, QueueAgain
  <2>2. task[w] \in Tasks BY <1>6 DEF NoFiber, TypeOK, TaskKept, BeforeHandOver
  <2>3. /\ task[w] # fromQueue[w]
        /\ \A y \in {task[w], fromQueue[w]} \ {None} : ~InSeq(tasks, y)
    <3>1. ASSUME NEW y \in {task[w], fromQueue[w]} \ {None}
          PROVE  ~InSeq(tasks, y) /\ ~(task[w] = y /\ fromQueue[w] = y)
      <4>1. y \in Tasks BY DEF TypeOK
      <4>2. PICK k \in TaskKinds, x \in Workers \cup Fibers : TaskIn(k, x, y)
        BY <4>1 DEF TaskHomes
      <4> QED BY <4>2 DEF TaskIn
    <3> QED BY <3>1, <2>2
  <2>4. /\ front \in Seq(Tasks) /\ Inj(front)
        /\ \A y : InSeq(front, y) <=> InSeq(tasks, y) \/ (fromQueue[w] # None /\ y = fromQueue[w])
    <3>1. CASE fromQueue[w] = None BY <3>1, <1>a DEF TypeOK
    <3>2. CASE fromQueue[w] # None
      <4>0. PICK t : t = fromQueue[w] OBVIOUS
      <4>1. t \in Tasks BY <4>0, <3>2 DEF TypeOK
      <4>2. PICK s : s = <<t>> OBVIOUS
      <4>3. s \in Seq(Tasks) /\ Inj(s) /\ \A y : InSeq(s, y) <=> y = t
        BY <4>1, <4>2, SeqSingle
      <4>4. tasks \in Seq(Tasks) /\ \A y : ~(InSeq(s, y) /\ InSeq(tasks, y))
        BY <4>0, <4>3, <2>3, <3>2 DEF TypeOK
      <4>5. /\ s \o tasks \in Seq(Tasks) /\ Inj(s \o tasks)
            /\ \A y : InSeq(s \o tasks, y) <=> InSeq(s, y) \/ InSeq(tasks, y)
        BY <4>3, <4>4, <1>a, SeqConcat
      <4>6. front = s \o tasks BY <4>0, <4>2, <3>2
      <4> HIDE DEF front
      <4> QED BY <4>0, <4>3, <4>5, <4>6, <3>2
    <3> QED BY <3>1, <3>2
  <2> HIDE DEF front
  <2>5. /\ Inj(tasks')
        /\ \A y : InSeq(tasks', y) <=> InSeq(front, y) \/ y = task[w]
    <3>0. PICK s : s = <<task[w]>> OBVIOUS
    <3>1. s \in Seq(Tasks) /\ Inj(s) /\ \A y : InSeq(s, y) <=> y = task[w]
      BY <2>2, <3>0, SeqSingle
    <3>2. ~InSeq(front, task[w])
      <4>1. task[w] # None BY <2>2, ConstantsAssumption
      <4>2. ~InSeq(tasks, task[w]) BY <2>3, <4>1
      <4> QED BY <2>3, <2>4, <4>2
    <3>3. \A y : ~(InSeq(front, y) /\ InSeq(s, y)) BY <3>1, <3>2
    <3>4. /\ Inj(front \o s)
          /\ \A y : InSeq(front \o s, y) <=> InSeq(front, y) \/ InSeq(s, y)
      BY <2>4, <3>1, <3>3, SeqConcat
    <3> QED BY <2>1, <3>0, <3>1, <3>4
  <2>6. \A v \in Workers : /\ fromQueue'[v] = IF v = w THEN None ELSE fromQueue[v]
                           /\ task'[v] = IF v = w THEN None ELSE task[v]
    BY <2>1 DEF TypeOK
  <2>7. ASSUME NEW u \in Tasks
        PROVE  \E k \in TaskKinds, x \in Workers \cup Fibers : TaskIn(k, x, u)'
    <3>1. PICK k \in TaskKinds, x \in Workers \cup Fibers : TaskIn(k, x, u) BY DEF TaskHomes
    <3>2. InSeq(tasks', u) <=> k = "queue" \/ ((k = "taken" \/ k = "argument") /\ x = w)
      BY <2>4, <2>5, <3>1 DEF TaskIn
    <3>3. CASE (k = "taken" \/ k = "argument") /\ x = w
      <4>1. TaskIn("queue", w, u)' BY <2>1, <2>6, <3>1, <3>2, <3>3 DEF TaskIn
      <4> QED BY <4>1 DEF TaskKinds
    <3>4. CASE ~((k = "taken" \/ k = "argument") /\ x = w)
      <4>1. TaskIn(k, x, u)' BY <2>1, <2>6, <3>1, <3>2, <3>4 DEF TaskIn
      <4> QED BY <4>1
    <3> QED BY <3>3, <3>4
  <2> QED BY <2>1, <2>5, <2>7, <1>a DEF TaskHomes
<1>7. ASSUME NEW w \in Workers, FiberExecuted(w) PROVE TaskHomes'
  <2>0. PICK g, t : g = fiber[w] /\ t = code[fiber[w]] OBVIOUS
  <2>1. g \in Fibers /\ t \in Tasks BY <2>0, <1>7, HandFacts DEF FiberExecuted, InHand
  <2>2. /\ done' = done \cup {t} /\ code' = [code EXCEPT ![g] = None]
        /\ UNCHANGED <<arrived, io, tasks, task, fromQueue>>
    BY <2>0, <1>7 DEF FiberExecuted, CodeDropped
  <2>3. PICK k \in TaskKinds, x \in Workers \cup Fibers : TaskIn(k, x, t) BY <2>1 DEF TaskHomes
  <2>4. k = "code" /\ x = g BY <2>0, <2>1, <2>3 DEF TaskIn
  <2>5. \A f \in Fibers : code'[f] = IF f = g THEN None ELSE code[f] BY <2>2 DEF TypeOK
  <2>6. TaskIn("done", g, t)' BY <2>1, <2>2, <2>3, <2>4, <2>5 DEF TaskIn
  <2>7. \A u \in Tasks \ {t} : TaskStays(u) BY <2>0, <2>2, <2>5 DEF TaskStays
  <2> QED BY <2>1, <2>2, <2>6, <2>7, <1>a, TaskMoved DEF TaskKinds
<1>8. ASSUME NEW w \in Workers,
             \/ PopReady(w) \/ Activate(w) \/ Requeue(w) \/ TakeFiber(w) \/ CreateFiber(w)
             \/ Flush(w) \/ Leave(w) \/ FiberWait(w) \/ FiberYield(w) \/ SwitchToRoot(w)
             \/ \E f \in Fibers : FiberWake(w, f)
      PROVE  TaskHomes'
  <2>1. UNCHANGED <<arrived, done, io, tasks, task, fromQueue, code>>
    BY <1>8 DEF PopReady, Activate, Requeue, TakeFiber, CreateFiber, Flush, Leave, FiberWait,
       FiberYield, SwitchToRoot, FiberWake
  <2> QED BY <2>1, TasksSame
<1>9. CASE UNCHANGED vars BY <1>9, TasksSame DEF vars
<1> QED
  BY <1>1, <1>2, <1>3, <1>4, <1>5, <1>6, <1>7, <1>8, <1>9 DEF Next, Environment, RootStep,
     UserStep

-----------------------------------------------------------------------------
(* The scheduler implements TaskRuntime.  StatusIs says what StatusOf      *)
(* chooses, in terms of the places of the task and of its fiber.           *)

Counted == Cardinality(created) = totalAmount

RInv == IInv /\ TaskHomes /\ Counted /\ FiberOvershootBounded

IsReady(f) ==
    \/ InSeq(fibersReady, f)
    \/ \E w \in Workers : \/ InSeq(notActivated[w], f)
                          \/ pc[w] = "activate" /\ fiber[w] = f

Queued(t) ==
    \/ InSeq(io, t)
    \/ InSeq(tasks, t)
    \/ \E w \in Workers : task[w] = t \/ fromQueue[w] = t

HasCode(t) == \E f \in Fibers : code[f] = t

StatusIs(t) ==
    /\ t \notin arrived => StatusOf(t) = "new"
    /\ t \in done => StatusOf(t) = "done"
    /\ Queued(t) => StatusOf(t) = "pending"
    /\ t \in arrived \ done /\ ~Queued(t) /\ ~HasCode(t) => StatusOf(t) = "dropped"
    /\ \A f \in Fibers : code[f] = t =>
         StatusOf(t) = IF f \in waiting THEN "suspended"
                       ELSE IF IsReady(f) THEN "woken" ELSE "running"

LEMMA ListsOf ==
    ASSUME TypeOK, NEW f \in Fibers
    PROVE  /\ WaitingAt(f) # {} <=> f \in waiting
           /\ ReadyAt(f) # {} <=> IsReady(f)
<1>1. WaitingAt(f) # {} <=> f \in waiting BY DEF WaitingAt
<1>2. DOMAIN fibersReady = 1 .. Len(fibersReady)
      /\ \A w \in Workers : DOMAIN notActivated[w] = 1 .. Len(notActivated[w])
  BY DEF TypeOK
<1>3. {<<"ready", i>> : i \in {j \in DOMAIN fibersReady : fibersReady[j] = f}} # {}
        <=> InSeq(fibersReady, f)
  BY <1>2 DEF InSeq
<1>4. KeptAsideAt(f) # {} <=> \E w \in Workers : InSeq(notActivated[w], f)
  <2>1. \A w \in Workers :
          {<<"notActivated", w, i>> : i \in {j \in DOMAIN notActivated[w] : notActivated[w][j] = f}} # {}
            <=> InSeq(notActivated[w], f)
    BY <1>2 DEF InSeq
  <2> QED BY <2>1 DEF KeptAsideAt
<1>5. {<<"activate", w>> : w \in {v \in Workers : pc[v] = "activate" /\ fiber[v] = f}} # {}
        <=> \E w \in Workers : pc[w] = "activate" /\ fiber[w] = f
  OBVIOUS
<1>6. ReadyAt(f) # {} <=> IsReady(f) BY <1>3, <1>4, <1>5 DEF ReadyAt, IsReady
<1> QED BY <1>1, <1>6

LEMMA QueuedAt ==
    ASSUME TypeOK, NEW t \in Tasks, ~HasCode(t), t \notin done
    PROVE  TaskAt(t) # {} <=> Queued(t)
<1>1. DOMAIN io = 1 .. Len(io) /\ DOMAIN tasks = 1 .. Len(tasks) BY DEF TypeOK
<1>2. {<<"io", i>> : i \in {j \in DOMAIN io : io[j] = t}} # {} <=> InSeq(io, t)
  BY <1>1 DEF InSeq
<1>3. {<<"tasks", i>> : i \in {j \in DOMAIN tasks : tasks[j] = t}} # {} <=> InSeq(tasks, t)
  BY <1>1 DEF InSeq
<1>4. {<<"task", w>> : w \in {v \in Workers : task[v] = t}} # {}
        <=> \E w \in Workers : task[w] = t
  OBVIOUS
<1>5. {<<"fromQueue", w>> : w \in {v \in Workers : fromQueue[v] = t}} # {}
        <=> \E w \in Workers : fromQueue[w] = t
  OBVIOUS
<1>6. {<<"code", f>> : f \in {g \in Fibers : code[g] = t}} = {} BY DEF HasCode
<1>7. {<<"done">> : x \in done \cap {t}} = {} OBVIOUS
<1> QED BY <1>2, <1>3, <1>4, <1>5, <1>6, <1>7 DEF TaskAt, Queued

LEMMA StatusKnown == RInv => \A t \in Tasks : StatusIs(t)
<1> SUFFICES ASSUME RInv, NEW t \in Tasks PROVE StatusIs(t) OBVIOUS
<1>0. TypeOK /\ TaskHomes BY DEF RInv, IInv
<1>1. PICK k \in TaskKinds, x \in Workers \cup Fibers : TaskIn(k, x, t) BY <1>0 DEF TaskHomes
<1>2. /\ Queued(t) => k \in {"io", "queue", "argument", "taken"}
      /\ HasCode(t) => k = "code"
      /\ t \in arrived <=> k # "new"
      /\ t \in done <=> k = "done"
  BY <1>1 DEF TaskIn, Queued, HasCode
<1>3. t \notin arrived => StatusOf(t) = "new" BY DEF StatusOf
<1>4. t \in done => StatusOf(t) = "done" BY <1>2 DEF StatusOf
<1>5. ASSUME Queued(t) PROVE StatusOf(t) = "pending"
  <2>1. t \in arrived /\ t \notin done /\ ~HasCode(t) BY <1>2, <1>5
  <2>2. TaskAt(t) # {} BY <2>1, <1>0, <1>5, QueuedAt
  <2> QED BY <2>1, <2>2 DEF StatusOf, HasCode
<1>6. ASSUME t \in arrived \ done, ~Queued(t), ~HasCode(t) PROVE StatusOf(t) = "dropped"
  <2>1. TaskAt(t) = {} BY <1>0, <1>6, QueuedAt
  <2> QED BY <2>1, <1>6 DEF StatusOf, HasCode
<1>7. ASSUME NEW f \in Fibers, code[f] = t
      PROVE  StatusOf(t) = IF f \in waiting THEN "suspended"
                           ELSE IF IsReady(f) THEN "woken" ELSE "running"
  <2>1. \A g \in Fibers : code[g] = t <=> g = f BY <1>1, <1>7 DEF TaskIn
  <2>2. FiberOf(t) = f BY <2>1 DEF FiberOf
  <2>3. t \in arrived /\ t \notin done BY <1>2, <1>7 DEF HasCode
  <2> QED BY <2>2, <2>3, <1>0, <1>7, ListsOf DEF StatusOf
<1> QED BY <1>3, <1>4, <1>5, <1>6, <1>7 DEF StatusIs

LEMMA StatusKnownNext == ASSUME RInv' PROVE \A t \in Tasks : StatusIs(t)'
<1>1. (\A t \in Tasks : StatusIs(t))' BY StatusKnown, PTL
<1> QED BY <1>1

LEMMA CountedKept == ASSUME TypeOK, Counted, [Next]_vars PROVE Counted'
<1> USE DEF Goto, poolVars, fiberVars, workVars, histVars
<1>1. ASSUME NEW w \in Workers, CreateFiber(w) PROVE Counted'
  <2>1. ASSUME NEW f \in Fibers \ created, created' = created \cup {f},
               totalAmount' = totalAmount + 1
        PROVE  Counted'
    <3>1. IsFiniteSet(created) BY ConstantsAssumption, FS_Subset DEF TypeOK
    <3>2. Cardinality(created') = Cardinality(created) + 1 BY <2>1, <3>1, FS_AddElement
    <3> QED BY <2>1, <3>2 DEF Counted
  <2>2. CASE created' = created /\ totalAmount' = totalAmount BY <2>2 DEF Counted
  <2> QED BY <2>1, <2>2, <1>1 DEF CreateFiber
<1>2. ASSUME NEW w \in Workers,
             \/ RunHandler(w) \/ PopReady(w) \/ Activate(w) \/ Requeue(w) \/ TakeTask(w)
             \/ TakeFiber(w) \/ Execute(w) \/ NoFiber(w) \/ Flush(w) \/ Leave(w) \/ UserStep(w)
             \/ \E f \in Fibers : FiberWake(w, f)
      PROVE  Counted'
  <2>1. totalAmount' = totalAmount /\ created' = created
    BY <1>2 DEF RunHandler, PopReady, Activate, Requeue, TakeTask, TakeFiber, Execute, NoFiber,
       Flush, Leave, UserStep, FiberWait, FiberYield, FiberExecuted, SwitchToRoot, FiberWake
  <2> QED BY <2>1 DEF Counted
<1>3. CASE Environment \/ UNCHANGED vars
  <2>1. totalAmount' = totalAmount /\ created' = created
    BY <1>3 DEF Environment, Spawn, Complete, ExecInline, vars
  <2> QED BY <2>1 DEF Counted
<1> QED BY <1>1, <1>2, <1>3 DEF Next, RootStep

LEMMA RInductive == Spec => []RInv
<1>1. Init => TaskHomes /\ Counted
  <2> SUFFICES ASSUME Init PROVE TaskHomes /\ Counted OBVIOUS
  <2>1. PICK w0 : w0 \in Workers BY ConstantsAssumption
  <2>2. ASSUME NEW t \in Tasks PROVE TaskIn("new", w0, t)
    <3>1. ~InSeq(io, t) /\ ~InSeq(tasks, t) BY SeqEmpty DEF Init
    <3> QED BY <3>1, ConstantsAssumption DEF Init, TaskIn
  <2>3. Inj(io) /\ Inj(tasks) BY SeqEmpty DEF Init
  <2>4. Counted BY FS_EmptySet DEF Init, Counted
  <2> QED BY <2>1, <2>2, <2>3, <2>4 DEF TaskHomes, TaskKinds
<1>2. IInv /\ TaskHomes /\ [Next]_vars => TaskHomes' BY TaskHomesKept
<1>3. IInv /\ Counted /\ [Next]_vars => Counted' BY CountedKept DEF IInv
<1> QED BY <1>1, <1>2, <1>3, Inductive, OvershootBound, PTL DEF Spec, RInv

(* A step that concerns neither the task u nor the fiber it is on. *)
FiberStays(f) ==
    /\ f \in waiting' <=> f \in waiting
    /\ IsReady(f)' <=> IsReady(f)

TaskUnmoved(u) ==
    /\ u \in arrived' <=> u \in arrived
    /\ u \in done' <=> u \in done
    /\ Queued(u)' <=> Queued(u)
    /\ \A f \in Fibers :
        /\ code'[f] = u <=> code[f] = u
        /\ code[f] = u => FiberStays(f)

LEMMA StatusKept ==
    ASSUME RInv, RInv', NEW u \in Tasks, TaskUnmoved(u)
    PROVE  StatusOf(u)' = StatusOf(u)
<1>1. StatusIs(u) /\ StatusIs(u)' BY StatusKnown, StatusKnownNext
<1>2. CASE HasCode(u)
  <2>1. PICK f \in Fibers : code[f] = u BY <1>2 DEF HasCode
  <2>2. code'[f] = u /\ FiberStays(f) BY <2>1 DEF TaskUnmoved
  <2> QED BY <1>1, <2>1, <2>2 DEF StatusIs, FiberStays
<1>3. CASE ~HasCode(u)
  <2>1. ~HasCode(u)' BY <1>3 DEF HasCode, TaskUnmoved
  <2>2. (u \notin arrived) \/ u \in done \/ Queued(u) \/ (u \in arrived \ done /\ ~Queued(u))
    OBVIOUS
  <2> QED BY <1>1, <1>3, <2>1, <2>2 DEF StatusIs, TaskUnmoved
<1> QED BY <1>2, <1>3

(* The task whose stack a worker is on. *)
OnOf(w) == IF pc[w] \in OnFiber THEN code[fiber[w]] ELSE None

statusMap == [t \in Tasks |-> StatusOf(t)]
onMap == [w \in Workers |-> OnOf(w)]

LEMMA BecomeOf ==
    ASSUME RInv, RInv', NEW t \in Tasks, NEW a, NEW b, StatusOf(t) = a, StatusOf(t)' = b,
           \A u \in Tasks \ {t} : TaskUnmoved(u)
    PROVE  Runtime!Become(t, a, b)
<1>1. \A u \in Tasks \ {t} : StatusOf(u)' = StatusOf(u) BY StatusKept
<1> QED BY <1>1 DEF Runtime!Become

LEMMA StutterOf ==
    ASSUME RInv, RInv', \A u \in Tasks : TaskUnmoved(u),
           \A w \in Workers : OnOf(w)' = OnOf(w)
    PROVE  UNCHANGED <<statusMap, onMap>>
<1>1. \A u \in Tasks : StatusOf(u)' = StatusOf(u) BY StatusKept
<1> QED BY <1>1 DEF statusMap, onMap

(* A fiber that runs or is about to be resumed is on no list, and no other *)
(* worker has it in hand.                                                  *)
LEMMA HandAlone ==
    ASSUME RInv, NEW w \in Workers, pc[w] \in InHand
    PROVE  /\ fiber[w] \in Fibers /\ fiber[w] \in created
           /\ fiber[w] \notin waiting
           /\ ~InSeq(fibersReady, fiber[w])
           /\ \A v \in Workers : ~InSeq(notActivated[v], fiber[w])
           /\ \A v \in Workers : pc[v] \in InHand /\ fiber[v] = fiber[w] => v = w
           /\ code[fiber[w]] = None <=> pc[w] = "execute"
<1>1. fiber[w] \in Fibers BY DEF RInv, IInv, FiberKnown
<1>2. PICK k \in Kinds, v \in Workers : At(k, v, fiber[w]) BY <1>1 DEF RInv, IInv, Homes
<1>3. k = "hand" /\ v = w BY <1>2 DEF At
<1> QED BY <1>1, <1>2, <1>3 DEF At

LEMMA CodeOnce ==
    ASSUME RInv, NEW f \in Fibers, NEW g \in Fibers, code[f] = code[g], code[f] # None
    PROVE  f = g
<1>1. code[f] \in Tasks BY DEF RInv, IInv, TypeOK
<1>2. PICK k \in TaskKinds, x \in Workers \cup Fibers : TaskIn(k, x, code[f])
  BY <1>1 DEF RInv, TaskHomes
<1> QED BY <1>2 DEF TaskIn

LEMMA HandStatus ==
    ASSUME RInv, NEW w \in Workers, pc[w] \in {"activate", "user"}
    PROVE  /\ code[fiber[w]] \in Tasks
           /\ StatusOf(code[fiber[w]]) = IF pc[w] = "activate" THEN "woken" ELSE "running"
<1>1. pc[w] \in InHand BY DEF InHand
<1>2. fiber[w] \in Fibers /\ code[fiber[w]] \in Tasks
  BY <1>1, HandAlone DEF RInv, IInv, TypeOK
<1>3. fiber[w] \notin waiting BY <1>1, HandAlone
<1>4. IsReady(fiber[w]) <=> pc[w] = "activate"
  <2>1. pc[w] = "activate" => IsReady(fiber[w]) BY DEF IsReady
  <2>2. IsReady(fiber[w]) => \E v \in Workers : pc[v] = "activate" /\ fiber[v] = fiber[w]
    BY <1>1, HandAlone DEF IsReady
  <2>3. \A v \in Workers : pc[v] = "activate" /\ fiber[v] = fiber[w] => v = w
    BY <1>1, HandAlone DEF InHand
  <2> QED BY <2>1, <2>2, <2>3
<1>5. StatusIs(code[fiber[w]]) BY <1>2, StatusKnown
<1> QED BY <1>2, <1>3, <1>4, <1>5 DEF StatusIs

(* The tasks in progress have a fiber each, and at least one fiber has no  *)
(* task when one is started.                                               *)
LEMMA LiveBound ==
    ASSUME RInv, NEW f \in created, code[f] = None
    PROVE  Cardinality(Runtime!Live) < MaxFibers + Cardinality(Workers) - 1
<1> DEFINE L == {t \in Tasks : HasCode(t)}
           C == created \ {f}
           h == [t \in L |-> CHOOSE g \in Fibers : code[g] = t]
<1>1. Runtime!Live \subseteq L
  <2>1. ASSUME NEW t \in Tasks, StatusOf(t) \in {"running", "suspended", "woken"}
        PROVE  HasCode(t)
    BY <2>1 DEF StatusOf, HasCode
  <2> QED BY <2>1 DEF Runtime!Live
<1>2. \A g \in Fibers : code[g] # None => g \in C
  <2> SUFFICES ASSUME NEW g \in Fibers, code[g] # None PROVE g \in C OBVIOUS
  <2>1. PICK k \in Kinds, v \in Workers : At(k, v, g) BY DEF RInv, IInv, Homes
  <2> QED BY <2>1 DEF At
<1>3. \A t \in L : h[t] \in Fibers /\ code[h[t]] = t BY DEF HasCode
<1>4. h \in Injection(L, C)
  <2>1. \A t \in L : t # None BY ConstantsAssumption
  <2>2. h \in [L -> C] BY <1>2, <1>3, <2>1
  <2>3. \A s, t \in L : h[s] = h[t] => s = t BY <1>3
  <2> HIDE DEF h, L, C
  <2> QED BY <2>2, <2>3 DEF Injection, IsInjective
<1>5. IsFiniteSet(created) BY ConstantsAssumption, FS_Subset DEF RInv, IInv, TypeOK
<1>6. /\ IsFiniteSet(C) /\ Cardinality(C) = totalAmount - 1
  BY <1>5, FS_RemoveElement DEF RInv, Counted
<1> HIDE DEF h, L, C
<1>7. IsFiniteSet(L) /\ Cardinality(L) <= totalAmount - 1 BY <1>4, <1>6, FS_Injection
<1>8. Cardinality(Runtime!Live) <= Cardinality(L) /\ Cardinality(Runtime!Live) \in Nat
  BY <1>1, <1>7, FS_Subset, FS_CardinalityType
<1>9. totalAmount <= MaxFibers + Cardinality(Workers) - 1 BY DEF RInv, FiberOvershootBounded
<1> QED
  <2>1. Cardinality(L) \in Nat BY <1>7, FS_CardinalityType
  <2>2. totalAmount \in Nat /\ MaxFibers \in Nat /\ Cardinality(Workers) \in Nat
    BY ConstantsAssumption, FS_CardinalityType DEF RInv, IInv, TypeOK
  <2> QED BY <1>7, <1>8, <1>9, <2>1, <2>2

LEMMA InitImplements == Init => Runtime!RuntimeInit
<1>1. ASSUME Init, NEW t \in Tasks PROVE StatusOf(t) = "new" BY <1>1 DEF Init, StatusOf
<1>2. ASSUME Init, NEW w \in Workers PROVE OnOf(w) = None BY <1>2 DEF Init, OnOf, OnFiber
<1> QED BY <1>1, <1>2 DEF Runtime!RuntimeInit, OnOf

RuntimeStep == Runtime!RuntimeNext \/ UNCHANGED <<statusMap, onMap>>

(* Steps on the queues and lists of the root fiber: TaskRuntime does not   *)
(* see them.                                                               *)
LEMMA RootImplements ==
    ASSUME RInv, RInv', NEW w \in Workers,
           \/ RunHandler(w) \/ PopReady(w) \/ Requeue(w) \/ TakeTask(w) \/ TakeFiber(w)
           \/ CreateFiber(w) \/ NoFiber(w) \/ Flush(w) \/ SwitchToRoot(w)
    PROVE  RuntimeStep
<1> USE DEF Goto, poolVars, fiberVars, workVars, histVars
<1>0. TypeOK /\ TaskKept BY DEF RInv, IInv
<1>1. UNCHANGED <<arrived, done, code, waiting>>
  BY DEF RunHandler, PopReady, Requeue, TakeTask, TakeFiber, CreateFiber, NoFiber, Flush, SwitchToRoot
<1>2. \A v \in Workers : OnOf(v)' = OnOf(v)
  <2>1. /\ \A v \in Workers : pc'[v] \in OnFiber <=> pc[v] \in OnFiber
        /\ \A v \in Workers : pc[v] \in OnFiber => fiber'[v] = fiber[v]
    BY <1>0 DEF RunHandler, PopReady, Requeue, TakeTask, TakeFiber, CreateFiber, NoFiber, Flush,
       SwitchToRoot, OnFiber, TypeOK
  <2> QED BY <1>1, <2>1 DEF OnOf
<1>3. \A f \in Fibers : IsReady(f)' <=> IsReady(f)
  <2>1. CASE PopReady(w) /\ fibersReady # <<>>
    <3>0. PICK g : g = Head(fibersReady) OBVIOUS
    <3>1. /\ pc[w] = "ready" /\ pc' = [pc EXCEPT ![w] = "activate"]
          /\ fiber' = [fiber EXCEPT ![w] = g]
          /\ fibersReady' = Tail(fibersReady) /\ notActivated' = notActivated
      BY <2>1, <3>0 DEF PopReady
    <3>2. \A x : InSeq(fibersReady, x) <=> InSeq(fibersReady', x) \/ x = g
      BY <1>0, <2>1, <3>0, <3>1, InTail DEF TypeOK
    <3> QED BY <1>0, <3>1, <3>2 DEF IsReady, TypeOK
  <2>2. CASE Requeue(w)
    <3>1. /\ fibersReady' = fibersReady \o notActivated[w]
          /\ notActivated' = [notActivated EXCEPT ![w] = <<>>] /\ fiber' = fiber
      BY <2>2 DEF Requeue, Requeued
    <3>2. \A v \in Workers : pc'[v] = "activate" <=> pc[v] = "activate"
      BY <1>0, <2>2 DEF Requeue, TypeOK
    <3>3. \A x : InSeq(fibersReady', x) <=> InSeq(fibersReady, x) \/ InSeq(notActivated[w], x)
      BY <1>0, <3>1, InConcat DEF TypeOK
    <3>4. \A v \in Workers : notActivated'[v] = IF v = w THEN <<>> ELSE notActivated[v]
      BY <1>0, <3>1 DEF TypeOK
    <3>5. \A x : ~InSeq(<<>>, x) BY SeqEmpty
    <3> QED BY <3>1, <3>2, <3>3, <3>4, <3>5 DEF IsReady
  <2>3. CASE ~Requeue(w) /\ ~(PopReady(w) /\ fibersReady # <<>>)
    <3>1. fibersReady' = fibersReady /\ notActivated' = notActivated
      BY <2>3 DEF RunHandler, PopReady, TakeTask, TakeFiber, CreateFiber, NoFiber, Flush, SwitchToRoot
    <3>2. /\ \A v \in Workers : pc'[v] = "activate" <=> pc[v] = "activate"
          /\ \A v \in Workers : pc[v] = "activate" => fiber'[v] = fiber[v]
      BY <1>0, <2>3 DEF RunHandler, PopReady, TakeTask, TakeFiber, CreateFiber, NoFiber, Flush,
         SwitchToRoot, TypeOK
    <3> QED BY <3>1, <3>2 DEF IsReady
  <2> QED BY <2>1, <2>2, <2>3
<1>4. \A u \in Tasks : Queued(u)' <=> Queued(u)
  <2>1. CASE RunHandler(w)
    <3>0. PICK t : t = Head(io) OBVIOUS
    <3>1. /\ io' = Tail(io) /\ task' = [task EXCEPT ![w] = t]
          /\ tasks' = tasks /\ fromQueue' = fromQueue
      BY <2>1, <3>0 DEF RunHandler
    <3>2. \A x : InSeq(io, x) <=> InSeq(io', x) \/ x = t
      BY <1>0, <2>1, <3>0, <3>1, InTail DEF TypeOK, RunHandler
    <3>3. task[w] = None BY <1>0, <2>1 DEF RunHandler, TaskKept, BeforeHandOver, OnFiber
    <3>4. \A v \in Workers : task'[v] = IF v = w THEN t ELSE task[v] BY <1>0, <3>1 DEF TypeOK
    <3> QED BY <3>1, <3>2, <3>3, <3>4, ConstantsAssumption DEF Queued
  <2>2. CASE TakeTask(w)
    <3>1. fromQueue[w] = None /\ io' = io /\ task' = task
      BY <1>0, <2>2 DEF TakeTask, TaskKept, HasQueuedTask
    <3>2. CASE tasks # <<>>
      <4>0. PICK t : t = Head(tasks) OBVIOUS
      <4>1. tasks' = Tail(tasks) /\ fromQueue' = [fromQueue EXCEPT ![w] = t]
        BY <2>2, <3>2, <4>0 DEF TakeTask
      <4>2. \A x : InSeq(tasks, x) <=> InSeq(tasks', x) \/ x = t
        BY <1>0, <3>2, <4>0, <4>1, InTail DEF TypeOK
      <4>3. \A v \in Workers : fromQueue'[v] = IF v = w THEN t ELSE fromQueue[v]
        BY <1>0, <4>1 DEF TypeOK
      <4> QED BY <3>1, <4>2, <4>3, ConstantsAssumption DEF Queued
    <3>3. CASE tasks = <<>>
      <4>1. tasks' = tasks /\ \A v \in Workers : fromQueue'[v] = fromQueue[v]
        BY <1>0, <2>2, <3>1, <3>3 DEF TakeTask, TypeOK
      <4> QED BY <3>1, <4>1 DEF Queued
    <3> QED BY <3>2, <3>3
  <2>3. CASE NoFiber(w)
    <3>0. PICK a, s : a = task[w] /\ s = <<task[w]>> OBVIOUS
    <3>1. /\ tasks' = QueueAgain(w) /\ io' = io
          /\ fromQueue' = [fromQueue EXCEPT ![w] = None] /\ task' = [task EXCEPT ![w] = None]
      BY <2>3 DEF NoFiber
    <3>2. a \in Tasks BY <1>0, <2>3, <3>0 DEF NoFiber, TypeOK, TaskKept, BeforeHandOver
    <3>3. s \in Seq(Tasks) /\ \A y : InSeq(s, y) <=> y = a BY <3>0, <3>2, SeqSingle
    <3>4. ASSUME NEW u \in Tasks
          PROVE  InSeq(tasks', u) <=> InSeq(tasks, u) \/ u = fromQueue[w] \/ u = a
      <4>1. CASE fromQueue[w] = None
        <5>1. tasks' = tasks \o s BY <3>0, <3>1, <4>1 DEF QueueAgain
        <5> QED BY <1>0, <3>3, <4>1, <5>1, InConcat, ConstantsAssumption DEF TypeOK
      <4>2. CASE fromQueue[w] # None
        <5>0. PICK b, r : b = fromQueue[w] /\ r = <<fromQueue[w]>> OBVIOUS
        <5>1. b \in Tasks BY <1>0, <4>2, <5>0 DEF TypeOK
        <5>2. r \in Seq(Tasks) /\ \A y : InSeq(r, y) <=> y = b BY <5>0, <5>1, SeqSingle
        <5>3. tasks' = (r \o tasks) \o s BY <3>0, <3>1, <4>2, <5>0 DEF QueueAgain
        <5>4. r \o tasks \in Seq(Tasks) BY <1>0, <5>2 DEF TypeOK
        <5>5. InSeq(r \o tasks, u) <=> InSeq(r, u) \/ InSeq(tasks, u)
          BY <1>0, <5>2, InConcat DEF TypeOK
        <5>6. InSeq(tasks', u) <=> InSeq(r \o tasks, u) \/ InSeq(s, u)
          BY <3>3, <5>3, <5>4, InConcat
        <5> QED BY <3>3, <5>0, <5>2, <5>5, <5>6
      <4> QED BY <4>1, <4>2
    <3>5. \A v \in Workers : /\ fromQueue'[v] = IF v = w THEN None ELSE fromQueue[v]
                             /\ task'[v] = IF v = w THEN None ELSE task[v]
      BY <1>0, <3>1 DEF TypeOK
    <3> QED BY <3>0, <3>1, <3>4, <3>5, ConstantsAssumption DEF Queued
  <2>4. CASE ~RunHandler(w) /\ ~TakeTask(w) /\ ~NoFiber(w)
    <3>1. UNCHANGED <<io, tasks, task, fromQueue>>
      BY <2>4 DEF PopReady, Requeue, TakeFiber, CreateFiber, Flush, SwitchToRoot
    <3> QED BY <3>1 DEF Queued
  <2> QED BY <2>1, <2>2, <2>3, <2>4
<1> QED BY <1>1, <1>2, <1>3, <1>4, StutterOf DEF RuntimeStep, TaskUnmoved, FiberStays

(* Submit and RunNested. *)
LEMMA EnvironmentImplements == ASSUME RInv, RInv', Environment PROVE RuntimeStep
<1> USE DEF Goto, poolVars, fiberVars, workVars, histVars
<1>0. TypeOK BY DEF RInv, IInv
<1>1. PICK t \in Tasks : Spawn(t) \/ Complete(t) \/ \E w \in Workers : ExecInline(w, t)
  BY DEF Environment
<1>2. /\ t \notin arrived /\ arrived' = arrived \cup {t}
      /\ UNCHANGED <<code, waiting, fibersReady, notActivated, pc, fiber, task, fromQueue>>
  BY <1>1 DEF Spawn, Complete, ExecInline
<1>3. StatusOf(t) = "new" BY <1>2, StatusKnown DEF StatusIs
<1>4. \A v \in Workers : OnOf(v)' = OnOf(v) BY <1>2 DEF OnOf
<1>5. \A f \in Fibers : FiberStays(f) BY <1>2 DEF FiberStays, IsReady
<1>6. ASSUME Spawn(t) \/ Complete(t) PROVE Runtime!Submit(t)
  <2>1. \/ tasks' = Append(tasks, t) /\ io' = io
        \/ io' = Append(io, t) /\ tasks' = tasks
    BY <1>6 DEF Spawn, Complete
  <2>2. \/ /\ \A x : InSeq(tasks', x) <=> InSeq(tasks, x) \/ x = t
           /\ io' = io
        \/ /\ \A x : InSeq(io', x) <=> InSeq(io, x) \/ x = t
           /\ tasks' = tasks
    <3>1. CASE tasks' = Append(tasks, t) /\ io' = io BY <1>0, <3>1, InAppend DEF TypeOK
    <3>2. CASE io' = Append(io, t) /\ tasks' = tasks BY <1>0, <3>2, InAppend DEF TypeOK
    <3> QED BY <2>1, <3>1, <3>2
  <2>3. Queued(t)' BY <2>2 DEF Queued
  <2>4. \A u \in Tasks \ {t} : Queued(u)' <=> Queued(u) BY <1>2, <2>2 DEF Queued
  <2>5. done' = done BY <1>6 DEF Spawn, Complete
  <2>6. StatusOf(t)' = "pending" BY <2>3, StatusKnownNext DEF StatusIs
  <2>7. \A u \in Tasks \ {t} : TaskUnmoved(u) BY <1>2, <1>5, <2>4, <2>5 DEF TaskUnmoved
  <2>8. Runtime!Become(t, "new", "pending") BY <1>3, <2>6, <2>7, BecomeOf
  <2> QED BY <1>4, <2>8 DEF Runtime!Submit, OnOf
<1>7. ASSUME NEW w \in Workers, ExecInline(w, t) PROVE Runtime!RunNested(t)
  <2>1. done' = done \cup {t} /\ io' = io /\ tasks' = tasks BY <1>7 DEF ExecInline
  <2>2. StatusOf(t)' = "done" BY <2>1, StatusKnownNext DEF StatusIs
  <2>3. \A u \in Tasks \ {t} : Queued(u)' <=> Queued(u) BY <1>2, <2>1 DEF Queued
  <2>4. \A u \in Tasks \ {t} : TaskUnmoved(u) BY <1>2, <1>5, <2>1, <2>3 DEF TaskUnmoved
  <2>5. Runtime!Become(t, "new", "done") BY <1>3, <2>2, <2>4, BecomeOf
  <2> QED BY <1>4, <2>5 DEF Runtime!RunNested, OnOf
<1> QED BY <1>1, <1>6, <1>7 DEF RuntimeStep, Runtime!RuntimeNext

LEMMA RuntimeCardinality == ASSUME NEW S PROVE Runtime!Cardinality(S) = Cardinality(S)
BY Zenon DEF Runtime!Cardinality, Cardinality

(* The other fibers are where they were and their tasks with them. *)
LEMMA OthersUnmoved ==
    ASSUME RInv, arrived' = arrived, NEW f \in Fibers, NEW t \in Tasks,
           code[f] = t \/ code'[f] = t, code[f] = None \/ code[f] = t, code'[f] = None \/ code'[f] = t,
           \A g \in Fibers \ {f} : code'[g] = code[g] /\ FiberStays(g),
           \A u \in Tasks \ {t} : u \in done' <=> u \in done,
           \A u \in Tasks \ {t} : Queued(u)' <=> Queued(u)
    PROVE  \A u \in Tasks \ {t} : TaskUnmoved(u)
BY ConstantsAssumption DEF TaskUnmoved

(* Start, or Drop of the task that was taken out of the queue. *)
LEMMA ExecuteImplements ==
    ASSUME RInv, RInv', NEW w \in Workers, Execute(w) PROVE RuntimeStep
<1> USE DEF Goto, poolVars, fiberVars, workVars, histVars
<1>0. TypeOK /\ TaskKept /\ StackLocked /\ FiberKnown /\ TaskHomes BY DEF RInv, IInv
<1>1. PICK f : f = fiber[w] OBVIOUS
<1>2. /\ pc[w] = "execute" /\ pc[w] \in InHand /\ pc[w] \notin OnFiber
      /\ fromQueue' = [fromQueue EXCEPT ![w] = None]
      /\ UNCHANGED <<created, waiting, notActivated, poolVars, histVars>>
  BY DEF Execute, InHand, OnFiber
<1>3. f \in Fibers /\ f \in created /\ code[f] = None BY <1>1, <1>2, HandAlone
<1>4. \A v \in Workers : fromQueue'[v] = IF v = w THEN None ELSE fromQueue[v]
  BY <1>0, <1>2 DEF TypeOK
<1>5. \A g \in Fibers : FiberStays(g)
  <2>1. /\ \A v \in Workers : pc'[v] = "activate" <=> pc[v] = "activate"
        /\ \A v \in Workers : pc[v] = "activate" => fiber'[v] = fiber[v]
    BY <1>0, <1>2 DEF Execute, TypeOK
  <2> QED BY <1>2, <2>1 DEF FiberStays, IsReady
<1>6. ASSUME NEW t \in Tasks, ~isLocked[f],
             code' = [code EXCEPT ![f] = t], fiber' = fiber, pc' = [pc EXCEPT ![w] = "user"],
             Queued(t), \A u \in Tasks \ {t} : Queued(u)' <=> Queued(u)
      PROVE  Runtime!Start(w, t)
  <2>1. StatusOf(t) = "pending" BY <1>6, StatusKnown DEF StatusIs
  <2>2. \A g \in Fibers : code'[g] = IF g = f THEN t ELSE code[g] BY <1>0, <1>6 DEF TypeOK
  <2>3. pc'[w] = "user" /\ fiber'[w] = f /\ \A v \in Workers \ {w} : pc'[v] = pc[v]
    BY <1>0, <1>1, <1>6 DEF TypeOK
  <2>4. StatusOf(t)' = "running"
    <3>1. f \notin waiting /\ ~IsReady(f)
      <4>1. ~\E v \in Workers : pc[v] = "activate" /\ fiber[v] = f
        BY <1>1, <1>2, HandAlone DEF InHand
      <4> QED BY <1>1, <1>2, <4>1, HandAlone DEF IsReady
    <3>2. f \notin waiting' /\ ~IsReady(f)' BY <1>3, <1>5, <3>1 DEF FiberStays
    <3> QED BY <1>3, <2>2, <3>2, StatusKnownNext DEF StatusIs
  <2>5. \A u \in Tasks \ {t} : TaskUnmoved(u)
    BY <1>2, <1>3, <1>5, <1>6, <2>2, OthersUnmoved
  <2>6. Runtime!Become(t, "pending", "running") BY <2>1, <2>4, <2>5, BecomeOf
  <2>7. OnOf(w) = None BY <1>2 DEF OnOf
  <2>8. OnOf(w)' = t BY <1>3, <2>2, <2>3 DEF OnOf, OnFiber
  <2>9. ASSUME NEW v \in Workers \ {w} PROVE OnOf(v)' = OnOf(v)
    <3>1. pc[v] \in OnFiber => fiber[v] \in Fibers /\ fiber[v] # f
      BY <1>0, <1>6 DEF FiberKnown, StackLocked
    <3> QED BY <1>6, <2>2, <2>3, <3>1 DEF OnOf
  <2>10. Cardinality(Runtime!Live) < MaxFibers + Cardinality(Workers) - 1
    BY <1>3, LiveBound
  <2>11. Runtime!Cardinality(Runtime!Live) = Cardinality(Runtime!Live) BY RuntimeCardinality
  <2> QED BY <2>6, <2>7, <2>8, <2>9, <2>10, <2>11 DEF Runtime!Start, OnOf
<1>7. CASE ~isLocked[f] /\ fromQueue[w] # None
  <2>0. PICK t : t = fromQueue[w] OBVIOUS
  <2>1. /\ code' = [code EXCEPT ![f] = t] /\ fiber' = fiber /\ task' = task
        /\ pc' = [pc EXCEPT ![w] = "user"]
    BY <1>1, <1>7, <2>0 DEF Execute, CanEnter
  <2>2. t \in Tasks BY <1>0, <1>7, <2>0 DEF TypeOK
  <2>3. Queued(t) BY <2>0 DEF Queued
  <2>4. \A u \in Tasks \ {t} : Queued(u)' <=> Queued(u)
    BY <1>2, <1>4, <2>0, <2>1, ConstantsAssumption DEF Queued
  <2>5. Runtime!Start(w, t) BY <1>6, <1>7, <2>1, <2>2, <2>3, <2>4
  <2> QED BY <2>2, <2>5 DEF RuntimeStep, Runtime!RuntimeNext
<1>8. CASE ~isLocked[f] /\ fromQueue[w] = None
  <2>0. PICK t : t = task[w] OBVIOUS
  <2>1. /\ code' = [code EXCEPT ![f] = t] /\ fiber' = fiber
        /\ task' = [task EXCEPT ![w] = None] /\ pc' = [pc EXCEPT ![w] = "user"]
    BY <1>1, <1>8, <2>0 DEF Execute, CanEnter
  <2>2. t \in Tasks BY <1>0, <1>2, <2>0 DEF TypeOK, TaskKept, BeforeHandOver
  <2>3. Queued(t) BY <2>0 DEF Queued
  <2>4. \A v \in Workers : task'[v] = IF v = w THEN None ELSE task[v] BY <1>0, <2>1 DEF TypeOK
  <2>5. \A u \in Tasks \ {t} : Queued(u)' <=> Queued(u)
    BY <1>2, <1>4, <1>8, <2>0, <2>4, ConstantsAssumption DEF Queued
  <2>6. Runtime!Start(w, t) BY <1>6, <1>8, <2>1, <2>2, <2>3, <2>5
  <2> QED BY <2>2, <2>6 DEF RuntimeStep, Runtime!RuntimeNext
<1>9. CASE isLocked[f]
  <2>1. /\ code' = code /\ task' = task
        /\ fiber' = [fiber EXCEPT ![w] = None] /\ pc' = [pc EXCEPT ![w] = "takeTask"]
    BY <1>1, <1>9 DEF Execute, CanEnter
  <2>2. \A v \in Workers : OnOf(v)' = OnOf(v) BY <1>0, <1>2, <2>1 DEF OnOf, TypeOK, OnFiber
  <2>3. CASE fromQueue[w] = None
    <3>1. \A v \in Workers : fromQueue'[v] = fromQueue[v] BY <1>4, <2>3
    <3>2. \A u \in Tasks : Queued(u)' <=> Queued(u) BY <1>2, <2>1, <3>1 DEF Queued
    <3>3. \A u \in Tasks : TaskUnmoved(u) BY <1>2, <1>5, <2>1, <3>2 DEF TaskUnmoved
    <3> QED BY <2>2, <3>3, StutterOf DEF RuntimeStep
  <2>4. CASE fromQueue[w] # None
    <3>0. PICK t : t = fromQueue[w] OBVIOUS
    <3>1. t \in Tasks /\ Queued(t) BY <1>0, <2>4, <3>0 DEF TypeOK, Queued
    <3>2. PICK k \in TaskKinds, x \in Workers \cup Fibers : TaskIn(k, x, t)
      BY <1>0, <3>1 DEF TaskHomes
    <3>3. k = "taken" /\ x = w BY <3>0, <3>2 DEF TaskIn
    <3>4. /\ ~InSeq(io, t) /\ ~InSeq(tasks, t) /\ t \in arrived \ done
          /\ \A v \in Workers : task[v] # t /\ (fromQueue[v] = t => v = w)
          /\ \A g \in Fibers : code[g] # t
      BY <3>2, <3>3 DEF TaskIn
    <3>5. ~Queued(t)' /\ ~HasCode(t)' /\ t \in arrived' \ done'
      BY <1>2, <1>4, <2>1, <3>1, <3>4, ConstantsAssumption DEF Queued, HasCode
    <3>6. StatusOf(t) = "pending" /\ StatusOf(t)' = "dropped"
      BY <3>1, <3>5, StatusKnown, StatusKnownNext DEF StatusIs
    <3>7. \A u \in Tasks \ {t} : Queued(u)' <=> Queued(u)
      BY <1>2, <1>4, <2>1, <3>0, ConstantsAssumption DEF Queued
    <3>8. \A u \in Tasks \ {t} : TaskUnmoved(u) BY <1>2, <1>5, <2>1, <3>7 DEF TaskUnmoved
    <3>9. Runtime!Become(t, "pending", "dropped") BY <3>1, <3>6, <3>8, BecomeOf
    <3>10. Runtime!Drop(t) BY <2>2, <3>9 DEF Runtime!Drop, OnOf
    <3> QED BY <3>1, <3>10 DEF RuntimeStep, Runtime!RuntimeNext
  <2> QED BY <2>3, <2>4
<1> QED BY <1>7, <1>8, <1>9

(* Resume, or a fiber that its last worker has not left is kept aside. *)
LEMMA ActivateImplements ==
    ASSUME RInv, RInv', NEW w \in Workers, Activate(w) PROVE RuntimeStep
<1> USE DEF Goto, poolVars, fiberVars, workVars, histVars
<1>0. TypeOK /\ StackLocked /\ FiberKnown BY DEF RInv, IInv
<1>1. PICK f, t : f = fiber[w] /\ t = code[fiber[w]] OBVIOUS
<1>2. /\ pc[w] = "activate" /\ pc[w] \in InHand /\ pc[w] \notin OnFiber
      /\ UNCHANGED <<created, code, waiting, task, fromQueue, poolVars, histVars>>
  BY DEF Activate, InHand, OnFiber
<1>3. f \in Fibers /\ t \in Tasks /\ t = code[f] /\ t # None /\ StatusOf(t) = "woken"
  BY <1>1, <1>2, HandAlone, HandStatus, ConstantsAssumption
<1>4. \A u \in Tasks : Queued(u)' <=> Queued(u) BY <1>2 DEF Queued
<1>5. CASE ~isLocked[f]
  <2>1. /\ fiber' = fiber /\ notActivated' = notActivated /\ pc' = [pc EXCEPT ![w] = "user"]
    BY <1>1, <1>5 DEF Activate, CanEnter
  <2>2. pc'[w] = "user" /\ \A v \in Workers \ {w} : pc'[v] = pc[v] BY <1>0, <2>1 DEF TypeOK
  <2>3. \A g \in Fibers \ {f} : FiberStays(g)
    BY <1>1, <1>2, <2>1, <2>2 DEF FiberStays, IsReady
  <2>4. StatusOf(t)' = "running"
    <3>1. f \notin waiting' BY <1>1, <1>2, HandAlone
    <3>2. ~IsReady(f)'
      <4>1. \A v \in Workers : pc[v] = "activate" /\ fiber[v] = f => v = w
        BY <1>1, <1>2, HandAlone DEF InHand
      <4>2. \A v \in Workers : ~(pc'[v] = "activate" /\ fiber'[v] = f) BY <2>1, <2>2, <4>1
      <4> QED BY <1>1, <1>2, <2>1, <4>2, HandAlone DEF IsReady
    <3> QED BY <1>2, <1>3, <3>1, <3>2, StatusKnownNext DEF StatusIs
  <2>5. \A u \in Tasks \ {t} : TaskUnmoved(u) BY <1>2, <1>3, <1>4, <2>3, OthersUnmoved
  <2>6. Runtime!Become(t, "woken", "running") BY <1>3, <2>4, <2>5, BecomeOf
  <2>7. OnOf(w) = None BY <1>2 DEF OnOf
  <2>8. OnOf(w)' = t BY <1>1, <1>2, <2>1, <2>2 DEF OnOf, OnFiber
  <2>9. \A v \in Workers \ {w} : OnOf(v)' = OnOf(v) BY <1>2, <2>1, <2>2 DEF OnOf
  <2>10. ASSUME NEW v \in Workers PROVE OnOf(v) # t
    <3>1. CASE pc[v] \notin OnFiber BY <1>3, <3>1 DEF OnOf
    <3>2. CASE pc[v] \in OnFiber
      <4>1. fiber[v] \in Fibers /\ fiber[v] # f BY <1>0, <1>5, <3>2 DEF FiberKnown, StackLocked
      <4>2. code[fiber[v]] # t BY <1>3, <4>1, CodeOnce
      <4> QED BY <3>2, <4>2 DEF OnOf
    <3> QED BY <3>1, <3>2
  <2>11. Runtime!Resume(w, t) BY <2>6, <2>7, <2>8, <2>9, <2>10 DEF Runtime!Resume, OnOf
  <2> QED BY <1>3, <2>11 DEF RuntimeStep, Runtime!RuntimeNext
<1>6. CASE isLocked[f]
  <2>1. /\ notActivated' = [notActivated EXCEPT ![w] = Append(@, f)]
        /\ fiber' = [fiber EXCEPT ![w] = None] /\ pc' = [pc EXCEPT ![w] = "ready"]
    BY <1>1, <1>6 DEF Activate, CanEnter
  <2>2. /\ pc'[w] = "ready" /\ \A v \in Workers \ {w} : pc'[v] = pc[v] /\ fiber'[v] = fiber[v]
        /\ \A v \in Workers \ {w} : notActivated'[v] = notActivated[v]
    BY <1>0, <2>1 DEF TypeOK
  <2>3. \A x : InSeq(notActivated'[w], x) <=> InSeq(notActivated[w], x) \/ x = f
    <3>1. notActivated'[w] = Append(notActivated[w], f) /\ notActivated[w] \in Seq(Fibers)
      BY <1>0, <2>1 DEF TypeOK
    <3> QED BY <1>3, <3>1, InAppend
  <2>4. \A g \in Fibers : FiberStays(g)
    <3>1. ASSUME NEW g \in Fibers PROVE IsReady(g)' <=> IsReady(g)
      <4>1. CASE g = f BY <4>1, <1>1, <1>2, <2>3 DEF IsReady
      <4>2. CASE g # f BY <4>2, <1>1, <1>2, <2>2, <2>3 DEF IsReady
      <4> QED BY <4>1, <4>2
    <3> QED BY <1>2, <3>1 DEF FiberStays
  <2>5. \A v \in Workers : OnOf(v)' = OnOf(v) BY <1>2, <2>2 DEF OnOf, OnFiber
  <2>6. \A u \in Tasks : TaskUnmoved(u) BY <1>2, <1>4, <2>4 DEF TaskUnmoved
  <2> QED BY <2>5, <2>6, StutterOf DEF RuntimeStep
<1> QED BY <1>5, <1>6

(* Suspend, Yield and Finish. *)
LEMMA UserImplements ==
    ASSUME RInv, RInv', NEW w \in Workers, FiberWait(w) \/ FiberYield(w) \/ FiberExecuted(w)
    PROVE  RuntimeStep
<1> USE DEF Goto, poolVars, fiberVars, workVars, histVars
<1>0. TypeOK /\ StackLocked /\ FiberKnown BY DEF RInv, IInv
<1>1. PICK f, t : f = fiber[w] /\ t = code[fiber[w]] OBVIOUS
<1>2. /\ pc[w] = "user" /\ pc[w] \in InHand /\ pc[w] \in OnFiber
      /\ pc' = [pc EXCEPT ![w] = "switch"]
      /\ UNCHANGED <<fiber, notActivated, task, fromQueue, io, tasks, arrived>>
  BY DEF FiberWait, FiberYield, FiberExecuted, InHand, OnFiber
<1>3. f \in Fibers /\ t \in Tasks /\ t = code[f] /\ t # None /\ StatusOf(t) = "running"
  BY <1>1, <1>2, HandAlone, HandStatus, ConstantsAssumption
<1>4. \A u \in Tasks : Queued(u)' <=> Queued(u) BY <1>2 DEF Queued
<1>5. /\ \A v \in Workers : pc'[v] = "activate" <=> pc[v] = "activate"
      /\ \A v \in Workers : pc'[v] \in OnFiber <=> pc[v] \in OnFiber
  BY <1>0, <1>2 DEF TypeOK, OnFiber
<1>6. OnOf(w) = t BY <1>1, <1>2 DEF OnOf
<1>7. f \notin waiting /\ ~InSeq(fibersReady, f) /\ ~IsReady(f)
  <2>1. ~\E v \in Workers : pc[v] = "activate" /\ fiber[v] = f
    BY <1>1, <1>2, HandAlone DEF InHand
  <2> QED BY <1>1, <1>2, <2>1, HandAlone DEF IsReady
<1>8. CASE FiberWait(w)
  <2>1. /\ waiting' = waiting \cup {f}
        /\ UNCHANGED <<code, fibersReady, done>>
    BY <1>1, <1>8 DEF FiberWait
  <2>2. \A g \in Fibers \ {f} : FiberStays(g) BY <1>2, <1>5, <2>1 DEF FiberStays, IsReady
  <2>3. \A u \in Tasks \ {t} : TaskUnmoved(u) BY <1>2, <1>3, <1>4, <2>1, <2>2, OthersUnmoved
  <2>4. StatusOf(t)' = "suspended" BY <1>3, <2>1, StatusKnownNext DEF StatusIs
  <2>5. Runtime!Become(t, "running", "suspended") BY <1>3, <2>3, <2>4, BecomeOf
  <2>6. \A v \in Workers : OnOf(v)' = OnOf(v) BY <1>2, <1>5, <2>1 DEF OnOf
  <2>7. Runtime!Suspend(w) BY <1>3, <1>6, <2>5, <2>6 DEF Runtime!Suspend, OnOf
  <2> QED BY <2>7 DEF RuntimeStep, Runtime!RuntimeNext
<1>9. CASE FiberYield(w)
  <2>1. /\ fibersReady' = Append(fibersReady, f)
        /\ UNCHANGED <<code, waiting, done>>
    BY <1>1, <1>9 DEF FiberYield
  <2>2. \A x : InSeq(fibersReady', x) <=> InSeq(fibersReady, x) \/ x = f
    BY <1>0, <1>3, <2>1, InAppend DEF TypeOK
  <2>3. \A g \in Fibers \ {f} : FiberStays(g)
    BY <1>2, <1>5, <2>1, <2>2 DEF FiberStays, IsReady
  <2>4. \A u \in Tasks \ {t} : TaskUnmoved(u) BY <1>2, <1>3, <1>4, <2>1, <2>3, OthersUnmoved
  <2>5. f \notin waiting' /\ IsReady(f)' BY <1>7, <2>1, <2>2 DEF IsReady
  <2>6. StatusOf(t)' = "woken" BY <1>3, <2>1, <2>5, StatusKnownNext DEF StatusIs
  <2>7. Runtime!Become(t, "running", "woken") BY <1>3, <2>4, <2>6, BecomeOf
  <2>8. \A v \in Workers : OnOf(v)' = OnOf(v) BY <1>2, <1>5, <2>1 DEF OnOf
  <2>9. Runtime!Yield(w) BY <1>3, <1>6, <2>7, <2>8 DEF Runtime!Yield, OnOf
  <2> QED BY <2>9 DEF RuntimeStep, Runtime!RuntimeNext
<1>10. CASE FiberExecuted(w)
  <2>1. /\ done' = done \cup {t} /\ code' = [code EXCEPT ![f] = None]
        /\ UNCHANGED <<fibersReady, waiting>>
    BY <1>1, <1>10 DEF FiberExecuted, CodeDropped
  <2>2. \A g \in Fibers : code'[g] = IF g = f THEN None ELSE code[g] BY <1>0, <2>1 DEF TypeOK
  <2>3. \A g \in Fibers \ {f} : FiberStays(g) BY <1>2, <1>5, <2>1 DEF FiberStays, IsReady
  <2>4. \A u \in Tasks \ {t} : TaskUnmoved(u)
    BY <1>2, <1>3, <1>4, <2>1, <2>2, <2>3, OthersUnmoved
  <2>5. StatusOf(t)' = "done" BY <1>3, <2>1, StatusKnownNext DEF StatusIs
  <2>6. Runtime!Become(t, "running", "done") BY <1>3, <2>4, <2>5, BecomeOf
  <2>7. OnOf(w)' = None BY <1>1, <1>2, <1>3, <2>2 DEF OnOf
  <2>8. ASSUME NEW v \in Workers \ {w} PROVE OnOf(v)' = OnOf(v)
    <3>1. pc[v] \in OnFiber => fiber[v] \in Fibers /\ fiber[v] # f
      BY <1>0, <1>1, <1>2 DEF FiberKnown, StackLocked, OneWorkerPerFiber
    <3> QED BY <1>2, <1>5, <2>2, <3>1 DEF OnOf
  <2>9. Runtime!Finish(w) BY <1>3, <1>6, <2>6, <2>7, <2>8 DEF Runtime!Finish, OnOf
  <2> QED BY <2>9 DEF RuntimeStep, Runtime!RuntimeNext
<1> QED BY <1>8, <1>9, <1>10

(* Release, or the worker leaves a fiber whose task has returned. *)
LEMMA LeaveImplements == ASSUME RInv, RInv', NEW w \in Workers, Leave(w) PROVE RuntimeStep
<1> USE DEF Goto, poolVars, fiberVars, workVars, histVars
<1>0. TypeOK /\ StackLocked /\ FiberKnown /\ Homes BY DEF RInv, IInv
<1>1. PICK f, t : f = fiber[w] /\ t = code[fiber[w]] OBVIOUS
<1>2. /\ pc[w] = "leave" /\ pc[w] \in OnFiber
      /\ fiber' = [fiber EXCEPT ![w] = None] /\ pc' = [pc EXCEPT ![w] = back[w]]
      /\ UNCHANGED <<code, waiting, notActivated, task, fromQueue, poolVars, histVars>>
  BY DEF Leave, OnFiber
<1>3. /\ pc'[w] \notin OnFiber /\ pc'[w] # "activate"
      /\ \A v \in Workers \ {w} : pc'[v] = pc[v] /\ fiber'[v] = fiber[v]
  BY <1>0, <1>2 DEF TypeOK, OnFiber
<1>4. \A g \in Fibers : FiberStays(g) BY <1>2, <1>3 DEF FiberStays, IsReady
<1>5. \A u \in Tasks : Queued(u)' <=> Queued(u) BY <1>2 DEF Queued
<1>6. \A u \in Tasks : TaskUnmoved(u) BY <1>2, <1>4, <1>5 DEF TaskUnmoved
<1>7. OnOf(w) = t /\ OnOf(w)' = None BY <1>1, <1>2, <1>3 DEF OnOf
<1>8. \A v \in Workers \ {w} : OnOf(v)' = OnOf(v) BY <1>2, <1>3 DEF OnOf
<1>9. CASE t = None BY <1>6, <1>7, <1>8, <1>9, StutterOf DEF RuntimeStep
<1>10. CASE t # None
  <2>1. f \in Fibers /\ t \in Tasks /\ code[f] = t
    BY <1>0, <1>1, <1>2, <1>10 DEF FiberKnown, TypeOK
  <2>2. PICK k \in Kinds, v \in Workers : At(k, v, f) BY <1>0, <2>1 DEF Homes
  <2>3. f \in waiting \/ IsReady(f)
    <3>1. k \in {"ready", "waiting", "notActivated", "hand"} BY <1>10, <2>1, <2>2 DEF At, Kinds
    <3>2. CASE k \in {"ready", "waiting", "notActivated"} BY <2>2, <3>2 DEF At, IsReady
    <3>3. CASE k = "hand"
      <4>1. pc[v] \in InHand /\ fiber[v] = f /\ pc[v] # "execute"
        BY <1>10, <2>1, <2>2, <3>3 DEF At
      <4>2. pc[v] # "user"
        BY <1>0, <1>1, <1>2, <4>1 DEF StackLocked, OneWorkerPerFiber, OnFiber
      <4> QED BY <4>1, <4>2 DEF InHand, IsReady
    <3> QED BY <3>1, <3>2, <3>3
  <2>4. StatusOf(t) # "running" BY <2>1, <2>3, StatusKnown DEF StatusIs
  <2>5. \A u \in Tasks : StatusOf(u)' = StatusOf(u) BY <1>6, StatusKept
  <2>6. Runtime!Release(w)
    <3>1. onMap[w] # None /\ statusMap[onMap[w]] # "running"
      BY <1>7, <1>10, <2>1, <2>4 DEF onMap, statusMap
    <3>2. onMap' = [onMap EXCEPT ![w] = None] BY <1>7, <1>8 DEF onMap
    <3>3. statusMap' = statusMap BY <2>5 DEF statusMap
    <3> QED BY <3>1, <3>2, <3>3 DEF Runtime!Release, onMap, statusMap, OnOf
  <2> QED BY <2>6 DEF RuntimeStep, Runtime!RuntimeNext
<1> QED BY <1>9, <1>10

LEMMA WakeImplements ==
    ASSUME RInv, RInv', NEW w \in Workers, NEW f \in Fibers, FiberWake(w, f) PROVE RuntimeStep
<1> USE DEF Goto, poolVars, fiberVars, workVars, histVars
<1>0. TypeOK /\ Homes BY DEF RInv, IInv
<1>1. PICK t : t = code[f] OBVIOUS
<1>2. /\ f \in waiting /\ waiting' = waiting \ {f} /\ fibersReady' = Append(fibersReady, f)
      /\ UNCHANGED <<code, io, tasks, workVars, histVars>>
  BY DEF FiberWake
<1>3. t \in Tasks /\ t # None
  <2>1. PICK k \in Kinds, v \in Workers : At(k, v, f) BY <1>0 DEF Homes
  <2> QED BY <1>0, <1>1, <1>2, <2>1 DEF At, TypeOK
<1>4. \A x : InSeq(fibersReady', x) <=> InSeq(fibersReady, x) \/ x = f
  BY <1>0, <1>2, InAppend DEF TypeOK
<1>5. \A g \in Fibers \ {f} : FiberStays(g) BY <1>2, <1>4 DEF FiberStays, IsReady
<1>6. \A u \in Tasks : Queued(u)' <=> Queued(u) BY <1>2 DEF Queued
<1>7. \A u \in Tasks \ {t} : TaskUnmoved(u) BY <1>1, <1>2, <1>3, <1>5, <1>6, OthersUnmoved
<1>8. StatusOf(t) = "suspended" BY <1>1, <1>2, <1>3, StatusKnown DEF StatusIs
<1>9. f \notin waiting' /\ IsReady(f)' BY <1>2, <1>4 DEF IsReady
<1>10. StatusOf(t)' = "woken" BY <1>1, <1>2, <1>3, <1>9, StatusKnownNext DEF StatusIs
<1>11. Runtime!Become(t, "suspended", "woken") BY <1>3, <1>7, <1>8, <1>10, BecomeOf
<1>12. \A v \in Workers : OnOf(v)' = OnOf(v) BY <1>2 DEF OnOf
<1>13. Runtime!Wake(t) BY <1>11, <1>12 DEF Runtime!Wake, OnOf
<1> QED BY <1>3, <1>13 DEF RuntimeStep, Runtime!RuntimeNext

(* No interleaving of any number of workers runs a task twice: a task is   *)
(* in one queue, in one local variable of Worker::exec, on one fiber or    *)
(* done, and nowhere before it was handed to the scheduler.                *)
THEOREM NoTaskTwice == Spec => []TaskInOnePlace
<1>1. RInv => TaskInOnePlace
  <2> SUFFICES ASSUME RInv, NEW t \in Tasks
               PROVE  Cardinality(TaskAt(t)) <= 1 /\ (t \notin arrived => TaskAt(t) = {})
    BY DEF TaskInOnePlace
  <2>0. TypeOK /\ TaskHomes BY DEF RInv, IInv
  <2>1. PICK k \in TaskKinds, x \in Workers \cup Fibers : TaskIn(k, x, t) BY <2>0 DEF TaskHomes
  <2>2. DOMAIN io = 1 .. Len(io) /\ DOMAIN tasks = 1 .. Len(tasks) BY <2>0 DEF TypeOK
  <2> DEFINE I == {<<"io", i>> : i \in {j \in DOMAIN io : io[j] = t}}
             Q == {<<"tasks", i>> : i \in {j \in DOMAIN tasks : tasks[j] = t}}
             A == {<<"task", w>> : w \in {v \in Workers : task[v] = t}}
             T == {<<"fromQueue", w>> : w \in {v \in Workers : fromQueue[v] = t}}
             C == {<<"code", f>> : f \in {g \in Fibers : code[g] = t}}
             D == {<<"done">> : y \in done \cap {t}}
  <2>3. TaskAt(t) = I \cup Q \cup A \cup T \cup C \cup D BY DEF TaskAt
  <2>4. IF k = "io" THEN \E y : I = {y} ELSE I = {}
    <3>1. k # "io" => I = {} BY <2>1, <2>2 DEF TaskIn, InSeq
    <3>2. k = "io" => \E y : I = {y}
      <4> SUFFICES ASSUME k = "io" PROVE \E y : I = {y} OBVIOUS
      <4>1. PICK i \in 1 .. Len(io) : io[i] = t BY <2>1 DEF TaskIn, InSeq
      <4>2. {j \in DOMAIN io : io[j] = t} = {i} BY <2>0, <2>2, <4>1 DEF TaskHomes, Inj
      <4>3. I = {<<"io", i>>} BY <4>2
      <4> QED BY <4>3
    <3> QED BY <3>1, <3>2
  <2>5. IF k = "queue" THEN \E y : Q = {y} ELSE Q = {}
    <3>1. k # "queue" => Q = {} BY <2>1, <2>2 DEF TaskIn, InSeq
    <3>2. k = "queue" => \E y : Q = {y}
      <4> SUFFICES ASSUME k = "queue" PROVE \E y : Q = {y} OBVIOUS
      <4>1. PICK i \in 1 .. Len(tasks) : tasks[i] = t BY <2>1 DEF TaskIn, InSeq
      <4>2. {j \in DOMAIN tasks : tasks[j] = t} = {i} BY <2>0, <2>2, <4>1 DEF TaskHomes, Inj
      <4>3. Q = {<<"tasks", i>>} BY <4>2
      <4> QED BY <4>3
    <3> QED BY <3>1, <3>2
  <2>6. A \subseteq IF k = "argument" THEN {<<"task", x>>} ELSE {} BY <2>1 DEF TaskIn
  <2>7. T \subseteq IF k = "taken" THEN {<<"fromQueue", x>>} ELSE {} BY <2>1 DEF TaskIn
  <2>8. C \subseteq IF k = "code" THEN {<<"code", x>>} ELSE {} BY <2>1 DEF TaskIn
  <2>9. D \subseteq IF k = "done" THEN {<<"done">>} ELSE {} BY <2>1 DEF TaskIn
  <2> HIDE DEF I, Q, A, T, C, D
  <2>10. \E y : TaskAt(t) \subseteq {y}
    <3>1. CASE k = "io" BY <3>1, <2>3, <2>4, <2>5, <2>6, <2>7, <2>8, <2>9
    <3>2. CASE k = "queue" BY <3>2, <2>3, <2>4, <2>5, <2>6, <2>7, <2>8, <2>9
    <3>3. CASE k = "argument" BY <3>3, <2>3, <2>4, <2>5, <2>6, <2>7, <2>8, <2>9
    <3>4. CASE k = "taken" BY <3>4, <2>3, <2>4, <2>5, <2>6, <2>7, <2>8, <2>9
    <3>5. CASE k = "code" BY <3>5, <2>3, <2>4, <2>5, <2>6, <2>7, <2>8, <2>9
    <3>6. CASE k = "done" BY <3>6, <2>3, <2>4, <2>5, <2>6, <2>7, <2>8, <2>9
    <3>7. CASE k \in {"new", "dropped"} BY <3>7, <2>3, <2>4, <2>5, <2>6, <2>7, <2>8, <2>9
    <3> QED BY <3>1, <3>2, <3>3, <3>4, <3>5, <3>6, <3>7 DEF TaskKinds
  <2>11. k = "new" => TaskAt(t) = {} BY <2>3, <2>4, <2>5, <2>6, <2>7, <2>8, <2>9
  <2>12. Cardinality(TaskAt(t)) <= 1
    <3>1. PICK y : TaskAt(t) \subseteq {y} BY <2>10
    <3>2. IsFiniteSet({y}) /\ Cardinality({y}) = 1 BY FS_Singleton
    <3> QED BY <3>1, <3>2, FS_Subset
  <2> QED BY <2>1, <2>11, <2>12 DEF TaskIn
<1> QED BY RInductive, <1>1, PTL

(* The scheduler, with its queues, locks and fibers, does nothing          *)
(* TaskRuntime does not allow: it starts a task once, on a bounded number  *)
(* of stacks, resumes it only when it was woken and no worker is on its    *)
(* stack any more, and forgets one only before it has started.             *)
THEOREM SchedulerImplementsRuntime == Spec => ImplementsRuntime
<1>1. RInv /\ RInv' /\ [Next]_vars => RuntimeStep
  <2> SUFFICES ASSUME RInv, RInv', [Next]_vars PROVE RuntimeStep OBVIOUS
  <2>1. CASE UNCHANGED vars
    <3>1. \A u \in Tasks : TaskUnmoved(u)
      BY <2>1 DEF vars, poolVars, fiberVars, workVars, histVars, TaskUnmoved, Queued, FiberStays, IsReady
    <3>2. \A w \in Workers : OnOf(w)' = OnOf(w)
      BY <2>1 DEF vars, fiberVars, workVars, OnOf
    <3> QED BY <3>1, <3>2, StutterOf DEF RuntimeStep
  <2> QED
    BY <2>1, EnvironmentImplements, RootImplements, ExecuteImplements, ActivateImplements,
       UserImplements, LeaveImplements, WakeImplements DEF Next, RootStep, UserStep
<1>2. RuntimeStep => [Runtime!RuntimeNext]_<<
          [t \in Tasks |-> StatusOf(t)],
          [w \in Workers |-> IF pc[w] \in OnFiber THEN code[fiber[w]] ELSE None]>>
  BY DEF RuntimeStep, statusMap, onMap, OnOf
<1> QED
  BY InitImplements, RInductive, <1>1, <1>2, PTL DEF Spec, ImplementsRuntime, Runtime!RuntimeSpec

=============================================================================
