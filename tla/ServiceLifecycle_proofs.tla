------------------------ MODULE ServiceLifecycle_proofs ------------------------
(***************************************************************************)
(* What a call of Service::start, balance or stop leaves behind when it    *)
(* returns: CallsLeaveOrder, for any number of worker threads and jobs.    *)
(***************************************************************************)
EXTENDS ServiceLifecycle, FiniteSetTheorems, SequenceTheorems, TLAPS

Elements(s) == {s[i] : i \in 1 .. Len(s)}

-----------------------------------------------------------------------------
(* The inductive invariant. *)

(* _workersAmount counts the threads between onThreadStart and             *)
(* onThreadStop.                                                           *)
Counted == {w \in Workers : wpc[w] \in {"loop", "run", "handler"}}
CountExact == amount = Cardinality(Counted)

(* Where the Worker of a thread is: in _workers, in the list that balance  *)
(* is stopping, or told to stop and being joined.                          *)
OwnersKnown ==
    /\ workers \cap stopping = {}
    /\ \A w \in Workers :
         /\ wpc[w] \notin {"none", "gone"} => w \in workers \cup stopping \/ stop[w]
         /\ w \in workers \cup stopping => wpc[w] \notin {"none", "gone"} /\ ~stop[w]
         /\ wpc[w] = "none" => ~stop[w]

(* How far balance is. *)
BalanceStage ==
    /\ ctl \notin {"dropWork", "signal", "join"} => stopping = {}
    /\ ctl # "join" => \A w \in Workers : stop[w] => wpc[w] = "gone"
    /\ ctl \in {"new", "up", "down"} =>
         /\ \A w \in Workers : wpc[w] # "starting"
         /\ amount = Cardinality(workers)
    /\ ctl = "new" => workers = {}

(* stop is balance(0), the last call; it leaves no worker in _workers. *)
StopStage ==
    /\ call = "stop" =>
         /\ target = 0 /\ "onStop" \in added
         /\ ctl \notin {"new", "up"}
         /\ ctl # "resize" => workers = {}
    /\ pumping => call = "stop"
    /\ ctl = "down" => call = "stop"

(* A worker runs a handler exactly when it is inside one. *)
JobsRun == \A w \in Workers : (wpc[w] = "handler") <=> (job[w] # None)

(* What was added ran, is run, is queued or waits for its deadline. *)
AddedKept ==
    added = ran \cup timers \cup Elements(queue) \cup ({job[w] : w \in Workers} \ {None})
FewTimers == IsFiniteSet(timers)

(* After a stop that found a worker pumping, some worker pumps until       *)
(* nothing is outstanding.                                                 *)
PumpedOut ==
    pumping => IF stopped THEN Idle(work, job)
                          ELSE \E w \in Workers : wpc[w] \in {"run", "handler"}

ServiceInv ==
    /\ ServiceTypeOK /\ CountExact /\ OwnersKnown /\ BalanceStage /\ StopStage
    /\ JobsRun /\ AddedKept /\ FewTimers /\ PumpedOut

-----------------------------------------------------------------------------
(* Sequences of handlers. *)

LEMMA ElementsEmpty == Elements(<<>>) = {}
BY DEF Elements

LEMMA ElementsAppend ==
  ASSUME NEW S, NEW s \in Seq(S), NEW x \in S
  PROVE  Append(s, x) \in Seq(S) /\ Elements(Append(s, x)) = Elements(s) \cup {x}
<1>1. /\ Append(s, x) \in Seq(S) /\ Len(Append(s, x)) = Len(s) + 1 /\ Len(s) \in Nat
      /\ \A i \in 1 .. Len(s) : Append(s, x)[i] = s[i]
      /\ Append(s, x)[Len(s) + 1] = x
  OBVIOUS
<1> DEFINE t == Append(s, x)
<1> HIDE DEF t
<1>2. /\ t \in Seq(S) /\ Len(t) = Len(s) + 1 /\ Len(s) \in Nat
      /\ \A i \in 1 .. Len(s) : t[i] = s[i]
      /\ t[Len(s) + 1] = x
  BY <1>1 DEF t
<1>3. ASSUME NEW e \in Elements(t) PROVE e \in Elements(s) \cup {x}
  <2>1. PICK i \in 1 .. Len(t) : e = t[i]
    BY DEF Elements
  <2> QED BY <1>2, <2>1 DEF Elements
<1>4. ASSUME NEW e \in Elements(s) \cup {x} PROVE e \in Elements(t)
  <2>1. CASE e = x
    BY <1>2, <2>1 DEF Elements
  <2>2. CASE e \in Elements(s)
    <3>1. PICK i \in 1 .. Len(s) : e = s[i]
      BY <2>2 DEF Elements
    <3>2. i \in 1 .. Len(t) /\ e = t[i]
      BY <1>2, <3>1
    <3> QED BY <3>2 DEF Elements
  <2> QED BY <2>1, <2>2
<1>5. Elements(t) = Elements(s) \cup {x}
  BY <1>3, <1>4
<1> QED BY <1>2, <1>5 DEF t

LEMMA ElementsTail ==
  ASSUME NEW S, NEW s \in Seq(S), s # <<>>
  PROVE  /\ Tail(s) \in Seq(S) /\ Head(s) \in S
         /\ Elements(s) = Elements(Tail(s)) \cup {Head(s)}
<1> DEFINE t == Tail(s)
<1>1. /\ t \in Seq(S) /\ Head(s) \in S /\ Len(s) \in Nat /\ Len(s) > 0
      /\ Len(t) = Len(s) - 1 /\ Head(s) = s[1]
      /\ \A i \in 1 .. Len(t) : t[i] = s[i + 1]
  OBVIOUS
<1> HIDE DEF t
<1>2. ASSUME NEW e \in Elements(s) PROVE e \in Elements(t) \cup {s[1]}
  <2>1. PICK i \in 1 .. Len(s) : e = s[i]
    BY DEF Elements
  <2>2. CASE i = 1
    BY <2>1, <2>2
  <2>3. CASE i # 1
    <3>1. i - 1 \in 1 .. Len(t) /\ e = t[i - 1]
      BY <1>1, <2>1, <2>3
    <3> QED BY <3>1 DEF Elements
  <2> QED BY <2>2, <2>3
<1>3. ASSUME NEW e \in Elements(t) \cup {s[1]} PROVE e \in Elements(s)
  <2>1. CASE e = s[1]
    <3>1. 1 \in 1 .. Len(s)
      BY <1>1
    <3> QED BY <2>1, <3>1 DEF Elements
  <2>2. CASE e \in Elements(t)
    <3>1. PICK i \in 1 .. Len(t) : e = t[i]
      BY <2>2 DEF Elements
    <3>2. i + 1 \in 1 .. Len(s) /\ e = s[i + 1]
      BY <1>1, <3>1
    <3> QED BY <3>2 DEF Elements
  <2> QED BY <2>1, <2>2
<1>4. Elements(s) = Elements(t) \cup {s[1]}
  BY <1>2, <1>3
<1> QED BY <1>1, <1>4 DEF t

LEMMA ElementsConcat ==
  ASSUME NEW S, NEW s \in Seq(S), NEW t \in Seq(S)
  PROVE  s \o t \in Seq(S) /\ Elements(s \o t) = Elements(s) \cup Elements(t)
<1> DEFINE u == s \o t
<1>1. /\ u \in Seq(S) /\ Len(s) \in Nat /\ Len(t) \in Nat /\ Len(u) = Len(s) + Len(t)
      /\ \A i \in 1 .. Len(u) : u[i] = IF i <= Len(s) THEN s[i] ELSE t[i - Len(s)]
  OBVIOUS
<1> HIDE DEF u
<1>2. ASSUME NEW e \in Elements(u) PROVE e \in Elements(s) \cup Elements(t)
  <2>1. PICK i \in 1 .. Len(u) : e = u[i]
    BY DEF Elements
  <2>2. CASE i <= Len(s)
    <3>1. i \in 1 .. Len(s) /\ e = s[i]
      BY <1>1, <2>1, <2>2
    <3> QED BY <3>1 DEF Elements
  <2>3. CASE ~(i <= Len(s))
    <3>1. i - Len(s) \in 1 .. Len(t) /\ e = t[i - Len(s)]
      BY <1>1, <2>1, <2>3
    <3> QED BY <3>1 DEF Elements
  <2> QED BY <2>2, <2>3
<1>3. ASSUME NEW e \in Elements(s) PROVE e \in Elements(u)
  <2>1. PICK i \in 1 .. Len(s) : e = s[i]
    BY DEF Elements
  <2>2. i \in 1 .. Len(u) /\ e = u[i]
    BY <1>1, <2>1
  <2> QED BY <2>2 DEF Elements
<1>4. ASSUME NEW e \in Elements(t) PROVE e \in Elements(u)
  <2>1. PICK i \in 1 .. Len(t) : e = t[i]
    BY DEF Elements
  <2> DEFINE j == i + Len(s)
  <2>2. j \in 1 .. Len(u) /\ ~(j <= Len(s)) /\ j - Len(s) = i
    BY <1>1, <2>1
  <2> HIDE DEF j
  <2>3. e = u[j]
    BY <1>1, <2>1, <2>2
  <2> QED BY <2>2, <2>3 DEF Elements
<1>5. Elements(u) = Elements(s) \cup Elements(t)
  BY <1>2, <1>3, <1>4
<1> QED BY <1>1, <1>5 DEF u

(* The same of the queue of the io_service. *)
LEMMA Queued ==
  ASSUME ServiceTypeOK, NEW h \in Handlers, queue' = Append(queue, h)
  PROVE  queue' \in Seq(Handlers) /\ Elements(queue') = Elements(queue) \cup {h}
BY ElementsAppend DEF ServiceTypeOK

(* What RunOne takes from it. *)
LEMMA Dequeued ==
  ASSUME ServiceTypeOK, queue # <<>>, queue' = Tail(queue)
  PROVE  /\ queue' \in Seq(Handlers) /\ Head(queue) \in Handlers
         /\ Elements(queue) = Elements(queue') \cup {Head(queue)}
BY ElementsTail DEF ServiceTypeOK

(* The threads that are counted are finite in number. *)
LEMMA CountedFinite ==
  ASSUME CountExact
  PROVE  /\ IsFiniteSet(Counted) /\ Counted \subseteq Workers
         /\ amount \in Nat /\ amount <= Cardinality(Workers)
         /\ Cardinality(Workers) \in Nat
<1>1. IsFiniteSet(Workers) /\ Counted \subseteq Workers
  BY ServiceAssumption DEF Counted
<1> QED BY <1>1, FS_Subset, FS_CardinalityType DEF CountExact

LEMMA WorkersFinite ==
  ASSUME ServiceTypeOK
  PROVE  IsFiniteSet(workers) /\ Cardinality(workers) \in Nat
<1>1. IsFiniteSet(Workers) /\ workers \subseteq Workers
  BY ServiceAssumption DEF ServiceTypeOK
<1> QED BY <1>1, FS_Subset, FS_CardinalityType

-----------------------------------------------------------------------------
(* The control thread. *)

LEMMA StartKeeps ==
  ASSUME ServiceInv, NEW n \in Targets, Start(n)
  PROVE  ServiceInv'
<1> USE DEF ServiceInv, Start, ioVars, ctlVars, thrVars, histVars, Balance
<1>1. ServiceTypeOK'
  BY DEF ServiceTypeOK
<1>2. CountExact'
  BY DEF CountExact, Counted
<1>3. OwnersKnown'
  BY DEF OwnersKnown
<1>4. BalanceStage'
  BY DEF BalanceStage, ServiceTypeOK
<1>5. StopStage'
  BY DEF StopStage, BalanceStage
<1>6. JobsRun'
  BY DEF JobsRun
<1>7. AddedKept'
  BY DEF AddedKept
<1>8. PumpedOut'
  BY DEF PumpedOut, Idle, StopStage, JobsRun, ServiceTypeOK
<1>9. FewTimers'
  BY DEF FewTimers
<1> QED BY <1>1, <1>2, <1>3, <1>4, <1>5, <1>6, <1>7, <1>8, <1>9

LEMMA WaitSignalKeeps ==
  ASSUME ServiceInv, WaitSignal
  PROVE  ServiceInv'
<1> USE DEF ServiceInv, WaitSignal, ioVars, ctlVars, thrVars, histVars
<1>1. ServiceTypeOK'
  BY DEF ServiceTypeOK
<1>2. CountExact'
  BY DEF CountExact, Counted
<1>3. OwnersKnown'
  BY DEF OwnersKnown
<1>4. BalanceStage'
  BY DEF BalanceStage, ServiceTypeOK
<1>5. StopStage'
  BY DEF StopStage, BalanceStage
<1>6. JobsRun'
  BY DEF JobsRun
<1>7. AddedKept'
  BY DEF AddedKept
<1>8. PumpedOut'
  BY DEF PumpedOut, Idle, StopStage, JobsRun, ServiceTypeOK
<1>9. FewTimers'
  BY DEF FewTimers
<1> QED BY <1>1, <1>2, <1>3, <1>4, <1>5, <1>6, <1>7, <1>8, <1>9

LEMMA SignalKeeps ==
  ASSUME ServiceInv, Signal
  PROVE  ServiceInv'
<1> USE DEF ServiceInv, Signal, ioVars, ctlVars, thrVars, histVars
<1>0. queue' \in Seq(Handlers) /\ Elements(queue') = Elements(queue) \cup {"onSignal"}
  BY Queued DEF Handlers
<1>1. ServiceTypeOK'
  BY <1>0 DEF ServiceTypeOK, Handlers
<1>2. CountExact'
  BY DEF CountExact, Counted
<1>3. OwnersKnown'
  BY DEF OwnersKnown
<1>4. BalanceStage'
  BY DEF BalanceStage, ServiceTypeOK
<1>5. StopStage'
  BY DEF StopStage, BalanceStage
<1>6. JobsRun'
  BY DEF JobsRun
<1>7. AddedKept'
  BY <1>0 DEF AddedKept
<1>8. PumpedOut'
  BY DEF PumpedOut, Idle, StopStage, JobsRun, ServiceTypeOK
<1>9. FewTimers'
  BY DEF FewTimers
<1> QED BY <1>1, <1>2, <1>3, <1>4, <1>5, <1>6, <1>7, <1>8, <1>9

LEMMA RebalanceKeeps ==
  ASSUME ServiceInv, NEW n \in Targets, Rebalance(n)
  PROVE  ServiceInv'
<1> USE DEF ServiceInv, Rebalance, ioVars, ctlVars, thrVars, histVars, Balance
<1>1. ServiceTypeOK'
  BY ServiceAssumption DEF ServiceTypeOK
<1>2. CountExact'
  BY DEF CountExact, Counted
<1>3. OwnersKnown'
  BY DEF OwnersKnown
<1>4. BalanceStage'
  BY DEF BalanceStage, ServiceTypeOK
<1>5. StopStage'
  BY DEF StopStage, BalanceStage
<1>6. JobsRun'
  BY DEF JobsRun
<1>7. AddedKept'
  BY DEF AddedKept
<1>8. PumpedOut'
  BY DEF PumpedOut, Idle, StopStage, JobsRun, ServiceTypeOK
<1>9. FewTimers'
  BY DEF FewTimers
<1> QED BY <1>1, <1>2, <1>3, <1>4, <1>5, <1>6, <1>7, <1>8, <1>9

LEMMA StopKeeps ==
  ASSUME ServiceInv, Stop
  PROVE  ServiceInv'
<1> USE DEF ServiceInv, Stop, ioVars, ctlVars, thrVars, histVars, Balance
<1> DEFINE signalled == IF signals THEN {"onSignal"} ELSE {}
<1>0. queue' \in Seq(Handlers) /\ Elements(queue') = Elements(queue) \cup {"onStop"} \cup signalled
  <2> DEFINE t == IF signals THEN <<"onSignal", "onStop">> ELSE <<"onStop">>
  <2>1. t \in Seq(Handlers)
    <3>1. <<"onSignal", "onStop">> \in Seq(Handlers) /\ <<"onStop">> \in Seq(Handlers)
      BY DEF Handlers
    <3> QED BY <3>1
  <2>2. Elements(<<"onSignal", "onStop">>) = {"onSignal", "onStop"}
    <3>1. 1 .. 2 = {1, 2}
      OBVIOUS
    <3> QED BY <3>1 DEF Elements
  <2>3. Elements(<<"onStop">>) = {"onStop"}
    BY DEF Elements
  <2>4. Elements(t) = {"onStop"} \cup signalled
    BY <2>2, <2>3
  <2>5. queue' = queue \o t
    OBVIOUS
  <2>6. queue \in Seq(Handlers)
    BY DEF ServiceTypeOK
  <2> HIDE DEF t, signalled, Stop
  <2>7. queue \o t \in Seq(Handlers) /\ Elements(queue \o t) = Elements(queue) \cup Elements(t)
    BY <2>1, <2>6, ElementsConcat
  <2> QED BY <2>4, <2>5, <2>7
<1>1. ServiceTypeOK'
  BY <1>0 DEF ServiceTypeOK, Handlers
<1>2. CountExact'
  BY DEF CountExact, Counted
<1>3. OwnersKnown'
  BY DEF OwnersKnown
<1>4. BalanceStage'
  BY DEF BalanceStage, ServiceTypeOK
<1>5. StopStage'
  BY DEF StopStage, BalanceStage
<1>6. JobsRun'
  BY DEF JobsRun
<1>7. AddedKept'
  BY <1>0 DEF AddedKept
<1>8. PumpedOut'
  BY DEF PumpedOut, Idle, StopStage, JobsRun, ServiceTypeOK
<1>9. FewTimers'
  BY DEF FewTimers
<1> QED BY <1>1, <1>2, <1>3, <1>4, <1>5, <1>6, <1>7, <1>8, <1>9

LEMMA ResizeKeeps ==
  ASSUME ServiceInv, Resize
  PROVE  ServiceInv'
<1> USE DEF ServiceInv, Resize, ioVars, ctlVars, thrVars, histVars
<1>1. ServiceTypeOK'
  BY DEF ServiceTypeOK
<1>2. CountExact'
  BY DEF CountExact, Counted
<1>3. OwnersKnown'
  <2>1. CASE Cardinality(workers) > target
    <3>1. ~(Cardinality(workers) <= target)
      BY <2>1, WorkersFinite, ServiceAssumption DEF ServiceTypeOK
    <3> QED BY <3>1 DEF OwnersKnown, BalanceStage
  <2>2. CASE ~(Cardinality(workers) > target)
    <3>1. PICK S \in SUBSET {w \in Workers : wpc[w] = "none"} :
             /\ workers' = workers \cup S
             /\ wpc' = [w \in Workers |-> IF w \in S THEN "starting" ELSE wpc[w]]
             /\ stopping' = stopping
      BY <2>2
    <3>2. (\A w \in Workers : wpc'[w] = IF w \in S THEN "starting" ELSE wpc[w]) /\ stop' = stop
      BY <3>1
    <3> HIDE DEF Resize
    <3> QED BY <2>2, <3>1, <3>2 DEF OwnersKnown
  <2> QED BY <2>1, <2>2
<1>4. BalanceStage'
  BY DEF BalanceStage, ServiceTypeOK
<1>5. StopStage'
  <2>1. call = "stop" => workers' = {}
    <3> SUFFICES ASSUME call = "stop" PROVE workers' = {}
      OBVIOUS
    <3>1. target = 0 /\ IsFiniteSet(workers) /\ Cardinality(workers) \in Nat
      BY WorkersFinite DEF StopStage
    <3>2. CASE Cardinality(workers) > target
      <4>1. PICK S \in SUBSET workers :
               Cardinality(S) = Cardinality(workers) - target /\ workers' = workers \ S
        BY <3>1, <3>2
      <4>2. Cardinality(S) = Cardinality(workers)
        BY <3>1, <4>1
      <4>3. S = workers
        BY <3>1, <4>2, FS_Subset
      <4> QED BY <4>1, <4>3
    <3>3. CASE Cardinality(workers) <= target
      <4>1. Cardinality(workers) = 0
        BY <3>1, <3>3
      <4>2. PICK S \in SUBSET {w \in Workers : wpc[w] = "none"} :
               Cardinality(S) = target - Cardinality(workers) /\ workers' = workers \cup S
        BY <3>1, <3>3
      <4>3. Cardinality(S) = 0 /\ IsFiniteSet(S)
        BY <3>1, <4>1, <4>2, FS_Subset, ServiceAssumption
      <4> QED BY <3>1, <4>1, <4>2, <4>3, FS_EmptySet
    <3> QED BY <3>1, <3>2, <3>3
  <2> QED BY <2>1 DEF StopStage
<1>6. JobsRun'
  BY DEF JobsRun
<1>7. AddedKept'
  BY DEF AddedKept
<1>8. PumpedOut'
  BY DEF PumpedOut, Idle, StopStage, JobsRun, ServiceTypeOK
<1>9. FewTimers'
  BY DEF FewTimers
<1> QED BY <1>1, <1>2, <1>3, <1>4, <1>5, <1>6, <1>7, <1>8, <1>9

LEMMA DropWorkKeeps ==
  ASSUME ServiceInv, DropWork
  PROVE  ServiceInv'
<1> USE DEF ServiceInv, DropWork, ioVars, ctlVars, thrVars, histVars, WorkDropped
<1>1. ServiceTypeOK'
  BY DEF ServiceTypeOK
<1>2. CountExact'
  BY DEF CountExact, Counted
<1>3. OwnersKnown'
  BY DEF OwnersKnown
<1>4. BalanceStage'
  BY DEF BalanceStage, ServiceTypeOK
<1>5. StopStage'
  BY DEF StopStage, BalanceStage
<1>6. JobsRun'
  BY DEF JobsRun
<1>7. AddedKept'
  BY DEF AddedKept
<1>8. PumpedOut'
  BY DEF PumpedOut, Idle, StopStage, JobsRun, ServiceTypeOK
<1>9. FewTimers'
  BY DEF FewTimers
<1> QED BY <1>1, <1>2, <1>3, <1>4, <1>5, <1>6, <1>7, <1>8, <1>9

LEMMA SignalWorkerKeeps ==
  ASSUME ServiceInv, SignalWorker
  PROVE  ServiceInv'
<1> USE DEF ServiceInv, SignalWorker, ioVars, ctlVars, thrVars, histVars
<1>1. ServiceTypeOK'
  BY DEF ServiceTypeOK
<1>2. CountExact'
  BY DEF CountExact, Counted
<1>3. OwnersKnown'
  <2>1. PICK w \in stopping : stop' = [stop EXCEPT ![w] = TRUE] /\ stopping' = stopping \ {w}
    OBVIOUS
  <2>2. \A v \in Workers : stop'[v] = IF v = w THEN TRUE ELSE stop[v]
    BY <2>1 DEF ServiceTypeOK
  <2>3. workers' = workers /\ wpc' = wpc
    OBVIOUS
  <2> HIDE DEF SignalWorker
  <2> QED BY <2>1, <2>2, <2>3 DEF OwnersKnown
<1>4. BalanceStage'
  BY DEF BalanceStage, ServiceTypeOK
<1>5. StopStage'
  BY DEF StopStage, BalanceStage
<1>6. JobsRun'
  BY DEF JobsRun
<1>7. AddedKept'
  BY DEF AddedKept
<1>8. PumpedOut'
  BY DEF PumpedOut, Idle, StopStage, JobsRun, ServiceTypeOK
<1>9. FewTimers'
  BY DEF FewTimers
<1> QED BY <1>1, <1>2, <1>3, <1>4, <1>5, <1>6, <1>7, <1>8, <1>9

LEMMA JoinWorkerKeeps ==
  ASSUME ServiceInv, JoinWorker
  PROVE  ServiceInv'
<1> USE DEF ServiceInv, JoinWorker, ioVars, ctlVars, thrVars, histVars, Joined
<1>1. ServiceTypeOK'
  BY DEF ServiceTypeOK
<1>2. CountExact'
  BY DEF CountExact, Counted
<1>3. OwnersKnown'
  BY DEF OwnersKnown
<1>4. BalanceStage'
  BY DEF BalanceStage, ServiceTypeOK
<1>5. StopStage'
  BY DEF StopStage, BalanceStage
<1>6. JobsRun'
  BY DEF JobsRun
<1>7. AddedKept'
  BY DEF AddedKept
<1>8. PumpedOut'
  BY DEF PumpedOut, Idle, StopStage, JobsRun, ServiceTypeOK
<1>9. FewTimers'
  BY DEF FewTimers
<1> QED BY <1>1, <1>2, <1>3, <1>4, <1>5, <1>6, <1>7, <1>8, <1>9

LEMMA SetWorkKeeps ==
  ASSUME ServiceInv, SetWork
  PROVE  ServiceInv'
<1> USE DEF ServiceInv, SetWork, ioVars, ctlVars, thrVars, histVars
<1>0. queue' \in Seq(Handlers) /\ Elements(queue') \cup timers' = Elements(queue) \cup timers
  <2>1. CASE workers # {}
    BY <2>1 DEF ServiceTypeOK
  <2>2. CASE workers = {}
    <3>1. PICK q \in [1 .. Cardinality(timers) -> timers] :
             (\A t \in timers : \E i \in DOMAIN q : q[i] = t) /\ queue' = queue \o q
      BY <2>2
    <3>2. timers' = {}
      BY <2>2
    <3> HIDE DEF SetWork
    <3>3. Cardinality(timers) \in Nat
      BY FS_CardinalityType DEF FewTimers
    <3>4. q \in Seq(timers) /\ Len(q) = Cardinality(timers)
      BY <3>1, <3>3
    <3>5. q \in Seq(Handlers) /\ DOMAIN q = 1 .. Len(q)
      BY <3>4 DEF ServiceTypeOK, Handlers
    <3>6. Elements(q) = timers
      <4>1. \A i \in 1 .. Len(q) : q[i] \in timers
        BY <3>1, <3>4
      <4> QED BY <3>1, <3>5, <4>1 DEF Elements
    <3> QED BY <3>1, <3>2, <3>5, <3>6, ElementsConcat DEF ServiceTypeOK
  <2> QED BY <2>1, <2>2
<1>1. ServiceTypeOK'
  BY <1>0 DEF ServiceTypeOK, Handlers
<1>2. CountExact'
  BY DEF CountExact, Counted
<1>3. OwnersKnown'
  BY DEF OwnersKnown
<1>4. BalanceStage'
  BY DEF BalanceStage, ServiceTypeOK
<1>5. StopStage'
  BY DEF StopStage, BalanceStage
<1>6. JobsRun'
  BY DEF JobsRun
<1>7. AddedKept'
  BY <1>0 DEF AddedKept
<1>8. PumpedOut'
  <2>1. pumping => stopped /\ workers = {}
    BY DEF PumpedOut, StopStage, BalanceStage, OwnersKnown, ServiceTypeOK
  <2> SUFFICES ASSUME pumping PROVE Idle(work, job)' /\ stopped'
    BY DEF PumpedOut
  <2>2. /\ ~work /\ timers = {} /\ ~signals /\ queue = <<>> /\ \A w \in Workers : job[w] = None
        /\ stopped
    BY <2>1 DEF PumpedOut, Idle
  <2>3. Elements(queue') = {} /\ timers' = {}
    BY <1>0, <2>2, ElementsEmpty
  <2>4. queue' = <<>>
    <3>1. queue' \in Seq(Handlers) /\ Len(queue') \in Nat
      BY <1>0
    <3>2. Len(queue') > 0 => queue'[1] \in Elements(queue')
      BY <3>1 DEF Elements
    <3> QED BY <2>3, <3>1, <3>2, EmptySeq
  <2> QED BY <2>1, <2>2, <2>3, <2>4 DEF Idle
<1>9. FewTimers'
  BY FS_EmptySet DEF FewTimers
<1> QED BY <1>1, <1>2, <1>3, <1>4, <1>5, <1>6, <1>7, <1>8, <1>9

LEMMA AwaitKeeps ==
  ASSUME ServiceInv, Await
  PROVE  ServiceInv'
<1> USE DEF ServiceInv, Await, ioVars, ctlVars, thrVars, histVars, AmountReached
<1>0. queue' \in Seq(Handlers) /\ added' \subseteq Handlers
      /\ added' = added \cup (Elements(queue') \ Elements(queue)) /\ Elements(queue) \subseteq Elements(queue')
  <2>1. CASE call = "start"
    <3>1. "onStart" \in Handlers /\ queue' = Append(queue, "onStart") /\ added' = added \cup {"onStart"}
      BY <2>1 DEF Handlers
    <3>2. queue' \in Seq(Handlers) /\ Elements(queue') = Elements(queue) \cup {"onStart"}
      BY <3>1, Queued
    <3> QED BY <3>1, <3>2 DEF ServiceTypeOK, AddedKept
  <2>2. CASE call # "start"
    BY <2>2 DEF ServiceTypeOK
  <2> QED BY <2>1, <2>2
<1>1. ServiceTypeOK'
  BY <1>0 DEF ServiceTypeOK, Handlers
<1>2. CountExact'
  BY DEF CountExact, Counted
<1>3. OwnersKnown'
  BY DEF OwnersKnown
<1>4. BalanceStage'
  <2>1. stopping = {} /\ \A w \in Workers : stop[w] => wpc[w] = "gone"
    BY DEF BalanceStage
  <2>2. Counted \subseteq workers
    BY <2>1 DEF Counted, OwnersKnown
  <2>3. Counted = workers
    BY <2>2, WorkersFinite, FS_Subset DEF CountExact
  <2>4. \A w \in Workers : wpc[w] # "starting"
    BY <2>1, <2>3 DEF OwnersKnown, Counted
  <2> QED BY <2>1, <2>4 DEF BalanceStage
<1>5. StopStage'
  BY DEF StopStage, BalanceStage
<1>6. JobsRun'
  BY DEF JobsRun
<1>7. AddedKept'
  BY <1>0 DEF AddedKept
<1>8. PumpedOut'
  BY DEF PumpedOut, Idle, StopStage, JobsRun, ServiceTypeOK
<1>9. FewTimers'
  BY DEF FewTimers
<1> QED BY <1>1, <1>2, <1>3, <1>4, <1>5, <1>6, <1>7, <1>8, <1>9

-----------------------------------------------------------------------------
(* The worker threads and what they run. *)

LEMMA ThreadStartKeeps ==
  ASSUME ServiceInv, NEW w \in Workers, ThreadStart(w)
  PROVE  ServiceInv'
<1> USE DEF ServiceInv, ThreadStart, ioVars, ctlVars, thrVars, histVars
<1>0. /\ wpc' \in [Workers -> {"none", "starting", "loop", "run", "handler", "gone"}]
      /\ \A v \in Workers : wpc'[v] = IF v = w THEN "loop" ELSE wpc[v]
  BY DEF ServiceTypeOK
<1>10. Counted' = Counted \cup {w} /\ w \notin Counted
  BY <1>0 DEF Counted
<1>11. CountExact'
  BY <1>10, CountedFinite, FS_AddElement DEF CountExact
<1>12. amount' \in 0 .. Cardinality(Workers)
  <2>1. IsFiniteSet(Counted') /\ Counted' \subseteq Workers
    BY <1>10, CountedFinite, FS_AddElement
  <2> QED BY <1>11, <2>1, ServiceAssumption, FS_Subset, FS_CardinalityType DEF CountExact
<1>1. ServiceTypeOK'
  BY <1>0, <1>12 DEF ServiceTypeOK
<1>2. CountExact'
  BY <1>11
<1>3. OwnersKnown'
  BY DEF OwnersKnown
<1>4. BalanceStage'
  BY DEF BalanceStage, ServiceTypeOK
<1>5. StopStage'
  BY DEF StopStage, BalanceStage
<1>6. JobsRun'
  BY DEF JobsRun
<1>7. AddedKept'
  BY DEF AddedKept
<1>8. PumpedOut'
  BY DEF PumpedOut, Idle, StopStage, JobsRun, ServiceTypeOK
<1>9. FewTimers'
  BY DEF FewTimers
<1> QED BY <1>1, <1>2, <1>3, <1>4, <1>5, <1>6, <1>7, <1>8, <1>9

LEMMA EnterRunKeeps ==
  ASSUME ServiceInv, NEW w \in Workers, EnterRun(w)
  PROVE  ServiceInv'
<1> USE DEF ServiceInv, EnterRun, ioVars, ctlVars, thrVars, histVars
<1>0. /\ wpc' \in [Workers -> {"none", "starting", "loop", "run", "handler", "gone"}]
      /\ \A v \in Workers : wpc'[v] # wpc[v] => wpc[v] = "loop" /\ wpc'[v] = "run"
  BY DEF ServiceTypeOK
<1>1. ServiceTypeOK'
  BY DEF ServiceTypeOK
<1>2. CountExact'
  <2>1. Counted' = Counted
    BY <1>0 DEF Counted
  <2> QED BY <2>1 DEF CountExact
<1>3. OwnersKnown'
  BY <1>0 DEF OwnersKnown
<1>4. BalanceStage'
  BY DEF BalanceStage, ServiceTypeOK
<1>5. StopStage'
  BY DEF StopStage, BalanceStage
<1>6. JobsRun'
  BY <1>0 DEF JobsRun
<1>7. AddedKept'
  BY DEF AddedKept
<1>8. PumpedOut'
  BY DEF PumpedOut, Idle, StopStage, JobsRun, ServiceTypeOK
<1>9. FewTimers'
  BY DEF FewTimers
<1> QED BY <1>1, <1>2, <1>3, <1>4, <1>5, <1>6, <1>7, <1>8, <1>9

LEMMA RunOneKeeps ==
  ASSUME ServiceInv, NEW w \in Workers, RunOne(w)
  PROVE  ServiceInv'
<1> USE DEF ServiceInv, RunOne, ioVars, ctlVars, thrVars, histVars
<1>0. /\ wpc' \in [Workers -> {"none", "starting", "loop", "run", "handler", "gone"}]
      /\ \A v \in Workers : wpc'[v] = IF v = w THEN "handler" ELSE wpc[v]
  BY DEF ServiceTypeOK
<1>10. /\ queue' \in Seq(Handlers) /\ Head(queue) \in Handlers
       /\ Elements(queue) = Elements(queue') \cup {Head(queue)}
  BY Dequeued
<1>11. /\ job' \in [Workers -> Handlers \cup {None}]
       /\ \A v \in Workers : job'[v] = IF v = w THEN Head(queue) ELSE job[v]
  BY <1>10 DEF ServiceTypeOK
<1>12. Head(queue) # None /\ job[w] = None
  BY <1>10, ServiceAssumption DEF JobsRun
<1>1. ServiceTypeOK'
  BY <1>0, <1>10, <1>11 DEF ServiceTypeOK
<1>2. CountExact'
  <2>1. Counted' = Counted
    BY <1>0 DEF Counted
  <2> QED BY <2>1 DEF CountExact
<1>3. OwnersKnown'
  BY <1>0 DEF OwnersKnown
<1>4. BalanceStage'
  BY DEF BalanceStage, ServiceTypeOK
<1>5. StopStage'
  BY DEF StopStage, BalanceStage
<1>6. JobsRun'
  BY <1>0, <1>11, <1>12 DEF JobsRun
<1>7. AddedKept'
  <2>1. {job'[v] : v \in Workers} \ {None} = ({job[v] : v \in Workers} \ {None}) \cup {Head(queue)}
    BY <1>11, <1>12
  <2> HIDE DEF RunOne
  <2>2. UNCHANGED <<added, ran, timers>>
    BY DEF RunOne
  <2> QED BY <1>10, <2>1, <2>2 DEF AddedKept
<1>8. PumpedOut'
  BY DEF PumpedOut, Idle, StopStage, JobsRun, ServiceTypeOK
<1>9. FewTimers'
  BY DEF FewTimers
<1> QED BY <1>1, <1>2, <1>3, <1>4, <1>5, <1>6, <1>7, <1>8, <1>9

LEMMA SpawnKeeps ==
  ASSUME ServiceInv, NEW w \in Workers, NEW j \in Jobs, Spawn(w, j)
  PROVE  ServiceInv'
<1> USE DEF ServiceInv, Spawn, ioVars, ctlVars, thrVars, histVars
<1>0. queue' \in Seq(Handlers) /\ Elements(queue') = Elements(queue) \cup {j} /\ j \in Handlers
  BY Queued DEF Handlers
<1>1. ServiceTypeOK'
  BY <1>0 DEF ServiceTypeOK, Handlers
<1>2. CountExact'
  BY DEF CountExact, Counted
<1>3. OwnersKnown'
  BY DEF OwnersKnown
<1>4. BalanceStage'
  BY DEF BalanceStage, ServiceTypeOK
<1>5. StopStage'
  BY DEF StopStage, BalanceStage
<1>6. JobsRun'
  BY DEF JobsRun
<1>7. AddedKept'
  BY <1>0 DEF AddedKept
<1>8. PumpedOut'
  BY DEF PumpedOut, Idle, StopStage, JobsRun, ServiceTypeOK
<1>9. FewTimers'
  BY DEF FewTimers
<1> QED BY <1>1, <1>2, <1>3, <1>4, <1>5, <1>6, <1>7, <1>8, <1>9

LEMMA TimeoutKeeps ==
  ASSUME ServiceInv, NEW w \in Workers, NEW j \in Jobs, Timeout(w, j)
  PROVE  ServiceInv'
<1> USE DEF ServiceInv, Timeout, ioVars, ctlVars, thrVars, histVars
<1>1. ServiceTypeOK'
  BY DEF ServiceTypeOK, Handlers
<1>2. CountExact'
  BY DEF CountExact, Counted
<1>3. OwnersKnown'
  BY DEF OwnersKnown
<1>4. BalanceStage'
  BY DEF BalanceStage, ServiceTypeOK
<1>5. StopStage'
  BY DEF StopStage, BalanceStage
<1>6. JobsRun'
  BY DEF JobsRun
<1>7. AddedKept'
  BY DEF AddedKept
<1>8. PumpedOut'
  BY DEF PumpedOut, Idle, StopStage, JobsRun, ServiceTypeOK
<1>9. FewTimers'
  BY FS_AddElement DEF FewTimers
<1> QED BY <1>1, <1>2, <1>3, <1>4, <1>5, <1>6, <1>7, <1>8, <1>9

LEMMA ExpireKeeps ==
  ASSUME ServiceInv, NEW j \in Jobs, Expire(j)
  PROVE  ServiceInv'
<1> USE DEF ServiceInv, Expire, ioVars, ctlVars, thrVars, histVars
<1>0. queue' \in Seq(Handlers) /\ Elements(queue') = Elements(queue) \cup {j}
  BY Queued DEF Handlers
<1>1. ServiceTypeOK'
  BY <1>0 DEF ServiceTypeOK, Handlers
<1>2. CountExact'
  BY DEF CountExact, Counted
<1>3. OwnersKnown'
  BY DEF OwnersKnown
<1>4. BalanceStage'
  BY DEF BalanceStage, ServiceTypeOK
<1>5. StopStage'
  BY DEF StopStage, BalanceStage
<1>6. JobsRun'
  BY DEF JobsRun
<1>7. AddedKept'
  BY <1>0 DEF AddedKept
<1>8. PumpedOut'
  BY DEF PumpedOut, Idle, StopStage, JobsRun, ServiceTypeOK
<1>9. FewTimers'
  BY FS_RemoveElement DEF FewTimers
<1> QED BY <1>1, <1>2, <1>3, <1>4, <1>5, <1>6, <1>7, <1>8, <1>9

LEMMA HandlerDoneKeeps ==
  ASSUME ServiceInv, NEW w \in Workers, HandlerDone(w)
  PROVE  ServiceInv'
<1> USE DEF ServiceInv, HandlerDone, ioVars, ctlVars, thrVars, histVars
<1>0. /\ wpc' \in [Workers -> {"none", "starting", "loop", "run", "handler", "gone"}]
      /\ \A v \in Workers : wpc'[v] = IF v = w THEN "run" ELSE wpc[v]
  BY DEF ServiceTypeOK
<1>10. job[w] \in Handlers /\ job[w] # None
  BY DEF ServiceTypeOK, JobsRun
<1>11. /\ job' \in [Workers -> Handlers \cup {None}]
       /\ \A v \in Workers : job'[v] = IF v = w THEN None ELSE job[v]
  BY DEF ServiceTypeOK
<1>1. ServiceTypeOK'
  BY <1>0, <1>10, <1>11 DEF ServiceTypeOK, Idle
<1>2. CountExact'
  <2>1. Counted' = Counted
    BY <1>0 DEF Counted
  <2> QED BY <2>1 DEF CountExact
<1>3. OwnersKnown'
  BY DEF OwnersKnown
<1>4. BalanceStage'
  BY DEF BalanceStage, ServiceTypeOK
<1>5. StopStage'
  BY DEF StopStage, BalanceStage
<1>6. JobsRun'
  BY <1>0, <1>11 DEF JobsRun
<1>7. AddedKept'
  <2>1. ({job'[v] : v \in Workers} \ {None}) \cup {job[w]} = {job[v] : v \in Workers} \ {None}
    <3>1. \A v \in Workers : job[v] # None => v = w \/ job'[v] = job[v]
      BY <1>11
    <3>2. \A v \in Workers : job'[v] # None => job'[v] = job[v]
      BY <1>11
    <3> HIDE DEF HandlerDone
    <3> QED BY <1>10, <3>1, <3>2
  <2>2. UNCHANGED <<added, queue, timers>> /\ ran' = ran \cup {job[w]}
    OBVIOUS
  <2> HIDE DEF HandlerDone
  <2> QED BY <2>1, <2>2 DEF AddedKept
<1>8. PumpedOut'
  BY DEF PumpedOut, Idle, StopStage, JobsRun, ServiceTypeOK
<1>9. FewTimers'
  BY DEF FewTimers
<1> QED BY <1>1, <1>2, <1>3, <1>4, <1>5, <1>6, <1>7, <1>8, <1>9

LEMMA LeaveRunKeeps ==
  ASSUME ServiceInv, NEW w \in Workers, LeaveRun(w)
  PROVE  ServiceInv'
<1> USE DEF ServiceInv, LeaveRun, ioVars, ctlVars, thrVars, histVars, RunEnds
<1>1. ServiceTypeOK'
  BY DEF ServiceTypeOK
<1>2. CountExact'
  BY DEF CountExact, Counted
<1>3. OwnersKnown'
  BY DEF OwnersKnown
<1>4. BalanceStage'
  BY DEF BalanceStage, ServiceTypeOK
<1>5. StopStage'
  BY DEF StopStage, BalanceStage
<1>6. JobsRun'
  BY DEF JobsRun
<1>7. AddedKept'
  BY DEF AddedKept
<1>8. PumpedOut'
  BY DEF PumpedOut, Idle, StopStage, JobsRun, ServiceTypeOK
<1>9. FewTimers'
  BY DEF FewTimers
<1> QED BY <1>1, <1>2, <1>3, <1>4, <1>5, <1>6, <1>7, <1>8, <1>9

LEMMA ThreadStopKeeps ==
  ASSUME ServiceInv, NEW w \in Workers, ThreadStop(w)
  PROVE  ServiceInv'
<1> USE DEF ServiceInv, ThreadStop, ioVars, ctlVars, thrVars, histVars, CountedOut
<1>0. /\ wpc' \in [Workers -> {"none", "starting", "loop", "run", "handler", "gone"}]
      /\ \A v \in Workers : wpc'[v] = IF v = w THEN "gone" ELSE wpc[v]
  BY DEF ServiceTypeOK
<1>10. Counted' = Counted \ {w} /\ w \in Counted
  BY <1>0 DEF Counted
<1>11. CountExact'
  BY <1>10, CountedFinite, FS_RemoveElement DEF CountExact
<1>12. amount' \in 0 .. Cardinality(Workers)
  <2>1. IsFiniteSet(Counted') /\ Counted' \subseteq Workers
    BY <1>10, CountedFinite, FS_RemoveElement
  <2> QED BY <1>11, <2>1, ServiceAssumption, FS_Subset, FS_CardinalityType DEF CountExact
<1>1. ServiceTypeOK'
  BY <1>0, <1>12 DEF ServiceTypeOK
<1>2. CountExact'
  BY <1>11
<1>3. OwnersKnown'
  BY DEF OwnersKnown
<1>4. BalanceStage'
  BY DEF BalanceStage, ServiceTypeOK
<1>5. StopStage'
  BY DEF StopStage, BalanceStage
<1>6. JobsRun'
  BY DEF JobsRun
<1>7. AddedKept'
  BY DEF AddedKept
<1>8. PumpedOut'
  BY DEF PumpedOut, Idle, StopStage, JobsRun, ServiceTypeOK
<1>9. FewTimers'
  BY DEF FewTimers
<1> QED BY <1>1, <1>2, <1>3, <1>4, <1>5, <1>6, <1>7, <1>8, <1>9

-----------------------------------------------------------------------------
LEMMA ServiceStarts == ServiceInit => ServiceInv
<1> SUFFICES ASSUME ServiceInit PROVE ServiceInv
  OBVIOUS
<1> USE DEF ServiceInit
<1>1. IsFiniteSet({}) /\ Cardinality({}) = 0
  BY FS_EmptySet
<1>2. ServiceTypeOK
  <2>1. amount \in 0 .. Cardinality(Workers) /\ balances \in 0 .. MaxBalance
    BY ServiceAssumption, FS_CardinalityType
  <2>2. queue \in Seq(Handlers)
    BY EmptySeq
  <2>3. job \in [Workers -> Handlers \cup {None}] /\ stop \in [Workers -> BOOLEAN]
    OBVIOUS
  <2>4. wpc \in [Workers -> {"none", "starting", "loop", "run", "handler", "gone"}]
    OBVIOUS
  <2> QED BY <2>1, <2>2, <2>3, <2>4 DEF ServiceTypeOK
<1>3. Counted = {}
  BY DEF Counted
<1>4. AddedKept
  BY ElementsEmpty DEF AddedKept
<1>5. CountExact /\ OwnersKnown /\ BalanceStage /\ StopStage /\ JobsRun /\ FewTimers /\ PumpedOut
  BY <1>1, <1>3 DEF CountExact, OwnersKnown, BalanceStage, StopStage, JobsRun, FewTimers, PumpedOut
<1> QED BY <1>2, <1>4, <1>5 DEF ServiceInv

LEMMA ServiceNextKeeps == ServiceInv /\ [ServiceNext]_serviceVars => ServiceInv'
<1> SUFFICES ASSUME ServiceInv, [ServiceNext]_serviceVars PROVE ServiceInv'
  OBVIOUS
<1>1. CASE Control
  BY <1>1, ResizeKeeps, DropWorkKeeps, SignalWorkerKeeps, JoinWorkerKeeps, SetWorkKeeps, AwaitKeeps
     DEF Control
<1>2. ASSUME NEW w \in Workers, Thread(w) PROVE ServiceInv'
  BY <1>2, ThreadStartKeeps, EnterRunKeeps, RunOneKeeps, HandlerDoneKeeps, LeaveRunKeeps,
     ThreadStopKeeps DEF Thread
<1>3. CASE UNCHANGED serviceVars
  BY <1>3 DEF serviceVars, ioVars, ctlVars, thrVars, histVars, ServiceInv, ServiceTypeOK, CountExact,
     Counted, OwnersKnown, BalanceStage, StopStage, JobsRun, AddedKept, FewTimers, PumpedOut, Idle
<1> QED BY <1>1, <1>2, <1>3, StartKeeps, RebalanceKeeps, WaitSignalKeeps, SignalKeeps, StopKeeps,
           SpawnKeeps, TimeoutKeeps, ExpireKeeps DEF ServiceNext

(* What the invariant says where start, balance and stop have returned. *)
LEMMA OrderLeft == ServiceInv => CallsLeaveOrder
<1> SUFFICES ASSUME ServiceInv PROVE CallsLeaveOrder
  OBVIOUS
<1> USE DEF ServiceInv
<1>1. ThreadsAccounted
  <2> SUFFICES ASSUME ctl \in {"new", "up", "down"}
               PROVE  Live = workers /\ amount = Cardinality(workers)
    BY DEF ThreadsAccounted
  <2>1. amount = Cardinality(workers) /\ stopping = {}
    BY DEF BalanceStage
  <2>2. Live = workers
    BY <2>1 DEF BalanceStage, OwnersKnown, Live, ServiceTypeOK
  <2> QED BY <2>1, <2>2
<1>2. StopDrains
  <2> SUFFICES ASSUME ctl = "down", pumping PROVE ran = added /\ "onStop" \in ran
    BY DEF StopDrains
  <2>1. call = "stop" /\ workers = {} /\ "onStop" \in added
    BY DEF StopStage
  <2>2. \A w \in Workers : wpc[w] \notin {"run", "handler"}
    BY <2>1 DEF BalanceStage, OwnersKnown
  <2>3. Idle(work, job)
    BY <2>2 DEF PumpedOut
  <2>4. timers = {} /\ Elements(queue) = {} /\ {job[w] : w \in Workers} \ {None} = {}
    BY <2>3, ElementsEmpty DEF Idle
  <2> QED BY <2>1, <2>4 DEF AddedKept
<1> QED BY <1>1, <1>2 DEF CallsLeaveOrder

(* When start, balance or stop returns, the threads that live are those of *)
(* _workers, each counted, and a stop that found a worker pumping has run  *)
(* every handler and timeout: for any number of threads, jobs and calls of *)
(* balance.                                                                *)
THEOREM CallsLeaveOrderAlways == ServiceSpec => []CallsLeaveOrder
<1> QED BY ServiceStarts, ServiceNextKeeps, OrderLeft, PTL DEF ServiceSpec

=============================================================================
