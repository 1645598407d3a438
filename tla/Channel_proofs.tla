--------------------------- MODULE Channel_proofs ---------------------------
(* Proofs about what goes over a connection.  Channel: types, one send_f   *)
(* at a time on the socket, and the order of the packets on the wire.      *)
(* HandlerFs: the files a client gets or is told to keep are current.      *)
EXTENDS Channel, HandlerFs, WellFoundedInduction, SequenceTheorems, TLAPS

(* A packet that was not sent yet has spawned no send_f, and a send_f that *)
(* writes has a packet.                                                    *)
NotSpawned ==
    /\ \A p \in Packets : res[p] = "none" => spc[p] = "none"
    /\ \A f \in Packets : spc[f] = "write" => cur[f] \in Packets

IInv == TypeOK /\ NotSpawned /\ OneWriter

LEMMA InitIInv == Init => IInv
<1> SUFFICES ASSUME Init PROVE IInv
  OBVIOUS
<1>1. TypeOK
  <2>1. sends \in Seq(Packets \ Gathered) /\ sendsIOV \in Seq(Gathered)
    BY DEF Init
  <2>2. receives \in Seq(Nat) /\ calls \in Seq(Packets)
    BY DEF Init
  <2>3. sendInProcess \in BOOLEAN /\ isOpen \in BOOLEAN /\ readFailed \in BOOLEAN
    BY DEF Init
  <2>4. asked \in Nat /\ read \in Nat /\ left \in [Reads -> Nat]
    BY DEF Init
  <2>5. spc \in [Packets -> {"none", "spawned", "loop", "write", "failed"}]
    BY DEF Init
  <2>6. cur \in [Packets -> Packets \cup {None}]
    BY DEF Init
  <2>7. res \in [Packets -> {"none", "pending", "ok", "error"}]
    BY DEF Init
  <2>8. rpc \in [Reads -> {"none", "loop", "read", "single", "done"}]
    BY DEF Init
  <2> QED BY <2>1, <2>2, <2>3, <2>4, <2>5, <2>6, <2>7, <2>8 DEF TypeOK
<1>2. AtWork = {}
  BY DEF Init, AtWork
<1>3. OneWriter
  BY <1>2 DEF Init, OneWriter
<1>4. NotSpawned
  BY DEF Init, NotSpawned
<1> QED BY <1>1, <1>3, <1>4 DEF IInv

(* send touches no send_f that is at work. *)
LEMMA SendKeeps ==
  ASSUME IInv, NEW p \in Packets, Send(p)
  PROVE  IInv'
<1> USE DEF Queue
<1>1. sends' \in Seq(Packets \ Gathered) /\ sendsIOV' \in Seq(Gathered)
  BY DEF IInv, TypeOK, Send
<1>2. calls' \in Seq(Packets)
  BY DEF IInv, TypeOK, Send
<1>3. spc[p] = "none"
  BY DEF IInv, NotSpawned, Send
<1>4. spc' \in [Packets -> {"none", "spawned", "loop", "write", "failed"}]
  BY DEF IInv, TypeOK, Send
<1>5. TypeOK'
  BY <1>1, <1>2, <1>4 DEF IInv, TypeOK, Send, receiveVars
<1>6. AtWork' = AtWork
  BY <1>3 DEF IInv, TypeOK, Send, AtWork
<1>7. OneWriter'
  BY <1>6 DEF IInv, OneWriter, Send
<1>8. NotSpawned'
  BY <1>3 DEF IInv, TypeOK, NotSpawned, Send
<1> QED BY <1>5, <1>7, <1>8 DEF IInv

(* A send_f that starts finds nobody at work, or leaves; one in its loop   *)
(* is the only one.                                                        *)
LEMMA TakeSendKeeps ==
  ASSUME IInv, NEW f \in Packets, TakeSend(f)
  PROVE  IInv'
<1> USE DEF Busy
<1>1. TypeOK'
  <2>1. CASE Busy(f)
    BY <2>1 DEF IInv, TypeOK, TakeSend, receiveVars
  <2>2. CASE ~Busy(f) /\ sends # <<>>
    <3>1. Head(sends) \in Packets /\ Tail(sends) \in Seq(Packets \ Gathered)
      BY <2>2 DEF IInv, TypeOK
    <3> QED BY <2>2, <3>1 DEF IInv, TypeOK, TakeSend, receiveVars
  <2>3. CASE ~Busy(f) /\ sends = <<>> /\ sendsIOV # <<>>
    <3>1. Head(sendsIOV) \in Packets /\ Tail(sendsIOV) \in Seq(Gathered)
      BY <2>3, ChannelAssumption DEF IInv, TypeOK
    <3> QED BY <2>3, <3>1 DEF IInv, TypeOK, TakeSend, receiveVars
  <2>4. CASE ~Busy(f) /\ sends = <<>> /\ sendsIOV = <<>>
    BY <2>4 DEF IInv, TypeOK, TakeSend, receiveVars
  <2> QED BY <2>1, <2>2, <2>3, <2>4
<1>2. NotSpawned'
  <2>1. res' = res
    BY DEF TakeSend
  <2>2. sends # <<>> => Head(sends) \in Packets
    BY DEF IInv, TypeOK
  <2>3. sendsIOV # <<>> => Head(sendsIOV) \in Packets
    BY ChannelAssumption DEF IInv, TypeOK
  <2>4. spc[f] \in {"spawned", "loop"}
    BY DEF TakeSend
  <2> QED BY <2>1, <2>2, <2>3, <2>4 DEF IInv, TypeOK, NotSpawned, TakeSend
<1>3. OneWriter'
  <2>1. CASE Busy(f)
    <3>1. AtWork' = AtWork
      BY <2>1 DEF IInv, TypeOK, TakeSend, AtWork
    <3> QED BY <2>1, <3>1 DEF IInv, OneWriter, TakeSend
  <2>2. CASE ~Busy(f)
    <3>1. AtWork \subseteq {f}
      BY <2>2 DEF IInv, TypeOK, OneWriter, TakeSend, AtWork
    <3>2. CASE spc'[f] = "write"
      <4>1. AtWork' = {f}
        BY <2>2, <3>1, <3>2 DEF IInv, TypeOK, TakeSend, AtWork
      <4>2. sendInProcess'
        BY <2>2, <3>2 DEF IInv, TypeOK, TakeSend
      <4> QED BY <4>1, <4>2 DEF OneWriter
    <3>3. CASE spc'[f] = "none"
      <4>1. AtWork' = {}
        BY <2>2, <3>1, <3>3 DEF IInv, TypeOK, TakeSend, AtWork
      <4>2. ~sendInProcess'
        BY <2>2, <3>3 DEF IInv, TypeOK, TakeSend
      <4> QED BY <4>1, <4>2 DEF OneWriter
    <3> QED BY <2>2, <3>2, <3>3 DEF IInv, TypeOK, TakeSend
  <2> QED BY <2>1, <2>2
<1> QED BY <1>1, <1>2, <1>3 DEF IInv

LEMMA WrittenKeeps ==
  ASSUME IInv, NEW f \in Packets, Written(f) \/ WriteFailed(f)
  PROVE  IInv'
<1>1. TypeOK'
  BY DEF IInv, TypeOK, Written, WriteFailed, receiveVars
<1>2. NotSpawned'
  BY DEF IInv, TypeOK, NotSpawned, Written, WriteFailed
<1>3. AtWork' = AtWork
  BY DEF IInv, TypeOK, Written, WriteFailed, AtWork
<1>4. OneWriter'
  BY <1>3 DEF IInv, OneWriter, Written, WriteFailed
<1> QED BY <1>1, <1>2, <1>4 DEF IInv

LEMMA GiveUpKeeps ==
  ASSUME IInv, NEW f \in Packets, GiveUp(f)
  PROVE  IInv'
<1>1. TypeOK'
  BY DEF IInv, TypeOK, GiveUp, receiveVars
<1>2. NotSpawned'
  BY DEF IInv, TypeOK, NotSpawned, GiveUp
<1>3. AtWork = {f}
  BY DEF IInv, TypeOK, OneWriter, GiveUp, AtWork
<1>4. AtWork' = {}
  BY <1>3 DEF IInv, TypeOK, GiveUp, AtWork
<1>5. OneWriter'
  BY <1>4 DEF OneWriter, GiveUp
<1> QED BY <1>1, <1>2, <1>5 DEF IInv

(* The receiving side and close. *)
LEMMA ReceivingKeeps ==
  ASSUME IInv, sendVars' = sendVars,
         \/ \E l \in Reads : ReceiveStep(l) \/ Receive(l) \/ \E n \in Amounts : Listen(l, n)
         \/ Close
         \/ UNCHANGED <<receiveVars, isOpen>>
  PROVE  IInv'
<1>1. NotSpawned' /\ OneWriter'
  BY DEF IInv, NotSpawned, OneWriter, AtWork, sendVars
<1>2. TypeOK'
  <2>1. CASE UNCHANGED <<receiveVars, isOpen>> \/ Close
    BY <2>1 DEF IInv, TypeOK, sendVars, receiveVars, Close
  <2>2. ASSUME NEW l \in Reads, NEW n \in Amounts, Listen(l, n) PROVE TypeOK'
    <3>1. n \in Nat /\ receives' \in Seq(Nat)
      BY <2>2, ChannelAssumption DEF IInv, TypeOK, Listen, Queue
    <3> QED BY <2>2, <3>1 DEF IInv, TypeOK, Listen, sendVars
  <2>3. ASSUME NEW l \in Reads, TakeReceive(l) PROVE TypeOK'
    <3>1. receives # <<>> => Head(receives) \in Nat /\ Tail(receives) \in Seq(Nat)
      BY DEF IInv, TypeOK
    <3> QED BY <2>3, <3>1 DEF IInv, TypeOK, TakeReceive, sendVars
  <2>4. ASSUME NEW l \in Reads, StartRead(l) PROVE TypeOK'
    BY <2>4 DEF IInv, TypeOK, StartRead, HasReads, sendVars
  <2>5. ASSUME NEW l \in Reads, \/ ReadDone(l) \/ ReadFailed(l)
                                \/ Receive(l) \/ Received(l)
        PROVE  TypeOK'
    <3>1. readFailed' \in BOOLEAN
      BY <2>5 DEF IInv, TypeOK, ReadDone, ReadFailed, Receive, Received
    <3>2. asked' \in Nat /\ read' \in Nat
      BY <2>5 DEF IInv, TypeOK, ReadDone, ReadFailed, Receive, Received
    <3>3. rpc' \in [Reads -> {"none", "loop", "read", "single", "done"}]
      BY <2>5 DEF IInv, TypeOK, ReadDone, ReadFailed, Receive, Received
    <3>4. UNCHANGED <<receives, left, isOpen>>
      BY <2>5 DEF ReadDone, ReadFailed, Receive, Received
    <3> QED BY <3>1, <3>2, <3>3, <3>4 DEF IInv, TypeOK, sendVars
  <2> QED BY <2>1, <2>2, <2>3, <2>4, <2>5 DEF ReceiveStep
<1> QED BY <1>1, <1>2 DEF IInv

LEMMA NextIInv == IInv /\ [Next]_vars => IInv'
<1> SUFFICES ASSUME IInv, [Next]_vars PROVE IInv'
  OBVIOUS
<1>1. ASSUME NEW p \in Packets, Send(p) \/ SendStep(p) PROVE IInv'
  BY <1>1, SendKeeps, TakeSendKeeps, WrittenKeeps, GiveUpKeeps DEF SendStep
<1>2. ASSUME NEW l \in Reads, ReceiveStep(l) \/ Receive(l) \/ \E n \in Amounts : Listen(l, n)
      PROVE  IInv'
  <2>1. sendVars' = sendVars
    BY <1>2 DEF ReceiveStep, TakeReceive, StartRead, ReadDone, ReadFailed, Received,
                Receive, Listen
  <2> QED BY <1>2, <2>1, ReceivingKeeps
<1>3. CASE Close \/ UNCHANGED vars
  <2>1. sendVars' = sendVars
    BY <1>3 DEF Close, vars
  <2> QED BY <1>3, <2>1, ReceivingKeeps DEF vars
<1> QED BY <1>1, <1>2, <1>3 DEF Next

(* The members of Channel keep their types. *)
THEOREM TypeCorrect == Spec => []TypeOK
<1>1. IInv => TypeOK
  BY DEF IInv
<1> QED BY <1>1, InitIInv, NextIInv, PTL DEF Spec

(* At most one send_f is between its first packet and its exit, and        *)
(* _sendInProcess says exactly when one is, for any number of packets and  *)
(* whatever writes fail: Channel::send never mixes two writes.             *)
THEOREM SingleWriter == Spec => []OneWriter
<1>1. IInv => OneWriter
  BY DEF IInv
<1> QED BY <1>1, InitIInv, NextIInv, PTL DEF Spec
-----------------------------------------------------------------------------
(* The order on the wire. *)

(* p was sent before q. *)
Before(p, q) == \E i, j \in 1 .. Len(calls) : i < j /\ calls[i] = p /\ calls[j] = q

Queued(q, p) == \E i \in 1 .. Len(q) : q[i] = p
InOrder(q) == \A i, j \in 1 .. Len(q) : i < j => Before(q[i], q[j])

(* A packet is sent once, and its future is there from then on. *)
CallsExact ==
    /\ \A i, j \in 1 .. Len(calls) : calls[i] = calls[j] => i = j
    /\ \A p \in Packets : res[p] # "none" <=> Queued(calls, p)

(* The queues hold packets in the order in which they were sent. *)
QueuesInOrder ==
    /\ \A p \in Packets : Queued(sends, p) \/ Queued(sendsIOV, p) => res[p] # "none"
    /\ InOrder(sends) /\ InOrder(sendsIOV)

(* What a send_f writes was sent, before everything of its kind in the     *)
(* queue.                                                                  *)
WriterFirst ==
    \A f \in Packets : spc[f] = "write" =>
      /\ res[cur[f]] # "none"
      /\ \A p \in Packets :
           /\ cur[f] \in Gathered /\ Queued(sendsIOV, p) => Before(cur[f], p)
           /\ cur[f] \notin Gathered /\ Queued(sends, p) => Before(cur[f], p)

(* A packet whose future is not set is in a queue, or being written. *)
PendingKept ==
    \A p \in Packets : res[p] = "pending" =>
      \/ Queued(sends, p) \/ Queued(sendsIOV, p)
      \/ \E f \in Packets : spc[f] = "write" /\ cur[f] = p

OrderInv == IInv /\ CallsExact /\ QueuesInOrder /\ WriterFirst /\ PendingKept

LEMMA AppendQueued ==
  ASSUME NEW S, NEW q \in Seq(S), NEW p \in S, NEW x
  PROVE  Queued(Append(q, p), x) <=> Queued(q, x) \/ x = p
<1>1. /\ Len(Append(q, p)) = Len(q) + 1 /\ Len(q) \in Nat
      /\ \A i \in 1 .. Len(q) : Append(q, p)[i] = q[i]
      /\ Append(q, p)[Len(q) + 1] = p
  OBVIOUS
<1>2. ASSUME NEW i \in 1 .. Len(Append(q, p)), Append(q, p)[i] = x
      PROVE  Queued(q, x) \/ x = p
  <2>1. i \in 1 .. Len(q) \/ i = Len(q) + 1
    BY <1>1
  <2> QED BY <1>1, <1>2, <2>1 DEF Queued
<1>3. ASSUME NEW i \in 1 .. Len(q), q[i] = x
      PROVE  Queued(Append(q, p), x)
  <2>1. i \in 1 .. Len(Append(q, p)) /\ Append(q, p)[i] = x
    BY <1>1, <1>3
  <2> QED BY <2>1 DEF Queued
<1>4. x = p => Queued(Append(q, p), x)
  <2>1. Len(q) + 1 \in 1 .. Len(Append(q, p))
    BY <1>1
  <2> QED BY <1>1, <2>1 DEF Queued
<1> QED BY <1>2, <1>3, <1>4 DEF Queued

LEMMA TailQueued ==
  ASSUME NEW S, NEW q \in Seq(S), q # <<>>
  PROVE  /\ Queued(q, Head(q))
         /\ \A x : Queued(q, x) <=> x = Head(q) \/ Queued(Tail(q), x)
<1>1. /\ Len(q) \in Nat \ {0} /\ Head(q) = q[1] /\ Len(Tail(q)) = Len(q) - 1
      /\ \A i \in 1 .. Len(q) - 1 : Tail(q)[i] = q[i + 1]
  OBVIOUS
<1>2. Queued(q, Head(q))
  <2>1. 1 \in 1 .. Len(q)
    BY <1>1
  <2> QED BY <1>1, <2>1 DEF Queued
<1>3. ASSUME NEW x, NEW i \in 1 .. Len(q), q[i] = x
      PROVE  x = Head(q) \/ Queued(Tail(q), x)
  <2>1. CASE i = 1
    BY <1>1, <1>3, <2>1
  <2>2. CASE i # 1
    <3>1. i - 1 \in 1 .. Len(Tail(q)) /\ (i - 1) + 1 = i
      BY <1>1, <2>2
    <3>2. Tail(q)[i - 1] = x
      BY <1>1, <1>3, <3>1
    <3> QED BY <3>1, <3>2 DEF Queued
  <2> QED BY <2>1, <2>2
<1>4. ASSUME NEW x, NEW i \in 1 .. Len(Tail(q)), Tail(q)[i] = x
      PROVE  Queued(q, x)
  <2>1. i + 1 \in 1 .. Len(q) /\ q[i + 1] = x
    BY <1>1, <1>4
  <2> QED BY <2>1 DEF Queued
<1> QED BY <1>2, <1>3, <1>4 DEF Queued

LEMMA TailInOrder ==
  ASSUME NEW S, NEW q \in Seq(S), q # <<>>, InOrder(q)
  PROVE  /\ InOrder(Tail(q))
         /\ \A x : Queued(Tail(q), x) => Before(Head(q), x)
<1>1. /\ Len(q) \in Nat \ {0} /\ Head(q) = q[1] /\ Len(Tail(q)) = Len(q) - 1
      /\ \A i \in 1 .. Len(q) - 1 : Tail(q)[i] = q[i + 1]
  OBVIOUS
<1>2. ASSUME NEW i \in 1 .. Len(Tail(q)), NEW j \in 1 .. Len(Tail(q)), i < j
      PROVE  Before(Tail(q)[i], Tail(q)[j])
  <2>1. i + 1 \in 1 .. Len(q) /\ j + 1 \in 1 .. Len(q) /\ i + 1 < j + 1
    BY <1>1, <1>2
  <2>2. Before(q[i + 1], q[j + 1])
    BY <2>1 DEF InOrder
  <2> QED BY <1>1, <2>2
<1>3. ASSUME NEW i \in 1 .. Len(Tail(q)) PROVE Before(Head(q), Tail(q)[i])
  <2>1. 1 \in 1 .. Len(q) /\ i + 1 \in 1 .. Len(q) /\ 1 < i + 1
    BY <1>1
  <2>2. Before(q[1], q[i + 1])
    BY <2>1 DEF InOrder
  <2> QED BY <1>1, <2>2
<1> QED BY <1>2, <1>3 DEF InOrder, Queued

(* send puts a packet after all that were sent before. *)
LEMMA CallAppended ==
  ASSUME calls \in Seq(Packets), NEW p \in Packets, calls' = Append(calls, p)
  PROVE  /\ \A x, y : Before(x, y) => Before(x, y)'
         /\ \A x : Queued(calls, x) => Before(x, p)'
<1>1. /\ Len(calls') = Len(calls) + 1 /\ Len(calls) \in Nat
      /\ \A i \in 1 .. Len(calls) : calls'[i] = calls[i]
      /\ calls'[Len(calls) + 1] = p
  OBVIOUS
<1>2. ASSUME NEW x, NEW y, Before(x, y) PROVE Before(x, y)'
  <2>1. PICK i, j \in 1 .. Len(calls) : i < j /\ calls[i] = x /\ calls[j] = y
    BY <1>2 DEF Before
  <2>2. /\ i \in 1 .. Len(calls') /\ j \in 1 .. Len(calls')
        /\ i < j /\ calls'[i] = x /\ calls'[j] = y
    BY <1>1, <2>1
  <2> QED BY <2>2 DEF Before
<1>3. ASSUME NEW x, Queued(calls, x) PROVE Before(x, p)'
  <2>1. PICK i \in 1 .. Len(calls) : calls[i] = x
    BY <1>3 DEF Queued
  <2>2. /\ i \in 1 .. Len(calls') /\ Len(calls) + 1 \in 1 .. Len(calls')
        /\ i < Len(calls) + 1 /\ calls'[i] = x /\ calls'[Len(calls) + 1] = p
    BY <1>1, <2>1
  <2> QED BY <2>2 DEF Before
<1> QED BY <1>2, <1>3

(* A queue that send appends to, or leaves alone, stays in order. *)
LEMMA AppendInOrder ==
  ASSUME calls \in Seq(Packets), NEW p \in Packets, calls' = Append(calls, p),
         NEW S \in SUBSET Packets, p \in S, NEW q \in Seq(S), InOrder(q),
         \A x : Queued(q, x) => Queued(calls, x)
  PROVE  /\ \A i, j \in 1 .. Len(q) : i < j => Before(q[i], q[j])'
         /\ \A i, j \in 1 .. Len(Append(q, p)) :
              i < j => Before(Append(q, p)[i], Append(q, p)[j])'
<1>1. /\ Len(Append(q, p)) = Len(q) + 1 /\ Len(q) \in Nat
      /\ \A i \in 1 .. Len(q) : Append(q, p)[i] = q[i]
      /\ Append(q, p)[Len(q) + 1] = p
  OBVIOUS
<1>2. \A i, j \in 1 .. Len(q) : i < j => Before(q[i], q[j])'
  BY CallAppended DEF InOrder
<1>3. \A i \in 1 .. Len(q) : Before(q[i], p)'
  BY CallAppended DEF Queued
<1>4. ASSUME NEW i \in 1 .. Len(Append(q, p)), NEW j \in 1 .. Len(Append(q, p)), i < j
      PROVE  Before(Append(q, p)[i], Append(q, p)[j])'
  <2>1. i \in 1 .. Len(q) /\ Append(q, p)[i] = q[i]
    BY <1>1, <1>4
  <2>2. CASE j \in 1 .. Len(q)
    BY <1>1, <1>2, <1>4, <2>1, <2>2
  <2>3. CASE j = Len(q) + 1
    BY <1>1, <1>3, <2>1, <2>3
  <2> QED BY <1>1, <2>2, <2>3
<1> QED BY <1>2, <1>4

(* Before is a strict order as long as no packet is sent twice. *)
LEMMA BeforeStrict ==
  ASSUME calls \in Seq(Packets), CallsExact, NEW p, NEW q, Before(p, q)
  PROVE  p # q /\ ~Before(q, p)
<1>1. PICK i, j \in 1 .. Len(calls) : i < j /\ calls[i] = p /\ calls[j] = q
  BY DEF Before
<1>2. p # q
  BY <1>1 DEF CallsExact
<1>3. ASSUME NEW k \in 1 .. Len(calls), NEW l \in 1 .. Len(calls),
             k < l, calls[k] = q, calls[l] = p
      PROVE  FALSE
  <2>1. k = j /\ l = i
    BY <1>1, <1>3 DEF CallsExact
  <2> QED BY <1>1, <1>3, <2>1
<1> QED BY <1>2, <1>3 DEF Before

LEMMA InitOrder == Init => OrderInv
<1> SUFFICES ASSUME Init PROVE OrderInv
  OBVIOUS
<1>1. sends = <<>> /\ sendsIOV = <<>> /\ calls = <<>>
  BY DEF Init
<1>2. \A p : ~Queued(<<>>, p)
  BY DEF Queued
<1>3. InOrder(<<>>)
  BY DEF InOrder
<1>4. CallsExact
  BY <1>1, <1>2 DEF Init, CallsExact
<1>5. QueuesInOrder
  BY <1>1, <1>2, <1>3 DEF QueuesInOrder
<1>6. WriterFirst /\ PendingKept
  BY DEF Init, WriterFirst, PendingKept
<1> QED BY <1>4, <1>5, <1>6, InitIInv DEF OrderInv

(* WriterFirst of the next state, with a name for what a send_f writes. *)
LEMMA WriterFirstNext ==
  ASSUME \A f \in Packets : \A c :
           spc'[f] = "write" /\ c = cur'[f] =>
             /\ res'[c] # "none"
             /\ \A x \in Packets :
                  /\ c \in Gathered /\ Queued(sendsIOV', x) => Before(c, x)'
                  /\ c \notin Gathered /\ Queued(sends', x) => Before(c, x)'
  PROVE  WriterFirst'
<1>1. ASSUME NEW f \in Packets, spc'[f] = "write"
      PROVE  /\ res'[cur'[f]] # "none"
             /\ \A x \in Packets :
                  /\ cur'[f] \in Gathered /\ Queued(sendsIOV', x) =>
                       \E i, j \in 1 .. Len(calls') : i < j /\ calls'[i] = cur'[f] /\ calls'[j] = x
                  /\ cur'[f] \notin Gathered /\ Queued(sends', x) =>
                       \E i, j \in 1 .. Len(calls') : i < j /\ calls'[i] = cur'[f] /\ calls'[j] = x
  <2>1. PICK c : c = cur'[f]
    OBVIOUS
  <2> QED BY <1>1, <2>1 DEF Before
<1> QED BY <1>1 DEF WriterFirst, Before, Queued

LEMMA SendOrder ==
  ASSUME OrderInv, NEW p \in Packets, Send(p)
  PROVE  /\ CallsExact' /\ QueuesInOrder' /\ WriterFirst' /\ PendingKept'
         /\ \A x \in Packets : Queued(calls, x) => res'[x] = res[x]
<1>1. /\ calls \in Seq(Packets) /\ calls' = Append(calls, p)
      /\ res \in [Packets -> {"none", "pending", "ok", "error"}]
      /\ res[p] = "none" /\ res' = [res EXCEPT ![p] = "pending"] /\ cur' = cur
      /\ sends \in Seq(Packets \ Gathered) /\ sendsIOV \in Seq(Gathered)
  BY DEF OrderInv, IInv, TypeOK, Send
<1>2. ~Queued(calls, p)
  BY <1>1 DEF OrderInv, CallsExact
<1>3. \A x : Queued(calls', x) <=> Queued(calls, x) \/ x = p
  BY <1>1, AppendQueued
<1>4. CallsExact'
  <2>1. /\ Len(calls') = Len(calls) + 1 /\ Len(calls) \in Nat
        /\ \A i \in 1 .. Len(calls) : calls'[i] = calls[i] /\ calls'[i] # p
        /\ calls'[Len(calls) + 1] = p
    BY <1>1, <1>2 DEF Queued
  <2>2. ASSUME NEW i \in 1 .. Len(calls'), NEW j \in 1 .. Len(calls'), calls'[i] = calls'[j]
        PROVE  i = j
    <3>1. CASE i \in 1 .. Len(calls) /\ j \in 1 .. Len(calls)
      BY <2>1, <2>2, <3>1 DEF OrderInv, CallsExact
    <3>2. CASE i = Len(calls) + 1
      BY <2>1, <2>2, <3>2
    <3>3. CASE j = Len(calls) + 1
      BY <2>1, <2>2, <3>3
    <3> QED BY <2>1, <3>1, <3>2, <3>3
  <2>3. \A x \in Packets : res'[x] # "none" <=> Queued(calls', x)
    BY <1>1, <1>3 DEF OrderInv, CallsExact
  <2> QED BY <2>2, <2>3 DEF CallsExact
<1>5. \A x : Queued(sends, x) \/ Queued(sendsIOV, x) => x \in Packets /\ Queued(calls, x)
  <2>1. \A x : Queued(sends, x) \/ Queued(sendsIOV, x) => x \in Packets
    <3>1. \A i \in 1 .. Len(sends) : sends[i] \in Packets
      BY <1>1
    <3>2. \A i \in 1 .. Len(sendsIOV) : sendsIOV[i] \in Packets
      BY <1>1, ChannelAssumption
    <3> QED BY <3>1, <3>2 DEF Queued
  <2> QED BY <2>1 DEF OrderInv, QueuesInOrder, CallsExact
<1>6. /\ \A x, y : Before(x, y) => Before(x, y)'
      /\ \A x : Queued(calls, x) => Before(x, p)'
  BY <1>1, CallAppended
<1>7. \A x : Queued(sends', x) <=> Queued(sends, x) \/ (x = p /\ p \notin Gathered)
  <2>1. CASE p \in Gathered
    BY <2>1 DEF Send
  <2>2. CASE p \notin Gathered
    <3>1. sends' = Append(sends, p) /\ p \in Packets \ Gathered
      BY <2>2 DEF Send, Queue
    <3> QED BY <1>1, <2>2, <3>1, AppendQueued
  <2> QED BY <2>1, <2>2
<1>8. \A x : Queued(sendsIOV', x) <=> Queued(sendsIOV, x) \/ (x = p /\ p \in Gathered)
  <2>1. CASE p \in Gathered
    <3>1. sendsIOV' = Append(sendsIOV, p)
      BY <2>1 DEF Send, Queue
    <3> QED BY <1>1, <2>1, <3>1, AppendQueued
  <2>2. CASE p \notin Gathered
    BY <2>2 DEF Send
  <2> QED BY <2>1, <2>2
<1>9. QueuesInOrder'
  <2>1. \A x \in Packets : Queued(sends', x) \/ Queued(sendsIOV', x) => res'[x] # "none"
    BY <1>1, <1>7, <1>8 DEF OrderInv, QueuesInOrder
  <2>2. InOrder(sends)'
    <3>1. CASE p \in Gathered
      <4>1. sends' = sends
        BY <3>1 DEF Send
      <4> QED BY <1>6, <4>1 DEF OrderInv, QueuesInOrder, InOrder
    <3>2. CASE p \notin Gathered
      <4>1. sends' = Append(sends, p) /\ p \in Packets \ Gathered
        BY <3>2 DEF Send, Queue
      <4>2. PICK q : q = sends
        OBVIOUS
      <4>3. /\ q \in Seq(Packets \ Gathered) /\ InOrder(q)
            /\ \A x : Queued(q, x) => Queued(calls, x)
        BY <1>1, <1>5, <4>2 DEF OrderInv, QueuesInOrder
      <4>4. \A i, j \in 1 .. Len(Append(q, p)) :
              i < j => Before(Append(q, p)[i], Append(q, p)[j])'
        BY <1>1, <4>1, <4>3, AppendInOrder
      <4> QED BY <4>1, <4>2, <4>4 DEF InOrder
    <3> QED BY <3>1, <3>2
  <2>3. InOrder(sendsIOV)'
    <3>1. CASE p \notin Gathered
      <4>1. sendsIOV' = sendsIOV
        BY <3>1 DEF Send
      <4> QED BY <1>6, <4>1 DEF OrderInv, QueuesInOrder, InOrder
    <3>2. CASE p \in Gathered
      <4>1. sendsIOV' = Append(sendsIOV, p) /\ Gathered \subseteq Packets
        BY <3>2, ChannelAssumption DEF Send, Queue
      <4>2. PICK q : q = sendsIOV
        OBVIOUS
      <4>3. /\ q \in Seq(Gathered) /\ InOrder(q)
            /\ \A x : Queued(q, x) => Queued(calls, x)
        BY <1>1, <1>5, <4>2 DEF OrderInv, QueuesInOrder
      <4>4. \A i, j \in 1 .. Len(Append(q, p)) :
              i < j => Before(Append(q, p)[i], Append(q, p)[j])'
        BY <1>1, <3>2, <4>1, <4>3, AppendInOrder
      <4> QED BY <4>1, <4>2, <4>4 DEF InOrder
    <3> QED BY <3>1, <3>2
  <2> QED BY <2>1, <2>2, <2>3 DEF QueuesInOrder
<1>10. \A f \in Packets : spc'[f] = "write" <=> spc[f] = "write"
  BY DEF OrderInv, IInv, TypeOK, NotSpawned, Send
<1>11. \A f \in Packets : spc[f] = "write" => cur[f] \in Packets /\ Queued(calls, cur[f])
  BY DEF OrderInv, IInv, NotSpawned, WriterFirst, CallsExact
<1>12. WriterFirst'
  <2>1. ASSUME NEW f \in Packets, spc'[f] = "write", NEW c, c = cur[f]
        PROVE  /\ res'[c] # "none"
               /\ \A x \in Packets :
                    /\ c \in Gathered /\ Queued(sendsIOV', x) => Before(c, x)'
                    /\ c \notin Gathered /\ Queued(sends', x) => Before(c, x)'
    <3>1. spc[f] = "write" /\ Queued(calls, c) /\ c \in Packets
      BY <1>10, <1>11, <2>1
    <3>2. res'[c] # "none"
      BY <1>1, <2>1, <3>1 DEF OrderInv, WriterFirst
    <3>3. Before(c, p)'
      BY <1>6, <3>1
    <3> QED BY <1>6, <1>7, <1>8, <2>1, <3>1, <3>2, <3>3 DEF OrderInv, WriterFirst
  <2> QED BY <1>1, <2>1, WriterFirstNext
<1>13. PendingKept'
  <2>1. Queued(sends', p) \/ Queued(sendsIOV', p)
    BY <1>7, <1>8
  <2> QED BY <1>1, <1>7, <1>8, <1>10, <2>1 DEF OrderInv, PendingKept
<1>14. \A x \in Packets : Queued(calls, x) => res'[x] = res[x]
  BY <1>1, <1>2
<1> QED BY <1>4, <1>9, <1>12, <1>13, <1>14

(* The calls and the queues stay: what is before what stays too. *)
LEMMA SameOrder ==
  ASSUME calls' = calls
  PROVE  /\ \A x, y : Before(x, y)' <=> Before(x, y)
         /\ \A q : (\A i, j \in 1 .. Len(q) : i < j => Before(q[i], q[j])') <=> InOrder(q)
  BY DEF Before, InOrder

LEMMA TakeSendOrder ==
  ASSUME OrderInv, NEW f \in Packets, TakeSend(f)
  PROVE  CallsExact' /\ QueuesInOrder' /\ WriterFirst' /\ PendingKept'
<1>1. /\ calls' = calls /\ res' = res
      /\ spc \in [Packets -> {"none", "spawned", "loop", "write", "failed"}]
      /\ cur \in [Packets -> Packets \cup {None}]
      /\ sends \in Seq(Packets \ Gathered) /\ sendsIOV \in Seq(Gathered)
      /\ spc[f] \in {"spawned", "loop"}
  BY DEF OrderInv, IInv, TypeOK, TakeSend
<1>2. CallsExact'
  BY <1>1 DEF OrderInv, CallsExact, Queued
<1>3. CASE UNCHANGED <<sends, sendsIOV, cur>> /\ spc' = [spc EXCEPT ![f] = "none"]
  <2>1. QueuesInOrder'
    <3>1. InOrder(sends)' /\ InOrder(sendsIOV)'
      BY <1>1, <1>3, SameOrder DEF OrderInv, QueuesInOrder, InOrder
    <3>2. \A p \in Packets : Queued(sends', p) \/ Queued(sendsIOV', p) => res'[p] # "none"
      BY <1>1, <1>3 DEF OrderInv, QueuesInOrder
    <3> QED BY <3>1, <3>2 DEF QueuesInOrder
  <2>2. WriterFirst'
    BY <1>1, <1>3, SameOrder, WriterFirstNext DEF OrderInv, WriterFirst
  <2>3. PendingKept'
    BY <1>1, <1>3 DEF OrderInv, PendingKept, Queued
  <2> QED BY <1>2, <2>1, <2>2, <2>3
<1>4. ~Busy(f) => \A g \in Packets : spc[g] # "write"
  BY <1>1 DEF OrderInv, IInv, OneWriter, AtWork, Busy
<1>5. CASE /\ ~Busy(f) /\ sends # <<>> /\ sendsIOV' = sendsIOV
           /\ cur' = [cur EXCEPT ![f] = Head(sends)] /\ sends' = Tail(sends)
           /\ spc' = [spc EXCEPT ![f] = "write"]
  <2>1. /\ Queued(sends, Head(sends))
        /\ \A x : Queued(sends, x) <=> x = Head(sends) \/ Queued(sends', x)
    BY <1>1, <1>5, TailQueued
  <2>2. /\ InOrder(Tail(sends))
        /\ \A x : Queued(sends', x) => Before(Head(sends), x)
    BY <1>1, <1>5, TailInOrder DEF OrderInv, QueuesInOrder
  <2>3. QueuesInOrder'
    <3>1. InOrder(sends)' /\ InOrder(sendsIOV)'
      BY <1>1, <1>5, <2>2, SameOrder DEF OrderInv, QueuesInOrder, InOrder
    <3>2. \A p \in Packets : Queued(sends', p) \/ Queued(sendsIOV', p) => res'[p] # "none"
      BY <1>1, <1>5, <2>1 DEF OrderInv, QueuesInOrder
    <3> QED BY <3>1, <3>2 DEF QueuesInOrder
  <2>4. Head(sends) \in Packets \ Gathered
    BY <1>1, <1>5
  <2>5. WriterFirst'
    <3>1. \A g \in Packets : \A c : spc'[g] = "write" /\ c = cur'[g] => g = f /\ c = Head(sends)
      BY <1>1, <1>4, <1>5
    <3>2. res'[Head(sends)] # "none"
      BY <1>1, <2>1, <2>4 DEF OrderInv, QueuesInOrder
    <3>3. \A c, x : c = Head(sends) /\ Queued(sends', x) => Before(c, x)'
      BY <1>1, <2>2, SameOrder
    <3> QED BY <2>4, <3>1, <3>2, <3>3, WriterFirstNext
  <2>6. PendingKept'
    <3>1. spc'[f] = "write" /\ cur'[f] = Head(sends)
      BY <1>1, <1>5
    <3>2. \A p \in Packets : res'[p] = "pending" =>
            Queued(sends', p) \/ Queued(sendsIOV', p) \/ p = Head(sends)
      BY <1>1, <1>4, <1>5, <2>1 DEF OrderInv, PendingKept
    <3> QED BY <3>1, <3>2 DEF PendingKept
  <2> QED BY <1>2, <2>3, <2>5, <2>6
<1>6. CASE /\ ~Busy(f) /\ sendsIOV # <<>> /\ sends' = sends
           /\ cur' = [cur EXCEPT ![f] = Head(sendsIOV)] /\ sendsIOV' = Tail(sendsIOV)
           /\ spc' = [spc EXCEPT ![f] = "write"]
  <2>1. /\ Queued(sendsIOV, Head(sendsIOV))
        /\ \A x : Queued(sendsIOV, x) <=> x = Head(sendsIOV) \/ Queued(sendsIOV', x)
    BY <1>1, <1>6, TailQueued
  <2>2. /\ InOrder(Tail(sendsIOV))
        /\ \A x : Queued(sendsIOV', x) => Before(Head(sendsIOV), x)
    BY <1>1, <1>6, TailInOrder DEF OrderInv, QueuesInOrder
  <2>3. QueuesInOrder'
    <3>1. InOrder(sends)' /\ InOrder(sendsIOV)'
      BY <1>1, <1>6, <2>2, SameOrder DEF OrderInv, QueuesInOrder, InOrder
    <3>2. \A p \in Packets : Queued(sends', p) \/ Queued(sendsIOV', p) => res'[p] # "none"
      BY <1>1, <1>6, <2>1 DEF OrderInv, QueuesInOrder
    <3> QED BY <3>1, <3>2 DEF QueuesInOrder
  <2>4. Head(sendsIOV) \in Packets /\ Head(sendsIOV) \in Gathered
    BY <1>1, <1>6, ChannelAssumption
  <2>5. WriterFirst'
    <3>1. \A g \in Packets : \A c : spc'[g] = "write" /\ c = cur'[g] => g = f /\ c = Head(sendsIOV)
      BY <1>1, <1>4, <1>6
    <3>2. res'[Head(sendsIOV)] # "none"
      BY <1>1, <2>1, <2>4 DEF OrderInv, QueuesInOrder
    <3>3. \A c, x : c = Head(sendsIOV) /\ Queued(sendsIOV', x) => Before(c, x)'
      BY <1>1, <2>2, SameOrder
    <3> QED BY <2>4, <3>1, <3>2, <3>3, WriterFirstNext
  <2>6. PendingKept'
    <3>1. spc'[f] = "write" /\ cur'[f] = Head(sendsIOV)
      BY <1>1, <1>6
    <3>2. \A p \in Packets : res'[p] = "pending" =>
            Queued(sends', p) \/ Queued(sendsIOV', p) \/ p = Head(sendsIOV)
      BY <1>1, <1>4, <1>6, <2>1 DEF OrderInv, PendingKept
    <3> QED BY <2>4, <3>1, <3>2 DEF PendingKept
  <2> QED BY <1>2, <2>3, <2>5, <2>6
<1> QED BY <1>3, <1>5, <1>6 DEF TakeSend

(* The future that is set is that of the earliest packet of its kind that  *)
(* waits.                                                                  *)
LEMMA WrittenOrder ==
  ASSUME OrderInv, NEW f \in Packets, Written(f) \/ WriteFailed(f)
  PROVE  /\ CallsExact' /\ QueuesInOrder' /\ WriterFirst' /\ PendingKept'
         /\ \A p \in Packets \ {cur[f]} : res'[p] = res[p]
         /\ \A p \in Packets :
              /\ Before(p, cur[f])
              /\ p \in Gathered <=> cur[f] \in Gathered
              => res[p] # "pending"
<1>1. /\ calls' = calls /\ sends' = sends /\ sendsIOV' = sendsIOV
      /\ spc[f] = "write" /\ cur[f] \in Packets
      /\ spc \in [Packets -> {"none", "spawned", "loop", "write", "failed"}]
      /\ cur \in [Packets -> Packets \cup {None}]
      /\ res \in [Packets -> {"none", "pending", "ok", "error"}]
      /\ sends \in Seq(Packets \ Gathered) /\ sendsIOV \in Seq(Gathered)
      /\ calls \in Seq(Packets)
  BY DEF OrderInv, IInv, TypeOK, NotSpawned, Written, WriteFailed
<1>2. /\ res'[cur[f]] \in {"ok", "error"}
      /\ \A p \in Packets \ {cur[f]} : res'[p] = res[p]
      /\ spc'[f] # "write"
      /\ \A g \in Packets \ {f} : spc'[g] = spc[g] /\ cur'[g] = cur[g]
  BY <1>1 DEF Written, WriteFailed
<1>3. res[cur[f]] # "none"
  BY <1>1 DEF OrderInv, WriterFirst
<1>4. CallsExact'
  BY <1>1, <1>2, <1>3 DEF OrderInv, CallsExact, Queued
<1>5. QueuesInOrder'
  <2>1. InOrder(sends)' /\ InOrder(sendsIOV)'
    BY <1>1, SameOrder DEF OrderInv, QueuesInOrder, InOrder
  <2>2. \A p \in Packets : Queued(sends', p) \/ Queued(sendsIOV', p) => res'[p] # "none"
    BY <1>1, <1>2 DEF OrderInv, QueuesInOrder
  <2> QED BY <2>1, <2>2 DEF QueuesInOrder
<1>6. \A g \in Packets : spc[g] = "write" => g = f
  BY <1>1 DEF OrderInv, IInv, OneWriter, AtWork
<1>7. WriterFirst'
  BY <1>2, <1>6, WriterFirstNext
<1>8. PendingKept'
  <2>1. \A p \in Packets : res'[p] = "pending" => Queued(sends, p) \/ Queued(sendsIOV, p)
    BY <1>2, <1>6 DEF OrderInv, PendingKept
  <2> QED BY <1>1, <2>1 DEF PendingKept
<1>9. ASSUME NEW p \in Packets, Before(p, cur[f]), p \in Gathered <=> cur[f] \in Gathered,
             res[p] = "pending"
      PROVE  FALSE
  <2>1. p # cur[f] /\ ~Before(cur[f], p)
    BY <1>1, <1>9, BeforeStrict DEF OrderInv
  <2>2. Queued(sends, p) \/ Queued(sendsIOV, p)
    BY <1>6, <1>9, <2>1 DEF OrderInv, PendingKept
  <2>3. /\ Queued(sends, p) => p \notin Gathered
        /\ Queued(sendsIOV, p) => p \in Gathered
    BY <1>1 DEF Queued
  <2> QED BY <1>1, <1>9, <2>1, <2>2, <2>3 DEF OrderInv, WriterFirst
<1> QED BY <1>2, <1>4, <1>5, <1>7, <1>8, <1>9

LEMMA OtherOrder ==
  ASSUME OrderInv,
         \/ \E f \in Packets : GiveUp(f)
         \/ \E l \in Reads : ReceiveStep(l) \/ Receive(l) \/ \E n \in Amounts : Listen(l, n)
         \/ Close
         \/ UNCHANGED vars
  PROVE  CallsExact' /\ QueuesInOrder' /\ WriterFirst' /\ PendingKept' /\ res' = res
<1>1. /\ calls' = calls /\ sends' = sends /\ sendsIOV' = sendsIOV /\ cur' = cur /\ res' = res
      /\ \A g \in Packets : spc'[g] = "write" <=> spc[g] = "write"
  <2>1. CASE \E f \in Packets : GiveUp(f)
    BY <2>1 DEF OrderInv, IInv, TypeOK, GiveUp
  <2>2. CASE \E l \in Reads : ReceiveStep(l) \/ Receive(l) \/ \E n \in Amounts : Listen(l, n)
    BY <2>2 DEF ReceiveStep, TakeReceive, StartRead, ReadDone, ReadFailed, Received,
                Receive, Listen, sendVars
  <2>3. CASE Close \/ UNCHANGED vars
    BY <2>3 DEF Close, vars, sendVars
  <2> QED BY <2>1, <2>2, <2>3
<1>2. CallsExact'
  BY <1>1 DEF OrderInv, CallsExact, Queued
<1>3. QueuesInOrder'
  <2>1. InOrder(sends)' /\ InOrder(sendsIOV)'
    BY <1>1, SameOrder DEF OrderInv, QueuesInOrder, InOrder
  <2>2. \A p \in Packets : Queued(sends', p) \/ Queued(sendsIOV', p) => res'[p] # "none"
    BY <1>1 DEF OrderInv, QueuesInOrder
  <2> QED BY <2>1, <2>2 DEF QueuesInOrder
<1>4. WriterFirst'
  BY <1>1, SameOrder, WriterFirstNext DEF OrderInv, WriterFirst
<1>5. PendingKept'
  BY <1>1 DEF OrderInv, PendingKept, Queued
<1> QED BY <1>1, <1>2, <1>3, <1>4, <1>5

LEMMA NextOrder == OrderInv /\ [Next]_vars => OrderInv'
<1> SUFFICES ASSUME OrderInv, [Next]_vars PROVE OrderInv'
  OBVIOUS
<1>1. IInv'
  BY NextIInv DEF OrderInv
<1>2. CallsExact' /\ QueuesInOrder' /\ WriterFirst' /\ PendingKept'
  BY SendOrder, TakeSendOrder, WrittenOrder, OtherOrder DEF Next, SendStep
<1> QED BY <1>1, <1>2 DEF OrderInv

(* The packets of one kind are written in the order of the calls of        *)
(* Channel::send, whichever send_f writes them and whatever writes fail,   *)
(* for any number of packets.                                              *)
THEOREM WrittenInOrder == Spec => WireOrder
<1>1. OrderInv /\ [Next]_vars =>
        [ \A i, j \in 1 .. Len(calls) :
            /\ i < j
            /\ calls[i] \in Gathered <=> calls[j] \in Gathered
            /\ res[calls[j]] # res'[calls[j]]
            => res[calls[i]] # "pending" ]_vars
  <2> SUFFICES ASSUME OrderInv, [Next]_vars,
                      NEW i \in 1 .. Len(calls), NEW j \in 1 .. Len(calls), i < j,
                      calls[i] \in Gathered <=> calls[j] \in Gathered,
                      res[calls[j]] # res'[calls[j]]
               PROVE  res[calls[i]] # "pending"
    OBVIOUS
  <2>1. calls[i] \in Packets /\ calls[j] \in Packets /\ Queued(calls, calls[j])
    BY DEF OrderInv, IInv, TypeOK, Queued
  <2>2. Before(calls[i], calls[j])
    BY DEF Before
  <2>3. ~\E p \in Packets : Send(p)
    BY <2>1, SendOrder
  <2>4. \A f \in Packets : TakeSend(f) => res' = res
    BY DEF TakeSend
  <2>5. PICK f \in Packets : Written(f) \/ WriteFailed(f)
    BY <2>3, <2>4, OtherOrder DEF Next, SendStep
  <2>6. calls[j] = cur[f]
    BY <2>1, <2>5, WrittenOrder
  <2> QED BY <2>1, <2>2, <2>5, <2>6, WrittenOrder
<1> QED BY <1>1, InitOrder, NextOrder, PTL DEF Spec, WireOrder

-----------------------------------------------------------------------------
(* The files a server hands out and what is said of them (HandlerFs).      *)
(* First, that a date is read back from the text generated of it: timegm   *)
(* undoes gmtime, whatever the calendar, as long as there are a year and a *)
(* month to choose.                                                        *)

LEMMA LessWellFounded == IsWellFoundedOn({s \in Nat \X Nat : s[1] < s[2]}, Nat)
<1>1. IsWellFoundedOn(OpToRel(<, Nat), Nat)
  BY NatLessThanWellFounded
<1> QED BY <1>1 DEF OpToRel

LEMMA Least ==
  ASSUME NEW S, S \subseteq Nat, S # {}
  PROVE  \E m \in S : \A n \in S : m <= n
<1> DEFINE R == {s \in Nat \X Nat : s[1] < s[2]}
<1>1. IsWellFoundedOn(R, Nat)
  BY LessWellFounded
<1>2. \A i, j \in Nat : i < j => <<i, j>> \in R
  OBVIOUS
<1> HIDE DEF R
<1>3. PICK m \in S : \A n \in S : <<n, m>> \notin R
  BY <1>1, WFMin
<1>4. ASSUME NEW n \in S PROVE m <= n
  <2>1. n \in Nat /\ m \in Nat /\ <<n, m>> \notin R
    BY <1>3
  <2>2. ~(n < m)
    BY <1>2, <2>1
  <2> QED BY <2>1, <2>2
<1> QED BY <1>4

LEMMA DaysTyped == \A y, m \in Int : DaysTo(y, m) \in Int
BY DEF DaysTo

LEMMA LastBefore ==
  ASSUME NEW a \in Nat, NEW b \in Nat, a <= b, NEW first, NEW days \in Int,
         \A y \in a .. b + 1 : first[y] \in Int,
         first[a] <= days, days < first[b + 1]
  PROVE  \E y \in a .. b : first[y] <= days /\ days < first[y + 1]
<1> DEFINE S == {y \in a .. b : days < first[y + 1]}
<1>1. b \in S
  OBVIOUS
<1>2. PICK y \in S : \A n \in S : y <= n
  <2>1. S \subseteq Nat
    OBVIOUS
  <2> HIDE DEF S
  <2> QED BY <1>1, <2>1, Least
<1>3. CASE y = a
  BY <1>3
<1>4. CASE y # a
  <2>1. y - 1 \in a .. b /\ (y - 1) + 1 = y /\ y - 1 \notin S /\ y \in a .. b + 1
    BY <1>2, <1>4
  <2>2. ~(days < first[y]) /\ first[y] \in Int
    BY <2>1
  <2> QED BY <2>2
<1> QED BY <1>3, <1>4

LEMMA YearFound ==
  ASSUME NEW days \in Nat, days < 24856
  PROVE  \E y \in 1969 .. 2038 : DaysTo(y, 1) <= days /\ days < DaysTo(y + 1, 1)
<1>1. DaysTo(1969, 1) = -365
  BY DEF DaysTo
<1>2. DaysTo(2038 + 1, 1) = 25202
  BY DEF DaysTo
<1> DEFINE first == [y \in 1969 .. 2038 + 1 |-> DaysTo(y, 1)]
<1>4. \A y \in 1969 .. 2038 + 1 : first[y] \in Int /\ first[y] = DaysTo(y, 1)
  BY DaysTyped
<1> HIDE DEF first
<1>5. first[1969] <= days /\ days < first[2038 + 1]
  BY <1>1, <1>2, <1>4
<1>6. \E y \in 1969 .. 2038 : first[y] <= days /\ days < first[y + 1]
  BY <1>4, <1>5, LastBefore
<1>7. \A y \in 1969 .. 2038 : first[y] = DaysTo(y, 1) /\ first[y + 1] = DaysTo(y + 1, 1)
  BY <1>4
<1> QED BY <1>6, <1>7

LEMMA MonthFound ==
  ASSUME NEW days \in Nat, NEW y \in Int, DaysTo(y, 1) <= days
  PROVE  \E m \in 1 .. 12 : DaysTo(y, m) <= days /\ (m = 12 \/ days < DaysTo(y, m + 1))
<1> DEFINE S == {k \in 0 .. 11 : DaysTo(y, 12 - k) <= days}
<1>1. 11 \in S
  OBVIOUS
<1>2. PICK k \in S : \A n \in S : k <= n
  <2>1. S \subseteq Nat
    OBVIOUS
  <2> HIDE DEF S
  <2> QED BY <1>1, <2>1, Least
<1>3. 12 - k \in 1 .. 12 /\ DaysTo(y, 12 - k) <= days
  BY <1>2
<1>4. CASE k = 0
  BY <1>3, <1>4
<1>5. CASE k # 0
  <2>1. k - 1 \in 0 .. 11 /\ 12 - (k - 1) = (12 - k) + 1 /\ k - 1 \notin S
    BY <1>2, <1>5
  <2>2. ~(DaysTo(y, (12 - k) + 1) <= days)
    BY <2>1
  <2>3. DaysTo(y, (12 - k) + 1) \in Int
    BY <2>1, DaysTyped
  <2> QED BY <1>3, <2>2, <2>3
<1> QED BY <1>4, <1>5

(* The times of a 32-bit time_t. *)
Time(t) == t \in Nat /\ t < 24856 * DayTicks

LEMMA TimesTyped ==
  /\ \A t \in Moments : Time(t)
  /\ \A t \in 0 .. MaxFsClock : Time(t)
<1>1. PICK d : d = DayTicks
  OBVIOUS
<1>2. d \in Nat \ {0} /\ MaxFsClock \in Nat /\ MaxFsClock < 24856 * d
  BY <1>1, FsAssumption, ValuesAssumption
<1>3. \A t \in 0 .. MaxFsClock : t \in Nat /\ t < 24856 * d
  BY <1>2
<1> QED BY <1>1, <1>3, ValuesAssumption DEF Time

LEMMA DayFound ==
  ASSUME NEW t, Time(t)
  PROVE  LET days == t \div DayTicks
         IN  days \in Nat /\ days < 24856 /\ t = days * DayTicks + (t % DayTicks)
<1>1. PICK d : d = DayTicks
  OBVIOUS
<1>2. d \in Nat \ {0} /\ t \in Nat /\ t < 24856 * d
  BY <1>1, ValuesAssumption DEF Time
<1>3. t = d * (t \div d) + (t % d) /\ t % d \in 0 .. d - 1 /\ t \div d \in Int
  BY <1>2
<1>4. t \div d \in Nat
  BY <1>2
<1>5. t \div d < 24856
  BY <1>2
<1> QED BY <1>1, <1>2, <1>3, <1>4, <1>5

LEMMA TimeReadBack ==
  ASSUME NEW t, Time(t)
  PROVE  timegm(gmtime(t)) = t /\ gmtime(t).year \in 69 .. 138
<1> DEFINE days == t \div DayTicks
           y == CHOOSE y \in 1969 .. 2038 : DaysTo(y, 1) <= days /\ days < DaysTo(y + 1, 1)
           m == CHOOSE m \in 1 .. 12 : DaysTo(y, m) <= days /\ (m = 12 \/ days < DaysTo(y, m + 1))
<1>1. days \in Nat /\ days < 24856 /\ t = days * DayTicks + (t % DayTicks)
  BY DayFound
<1>2. gmtime(t) = [year |-> y - 1900, mon |-> m - 1, mday |-> days - DaysTo(y, m) + 1, wday |-> (days + 4) % 7,
                   time |-> t % DayTicks]
  BY DEF gmtime
<1> HIDE DEF days
<1>3. y \in 1969 .. 2038 /\ DaysTo(y, 1) <= days
  BY <1>1, YearFound
<1> HIDE DEF y
<1>4. y \in Int /\ y - 1900 \in 69 .. 138
  BY <1>3
<1>5. m \in Int
  BY <1>1, <1>3, <1>4, MonthFound
<1> HIDE DEF m
<1>6. timegm(gmtime(t)) = (DaysTo(y, m) + (days - DaysTo(y, m) + 1) - 1) * DayTicks + (t % DayTicks)
  <2>1. (y - 1900) + 1900 = y /\ (m - 1) + 1 = m
    BY <1>4, <1>5
  <2> QED BY <1>2, <2>1 DEF timegm
<1>7. DaysTo(y, m) + (days - DaysTo(y, m) + 1) - 1 = days
  <2>1. PICK n : n = DaysTo(y, m)
    OBVIOUS
  <2>2. n \in Int
    BY <1>4, <1>5, <2>1, DaysTyped
  <2> QED BY <1>1, <2>1, <2>2
<1> QED BY <1>1, <1>2, <1>4, <1>6, <1>7

(* A text says what its numbers say, whatever its form. *)
LEMMA TextRead ==
  ASSUME NEW tm, NEW year, NEW form, NEW days, NEW text,
         text = DateText(tm, year, form, days), YearOf(text) = tm.year
  PROVE  timegm([text EXCEPT !.year = YearOf(text)]) = timegm(tm)
<1> DEFINE back == [text EXCEPT !.year = YearOf(text)]
<1>1. back.year = tm.year /\ back.mon = tm.mon /\ back.mday = tm.mday /\ back.time = tm.time
  BY DEF DateText
<1> HIDE DEF back
<1>2. timegm(back) = timegm(tm)
  BY <1>1 DEF timegm
<1> QED BY <1>2 DEF back

LEMMA FormRead ==
  ASSUME NEW t, Time(t), NEW text \in Forms(t),
         text.form = "rfc850" => gmtime(t).year >= 100
  PROVE  timegm([text EXCEPT !.year = YearOf(text)]) = t
<1>1. PICK tm : tm = gmtime(t)
  OBVIOUS
<1>2. timegm(tm) = t /\ tm.year \in 69 .. 138
  BY <1>1, TimeReadBack
<1>3. CASE \E f \in {"rfc1123", "asctime"}, d \in {"short", "full"} : text = DateText(tm, tm.year + 1900, f, d)
  <2>1. PICK f \in {"rfc1123", "asctime"}, d \in {"short", "full"} : text = DateText(tm, tm.year + 1900, f, d)
    BY <1>3
  <2>2. text.form = f /\ text.year = tm.year + 1900
    BY <2>1 DEF DateText
  <2>3. YearOf(text) = tm.year
    BY <1>2, <2>2 DEF YearOf
  <2> QED BY <1>2, <2>1, <2>3, TextRead
<1>4. CASE \E d \in {"short", "full"} : text = DateText(tm, tm.year % 100, "rfc850", d)
  <2>1. PICK d \in {"short", "full"} : text = DateText(tm, tm.year % 100, "rfc850", d)
    BY <1>4
  <2>2. text.form = "rfc850" /\ text.year = tm.year % 100
    BY <2>1 DEF DateText
  <2>3. (tm.year % 100) + 100 = tm.year
    BY <1>1, <1>2, <2>2
  <2>4. YearOf(text) = tm.year
    BY <2>2, <2>3 DEF YearOf
  <2> QED BY <1>2, <2>1, <2>4, TextRead
<1> QED BY <1>1, <1>3, <1>4 DEF Forms

LEMMA DateReadBack ==
  ASSUME NEW t, Time(t)
  PROVE  /\ Generate("Date", t) \in Forms(t)
         /\ Generate("Date", t).form = "rfc1123" /\ Generate("Date", t).days = "short"
         /\ Parse("Date", Generate("Date", t)) = [ok |-> TRUE, value |-> t]
<1>1. PICK text : text = Generate("Date", t)
  OBVIOUS
<1>2. text = DateText(gmtime(t), gmtime(t).year + 1900, "rfc1123", "short")
  BY <1>1 DEF Generate, GenerateDate
<1>3. text \in Forms(t) /\ text.form = "rfc1123" /\ text.days = "short"
  BY <1>2 DEF Forms, DateText
<1>4. timegm([text EXCEPT !.year = YearOf(text)]) = t
  BY <1>3, FormRead
<1>5. Parse("Date", text) = [ok |-> TRUE, value |-> timegm([text EXCEPT !.year = YearOf(text)])]
  <2>1. PICK value : value = timegm([text EXCEPT !.year = YearOf(text)])
    OBVIOUS
  <2>2. ParseDate(text) = [ok |-> TRUE, value |-> value]
    BY <1>3, <2>1 DEF ParseDate
  <2> QED BY <2>1, <2>2 DEF Parse
<1> QED BY <1>1, <1>3, <1>4, <1>5

-----------------------------------------------------------------------------
(* Codings: the mentions are read one after the other.                     *)

LEMMA Upwards ==
  ASSUME NEW S, NEW n \in Nat, 0 \in S, \A i \in 0 .. n - 1 : i \in S => i + 1 \in S
  PROVE  0 .. n \subseteq S
<1> SUFFICES ASSUME (0 .. n) \ S # {} PROVE FALSE
  OBVIOUS
<1>1. PICK m \in (0 .. n) \ S : \A k \in (0 .. n) \ S : m <= k
  <2>1. (0 .. n) \ S \subseteq Nat
    OBVIOUS
  <2> QED BY <2>1, Least
<1>2. m # 0 /\ m - 1 \in 0 .. n - 1 /\ m - 1 \in 0 .. n
  BY <1>1
<1>3. m - 1 \in S
  BY <1>1, <1>2
<1> QED BY <1>1, <1>2, <1>3

(* A state that is computed in n steps, whatever a step is. *)
Stays(S, n, F) == \A k \in 1 .. n, s \in S : F[<<k, s>>] \in S
Steps(g, n, b, F) == g[0] = b /\ \A k \in 1 .. n : g[k] = F[<<k, g[k - 1]>>]

LEMMA StepsExist ==
  ASSUME NEW S, NEW b \in S, NEW n \in Nat, NEW F, Stays(S, n, F)
  PROVE  \E g \in [0 .. n -> S] : Steps(g, n, b, F)
<1> DEFINE T == {m \in 0 .. n : \E g \in [0 .. m -> S] :
                       g[0] = b /\ \A k \in 1 .. m : g[k] = F[<<k, g[k - 1]>>]}
<1>1. 0 \in T
  <2>1. PICK g : g = [k \in 0 .. 0 |-> b]
    OBVIOUS
  <2>2. g \in [0 .. 0 -> S] /\ g[0] = b /\ (1 .. 0) = {}
    BY <2>1
  <2> QED BY <2>2
<1>2. ASSUME NEW m \in 0 .. n - 1, m \in T PROVE m + 1 \in T
  <2>1. PICK g \in [0 .. m -> S] : g[0] = b /\ \A k \in 1 .. m : g[k] = F[<<k, g[k - 1]>>]
    BY <1>2
  <2> DEFINE h == [k \in 0 .. m + 1 |-> IF k = m + 1 THEN F[<<m + 1, g[m]>>] ELSE g[k]]
  <2>2. m + 1 \in 0 .. n /\ m + 1 \in 1 .. n /\ g[m] \in S
    BY <2>1
  <2>3. F[<<m + 1, g[m]>>] \in S
    BY <2>2 DEF Stays
  <2>4. h \in [0 .. m + 1 -> S]
    BY <2>1, <2>3
  <2>5. \A k \in 0 .. m : h[k] = g[k]
    OBVIOUS
  <2>6. h[m + 1] = F[<<m + 1, g[m]>>]
    OBVIOUS
  <2> HIDE DEF h
  <2>7. ASSUME NEW k \in 1 .. m + 1 PROVE h[k] = F[<<k, h[k - 1]>>]
    <3>1. k - 1 \in 0 .. m
      OBVIOUS
    <3>2. CASE k = m + 1
      BY <2>5, <2>6, <3>1, <3>2
    <3>3. CASE k \in 1 .. m
      BY <2>1, <2>5, <3>1, <3>3
    <3> QED BY <3>2, <3>3
  <2>8. h[0] = b
    BY <2>1, <2>5
  <2> QED BY <2>2, <2>4, <2>7, <2>8
<1>3. 0 .. n \subseteq T
  <2> HIDE DEF T
  <2> QED BY <1>1, <1>2, Upwards
<1>4. n \in T
  BY <1>3
<1> QED BY <1>4 DEF Steps


(* The last of n mentions is a positive one: i \in P if the i-th mentions, *)
(* i \in Q if it is positive.                                              *)
LastPositive(P, Q, n) ==
    \E i \in 1 .. n : i \in P /\ i \in Q /\ \A j \in 1 .. n : j > i /\ j \in P => j \in Q

LEMMA LastMention ==
  ASSUME NEW P, NEW Q, NEW n \in Nat \ {0}
  PROVE  LastPositive(P, Q, n) <=> IF n \in P THEN n \in Q ELSE LastPositive(P, Q, n - 1)
<1>1. \A i \in 1 .. n : i = n \/ i \in 1 .. n - 1
  OBVIOUS
<1>2. \A i \in 1 .. n - 1 : i \in 1 .. n /\ n > i
  OBVIOUS
<1>3. n \in 1 .. n /\ \A j \in 1 .. n : ~(j > n)
  OBVIOUS
<1>4. CASE n \in P
  BY <1>1, <1>2, <1>3, <1>4 DEF LastPositive
<1>5. CASE n \notin P
  <2>1. ASSUME LastPositive(P, Q, n) PROVE LastPositive(P, Q, n - 1)
    BY <1>1, <1>2, <1>5, <2>1 DEF LastPositive
  <2>2. ASSUME LastPositive(P, Q, n - 1) PROVE LastPositive(P, Q, n)
    BY <1>1, <1>2, <1>5, <2>2 DEF LastPositive
  <2> QED BY <1>5, <2>1, <2>2
<1> QED BY <1>4, <1>5

LEMMA MentionedCodings == \A kind, name : Mentioned(kind, name) \subseteq Codings(kind)
BY DEF Mentioned, AnyCoding

LEMMA ReadingSteps ==
  ASSUME NEW kind, NEW items \in Seq(Items)
  PROVE  \E upto : /\ upto[0] = {}
                   /\ \A k \in 1 .. Len(items) : upto[k] = Weighed(kind, upto[k - 1], items[k])
                   /\ ReadCodings(kind, items) = upto[Len(items)]
<1> DEFINE n == Len(items)
           S == SUBSET Codings(kind)
           F == [x \in (1 .. n) \X S |-> Weighed(kind, x[2], items[x[1]])]
           Says(g) == g = [k \in 0 .. n |-> IF k = 0 THEN {} ELSE Weighed(kind, g[k - 1], items[k])]
           upto == CHOOSE g : Says(g)
<1>1. \A s \in S, k \in 1 .. n : Weighed(kind, s, items[k]) \in S
  <2> SUFFICES ASSUME NEW s \in S, NEW k \in 1 .. n PROVE Weighed(kind, s, items[k]) \in S
    OBVIOUS
  <2>1. PICK m : m = Mentioned(kind, items[k].name)
    OBVIOUS
  <2>2. m \subseteq Codings(kind)
    BY <2>1, MentionedCodings
  <2>3. s \cup m \in S /\ s \ m \in S
    BY <2>2
  <2> QED BY <2>1, <2>3 DEF Weighed
<1>2. {} \in S /\ n \in Nat
  OBVIOUS
<1>3. \A k \in 1 .. n, s \in S : F[<<k, s>>] = Weighed(kind, s, items[k])
  OBVIOUS
<1> HIDE DEF S, F, n
<1>4. Stays(S, n, F)
  BY <1>1, <1>3 DEF Stays
<1>5. PICK g \in [0 .. n -> S] : g[0] = {} /\ \A k \in 1 .. n : g[k] = F[<<k, g[k - 1]>>]
  <2>1. \E g \in [0 .. n -> S] : Steps(g, n, {}, F)
    BY <1>2, <1>4, StepsExist
  <2> QED BY <2>1 DEF Steps
<1>6. ASSUME NEW k \in 0 .. n PROVE g[k] = IF k = 0 THEN {} ELSE Weighed(kind, g[k - 1], items[k])
  <2>1. k # 0 => k - 1 \in 0 .. n /\ k \in 1 .. n
    BY <1>2
  <2>2. k # 0 => g[k - 1] \in S
    BY <1>5, <2>1
  <2> QED BY <1>3, <1>5, <2>1, <2>2
<1>7. Says(g)
  BY <1>5, <1>6
<1>8. Says(upto)
  BY <1>7
<1>9. ReadCodings(kind, items) = upto[n]
  BY DEF ReadCodings, n
<1> HIDE DEF upto
<1>10. upto[0] = {} /\ \A k \in 1 .. n : upto[k] = Weighed(kind, upto[k - 1], items[k])
  <2>1. 0 \in 0 .. n /\ \A k \in 1 .. n : k \in 0 .. n /\ k # 0
    BY <1>2
  <2> QED BY <1>8, <2>1
<1> QED BY <1>9, <1>10 DEF n

(* The last mention of a coding decides. *)
LEMMA ReadMeans ==
  ASSUME NEW kind, NEW items \in Seq(Items)
  PROVE  ReadCodings(kind, items) = Acceptable(kind, items)
<1> DEFINE n == Len(items)
           Q == {i \in 1 .. n : items[i].q > 0}
           P(c) == {i \in 1 .. n : c \in Mentioned(kind, items[i].name)}
           Says(k) == {c \in Codings(kind) : LastPositive(P(c), Q, k)}
<1>1. n \in Nat /\ DOMAIN items = 1 .. n
  OBVIOUS
<1>2. PICK upto : /\ upto[0] = {}
                  /\ \A k \in 1 .. n : upto[k] = Weighed(kind, upto[k - 1], items[k])
                  /\ ReadCodings(kind, items) = upto[n]
  BY ReadingSteps
<1> DEFINE T == {k \in 0 .. n : upto[k] = Says(k)}
<1>3. 0 \in T
  <2>1. Says(0) = {}
    BY DEF LastPositive
  <2> QED BY <1>1, <1>2, <2>1
<1>4. ASSUME NEW k \in 0 .. n - 1, k \in T PROVE k + 1 \in T
  <2>1. PICK m : m = Mentioned(kind, items[k + 1].name)
    OBVIOUS
  <2>2. k + 1 \in 1 .. n /\ k + 1 \in Nat \ {0} /\ (k + 1) - 1 = k /\ k + 1 \in 0 .. n
    BY <1>1
  <2>3. \A c : /\ k + 1 \in P(c) <=> c \in m
               /\ k + 1 \in Q <=> items[k + 1].q > 0
    BY <2>1, <2>2
  <2>4. m \subseteq Codings(kind)
    BY <2>1, MentionedCodings
  <2>5. upto[k] = Says(k)
    BY <1>4
  <2>6. upto[k + 1] = IF items[k + 1].q > 0 THEN upto[k] \cup m ELSE upto[k] \ m
    BY <1>2, <2>1, <2>2 DEF Weighed
  <2> HIDE DEF P, Q
  <2>7. \A c : LastPositive(P(c), Q, k + 1)
                 <=> IF k + 1 \in P(c) THEN k + 1 \in Q ELSE LastPositive(P(c), Q, k)
    BY <2>2, LastMention
  <2>8. upto[k + 1] = Says(k + 1)
    BY <2>3, <2>4, <2>5, <2>6, <2>7
  <2> QED BY <2>2, <2>8
<1>5. upto[n] = Says(n)
  <2> HIDE DEF T
  <2>1. 0 .. n \subseteq T
    BY <1>1, <1>3, <1>4, Upwards
  <2>2. n \in 0 .. n
    BY <1>1
  <2> QED BY <2>1, <2>2 DEF T
<1>6. Says(n) = Acceptable(kind, items)
  <2> SUFFICES ASSUME NEW c \in Codings(kind)
               PROVE  LastPositive(P(c), Q, n)
                        <=> \E i \in DOMAIN items :
                              /\ items[i].q > 0 /\ c \in Mentioned(kind, items[i].name)
                              /\ \A j \in DOMAIN items :
                                   j > i /\ c \in Mentioned(kind, items[j].name) => items[j].q > 0
    BY DEF Acceptable
  <2> QED BY <1>1 DEF LastPositive
<1> QED BY <1>2, <1>5, <1>6

LEMMA KnownTyped ==
  ASSUME NEW kind, NEW items \in Seq(Items)
  PROVE  Known(kind, items) \in Seq(Items)
<1> DEFINE bad == {i \in DOMAIN items : Mentioned(kind, items[i].name) = {}}
           m == CHOOSE i \in bad : \A j \in bad : i <= j
<1>1. CASE bad = {}
  BY <1>1 DEF Known
<1>2. CASE bad # {}
  <2>1. Len(items) \in Nat /\ DOMAIN items = 1 .. Len(items) /\ \A i \in 1 .. Len(items) : items[i] \in Items
    OBVIOUS
  <2>2. bad \subseteq 1 .. Len(items) /\ bad \subseteq Nat
    BY <2>1
  <2>3. Known(kind, items) = SubSeq(items, 1, m - 1)
    BY <1>2 DEF Known
  <2> HIDE DEF bad
  <2>4. m \in bad
    BY <1>2, <2>2, Least
  <2> HIDE DEF m
  <2>5. m \in 1 .. Len(items)
    BY <2>2, <2>4
  <2>6. m - 1 \in 0 .. Len(items) /\ \A i \in 1 .. m - 1 : items[i] \in Items
    BY <2>1, <2>5
  <2>7. SubSeq(items, 1, m - 1) \in Seq(Items)
    BY <2>6, SubSeqProperties
  <2> QED BY <2>3, <2>7
<1> QED BY <1>1, <1>2

AllCodings == {"identity", "chunked", "gzip", "compress", "deflate"}
Names(s) == {s[i] : i \in 1 .. Len(s)}

LEMMA NamesTogether ==
  ASSUME NEW S, NEW s \in Seq(S), NEW t \in Seq(S)
  PROVE  s \o t \in Seq(S) /\ Names(s \o t) = Names(s) \cup Names(t)
<1>1. /\ s \o t \in Seq(S) /\ Len(s \o t) = Len(s) + Len(t) /\ Len(s) \in Nat /\ Len(t) \in Nat
      /\ \A i \in 1 .. Len(s) + Len(t) : (s \o t)[i] = IF i <= Len(s) THEN s[i] ELSE t[i - Len(s)]
  BY ConcatProperties
<1>2. Names(s \o t) \subseteq Names(s) \cup Names(t)
  <2> SUFFICES ASSUME NEW i \in 1 .. Len(s) + Len(t) PROVE (s \o t)[i] \in Names(s) \cup Names(t)
    BY <1>1 DEF Names
  <2>1. i <= Len(s) => i \in 1 .. Len(s)
    BY <1>1
  <2>2. ~(i <= Len(s)) => i - Len(s) \in 1 .. Len(t)
    BY <1>1
  <2> QED BY <1>1, <2>1, <2>2 DEF Names
<1>3. Names(s) \subseteq Names(s \o t)
  <2> SUFFICES ASSUME NEW i \in 1 .. Len(s) PROVE s[i] \in Names(s \o t)
    BY DEF Names
  <2>1. i \in 1 .. Len(s) + Len(t) /\ i <= Len(s)
    BY <1>1
  <2> QED BY <1>1, <2>1 DEF Names
<1>4. Names(t) \subseteq Names(s \o t)
  <2> SUFFICES ASSUME NEW i \in 1 .. Len(t) PROVE t[i] \in Names(s \o t)
    BY DEF Names
  <2>1. i + Len(s) \in 1 .. Len(s) + Len(t) /\ ~(i + Len(s) <= Len(s)) /\ (i + Len(s)) - Len(s) = i
    BY <1>1
  <2> QED BY <1>1, <2>1 DEF Names
<1> QED BY <1>1, <1>2, <1>3, <1>4

LEMMA NameAdded ==
  ASSUME NEW S, NEW s \in Seq(S), NEW c \in S
  PROVE  Append(s, c) \in Seq(S) /\ Names(Append(s, c)) = Names(s) \cup {c}
<1>1. /\ Append(s, c) \in Seq(S) /\ Len(Append(s, c)) = Len(s) + 1 /\ Len(s) \in Nat
      /\ \A i \in 1 .. Len(s) + 1 : Append(s, c)[i] = IF i <= Len(s) THEN s[i] ELSE c
  OBVIOUS
<1> QED BY <1>1 DEF Names

CodingKinds == {"TransferEncoding", "ContentEncoding"}

(* What generate writes for a set of codings. *)
WrittenNames(codings) ==
    LET If(c) == IF c \in codings THEN <<c>> ELSE <<>>
        order == If("chunked") \o If("gzip") \o If("deflate") \o If("compress")
    IN  IF order = <<>> \/ "identity" \in codings THEN Append(order, "identity") ELSE order

LEMMA NamesWritten ==
  ASSUME NEW v \in SUBSET AllCodings
  PROVE  /\ WrittenNames(v) \in Seq(AllCodings)
         /\ Names(WrittenNames(v)) = IF v = {} THEN {"identity"} ELSE v
<1> DEFINE If(c) == IF c \in v THEN <<c>> ELSE <<>>
           order == If("chunked") \o If("gzip") \o If("deflate") \o If("compress")
<1>1. \A c \in AllCodings : If(c) \in Seq(AllCodings) /\ Names(If(c)) = v \cap {c}
  <2> SUFFICES ASSUME NEW c \in AllCodings PROVE If(c) \in Seq(AllCodings) /\ Names(If(c)) = v \cap {c}
    OBVIOUS
  <2>1. CASE c \in v
    <3>1. <<c>> \in Seq(AllCodings) /\ Len(<<c>>) = 1 /\ <<c>>[1] = c
      OBVIOUS
    <3>2. Names(<<c>>) = {c}
      BY <3>1 DEF Names
    <3> QED BY <2>1, <3>1, <3>2
  <2>2. CASE c \notin v
    BY <2>2 DEF Names
  <2> QED BY <2>1, <2>2
<1>3. WrittenNames(v) = IF order = <<>> \/ "identity" \in v THEN Append(order, "identity") ELSE order
  BY DEF WrittenNames
<1> HIDE DEF If
<1>4. order \in Seq(AllCodings) /\ Names(order) = v \ {"identity"}
  <2>1. PICK c : c = If("chunked")
    OBVIOUS
  <2>2. PICK g : g = If("gzip")
    OBVIOUS
  <2>3. PICK d : d = If("deflate")
    OBVIOUS
  <2>4. PICK p : p = If("compress")
    OBVIOUS
  <2>5. "chunked" \in AllCodings /\ "gzip" \in AllCodings /\ "deflate" \in AllCodings /\ "compress" \in AllCodings
    BY DEF AllCodings
  <2>6. c \in Seq(AllCodings) /\ Names(c) = v \cap {"chunked"}
    BY <1>1, <2>1, <2>5
  <2>7. g \in Seq(AllCodings) /\ Names(g) = v \cap {"gzip"}
    BY <1>1, <2>2, <2>5
  <2>8. d \in Seq(AllCodings) /\ Names(d) = v \cap {"deflate"}
    BY <1>1, <2>3, <2>5
  <2>9. p \in Seq(AllCodings) /\ Names(p) = v \cap {"compress"}
    BY <1>1, <2>4, <2>5
  <2>10. PICK cg : cg = c \o g
    OBVIOUS
  <2>11. cg \in Seq(AllCodings) /\ Names(cg) = Names(c) \cup Names(g)
    BY <2>6, <2>7, <2>10, NamesTogether
  <2>12. PICK cgd : cgd = cg \o d
    OBVIOUS
  <2>13. cgd \in Seq(AllCodings) /\ Names(cgd) = Names(cg) \cup Names(d)
    BY <2>8, <2>11, <2>12, NamesTogether
  <2>14. cgd \o p \in Seq(AllCodings) /\ Names(cgd \o p) = Names(cgd) \cup Names(p)
    BY <2>9, <2>13, NamesTogether
  <2>15. order = cgd \o p
    BY <2>1, <2>2, <2>3, <2>4, <2>10, <2>12
  <2>16. Names(cgd) \cup Names(p) = v \ {"identity"}
    BY <2>6, <2>7, <2>8, <2>9, <2>11, <2>13 DEF AllCodings
  <2> QED BY <2>14, <2>15, <2>16
<1> HIDE DEF order
<1>5. Append(order, "identity") \in Seq(AllCodings) /\ Names(Append(order, "identity")) = Names(order) \cup {"identity"}
  <2>1. "identity" \in AllCodings
    BY DEF AllCodings
  <2> QED BY <1>4, <2>1, NameAdded
<1>6. order = <<>> => Names(order) = {}
  BY DEF Names
<1>7. order # <<>> => Names(order) # {}
  <2> SUFFICES ASSUME order # <<>> PROVE order[1] \in Names(order)
    OBVIOUS
  <2>1. Len(order) \in Nat \ {0}
    BY <1>4, EmptySeq
  <2> QED BY <2>1 DEF Names
<1>8. CASE order = <<>> \/ "identity" \in v
  <2>1. WrittenNames(v) = Append(order, "identity")
    BY <1>3, <1>8
  <2> QED BY <1>4, <1>5, <1>6, <1>8, <2>1
<1>9. CASE order # <<>> /\ "identity" \notin v
  <2>1. WrittenNames(v) = order
    BY <1>3, <1>9
  <2> QED BY <1>4, <1>7, <1>9, <2>1
<1> QED BY <1>8, <1>9

LEMMA CodingsWritten ==
  ASSUME NEW kind \in CodingKinds, NEW v \in SUBSET Codings(kind)
  PROVE  ParseCodings(kind, GenerateCodings(kind, v)).value = (IF v = {} THEN {"identity"} ELSE v)
         /\ GenerateCodings(kind, v) \in Seq(Items)
         /\ Known(kind, GenerateCodings(kind, v)) = GenerateCodings(kind, v)
<1> DEFINE all == WrittenNames(v)
           items == GenerateCodings(kind, v)
<1>1. items = [i \in DOMAIN all |-> [name |-> all[i], q |-> 1]]
  BY DEF GenerateCodings, WrittenNames
<1>2. all \in Seq(AllCodings) /\ Names(all) = (IF v = {} THEN {"identity"} ELSE v)
  <2>1. v \in SUBSET AllCodings
    BY DEF Codings, AllCodings
  <2> QED BY <2>1, NamesWritten
<1> HIDE DEF all, items
<1>3. Names(all) \subseteq Codings(kind)
  BY <1>2 DEF Codings
<1>4. Len(all) \in Nat /\ DOMAIN all = 1 .. Len(all) /\ \A i \in 1 .. Len(all) : all[i] \in AllCodings
  BY <1>2
<1>5. items \in Seq(Items) /\ Len(items) = Len(all) /\ DOMAIN items = 1 .. Len(all)
  <2>1. items \in [1 .. Len(all) -> Items]
    BY <1>1, <1>4 DEF Items, AllCodings
  <2> QED BY <1>4, <2>1
<1>6. \A i \in 1 .. Len(all) : items[i].name = all[i] /\ items[i].q = 1
  BY <1>1, <1>4
<1>7. \A i \in 1 .. Len(all) : Mentioned(kind, items[i].name) = {all[i]}
  <2> SUFFICES ASSUME NEW i \in 1 .. Len(all) PROVE Mentioned(kind, all[i]) = {all[i]}
    BY <1>6
  <2>1. all[i] \in Codings(kind)
    BY <1>3 DEF Names
  <2>2. all[i] # "*"
    BY <2>1 DEF Codings
  <2> QED BY <2>1, <2>2 DEF Mentioned
<1>8. Known(kind, items) = items
  <2>1. {i \in DOMAIN items : Mentioned(kind, items[i].name) = {}} = {}
    BY <1>5, <1>7
  <2> QED BY <2>1 DEF Known
<1>9. Acceptable(kind, items) = Names(all)
  <2>1. \A i \in 1 .. Len(all) : items[i].q > 0
    BY <1>6
  <2> QED BY <1>3, <1>5, <1>7, <2>1 DEF Acceptable, Names
<1>10. ParseCodings(kind, items).value = Acceptable(kind, items)
  BY <1>5, <1>8, ReadMeans DEF ParseCodings
<1> QED BY <1>2, <1>5, <1>8, <1>9, <1>10 DEF items

-----------------------------------------------------------------------------
(* Addresses: each part ends where the sign of the next one is.            *)

LEMMA SameWords ==
  ASSUME NEW S, NEW s \in Seq(S), NEW t \in Seq(S), Len(s) = Len(t), \A i \in 1 .. Len(s) : s[i] = t[i]
  PROVE  s = t
OBVIOUS

LEMMA AfterConcat ==
  ASSUME NEW S, NEW a \in Seq(S), NEW b \in Seq(S)
  PROVE  After(a \o b, Len(a)) = b
<1>1. PICK c : c = a \o b
  OBVIOUS
<1>2. /\ c \in Seq(S) /\ Len(c) = Len(a) + Len(b) /\ Len(a) \in Nat /\ Len(b) \in Nat
      /\ \A i \in 1 .. Len(a) + Len(b) : c[i] = IF i <= Len(a) THEN a[i] ELSE b[i - Len(a)]
  BY <1>1, ConcatProperties
<1>3. \A i \in Len(a) + 1 .. Len(c) : c[i] \in S
  <2>1. \A i \in Len(a) + 1 .. Len(c) : i \in 1 .. Len(c)
    BY <1>2
  <2> QED BY <1>2, <2>1
<1>4. PICK r : r = SubSeq(c, Len(a) + 1, Len(c))
  OBVIOUS
<1>5. /\ r \in Seq(S) /\ Len(r) = IF Len(a) + 1 <= Len(c) THEN Len(c) - (Len(a) + 1) + 1 ELSE 0
      /\ \A i \in 1 .. Len(c) - (Len(a) + 1) + 1 : r[i] = c[Len(a) + 1 + i - 1]
  BY <1>2, <1>3, <1>4, SubSeqProperties
<1>6. Len(r) = Len(b)
  BY <1>2, <1>5
<1>7. ASSUME NEW i \in 1 .. Len(r) PROVE r[i] = b[i]
  <2>1. i \in 1 .. Len(c) - (Len(a) + 1) + 1 /\ Len(a) + 1 + i - 1 = Len(a) + i
    BY <1>2, <1>6
  <2>2. Len(a) + i \in 1 .. Len(a) + Len(b) /\ ~(Len(a) + i <= Len(a)) /\ (Len(a) + i) - Len(a) = i
    BY <1>2, <1>6
  <2> QED BY <1>2, <1>5, <2>1, <2>2
<1>8. r = b
  BY <1>5, <1>6, <1>7, SameWords
<1> QED BY <1>1, <1>4, <1>8 DEF After

LEMMA UntilFound ==
  ASSUME NEW S, NEW a \in Seq(S), NEW b \in Seq(S), NEW stop,
         \A i \in 1 .. Len(a) : a[i] \notin stop,
         b = <<>> \/ b[1] \in stop
  PROVE  UntilSign(a \o b, stop) = a
<1>1. PICK c : c = a \o b
  OBVIOUS
<1>2. /\ c \in Seq(S) /\ Len(c) = Len(a) + Len(b) /\ Len(a) \in Nat /\ Len(b) \in Nat
      /\ \A i \in 1 .. Len(a) + Len(b) : c[i] = IF i <= Len(a) THEN a[i] ELSE b[i - Len(a)]
  BY <1>1, ConcatProperties
<1> DEFINE ends == {i \in DOMAIN c : c[i] \in stop}
           m == CHOOSE i \in ends : \A j \in ends : i <= j
<1>3. DOMAIN c = 1 .. Len(a) + Len(b)
  BY <1>2
<1>4. \A i \in 1 .. Len(a) : i \notin ends
  <2> SUFFICES ASSUME NEW i \in 1 .. Len(a) PROVE c[i] \notin stop
    OBVIOUS
  <2>1. i \in 1 .. Len(a) + Len(b) /\ i <= Len(a)
    BY <1>2
  <2> QED BY <1>2, <2>1
<1>5. UntilSign(c, stop) = IF ends = {} THEN c ELSE SubSeq(c, 1, m - 1)
  BY DEF UntilSign
<1>6. CASE b = <<>>
  <2>1. c = a
    BY <1>1, <1>6, ConcatEmptySeq
  <2>2. ends = {}
    BY <1>3, <1>4, <1>6, <1>2
  <2> QED BY <1>1, <1>5, <2>1, <2>2
<1>7. CASE b # <<>>
  <2>1. Len(b) > 0
    BY <1>2, <1>7, EmptySeq
  <2>2. PICK k : k = Len(a) + 1
    OBVIOUS
  <2>3. k \in 1 .. Len(a) + Len(b) /\ ~(k <= Len(a)) /\ k - Len(a) = 1
    BY <1>2, <2>1, <2>2
  <2>4. k \in ends
    BY <1>2, <1>3, <1>7, <2>3
  <2>5. \A j \in ends : k <= j
    <3> SUFFICES ASSUME NEW j \in ends PROVE k <= j
      OBVIOUS
    <3>1. j \in 1 .. Len(a) + Len(b) /\ ~(j \in 1 .. Len(a))
      BY <1>3, <1>4
    <3> QED BY <1>2, <2>2, <3>1
  <2>6. ends \subseteq Int
    BY <1>3
  <2> HIDE DEF ends
  <2>7. m \in ends /\ \A j \in ends : m <= j
    BY <2>4, <2>5
  <2> HIDE DEF m
  <2>7a. m = k
    BY <1>2, <2>2, <2>4, <2>5, <2>6, <2>7
  <2>8. UntilSign(c, stop) = SubSeq(c, 1, Len(a))
    BY <1>2, <1>5, <2>2, <2>4, <2>7a
  <2>9. PICK r : r = SubSeq(c, 1, Len(a))
    OBVIOUS
  <2>10. \A i \in 1 .. Len(a) : i \in 1 .. Len(a) + Len(b) /\ i <= Len(a)
    BY <1>2
  <2>11. \A i \in 1 .. Len(a) : c[i] \in S /\ c[i] = a[i]
    BY <1>2, <2>10
  <2>12. /\ r \in Seq(S) /\ Len(r) = (IF 1 <= Len(a) THEN Len(a) - 1 + 1 ELSE 0)
         /\ \A i \in 1 .. Len(a) - 1 + 1 : r[i] = c[1 + i - 1]
    BY <1>2, <2>9, <2>11, SubSeqProperties
  <2>13. Len(r) = Len(a) /\ \A i \in 1 .. Len(a) : r[i] = a[i]
    <3>1. Len(r) = Len(a)
      BY <1>2, <2>12
    <3>2. ASSUME NEW i \in 1 .. Len(a) PROVE r[i] = a[i]
      <4>1. i \in 1 .. Len(a) - 1 + 1 /\ 1 + i - 1 = i
        BY <1>2
      <4> QED BY <2>11, <2>12, <4>1
    <3> QED BY <3>1, <3>2
  <2>14. r = a
    BY <2>12, <2>13, SameWords
  <2> QED BY <1>1, <2>8, <2>9, <2>14
<1> QED BY <1>6, <1>7

(* The first word of a concatenation. *)
LEMMA FirstWord ==
  ASSUME NEW S, NEW a \in Seq(S), NEW b \in Seq(S)
  PROVE  /\ a # <<>> => (a \o b)[1] = a[1] /\ a \o b # <<>>
         /\ a = <<>> => a \o b = b
<1>1. CASE a # <<>>
  <2>1. Len(a) \in Nat \ {0} /\ Len(b) \in Nat
    BY <1>1, EmptySeq
  <2>2. 1 \in 1 .. Len(a) + Len(b) /\ 1 <= Len(a)
    BY <2>1
  <2>3. PICK c : c = a \o b
    OBVIOUS
  <2>4. c \in Seq(S) /\ Len(c) = Len(a) + Len(b) /\ c[1] = a[1]
    BY <2>2, <2>3, ConcatProperties
  <2>5. c # <<>>
    BY <2>1, <2>4
  <2> QED BY <1>1, <2>3, <2>4, <2>5
<1>2. CASE a = <<>>
  BY <1>2, ConcatEmptySeq
<1> QED BY <1>1, <1>2

LEMMA PrefixAfter ==
  ASSUME NEW S, NEW s \in Seq(S), NEW p \in Seq(S), NEW r \in Seq(S), NEW words, words = s \o (p \o r)
  PROVE  IsPrefix(p, After(words, Len(s)))
<1>1. PICK pr : pr = p \o r
  OBVIOUS
<1>2. pr \in Seq(S) /\ Len(pr) = Len(p) + Len(r) /\ Len(p) \in Nat /\ Len(r) \in Nat
      /\ \A i \in 1 .. Len(p) + Len(r) : pr[i] = IF i <= Len(p) THEN p[i] ELSE r[i - Len(p)]
  BY <1>1, ConcatProperties
<1>3. After(words, Len(s)) = pr
  BY <1>1, <1>2, AfterConcat
<1>4. \A i \in 1 .. Len(p) : i \in 1 .. Len(p) + Len(r) /\ i <= Len(p)
  BY <1>2
<1>5. \A i \in 1 .. Len(p) : pr[i] = p[i] /\ pr[i] \in S
  BY <1>2, <1>4
<1>6. PICK q : q = SubSeq(pr, 1, Len(p))
  OBVIOUS
<1>7. /\ q \in Seq(S) /\ Len(q) = (IF 1 <= Len(p) THEN Len(p) - 1 + 1 ELSE 0)
      /\ \A i \in 1 .. Len(p) - 1 + 1 : q[i] = pr[1 + i - 1]
  BY <1>2, <1>5, <1>6, SubSeqProperties
<1>8. Len(q) = Len(p)
  BY <1>2, <1>7
<1>9. ASSUME NEW i \in 1 .. Len(q) PROVE q[i] = p[i]
  <2>1. i \in 1 .. Len(p) - 1 + 1 /\ 1 + i - 1 = i
    BY <1>2, <1>8
  <2> QED BY <1>5, <1>7, <1>8, <2>1
<1>10. q = p
  BY <1>7, <1>8, <1>9, SameWords
<1>11. SubSeq(p, 1, Len(p)) = p
  BY SubSeqFull
<1>12. Len(p) <= Len(pr)
  BY <1>2
<1> QED BY <1>3, <1>6, <1>10, <1>11, <1>12 DEF IsPrefix

(* A text that begins with a scheme is also a scheme's name and a sign. *)
LEMMA SchemeSplit ==
  ASSUME NEW S, NEW s \in Seq(S), NEW p \in Seq(S), NEW r \in Seq(S), NEW w \in Seq(S), w = s \o p
  PROVE  w \o r = s \o (p \o r)
BY ConcatAssociative

(* What follows the scheme of an address. *)
Rest(a) == a.host \o (PortWords(a.port) \o (a.path \o a.anchor))

LEMMA PartsTyped ==
  ASSUME NEW a, Address(a)
  PROVE  /\ SchemeWords(a.scheme) \in Seq(UrlWords) /\ PortWords(a.port) \in Seq(UrlWords)
         /\ a.host \in Seq(UrlWords) /\ a.path \in Seq(UrlWords) /\ a.anchor \in Seq(UrlWords)
         /\ a.path \o a.anchor \in Seq(UrlWords)
         /\ PortWords(a.port) \o (a.path \o a.anchor) \in Seq(UrlWords)
         /\ Rest(a) \in Seq(UrlWords)
         /\ Words(a) = SchemeWords(a.scheme) \o Rest(a)
<1>1. a.host \in Seq(UrlWords) /\ a.path \in Seq(UrlWords) /\ a.anchor \in Seq(UrlWords)
  BY DEF Address
<1>2. SchemeWords(a.scheme) \in Seq(UrlWords)
  <2>1. {"http", "s", ":", "/"} \subseteq UrlWords
    BY DEF UrlWords, Signs
  <2>2. <<>> \in Seq(UrlWords) /\ <<"http", ":", "/", "/">> \in Seq(UrlWords)
        /\ <<"http", "s", ":", "/", "/">> \in Seq(UrlWords)
    BY <2>1
  <2> QED BY <2>2 DEF SchemeWords, Address
<1>3. PortWords(a.port) \in Seq(UrlWords)
  <2>1. PICK port : port = a.port
    OBVIOUS
  <2>2. port \in Ports \cup {""}
    BY <2>1 DEF Address
  <2>3. ":" \in UrlWords /\ Ports \subseteq UrlWords
    BY DEF UrlWords, Signs
  <2>4. CASE port = ""
    <3>1. PortWords(port) = <<>>
      BY <2>4 DEF PortWords
    <3> QED BY <2>1, <3>1
  <2>5. CASE port # ""
    <3>1. port \in UrlWords
      BY <2>2, <2>3, <2>5
    <3>2. PortWords(port) = <<":", port>>
      BY <2>5 DEF PortWords
    <3>3. <<":", port>> \in Seq(UrlWords)
      BY <2>3, <3>1
    <3> QED BY <2>1, <3>2, <3>3
  <2> QED BY <2>4, <2>5
<1> DEFINE w == SchemeWords(a.scheme)
           h == a.host
           p == PortWords(a.port)
           t == a.path
           n == a.anchor
<1>4. Words(a) = w \o (h \o (p \o (t \o n))) /\ Rest(a) = h \o (p \o (t \o n))
  BY DEF Words, Rest
<1> HIDE DEF w, h, p, t, n
<1>5. w \in Seq(UrlWords) /\ h \in Seq(UrlWords) /\ p \in Seq(UrlWords) /\ t \in Seq(UrlWords) /\ n \in Seq(UrlWords)
  BY <1>1, <1>2, <1>3 DEF w, h, p, t, n
<1>6. t \o n \in Seq(UrlWords)
  BY <1>5, ConcatProperties
<1>7. p \o (t \o n) \in Seq(UrlWords)
  BY <1>5, <1>6, ConcatProperties
<1>8. h \o (p \o (t \o n)) \in Seq(UrlWords)
  BY <1>5, <1>7, ConcatProperties
<1> QED BY <1>1, <1>2, <1>3, <1>4, <1>6, <1>7, <1>8 DEF w, h, p, t, n

(* The path and the anchor after a host and a port. *)
LEMMA TailTaken ==
  ASSUME NEW a, Address(a)
  PROVE  LET x == a.path \o a.anchor
             tail == PortWords(a.port) \o x
             port == Len(tail) > 1 /\ tail[1] = ":" /\ tail[2] \in Ports
         IN  /\ tail = <<>> \/ tail[1] \in Signs
             /\ port <=> a.port # ""
             /\ port => tail[2] = a.port
             /\ (IF port THEN After(tail, 2) ELSE tail) = x
             /\ UntilSign(x, {"#"}) = a.path
<1> DEFINE x == a.path \o a.anchor
           tail == PortWords(a.port) \o x
           port == Len(tail) > 1 /\ tail[1] = ":" /\ tail[2] \in Ports
<1>1. a.path \in Seq(UrlWords) /\ a.anchor \in Seq(UrlWords) /\ x \in Seq(UrlWords)
      /\ PortWords(a.port) \in Seq(UrlWords)
  BY PartsTyped
<1>2. /\ a.path = <<>> \/ a.path[1] \in {"/", "?"}
      /\ a.anchor = <<>> \/ a.anchor[1] = "#"
      /\ \A i \in 1 .. Len(a.path) : a.path[i] # "#"
      /\ a.port \in Ports \cup {""}
  <2>1. Begins(a.path, {"/", "?"}) /\ Begins(a.anchor, {"#"}) /\ a.port \in Ports \cup {""}
    BY DEF Address
  <2>2. DOMAIN a.path = 1 .. Len(a.path)
    BY <1>1
  <2>3. \A i \in DOMAIN a.path : a.path[i] # "#"
    BY DEF Address
  <2> QED BY <2>1, <2>2, <2>3 DEF Begins
<1>3. UntilSign(x, {"#"}) = a.path
  <2>1. PICK t : t = a.path
    OBVIOUS
  <2>2. PICK n : n = a.anchor
    OBVIOUS
  <2>3. PICK stop : stop = {"#"}
    OBVIOUS
  <2>4. /\ t \in Seq(UrlWords) /\ n \in Seq(UrlWords)
        /\ \A i \in 1 .. Len(t) : t[i] \notin stop
        /\ n = <<>> \/ n[1] \in stop
    BY <1>1, <1>2, <2>1, <2>2, <2>3
  <2>5. UntilSign(t \o n, stop) = t
    BY <2>4, UntilFound
  <2> QED BY <2>1, <2>2, <2>3, <2>5
<1>4. x = <<>> \/ x[1] \in {"/", "?", "#"}
  <2>1. PICK t : t = a.path
    OBVIOUS
  <2>2. PICK n : n = a.anchor
    OBVIOUS
  <2>3. /\ t # <<>> => (t \o n)[1] = t[1] /\ t \o n # <<>>
        /\ t = <<>> => t \o n = n
    BY <1>1, <2>1, <2>2, FirstWord
  <2> QED BY <1>2, <2>1, <2>2, <2>3
<1> HIDE DEF x
<1>5. CASE a.port = ""
  <2>1. PortWords(a.port) = <<>>
    BY <1>5 DEF PortWords
  <2>2. tail = x
    BY <1>1, <2>1, ConcatEmptySeq
  <2>3. Len(tail) > 1 => x # <<>>
    BY <2>2
  <2>4. ~port
    BY <1>4, <2>2, <2>3
  <2>5. tail = <<>> \/ tail[1] \in Signs
    BY <1>4, <2>2 DEF Signs
  <2> HIDE DEF tail, port
  <2>6. (IF port THEN After(tail, 2) ELSE tail) = x
    BY <2>2, <2>4
  <2>7. UntilSign(x, {"#"}) = a.path /\ (port <=> a.port # "") /\ (port => tail[2] = a.port)
    BY <1>3, <1>5, <2>4
  <2> QED BY <2>5, <2>6, <2>7 DEF tail, port, x
<1>6. CASE a.port # ""
  <2>1. PICK p : p = PortWords(a.port)
    OBVIOUS
  <2>2. p = <<":", a.port>> /\ Len(p) = 2 /\ p \in Seq(UrlWords)
    BY <1>1, <1>6, <2>1 DEF PortWords
  <2>3. PICK c : c = p \o x
    OBVIOUS
  <2>4. Len(c) = 2 + Len(x) /\ Len(x) \in Nat
        /\ \A i \in 1 .. 2 + Len(x) : c[i] = IF i <= 2 THEN p[i] ELSE x[i - 2]
    BY <1>1, <2>2, <2>3, ConcatProperties
  <2>5. 1 \in 1 .. 2 + Len(x) /\ 2 \in 1 .. 2 + Len(x)
    BY <2>4
  <2>6. c[1] = ":" /\ c[2] = a.port /\ Len(c) > 1
    BY <2>2, <2>4, <2>5
  <2>7. tail = c
    BY <2>1, <2>3
  <2>8. After(c, 2) = x
    BY <1>1, <2>2, <2>3, AfterConcat
  <2>9. port
    BY <1>2, <1>6, <2>6, <2>7
  <2>10. tail[1] \in Signs
    BY <2>6, <2>7 DEF Signs
  <2>11. tail[2] = a.port
    BY <2>6, <2>7
  <2> HIDE DEF tail, port
  <2>12. (IF port THEN After(tail, 2) ELSE tail) = x
    BY <2>7, <2>8, <2>9
  <2> QED BY <1>3, <1>6, <2>9, <2>10, <2>11, <2>12 DEF tail, port, x
<1> QED BY <1>5, <1>6

LEMMA SplitWords ==
  ASSUME NEW S, NEW s \in Seq(S), NEW p \in Seq(S), NEW w \in Seq(S),
         Len(w) = Len(s) + Len(p),
         \A i \in 1 .. Len(s) : w[i] = s[i],
         \A i \in 1 .. Len(p) : w[Len(s) + i] = p[i]
  PROVE  w = s \o p
OBVIOUS

(* A scheme is a name before the sign, and the rest follows it. *)
LEMMA SchemeSkipped ==
  ASSUME NEW S, NEW s \in Seq(S), NEW p \in Seq(S), NEW r \in Seq(S), NEW w \in Seq(S), w = s \o p
  PROVE  IsPrefix(p, After(w \o r, Len(s)))
<1>1. PICK words : words = w \o r
  OBVIOUS
<1>2. words = s \o (p \o r)
  BY <1>1, SchemeSplit
<1>3. IsPrefix(p, After(words, Len(s)))
  BY <1>2, PrefixAfter
<1> QED BY <1>1, <1>3

(* Past the scheme, if there is one. *)
LEMMA SchemeTaken ==
  ASSUME NEW a, Address(a), a.host[1] # "http" \/ a.scheme # "none"
  PROVE  LET words == Words(a)
             http  == words # <<>> /\ words[1] = "http"
             https == http /\ Len(words) > 1 /\ words[2] = "s"
             scheme == IF https THEN 2 ELSE 1
         IN  /\ http <=> a.scheme # "none"
             /\ https <=> a.scheme = "https"
             /\ (IF http /\ IsPrefix(<<":", "/", "/">>, After(words, scheme))
                 THEN After(words, scheme + 3) ELSE words) = Rest(a)
<1>1. PICK r : r = Rest(a)
  OBVIOUS
<1>2. PICK words : words = Words(a)
  OBVIOUS
<1>3. PICK colon : colon = <<":", "/", "/">>
  OBVIOUS
<1> DEFINE http  == words # <<>> /\ words[1] = "http"
           https == http /\ Len(words) > 1 /\ words[2] = "s"
           scheme == IF https THEN 2 ELSE 1
<1>4. r \in Seq(UrlWords) /\ words = SchemeWords(a.scheme) \o r
  BY <1>1, <1>2, PartsTyped
<1>5. {"http", "s", ":", "/"} \subseteq UrlWords
  BY DEF UrlWords, Signs
<1>6. colon \in Seq(UrlWords) /\ Len(colon) = 3
      /\ colon[1] = ":" /\ colon[2] = "/" /\ colon[3] = "/"
  BY <1>3, <1>5
<1>7. /\ http <=> a.scheme # "none"
      /\ https <=> a.scheme = "https"
      /\ (IF http /\ IsPrefix(colon, After(words, scheme)) THEN After(words, scheme + 3) ELSE words) = r
  <2>1. CASE a.scheme = "none"
    <3>1. words = r
      BY <1>4, <2>1, ConcatEmptySeq DEF SchemeWords
    <3>2. r[1] = a.host[1]
      <4>1. a.host \in Seq(UrlWords) /\ PortWords(a.port) \o (a.path \o a.anchor) \in Seq(UrlWords)
        BY PartsTyped
      <4>2. a.host # <<>>
        BY DEF Address, WithoutSigns
      <4> QED BY <1>1, <4>1, <4>2, FirstWord DEF Rest
    <3>3. ~http
      BY <2>1, <3>1, <3>2
    <3>4. http <=> a.scheme # "none"
      BY <2>1, <3>3
    <3>5. https <=> a.scheme = "https"
      BY <2>1, <3>3
    <3> HIDE DEF http, https, scheme
    <3> QED BY <3>1, <3>3, <3>4, <3>5
  <2>2. CASE a.scheme = "http"
    <3>1. PICK w : w = <<"http", ":", "/", "/">>
      OBVIOUS
    <3>2. PICK s : s = <<"http">>
      OBVIOUS
    <3>3. s \in Seq(UrlWords) /\ Len(s) = 1 /\ s[1] = "http"
      BY <1>5, <3>2
    <3>4. w \in Seq(UrlWords) /\ Len(w) = 4
          /\ w[1] = "http" /\ w[2] = ":" /\ w[3] = "/" /\ w[4] = "/"
      BY <1>5, <3>1
    <3>5. words = w \o r
      BY <1>4, <2>2, <3>1 DEF SchemeWords
    <3>6. IsPrefix(colon, After(words, 1)) /\ After(words, 4) = r
      <4>1. Len(w) = Len(s) + Len(colon)
        BY <1>6, <3>3, <3>4
      <4>2. \A i \in 1 .. Len(s) : w[i] = s[i]
        BY <3>3, <3>4
      <4>3. \A i \in 1 .. Len(colon) : w[Len(s) + i] = colon[i]
        BY <1>6, <3>3, <3>4
      <4>4. /\ s \in Seq(UrlWords) /\ colon \in Seq(UrlWords)
            /\ w \in Seq(UrlWords) /\ r \in Seq(UrlWords)
        BY <1>4, <1>6, <3>3, <3>4
      <4>5. w = s \o colon
        BY <4>1, <4>2, <4>3, <4>4, SplitWords
      <4>6. IsPrefix(colon, After(w \o r, Len(s)))
        BY <4>4, <4>5, SchemeSkipped
      <4>7. After(w \o r, Len(w)) = r
        BY <4>4, AfterConcat
      <4> QED BY <3>3, <3>4, <3>5, <4>6, <4>7
    <3>7. words # <<>> /\ words[1] = w[1] /\ Len(words) > 1 /\ words[2] = w[2]
      <4>0. w \in Seq(UrlWords) /\ r \in Seq(UrlWords)
        BY <1>4, <3>4
      <4>1. /\ words \in Seq(UrlWords) /\ Len(words) = Len(w) + Len(r) /\ Len(r) \in Nat
            /\ \A i \in 1 .. Len(w) + Len(r) : words[i] = IF i <= Len(w) THEN w[i] ELSE r[i - Len(w)]
        BY <3>5, <4>0, ConcatProperties
      <4>2. 1 \in 1 .. Len(w) + Len(r) /\ 2 \in 1 .. Len(w) + Len(r) /\ 1 <= Len(w) /\ 2 <= Len(w)
        BY <3>4, <4>1
      <4> QED BY <4>1, <4>2
    <3>8. http /\ ~https
      BY <3>4, <3>7
    <3>9. http <=> a.scheme # "none"
      BY <2>2, <3>8
    <3>10. https <=> a.scheme = "https"
      BY <2>2, <3>8
    <3>11. scheme = 1
      BY <3>8
    <3> HIDE DEF http, https, scheme
    <3>12. scheme + 3 = 4
      BY <3>11
    <3> QED BY <3>6, <3>8, <3>9, <3>10, <3>11, <3>12
  <2>3. CASE a.scheme = "https"
    <3>1. PICK w : w = <<"http", "s", ":", "/", "/">>
      OBVIOUS
    <3>2. PICK s : s = <<"http", "s">>
      OBVIOUS
    <3>3. s \in Seq(UrlWords) /\ Len(s) = 2 /\ s[1] = "http" /\ s[2] = "s"
      BY <1>5, <3>2
    <3>4. w \in Seq(UrlWords) /\ Len(w) = 5
          /\ w[1] = "http" /\ w[2] = "s" /\ w[3] = ":" /\ w[4] = "/" /\ w[5] = "/"
      BY <1>5, <3>1
    <3>5. words = w \o r
      BY <1>4, <2>3, <3>1 DEF SchemeWords
    <3>6. IsPrefix(colon, After(words, 2)) /\ After(words, 5) = r
      <4>1. Len(w) = Len(s) + Len(colon)
        BY <1>6, <3>3, <3>4
      <4>2. \A i \in 1 .. Len(s) : w[i] = s[i]
        BY <3>3, <3>4
      <4>3. \A i \in 1 .. Len(colon) : w[Len(s) + i] = colon[i]
        BY <1>6, <3>3, <3>4
      <4>4. /\ s \in Seq(UrlWords) /\ colon \in Seq(UrlWords)
            /\ w \in Seq(UrlWords) /\ r \in Seq(UrlWords)
        BY <1>4, <1>6, <3>3, <3>4
      <4>5. w = s \o colon
        BY <4>1, <4>2, <4>3, <4>4, SplitWords
      <4>6. IsPrefix(colon, After(w \o r, Len(s)))
        BY <4>4, <4>5, SchemeSkipped
      <4>7. After(w \o r, Len(w)) = r
        BY <4>4, AfterConcat
      <4> QED BY <3>3, <3>4, <3>5, <4>6, <4>7
    <3>7. words # <<>> /\ words[1] = w[1] /\ Len(words) > 1 /\ words[2] = w[2]
      <4>0. w \in Seq(UrlWords) /\ r \in Seq(UrlWords)
        BY <1>4, <3>4
      <4>1. /\ words \in Seq(UrlWords) /\ Len(words) = Len(w) + Len(r) /\ Len(r) \in Nat
            /\ \A i \in 1 .. Len(w) + Len(r) : words[i] = IF i <= Len(w) THEN w[i] ELSE r[i - Len(w)]
        BY <3>5, <4>0, ConcatProperties
      <4>2. 1 \in 1 .. Len(w) + Len(r) /\ 2 \in 1 .. Len(w) + Len(r) /\ 1 <= Len(w) /\ 2 <= Len(w)
        BY <3>4, <4>1
      <4> QED BY <4>1, <4>2
    <3>8. http /\ https
      BY <3>4, <3>7
    <3>9. http <=> a.scheme # "none"
      BY <2>3, <3>8
    <3>10. https <=> a.scheme = "https"
      BY <2>3, <3>8
    <3>11. scheme = 2
      BY <3>8
    <3> HIDE DEF http, https, scheme
    <3>12. scheme + 3 = 5
      BY <3>11
    <3> QED BY <3>6, <3>8, <3>9, <3>10, <3>11, <3>12
  <2> QED BY <2>1, <2>2, <2>3 DEF Address
<1> HIDE DEF http, https, scheme
<1> QED BY <1>1, <1>2, <1>3, <1>7 DEF http, https, scheme

(* A text put together of the parts of an address is taken apart into them. *)
LEMMA AddressTaken ==
  ASSUME NEW a, Address(a)
  PROVE  AddressExact(a, parseUrl(Words(a)))
<1> SUFFICES ASSUME a.host[1] # "http" \/ a.scheme # "none"
             PROVE  LET to == parseUrl(Words(a)) IN
                    /\ to.ok /\ to.host = a.host
                    /\ to.service = (IF a.port # "" THEN a.port ELSE IF a.scheme = "https" THEN "443" ELSE "80")
                    /\ to.ssl = (a.scheme = "https" \/ (a.scheme = "none" /\ a.port = "443"))
                    /\ to.path = (IF a.path = <<>> THEN <<"/">> ELSE a.path)
  BY DEF AddressExact
<1> DEFINE words  == Words(a)
           http   == words # <<>> /\ words[1] = "http"
           https  == http /\ Len(words) > 1 /\ words[2] = "s"
           scheme == IF https THEN 2 ELSE 1
           rest   == IF http /\ IsPrefix(<<":", "/", "/">>, After(words, scheme))
                     THEN After(words, scheme + 3) ELSE words
           host   == UntilSign(rest, Signs)
           tail   == After(rest, Len(host))
           port   == Len(tail) > 1 /\ tail[1] = ":" /\ tail[2] \in Ports
           path   == UntilSign(IF port THEN After(tail, 2) ELSE tail, {"#"})
           service == IF port THEN tail[2] ELSE IF https THEN "443" ELSE "80"
<1>1. (http <=> a.scheme # "none") /\ (https <=> a.scheme = "https") /\ rest = Rest(a)
  BY SchemeTaken
<1>2. parseUrl(words) = [ok |-> host # <<>>, host |-> host, service |-> service,
                         path |-> IF path = <<>> THEN <<"/">> ELSE path,
                         ssl |-> https \/ (~http /\ service = "443")]
  BY DEF parseUrl
<1> HIDE DEF http, https, scheme, rest
<1>3. PICK h : h = a.host
  OBVIOUS
<1>4. PICK t : t = PortWords(a.port) \o (a.path \o a.anchor)
  OBVIOUS
<1>5. h \in Seq(UrlWords) /\ t \in Seq(UrlWords) /\ rest = h \o t
  BY <1>1, <1>3, <1>4, PartsTyped DEF Rest
<1>6. h # <<>> /\ \A i \in 1 .. Len(h) : h[i] \notin Signs
  <2>1. DOMAIN h = 1 .. Len(h)
    BY <1>5
  <2> QED BY <1>3, <2>1 DEF Address, WithoutSigns
<1>7. PICK stop : stop = Signs
  OBVIOUS
<1>8. t = <<>> \/ t[1] \in stop
  BY <1>4, <1>7, TailTaken
<1>9. host = h
  BY <1>5, <1>6, <1>7, <1>8, UntilFound
<1> HIDE DEF host
<1>10. tail = t
  BY <1>5, <1>9, AfterConcat
<1>11. (port <=> a.port # "") /\ (port => tail[2] = a.port) /\ path = a.path
  <2>1. /\ (Len(t) > 1 /\ t[1] = ":" /\ t[2] \in Ports) <=> a.port # ""
        /\ (Len(t) > 1 /\ t[1] = ":" /\ t[2] \in Ports) => t[2] = a.port
        /\ UntilSign(IF Len(t) > 1 /\ t[1] = ":" /\ t[2] \in Ports THEN After(t, 2) ELSE t, {"#"}) = a.path
    BY <1>4, TailTaken
  <2> HIDE DEF tail
  <2> QED BY <1>10, <2>1
<1> HIDE DEF tail, port, path
<1>12. service = (IF a.port # "" THEN a.port ELSE IF a.scheme = "https" THEN "443" ELSE "80")
  BY <1>1, <1>11
<1>13. https \/ (~http /\ service = "443") <=> (a.scheme = "https" \/ (a.scheme = "none" /\ a.port = "443"))
  BY <1>1, <1>12
<1> HIDE DEF service, words
<1>14. PICK to : to = parseUrl(words)
  OBVIOUS
<1>15. /\ to.ok = (host # <<>>) /\ to.host = host /\ to.service = service
       /\ to.path = (IF path = <<>> THEN <<"/">> ELSE path)
       /\ to.ssl = (https \/ (~http /\ service = "443"))
  BY <1>2, <1>14
<1>16. /\ to.ok /\ to.host = a.host
       /\ to.service = (IF a.port # "" THEN a.port ELSE IF a.scheme = "https" THEN "443" ELSE "80")
       /\ to.ssl = (a.scheme = "https" \/ (a.scheme = "none" /\ a.port = "443"))
       /\ to.path = (IF a.path = <<>> THEN <<"/">> ELSE a.path)
  BY <1>3, <1>6, <1>9, <1>11, <1>12, <1>13, <1>15
<1> QED BY <1>14, <1>16 DEF words

-----------------------------------------------------------------------------
(* A HeaderValue: what is read out of a field and what is written to one.  *)

LEMMA MomentRead ==
  ASSUME NEW t \in Moments, NEW text \in Forms(t),
         text.form = "rfc850" => gmtime(Moment(text)).year >= 100
  PROVE  timegm([text EXCEPT !.year = YearOf(text)]) = Moment(text)
<1>1. PICK m : m = Moment(text)
  OBVIOUS
<1>2. m \in Moments /\ text \in Forms(m)
  BY <1>1 DEF Moment
<1>3. Time(m)
  BY <1>2, TimesTyped
<1>4. text.form = "rfc850" => gmtime(m).year >= 100
  BY <1>1
<1> QED BY <1>1, <1>2, <1>3, <1>4, FormRead

LEMMA FormsOf ==
  ASSUME NEW t, NEW text \in Forms(t)
  PROVE  text.form \in {"rfc1123", "asctime", "rfc850"} /\ text.days \in {"short", "full"}
BY DEF Forms, DateText

LEMMA DateTextExact ==
  ASSUME NEW text \in HeaderTexts("Date"), NEW h,
         h = [kind |-> "Date", given |-> TRUE, text |-> text, value |-> Parse("Date", text).value,
              isCorrect |-> Parse("Date", text).ok]
  PROVE  Exact(h)
<1>1. PICK t \in Moments : text \in Forms(t)
  BY DEF HeaderTexts
<1>2. text.form \in {"rfc1123", "asctime", "rfc850"} /\ text.days \in {"short", "full"}
  BY <1>1, FormsOf
<1>3. PICK value : value = timegm([text EXCEPT !.year = YearOf(text)])
  OBVIOUS
<1>4. PICK parsed : parsed = Parse("Date", text)
  OBVIOUS
<1>5. parsed = IF (text.form = "rfc1123") # (text.days = "short")
               THEN [ok |-> FALSE, value |-> 0] ELSE [ok |-> TRUE, value |-> value]
  BY <1>2, <1>3, <1>4 DEF Parse, ParseDate
<1>6. /\ h.kind = "Date" /\ h.given /\ h.text = text
      /\ h.value = parsed.value /\ h.isCorrect = parsed.ok /\ Parse(h.kind, h.text) = parsed
  BY <1>4
<1>7. CASE text.form = "rfc1123" /\ text.days = "short"
  <2>1. parsed.ok /\ parsed.value = value
    BY <1>5, <1>7
  <2>2. value = Moment(text)
    BY <1>1, <1>3, <1>7, MomentRead
  <2> QED BY <1>6, <1>7, <2>1, <2>2 DEF Exact
<1>8. CASE text.form = "rfc850"
  <2>1. parsed.ok = Proper(text) /\ (parsed.ok => parsed.value = value)
    BY <1>2, <1>5, <1>8 DEF Proper
  <2>2. gmtime(Moment(text)).year >= 100 => value = Moment(text)
    BY <1>1, <1>3, MomentRead
  <2> QED BY <1>6, <1>8, <2>1, <2>2 DEF Exact
<1>9. CASE text.form # "rfc850" /\ ~(text.form = "rfc1123" /\ text.days = "short")
  <2>1. ~(text.form = "rfc1123" /\ Proper(text))
    BY <1>2, <1>9 DEF Proper
  <2> QED BY <1>6, <1>9, <2>1 DEF Exact
<1> QED BY <1>7, <1>8, <1>9

LEMMA DateValueExact ==
  ASSUME NEW v \in Moments, NEW h,
         h = [kind |-> "Date", given |-> TRUE, text |-> Generate("Date", v), value |-> v, isCorrect |-> TRUE]
  PROVE  Exact(h)
<1>1. PICK text : text = Generate("Date", v)
  OBVIOUS
<1>2. text \in Forms(v) /\ text.form = "rfc1123" /\ text.days = "short"
  BY <1>1, TimesTyped, DateReadBack
<1>3. timegm([text EXCEPT !.year = YearOf(text)]) = v
  BY <1>2, TimesTyped, FormRead
<1>4. v = Moment(text)
  BY <1>2, <1>3, MomentRead
<1>5. h.kind = "Date" /\ h.given /\ h.text = text /\ h.value = v /\ h.isCorrect
  BY <1>1
<1> QED BY <1>2, <1>4, <1>5 DEF Exact, Proper

LEMMA CodingsExact ==
  ASSUME NEW kind \in CodingKinds, NEW text, NEW v, NEW ok, NEW h,
         h = [kind |-> kind, given |-> TRUE, text |-> text, value |-> v, isCorrect |-> ok],
         ok => \/ v = Acceptable(kind, Known(kind, text))
               \/ v = {} /\ Parse(kind, text).value = {"identity"}
  PROVE  Exact(h)
<1>1. h.kind = kind /\ h.given /\ h.text = text /\ h.value = v /\ h.isCorrect = ok
  OBVIOUS
<1>2. kind \notin {"none", "address", "Date"} /\ kind \in {"TransferEncoding", "ContentEncoding"}
  BY DEF CodingKinds
<1> QED BY <1>1, <1>2 DEF Exact

LEMMA ParseKinds ==
  ASSUME NEW kind \in CodingKinds, NEW text
  PROVE  /\ Parse(kind, text) = ParseCodings(kind, text) /\ Generate(kind, text) = GenerateCodings(kind, text)
         /\ HeaderTexts(kind) = CodingLists /\ ValuesOf(kind) = SUBSET Codings(kind)
<1>1. kind \notin {"Date", "Unsigned", "Connection"}
  BY DEF CodingKinds
<1> QED BY <1>1 DEF Parse, Generate, HeaderTexts, ValuesOf

(* The other kinds: what was read is what would be read. *)
LEMMA OtherExact ==
  ASSUME NEW kind \in {"Unsigned", "Connection"}, NEW text, NEW v, NEW ok, NEW h,
         h = [kind |-> kind, given |-> TRUE, text |-> text, value |-> v, isCorrect |-> ok],
         ok => Parse(kind, text).value = v
  PROVE  Exact(h)
<1>1. h.kind = kind /\ h.given /\ h.text = text /\ h.value = v /\ h.isCorrect = ok
  OBVIOUS
<1>2. kind \notin {"none", "address", "Date", "TransferEncoding", "ContentEncoding"}
  OBVIOUS
<1> QED BY <1>1, <1>2 DEF Exact

LEMMA OtherReadBack ==
  ASSUME NEW kind \in {"Unsigned", "Connection"}, NEW v \in ValuesOf(kind)
  PROVE  Parse(kind, Generate(kind, v)).value = v
<1>1. CASE kind = "Unsigned"
  <2>1. v \in Int /\ v >= 0 /\ v < SizeLimit
    BY <1>1, ValuesAssumption DEF ValuesOf
  <2>2. Generate(kind, v) = [n |-> v]
    BY <1>1 DEF Generate
  <2>3. Parse(kind, [n |-> v]) = ParseUnsigned([n |-> v])
    BY <1>1 DEF Parse
  <2> QED BY <2>1, <2>2, <2>3 DEF ParseUnsigned
<1>2. CASE kind = "Connection"
  <2>1. v \in {"close", "keepAlive"}
    BY <1>2 DEF ValuesOf
  <2>2. Generate(kind, v) = GenerateConnection(v)
    BY <1>2 DEF Generate
  <2>3. Head(GenerateConnection(v)) = IF v = "close" THEN "Close" ELSE "Keep-Alive"
    BY DEF GenerateConnection
  <2>4. Parse(kind, GenerateConnection(v)) = ParseConnection(GenerateConnection(v))
    BY <1>2 DEF Parse
  <2> QED BY <2>1, <2>2, <2>3, <2>4 DEF ParseConnection
<1> QED BY <1>1, <1>2

LEMMA TextExact ==
  ASSUME NEW kind \in Kinds, NEW text \in HeaderTexts(kind), AssignText(kind, text)
  PROVE  ValuesExact'
<1>1. PICK h : h = headerValue'
  OBVIOUS
<1>2. h = [kind |-> kind, given |-> TRUE, text |-> text, value |-> Parse(kind, text).value,
           isCorrect |-> Parse(kind, text).ok]
  BY <1>1 DEF AssignText
<1>3. Exact(h)
  <2>1. CASE kind = "Date"
    BY <1>2, <2>1, DateTextExact
  <2>2. CASE kind \in CodingKinds
    <3>1. text \in Seq(Items)
      BY <2>2, ParseKinds, ValuesAssumption
    <3>2. Known(kind, text) \in Seq(Items)
      BY <3>1, KnownTyped
    <3>3. Parse(kind, text).value = Acceptable(kind, Known(kind, text))
      BY <2>2, <3>2, ParseKinds, ReadMeans DEF ParseCodings
    <3> QED BY <1>2, <2>2, <3>3, CodingsExact
  <2>3. CASE kind \in {"Unsigned", "Connection"}
    BY <1>2, <2>3, OtherExact
  <2> QED BY <2>1, <2>2, <2>3 DEF Kinds, CodingKinds
<1> QED BY <1>1, <1>3 DEF ValuesExact

LEMMA ValueExact ==
  ASSUME NEW kind \in Kinds, NEW v \in ValuesOf(kind), AssignValue(kind, v)
  PROVE  ValuesExact'
<1>1. PICK h : h = headerValue'
  OBVIOUS
<1>2. h = [kind |-> kind, given |-> TRUE, text |-> Generate(kind, v), value |-> v, isCorrect |-> TRUE]
  BY <1>1 DEF AssignValue
<1>3. Exact(h)
  <2>1. CASE kind = "Date"
    <3>1. v \in Moments
      BY <2>1 DEF ValuesOf
    <3> QED BY <1>2, <2>1, <3>1, DateValueExact
  <2>2. CASE kind \in CodingKinds
    <3>1. v \in SUBSET Codings(kind) /\ Generate(kind, v) = GenerateCodings(kind, v)
      BY <2>2, ParseKinds
    <3>2. PICK text : text = GenerateCodings(kind, v)
      OBVIOUS
    <3>3. /\ ParseCodings(kind, text).value = (IF v = {} THEN {"identity"} ELSE v)
          /\ text \in Seq(Items) /\ Known(kind, text) = text
      BY <2>2, <3>1, <3>2, CodingsWritten
    <3>4. ParseCodings(kind, text).value = Acceptable(kind, Known(kind, text))
      BY <3>3, ReadMeans DEF ParseCodings
    <3>5. \/ v = Acceptable(kind, Known(kind, text))
          \/ v = {} /\ Parse(kind, text).value = {"identity"}
      BY <2>2, <3>3, <3>4, ParseKinds
    <3> QED BY <1>2, <2>2, <3>1, <3>2, <3>5, CodingsExact
  <2>3. CASE kind \in {"Unsigned", "Connection"}
    BY <1>2, <2>3, OtherReadBack, OtherExact
  <2> QED BY <2>1, <2>2, <2>3 DEF Kinds, CodingKinds
<1> QED BY <1>1, <1>3 DEF ValuesExact


LEMMA NothingExact ==
  ASSUME NEW kind \in Kinds, AssignNothing(kind)
  PROVE  ValuesExact'
<1>1. PICK h : h = headerValue'
  OBVIOUS
<1>2. h.kind = kind /\ ~h.given /\ ~h.isCorrect
  BY <1>1 DEF AssignNothing
<1>3. kind \notin {"none", "address"}
  BY DEF Kinds
<1>4. Exact(h)
  BY <1>2, <1>3 DEF Exact
<1> QED BY <1>1, <1>4 DEF ValuesExact

LEMMA AddressRead ==
  ASSUME NEW a \in Urls, ParseAddress(a)
  PROVE  ValuesExact'
<1>1. PICK h : h = headerValue'
  OBVIOUS
<1>2. h.kind = "address" /\ h.of = a /\ h.to = parseUrl(Words(a))
  BY <1>1 DEF ParseAddress
<1>3. AddressExact(a, parseUrl(Words(a)))
  BY ValuesAssumption, AddressTaken
<1>4. Exact(h)
  BY <1>2, <1>3 DEF Exact
<1> QED BY <1>1, <1>4 DEF ValuesExact

LEMMA ValuesKept ==
  ASSUME ValuesNext
  PROVE  ValuesExact'
<1>1. ASSUME NEW kind \in Kinds, NEW text \in HeaderTexts(kind), AssignText(kind, text) PROVE ValuesExact'
  BY <1>1, TextExact
<1>2. ASSUME NEW kind \in Kinds, NEW v \in ValuesOf(kind), AssignValue(kind, v) PROVE ValuesExact'
  BY <1>2, ValueExact
<1>3. ASSUME NEW kind \in Kinds, AssignNothing(kind) PROVE ValuesExact'
  BY <1>3, NothingExact
<1>4. ASSUME NEW a \in Urls, ParseAddress(a) PROVE ValuesExact'
  BY <1>4, AddressRead
<1> QED BY <1>1, <1>2, <1>3, <1>4 DEF ValuesNext

-----------------------------------------------------------------------------
(* The invariant.  s is what stat said at some time: of the file that is   *)
(* there now, or of one that has changed since and is younger.             *)

Files == [content : Seq(Nat), mtime : Nat]
Stats == [size : Nat, mtime : Nat, ino : Nat]

FsTypeOK ==
    /\ fsTime \in 1 .. MaxFsClock
    /\ disk \in [Inodes -> Files] /\ \A n \in Inodes : disk[n].mtime <= fsTime
    /\ changes \in Nat /\ entry \in Inodes \cup {0}
    /\ fsAt \in {"idle", "stat", "open", "header", "read", "flush", "done"}
    /\ st \in Stats /\ fd \in Inodes \cup {0}
    /\ changed \in BOOLEAN /\ excused \in BOOLEAN

Believed(s) == ~excused /\ entry # 0 /\ disk[entry].mtime <= s.mtime
Seen(s) ==
    /\ s.ino \in Inodes /\ s.size \in Nat /\ s.mtime \in 0 .. MaxFsClock
    /\ s.mtime <= disk[s.ino].mtime
    /\ Believed(s) => entry = s.ino /\ Len(disk[entry].content) = s.size

(* A request that has found the file. *)
Serving == fsAt \in {"open", "header", "read", "flush"} \/ (fsAt = "done" /\ reply.code \in {200, 304})
StatSeen == Serving => Seen(st) /\ (~changed => entry # 0 /\ st = StatNow(entry))

(* The descriptor and the response agree with st while st is believed. *)
Describes(r, s) == r.code = 200 /\ r.etag = ETag(s) /\ r.modified = Generate("Date", s.mtime)
Begun(r, n) ==
    /\ r.body \in Seq(Nat)
    /\ Believed(st) => /\ fd = entry /\ n <= st.size
                       /\ \A i \in 1 .. n : r.body[i] = disk[entry].content[i]
Whole(r) == Believed(st) => r.body = disk[entry].content
ReplyTrue ==
    /\ fsAt \in {"idle", "stat", "open", "done"} => fd = 0
    /\ fsAt = "open" => st.size # 0
    /\ fsAt = "header" /\ Believed(st) => fd = IF st.size = 0 THEN 0 ELSE entry
    /\ fsAt = "read" => fd \in Inodes /\ "body" \in DOMAIN reply /\ Describes(reply, st) /\ Begun(reply, Len(reply.body))
    /\ fsAt = "flush" => Describes(reply, st) /\ Whole(reply)
    /\ fsAt = "done" /\ reply.code = 200 => Describes(reply, st) /\ Whole(reply)

CopyTrue ==
    copy.kept => /\ Seen(copy.etag) /\ copy.modified = Generate("Date", copy.etag.mtime)
                 /\ Believed(copy.etag) => copy.body = disk[entry].content
Told == fsAt = "done" /\ reply.code = 304 /\ ~excused /\ ~changed => copy.body = disk[entry].content

FsInv == FsTypeOK /\ StatSeen /\ ReplyTrue /\ CopyTrue /\ Told

-----------------------------------------------------------------------------
(* What a change of the file does: what is believed after it was so before *)
(* and is still true, and every change makes the file younger.             *)

Same == disk' = disk /\ entry' = entry /\ fsTime' \in fsTime .. MaxFsClock /\ (excused => excused')

LEMMA SeenSame ==
  ASSUME Same
  PROVE  \A s : /\ Seen(s) => Seen(s)'
                /\ Believed(s)' => Believed(s)
BY DEF Same, Seen, Believed

(* The effect of FsWrite, FsReplace and FsRemove. *)
Changes ==
    \/ \E n \in Inodes, size \in FileSizes : Change(n, size) /\ entry' = n
    \/ FsRemove

LEMMA ContentTyped ==
  ASSUME NEW version \in Nat, NEW size \in Nat
  PROVE  Content(version, size) \in Seq(Nat)
BY DEF Content

LEMMA ChangesKeep ==
  ASSUME FsTypeOK, Changes
  PROVE  /\ FsTypeOK'
         /\ \A s : Seen(s) => Seen(s)' /\ ~Believed(s)'
<1>1. CASE FsRemove
  <2>1. /\ entry' = 0 /\ disk' = disk /\ excused' = excused /\ changes' = changes /\ fsTime' = fsTime
        /\ fsAt' = fsAt /\ st' = st /\ fd' = fd /\ changed' \in BOOLEAN
    BY <1>1 DEF FsRemove, Untouched
  <2>2. FsTypeOK'
    BY <2>1 DEF FsTypeOK
  <2>3. \A s : Seen(s) => Seen(s)' /\ ~Believed(s)'
    BY <2>1 DEF Seen, Believed
  <2> QED BY <2>2, <2>3
<1>2. ASSUME NEW n \in Inodes, NEW size \in FileSizes, Change(n, size), entry' = n
      PROVE  /\ FsTypeOK'
             /\ \A s : Seen(s) => Seen(s)' /\ ~Believed(s)'
  <2> DEFINE file == [content |-> Content(changes + 2, size), mtime |-> fsTime]
  <2>1. /\ disk' = [disk EXCEPT ![n] = file] /\ changes' = changes + 1
        /\ excused' = (excused \/ \E i \in Inodes : disk[i].mtime = fsTime)
        /\ fsTime' = fsTime /\ fsAt' = fsAt /\ st' = st /\ fd' = fd /\ changed' \in BOOLEAN
    BY <1>2 DEF Change, Untouched
  <2>2. file \in Files /\ file.mtime = fsTime
    <3>1. changes + 2 \in Nat /\ size \in Nat /\ fsTime \in Nat
      BY FsAssumption DEF FsTypeOK
    <3> QED BY <3>1, ContentTyped DEF Files
  <2> HIDE DEF file
  <2>3. /\ disk' \in [Inodes -> Files] /\ disk'[n].mtime = fsTime
        /\ \A i \in Inodes : i # n => disk'[i] = disk[i]
    BY <2>1, <2>2 DEF FsTypeOK
  <2>4. n # 0 /\ n \in Nat
    BY FsAssumption
  <2>5. \A i \in Inodes : disk[i].mtime \in Nat /\ disk[i].mtime <= fsTime /\ disk[i].mtime <= disk'[i].mtime
    <3>1. \A i \in Inodes : disk[i] \in Files /\ disk[i].mtime <= fsTime
      BY DEF FsTypeOK
    <3>2. \A i \in Inodes : disk[i].mtime \in Nat
      BY <3>1 DEF Files
    <3> QED BY <2>3, <3>1, <3>2
  <2>6. FsTypeOK'
    <3>1. \A i \in Inodes : disk'[i].mtime <= fsTime
      BY <2>3, <2>5 DEF FsTypeOK
    <3> QED BY <1>2, <2>1, <2>3, <3>1 DEF FsTypeOK
  <2>7. ASSUME NEW s, Seen(s) PROVE Seen(s)' /\ ~Believed(s)'
    <3>1. s.ino \in Inodes /\ s.size \in Nat /\ s.mtime \in 0 .. MaxFsClock /\ s.mtime <= disk[s.ino].mtime
      BY <2>7 DEF Seen
    <3>2. ~excused' => s.mtime < fsTime
      <4>1. ~excused' => disk[s.ino].mtime # fsTime
        BY <2>1, <3>1
      <4> QED BY <2>5, <3>1, <4>1 DEF FsTypeOK
    <3>3. ~Believed(s)'
      <4>1. disk'[entry'].mtime = fsTime
        BY <1>2, <2>3
      <4> QED BY <3>1, <3>2, <4>1 DEF Believed, FsTypeOK
    <3>4. s.mtime <= disk'[s.ino].mtime
      BY <2>3, <2>5, <3>1 DEF FsTypeOK, Files
    <3> QED BY <3>1, <3>3, <3>4 DEF Seen
  <2> QED BY <2>6, <2>7
<1> QED BY <1>1, <1>2 DEF Changes

LEMMA ChangesKeepInv == FsInv /\ Changes => FsInv'
<1> SUFFICES ASSUME FsInv, Changes PROVE FsInv'
  OBVIOUS
<1>1. /\ FsTypeOK /\ FsTypeOK'
      /\ \A s : Seen(s) => Seen(s)' /\ ~Believed(s)'
  BY ChangesKeep DEF FsInv
<1>2. /\ fsAt' = fsAt /\ st' = st /\ fd' = fd /\ reply' = reply /\ copy' = copy
      /\ changed' = (fsAt \notin {"idle", "stat"})
  BY DEF Changes, Change, FsRemove, Untouched
<1>3. PICK s, c : s = st /\ c = copy.etag
  OBVIOUS
<1>4. Serving' => Serving /\ changed'
  BY <1>2 DEF Serving
<1>5. Serving' => Seen(st)' /\ ~Believed(st)'
  <2>1. Serving => Seen(s)
    BY <1>3 DEF FsInv, StatSeen
  <2> QED BY <1>1, <1>2, <1>3, <1>4, <2>1 DEF Seen, Believed
<1>6. StatSeen'
  BY <1>4, <1>5 DEF StatSeen
<1>7. ReplyTrue'
  <2>1. fsAt' \in {"header", "read", "flush"} \/ (fsAt' = "done" /\ reply'.code = 200) => ~Believed(st)'
    BY <1>5 DEF Serving
  <2>2. ReplyTrue
    BY DEF FsInv
  <2> QED BY <1>2, <2>1, <2>2 DEF ReplyTrue, Describes, Begun, Whole, ETag
<1>8. CopyTrue'
  <2>1. copy.kept => Seen(c) /\ copy.modified = Generate("Date", c.mtime)
    BY <1>3 DEF FsInv, CopyTrue
  <2>2. copy.kept => Seen(c)' /\ ~Believed(c)'
    BY <1>1, <2>1
  <2> QED BY <1>2, <1>3, <2>1, <2>2 DEF CopyTrue, Seen, Believed
<1>9. Told'
  BY <1>2 DEF Told
<1> QED BY <1>1, <1>6, <1>7, <1>8, <1>9 DEF FsInv

-----------------------------------------------------------------------------
(* The steps of onRequest and of the client leave the file alone. *)

LEMMA FsInitial == FsInit => FsInv
<1> SUFFICES ASSUME NEW conf, FsStart(conf) PROVE FsInv
  BY DEF FsInit
<1>1. /\ fsTime = 1 /\ entry = 1 /\ changes = 0 /\ fsAt = "idle" /\ st = NoStat /\ fd = 0
      /\ copy = NoCopy /\ changed = FALSE /\ excused = FALSE
      /\ disk = [n \in Inodes |-> IF n = 1 THEN [content |-> Content(1, 2), mtime |-> 0] ELSE Unused]
  BY DEF FsStart
<1>2. FsTypeOK
  <2>1. disk \in [Inodes -> Files] /\ \A n \in Inodes : disk[n].mtime = 0
    <3>1. Content(1, 2) \in Seq(Nat)
      BY ContentTyped
    <3>2. [content |-> Content(1, 2), mtime |-> 0] \in Files /\ Unused \in Files /\ Unused.mtime = 0
      BY <3>1 DEF Files, Unused
    <3> QED BY <1>1, <3>2
  <2>2. \A n \in Inodes : disk[n].mtime <= 1
    BY <2>1
  <2>3. 1 \in 1 .. MaxFsClock /\ 1 \in Inodes /\ NoStat \in Stats
    BY FsAssumption DEF Stats, NoStat
  <2> QED BY <1>1, <2>1, <2>2, <2>3 DEF FsTypeOK
<1>3. ~copy.kept
  BY <1>1 DEF NoCopy
<1> QED BY <1>1, <1>2, <1>3 DEF FsInv, StatSeen, Serving, ReplyTrue, CopyTrue, Told

(* What a step that leaves the file alone keeps. *)
LEMMA CopyKept ==
  ASSUME Same, CopyTrue, copy' = copy
  PROVE  CopyTrue'
<1>1. PICK c : c = copy.etag
  OBVIOUS
<1>2. copy.kept => Seen(c)' /\ (Believed(c)' => Believed(c))
  BY <1>1, SeenSame DEF CopyTrue
<1> QED BY <1>1, <1>2 DEF CopyTrue, Same, Seen, Believed

LEMMA StatKept ==
  ASSUME Same, Seen(st), st' = st
  PROVE  Seen(st)' /\ (Believed(st)' => Believed(st))
<1>1. PICK s : s = st
  OBVIOUS
<1>2. Seen(s)' /\ (Believed(s)' => Believed(s))
  BY <1>1, SeenSame
<1> QED BY <1>1, <1>2 DEF Seen, Believed

LEMMA FsTickKeeps == FsInv /\ FsTick => FsInv'
<1> SUFFICES ASSUME FsInv, FsTick PROVE FsInv'
  OBVIOUS
<1>1. /\ fsTime' = fsTime + 1 /\ fsTime < MaxFsClock
      /\ UNCHANGED <<disk, changes, entry, fsAt, fsAsk, st, fd, reply, copy, fsConf, changed, excused>>
  BY DEF FsTick
<1>2. FsTypeOK /\ fsTime + 1 \in 1 .. MaxFsClock /\ fsTime + 1 \in fsTime .. MaxFsClock
  BY <1>1, FsAssumption DEF FsInv, FsTypeOK
<1>3. FsTypeOK'
  <2>1. \A n \in Inodes : disk[n].mtime <= fsTime + 1
    <3>1. \A n \in Inodes : disk[n].mtime \in Nat /\ disk[n].mtime <= fsTime
      BY <1>2 DEF FsTypeOK, Files
    <3>2. fsTime \in Nat
      BY <1>2, FsAssumption DEF FsTypeOK
    <3> QED BY <3>1, <3>2
  <2> QED BY <1>1, <1>2, <2>1 DEF FsTypeOK
<1>4. Same
  BY <1>1, <1>2 DEF Same
<1>5. CopyTrue'
  BY <1>1, <1>4, CopyKept DEF FsInv
<1>6. Seen(st) => Seen(st)' /\ (Believed(st)' => Believed(st))
  BY <1>1, <1>4, StatKept
<1>7. StatSeen' /\ Told'
  BY <1>1, <1>6 DEF FsInv, StatSeen, Serving, StatNow, Told
<1>8. ReplyTrue'
  BY <1>1 DEF FsInv, ReplyTrue, Believed, Describes, Begun, Whole, ETag
<1> QED BY <1>3, <1>5, <1>7, <1>8 DEF FsInv

LEMMA AnswerTyped == \A code : FsAnswer(code).code = code
BY DEF FsAnswer

LEMMA RequestKeeps ==
  FsInv /\ ((\E what : FsRequest(what)) \/ FsNotFound) => FsInv'
<1> SUFFICES ASSUME FsInv, (\E what : FsRequest(what)) \/ FsNotFound PROVE FsInv'
  OBVIOUS
<1>1. /\ UNCHANGED <<fsTime, disk, changes, entry, st, fd, copy, changed, excused>>
      /\ fsAt' = "stat" \/ (fsAt' = "done" /\ reply' = FsAnswer(404))
      /\ fsAt \in {"idle", "stat"}
  BY DEF FsRequest, FsNotFound
<1>2. FsTypeOK /\ fsTime \in fsTime .. MaxFsClock
  BY FsAssumption DEF FsInv, FsTypeOK
<1>3. FsTypeOK'
  BY <1>1, <1>2 DEF FsTypeOK
<1>4. CopyTrue'
  BY <1>1, <1>2, CopyKept DEF FsInv, Same
<1>5. fsAt' = "done" => reply'.code = 404
  BY <1>1, AnswerTyped
<1> QED BY <1>1, <1>3, <1>4, <1>5 DEF FsInv, StatSeen, Serving, ReplyTrue, Told

LEMMA FsStatKeeps == FsInv /\ FsStat => FsInv'
<1> SUFFICES ASSUME FsInv, FsStat PROVE FsInv'
  OBVIOUS
<1> DEFINE s == StatNow(entry)
<1>1. /\ fsAt = "stat" /\ entry # 0 /\ st' = s /\ changed' = FALSE
      /\ UNCHANGED <<fsTime, disk, changes, entry, fd, copy, excused>>
      /\ \/ (NoneMatch(s) \/ NotModifiedSince(s)) /\ reply' = FsAnswer(304) /\ fsAt' = "done"
         \/ UNCHANGED reply /\ fsAt' = "open" /\ s.size # 0
         \/ UNCHANGED reply /\ fsAt' = "header" /\ s.size = 0
  BY DEF FsStat
<1>2. FsTypeOK /\ fsTime \in fsTime .. MaxFsClock /\ entry \in Inodes /\ disk[entry] \in Files
  BY <1>1, FsAssumption DEF FsInv, FsTypeOK
<1>3. /\ s = [size |-> Len(disk[entry].content), mtime |-> disk[entry].mtime, ino |-> entry]
      /\ Len(disk[entry].content) \in Nat /\ disk[entry].mtime \in 0 .. MaxFsClock /\ entry \in Nat
  <2>1. disk[entry].content \in Seq(Nat) /\ disk[entry].mtime \in Nat /\ disk[entry].mtime <= fsTime
    BY <1>2 DEF FsTypeOK, Files
  <2> QED BY <1>2, <2>1, FsAssumption DEF StatNow, FsTypeOK
<1> HIDE DEF s
<1>4. FsTypeOK'
  <2>1. s \in Stats
    BY <1>3 DEF Stats
  <2> QED BY <1>1, <1>2, <2>1 DEF FsTypeOK
<1>5. Same
  BY <1>1, <1>2 DEF Same
<1>6. CopyTrue'
  BY <1>1, <1>5, CopyKept DEF FsInv
<1>7. Seen(st)' /\ st' = StatNow(entry)'
  BY <1>1, <1>2, <1>3 DEF Seen, StatNow
<1>8. StatSeen'
  BY <1>1, <1>7 DEF StatSeen
<1>9. fd' = 0
  BY <1>1 DEF FsInv, ReplyTrue
<1>10. ReplyTrue'
  <2>1. fsAt' = "done" => reply'.code = 304
    BY <1>1, AnswerTyped
  <2>2. fsAt' = "open" => st'.size # 0
    BY <1>1
  <2>3. fsAt' = "header" => st'.size = 0
    BY <1>1
  <2> QED BY <1>1, <1>9, <2>1, <2>2, <2>3 DEF ReplyTrue
<1>11. Told'
  <2> SUFFICES ASSUME fsAt' = "done", ~excused PROVE copy.body = disk[entry].content
    BY <1>1 DEF Told
  <2>1. NoneMatch(s) \/ NotModifiedSince(s)
    BY <1>1
  <2>2. CopyTrue
    BY DEF FsInv
  <2>3. CASE NoneMatch(s)
    <3>1. copy.kept /\ copy.etag = ETag(s)
      BY <2>3 DEF NoneMatch
    <3>2. copy.etag.mtime = disk[entry].mtime
      BY <1>3, <3>1 DEF ETag
    <3> QED BY <1>1, <1>3, <2>2, <3>1, <3>2 DEF CopyTrue, Believed
  <2>4. CASE NotModifiedSince(s)
    <3>1. copy.kept /\ Parse("Date", copy.modified).value >= s.mtime
      BY <2>4 DEF NotModifiedSince
    <3>2. copy.etag.mtime \in 0 .. MaxFsClock /\ copy.modified = Generate("Date", copy.etag.mtime)
      BY <2>2, <3>1 DEF CopyTrue, Seen
    <3>3. PICK t : t = copy.etag.mtime
      OBVIOUS
    <3>4. Parse("Date", copy.modified) = [ok |-> TRUE, value |-> t]
      <4>1. Time(t)
        BY <3>2, <3>3, TimesTyped
      <4> QED BY <3>2, <3>3, <4>1, DateReadBack
    <3>5. disk[entry].mtime <= copy.etag.mtime
      BY <1>3, <3>1, <3>2, <3>3, <3>4
    <3> QED BY <1>1, <2>2, <3>1, <3>5 DEF CopyTrue, Believed
  <2> QED BY <2>1, <2>3, <2>4
<1> QED BY <1>4, <1>6, <1>8, <1>10, <1>11 DEF FsInv

LEMMA FsOpenKeeps == FsInv /\ FsOpen => FsInv'
<1> SUFFICES ASSUME FsInv, FsOpen PROVE FsInv'
  OBVIOUS
<1>1. /\ fsAt = "open" /\ fsAt' = "header"
      /\ UNCHANGED <<fsTime, disk, changes, entry, st, reply, copy, changed>>
      /\ \/ entry # 0 /\ fd' = entry /\ excused' = excused
         \/ fd' = 0 /\ excused' = (excused \/ entry # 0)
  BY DEF FsOpen
<1>2. FsTypeOK /\ fsTime \in fsTime .. MaxFsClock
  BY FsAssumption DEF FsInv, FsTypeOK
<1>3. FsTypeOK'
  BY <1>1, <1>2 DEF FsTypeOK
<1>4. Same
  BY <1>1, <1>2 DEF Same, FsTypeOK
<1>5. CopyTrue'
  BY <1>1, <1>4, CopyKept DEF FsInv
<1>6. Seen(st)
  BY <1>1 DEF FsInv, StatSeen, Serving
<1>7. Seen(st)' /\ (Believed(st)' => Believed(st))
  BY <1>1, <1>4, <1>6, StatKept
<1>8. StatSeen'
  BY <1>1, <1>7 DEF FsInv, StatSeen, Serving, StatNow
<1>9. ReplyTrue'
  <2>1. Believed(st)' => entry # 0 /\ fd' = entry
    BY <1>1 DEF Believed
  <2>2. st.size # 0
    BY <1>1 DEF FsInv, ReplyTrue
  <2> QED BY <1>1, <2>1, <2>2 DEF ReplyTrue
<1>10. Told'
  BY <1>1 DEF Told
<1> QED BY <1>3, <1>5, <1>8, <1>9, <1>10 DEF FsInv

LEMMA FsHeaderKeeps == FsInv /\ FsHeader => FsInv'
<1> SUFFICES ASSUME FsInv, FsHeader PROVE FsInv'
  OBVIOUS
<1>1. /\ fsAt = "header" /\ fsAt' = (IF fd = 0 THEN "flush" ELSE "read")
      /\ UNCHANGED <<fsTime, disk, changes, entry, st, fd, copy, changed, excused>>
      /\ reply'.code = 200 /\ reply'.etag = ETag(st) /\ reply'.modified = Generate("Date", st.mtime)
      /\ reply'.body = <<>> /\ "body" \in DOMAIN reply'
  BY DEF FsHeader, Described
<1>2. FsTypeOK /\ fsTime \in fsTime .. MaxFsClock
  BY FsAssumption DEF FsInv, FsTypeOK
<1>3. FsTypeOK'
  BY <1>1, <1>2 DEF FsTypeOK
<1>4. Same
  BY <1>1, <1>2 DEF Same, FsTypeOK
<1>5. CopyTrue'
  BY <1>1, <1>4, CopyKept DEF FsInv
<1>6. Seen(st)
  BY <1>1 DEF FsInv, StatSeen, Serving
<1>7. Seen(st)' /\ (Believed(st)' => Believed(st))
  BY <1>1, <1>4, <1>6, StatKept
<1>8. StatSeen'
  BY <1>1, <1>7 DEF FsInv, StatSeen, Serving, StatNow
<1>9. Believed(st) => fd = IF st.size = 0 THEN 0 ELSE entry
  BY <1>1 DEF FsInv, ReplyTrue
<1>10. Describes(reply, st)'
  BY <1>1 DEF Describes, ETag
<1>11. ReplyTrue'
  <2>1. CASE fd = 0
    <3>1. Believed(st) => entry \in Inodes /\ st.size = 0 /\ Len(disk[entry].content) = st.size
      BY <1>2, <1>6, <1>9, <2>1 DEF Believed, Seen, FsTypeOK
    <3>2. Believed(st) => disk[entry].content \in Seq(Nat)
      BY <1>2, <3>1 DEF FsTypeOK, Files
    <3>3. Believed(st) => disk[entry].content = <<>>
      BY <3>1, <3>2
    <3>4. Whole(reply)'
      BY <1>1, <1>7, <3>3 DEF Whole
    <3> QED BY <1>1, <1>10, <2>1, <3>4 DEF ReplyTrue
  <2>2. CASE fd # 0
    <3>1. Believed(st) => fd = entry
      BY <1>9, <2>2
    <3>2. Begun(reply, Len(reply.body))'
      <4>1. reply'.body \in Seq(Nat) /\ Len(reply'.body) = 0 /\ 1 .. 0 = {} /\ (0 <= st.size)
        BY <1>1, <1>2 DEF FsTypeOK, Stats
      <4> QED BY <1>1, <1>7, <3>1, <4>1 DEF Begun
    <3> QED BY <1>1, <1>2, <1>10, <2>2, <3>2 DEF ReplyTrue, FsTypeOK
  <2> QED BY <2>1, <2>2
<1>12. Told'
  BY <1>1 DEF Told
<1> QED BY <1>3, <1>5, <1>8, <1>11, <1>12 DEF FsInv

LEMMA FsReadKeeps == FsInv /\ FsRead => FsInv'
<1> SUFFICES ASSUME FsInv, FsRead PROVE FsInv'
  OBVIOUS
<1> DEFINE n    == Len(reply.body)
           have == disk[fd].content
           upto == IF n + FsGranula < st.size THEN n + FsGranula ELSE st.size
           body == [i \in 1 .. upto |-> IF i <= n THEN reply.body[i] ELSE IF i <= Len(have) THEN have[i] ELSE 0]
<1>1. /\ fsAt = "read" /\ fsAt' = (IF upto = st.size THEN "flush" ELSE "read")
      /\ UNCHANGED <<fsTime, disk, changes, entry, st, fd, copy, changed, excused>>
      /\ reply' = [reply EXCEPT !.body = body]
  BY DEF FsRead
<1>2. FsTypeOK /\ fsTime \in fsTime .. MaxFsClock
  BY FsAssumption DEF FsInv, FsTypeOK
<1>3. FsTypeOK'
  BY <1>1, <1>2 DEF FsTypeOK
<1>4. Same
  BY <1>1, <1>2 DEF Same, FsTypeOK
<1>5. CopyTrue'
  BY <1>1, <1>4, CopyKept DEF FsInv
<1>6. Seen(st)
  BY <1>1 DEF FsInv, StatSeen, Serving
<1>7. Seen(st)' /\ (Believed(st)' => Believed(st))
  BY <1>1, <1>4, <1>6, StatKept
<1>8. StatSeen'
  BY <1>1, <1>7 DEF FsInv, StatSeen, Serving, StatNow
<1>9. fd \in Inodes /\ "body" \in DOMAIN reply /\ Describes(reply, st) /\ Begun(reply, n)
  BY <1>1 DEF FsInv, ReplyTrue
<1>10. /\ reply.body \in Seq(Nat) /\ n \in Nat /\ have \in Seq(Nat) /\ Len(have) \in Nat
       /\ st.size \in Nat /\ upto \in Nat
  <2>1. disk[fd] \in Files
    BY <1>2, <1>9 DEF FsTypeOK
  <2>2. reply.body \in Seq(Nat) /\ have \in Seq(Nat)
    BY <1>9, <2>1 DEF Begun, Files
  <2>3. st.size \in Nat /\ FsGranula \in Nat
    BY <1>2, FsAssumption DEF FsTypeOK, Stats
  <2> QED BY <2>2, <2>3
<1>11. body \in Seq(Nat) /\ Len(body) = upto
  <2>1. \A i \in 1 .. upto : body[i] \in Nat
    <3>1. \A i \in 1 .. n : reply.body[i] \in Nat
      BY <1>10
    <3>2. \A i \in 1 .. Len(have) : have[i] \in Nat
      BY <1>10
    <3> HIDE DEF n, have, upto
    <3> QED BY <1>10, <3>1, <3>2
  <2> HIDE DEF n, have, upto
  <2> QED BY <1>10, <2>1
<1>12. Believed(st) => upto <= st.size /\ \A i \in 1 .. upto : body[i] = have[i]
  <2> SUFFICES ASSUME Believed(st) PROVE upto <= st.size /\ \A i \in 1 .. upto : body[i] = have[i]
    OBVIOUS
  <2>1. fd = entry /\ n <= st.size /\ \A i \in 1 .. n : reply.body[i] = have[i]
    BY <1>9 DEF Begun
  <2>2. Len(have) = st.size
    BY <1>6, <2>1 DEF Seen
  <2>3. upto <= st.size
    BY <1>10, FsAssumption
  <2> HIDE DEF n, have, upto
  <2> QED BY <1>10, <2>1, <2>2, <2>3
<1> HIDE DEF body
<1>13. Describes(reply, st)' /\ reply'.body = body /\ "body" \in DOMAIN reply'
  <2>1. PICK r, t : r = reply /\ t = st
    OBVIOUS
  <2>2. reply'.code = r.code /\ reply'.etag = r.etag /\ reply'.modified = r.modified
    BY <1>1, <2>1
  <2>3. r.code = 200 /\ r.etag = ETag(t) /\ r.modified = Generate("Date", t.mtime)
    BY <1>9, <2>1 DEF Describes
  <2>4. reply'.body = body
    <3> HIDE DEF body
    <3> QED BY <1>1, <1>9
  <2>5. DOMAIN reply' = DOMAIN reply
    BY <1>1
  <2> QED BY <1>1, <1>9, <2>1, <2>2, <2>3, <2>4, <2>5 DEF Describes
<1>14. ReplyTrue'
  <2>1. CASE upto = st.size
    <3>1. Believed(st) => entry = fd /\ Len(have) = st.size
      BY <1>6, <1>9 DEF Seen, Begun
    <3> HIDE DEF n, have, upto
    <3>2. Believed(st) => body = have
      BY <1>10, <1>11, <1>12, <2>1, <3>1
    <3>3. Whole(reply)'
      <4>1. Believed(st) => body = disk[entry].content
        BY <3>1, <3>2 DEF have
      <4> QED BY <1>1, <1>7, <1>13, <4>1 DEF Whole
    <3> QED BY <1>1, <1>13, <2>1, <3>3 DEF ReplyTrue
  <2>2. CASE upto # st.size
    <3>1. Begun(reply, Len(reply.body))'
      <4>1. Believed(st) => fd = entry
        BY <1>9 DEF Begun
      <4> HIDE DEF n, upto
      <4> QED BY <1>1, <1>7, <1>11, <1>12, <1>13, <4>1 DEF Begun
    <3> HIDE DEF n, have, upto
    <3> QED BY <1>1, <1>9, <1>13, <2>2, <3>1 DEF ReplyTrue
  <2> QED BY <2>1, <2>2
<1>15. Told'
  BY <1>1 DEF Told
<1> QED BY <1>3, <1>5, <1>8, <1>14, <1>15 DEF FsInv

LEMMA FsFlushKeeps == FsInv /\ FsFlush => FsInv'
<1> SUFFICES ASSUME FsInv, FsFlush PROVE FsInv'
  OBVIOUS
<1>1. /\ fsAt = "flush" /\ fsAt' = "done" /\ fd' = 0
      /\ UNCHANGED <<fsTime, disk, changes, entry, st, reply, copy, changed, excused>>
  BY DEF FsFlush
<1>2. FsTypeOK /\ fsTime \in fsTime .. MaxFsClock
  BY FsAssumption DEF FsInv, FsTypeOK
<1>3. FsTypeOK'
  BY <1>1, <1>2 DEF FsTypeOK
<1>4. Same
  BY <1>1, <1>2 DEF Same, FsTypeOK
<1>5. CopyTrue'
  BY <1>1, <1>4, CopyKept DEF FsInv
<1>6. Seen(st)
  BY <1>1 DEF FsInv, StatSeen, Serving
<1>7. Seen(st)' /\ (Believed(st)' => Believed(st))
  BY <1>1, <1>4, <1>6, StatKept
<1>8. StatSeen'
  BY <1>1, <1>7 DEF FsInv, StatSeen, Serving, StatNow
<1>9. Describes(reply, st) /\ Whole(reply)
  BY <1>1 DEF FsInv, ReplyTrue
<1>10. ReplyTrue' /\ Told'
  BY <1>1, <1>7, <1>9 DEF ReplyTrue, Told, Describes, Whole, ETag
<1> QED BY <1>3, <1>5, <1>8, <1>10 DEF FsInv

LEMMA FsBrokenKeeps == FsInv /\ FsBroken => FsInv'
<1> SUFFICES ASSUME FsInv, FsBroken PROVE FsInv'
  OBVIOUS
<1>1. /\ fsAt' = "idle" /\ fd' = 0 /\ st' = NoStat /\ changed' = FALSE
      /\ UNCHANGED <<fsTime, disk, changes, entry, copy, excused>>
  BY DEF FsBroken, Forgotten
<1>2. FsTypeOK /\ fsTime \in fsTime .. MaxFsClock
  BY FsAssumption DEF FsInv, FsTypeOK
<1>3. FsTypeOK'
  BY <1>1, <1>2 DEF FsTypeOK, NoStat, Stats
<1>4. CopyTrue'
  BY <1>1, <1>2, CopyKept DEF FsInv, Same
<1> QED BY <1>1, <1>3, <1>4 DEF FsInv, StatSeen, Serving, ReplyTrue, Told

LEMMA FsReceivedKeeps == FsInv /\ FsReceived => FsInv'
<1> SUFFICES ASSUME FsInv, FsReceived PROVE FsInv'
  OBVIOUS
<1> DEFINE taken == [kept |-> TRUE, etag |-> reply.etag, modified |-> reply.modified, body |-> reply.body]
<1>1. /\ fsAt = "done" /\ fsAt' = "idle" /\ st' = NoStat /\ changed' = FALSE
      /\ UNCHANGED <<fsTime, disk, changes, entry, fd, excused>>
      /\ copy' = copy \/ copy' = NoCopy \/ (reply.code = 200 /\ copy' = taken)
  BY DEF FsReceived, Forgotten
<1>2. FsTypeOK /\ fsTime \in fsTime .. MaxFsClock /\ fd = 0
  BY <1>1, FsAssumption DEF FsInv, FsTypeOK, ReplyTrue
<1>3. FsTypeOK'
  BY <1>1, <1>2 DEF FsTypeOK, NoStat, Stats
<1>4. Same
  BY <1>1, <1>2 DEF Same
<1>5. CopyTrue'
  <2>1. CASE copy' = copy
    BY <1>4, <2>1, CopyKept DEF FsInv
  <2>2. CASE copy' = NoCopy
    BY <2>2 DEF NoCopy, CopyTrue
  <2>3. CASE reply.code = 200 /\ copy' = taken
    <3>1. Seen(st) /\ Describes(reply, st) /\ Whole(reply)
      BY <1>1, <2>3 DEF FsInv, StatSeen, Serving, ReplyTrue
    <3>2. PICK e : e = ETag(st)
      OBVIOUS
    <3>3. /\ e.mtime = st.mtime /\ e.size = st.size /\ e.ino = st.ino
      BY <3>2 DEF ETag
    <3>4. Seen(e) /\ (Believed(e) => reply.body = disk[entry].content)
      BY <3>1, <3>3 DEF Seen, Believed, Whole
    <3>5. Seen(e)' /\ (Believed(e)' => Believed(e))
      BY <1>4, <3>4, SeenSame
    <3>6. copy'.etag = e /\ copy'.modified = Generate("Date", e.mtime) /\ copy'.body = reply.body
      BY <2>3, <3>1, <3>2, <3>3 DEF Describes
    <3> HIDE DEF taken
    <3> QED BY <1>1, <3>4, <3>5, <3>6 DEF CopyTrue, Seen, Believed
  <2> QED BY <1>1, <2>1, <2>2, <2>3
<1> QED BY <1>1, <1>2, <1>3, <1>5 DEF FsInv, StatSeen, Serving, ReplyTrue, Told

LEMMA FsUnchanged == FsInv /\ UNCHANGED fileVars => FsInv'
<1> SUFFICES ASSUME FsInv, UNCHANGED fileVars PROVE FsInv'
  OBVIOUS
<1>1. UNCHANGED <<fsTime, disk, changes, entry, fsAt, st, fd, reply, copy, changed, excused>>
  BY DEF fileVars
<1>2. FsTypeOK' /\ StatSeen'
  BY <1>1 DEF FsInv, FsTypeOK, StatSeen, Serving, Seen, Believed, StatNow
<1>3. ReplyTrue' /\ Told'
  BY <1>1 DEF FsInv, ReplyTrue, Told, Believed, Describes, Begun, Whole, ETag
<1>4. CopyTrue'
  BY <1>1 DEF FsInv, CopyTrue, Seen, Believed
<1> QED BY <1>2, <1>3, <1>4 DEF FsInv

LEMMA FilesKept == FsInv /\ FsNext => FsInv'
<1>1. (\E size \in FileSizes : FsWrite(size) \/ \E n \in Inodes : FsReplace(n, size)) /\ FsInv => Changes
  BY DEF FsWrite, FsReplace, Changes, FsInv, FsTypeOK
<1> QED BY <1>1, ChangesKeepInv, FsTickKeeps, RequestKeeps, FsStatKeeps, FsOpenKeeps, FsHeaderKeeps,
           FsReadKeeps, FsFlushKeeps, FsBrokenKeeps, FsReceivedKeeps DEF FsNext, Changes

(* No step of a request assigns the HeaderValue. *)
LEMMA FieldLeft == FsNext => UNCHANGED headerValue
BY DEF FsNext, FsTick, FsWrite, FsReplace, FsRemove, Change, Untouched, FsRequest, FsNotFound, FsStat,
       FsOpen, FsHeader, FsRead, FsFlush, FsBroken, FsReceived

LEMMA FsInductive == FsSpec => [](FsInv /\ ValuesExact)
<1>1. FsInit => ValuesExact
  BY DEF FsInit, FsStart, ValuesStart, ValuesExact, Exact
<1>2. ValuesExact /\ UNCHANGED headerValue => ValuesExact'
  BY DEF ValuesExact
<1>3. FsInv /\ ValuesExact /\ [FsNext \/ FieldNext]_fsVars => (FsInv /\ ValuesExact)'
  <2> SUFFICES ASSUME FsInv, ValuesExact, [FsNext \/ FieldNext]_fsVars PROVE FsInv' /\ ValuesExact'
    OBVIOUS
  <2>1. CASE FsNext
    BY <1>2, <2>1, FilesKept, FieldLeft
  <2>2. CASE FieldNext
    BY <2>2, FsUnchanged, ValuesKept DEF FieldNext
  <2>3. CASE UNCHANGED fsVars
    <3>1. UNCHANGED fileVars /\ UNCHANGED headerValue
      BY <2>3 DEF fsVars
    <3> QED BY <1>2, <3>1, FsUnchanged
  <2> QED BY <2>1, <2>2, <2>3
<1> QED BY <1>1, <1>3, FsInitial, PTL DEF FsSpec

(* HandlerFs: a client whose copy is called current (304) has the file as  *)
(* stat found it, and a file that does not change while it is served is    *)
(* served whole, wherever between stat, open and the reads it is changed,  *)
(* replaced or removed, and however often before; and for every text of a  *)
(* header field and every address, what HeaderValue and parseUrl read is   *)
(* what the text says, and what is generated is read back.                 *)
THEOREM FilesServedTrue == FsSpec => []FilesServed
<1>1. FsInv => CopyCurrent /\ ServedWhole
  <2> SUFFICES ASSUME FsInv PROVE CopyCurrent /\ ServedWhole
    OBVIOUS
  <2>1. CopyCurrent
    BY DEF FsInv, Told, CopyCurrent
  <2>2. ServedWhole
    <3> SUFFICES ASSUME fsAt = "done", reply.code = 200, ~excused, ~changed
                 PROVE  reply.body = disk[entry].content
      BY DEF ServedWhole
    <3>1. entry # 0 /\ st = StatNow(entry) /\ entry \in Inodes
      BY DEF FsInv, StatSeen, Serving, FsTypeOK
    <3>2. Believed(st)
      <4>1. disk[entry].mtime \in Nat /\ st.mtime = disk[entry].mtime
        BY <3>1 DEF FsInv, FsTypeOK, Files, StatNow
      <4> QED BY <3>1, <4>1 DEF Believed
    <3> QED BY <3>2 DEF FsInv, ReplyTrue, Whole
  <2> QED BY <2>1, <2>2
<1>2. FsInv /\ ValuesExact => FilesServed
  BY <1>1 DEF FilesServed
<1> QED BY <1>2, FsInductive, PTL
=============================================================================
