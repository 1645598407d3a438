------------------------------ MODULE Channel ------------------------------
(***************************************************************************)
(* net::Channel (src/net/impl/channel.cpp): a TCP or SSL connection used   *)
(* from many fibers.  send queues a packet and spawns send_f when the      *)
(* queues were empty; send_f writes one packet after the other and leaves  *)
(* when another send_f is at work or nothing is queued.  listen queues a   *)
(* number of reads for receiveLoop_f in the same way; receive spawns one   *)
(* read of its own.                                                        *)
(*                                                                         *)
(* One action is one critical section (_mtxSends, _mtxReceive), or the end *)
(* of an asynchronous operation of the socket, which is external: a write  *)
(* or read ends well or with an error, always with one after close.  The   *)
(* send_f that the send of packet p spawns is named p; the receiveLoop_f   *)
(* or receive_f that a call spawns is named after the call.                *)
(***************************************************************************)
EXTENDS Naturals, Sequences, FiniteSets

CONSTANTS Packets,   \* the packets sent in one behaviour
          Gathered,  \* those sent as a vector of buffers (TSendIOV)
          Reads,     \* the listen and receive calls of one behaviour
          Amounts,   \* the arguments of listen
          None

ASSUME ChannelAssumption ==
    /\ Gathered \subseteq Packets
    /\ Amounts \subseteq Nat
    /\ None \notin Packets

VARIABLES
    sends,          \* Channel::_sends
    sendsIOV,       \* Channel::_sendsIOV
    sendInProcess,  \* Channel::_sendInProcess
    spc,            \* where each send_f is; "loop": localSendInProcess
    cur,            \* the packet send_f has taken out of its queue
    res,            \* TSend::_res: what the caller's future holds
    receives,       \* Channel::_receives
    rpc,            \* where each receiveLoop_f or receive_f is
    left,           \* the variable receive of receiveLoop_f
    isOpen,         \* the socket is open
    calls,          \* history: packets in the order of send
    asked, read, readFailed \* history: reads asked for, ended, one broken

sendVars    == <<sends, sendsIOV, sendInProcess, spc, cur, res, calls>>
receiveVars == <<receives, rpc, left, asked, read, readFailed>>
vars        == <<sendVars, receiveVars, isOpen>>

Init ==
    /\ sends = <<>> /\ sendsIOV = <<>> /\ sendInProcess = FALSE
    /\ spc = [p \in Packets |-> "none"]
    /\ cur = [p \in Packets |-> None]
    /\ res = [p \in Packets |-> "none"]
    /\ calls = <<>>
    /\ receives = <<>>
    /\ rpc = [l \in Reads |-> "none"]
    /\ left = [l \in Reads |-> 0]
    /\ asked = 0 /\ read = 0 /\ readFailed = FALSE
    /\ isOpen = TRUE

-----------------------------------------------------------------------------
(* Sending. *)

QueueInFront(q, x) == <<x>> \o q
Queue(q, x) == Append(q, x)

(* send and listen spawn a fiber if the queue, with the new element, has   *)
(* this length.                                                            *)
SpawnNeeded(n) == n < 2

(* Both Channel::send. *)
Send(p) ==
    /\ res[p] = "none"
    /\ res' = [res EXCEPT ![p] = "pending"]
    /\ calls' = Append(calls, p)
    /\ sends' = IF p \in Gathered THEN sends ELSE Queue(sends, p)
    /\ sendsIOV' = IF p \in Gathered THEN Queue(sendsIOV, p) ELSE sendsIOV
    /\ spc' = [spc EXCEPT ![p] = IF SpawnNeeded(Len(sends') + Len(sendsIOV'))
                                 THEN "spawned" ELSE "none"]
    /\ UNCHANGED <<sendInProcess, cur, receiveVars, isOpen>>

(* The test that makes send_f leave: another one is at work. *)
BusyNever(f) == FALSE
BusyAgain(f) == sendInProcess
Busy(f) == spc[f] = "spawned" /\ sendInProcess

(* The critical section of send_f: leave, or take a packet, plain packets  *)
(* first.                                                                  *)
TakeSend(f) ==
    /\ spc[f] \in {"spawned", "loop"}
    /\ \/ /\ Busy(f)
          /\ spc' = [spc EXCEPT ![f] = "none"]
          /\ UNCHANGED <<sends, sendsIOV, sendInProcess, cur>>
       \/ /\ ~Busy(f)
          /\ sends # <<>>
          /\ cur' = [cur EXCEPT ![f] = Head(sends)]
          /\ sends' = Tail(sends)
          /\ sendInProcess' = TRUE
          /\ spc' = [spc EXCEPT ![f] = "write"]
          /\ UNCHANGED sendsIOV
       \/ /\ ~Busy(f)
          /\ sends = <<>> /\ sendsIOV # <<>>
          /\ cur' = [cur EXCEPT ![f] = Head(sendsIOV)]
          /\ sendsIOV' = Tail(sendsIOV)
          /\ sendInProcess' = TRUE
          /\ spc' = [spc EXCEPT ![f] = "write"]
          /\ UNCHANGED sends
       \/ /\ ~Busy(f)
          /\ sends = <<>> /\ sendsIOV = <<>>
          /\ sendInProcess' = FALSE
          /\ spc' = [spc EXCEPT ![f] = "none"]
          /\ UNCHANGED <<sends, sendsIOV, cur>>
    /\ UNCHANGED <<res, calls, receiveVars, isOpen>>

(* The write ends: the future of the packet is set and the loop goes on, *)
Written(f) ==
    /\ spc[f] = "write"
    /\ isOpen
    /\ res' = [res EXCEPT ![cur[f]] = "ok"]
    /\ cur' = [cur EXCEPT ![f] = None]
    /\ spc' = [spc EXCEPT ![f] = "loop"]
    /\ UNCHANGED <<sends, sendsIOV, sendInProcess, calls, receiveVars, isOpen>>

(* or the future is set with the error, *)
WriteFailed(f) ==
    /\ spc[f] = "write"
    /\ res' = [res EXCEPT ![cur[f]] = "error"]
    /\ cur' = [cur EXCEPT ![f] = None]
    /\ spc' = [spc EXCEPT ![f] = "failed"]
    /\ UNCHANGED <<sends, sendsIOV, sendInProcess, calls, receiveVars, isOpen>>

(* and then, under the lock, send_f leaves what is queued to nobody. *)
GiveUp(f) ==
    /\ spc[f] = "failed"
    /\ sendInProcess' = FALSE
    /\ spc' = [spc EXCEPT ![f] = "none"]
    /\ UNCHANGED <<sends, sendsIOV, cur, res, calls, receiveVars, isOpen>>

-----------------------------------------------------------------------------
(* Receiving. *)

Listen(l, n) ==
    /\ rpc[l] = "none"
    /\ receives' = Queue(receives, n)
    /\ rpc' = [rpc EXCEPT ![l] = IF SpawnNeeded(Len(receives')) THEN "loop" ELSE "done"]
    /\ asked' = asked + n
    /\ UNCHANGED <<left, read, readFailed, sendVars, isOpen>>

HasReads(l) == left[l] > 0

(* while(!receive): take the next number, or leave. *)
TakeReceive(l) ==
    /\ rpc[l] = "loop"
    /\ ~HasReads(l)
    /\ \/ /\ receives # <<>>
          /\ left' = [left EXCEPT ![l] = Head(receives)]
          /\ receives' = Tail(receives)
          /\ UNCHANGED rpc
       \/ /\ receives = <<>>
          /\ rpc' = [rpc EXCEPT ![l] = "done"]
          /\ UNCHANGED <<left, receives>>
    /\ UNCHANGED <<asked, read, readFailed, sendVars, isOpen>>

StartRead(l) ==
    /\ rpc[l] = "loop"
    /\ HasReads(l)
    /\ left' = [left EXCEPT ![l] = @ - 1]
    /\ rpc' = [rpc EXCEPT ![l] = "read"]
    /\ UNCHANGED <<receives, asked, read, readFailed, sendVars, isOpen>>

(* A packet arrived: onReceive is spawned and the loop goes on, *)
ReadDone(l) ==
    /\ rpc[l] = "read"
    /\ isOpen
    /\ read' = read + 1
    /\ rpc' = [rpc EXCEPT ![l] = "loop"]
    /\ UNCHANGED <<receives, left, asked, readFailed, sendVars, isOpen>>

(* or the loop ends, with what it had left to read and what is queued. *)
ReadFailed(l) ==
    /\ rpc[l] = "read"
    /\ readFailed' = TRUE
    /\ rpc' = [rpc EXCEPT ![l] = "done"]
    /\ UNCHANGED <<receives, left, asked, read, sendVars, isOpen>>

(* Channel::receive and receive_f: one read, whatever the loops do. *)
Receive(l) ==
    /\ rpc[l] = "none"
    /\ rpc' = [rpc EXCEPT ![l] = "single"]
    /\ asked' = asked + 1
    /\ UNCHANGED <<receives, left, read, readFailed, sendVars, isOpen>>

Received(l) ==
    /\ rpc[l] = "single"
    /\ \/ isOpen /\ read' = read + 1 /\ UNCHANGED readFailed
       \/ readFailed' = TRUE /\ UNCHANGED read
    /\ rpc' = [rpc EXCEPT ![l] = "done"]
    /\ UNCHANGED <<receives, left, asked, sendVars, isOpen>>

Close ==
    /\ isOpen
    /\ isOpen' = FALSE
    /\ UNCHANGED <<sendVars, receiveVars>>

-----------------------------------------------------------------------------
SendStep(f) == TakeSend(f) \/ Written(f) \/ WriteFailed(f) \/ GiveUp(f)
ReceiveStep(l) == TakeReceive(l) \/ StartRead(l) \/ ReadDone(l) \/ ReadFailed(l) \/ Received(l)

Next ==
    \/ \E p \in Packets : Send(p) \/ SendStep(p)
    \/ \E l \in Reads : ReceiveStep(l) \/ Receive(l) \/ \E n \in Amounts : Listen(l, n)
    \/ Close

Spec == Init /\ [][Next]_vars

(* A spawned fiber runs (FiberScheduler: HandlerTaken, WokenFiberRuns);    *)
(* the operating system ends every write; the peer sends or the connection *)
(* breaks.                                                                 *)
Fairness ==
    /\ \A p \in Packets : WF_vars(SendStep(p))
    /\ \A l \in Reads : WF_vars(ReceiveStep(l))

FairSpec == Spec /\ Fairness

-----------------------------------------------------------------------------
(* Properties. *)

(* The members of Channel and the locals of its loops have their types. *)
TypeOK ==
    /\ sends \in Seq(Packets \ Gathered) /\ sendsIOV \in Seq(Gathered)
    /\ sendInProcess \in BOOLEAN
    /\ spc \in [Packets -> {"none", "spawned", "loop", "write", "failed"}]
    /\ cur \in [Packets -> Packets \cup {None}]
    /\ res \in [Packets -> {"none", "pending", "ok", "error"}]
    /\ receives \in Seq(Nat)
    /\ rpc \in [Reads -> {"none", "loop", "read", "single", "done"}]
    /\ left \in [Reads -> Nat]
    /\ isOpen \in BOOLEAN
    /\ calls \in Seq(Packets)
    /\ asked \in Nat /\ read \in Nat /\ readFailed \in BOOLEAN

(* Between its first packet and its exit a send_f is alone: two writes on  *)
(* one socket would mix their bytes.  _sendInProcess says when that is,    *)
(* although a failed send_f clears it without looking at who set it.       *)
AtWork == {f \in Packets : spc[f] \in {"loop", "write", "failed"}}
OneWriter ==
    /\ \A f, g \in AtWork : f = g
    /\ sendInProcess <=> AtWork # {}

(* The packets of one kind are written in the order of the send calls,     *)
(* whichever send_f writes them, and also after a failure: no write ends   *)
(* while the future of an earlier packet of its kind is not set.  The two  *)
(* kinds overtake each other.                                              *)
WireOrder ==
    [][ \A i, j \in 1 .. Len(calls) :
          /\ i < j
          /\ calls[i] \in Gathered <=> calls[j] \in Gathered
          /\ res[calls[j]] # res'[calls[j]]
          => res[calls[i]] # "pending" ]_vars

(* Every future that send returned is set, unless a write has failed: a    *)
(* send_f that leaves because another one is at work leaves no packet      *)
(* behind.  After a failure it may: the packets queued behind the failed   *)
(* one wait for a send_f that no later send spawns.                        *)
SendResolves ==
    \A p \in Packets : res[p] = "pending" ~> (res[p] = "ok" \/ \E q \in Packets : res[q] = "error")

(* Every read that listen and receive asked for takes place, unless a read *)
(* has failed, however the calls and the receive loops interleave.         *)
ListenServed == <>[](read = asked \/ readFailed)

(* Neither half of a channel leaves work behind.  *)
ChannelServes == SendResolves /\ ListenServed
=============================================================================
