----------------------------- MODULE Endpoints -----------------------------
(***************************************************************************)
(* net::Acceptor and net::Connector (src/net/impl/acceptor.cpp,            *)
(* connector.cpp): how channels come to be.  listen spawns listen_f, which *)
(* resolves the address and puts an asio acceptor in place; accept_f takes *)
(* one connection and spawns its successor; unlisten closes the acceptor   *)
(* at any moment.  connect_f tries the addresses of a host in turn.        *)
(*                                                                         *)
(* One action is one critical section of _mtx, or the code up to the next  *)
(* asynchronous operation.  The sockets are external: an operation ends    *)
(* well or with an error, a pending accept is aborted when its acceptor is *)
(* closed, one started on an acceptor that is not open fails, a connected  *)
(* socket cannot be connected again.  listen call i makes acceptor i,      *)
(* which closes when its last owner drops it.  The asserts are compiled    *)
(* out of the Release build that CMakeLists.txt:11 asks for; a             *)
(* dereferenced empty _acceptor ends the program: crashed.                 *)
(***************************************************************************)
EXTENDS Naturals, FiniteSets

CONSTANTS ListenSsls,   \* bound: the useSsl of the listen calls of a behaviour, sequences
          Acceptings,   \* bound: names for fibers that run accept_f
          Peers,        \* bound: connections that come in
          Faults,       \* bound: accepts that fail for a passing reason
          Connects,     \* the connect calls of one behaviour
          Addresses     \* bound: addresses a host resolves to

ASSUME EndpointsAssumption ==
    /\ \A s, t \in ListenSsls : DOMAIN s = DOMAIN t /\ DOMAIN s \in SUBSET (Nat \ {0})
    /\ Peers \in Nat /\ Faults \in Nat /\ Addresses \in Nat

ListenCalls == UNION {DOMAIN s : s \in ListenSsls}

VARIABLES
    inProcess,    \* Acceptor::_inProcess
    acceptor,     \* Acceptor::_acceptor, 0 when empty
    sslContext,   \* Acceptor::_sslContext is there
    sock,         \* what each asio acceptor is: none, created, open or closed
    lpc,          \* where the listen_f of each call is
    listenSsl,    \* the useSsl of each listen call
    listenRes,    \* what the future of each listen call holds
    accepting,    \* each accept_f: where it is, its locals
    backlog,      \* peers that wait at an open acceptor
    peersLeft, faultsLeft,
    hurried,      \* history: unlisten came while a listen_f was running
    crashed,      \* an empty _acceptor was dereferenced: the program has ended
    clientSsl,    \* Connector::_sslContext is there
    cpc,          \* where the connect_f of each call is
    attempt       \* its locals: useSsl, addresses left, is the socket connected

acceptorVars == <<inProcess, acceptor, sslContext, sock, lpc, listenSsl,
                  listenRes, accepting, backlog, peersLeft, faultsLeft, hurried, crashed>>
connectorVars == <<clientSsl, cpc, attempt>>
endpointVars == <<acceptorVars, connectorVars>>

Idle == [pc |-> "none", of |-> 0, ssl |-> FALSE, connected |-> FALSE]

EndpointsInit ==
    /\ inProcess = FALSE /\ acceptor = 0 /\ sslContext = FALSE
    /\ sock = [i \in ListenCalls |-> "none"]
    /\ lpc = [i \in ListenCalls |-> "none"]
    /\ listenSsl \in ListenSsls
    /\ listenRes = [i \in ListenCalls |-> "none"]
    /\ accepting = [f \in Acceptings |-> Idle]
    /\ backlog = 0 /\ peersLeft = Peers /\ faultsLeft = Faults
    /\ hurried = FALSE /\ crashed = FALSE
    /\ clientSsl = FALSE
    /\ cpc = [c \in Connects |-> "none"]
    /\ attempt = [c \in Connects |-> [ssl |-> FALSE, left |-> 0, connected |-> FALSE]]

-----------------------------------------------------------------------------
(* listen *)

(* Acceptor::listen: listen_f is spawned. *)
ListenCall(i) ==
    /\ lpc[i] = "none"
    /\ \A j \in ListenCalls : j < i => lpc[j] # "none"
    /\ lpc' = [lpc EXCEPT ![i] = "spawned"]
    /\ listenRes' = [listenRes EXCEPT ![i] = "pending"]
    /\ UNCHANGED <<inProcess, acceptor, sslContext, sock, accepting, backlog,
                   peersLeft, faultsLeft, hurried, listenSsl, crashed, connectorVars>>

ListenEnds(i, answer) ==
    /\ lpc' = [lpc EXCEPT ![i] = "done"]
    /\ listenRes' = [listenRes EXCEPT ![i] = answer]

(* The acceptors that lose their last owner when _acceptor becomes a, the  *)
(* listen_f in ls run and the accept_f are as in fs.                       *)
Owned(a, ls, fs) ==
    {a} \cup ls \cup {fs[f].of : f \in {g \in Acceptings : fs[g].pc \in {"start", "accept", "handshake"}}}
Drop(st, a, ls, fs) ==
    [i \in ListenCalls |-> IF st[i] \in {"created", "open"} /\ i \notin Owned(a, ls, fs)
                           THEN "closed" ELSE st[i]]
Listening == {i \in ListenCalls : lpc[i] \in {"resolve", "setup"}}

(* Its first critical section.  A context that cannot be set up leaves     *)
(* _inProcess and _sslContext set, beside the _acceptor there was: none.   *)
ListenBegin(i) ==
    /\ lpc[i] = "spawned"
    /\ \/ /\ inProcess
          /\ ListenEnds(i, "inProgress")
          /\ UNCHANGED <<inProcess, acceptor, sslContext, sock>>
       \/ /\ ~inProcess
          /\ inProcess' = TRUE
          /\ sslContext' = (listenSsl[i] \/ sslContext)
          /\ acceptor' = i
          /\ sock' = Drop([sock EXCEPT ![i] = "created"], i, Listening, accepting)
          /\ lpc' = [lpc EXCEPT ![i] = "resolve"]
          /\ UNCHANGED listenRes
       \/ /\ ~inProcess /\ listenSsl[i]
          /\ inProcess' = TRUE /\ sslContext' = TRUE
          /\ ListenEnds(i, "error")
          /\ UNCHANGED <<acceptor, sock>>
    /\ UNCHANGED <<accepting, backlog, peersLeft, faultsLeft, hurried, listenSsl, crashed, connectorVars>>

Resolved(i) ==
    /\ lpc[i] = "resolve"
    /\ lpc' = [lpc EXCEPT ![i] = "setup"]
    /\ UNCHANGED <<inProcess, acceptor, sslContext, sock, listenRes, accepting, backlog,
                   peersLeft, faultsLeft, hurried, listenSsl, crashed, connectorVars>>

ResolveFailed(i) ==
    /\ lpc[i] = "resolve"
    /\ inProcess' = FALSE /\ sslContext' = FALSE
    /\ ListenEnds(i, "error")
    /\ sock' = Drop(sock, acceptor, Listening \ {i}, accepting)
    /\ UNCHANGED <<acceptor, accepting, backlog, peersLeft, faultsLeft,
                   hurried, listenSsl, crashed, connectorVars>>

FreeSlots == {g \in Acceptings : accepting[g].pc = "none"}
Slot == CHOOSE g \in FreeSlots : TRUE
Spawned(ssl) == [pc |-> "spawned", of |-> 0, ssl |-> ssl, connected |-> FALSE]

(* open, set_option, bind, listen; an acceptor that unlisten has closed is *)
(* opened again.  res and accept_f are spawned.                            *)
Setup(i) ==
    /\ lpc[i] = "setup"
    /\ FreeSlots # {}
    /\ accepting' = [accepting EXCEPT ![Slot] = Spawned(listenSsl[i])]
    /\ sock' = Drop([sock EXCEPT ![i] = "open"], acceptor, Listening \ {i}, accepting)
    /\ ListenEnds(i, "ok")
    /\ UNCHANGED <<inProcess, acceptor, sslContext, backlog, peersLeft, faultsLeft,
                   hurried, listenSsl, crashed, connectorVars>>

(* One of them fails: the error is returned and nothing is undone. *)
SetupFailed(i) ==
    /\ lpc[i] = "setup"
    /\ sock' = Drop(sock, acceptor, Listening \ {i}, accepting)
    /\ ListenEnds(i, "error")
    /\ UNCHANGED <<inProcess, acceptor, sslContext, accepting, backlog, peersLeft,
                   faultsLeft, hurried, listenSsl, crashed, connectorVars>>

-----------------------------------------------------------------------------
(* accept_f *)

NoTest == TRUE
MayAccept == inProcess

(* Its critical section: give up, or take the acceptor of the moment. *)
AcceptBegin(f) ==
    /\ accepting[f].pc = "spawned"
    /\ \/ /\ ~MayAccept
          /\ accepting' = [accepting EXCEPT ![f] = Idle]
       \/ /\ MayAccept
          /\ accepting' = [accepting EXCEPT ![f] =
               [pc |-> "start", of |-> acceptor, ssl |-> @.ssl /\ sslContext, connected |-> FALSE]]
    /\ UNCHANGED <<inProcess, acceptor, sslContext, sock, lpc, listenRes, backlog,
                   peersLeft, faultsLeft, hurried, listenSsl, crashed, connectorVars>>

(* The accept has ended with or without a connection: a successor is       *)
(* spawned, then the handshake begins or the channel is handed out, both   *)
(* also without a connection.                                              *)
AcceptEnds(f, connected) ==
    /\ FreeSlots # {}
    /\ accepting' = [accepting EXCEPT
         ![Slot] = Spawned(accepting[f].ssl),
         ![f] = IF accepting[f].ssl THEN [@ EXCEPT !.pc = "handshake", !.connected = connected]
                ELSE Idle]
    /\ sock' = Drop(sock, acceptor, Listening, accepting')

IsOpen(i) == i \in ListenCalls /\ sock[i] = "open"

(* async_accept, on an acceptor that is not there in a stale accept_f      *)
(* that runs after an ssl context could not be set up.                     *)
AcceptStart(f) ==
    /\ accepting[f].pc = "start"
    /\ \/ /\ IsOpen(accepting[f].of)
          /\ accepting' = [accepting EXCEPT ![f].pc = "accept"]
          /\ UNCHANGED <<sock, crashed>>
       \/ /\ accepting[f].of # 0 /\ ~IsOpen(accepting[f].of)
          /\ AcceptEnds(f, FALSE)
          /\ UNCHANGED crashed
       \/ /\ accepting[f].of = 0
          /\ crashed' = TRUE
          /\ UNCHANGED <<accepting, sock>>
    /\ UNCHANGED <<inProcess, acceptor, sslContext, lpc, listenRes, backlog, peersLeft,
                   faultsLeft, hurried, listenSsl, connectorVars>>

Accepted(f) ==
    /\ accepting[f].pc = "accept" /\ IsOpen(accepting[f].of)
    /\ backlog > 0
    /\ backlog' = backlog - 1
    /\ AcceptEnds(f, TRUE)
    /\ UNCHANGED <<inProcess, acceptor, sslContext, lpc, listenRes, peersLeft, faultsLeft,
                   hurried, listenSsl, crashed, connectorVars>>

AcceptFailed(f) ==
    /\ accepting[f].pc = "accept" /\ faultsLeft > 0
    /\ faultsLeft' = faultsLeft - 1
    /\ AcceptEnds(f, FALSE)
    /\ UNCHANGED <<inProcess, acceptor, sslContext, lpc, listenRes, backlog, peersLeft,
                   hurried, listenSsl, crashed, connectorVars>>

(* operation_aborted *)
AcceptAborted(f) ==
    /\ accepting[f].pc = "accept" /\ ~IsOpen(accepting[f].of)
    /\ accepting' = [accepting EXCEPT ![f] = Idle]
    /\ UNCHANGED <<inProcess, acceptor, sslContext, sock, lpc, listenRes, backlog, peersLeft,
                   faultsLeft, hurried, listenSsl, crashed, connectorVars>>

(* The handshake of a connected socket ends well or badly, or its peer is  *)
(* silent for ever; that of another socket fails.                          *)
HandshakeEnds(f) ==
    /\ accepting[f].pc = "handshake"
    /\ accepting' = [accepting EXCEPT ![f] = Idle]
    /\ sock' = Drop(sock, acceptor, Listening, accepting')
    /\ UNCHANGED <<inProcess, acceptor, sslContext, lpc, listenRes, backlog, peersLeft,
                   faultsLeft, hurried, listenSsl, crashed, connectorVars>>

(* A peer connects; what waits at an acceptor is lost when it closes. *)
PeerConnects ==
    /\ \E i \in ListenCalls : sock[i] = "open"
    /\ peersLeft > 0
    /\ peersLeft' = peersLeft - 1 /\ backlog' = backlog + 1
    /\ UNCHANGED <<inProcess, acceptor, sslContext, sock, lpc, listenRes, accepting,
                   faultsLeft, hurried, listenSsl, crashed, connectorVars>>

CloseAcceptor ==
    /\ sock' = [sock EXCEPT ![acceptor] = "closed"]
    /\ inProcess' = FALSE /\ acceptor' = 0 /\ sslContext' = FALSE
    /\ backlog' = 0
    /\ hurried' = (hurried \/ Listening # {})
    /\ UNCHANGED crashed

DereferenceEmpty ==
    /\ crashed' = TRUE
    /\ UNCHANGED <<sock, inProcess, acceptor, sslContext, backlog, hurried>>

(* unlisten, also from the destructor.  After a context that could not be  *)
(* set up there is no acceptor to close.                                   *)
Unlisten ==
    /\ inProcess
    /\ \/ acceptor # 0 /\ CloseAcceptor
       \/ acceptor = 0 /\ DereferenceEmpty
    /\ UNCHANGED <<lpc, listenSsl, listenRes, accepting, peersLeft, faultsLeft, connectorVars>>

-----------------------------------------------------------------------------
(* connect *)

ConnectCall(c, useSsl) ==
    /\ cpc[c] = "none"
    /\ cpc' = [cpc EXCEPT ![c] = "spawned"]
    /\ attempt' = [attempt EXCEPT ![c].ssl = useSsl]
    /\ UNCHANGED <<acceptorVars, clientSsl>>

(* The context is made once; when that fails, so does the call. *)
ConnectBegin(c) ==
    /\ cpc[c] = "spawned"
    /\ \/ cpc' = [cpc EXCEPT ![c] = "resolve"] /\ clientSsl' = (clientSsl \/ attempt[c].ssl)
       \/ /\ attempt[c].ssl /\ ~clientSsl
          /\ cpc' = [cpc EXCEPT ![c] = "failed"] /\ UNCHANGED clientSsl
    /\ UNCHANGED <<acceptorVars, attempt>>

ConnectResolved(c) ==
    /\ cpc[c] = "resolve"
    /\ \/ cpc' = [cpc EXCEPT ![c] = "failed"] /\ UNCHANGED attempt
       \/ \E n \in 1 .. Addresses :
            /\ cpc' = [cpc EXCEPT ![c] = "connect"]
            /\ attempt' = [attempt EXCEPT ![c].left = n]
    /\ UNCHANGED <<acceptorVars, clientSsl>>

(* async_connect to the next address. *)
ConnectFailed(c) ==
    /\ cpc[c] = "connect"
    /\ attempt' = [attempt EXCEPT ![c].left = @ - 1]
    /\ cpc' = [cpc EXCEPT ![c] = IF attempt'[c].left = 0 THEN "failed" ELSE "connect"]
    /\ UNCHANGED <<acceptorVars, clientSsl>>

Connected(c) ==
    /\ cpc[c] = "connect" /\ ~attempt[c].connected
    /\ attempt' = [attempt EXCEPT ![c].connected = TRUE]
    /\ cpc' = [cpc EXCEPT ![c] = IF attempt[c].ssl THEN "handshake" ELSE "connected"]
    /\ UNCHANGED <<acceptorVars, clientSsl>>

(* After a failed handshake the loop goes on with the same address and the *)
(* same socket.                                                            *)
SocketAfterFailure(c) == attempt

ConnectHandshake(c) ==
    /\ cpc[c] = "handshake"
    /\ \/ cpc' = [cpc EXCEPT ![c] = "connected"] /\ UNCHANGED attempt
       \/ cpc' = [cpc EXCEPT ![c] = "connect"] /\ attempt' = SocketAfterFailure(c)
    /\ UNCHANGED <<acceptorVars, clientSsl>>

-----------------------------------------------------------------------------
ListenStep(i) ==
    ~crashed /\ (ListenBegin(i) \/ Resolved(i) \/ ResolveFailed(i) \/ Setup(i) \/ SetupFailed(i))
AcceptStep(f) ==
    ~crashed /\ (\/ AcceptBegin(f) \/ AcceptStart(f) \/ Accepted(f) \/ AcceptFailed(f) \/ AcceptAborted(f)
                 \/ (~accepting[f].connected /\ HandshakeEnds(f)))
ConnectStep(c) == ConnectBegin(c) \/ ConnectResolved(c) \/ ConnectFailed(c) \/ Connected(c)

(* A program that has crashed does nothing. *)
AcceptorNext ==
    \/ \E i \in ListenCalls : ListenStep(i) \/ (~crashed /\ ListenCall(i))
    \/ \E f \in Acceptings : AcceptStep(f) \/ (~crashed /\ HandshakeEnds(f))
    \/ ~crashed /\ (PeerConnects \/ Unlisten)

ConnectorNext ==
    \E c \in Connects : (\E s \in BOOLEAN : ConnectCall(c, s)) \/ ConnectStep(c) \/ ConnectHandshake(c)

EndpointsNext == AcceptorNext \/ ConnectorNext

(* A spawned fiber runs, the resolver and the kernel end what was started. *)
(* Nothing is assumed of the handshake of a connected socket: the code has *)
(* no timeout for it.                                                      *)
EndpointsFairness ==
    /\ \A i \in ListenCalls : WF_endpointVars(ListenStep(i))
    /\ \A f \in Acceptings : WF_endpointVars(AcceptStep(f))
    /\ \A c \in Connects : WF_endpointVars(ConnectStep(c))

EndpointsSpec == EndpointsInit /\ [][EndpointsNext]_endpointVars /\ EndpointsFairness

-----------------------------------------------------------------------------
(* Properties. *)

(* A loop that unlisten overtakes ends, wherever it was: once the acceptor *)
(* stays unlistened no accept_f runs, apart from handshakes of silent      *)
(* peers.  (An unlisten that comes while a listen_f runs is undone by it:  *)
(* the acceptor is opened again.  http::Server waits for its listen.)      *)
StopsAccepting ==
    []~hurried /\ <>[]~inProcess => <>[](\A f \in Acceptings : accepting[f].pc \in {"none", "handshake"} \/ crashed)

(* While a listen stays successful every peer that connects is accepted,   *)
(* also after an accept that failed and while other handshakes hang.       *)
BacklogServed ==
    (<>[](\E i \in ListenCalls : acceptor = i /\ inProcess /\ listenRes[i] = "ok" /\ ~crashed))
      => <>[](backlog = 0)

(* The program ends on an empty _acceptor, and does so only after a listen *)
(* for ssl that was answered with an error: an unlisten that races with a  *)
(* listen_f or a stale accept_f does not bring it about.  (What a program  *)
(* that has crashed shows stays as it is.)                                 *)
CrashExplained ==
    <>[](crashed => \E i \in ListenCalls : listenSsl[i] /\ listenRes[i] = "error")

(* After unlisten the loops end, before it peers are served; every listen  *)
(* call is answered; and every connect_f ends or waits for one silent      *)
(* server: it does not go round for ever.  All this unless the program     *)
(* crashes, which takes an ssl context that could not be set up.           *)
EndpointsServe ==
    /\ StopsAccepting /\ BacklogServed /\ CrashExplained
    /\ \A i \in ListenCalls : listenRes[i] = "pending" ~> (listenRes[i] # "pending" \/ crashed)
    /\ \A c \in Connects : <>[](cpc[c] \in {"none", "failed", "connected", "handshake"})
=============================================================================
