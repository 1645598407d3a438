------------------------------- MODULE MCNet -------------------------------
(***************************************************************************)
(* The net library for TLC: the sending half of a channel, its receiving   *)
(* half, an acceptor and a connector, and HTTP on a connection; then, the  *)
(* files a server hands out, and the values of header fields.  They share  *)
(* no state but the socket of the channel, which either half may find      *)
(* closed at any moment, so each behaviour is about one of them.           *)
(***************************************************************************)
EXTENDS Channel, Endpoints, Http, HandlerFs

VARIABLE part

(* An acceptor listens with ssl and later without, or the other way round. *)
MCListenSsls == {<<TRUE, FALSE>>, <<FALSE, TRUE>>}

(* Dialogs of one or two requests that meet every way to frame a body. *)
Get(version, headers) == [method |-> "GET", version |-> version, headers |-> headers, body |-> <<>>]
Plain == Get(11, <<>>)
OptionsRequest == [Plain EXCEPT !.method = "OPTIONS"]
Post == [method |-> "POST", version |-> 11, headers |-> <<<<"length", 1>>>>, body |-> <<CR>>]
PostChunked == [method |-> "POST", version |-> 11, headers |-> <<<<"transfer", 1>>>>,
                body |-> <<B("d", 1)>> \o CRLF \o <<B("x", 1)>> \o CRLF \o <<B("d", 0)>> \o CRLF \o CRLF]

MCDialogs ==
    {<<Plain, Plain>>,
     <<Get(11, <<<<"accept", Deflate>>>>)>>,
     <<Get(11, <<<<"connection", ConnClose>>, <<"te", 0>>>>)>>,
     <<Get(11, <<<<"te", 0>>>>)>>,
     <<Get(11, <<<<"te", 0>>, <<"accept", Deflate>>>>)>>,
     <<Get(10, <<>>)>>,
     <<Get(10, <<<<"connection", KeepAlive>>>>), OptionsRequest>>,
     <<Post, Plain>>, <<PostChunked>>}

MCBodies == {<<>>, <<B("x", 1), CR>>, <<B("x", 1), B("x", 1), B("x", 2), CR, B("x", 3)>>}

(* Lists of one to three codings, weighed, unknown, or "*". *)
Item(n, q) == [name |-> n, q |-> q]
MCItems == {Item("gzip", -1), Item("gzip", 0), Item("gzip", 1), Item("deflate", 1), Item("identity", 0),
            Item("*", 0), Item("*", 1), Item("other", 1)}
MCCodingLists ==
    {<<a>> : a \in MCItems} \cup {<<a, b>> : a, b \in MCItems}
    \cup {<<a, b, Item("chunked", 1)>> : a, b \in MCItems}

(* The first days, the end of 1994-06-09, the years 2000 and 2038, and the *)
(* last and the first day of a February and a March in a leap year.        *)
MCMoments == {0, 3, 4 * 8925 + 3, 4 * 10957 + 1, 4 * 11016 + 2, 4 * 11017, 4 * 24855}

MCUrls ==
    {[scheme |-> s, host |-> h, port |-> p, path |-> pa, anchor |-> an] :
       s \in {"none", "http", "https"}, h \in {<<"a">>, <<"http">>, <<"http", "s", "a">>},
       p \in {"", "80", "443", "8080"}, pa \in {<<>>, <<"/">>, <<"/", "a", "?", ":", "80">>},
       an \in {<<>>, <<"#">>, <<"#", "a">>}}

MCExtInfos == {[level |-> 1, minSize |-> 2]}

NetInit ==
    /\ part \in {"send", "receive", "acceptor", "connector", "http", "files", "values"}
    /\ Init /\ EndpointsInit
    /\ part # "acceptor" => listenSsl = <<TRUE, FALSE>>
    /\ IF part = "http" THEN HttpInit ELSE HttpStart(<<>>)
    /\ IF part = "files" THEN FsInit
       ELSE FsStart([allowETag |-> TRUE, allowLastModified |-> TRUE, level |-> 0, minSize |-> 0])

SendNext == Close \/ \E p \in Packets : Send(p) \/ SendStep(p)
ReceiveNext ==
    Close \/ \E l \in Reads : ReceiveStep(l) \/ Receive(l) \/ \E n \in Amounts : Listen(l, n)

NetNext ==
    /\ UNCHANGED part
    /\ \/ part = "send" /\ SendNext /\ UNCHANGED <<endpointVars, httpVars, fsVars>>
       \/ part = "receive" /\ ReceiveNext /\ UNCHANGED <<endpointVars, httpVars, fsVars>>
       \/ part = "acceptor" /\ AcceptorNext /\ UNCHANGED <<vars, httpVars, fsVars>>
       \/ part = "connector" /\ ConnectorNext /\ UNCHANGED <<vars, httpVars, fsVars>>
       \/ part = "http" /\ HttpNext /\ UNCHANGED <<vars, endpointVars, fsVars>>
       \/ part = "files" /\ FsNext /\ UNCHANGED <<vars, endpointVars, httpVars>>
       \/ part = "values" /\ FieldNext /\ UNCHANGED <<vars, endpointVars, httpVars>>

NetSpec == NetInit /\ [][NetNext]_<<part, vars, endpointVars, httpVars, fsVars>> /\ Fairness /\ EndpointsFairness
=============================================================================
