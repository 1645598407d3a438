------------------------------- MODULE MCPage -------------------------------
(***************************************************************************)
(* Pages for TLC: all bodies of up to three tokens, of four tokens for the *)
(* nesting of tags, pages of one link to try many links, and the answers   *)
(* a crawler refuses or follows.                                           *)
(***************************************************************************)
EXTENDS HtmlPage

(* &lt; &amp; and a byte that is no character in UTF-8 *)
lt == <<108, 116>>
amp == <<97, 109, 112>>
MCEntities == (lt :> 60) @@ (amp :> 38)
MCDefaultPorts == (http :> 80) @@ (https :> 443)
MCCharsets == (<<"utf-8">> :> [c \in {200} |-> <<>>]) @@ (<<"cp1251">> :> [c \in {200} |-> <<1080>>])
MCScomHost == <<115>>

-----------------------------------------------------------------------------
(* Links.  A segment and how it is written in a link and in a name. *)
Seg(text, name) == [text |-> text, name |-> name]
This == Seg(<<Dot>>, <<>>)
Parent == Seg(<<Dot, Dot>>, <<>>)
Empty == Seg(<<>>, <<>>)
Segs == {Seg(<<97>>, <<97>>), This, Parent,
         Seg(<<98, Space, 99>>, <<98, Percent, 50, 48, 99>>),
         Seg(<<Ampersand>> \o amp \o <<Semicolon>>, <<Ampersand>>)}

Place(host, port) == [host |-> host, port |-> port]
Joined(names) == FoldLeft(LAMBDA s, n : s \o <<Slash>> \o n, <<>>, names)
Written(place) == http \o <<Colon, Slash, Slash>> \o place.host \o place.port
Named(place) == http \o <<Colon, Slash, Slash>> \o place.host \o (IF place.port = <<Colon, 56, 48>> THEN <<>> ELSE place.port)

(* Walk the segments from a directory. *)
Walk(dir, segs) ==
    FoldLeft(LAMBDA d, s : IF s = Parent THEN (IF d = <<>> THEN d ELSE Front(d)) ELSE IF s \in {This, Empty} THEN d ELSE Append(d, s.name),
             dir, segs)
PathOf(dir, segs) ==
    LET end == Walk(dir, segs)
    IN  (IF end = <<>> THEN <<Slash>> ELSE Joined(end)) \o (IF end # <<>> /\ Last(segs) \in {This, Empty} THEN <<Slash>> ELSE <<>>)

(* A page's own uri: a place, a directory, a name and a query. *)
Base(place, dir, name, query) == [place |-> place, dir |-> dir, name |-> name, query |-> query]
BaseText(b) == Written(b.place) \o Joined(b.dir \o b.name) \o b.query
Bases == {Base(Place(<<115>>, <<>>), <<<<100>>>>, <<<<112>>>>, <<Question, 120>>),
          Base(Place(<<115>>, <<Colon, 56>>), <<<<100>>, <<101>>>>, <<<<>>>>, <<>>),
          Base(Place(<<115>>, <<>>), <<>>, <<>>, <<>>)}

(* A link: to a place, from the root or relative to the page. *)
LinkPlaces == {Place(<<115>>, <<Colon, 56, 48>>), Place(<<116>>, <<Colon, 56>>), Place(<<116>>, <<>>)}
Trails == {<<>>} \cup {<<s>> : s \in Segs \ {Parent}} \cup {<<s, t>> : s \in Segs, t \in (Segs \ {Parent}) \cup {Empty}}
            \cup {<<Parent, s, t>> : s, t \in Segs \ {Parent}}
Queries == {<<>>, <<Question, 120>>}
FragmentText == <<Hash, 97>>

JoinedText(trail) == Tail(Joined([i \in DOMAIN trail |-> trail[i].text]))
Href(text, host, name) == [text |-> text, host |-> host, name |-> name]
OutLink(place, trail, query) ==
    Href(Written(place) \o Joined([i \in DOMAIN trail |-> trail[i].text]) \o query \o FragmentText, place.host,
         Named(place) \o (IF trail = <<>> THEN <<Slash>> ELSE PathOf(<<>>, trail)) \o query)
RootLink(b, trail, query) ==
    Href(Joined([i \in DOMAIN trail |-> trail[i].text]) \o query, b.place.host,
         Named(b.place) \o PathOf(<<>>, trail) \o query)
RelativeLink(b, trail, query) ==
    Href(JoinedText(trail) \o query \o FragmentText, b.place.host, Named(b.place) \o PathOf(b.dir, trail) \o query)
SameLink(b, query) ==
    Href(query \o FragmentText, b.place.host,
         Named(b.place) \o (IF b.name = <<>> THEN <<Slash>> ELSE Joined(b.dir \o b.name)) \o (IF query = <<>> THEN b.query ELSE query))
Hrefs(b) ==
    {OutLink(p, t, q) : p \in LinkPlaces, t \in Trails, q \in Queries}
      \cup {RootLink(b, t, q) : t \in Trails \ {<<>>}, q \in Queries}
      \cup {RelativeLink(b, t, q) : t \in Trails \ {<<>>}, q \in Queries}
      \cup {SameLink(b, q) : q \in Queries}

-----------------------------------------------------------------------------
(* Tokens. *)
Tok(kind, name, text) == [kind |-> kind, name |-> name, text |-> text, attributes |-> <<>>, shown |-> <<>>, leads |-> <<>>]
Plain(text, shown) == [Tok("text", "", text) EXCEPT !.shown = shown]
Open(name) == Tok("open", name, <<60, 111, 62>>)
Close(name) == Tok("close", name, <<60, Slash, 62>>)
Anchor(h) == [Open("a") EXCEPT !.attributes = <<<<"href", h.text>>, <<"href", <<120>>>>>>, !.leads = <<[host |-> h.host, name |-> h.name]>>]
Meta == [Open("meta") EXCEPT !.attributes = <<<<"content", <<"text/", "html", "; ", "charset=", "cp1251">>>>, <<"http-equiv", <<"Content-Type">>>>>>]
X == Plain(<<120, Ampersand>>, <<120, Ampersand>>)
EntityText == Plain(<<Ampersand, 65, 77, 80, Semicolon>> \o lt \o <<Semicolon>>, <<Ampersand>> \o lt \o <<Semicolon>>)
ByteText == Plain(<<200, Ampersand, Hash, 54, 53, Semicolon, Ampersand, Hash, 48, Semicolon>>, <<200, 65>>)

BaseOne == CHOOSE b \in Bases : b.query # <<>>
Tokens == {X, EntityText, ByteText, Open("p"), Close("p"), Meta, Open("script"), Close("script"), Open("textarea"),
           Anchor(RelativeLink(BaseOne, <<Parent, This, Empty>>, <<>>)), Tok("comment", "", <<60, 33, 62>>)}
TagTokens == {X, Open("p"), Close("p"), Open("div"), Close("div"), Open("meta")}

Answer(reader, b, body) ==
    [reader |-> reader, uri |-> BaseText(b), status |-> 200, locations |-> <<>>, length |-> 1,
     contentType |-> <<"text/", "html">>, body |-> body, redirect |-> <<>>]
Readers == {"scom", "spider"}
Locations == {[locations |-> <<>>, redirect |-> <<>>],
              [locations |-> <<Written(Place(<<116>>, <<>>)) \o <<Slash, 97, Hash, 98>>>>,
               redirect |-> <<Written(Place(<<116>>, <<>>)) \o <<Slash, 97>>>>],
              [locations |-> <<<<Slash, 97>>>>, redirect |-> <<>>],
              [locations |-> <<<<Slash, Slash, 116, Colon, 97>>>>, redirect |-> <<>>]}
ContentTypes == {<<>>, <<"image">>, <<"text/", "html", "; ", "charset=", "cp1251">>, <<"text/", "html", "; ", "charset=", "cp1251", "; ">>}
MCAnswers ==
    {Answer("spider", BaseOne, body) : body \in UNION {[1 .. n -> Tokens] : n \in 0 .. 3}}
      \cup {Answer("scom", BaseOne, body) : body \in [1 .. 2 -> Tokens] \cup [1 .. 4 -> TagTokens]}
      \cup UNION {{Answer(r, b, <<Anchor(h)>>) : r \in Readers, h \in Hrefs(b)} : b \in Bases}
      \cup {[Answer(r, BaseOne, <<ByteText>>) EXCEPT !.status = s, !.locations = l.locations, !.redirect = l.redirect,
                                                      !.length = n, !.contentType = ct] :
              r \in Readers, s \in {200, 301, 303, 404}, l \in Locations, n \in 1 .. 2, ct \in ContentTypes}
=============================================================================
