------------------------------ MODULE HtmlPage ------------------------------
(***************************************************************************)
(* What the crawlers take from a page they fetched (parse and the checks   *)
(* before it in src/scom/impl/service.cpp and src/spider/service.cpp): the *)
(* parser of htmlcxx makes a tree of its tags, texts and comments, the     *)
(* texts are converted and decoded, the links are resolved.                *)
(*                                                                         *)
(* A body is a sequence of tokens, each with the characters it is written  *)
(* with; a content type is a sequence of pieces.                           *)
(***************************************************************************)
EXTENDS HtmlUri

CONSTANTS Answers,      \* the answers a crawler may get
          Charsets,     \* external, iconv: charset -> byte from 128 on -> characters
          Entities,     \* entity of htmlEntities.cpp: name in lower case -> code
          ScomHost,     \* the one host scom takes links to
          BodySizeMax   \* _maxHttpBodySize; 1 MB for spider

VARIABLES answer, read, \* the answer and how many tokens of it are read
          pending,      \* the text since the last tag or comment
          literal,      \* mpLiteral, or ""
          nodes,        \* mHtmlTree in the order of its traversal
          currentState, \* mCurrentState
          outcome       \* what the crawler stores
pageVars == <<answer, read, pending, literal, nodes, currentState, outcome>>

-----------------------------------------------------------------------------
(* uriLoader of scom and processOne of spider, before the body is read. *)

RedirectStatuses == IF answer.reader = "scom" THEN {301, 302, 303} ELSE {301, 302}
redirectUri ==
    IF answer.status \in RedirectStatuses /\ answer.locations # <<>> THEN Uri(answer.locations[1]) ELSE NoUri
isGoodContentType(contentType) == \E i \in DOMAIN contentType : contentType[i] \in {"html", "text", "xml"}

Nothing == [status |-> "reading", pieces |-> <<>>, links |-> <<>>]
Refused(status) == outcome' = [Nothing EXCEPT !.status = status]
CheckAnswer ==
    /\ read = 0 /\ outcome = Nothing
    /\ \/ /\ answer.status # 200 /\ ~redirectUri.isOk
          /\ Refused("bad status")
       \/ /\ answer.status = 200 \/ redirectUri.isOk
          /\ answer.length > BodySizeMax
          /\ Refused("too big")
       \/ /\ answer.status = 200 /\ answer.length <= BodySizeMax
          /\ ~isGoodContentType(answer.contentType)
          /\ Refused("bad content type")
       \/ /\ answer.length <= BodySizeMax
          /\ redirectUri.isOk \/ (answer.status = 200 /\ isGoodContentType(answer.contentType))
          /\ outcome' = [Nothing EXCEPT !.status = "body"]
    /\ UNCHANGED <<answer, read, pending, literal, nodes, currentState>>

-----------------------------------------------------------------------------
(* ParserSax and ParserDom.  The text of a literal tag goes on to its own  *)
(* closing tag, which plaintext does not have.                             *)
LiteralTags == {"script", "style", "xmp", "plaintext", "textarea"}

ReadingBody == outcome.status = "body" /\ read < Len(answer.body)
Token == answer.body[read + 1]
ClosesLiteral(t) == t.kind = "close" /\ t.name = literal /\ literal # "plaintext"
IsContent(t) == IF literal = "" THEN t.kind = "text" ELSE ~ClosesLiteral(t)

NewNode(kind, name, attributes, text) ==
    [kind |-> kind, name |-> name, attributes |-> attributes, text |-> text, parent |-> currentState]

(* parseContent for the text before a tag, a comment or the end. *)
WithContent == IF pending = <<>> THEN nodes ELSE Append(nodes, NewNode("text", "", <<>>, pending))
ReadToken == read' = read + 1 /\ UNCHANGED <<answer, outcome>>

ParseContent ==
    /\ ReadingBody /\ IsContent(Token)
    /\ pending' = pending \o Token.text
    /\ ReadToken
    /\ UNCHANGED <<literal, nodes, currentState>>

ParseComment ==
    /\ ReadingBody /\ literal = "" /\ Token.kind = "comment"
    /\ nodes' = Append(WithContent, NewNode("comment", "", <<>>, Token.text))
    /\ pending' = <<>>
    /\ ReadToken
    /\ UNCHANGED <<literal, currentState>>

FoundOpenTag ==
    /\ ReadingBody /\ literal = "" /\ Token.kind = "open"
    /\ nodes' = Append(WithContent, NewNode("tag", Token.name, Token.attributes, Token.text))
    /\ currentState' = Len(nodes')
    /\ literal' = IF Token.name \in LiteralTags THEN Token.name ELSE ""
    /\ pending' = <<>>
    /\ ReadToken

(* The tags that are open, the innermost first. *)
OpenTags ==
    LET above[i \in 1 .. Len(nodes)] == IF i = 1 THEN <<>> ELSE <<i>> \o above[nodes[i].parent]
    IN  above[currentState]

(* foundTag of a closing tag: the innermost open tag of its name is        *)
(* closed, and the tags in it that were not give it their children.        *)
NotFlattened(tree, open, tag) == tree
flatten(tree, open, tag) ==
    LET unclosed == ToSet(Before(open, SelectInSeq(open, LAMBDA i : i = tag))) IN
    [i \in DOMAIN tree |-> IF tree[i].parent \in unclosed THEN [tree[i] EXCEPT !.parent = tag] ELSE tree[i]]
FoundCloseTag ==
    LET opened == SelectSeq(OpenTags, LAMBDA i : nodes[i].name = Token.name)
    IN  /\ ReadingBody /\ Token.kind = "close" /\ ~IsContent(Token)
        /\ \/ /\ opened # <<>>
              /\ nodes' = flatten(WithContent, OpenTags, opened[1])
              /\ currentState' = nodes[opened[1]].parent
           \/ /\ opened = <<>>
              /\ nodes' = Append(WithContent, NewNode("comment", "", <<>>, Token.text))
              /\ UNCHANGED currentState
        /\ literal' = ""
        /\ pending' = <<>>
        /\ ReadToken

-----------------------------------------------------------------------------
(* The rest of parse, and what is stored. *)

HasAttribute(n, key) == \E i \in DOMAIN n.attributes : n.attributes[i][1] = key
Attribute(n, key) == SelectSeq(n.attributes, LAMBDA a : a[1] = key)[1][2]

(* All that follows charset= has to be the name of one. *)
CharsetOf(contentType) ==
    LET i == SelectInSeq(contentType, LAMBDA p : p = "charset=")
    IN  IF i = 0 THEN <<>> ELSE From(contentType, i + 1)
IsCharset(contentType) == CharsetOf(contentType) \in DOMAIN Charsets
IsContentTypeMeta(n) ==
    /\ n.kind = "tag" /\ n.name = "meta"
    /\ HasAttribute(n, "http-equiv") /\ Attribute(n, "http-equiv") = <<"Content-Type">>
    /\ HasAttribute(n, "content") /\ IsCharset(Attribute(n, "content"))
NoConvertor == <<>>
convertorFromContentTypeOrDom(tree) ==
    LET metas == SelectSeq(tree, IsContentTypeMeta) IN
    IF IsCharset(answer.contentType) THEN CharsetOf(answer.contentType)
    ELSE IF metas # <<>> THEN CharsetOf(Attribute(metas[1], "content"))
    ELSE IF answer.reader = "scom" THEN <<"utf-8">> ELSE NoConvertor
convert(cc, text) ==
    IF cc = NoConvertor THEN text
    ELSE FlattenSeq([i \in DOMAIN text |-> IF text[i] < 128 THEN <<text[i]>> ELSE Charsets[cc][text[i]]])

(* htmlEntitiesDecode: names are looked up in lower case. *)
Lower(s) == [i \in DOMAIN s |-> IF s[i] \in 65 .. 90 THEN s[i] + 32 ELSE s[i]]
EntityCode(entity) ==
    IF entity # <<>> /\ entity[1] = Hash
    THEN IF Len(entity) > 1 /\ ToSet(Tail(entity)) \subseteq Digits THEN Number(Tail(entity)) ELSE -1
    ELSE IF Lower(entity) \in DOMAIN Entities THEN Entities[Lower(entity)] ELSE -1
htmlEntitiesDecode(s) ==
    LET decoded[i \in 1 .. Len(s) + 1] ==
          IF i > Len(s) THEN <<>>
          ELSE LET n == i + FirstOf(From(s, i + 1), {Semicolon})
                   code == IF s[i] = Ampersand /\ n <= Len(s) THEN EntityCode(SubSeq(s, i + 1, n - 1)) ELSE -1
               IN  IF code = -1 THEN <<s[i]>> \o decoded[i + 1]
                   ELSE (IF code \in 1 .. 1114111 THEN <<code>> ELSE <<>>) \o decoded[n + 1]
    IN  decoded[1]

skipTextInTag(name) == name \in {"script", "style", "meta"}
pieces(tree) ==
    LET IsShown(n) == n.kind = "text" /\ ~skipTextInTag(tree[n.parent].name)
        cc == convertorFromContentTypeOrDom(tree)
        shown == SelectSeq(tree, IsShown)
    IN  [i \in DOMAIN shown |->
           htmlEntitiesDecode(convert(cc, shown[i].text)) \o (IF answer.reader = "scom" THEN <<Space>> ELSE <<>>)]

uris(tree) ==
    LET IsLink(n) == n.kind = "tag" /\ n.name = "a" /\ HasAttribute(n, "href")
        anchors == SelectSeq(tree, IsLink)
        all == [i \in DOMAIN anchors |-> Uri(convert_link(Attribute(anchors[i], "href"), Uri(answer.uri)))]
        IsTaken(u) == u.isOk /\ (answer.reader = "scom" => u.hostname = ScomHost)
    IN  SelectSeq(all, IsTaken) \o (IF redirectUri.isOk THEN <<redirectUri>> ELSE <<>>)

http == <<104, 116, 116, 112>>
https == Append(http, 115)
links(tree) ==
    LET stored == SelectSeq(uris(tree), LAMBDA u : u.scheme \in {http, https})
    IN  [i \in DOMAIN stored |-> PageName(stored[i])]

ParsePage ==
    /\ outcome.status = "body" /\ read = Len(answer.body)
    /\ nodes' = WithContent
    /\ pending' = <<>>
    /\ outcome' = [status |-> "ok", pieces |-> pieces(WithContent), links |-> links(WithContent)]
    /\ UNCHANGED <<answer, read, literal, currentState>>

PageStart(p) ==
    /\ answer = p /\ read = 0 /\ pending = <<>> /\ literal = "" /\ outcome = Nothing
    /\ nodes = <<[kind |-> "tag", name |-> "", attributes |-> <<>>, text |-> <<>>, parent |-> 0]>>
    /\ currentState = 1
PageInit == \E p \in Answers : PageStart(p)
PageNext == CheckAnswer \/ ParseContent \/ ParseComment \/ FoundOpenTag \/ FoundCloseTag \/ ParsePage

-----------------------------------------------------------------------------
(* Properties.  A token of a page also says what is right: the characters  *)
(* a text stands for, its bytes as they are, and the page a link leads to, *)
(* found segment by segment in the structure it was written from.          *)

(* The literal tag a token is in. *)
Holder ==
    LET in[i \in DOMAIN answer.body] ==
          {j \in 1 .. i - 1 :
             LET tag == answer.body[j] IN
             /\ tag.kind = "open" /\ tag.name \in LiteralTags /\ in[j] = {}
             /\ \A k \in j + 1 .. i : ~(answer.body[k].kind = "close" /\ answer.body[k].name = tag.name)}
    IN  in
HolderNames(i) == {answer.body[j].name : j \in Holder[i]}
Shown(i) ==
    IF answer.body[i].kind = "text" THEN answer.body[i].shown
    ELSE IF Holder[i] # {} THEN answer.body[i].text ELSE <<>>
PageCharset ==
    LET IsMeta(t) == t.kind = "open" /\ IsContentTypeMeta([t EXCEPT !.kind = "tag"])
        metas == SelectSeq([i \in DOMAIN answer.body |-> i], LAMBDA i : Holder[i] = {} /\ IsMeta(answer.body[i]))
    IN  IF IsCharset(answer.contentType) THEN CharsetOf(answer.contentType)
        ELSE IF metas # <<>> THEN CharsetOf(Attribute(answer.body[metas[1]], "content"))
        ELSE IF answer.reader = "scom" THEN <<"utf-8">> ELSE NoConvertor

(* The text of a page is all that is between its tags, but for scripts and *)
(* styles, however badly the tags are nested and closed, with its entities *)
(* decoded once and in the page's charset.  Text is lost only to a meta    *)
(* that nothing around it closes.                                          *)
TextRead ==
    LET visible == SelectSeq([i \in DOMAIN answer.body |-> i], LAMBDA i : HolderNames(i) \cap {"script", "style"} = {})
        WithoutSpaces(s) == SelectSeq(s, LAMBDA c : c # Space)
        metaOpen == \/ \E i \in ToSet(OpenTags) : nodes[i].name = "meta"
                    \/ \E i \in DOMAIN answer.body : answer.body[i].kind = "close" /\ answer.body[i].name = "meta"
    IN  metaOpen \/ WithoutSpaces(FlattenSeq(outcome.pieces))
                    = WithoutSpaces(convert(PageCharset, FlattenSeq([k \in DOMAIN visible |-> Shown(visible[k])])))

(* Every link that is not in a literal text is stored once, in the order   *)
(* of the page and under the name of the page it leads to, a redirection   *)
(* to an absolute uri after them; a name is the name of its own uri, or    *)
(* one page would be loaded under two.                                     *)
LinksRead ==
    LET of(i) == IF Holder[i] = {} THEN answer.body[i].leads ELSE <<>>
        all == FlattenSeq([i \in DOMAIN answer.body |-> of(i)])
        taken == SelectSeq(all, LAMBDA l : answer.reader = "scom" => l.host = ScomHost)
    IN  /\ outcome.links = [i \in DOMAIN taken |-> taken[i].name] \o (IF answer.status = 200 THEN <<>> ELSE answer.redirect)
        /\ \A i \in DOMAIN outcome.links : PageName(Uri(outcome.links[i])) = outcome.links[i]

(* What parse stores of a page that is loaded: all the text it shows, with *)
(* its entities and charset decoded, and every link, whatever the order in *)
(* which its tags are opened and closed.                                   *)
PageExact == outcome.status = "ok" => TextRead /\ LinksRead
=============================================================================
