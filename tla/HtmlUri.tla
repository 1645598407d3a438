------------------------------ MODULE HtmlUri ------------------------------
(***************************************************************************)
(* Links (src/src/htmlcxx/html/Uri.cc and utils.cc, which this repository  *)
(* keeps a changed copy of): how the two crawlers take a uri apart, find   *)
(* out where a link leads and write it the one way a page is stored under. *)
(*                                                                         *)
(* A text is a sequence of character codes.  A user, a password and a      *)
(* fragment are read but never written again, so they are left out.        *)
(***************************************************************************)
EXTENDS Integers, Sequences, SequencesExt, Folds

CONSTANTS LinkEntities,  \* entities[] of htmlcxx: name -> code
          DefaultPorts   \* schemes[]: scheme -> port

Space == 32
Hash == 35
Percent == 37
Ampersand == 38
Dot == 46
Slash == 47
Colon == 58
Semicolon == 59
Question == 63
AtSign == 64
Digits == 48 .. 57
Letters == 65 .. 90 \cup 97 .. 122

(* Where a text has the first or the last of some characters: beyond its   *)
(* end, before its beginning if it has none of them.                       *)
FirstOf(s, C) == IF \E i \in DOMAIN s : s[i] \in C THEN SelectInSeq(s, LAMBDA c : c \in C) ELSE Len(s) + 1
LastOf(s, C) == SelectLastInSeq(s, LAMBDA c : c \in C)
Before(s, i) == SubSeq(s, 1, i - 1)
From(s, i) == SubSeq(s, i, Len(s))
Number(s) == FoldLeft(LAMBDA n, d : 10 * n + d - 48, 0, s)

-----------------------------------------------------------------------------
(* Uri::init *)

NoUri == [isOk |-> FALSE, scheme |-> <<>>, hostname |-> <<>>, portStr |-> <<>>,
          path |-> <<>>, existsQuery |-> FALSE, query |-> <<>>]

deal_with_path(u, s) ==
    LET e == FirstOf(s, {Question, Hash})
        rest == From(s, e + 1)
        exists == e <= Len(s) /\ s[e] = Question
    IN  [u EXCEPT !.path = Before(s, e), !.existsQuery = exists,
                  !.query = IF exists THEN Before(rest, FirstOf(rest, {Hash})) ELSE <<>>]

(* The user is before the last @; a port has to be a number. *)
hostinfo(u, s) ==
    LET e == FirstOf(s, {Slash, Question, Hash})
        host == From(Before(s, e), LastOf(Before(s, e), {AtSign}) + 1)
        colon == FirstOf(host, {Colon})
        v == [u EXCEPT !.hostname = Before(host, colon), !.portStr = From(host, colon + 1)]
    IN  IF ToSet(v.portStr) \subseteq Digits THEN deal_with_path(v, From(s, e)) ELSE [v EXCEPT !.isOk = FALSE]

Slashes == <<Slash, Slash>>
Uri(s) ==
    LET u == [NoUri EXCEPT !.isOk = TRUE]
        e == FirstOf(s, {Colon, Slash, Question, Hash})
        rest == From(s, e + 1)
    IN  IF IsPrefix(Slashes, s) THEN hostinfo(u, From(s, 3))
        ELSE IF s # <<>> /\ s[1] \in Letters /\ e <= Len(s) /\ s[e] = Colon
        THEN hostinfo([u EXCEPT !.scheme = Before(s, e)], IF IsPrefix(Slashes, rest) THEN From(rest, 3) ELSE rest)
        ELSE deal_with_path(u, s)

-----------------------------------------------------------------------------
(* Uri::unparse without the fragment; the scheme's own port is left out. *)
PortShown(u) ==
    /\ u.portStr # <<>>
    /\ ~(u.scheme \in DOMAIN DefaultPorts /\ DefaultPorts[u.scheme] = Number(u.portStr))
unparse(u) ==
    (IF u.scheme = <<>> THEN <<>> ELSE u.scheme \o <<Colon, Slash, Slash>>)
    \o u.hostname
    \o (IF PortShown(u) THEN <<Colon>> \o u.portStr ELSE <<>>)
    \o u.path
    \o (IF u.existsQuery THEN <<Question>> \o u.query ELSE <<>>)

(* Uri::absolute: without a scheme everything up to the path is the base's, *)
(* also if the link has a host of its own.                                  *)
Rooted(u) == [u EXCEPT !.path = IF @ = <<>> THEN <<Slash>> ELSE @]
WithQuery(root, u) == [root EXCEPT !.query = u.query, !.existsQuery = u.existsQuery]
absolute(u, base) ==
    LET root == Rooted(base)
        directory == SubSeq(root.path, 1, LastOf(root.path, {Slash}))
    IN  IF u.scheme # <<>> THEN Rooted(u)
        ELSE IF u.path = <<>> THEN IF u.existsQuery THEN WithQuery(root, u) ELSE root
        ELSE WithQuery([root EXCEPT !.path = IF u.path[1] = Slash THEN u.path ELSE directory \o u.path], u)

(* normalize_slashs, an automaton that knows the slash and the dots it has *)
(* seen last.                                                              *)
ParentOf(ret) ==
    LET p == LastOf(Front(ret), {Slash}) IN IF p = 0 THEN ret ELSE SubSeq(ret, 1, p)
NormalizeStep(s, c) ==
    LET held == CASE s.state = "dot" -> <<Dot>> [] s.state = "dots" -> <<Dot, Dot>> [] OTHER -> <<>> IN
    IF c = Slash
    THEN [state |-> "slash",
          ret |-> CASE s.state = "none" -> Append(s.ret, c)
                    [] s.state = "dots" -> ParentOf(s.ret)
                    [] OTHER -> s.ret]
    ELSE IF c = Dot /\ s.state = "slash" THEN [s EXCEPT !.state = "dot"]
    ELSE IF c = Dot /\ s.state = "dot" THEN [s EXCEPT !.state = "dots"]
    ELSE [state |-> "none", ret |-> s.ret \o held \o <<c>>]
normalize_slashs(path) == FoldLeft(NormalizeStep, [ret |-> <<>>, state |-> "none"], path).ret

-----------------------------------------------------------------------------
(* decode_entities: an & with a semicolon anywhere after it begins a name  *)
(* or a number; a number that is no character disappears.                  *)
LeadingNumber(s) == Number(Before(s, IF ToSet(s) \subseteq Digits THEN Len(s) + 1
                                     ELSE SelectInSeq(s, LAMBDA c : c \notin Digits)))
decode_entities(s) ==
    LET decoded[i \in 1 .. Len(s) + 1] ==
          IF i > Len(s) THEN <<>>
          ELSE LET n == FirstOf(From(s, i), {Semicolon})
                   entity == SubSeq(s, i + 1, i + n - 2)
                   number == LeadingNumber(Tail(entity))
               IN  IF s[i] # Ampersand \/ i + n - 1 > Len(s) THEN <<s[i]>> \o decoded[i + 1]
                   ELSE IF entity # <<>> /\ entity[1] = Hash
                   THEN (IF number \in 1 .. 255 THEN <<number>> ELSE <<>>) \o decoded[i + n]
                   ELSE IF entity \in DOMAIN LinkEntities THEN <<LinkEntities[entity]>> \o decoded[i + n]
                   ELSE <<s[i]>> \o decoded[i + 1]
    IN  decoded[1]

(* convert_link: where a link in a page leads. *)
EscapedSpaces(s) ==
    FoldLeft(LAMBDA t, c : t \o (CASE c = Space -> <<Percent, 50, 48>> [] c \in {10, 13} -> <<>> [] OTHER -> <<c>>), <<>>, s)
convert_link(relative, root) ==
    LET rel == Uri(EscapedSpaces(decode_entities(relative)))
        uri == absolute(rel, root)
    IN  IF ~rel.isOk THEN <<>> ELSE unparse([uri EXCEPT !.path = normalize_slashs(@)])

-----------------------------------------------------------------------------
(* Uri::decode knows capital hexadecimal digits only; of an escape it does *)
(* not know it drops the percent sign.                                     *)
Hexadecimal == 48 .. 63 \cup 65 .. 70
Strtoul(a, b) ==
    LET v(c) == IF c \in Digits THEN c - 48 ELSE c - 55
        IsHex(c) == c \in Digits \cup 65 .. 70
    IN  IF ~IsHex(a) THEN 0 ELSE IF ~IsHex(b) THEN v(a) ELSE 16 * v(a) + v(b)
decode(s) ==
    LET decoded[i \in 1 .. Len(s) + 1] ==
          IF i > Len(s) THEN <<>>
          ELSE IF s[i] # Percent \/ i = Len(s) THEN <<s[i]>> \o decoded[i + 1]
          ELSE IF s[i + 1] \in Hexadecimal /\ i + 2 <= Len(s) /\ s[i + 2] \in Hexadecimal
          THEN <<Strtoul(s[i + 1], s[i + 2])>> \o decoded[i + 3]
          ELSE decoded[i + 1]
    IN  decoded[1]

(* Uri::encode *)
Unsafe == 0 .. 32 \cup {34, 35, 37, 39, 60, 62, 92, 94, 96} \cup 123 .. 125 \cup 127 .. 255
encode(s) ==
    LET digit(n) == IF n < 10 THEN 48 + n ELSE 55 + n IN
    FoldLeft(LAMBDA t, c : t \o (IF c \in Unsafe THEN <<Percent, digit(c \div 16), digit(c % 16)>> ELSE <<c>>), <<>>, s)

(* The name of a page in the database. *)
PageName(u) == encode(decode(unparse(u)))
=============================================================================
