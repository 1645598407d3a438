---------------------------- MODULE VariantLoad ----------------------------
(***************************************************************************)
(* Variant::load: a value from a text file (src/utils/variantLoad.cpp,     *)
(* variantLoadGrammar.cpp, variantLoadScope.cpp).  The grammar runs over   *)
(* the tokens of the file and calls the scope, which builds the value on a *)
(* stack of frames; an include loads another file into the frame on top.   *)
(*                                                                         *)
(* A token is [k, n]: "{", "}", "[", "]", "," and ":" (or "="), a "word"   *)
(* with its letters, a "string" with its quote and what is before the next *)
(* one, or a number, date, time or uuid with its numbers.  Words with a    *)
(* meaning are "null", "true", "false" (of any spelling) and "include".    *)
(* Spaces and comments are between tokens and leave no trace.              *)
(***************************************************************************)
EXTENDS VariantConvert

CONSTANTS Files,    \* by path, a sequence of names: the tokens of the file
          Meant,    \* by path: the value a well-formed file is written to mean
          MaxDepth  \* bound: files open at a time

VARIABLES loads,    \* the calls of load, the innermost last
          target,   \* the Variant whose load the program calls
          result    \* of that call: its path, and "none", "ok" or "failed"
loadVars == <<loads, target, result>>

Token(k, n) == [k |-> k, n |-> n]
Frame == [variant |-> Null("Void"), mapKey |-> <<>>]

(* A call of load and its VariantLoadScope: the tokens that are left, what *)
(* the grammar expects in the rules it is in, the innermost last, _stack   *)
(* and _errorWas.                                                          *)
Scope(p) ==
    [path |-> p, text |-> Files[p], rules |-> <<"variant">>, stack |-> <<Frame>>, errorWas |-> FALSE]

Back(q) == q[Len(q)]
SetBack(s, v) == [s EXCEPT !.stack[Len(s.stack)].variant = v]

-----------------------------------------------------------------------------
(* Scalars. *)

(* An escaped quote stands for itself; a backslash before anything else    *)
(* is a character.                                                         *)
Backslash == 92
Unescaped(quote, raw) ==
    LET kept == SelectSeq([i \in DOMAIN raw |-> i],
                          LAMBDA i : ~(raw[i] = Backslash /\ i < Len(raw) /\ raw[i + 1] = quote))
    IN  [j \in DOMAIN kept |-> raw[kept[j]]]

(* _aton, _atoun and _xtoun, in the width of the result. *)
Accumulated(t, radix, negative, digits) ==
    LET abs == FoldLeft(LAMBDA x, d : Fitted(t, x * radix + d), 0, digits)
    IN  IF negative THEN Fitted(t, -abs) ELSE abs

(* set_integer: 32 bits unless a suffix says otherwise, signed unless it   *)
(* begins with u.                                                          *)
IntegerType(unsigned, volume) ==
    CASE volume = 8 -> IF unsigned THEN "UInt8" ELSE "Int8"
      [] volume = 16 -> IF unsigned THEN "UInt16" ELSE "Int16"
      [] volume = 64 -> IF unsigned THEN "UInt64" ELSE "Int64"
      [] OTHER -> IF unsigned THEN "UInt32" ELSE "Int32"
set_integer(n) ==
    LET t == IntegerType(n.unsigned, n.volume) IN One(t, Accumulated(t, n.radix, n.negative, n.digits))

(* Checker: the dates boost::gregorian accepts. *)
LastDay(y, m) ==
    IF m = 2 THEN IF y % 4 = 0 /\ (y % 100 # 0 \/ y % 400 = 0) THEN 29 ELSE 28
    ELSE IF m \in {4, 6, 9, 11} THEN 30 ELSE 31
ValidDate(d) == d[1] \in 1400 .. 9999 /\ d[2] \in 1 .. 12 /\ d[3] \in 1 .. LastDay(d[1], d[2])

NextDay(d) ==
    IF d[3] < LastDay(d[1], d[2]) THEN <<d[1], d[2], d[3] + 1>>
    ELSE IF d[2] < 12 THEN <<d[1], d[2] + 1, 1>> ELSE <<d[1] + 1, 1, 1>>
RECURSIVE LaterDay(_, _)
LaterDay(d, k) == IF k = 0 THEN d ELSE LaterDay(NextDay(d), k - 1)

(* The ticks of hours, minutes and seconds of any size, and of a fraction. *)
TimeTicks(h, m, s, f) ==
    LET abs == (((IF h < 0 THEN -h ELSE h) * 60 + m) * 60 + s) * TicksPerSecond
    IN  (IF h < 0 THEN -abs ELSE abs) + f
TicksOfTime(n) == TimeTicks(n[1], n[2], n[3], n[4])
TicksPerDay == 86400 * TicksPerSecond

Words == {"word", "null", "true", "false", "include"}

IsScalar(tok) ==
    IF tok.k \in {"date", "datetime"} THEN ValidDate(tok.n)
    ELSE tok.k \in {"null", "true", "false", "string", "integer", "float", "double", "time", "uuid"}

(* set_null, set_string and so on: the value of a scalar. *)
ScalarOf(tok) ==
    CASE tok.k = "null" -> Null("Void")
      [] tok.k \in {"true", "false"} -> One("Bool", IF tok.k = "true" THEN 1 ELSE 0)
      [] tok.k = "string" -> Value("String", Unescaped(tok.n[1], Tail(tok.n)), <<>>, 0)
      [] tok.k = "integer" -> set_integer(tok.n)
      [] tok.k = "float" -> One("Float", tok.n[1])
      [] tok.k = "double" -> One("Double", tok.n[1])
      [] tok.k = "uuid" -> Value("Uuid", SwapUuid(tok.n), <<>>, 0)
      [] tok.k = "date" -> Value("Date", tok.n, <<>>, 0)
      [] tok.k = "time" -> One("TimeDuration", TicksOfTime(tok.n))
      [] tok.k = "datetime" ->
           LET ticks == TicksOfTime(SubSeq(tok.n, 4, 7))
           IN  Value("Datetime", LaterDay(SubSeq(tok.n, 1, 3), ticks \div TicksPerDay) \o <<ticks % TicksPerDay>>,
                     <<>>, 0)

-----------------------------------------------------------------------------
(* The scope's other operations. *)

Start(s, t) == [SetBack(s, Value(t, <<>>, <<>>, 0)) EXCEPT !.stack = Append(@, Frame)]
array_start(s) == Start(s, "DequeVariant")
map_start(s) == Start(s, "MapStringVariant")
array_stop(s) == [s EXCEPT !.stack = Front(@)]
map_stop(s) == [s EXCEPT !.stack = Front(@)]

array_push(s) ==
    [SetBack(s, Null("Void")) EXCEPT !.stack[Len(s.stack) - 1].variant.kids = Append(@, Back(s.stack).variant)]

KeyInBack(s, name) == [s EXCEPT !.stack[Len(s.stack)].mapKey = name]
map_key(s, name) == [s EXCEPT !.stack[Len(s.stack) - 1].mapKey = name]

(* operator[] of the map and swap: the last of equal keys stays. *)
map_push(s) ==
    LET owner == s.stack[Len(s.stack) - 1]
        key == Value("Key", owner.mapKey, <<>>, 0)
        old == {i \in 1 .. Len(owner.variant.kids) \div 2 : owner.variant.kids[2 * i - 1] = key}
        v == Back(s.stack).variant
        kids == IF old # {} THEN [owner.variant.kids EXCEPT ![2 * (CHOOSE i \in old : TRUE)] = v]
                ELSE InsertPairs("MapStringVariant", Append(Keys(owner.variant), key),
                                 Append(Values(owner.variant), v)).kids
    IN  [SetBack(s, Null("Void")) EXCEPT !.stack[Len(s.stack) - 1].variant.kids = kids]

(* error: the frames are dropped, and with them what was read. *)
error(s) == [s EXCEPT !.errorWas = TRUE, !.stack = <<>>, !.text = <<>>, !.rules = <<>>]

-----------------------------------------------------------------------------
(* The grammar.  A rule of the grammar is over when its value is there; a  *)
(* container takes it then.                                                *)
Put(s, rule) == [s EXCEPT !.rules[Len(s.rules)] = rule]
ValueRead(s) ==
    LET outer == [s EXCEPT !.rules = Front(@)] IN
    IF outer.rules = <<>> THEN outer
    ELSE IF Back(outer.rules) = "array" THEN Put(array_push(outer), "arrayNext") ELSE Put(map_push(outer), "mapNext")

Parsing(s) == s.rules # <<>>
Token1(s) == IF s.text = <<>> THEN Token("end", <<>>) ELSE s.text[1]
Consumed(s) == [s EXCEPT !.text = Tail(@)]
Expects(s, rules, kinds) == Parsing(s) /\ Back(s.rules) \in rules /\ Token1(s).k \in kinds

Top == loads[Len(loads)]
SetTop(s) == loads' = [loads EXCEPT ![Len(loads)] = s] /\ UNCHANGED <<target, result>>

(* After [ or a comma an element may come, or the end of the array. *)
AwaitsVariant(s) == Parsing(s) /\ Back(s.rules) \in {"variant", "array"}
Entered(s) == IF Back(s.rules) = "array" THEN [s EXCEPT !.rules = Append(@, "variant")] ELSE s

Scalar_ ==
    /\ loads # <<>> /\ AwaitsVariant(Top) /\ IsScalar(Token1(Top))
    /\ SetTop(ValueRead(SetBack(Consumed(Entered(Top)), ScalarOf(Token1(Top)))))

ArrayStart ==
    /\ loads # <<>> /\ AwaitsVariant(Top) /\ Token1(Top).k = "["
    /\ SetTop(LET s == array_start(Consumed(Entered(Top))) IN [s EXCEPT !.rules = Append(@, "array")])

MapStart ==
    /\ loads # <<>> /\ AwaitsVariant(Top) /\ Token1(Top).k = "{"
    /\ SetTop(LET s == map_start(Consumed(Entered(Top))) IN [s EXCEPT !.rules = Append(@, "map")])

ArrayStop ==
    /\ loads # <<>> /\ Expects(Top, {"array", "arrayNext"}, {"]"})
    /\ SetTop(LET s == array_stop(Consumed(Top)) IN ValueRead([s EXCEPT !.rules = Front(@)]))

MapStop ==
    /\ loads # <<>> /\ Expects(Top, {"map", "mapNext"}, {"}"})
    /\ SetTop(LET s == map_stop(Consumed(Top)) IN ValueRead([s EXCEPT !.rules = Front(@)]))

Comma ==
    /\ loads # <<>> /\ Expects(Top, {"arrayNext", "mapNext"}, {","})
    /\ SetTop(Put(Consumed(Top), IF Back(Top.rules) = "arrayNext" THEN "array" ELSE "map"))

(* The key of a pair, any word or string, and its colon. *)
NameOf(tok) == IF tok.k = "string" THEN Unescaped(tok.n[1], Tail(tok.n)) ELSE tok.n
MapKey ==
    /\ loads # <<>> /\ Expects(Top, {"map"}, Words \cup {"string"})
    /\ SetTop(Put(map_key(Consumed(Top), NameOf(Token1(Top))), "colon"))
Colon ==
    /\ loads # <<>> /\ Expects(Top, {"colon"}, {":"})
    /\ SetTop([Put(Consumed(Top), "map") EXCEPT !.rules = Append(@, "variant")])

(* The rule _include, and do_include: a path that is not absolute starts   *)
(* at the directory of the file it is in.                                  *)
Slash == 47
Included(from, p) == IF p # <<>> /\ p[1] = Slash THEN p ELSE Front(from) \o p

Include ==
    /\ loads # <<>> /\ AwaitsVariant(Top) /\ Token1(Top).k = "include"
    /\ SetTop(LET s == Consumed(Entered(Top)) IN Put(s, "path"))

IncludePath ==
    /\ loads # <<>> /\ Expects(Top, {"path"}, {"string"})
    /\ LET p == Included(Top.path, NameOf(Token1(Top))) IN
       IF p \notin DOMAIN Files THEN SetTop(error(Top))
       ELSE /\ Len(loads) < MaxDepth
            /\ loads' = Append([loads EXCEPT ![Len(loads)] = Consumed(Top)], Scope(p))
            /\ UNCHANGED <<target, result>>

(* An expectation that fails. *)
Acceptable(s) ==
    \/ AwaitsVariant(s) /\ (IsScalar(Token1(s)) \/ Token1(s).k \in {"[", "{", "include"})
    \/ Expects(s, {"array", "arrayNext"}, {"]"}) \/ Expects(s, {"map", "mapNext"}, {"}"})
    \/ Expects(s, {"arrayNext", "mapNext"}, {","}) \/ Expects(s, {"map"}, Words \cup {"string"})
    \/ Expects(s, {"colon"}, {":"}) \/ Expects(s, {"path"}, {"string"})
Fail ==
    /\ loads # <<>> /\ Parsing(Top) /\ ~Acceptable(Top)
    /\ SetTop(error(Top))

(* load returns: text that is left is an error too, and only a success     *)
(* touches the caller's value.                                             *)
Good(s) == ~s.errorWas /\ s.text = <<>>
getValue(s) == Back(s.stack).variant
Return ==
    /\ loads # <<>> /\ ~Parsing(Top)
    /\ IF Len(loads) > 1
       THEN LET outer == loads[Len(loads) - 1]
            IN  /\ loads' = Append(SubSeq(loads, 1, Len(loads) - 2),
                                   IF Good(Top) THEN ValueRead(SetBack(outer, getValue(Top))) ELSE error(outer))
                /\ UNCHANGED <<target, result>>
       ELSE /\ loads' = <<>>
            /\ result' = [result EXCEPT !.how = IF Good(Top) THEN "ok" ELSE "failed"]
            /\ target' = IF Good(Top) THEN getValue(Top) ELSE target

Load ==
    /\ loads = <<>> /\ result.how = "none"
    /\ IF result.of \in DOMAIN Files THEN loads' = <<Scope(result.of)>> /\ UNCHANGED <<target, result>>
       ELSE result' = [result EXCEPT !.how = "failed"] /\ UNCHANGED <<loads, target>>

LoadStart(p) == loads = <<>> /\ target = Undefined("Tm") /\ result = [of |-> p, how |-> "none"]
LoadInit == \E p \in DOMAIN Files \cup {<<Slash>>} : LoadStart(p)
LoadNext ==
    \/ Load \/ Scalar_ \/ ArrayStart \/ MapStart \/ ArrayStop \/ MapStop \/ Comma \/ MapKey \/ Colon
    \/ Include \/ IncludePath \/ Fail \/ Return
LoadSpec == LoadInit /\ [][LoadNext]_loadVars

-----------------------------------------------------------------------------
(* Properties. *)

(* The frames of a scope are one more than the containers the grammar is   *)
(* in, so that each value ends in its own container and getValue's         *)
(* assertion of one frame holds.                                           *)
FramesBalanced ==
    \A i \in DOMAIN loads : ~loads[i].errorWas =>
      Len(loads[i].stack) = 1 + Len(SelectSeq(loads[i].rules, LAMBDA r : r \notin {"variant", "path"}))

(* load gives the value a text is written to mean, its includes too, or    *)
(* reports an error and leaves the caller's value alone; any text that is  *)
(* not well-formed is an error.                                            *)
LoadExact ==
    /\ FramesBalanced
    /\ result.how = "ok" => result.of \in DOMAIN Meant /\ target = Meant[result.of]
    /\ result.how # "ok" => target = Undefined("Tm")
    /\ result.how = "failed" => result.of \notin DOMAIN Meant

(* A value is what it was written to be: loaded from its text, converted   *)
(* to another type and back, and in the order that containers keep.        *)
ValuesKept == LoadExact /\ OrderLawful /\ ConvertsBack
=============================================================================
