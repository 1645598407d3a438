------------------------------- MODULE MCPgc -------------------------------
(***************************************************************************)
(* The pgc library for TLC: the pool of connections, one connection, the   *)
(* values that go through it; and Variants apart from it: as objects,      *)
(* their order and conversions, their binary form and their text form.     *)
(* Each behaviour is about one of them.                                    *)
(***************************************************************************)
EXTENDS PgcDb, ConnectionHolder, PgcResult, Serialization, Variant, VariantLoad

VARIABLE part

-----------------------------------------------------------------------------
(* Values for the database. *)

MCHalves == [int2 |-> 64, int4 |-> 8192, int8 |-> 134217728]
MCTicks == [second |-> 4, minute |-> 12, hour |-> 24, day |-> 576]

Dates == {<<y, md[1], md[2]>> : y \in {1400, 1582, 1600, 1900, 1999, 2000, 2001, 2004, 2100, 9999},
                               md \in {<<1, 1>>, <<2, 28>>, <<3, 1>>, <<7, 31>>, <<12, 31>>}}
        \cup {<<2000, 2, 29>>, <<2004, 2, 29>>, <<1600, 2, 29>>}
Ints(t, lo, hi) == {Val(t, <<x>>) : x \in {lo, -1, 0, 1, hi}}
BitsOf(n, s) == [i \in 1 .. n |-> IF i \in s THEN 1 ELSE 0]

PgValues ==
    {Val("Date", d) : d \in Dates}
    \cup {Val("Datetime", d \o <<t>>) : d \in Dates, t \in {0, 1, 287, 575}}
    \cup {Val("Tm", <<d[1] - 1900, d[2] - 1, d[3], h, 1, 2>>) : d \in Dates, h \in {0, 23}}
    \cup {Val("DateDuration", <<x>>) : x \in {-31, -30, -1, 0, 29, 30, 400}}
    \cup {Val("TimeDuration", <<x>>) : x \in {-577, -25, -3, 0, 5, 1000}}
    \cup {Val("DateTimeDuration", <<x, y>>) : x \in {-31, 0, 65}, y \in {-13, 0, 700}}
    \cup Ints("Int8", -8, 7) \cup Ints("Int16", -64, 63) \cup Ints("Int32", -8192, 8191)
    \cup {Val("UInt8", <<x>>) : x \in {0, 7}}
    \cup {Val(t, <<x>>) : t \in {"UInt16", "UInt32", "UInt64"}, x \in {0, 63, 64, 127}}
    \cup {Val("Bitset8", BitsOf(8, s)) : s \in {{}, {1}, {2, 8}, 1 .. 7}}
    \cup {Val("Bitset16", BitsOf(16, s)) : s \in {{}, {1}, {2, 9, 16}, 1 .. 15}}
    \cup {Val("Bool", <<b>>) : b \in {0, 1}}
    \cup {Val("String", <<1, 0, 2>>), Val("VectorChar", <<>>), Val("Uuid", [i \in 1 .. 16 |-> i])}
    \cup {PgNull(t) : t \in DOMAIN Oid}

MCParams ==
    {<<v>> : v \in PgValues}
    \cup {<<Val("Bool", <<1>>), PgNull("Date"), v>> : v \in Ints("Int8", -8, 7)}
    \cup {<<Val("Bool", <<1>>), PgNull("VectorVariant")>>, <<PgNull("VectorVariant"), Val("Bool", <<1>>)>>}

(* Results with a column that is null or of a type fetch does not know. *)
Cell(oid, n) == [oid |-> oid, null |-> n = 0, n |-> IF n = 0 THEN <<>> ELSE <<n>>]
MCResults ==
    {<<<<Cell(21, 1), Cell(600, 0), Cell(16, 1)>>, <<Cell(21, 0), Cell(600, 1), Cell(16, 1)>>,
       <<Cell(21, 3), Cell(600, 0), Cell(16, 0)>>>>, <<>>}
MCColNames == <<"a", "b", "a">>
MCColLists == {<<1, 2, 3>>, <<3, 1>>, <<2>>}
MCRowRanges == {<<1, 4>>, <<1, 9>>, <<2, 3>>, <<3, 4>>, <<3, 2>>}

-----------------------------------------------------------------------------
(* Values to serialize. *)

Num(x) == Value("Int32", <<x>>, <<>>, 0)
Str(q) == Value("String", q, <<>>, 0)
Key(q) == Value("Key", q, <<>>, 0)
List(t, kids) == Value(t, <<>>, kids, 0)
Ptr(n) == Value("VariantPtr", <<>>, <<>>, n)

Scalars ==
    {Value(t, <<x>>, <<>>, 0) : t \in Signed \ {"Tm", "Datetime", "DateTimeDuration"},
                                x \in {-128, -1, 0, 100}}
    \cup {Value(t, <<x>>, <<>>, 0) : t \in {"UInt8", "UInt16", "UInt32", "UInt64", "Float", "Double"},
                                     x \in {0, 200}}
    \cup {Value("Bool", <<b>>, <<>>, 0) : b \in {0, 1}}
    \cup {Value(t, BitsOf(Bits(t), {1, 4, 7, 8 * 2, Bits(t)}), <<>>, 0) :
            t \in {u \in Range(Types) : Bits(u) \in 8 .. 64}}
    \cup {Value("Date", <<2012, 12, 31>>, <<>>, 0), Value("Datetime", <<1400, 1, 1, 7>>, <<>>, 0),
          Value("Tm", <<1, 2, 3, 4, 5, 112, 6, 7, -1>>, <<>>, 0),
          Value("DateTimeDuration", <<-3, 500>>, <<>>, 0),
          Value("Uuid", [i \in 1 .. 16 |-> 255 - i], <<>>, 0)}
    \cup {Null(t) : t \in Range(Types)}
    \cup {Value(t, q, <<>>, 0) : t \in Strings, q \in {<<>>, <<65>>, <<66, 0, 67>>}}
Lists ==
    {List(t, k) : t \in Indexable \cup Insertable,
       k \in {<<>>, <<Num(1)>>, <<Str(<<>>), Null("Tm")>>,
              <<Null("Void"), List("ListVariant", <<Num(-1), Str(<<65>>)>>)>>}}
Dictionaries ==
    {List(t, k) : t \in StringMaps,
       k \in {<<>>, <<Key(<<65>>), Num(1)>>, <<Key(<<>>), Null("Date"), Key(<<65>>), Str(<<66>>)>>}}
    \cup {List(t, k) : t \in VariantMaps,
       k \in {<<>>, <<Num(1), Str(<<65>>)>>,
              <<Num(1), Null("Void"), Str(<<66>>), List("VectorVariant", <<Num(2)>>)>>}}
Pointers ==
    {[v |-> Ptr(0), objects |-> <<>>],
     [v |-> List("VectorVariant", <<Ptr(1), Ptr(1)>>), objects |-> <<Num(5)>>],
     [v |-> Ptr(1), objects |-> <<List("VectorVariant", <<Ptr(1)>>)>>]}

MCSamples ==
    {[v |-> s, objects |-> <<>>] : s \in Scalars \cup Lists \cup Dictionaries} \cup Pointers

-----------------------------------------------------------------------------
(* Values to compare, convert and keep in objects. *)

MCIntBits == <<8, 10, 12, 14>>
MCRealBits == [Float |-> 10, Double |-> 12]
Twelve == [i \in 1 .. 12 |-> Num(i)]
Pairs(q) == FlattenSeq([i \in DOMAIN q |-> <<Key(q[i]), Num(i)>>])
MCComparables ==
    {Null(t) : t \in {"Void", "String", "Int32", "Tm"}}
    \cup {One(t, x) : t \in {"Int8", "Int32"}, x \in {-128, -1, 0, 100}}
    \cup {One("Int64", 5001), One("Int32", 1501), One("UInt32", 4095), One("Float", 2046), One("Double", 4095)}
    \cup {One("Bool", 1), One("Char", 65), One("UInt8", 200), One("UInt16", 1000), One("UInt64", 16000)}
    \cup {One(t, x) : t \in Reals, x \in {-7, 1, 200}}
    \cup {Str(q) : q \in {<<>>, <<65>>, <<65, 66>>, <<49, 50>>, <<45, 49>>}}
    \cup {Value("VectorChar", <<66>>, <<>>, 0)}
    \cup {Value(t, BitsOf(Bits(t), s), <<>>, 0) : t \in {"Bitset8", "Bitset16"}, s \in {{}, {1, 4}, {3, 8}}}
    \cup {Value("Date", <<2012, 12, 31>>, <<>>, 0), Value("Date", <<2012, 2, 1>>, <<>>, 0),
          Value("Datetime", <<2000, 1, 1, 7>>, <<>>, 0), Value("Datetime", <<1999, 5, 6, 14650>>, <<>>, 0),
          Value("Tm", <<60, 0, 0, 1, 0, 100, 6, 0, 0>>, <<>>, 0), Value("Tm", <<0, 1, 0, 1, 0, 100, 6, 0, 0>>, <<>>, 0),
          Value("DateDuration", <<-3>>, <<>>, 0), Value("TimeDuration", <<500>>, <<>>, 0),
          Value("DateTimeDuration", <<-3, 500>>, <<>>, 0),
          Value("Uuid", [i \in 1 .. 16 |-> i], <<>>, 0)}
    \cup {List(t, k) : t \in Sequential, k \in {<<>>, <<Num(1)>>, <<Str(<<65>>), Null("Tm")>>}}
    \cup {List("VectorVariant", Twelve), List("ListVariant", <<Str(<<65>>), Num(2), Num(2)>>)}
    \cup {List(t, k) : t \in StringMaps, k \in {<<>>, Pairs(<<<<65>>, <<66>>>>)}}
    \cup {List("MultimapStringVariant", Pairs(<<<<65>>, <<65>>>>)),
          List("MapVariantVariant", <<Num(1), Str(<<65>>), Str(<<>>), Num(2)>>)}
MCContents ==
    {Num(5), Str(<<65>>), Value("Tm", <<0, 1, 0, 1, 0, 100, 6, 0, 0>>, <<>>, 0),
     List("VectorVariant", <<Num(5), Str(<<65>>)>>), List("MapStringVariant", <<Key(<<65>>), Null("Tm")>>)}


(* What can become of them; a key is a std::string and never converted. *)
MCConverted(t, v) == IF v.t = "Key" THEN {} ELSE Outcomes(t, v, MCContents)
MCNewTypes == {"String", "Int32", "Void", "VectorVariant"}
RECURSIVE Becoming(_)
Becoming(q) ==
    LET more == q \cup UNION {{v.kids[i] : i \in DOMAIN v.kids} \cup {Null(v.t), Default(v.t)}
                              \cup UNION {MCConverted(t, v) : t \in MCNewTypes \ {"Void", v.t}} : v \in q}
    IN  IF more = q THEN q ELSE Becoming(more)
MCVariants == Becoming(MCContents \cup {Null(t) : t \in MCNewTypes})

-----------------------------------------------------------------------------
(* Texts to load: values written out, one token left out of them, and      *)
(* files that include others.                                              *)
Quote == 34
Quoted(q) == Token("string", <<Quote>> \o FlattenSeq([i \in DOMAIN q |-> IF q[i] = Quote THEN <<Backslash, Quote>> ELSE <<q[i]>>]))
Punct(k) == Token(k, <<>>)
RECURSIVE DigitsIn(_, _)
DigitsIn(radix, x) == IF x < radix THEN <<x>> ELSE DigitsIn(radix, x \div radix) \o <<x % radix>>
Integer(x, radix, unsigned, volume) ==
    Token("integer", [negative |-> x < 0, radix |-> radix, unsigned |-> unsigned, volume |-> volume,
                      digits |-> DigitsIn(radix, IF x < 0 THEN -x ELSE x)])

(* The text of a value, with a comma after every element. *)
RECURSIVE Spell(_)
Spell(v) ==
    IF v.null THEN <<Token("null", <<110>>)>>
    ELSE IF v.t = "Bool" THEN <<IF v.n[1] = 1 THEN Token("true", <<116>>) ELSE Token("false", <<102>>)>>
    ELSE IF v.t = "String" THEN <<Quoted(v.n)>>
    ELSE IF v.t = "Int8" THEN <<Integer(v.n[1], 10, FALSE, 8)>>
    ELSE IF v.t = "Int32" THEN <<Integer(v.n[1], 10, FALSE, 0)>>
    ELSE IF v.t = "UInt16" THEN <<Integer(v.n[1], 16, TRUE, 16)>>
    ELSE IF v.t = "UInt64" THEN <<Integer(v.n[1], 10, TRUE, 64)>>
    ELSE IF v.t = "Float" THEN <<Token("float", v.n)>>
    ELSE IF v.t = "Double" THEN <<Token("double", v.n)>>
    ELSE IF v.t = "Date" THEN <<Token("date", v.n)>>
    ELSE IF v.t = "TimeDuration" THEN <<Token("time", <<0, 0, v.n[1] \div TicksPerSecond, v.n[1] % TicksPerSecond>>)>>
    ELSE IF v.t = "Datetime" THEN <<Token("datetime", SubSeq(v.n, 1, 3) \o <<0, 0, v.n[4] \div TicksPerSecond, v.n[4] % TicksPerSecond>>)>>
    ELSE IF v.t = "Uuid" THEN <<Token("uuid", SwapUuid(v.n))>>
    ELSE IF v.t = "DequeVariant" THEN
           <<Punct("[")>> \o FlattenSeq([i \in DOMAIN v.kids |-> Spell(v.kids[i]) \o <<Punct(",")>>]) \o <<Punct("]")>>
    ELSE
           <<Punct("{")>> \o FlattenSeq([i \in 1 .. Len(v.kids) \div 2 |->
                                         <<Token("word", v.kids[2 * i - 1].n), Punct(":")>> \o Spell(v.kids[2 * i]) \o <<Punct(",")>>])
             \o <<Punct("}")>>

Deque(kids) == List("DequeVariant", kids)
Dict(k, a, b) == List("MapStringVariant", <<Key(k), a, Key(k \o <<1>>), b>>)
Rich == Dict(<<65>>, Deque(<<Num(-5), Str(<<65, Quote, Backslash, 66>>), Deque(<<>>)>>), Dict(<<66>>, Null("Void"), Deque(<<Num(7)>>)))
Written ==
    <<Rich, Deque(<<One("Int8", -128), One("UInt16", 1023), One("UInt64", 16000)>>), Deque(<<One("Bool", 1), One("Bool", 0)>>),
      Deque(<<One("Float", -7), One("Double", 5), Value("Date", <<2012, 2, 29>>, <<>>, 0), One("TimeDuration", 500)>>),
      Dict(<<>>, Value("Datetime", <<1999, 12, 31, 7>>, <<>>, 0), Value("Uuid", [i \in 1 .. 16 |-> i], <<>>, 0))>>

(* The next to last token of a container's text is its last comma. *)
TrailingComma(q, i) == q[i].k = "," /\ q[i + 1].k \in {"]", "}"}
Path(q) == <<Slash>> \o q
IncludeOf(q) == <<Token("include", <<105>>), Token("string", <<Quote>> \o q)>>
MCFiles ==
    LET whole == Spell(Rich)
        array(q) == <<Punct("[")>> \o q \o <<Punct("]")>>
        twice == <<Punct("{"), Token("word", <<65>>), Punct(":")>> \o Spell(Num(1)) \o
                 <<Punct(","), Quoted(<<65>>), Punct(":")>> \o Spell(Num(2)) \o <<Punct("}")>>
    IN  [p \in {Path(<<i>>) : i \in DOMAIN Written} |-> Spell(Written[p[2]])]
        @@ [p \in {Path(<<20, i>>) : i \in DOMAIN whole} |-> RemoveAt(whole, p[3])]
        @@ (Path(<<30>>) :> twice)
        @@ (Path(<<31>>) :> array(Spell(Value("Datetime", <<1999, 12, 31, 0>>, <<>>, 0)) \o <<Punct(",")>>
                                   \o <<Token("datetime", <<1999, 12, 31, 24, 60, 60, 1>>), Punct(","), Integer(300, 10, FALSE, 8)>>))
        @@ (Path(<<32>>) :> <<Token("date", <<2013, 2, 29>>)>>)
        @@ (Path(<<33>>) :> Spell(Num(1)) \o Spell(Num(2)))
        @@ (Path(<<40>>) :> array(IncludeOf(<<50, 1>>) \o <<Punct(",")>> \o IncludeOf(<<30>>)))
        @@ (Path(<<50, 1>>) :> array(IncludeOf(<<2>>) \o <<Punct(",")>> \o IncludeOf(Path(<<30>>))))
        @@ (Path(<<50, 2>>) :> Spell(Str(<<66>>)))
        @@ (Path(<<41>>) :> array(IncludeOf(<<30>>) \o <<Punct(",")>> \o IncludeOf(<<99>>)))
        @@ (Path(<<42>>) :> array(IncludeOf(<<33>>)))
        @@ (Path(<<43>>) :> <<Token("include", <<105>>), Token("word", <<65>>)>>)
MCMeant ==
    LET whole == Spell(Rich)
        last == List("MapStringVariant", <<Key(<<65>>), Num(2)>>)
        inner == Deque(<<Str(<<66>>), last>>)
    IN  [p \in {Path(<<i>>) : i \in DOMAIN Written} |-> Written[p[2]]]
        @@ [p \in {Path(<<20, i>>) : i \in {j \in DOMAIN whole : TrailingComma(whole, j)}} |-> Rich]
        @@ (Path(<<30>>) :> last)
        @@ (Path(<<31>>) :> Deque(<<Value("Datetime", <<1999, 12, 31, 0>>, <<>>, 0),
                                    Value("Datetime", <<2000, 1, 1, 2 * 3660 + 1>>, <<>>, 0), One("Int8", 44)>>))
        @@ (Path(<<40>>) :> Deque(<<inner, last>>))
        @@ (Path(<<50, 1>>) :> inner)
        @@ (Path(<<50, 2>>) :> Str(<<66>>))

-----------------------------------------------------------------------------
(* The parts that a behaviour is not about keep one initial state. *)
apartVars == <<serialVars, convertVars, variantVars, loadVars>>

PgcInit ==
    /\ part \in {"pool", "connection", "values", "result", "serialization", "convert", "objects", "load"}
    /\ Init /\ HolderInit /\ VariantInit
    /\ IF part = "values" THEN ValuesInit ELSE ValuesStart(<<>>) /\ integerDatetimes
    /\ IF part = "result" THEN ResultInit ELSE ResultStart(<<>>) /\ dst = VoidCell
    /\ IF part = "serialization" THEN SerialInit ELSE SerialStart([v |-> Num(0), objects |-> <<>>])
    /\ IF part = "convert" THEN ConvertInit ELSE ConvertStart(Null("Void"))
    /\ IF part = "load" THEN LoadInit ELSE LoadStart(<<Slash>>)

PgcNext ==
    /\ UNCHANGED part
    /\ \/ part = "pool" /\ Next /\ UNCHANGED <<holderVars, valueVars, resultVars, apartVars>>
       \/ part = "connection" /\ HolderNext /\ UNCHANGED <<vars, valueVars, resultVars, apartVars>>
       \/ part = "values" /\ ValuesNext /\ UNCHANGED <<vars, holderVars, resultVars, apartVars>>
       \/ part = "result" /\ ResultNext /\ UNCHANGED <<vars, holderVars, apartVars>>
       \/ /\ UNCHANGED <<vars, holderVars, valueVars, resultVars>>
          /\ \/ part = "serialization" /\ SerialNext /\ UNCHANGED <<convertVars, variantVars, loadVars>>
             \/ part = "convert" /\ Meet /\ UNCHANGED <<serialVars, variantVars, loadVars>>
             \/ part = "objects" /\ VariantNext /\ UNCHANGED <<serialVars, convertVars, loadVars>>
             \/ part = "load" /\ LoadNext /\ UNCHANGED <<serialVars, convertVars, variantVars>>

PgcSpec ==
    /\ PgcInit
    /\ [][PgcNext]_<<part, vars, holderVars, valueVars, resultVars, apartVars>>
    /\ Fairness /\ HolderFairness
=============================================================================
