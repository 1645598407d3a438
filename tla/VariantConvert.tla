-------------------------- MODULE VariantConvert --------------------------
(***************************************************************************)
(* The order, the equality and the conversions of utils::Variant           *)
(* (src/utils/variantImpl.hpp: less, equal, convert, and                   *)
(* src/utils/variantConvertMatrix.hpp, which picks the conversion by the   *)
(* two types), for two values at a time.                                   *)
(*                                                                         *)
(* The integer types have IntBits bits, by size.  Float and Double count   *)
(* halves and keep the first RealBits bits of a number; smaller fractions, *)
(* and texts with an exponent, are left out.  The text of a date, time or  *)
(* uuid is what boost or sprintf makes of it: a text of its own, that only *)
(* its type reads back.  A value without content is one the code leaves    *)
(* uninitialized.                                                          *)
(***************************************************************************)
EXTENDS VariantTypes, SequencesExt

CONSTANTS IntBits,      \* bits of the integers of 1, 2, 4 and 8 bytes
          RealBits,     \* bits of the mantissa of a Float and of a Double
          Comparables   \* values to compare and convert

(* As 24 bits lie between 16 and 31, and 53 between 32 and 63. *)
ASSUME RealBitsAssumption ==
    /\ RealBits.Float \in IntBits[2] .. IntBits[3] - 2
    /\ RealBits.Double \in IntBits[3] .. IntBits[4] - 2

VARIABLES left, right
convertVars == <<left, right>>

Sets == {"SetVariant", "MultisetVariant"}
Sequential == Sets \cup {"VectorVariant", "DequeVariant", "ListVariant"}

(* sizeof, and with it the number of bits. *)
Rank(t) ==
    CASE t \in {"Int8", "UInt8", "Char", "Bool"} -> 1 [] t \in {"Int16", "UInt16"} -> 2
      [] t \in {"Int32", "UInt32"} -> 3 [] OTHER -> 4
SizeOf(t) == 2^(Rank(t) - 1)

-----------------------------------------------------------------------------
(* operator < and operator ==. *)

(* mktime: the moment a std::tm denotes, whatever way it is written. *)
mktime(n) ==
    LET secs == (n[3] * 60 + n[2]) * 60 + n[1]
    IN  <<(n[6] * 12 + n[5]) * 31 + n[4] + secs \div 86400, secs % 86400>>

LexLess(p, q) ==
    \/ \E i \in DOMAIN p \cap DOMAIN q : p[i] < q[i] /\ \A j \in 1 .. i - 1 : p[j] = q[j]
    \/ Len(p) < Len(q) /\ \A j \in DOMAIN p : p[j] = q[j]

(* operator < of std::bitset<N>: from the highest bit down. *)
BitsLess(p, q) == LexLess(Reverse(p), Reverse(q))

TypeOrder(v) == IF v.t = "Key" THEN Et("String") ELSE Et(v.t)

RECURSIVE less(_, _), LessAll(_, _)

less(a, b) ==
    IF TypeOrder(a) # TypeOrder(b) THEN TypeOrder(a) < TypeOrder(b)
    ELSE IF a.null \/ b.null THEN a.null /\ ~b.null
    ELSE IF a.t = "Tm" THEN LexLess(mktime(a.n), mktime(b.n))
    ELSE IF a.t \in Bitsets THEN BitsLess(a.n, b.n)
    ELSE IF a.t \in Containers THEN LessAll(a.kids, b.kids)
    ELSE IF a.t = "VariantPtr" THEN a.ref < b.ref
    ELSE LexLess(a.n, b.n)

(* std::lexicographical_compare *)
LessAll(p, q) ==
    IF p = <<>> \/ q = <<>> THEN q # <<>> /\ p = <<>>
    ELSE \/ less(Head(p), Head(q))
         \/ ~less(Head(q), Head(p)) /\ LessAll(Tail(p), Tail(q))

RECURSIVE equal(_, _)
equal(a, b) ==
    /\ TypeOrder(a) = TypeOrder(b) /\ a.null = b.null
    /\ a.n = b.n /\ a.ref = b.ref
    /\ Len(a.kids) = Len(b.kids) /\ \A i \in DOMAIN a.kids : equal(a.kids[i], b.kids[i])

-----------------------------------------------------------------------------
(* Numbers and sizes. *)

Yes(v) == [ok |-> TRUE, thrown |-> FALSE, v |-> v]
No == [ok |-> FALSE, thrown |-> FALSE, v |-> Null("Void")]
Thrown == [No EXCEPT !.thrown = TRUE]

InRange(t, x) ==
    LET w == 2^IntBits[Rank(t)] IN
    IF t = "Bool" THEN x \in {0, 1} ELSE IF t \in SignedInts THEN 2 * x \in -w .. w - 1 ELSE x \in 0 .. w - 1

(* The value of an integer in type t: what fits of it. *)
Fitted(t, x) ==
    LET w == 2^IntBits[Rank(t)] IN
    IF t = "Bool" THEN IF x = 0 THEN 0 ELSE 1
    ELSE IF t \in SignedInts THEN ((x + w \div 2) % w) - w \div 2 ELSE x % w

(* The nearest real that t has, the even one of two. *)
Rounded(t, h) ==
    LET a == IF h < 0 THEN -h ELSE h
        Fits(e) == a < 2^(RealBits[t] + e)
        ulp == 2^(CHOOSE e \in 0 .. IntBits[4] + 1 : Fits(e) /\ \A d \in 0 .. e - 1 : ~Fits(d))
        q == a \div ulp
        up == 2 * (a % ulp) > ulp \/ (2 * (a % ulp) = ulp /\ q % 2 = 1)
        near == (IF up THEN q + 1 ELSE q) * ulp
    IN  IF h < 0 THEN -near ELSE near

(* ASSIGN: dst = src. *)
Truncated(h) == IF h < 0 THEN -((-h) \div 2) ELSE h \div 2
Assign(t, v) ==
    LET x == v.n[1] IN
    IF t \in Reals THEN One(t, Rounded(t, IF v.t \in Reals THEN x ELSE 2 * x))
    ELSE IF v.t \notin Reals THEN One(t, Fitted(t, x))
    ELSE IF t = "Bool" THEN One(t, IF x = 0 THEN 0 ELSE 1)
    ELSE IF InRange(t, Truncated(x)) THEN One(t, Truncated(x)) ELSE Undefined(t)

(* CONTAINERSIZE: dst = src.size(). *)
Size(v) ==
    IF v.t = "VectorChar" THEN Len(v.n) ELSE IF v.t \in Maps THEN Len(v.kids) \div 2 ELSE Len(v.kids)
ContainerSize(t, v) == Assign(t, One("UInt64", Size(v)))

-----------------------------------------------------------------------------
(* Bitsets. *)

bs2bs(t, v) == Value(t, [i \in 1 .. Bits(t) |-> IF i <= Len(v.n) THEN v.n[i] ELSE 0], <<>>, 0)

(* The loops of bs2int and int2bs run over sizeof(Int) * sizeof(char) bits. *)
LoopBits(t, bits) == IF SizeOf(t) < bits THEN SizeOf(t) ELSE bits

RECURSIVE BitSum(_, _)
BitSum(bits, k) == IF k = 0 THEN 0 ELSE BitSum(bits, k - 1) + bits[k] * 2^(k - 1)

bs2int(t, v) ==
    One(t, IF t = "Bool" THEN v.n[1] ELSE Fitted(t, BitSum(v.n, LoopBits(t, Len(v.n)))))
int2bs(t, v) ==
    Value(t, [i \in 1 .. Bits(t) |->
                IF i <= LoopBits(v.t, Bits(t)) THEN (v.n[1] \div 2^(i - 1)) % 2 ELSE 0], <<>>, 0)

-----------------------------------------------------------------------------
(* Sequences and dictionaries. *)

(* Insertion into a sorted container, behind its equals; a set or map      *)
(* keeps the first of them.                                                *)
Before(q, e) == Len(SelectSeq(q, LAMBDA x : ~less(e, x)))
InsertAll(unique, q) ==
    FoldLeft(LAMBDA done, e : LET k == Before(done, e) IN
                              IF unique /\ k > 0 /\ ~less(done[k], e) THEN done ELSE InsertAt(done, k + 1, e),
             <<>>, q)

Unique(t) == t \in {"SetVariant", "MapStringVariant", "MapVariantVariant"}

(* SequenceHelper::convert *)
ToSequence(t, kids) == Value(t, <<>>, IF t \in Sets THEN InsertAll(Unique(t), kids) ELSE kids, 0)

Keys(v) == [i \in 1 .. Len(v.kids) \div 2 |-> v.kids[2 * i - 1]]
Values(v) == [i \in 1 .. Len(v.kids) \div 2 |-> v.kids[2 * i]]

(* The pairs of a map under construction, ordered by key. *)
InsertPairs(t, ks, vs) ==
    LET more(done, i) ==
          LET k == Len(SelectSeq(done, LAMBDA p : ~less(ks[i], p[1]))) IN
          IF Unique(t) /\ k > 0 /\ ~less(done[k][1], ks[i]) THEN done ELSE InsertAt(done, k + 1, <<ks[i], vs[i]>>)
    IN  Value(t, <<>>, FlattenSeq(FoldLeft(more, <<>>, [i \in DOMAIN ks |-> i])), 0)

-----------------------------------------------------------------------------
(* Texts. *)

Minus == 45
Dot == 46
Nought == 48

RECURSIVE Digits(_)
Digits(x) == IF x < 10 THEN <<Nought + x>> ELSE Digits(x \div 10) \o <<Nought + (x % 10)>>
Decimal(x) == IF x < 0 THEN <<Minus>> \o Digits(-x) ELSE Digits(x)

(* _ntoa of an index. *)
_ntoa(i) == Digits(i)

IsDigits(s) == s # <<>> /\ \A i \in DOMAIN s : s[i] \in Nought .. Nought + 9
IsNumber(s) == IsDigits(s) \/ (s # <<>> /\ s[1] = Minus /\ IsDigits(Tail(s)))
Parsed(s) ==
    LET abs(d) == FoldLeft(LAMBDA x, c : x * 10 + c - Nought, 0, d)
    IN  IF s[1] = Minus THEN -abs(Tail(s)) ELSE abs(s)

OwnText(v) == <<-Et(v.t)>> \o v.n
IsOwn(t, s) == s # <<>> /\ s[1] = -Et(t)

(* The three leading fields of a uuid change their byte order. *)
SwapUuid(n) == [i \in 1 .. 16 |-> n[IF i <= 4 THEN 5 - i ELSE IF i <= 6 THEN 11 - i ELSE IF i <= 8 THEN 15 - i ELSE i]]

(* lexical_cast<String>: integers of one byte are characters for it. *)
SomeToString(v) ==
    CASE v.t \in {"Char", "Int8", "UInt8"} -> <<v.n[1] % 256>>
      [] v.t \in Reals -> (IF v.n[1] < 0 THEN <<Minus>> \o Digits(-Truncated(v.n[1])) ELSE Digits(Truncated(v.n[1])))
                            \o (IF v.n[1] % 2 = 0 THEN <<>> ELSE <<Dot, Nought + 5>>)
      [] v.t \in Bitsets -> [i \in DOMAIN v.n |-> Nought + v.n[Len(v.n) + 1 - i]]
      [] v.t \in {"Date", "Datetime", "TimeDuration", "DateTimeDuration"} -> OwnText(v)
      [] v.t = "Uuid" -> OwnText([v EXCEPT !.n = SwapUuid(@)])
      [] v.t \in {"String", "VectorChar"} -> v.n
      [] OTHER -> Decimal(v.n[1])

RealText(s) ==
    IF IsNumber(s) THEN 2 * Parsed(s)
    ELSE LET x == Parsed(SubSeq(s, 1, Len(s) - 2)) IN IF s[1] = Minus THEN 2 * x - 1 ELSE 2 * x + 1

IsReal(s) ==
    \/ IsNumber(s)
    \/ /\ Len(s) > 2 /\ SubSeq(s, Len(s) - 1, Len(s)) = <<Dot, Nought + 5>>
       /\ IsNumber(SubSeq(s, 1, Len(s) - 2))

(* lexical_cast<T> of a string, T() if it throws. *)
StringToSome(t, s) ==
    IF s = <<>> /\ t # "DateTimeDuration" THEN Initial(t)
    ELSE IF t \in {"Char", "Int8", "UInt8"} THEN IF Len(s) = 1 THEN One(t, Fitted(t, s[1])) ELSE Initial(t)
    ELSE IF t = "Bool" THEN IF s \in {<<Nought>>, <<Nought + 1>>} THEN One(t, s[1] - Nought) ELSE Initial(t)
    ELSE IF t \in SignedInts THEN IF IsNumber(s) /\ InRange(t, Parsed(s)) THEN One(t, Parsed(s)) ELSE Initial(t)
    ELSE IF t \in UnsignedInts THEN
           IF IsNumber(s) /\ InRange(t, IF Parsed(s) < 0 THEN -Parsed(s) ELSE Parsed(s))
           THEN One(t, Fitted(t, Parsed(s))) ELSE Initial(t)
    ELSE IF t \in Reals THEN IF IsReal(s) THEN One(t, Rounded(t, RealText(s))) ELSE Initial(t)
    ELSE IF t \in Bitsets THEN
           IF Len(s) <= Bits(t) /\ \A i \in DOMAIN s : s[i] \in {Nought, Nought + 1}
           THEN Value(t, [i \in 1 .. Bits(t) |-> IF i <= Len(s) THEN s[Len(s) + 1 - i] - Nought ELSE 0], <<>>, 0)
           ELSE Initial(t)
    ELSE IF t = "DateDuration" THEN IF IsNumber(s) THEN One(t, Parsed(s)) ELSE Initial(t)
    ELSE IF t = "DateTimeDuration" THEN
           IF IsOwn(t, s) THEN Value(t, Tail(s), <<>>, 0)
           ELSE IF IsNumber(s) THEN Value(t, <<Parsed(s), 0>>, <<>>, 0) ELSE Initial(t)
    ELSE IF IsOwn(t, s) THEN Value(t, Tail(s), <<>>, 0) ELSE Initial(t)

(* x2n over a text of 36 or 32 characters; one of another length leaves    *)
(* the uuid as it is on the stack.                                         *)
StringToUuid(s) ==
    IF IsOwn("Uuid", s) THEN Yes(Value("Uuid", SwapUuid(Tail(s)), <<>>, 0))
    ELSE IF Len(s) \in {32, 36} THEN No ELSE Yes(Undefined("Uuid"))

-----------------------------------------------------------------------------
(* Dates: a std::tm holds seconds, minutes, hours, day, month and year     *)
(* first; a ptime its date and the ticks of the day.                       *)
TicksPerSecond == 2
DateToTm(d) == <<0, 0, 0, d[3], d[2] - 1, d[1] - 1900, 0, 0, -1>>
ToTm(v) ==
    IF v.n = <<>> THEN Initial("Tm")
    ELSE IF v.t = "Date" THEN Value("Tm", DateToTm(v.n), <<>>, 0)
    ELSE LET s == v.n[4] \div TicksPerSecond
         IN  Value("Tm", [[DateToTm(v.n) EXCEPT ![1] = s % 60, ![2] = (s \div 60) % 60, ![3] = s \div 3600]
                            EXCEPT ![9] = 0], <<>>, 0)
TmDate(n) == <<n[6] + 1900, n[5] + 1, n[4]>>
TmValid(n) == n[6] >= -500 /\ n[5] \in 0 .. 11 /\ n[4] \in 1 .. 31
FromTm(t, n) ==
    IF ~TmValid(n) THEN Undefined(t)
    ELSE IF t = "Date" THEN Value(t, TmDate(n), <<>>, 0)
    ELSE Value(t, TmDate(n) \o <<((n[3] * 60 + n[2]) * 60 + n[1]) * TicksPerSecond>>, <<>>, 0)

(* CNVTCODE *)
Calendar(t, v) ==
    IF v.t = t THEN v
    ELSE IF v.t = "Tm" THEN FromTm(t, v.n)
    ELSE IF t = "Tm" THEN ToTm(v)
    ELSE IF t = "Date" THEN Value(t, SubSeq(v.n, 1, 3), <<>>, 0)
    ELSE Value(t, IF v.n = <<>> THEN <<>> ELSE v.n \o <<0>>, <<>>, 0)

Lapse(t, v) ==
    IF v.t = t THEN v
    ELSE IF t = "DateDuration" THEN One(t, v.n[1])
    ELSE IF t = "TimeDuration" THEN One(t, v.n[2])
    ELSE Value(t, IF v.t = "DateDuration" THEN <<v.n[1], 0>> ELSE <<0, v.n[1]>>, <<>>, 0)

CalendarTypes == {"Date", "Datetime", "Tm"}
LapseConverts(t, v) ==
    \/ t = "DateTimeDuration" /\ v.t \in {"DateDuration", "TimeDuration", "DateTimeDuration"}
    \/ v.t = "DateTimeDuration" /\ t \in {"DateDuration", "TimeDuration"}
    \/ t = v.t /\ t \in {"DateDuration", "TimeDuration"}

-----------------------------------------------------------------------------
(* convert: the conversion that the two types choose.  What a new pointer  *)
(* points to is written as its element.                                    *)

RECURSIVE convert(_, _), Cast(_, _), StringKeys(_), NullKeys(_)

convert(t, v) ==
    IF v.null \/ v.t = "Void" THEN No
    ELSE IF t = "VariantPtr" THEN Yes(IF v.t = t THEN v ELSE Value(t, <<>>, <<v>>, 0))
    ELSE IF v.t = "VariantPtr" THEN IF v.kids = <<>> THEN No ELSE Cast(t, v.kids[1])
    ELSE IF t \in Numeric /\ v.t \in Numeric THEN Yes(Assign(t, v))
    ELSE IF t \in Numeric /\ v.t \in Containers \cup {"VectorChar"} THEN Yes(ContainerSize(t, v))
    ELSE IF t \in Bitsets /\ v.t \in Bitsets THEN Yes(bs2bs(t, v))
    ELSE IF t \in Numeric \ Reals /\ v.t \in Bitsets THEN Yes(bs2int(t, v))
    ELSE IF t \in Bitsets /\ v.t \in Numeric \ Reals THEN Yes(int2bs(t, v))
    ELSE IF t \in Sequential /\ v.t \in Sequential THEN Yes(IF t = v.t THEN v ELSE ToSequence(t, v.kids))
    ELSE IF t \in Maps /\ v.t \in Maps THEN
           IF t = v.t THEN Yes(v)
           ELSE IF t \in VariantMaps
           THEN Yes(InsertPairs(t, [i \in DOMAIN Keys(v) |->
                                      IF Keys(v)[i].t = "Key" THEN Value("String", Keys(v)[i].n, <<>>, 0) ELSE Keys(v)[i]],
                                Values(v)))
           ELSE IF NullKeys(v) THEN Thrown ELSE Yes(InsertPairs(t, StringKeys(v), Values(v)))
    ELSE IF t \in Sequential /\ v.t \in Maps THEN Yes(ToSequence(t, Values(v)))
    ELSE IF t \in Maps /\ v.t \in Sequential THEN
           Yes(InsertPairs(t, [i \in DOMAIN v.kids |->
                                 Value(IF t \in StringMaps THEN "Key" ELSE "String", _ntoa(i - 1), <<>>, 0)], v.kids))
    ELSE IF t \in CalendarTypes /\ v.t \in CalendarTypes THEN Yes(Calendar(t, v))
    ELSE IF LapseConverts(t, v) THEN Yes(Lapse(t, v))
    ELSE IF t = "Tm" /\ v.t = "String" THEN Yes(Calendar("Tm", StringToSome("Datetime", v.n)))
    ELSE IF t = "String" /\ v.t = "Tm" THEN Yes(Value(t, SomeToString(Calendar("Datetime", v)), <<>>, 0))
    ELSE IF t = "Uuid" /\ v.t = "String" THEN StringToUuid(v.n)
    ELSE IF t = "VectorChar" /\ v.t = "String" THEN Yes(Value(t, v.n, <<>>, 0))
    ELSE IF t = "String" /\ v.t \notin Containers THEN Yes(Value(t, SomeToString(v), <<>>, 0))
    ELSE IF v.t = "String" /\ t \notin Containers \cup {"Void"} THEN Yes(StringToSome(t, v.n))
    ELSE IF t = v.t THEN Yes(v)
    ELSE No

(* operator T: a null of the type itself throws; what cannot be converted  *)
(* leaves T as its declaration does.                                       *)
Cast(t, v) ==
    IF v.t = t THEN IF v.null THEN Thrown ELSE Yes(v)
    ELSE LET r == convert(t, v) IN
         IF r.ok \/ r.thrown THEN r
         ELSE Yes(IF t = "String" THEN Value(t, <<>>, <<>>, 0) ELSE Undefined(t))

(* The keys of a map of variants as strings. *)
StringKeys(v) ==
    [i \in DOMAIN Keys(v) |->
       IF Keys(v)[i].t = "Key" THEN Keys(v)[i] ELSE Value("Key", Cast("String", Keys(v)[i]).v.n, <<>>, 0)]
NullKeys(v) == \E i \in DOMAIN Keys(v) : Keys(v)[i].t # "Key" /\ Cast("String", Keys(v)[i]).thrown

(* convert<T>(): a conversion that fails leaves what T dst; declares, and  *)
(* one of a value never set may give any.                                  *)
Outcomes(t, v, any) ==
    LET r == convert(t, v) IN
    IF ~v.null /\ v.t \in {"Tm", "Uuid"} /\ v.n = <<>> THEN {w \in any : w.t = t}
    ELSE IF r.thrown THEN {}
    ELSE IF r.ok THEN {r.v}
    ELSE IF t \in Numeric THEN {One(t, x) : x \in {0, 1}} ELSE {Default(t)}

-----------------------------------------------------------------------------
(* A value meets others. *)
ConvertStart(a) == left = a /\ right = a
ConvertInit == \E a \in Comparables : ConvertStart(a)
Meet == right = left /\ \E b \in Comparables : right' = b /\ UNCHANGED left
ConvertSpec == ConvertInit /\ [][Meet]_convertVars

-----------------------------------------------------------------------------
(* Properties. *)

Alike(a, b) == ~less(a, b) /\ ~less(b, a)

RECURSIVE HoldsTm(_)
HoldsTm(v) == v.t = "Tm" \/ \E i \in DOMAIN v.kids : HoldsTm(v.kids[i])

(* operator < orders all values the way the keys of std::map and std::set  *)
(* need it: a strict weak order, across types, nulls and nested            *)
(* containers, whose equivalence is operator ==.  Excepted is a std::tm:   *)
(* two ways to write one moment are equivalent and not equal.              *)
OrderLawful ==
    /\ ~(less(left, right) /\ less(right, left))
    /\ equal(left, right) => Alike(left, right)
    /\ Alike(left, right) /\ ~HoldsTm(left) => equal(left, right)
    /\ less(left, right) => \A c \in Comparables : less(right, c) => less(left, c)
    /\ left # right /\ Alike(left, right) => \A c \in Comparables : Alike(right, c) => Alike(left, c)

(* Types that have room for every value of another. *)
Wide(t, v) ==
    \/ t \in SignedInts /\ v.t \in SignedInts /\ Rank(t) >= Rank(v.t)
    \/ t \in UnsignedInts /\ v.t \in UnsignedInts /\ Rank(t) >= Rank(v.t)
    \/ t \in SignedInts /\ v.t \in UnsignedInts \cup {"Bool"} /\ Rank(t) > Rank(v.t)
    \/ t = "Float" /\ (v.t = "Float" \/ (v.t \in Numeric \ Reals /\ Rank(v.t) <= 2))
    \/ t = "Double" /\ (v.t \in Reals \/ (v.t \in Numeric \ Reals /\ Rank(v.t) <= 3))
    \/ t = "String" /\ v.t \in Numeric \cup Bitsets \cup {"VectorChar", "Uuid", "DateDuration", "TimeDuration",
                                                         "DateTimeDuration", "Date", "Datetime"}
    \/ t = "VectorChar" /\ v.t = "String"
    \/ t \in Bitsets /\ v.t \in Bitsets /\ Bits(t) >= Bits(v.t)
    \/ t \in Sequential \ Sets /\ v.t \in Sequential
    \/ t \in Maps /\ v.t \in Sequential \ Sets /\ Len(v.kids) <= 10
    \/ t \in VariantMaps /\ v.t \in StringMaps /\ (Unique(t) => Unique(v.t))
    \/ t = "Datetime" /\ v.t = "Date"
    \/ t = "Tm" /\ v.t = "Date"
    \/ t = "Tm" /\ v.t = "Datetime" /\ v.n # <<>> /\ v.n[4] % TicksPerSecond = 0
    \/ t = "DateTimeDuration" /\ v.t \in {"DateDuration", "TimeDuration"}
    \/ t = "VariantPtr"

(* A value converted to a type that has room for it and back again is the  *)
(* value.  Float has room for integers of two bytes, Double for those of   *)
(* four.  There is no room for an integer in a bitset, of which the loops *)
(* of BitsetHelper fill as many bits as the integer has bytes, nor for     *)
(* more than ten elements in a map, whose keys are numbers in writing.     *)
ConvertsBack ==
    \A t \in {Types[i] : i \in DOMAIN Types} :
      ~left.null /\ left.t # "Void" /\ Wide(t, left) =>
        LET there == convert(t, left) IN
        /\ there.ok
        /\ LET back == convert(left.t, there.v) IN back.ok /\ equal(back.v, left)
=============================================================================
