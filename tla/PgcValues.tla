----------------------------- MODULE PgcValues -----------------------------
(***************************************************************************)
(* How values go to PostgreSQL and come back: pgc::impl::BindData          *)
(* (src/pgc/impl/bindData.cpp) turns the parameters of a query into typed  *)
(* binary form, pgc::impl::Result (src/pgc/impl/result.cpp) turns columns  *)
(* into Variants, both with the calendar of include/utils/julian.hpp.      *)
(*                                                                         *)
(* A Variant is its type, whether it is null, and its numbers: a bitset is *)
(* its bits, a date year, month and day, a time of day a number of ticks.  *)
(* A parameter or column is the oid of its type and the numbers of its     *)
(* binary form.  The server (external) gives back what it got.  Integers   *)
(* have narrow widths, a tick stands for a microsecond and a minute is     *)
(* short, so that TLC can count them; -5 \div 2 is written Quot(-5, 2),    *)
(* which rounds towards zero as in C.                                      *)
(***************************************************************************)
EXTENDS Integers, Sequences

CONSTANTS Params,          \* the parameter lists to try
          Halves,          \* an int2 holds the numbers from -h to h - 1, h is Halves.int2
          Ticks            \* per second, minute, hour, day: a record

VARIABLES params, integerDatetimes, binds, row, fetched, valuesAt
valueVars == <<params, integerDatetimes, binds, row, fetched, valuesAt>>

Quot(a, b) == IF a >= 0 THEN a \div b ELSE -((-a) \div b)
Rem(a, b) == a - b * Quot(a, b)

(* The number from -h to h - 1 that x is when its bits are reinterpreted. *)
Wrap(x, h) == ((x + h) % (2 * h)) - h

-----------------------------------------------------------------------------
(* include/utils/julian.hpp *)

date2j(y0, m0, d) ==
    LET m == IF m0 > 2 THEN m0 + 1 ELSE m0 + 13
        y == IF m0 > 2 THEN y0 + 4800 ELSE y0 + 4799
        century == y \div 100
    IN  y * 365 - 32167 + (y \div 4 - century + century \div 4) + ((7834 * m) \div 256 + d)

(* A day of a leap cycle that begins in January: the year of the cycle,    *)
(* and the day of the year that begins in March, its month and its date.   *)
CycleYear(j2) == (j2 * 4) \div 1461
CycleDay(j2) == IF CycleYear(j2) # 0 THEN (j2 + 305) % 365 ELSE (j2 + 306) % 366
MarchTo(a) == ((a + 123) * 2141) \div 65536
CycleDate(q1, j2) ==
    LET a == CycleDay(j2) IN
    <<CycleYear(j2) + q1 * 4 - 4800, ((MarchTo(a) + 10) % 12) + 1, a + 123 - (7834 * MarchTo(a)) \div 256>>

j2date(jd) ==
    LET j0 == jd + 32044
        q0 == j0 \div 146097
        j1 == j0 + 60 + q0 * 3 + ((j0 - q0 * 146097) * 4 + 3) \div 146097
        q1 == j1 \div 1461
    IN  CycleDate(q1, j1 - q1 * 1461)

POSTGRES_EPOCH_JDATE == 2451545
DAYS_PER_MONTH == 30

(* hour, min, sec, fsec *)
dt2time(t0) ==
    LET hour == Quot(t0, Ticks.hour)
        t1 == t0 - hour * Ticks.hour
        min == Quot(t1, Ticks.minute)
        t2 == t1 - min * Ticks.minute
        sec == Quot(t2, Ticks.second)
    IN  <<hour, min, sec, t2 - sec * Ticks.second>>
time2t(hour, min, sec) == hour * Ticks.hour + min * Ticks.minute + sec * Ticks.second

(* boost's time_duration of hours, minutes, seconds and ticks. *)
Duration(h) == time2t(h[1], h[2], h[3]) + h[4]

-----------------------------------------------------------------------------
(* BindData *)

PgBitsets == [Bitset8 |-> 8, Bitset16 |-> 16]
PgNull(t) == [t |-> t, null |-> TRUE, n |-> <<>>]
Val(t, n) == [t |-> t, null |-> FALSE, n |-> n]

Oid == [Bool |-> 16, Float |-> 700, Double |-> 701, Int8 |-> 21, Int16 |-> 21, Int32 |-> 23,
        Int64 |-> 20, UInt8 |-> 21, UInt16 |-> 21, UInt32 |-> 23, UInt64 |-> 20, Tm |-> 1114,
        Date |-> 1082, Datetime |-> 1114, DateDuration |-> 1186, TimeDuration |-> 1186,
        DateTimeDuration |-> 1186, Bitset8 |-> 1562, Bitset16 |-> 1562, VectorChar |-> 17,
        Uuid |-> 2950, Char |-> 18, String |-> 0]
Bindable(v) == v.t \in DOMAIN Oid

Days(y, m, d) == date2j(y, m, d) - POSTGRES_EPOCH_JDATE

(* A number of ticks as the server wants it: a number, or a double, the    *)
(* whole seconds and the rest of which are given here.                     *)
Moment(ts) == IF integerDatetimes THEN <<ts>> ELSE <<Quot(ts, Ticks.second), Rem(ts, Ticks.second)>>
Interval(days, ts) == <<Quot(days, DAYS_PER_MONTH), Rem(days, DAYS_PER_MONTH)>> \o Moment(ts)

(* bitset2Bits: the first bit is the highest of the first byte. *)
Weights == <<128, 64, 32, 16, 8, 4, 2, 1>>
ByteOf(b) ==
    b[1] * 128 + b[2] * 64 + b[3] * 32 + b[4] * 16 + b[5] * 8 + b[6] * 4 + b[7] * 2 + b[8]
bitset2Bits(bits) ==
    [i \in 1 .. Len(bits) \div 8 |-> ByteOf([k \in 1 .. 8 |-> bits[8 * (i - 1) + k]])]

(* The columns that numbers go to, by the numbers these hold. *)
IntHalf == [Int8 |-> Halves.int2, Int16 |-> Halves.int2, Int32 |-> Halves.int4, Int64 |-> Halves.int8,
            UInt8 |-> Halves.int2, UInt16 |-> Halves.int2, UInt32 |-> Halves.int4, UInt64 |-> Halves.int8]

(* The numbers of the binary form. *)
Form(v) ==
    CASE v.t \in DOMAIN IntHalf -> <<Wrap(v.n[1], IntHalf[v.t])>>
      [] v.t = "Tm" -> Moment(time2t(v.n[4], v.n[5], v.n[6]) + Days(v.n[1] + 1900, v.n[2] + 1, v.n[3]) * Ticks.day)
      [] v.t = "Date" -> <<Days(v.n[1], v.n[2], v.n[3])>>
      [] v.t = "Datetime" -> Moment(v.n[4] + Days(v.n[1], v.n[2], v.n[3]) * Ticks.day)
      [] v.t = "DateDuration" -> Interval(v.n[1], 0)
      [] v.t = "TimeDuration" -> Interval(0, v.n[1])
      [] v.t = "DateTimeDuration" -> Interval(v.n[1], v.n[2])
      [] v.t \in DOMAIN PgBitsets -> <<PgBitsets[v.t]>> \o bitset2Bits(v.n)
      [] OTHER -> v.n

bindFiller(v) == [oid |-> Oid[v.t], null |-> v.null, n |-> IF v.null THEN <<>> ELSE Form(v)]

(* bindSeq and bindScalar.  An element that cannot be bound empties the     *)
(* arrays, but bindSeq goes on and writes the elements behind it past the  *)
(* end of them: what comes then is undefined, and ends the behaviour.      *)
Bind ==
    /\ valuesAt = "new"
    /\ binds' = IF \A i \in DOMAIN params : Bindable(params[i])
                THEN [i \in DOMAIN params |-> bindFiller(params[i])] ELSE <<>>
    /\ valuesAt' = IF \A i \in 1 .. Len(params) - 1 : Bindable(params[i]) THEN "bound" ELSE "undefined"
    /\ UNCHANGED <<params, integerDatetimes, row, fetched>>

(* The server: a statement that returns its parameters; a parameter of no  *)
(* type becomes text.                                                      *)
ServerEcho ==
    /\ valuesAt = "bound"
    /\ row' = [i \in DOMAIN binds |-> IF binds[i].oid = 0 THEN [binds[i] EXCEPT !.oid = 25] ELSE binds[i]]
    /\ valuesAt' = "answered"
    /\ UNCHANGED <<params, integerDatetimes, binds, fetched>>

-----------------------------------------------------------------------------
(* Result *)

colType(oid) ==
    CASE oid = 21 -> "Int16" [] oid = 23 -> "Int32" [] oid = 20 -> "Int64"
      [] oid = 700 -> "Float" [] oid = 701 -> "Double" [] oid = 25 -> "String"
      [] oid = 17 -> "VectorChar" [] oid = 1114 -> "Datetime" [] oid = 1186 -> "DateTimeDuration"
      [] oid = 1082 -> "Date" [] oid = 16 -> "Bool" [] oid = 1562 -> "Bitset8"
      [] oid = 2950 -> "Uuid" [] oid = 18 -> "Char" [] OTHER -> "Void"

(* Ticks from the binary form.  The fraction of a double is rounded by     *)
(* adding a half and cutting, which takes a negative one a tick too far.   *)
FromMoment(n) ==
    IF integerDatetimes THEN n[1]
    ELSE n[1] * Ticks.second + (IF n[2] < 0 THEN n[2] + 1 ELSE n[2])

(* TMODULO, and a time of day that is not negative. *)
SplitDay(ts) ==
    LET date == Quot(ts, Ticks.day) time == Rem(ts, Ticks.day)
    IN  IF time < 0 THEN [date |-> date - 1, time |-> time + Ticks.day]
        ELSE [date |-> date, time |-> time]

bits2Bitset(size, amount, bytes) ==
    [i \in 1 .. size |-> IF i > amount THEN 0 ELSE (bytes[(i - 1) \div 8 + 1] \div Weights[((i - 1) % 8) + 1]) % 2]

(* fixEndian of the first three fields. *)
SwappedUuid(u) == <<u[4], u[3], u[2], u[1], u[6], u[5], u[8], u[7]>> \o SubSeq(u, 9, Len(u))

fetch(c) ==
    LET t == colType(c.oid) IN
    IF c.null THEN PgNull(t)
    ELSE CASE t = "Datetime" ->
                LET s == SplitDay(FromMoment(c.n))
                    day == j2date(s.date + POSTGRES_EPOCH_JDATE)
                IN  Val(t, <<day[1], day[2], day[3], Duration(dt2time(s.time))>>)
           [] t = "Date" -> Val(t, j2date(c.n[1] + POSTGRES_EPOCH_JDATE))
           [] t = "DateTimeDuration" ->
                Val(t, <<c.n[2] + c.n[1] * DAYS_PER_MONTH,
                         Duration(dt2time(FromMoment(SubSeq(c.n, 3, Len(c.n)))))>>)
           [] t = "Bitset8" ->
                IF c.n[1] <= 8 THEN Val("Bitset8", bits2Bitset(8, c.n[1], Tail(c.n)))
                ELSE Val("Bitset16", bits2Bitset(16, c.n[1], Tail(c.n)))
           [] t = "Uuid" -> Val(t, SwappedUuid(c.n))
           [] t = "Bool" -> Val(t, <<IF c.n[1] = 0 THEN 0 ELSE 1>>)
           [] OTHER -> Val(t, c.n)

FetchRow ==
    /\ valuesAt = "answered"
    /\ fetched' = [i \in DOMAIN row |-> fetch(row[i])]
    /\ valuesAt' = "fetched"
    /\ UNCHANGED <<params, integerDatetimes, binds, row>>

-----------------------------------------------------------------------------
(* The parameters that a program can have: dates are of boost's calendar,  *)
(* a time of day is within its day, numbers are within their types.        *)

Leap(y) == y % 4 = 0 /\ (y % 100 # 0 \/ y % 400 = 0)
MonthEnd(y, m) ==
    IF m = 2 THEN (IF Leap(y) THEN 29 ELSE 28) ELSE IF m \in {4, 6, 9, 11} THEN 30 ELSE 31
CalendarDay(y, m, d) == y \in 1400 .. 9999 /\ m \in 1 .. 12 /\ d \in 1 .. MonthEnd(y, m)

OfType(t, n) ==
    CASE t \in {"Int8", "Int16", "Int32", "Int64"} -> Len(n) = 1 /\ n[1] \in -IntHalf[t] .. IntHalf[t] - 1
      [] t \in {"UInt8", "UInt16", "UInt32", "UInt64"} -> Len(n) = 1 /\ n[1] \in 0 .. 2 * IntHalf[t] - 1
      [] t = "Bool" -> Len(n) = 1 /\ n[1] \in {0, 1}
      [] t = "Tm" -> /\ Len(n) = 6 /\ CalendarDay(n[1] + 1900, n[2] + 1, n[3])
                     /\ n[4] >= 0 /\ n[5] >= 0 /\ n[6] >= 0 /\ time2t(n[4], n[5], n[6]) < Ticks.day
      [] t = "Date" -> Len(n) = 3 /\ CalendarDay(n[1], n[2], n[3])
      [] t = "Datetime" -> Len(n) = 4 /\ CalendarDay(n[1], n[2], n[3]) /\ n[4] \in 0 .. Ticks.day - 1
      [] t \in {"DateDuration", "TimeDuration"} -> Len(n) = 1
      [] t = "DateTimeDuration" -> Len(n) = 2
      [] t \in DOMAIN PgBitsets -> Len(n) = PgBitsets[t] /\ \A i \in DOMAIN n : n[i] \in {0, 1}
      [] OTHER -> TRUE

ASSUME ParamsAssumption ==
    /\ \A list \in Params :
         /\ list \in Seq([t : STRING, null : BOOLEAN, n : Seq(Int)])
         /\ \A i \in DOMAIN list : list[i].null \/ OfType(list[i].t, list[i].n)
    /\ \A t \in DOMAIN IntHalf : IntHalf[t] \in Nat \ {0}
    /\ \A u \in {"second", "minute", "hour", "day"} : Ticks[u] \in Nat \ {0}
    /\ Ticks.minute % Ticks.second = 0 /\ Ticks.hour % Ticks.second = 0 /\ Ticks.day % Ticks.second = 0

-----------------------------------------------------------------------------
ValuesStart(list) ==
    /\ params = list
    /\ integerDatetimes \in BOOLEAN
    /\ binds = <<>> /\ row = <<>> /\ fetched = <<>>
    /\ valuesAt = "new"

ValuesInit == \E list \in Params : ValuesStart(list)
ValuesNext == Bind \/ ServerEcho \/ FetchRow
ValuesSpec == ValuesInit /\ [][ValuesNext]_valueVars

-----------------------------------------------------------------------------
(* Properties. *)

(* What a value means, whatever its type. *)
Meaning(v) ==
    IF v.null THEN <<"null">>
    ELSE IF v.t = "Tm" THEN <<v.n[1] + 1900, v.n[2] + 1, v.n[3], time2t(v.n[4], v.n[5], v.n[6])>>
    ELSE IF v.t = "DateDuration" THEN <<v.n[1], 0>>
    ELSE IF v.t = "TimeDuration" THEN <<0, v.n[1]>>
    ELSE v.n

(* Where the code is not faithful: an unsigned number that its column      *)
(* takes for a negative one, a uuid, and on a server with double times a   *)
(* fraction of a second before 2000 or below zero.                         *)
Lossy(v) ==
    /\ ~v.null
    /\ \/ v.t \in DOMAIN IntHalf /\ v.n[1] >= IntHalf[v.t]
       \/ v.t = "Uuid"
       \/ ~integerDatetimes /\ v.t = "Datetime" /\ v.n[1] < 2000 /\ v.n[4] % Ticks.second # 0
       \/ /\ ~integerDatetimes /\ v.t \in {"TimeDuration", "DateTimeDuration"}
          /\ v.n[Len(v.n)] < 0 /\ v.n[Len(v.n)] % Ticks.second # 0

(* A value that is bound and read back means what it meant: days survive   *)
(* the way through the Julian calendar in both directions, also before the *)
(* epoch, intervals their split into months, bitsets their bit order, and  *)
(* no parameter of a list is lost while all can be bound.                  *)
ReadsBack ==
    valuesAt = "fetched" /\ (\A i \in DOMAIN params : Bindable(params[i])) =>
      /\ Len(fetched) = Len(params)
      /\ \A i \in DOMAIN params : Lossy(params[i]) \/ Meaning(fetched[i]) = Meaning(params[i])
=============================================================================
