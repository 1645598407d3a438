--------------------------- MODULE Serialization ---------------------------
(***************************************************************************)
(* utils::Variant::serialize and deserialize                               *)
(* (src/utils/variantSerialization.cpp): a value of any type as a header   *)
(* (signature, crc, size) and its bytes, least significant byte first.     *)
(* calcSize fixes the size of the buffer before write fills it; read walks *)
(* over bytes that may have been damaged since.                            *)
(*                                                                         *)
(* Numbers are below 2^31.  CRC-16, which misses no change of one byte, is *)
(* external: the bytes it covers stand for it.                             *)
(***************************************************************************)
EXTENDS VariantTypes, SequencesExt

CONSTANTS Samples   \* values and, by number, the objects they point to

VARIABLES sample, buffer, damagedAt, outcome
serialVars == <<sample, buffer, damagedAt, outcome>>

S == 8   \* sizeof(uint64_t)

-----------------------------------------------------------------------------
(* First pass: the size.  keys are the pointers met so far, in order.      *)

(* The bytes calcSize adds for a scalar. *)
ScalarSize(t) ==
    CASE t \in {"Int8", "UInt8", "Bool", "Char"} -> 1
      [] t \in {"Int16", "UInt16"} -> 2
      [] t \in {"Float", "Int32", "UInt32", "Date", "DateDuration"} -> 4
      [] t \in {"Double", "Int64", "UInt64", "TimeDuration"} -> 8
      [] t \in {"Datetime", "DateTimeDuration"} -> 12
      [] t = "Uuid" -> 16
      [] t = "Tm" -> 36
      [] OTHER -> Bits(t) \div 8

RECURSIVE calcSize(_, _, _), calcSizes(_, _, _)

calcSize(v, objects, keys) ==
    LET only(n) == [size |-> n, keys |-> keys]
        more(n, in) == [in EXCEPT !.size = @ + n]
    IN  IF v.t = "Key" THEN only(S + Len(v.n))
        ELSE IF v.null THEN only(2)
        ELSE IF v.t \in Strings THEN only(2 + S + Len(v.n))
        ELSE IF v.t \in Containers THEN more(2 + S, calcSizes(v.kids, objects, keys))
        ELSE IF v.t # "VariantPtr" THEN only(2 + ScalarSize(v.t))
        ELSE IF v.ref = 0 \/ Contains(keys, v.ref) THEN only(2 + 4)
        ELSE more(2 + 4, calcSize(objects[v.ref], objects, Append(keys, v.ref)))

calcSizes(vs, objects, keys) ==
    IF vs = <<>> THEN [size |-> 0, keys |-> keys]
    ELSE LET one == calcSize(Head(vs), objects, keys)
             rest == calcSizes(Tail(vs), objects, one.keys)
         IN  [rest EXCEPT !.size = @ + one.size]

-----------------------------------------------------------------------------
(* Second pass: the bytes. *)

(* writeIntegral: x in w bytes, two's complement. *)
Integral(w, x) ==
    [i \in 1 .. w |-> IF i > 4 THEN (IF x < 0 THEN 255 ELSE 0) ELSE (x \div 256^(i - 1)) % 256]

RECURSIVE Sum(_)
Sum(q) == IF q = <<>> THEN 0 ELSE Head(q) + Sum(Tail(q))

(* writeBitset: bit i goes to bit i % 8 of byte i / 8. *)
Bitset(bits) ==
    [b \in 1 .. Len(bits) \div 8 |-> Sum([i \in 1 .. 8 |-> bits[8 * (b - 1) + i] * 2^(i - 1)])]

PackDate(n) == n[1] * 10000 + n[2] * 100 + n[3]

ScalarBytes(v) ==
    CASE v.t = "Datetime" -> Integral(4, PackDate(v.n)) \o Integral(8, v.n[4])
      [] v.t = "Date" -> Integral(4, PackDate(v.n))
      [] v.t = "Tm" -> FlattenSeq([i \in 1 .. 9 |-> Integral(4, v.n[i])])
      [] v.t = "DateTimeDuration" -> Integral(4, v.n[1]) \o Integral(8, v.n[2])
      [] v.t = "Uuid" -> v.n
      [] Bits(v.t) > 0 -> Bitset(v.n)
      [] OTHER -> Integral(ScalarSize(v.t), v.n[1])

NullEtKept(v) == Et(v.t)
WrittenEt(v) == IF v.null THEN -Et(v.t) ELSE Et(v.t)

(* writeSeq and writeMap count elements, a map its pairs. *)
Count(v) == IF v.t \in Maps THEN Len(v.kids) \div 2 ELSE Len(v.kids)

RECURSIVE write(_, _, _), writes(_, _, _)

write(v, objects, keys) ==
    LET et == Integral(2, WrittenEt(v))
        only(b) == [bytes |-> b, keys |-> keys]
        after(b, in) == [in EXCEPT !.bytes = b \o @]
        text == Integral(S, Len(v.n)) \o v.n
    IN  IF v.t = "Key" THEN only(text)
        ELSE IF v.null THEN only(et)
        ELSE IF v.t \in Strings THEN only(et \o text)
        ELSE IF v.t \in Containers
        THEN after(et \o Integral(S, Count(v)), writes(v.kids, objects, keys))
        ELSE IF v.t # "VariantPtr" THEN only(et \o ScalarBytes(v))
        ELSE IF v.ref = 0 THEN only(et \o Integral(8, 0))
        ELSE IF Contains(keys, v.ref)
        THEN only(et \o Integral(8, CHOOSE k \in DOMAIN keys : keys[k] = v.ref))
        ELSE after(et \o Integral(8, Len(keys) + 1),
                   write(objects[v.ref], objects, Append(keys, v.ref)))

writes(vs, objects, keys) ==
    IF vs = <<>> THEN [bytes |-> <<>>, keys |-> keys]
    ELSE LET one == write(Head(vs), objects, keys)
             rest == writes(Tail(vs), objects, one.keys)
         IN  [rest EXCEPT !.bytes = one.bytes \o @]

(* The bytes the crc is taken of: data + 4 and vsize + 4 bytes on, that is *)
(* the size and the value without its last four bytes.                     *)
Covered(size, bytes) == <<size>> \o SubSeq(bytes, 1, size - 4)

(* serialize: the buffer holds vsize bytes; what write puts beyond them is *)
(* not part of it.                                                         *)
Serialize ==
    /\ outcome.at = "new"
    /\ LET vsize == calcSize(sample.v, sample.objects, <<>>).size
           bytes == write(sample.v, sample.objects, <<>>).bytes
       IN  buffer' = [size |-> vsize, bytes |-> SubSeq(bytes, 1, vsize), crc |-> Covered(vsize, bytes)]
    /\ outcome' = [outcome EXCEPT !.at = "serialized"]
    /\ UNCHANGED <<sample, damagedAt>>

(* One byte is not what it was. *)
Damage ==
    /\ outcome.at = "serialized" /\ damagedAt = 0
    /\ \E i \in 1 .. Len(buffer.bytes) :
         /\ buffer' = [buffer EXCEPT !.bytes[i] = (@ + 1) % 256]
         /\ damagedAt' = i
    /\ UNCHANGED <<sample, outcome>>

-----------------------------------------------------------------------------
(* Reading.  A state of the reader: the bytes left, whether all reads went *)
(* well, the value read last, and the objects of the keys met.             *)

Fails(r) == [r EXCEPT !.ok = FALSE]
Take(r, n, v) == [r EXCEPT !.bytes = SubSeq(@, n + 1, Len(@)), !.v = v]

(* The number in bytes i .. i + w - 1, numbers being below 2^31. *)
Number(b, i, w, signed) ==
    LET byte(k) == b[i + k - 1]
        top(k) == IF byte(k) > 127 THEN byte(k) - 256 ELSE byte(k)
    IN  CASE w = 1 -> IF signed THEN top(1) ELSE byte(1)
          [] w = 2 -> byte(1) + 256 * (IF signed THEN top(2) ELSE byte(2))
          [] OTHER -> byte(1) + 256 * byte(2) + 256^2 * byte(3) + 256^3 * top(4)

Unbitset(b, n) == [i \in 1 .. n |-> (b[(i - 1) \div 8 + 1] \div 2^((i - 1) % 8)) % 2]
UnpackDate(x) == <<x \div 10000, (x % 10000) \div 100, x % 100>>
IsDate(d) == d[1] \in 1400 .. 9999 /\ d[2] \in 1 .. 12 /\ d[3] \in 1 .. 31

Scalar(t, b) ==
    CASE t = "Date" -> UnpackDate(Number(b, 1, 4, FALSE))
      [] t = "Datetime" -> UnpackDate(Number(b, 1, 4, FALSE)) \o <<Number(b, 5, 8, TRUE)>>
      [] t = "Tm" -> [i \in 1 .. 9 |-> Number(b, 4 * i - 3, 4, TRUE)]
      [] t = "DateTimeDuration" -> <<Number(b, 1, 4, TRUE), Number(b, 5, 8, TRUE)>>
      [] t = "Uuid" -> SubSeq(b, 1, 16)
      [] t = "Bool" -> <<IF b[1] = 0 THEN 0 ELSE 1>>
      [] Bits(t) > 0 -> Unbitset(b, Bits(t))
      [] OTHER -> <<Number(b, 1, ScalarSize(t), t \in Signed)>>

ReadScalar(r, t) ==
    LET n == ScalarSize(t) IN
    IF Len(r.bytes) < n THEN Fails(r)
    ELSE LET x == Scalar(t, r.bytes) IN
         IF t \in {"Date", "Datetime"} /\ ~IsDate(x) THEN Fails(Take(r, n, r.v))
         ELSE Take(r, n, Value(t, x, <<>>, 0))

(* read(std::string &) and the case of VectorChar *)
ReadText(r, t) ==
    IF Len(r.bytes) < S THEN Fails(r)
    ELSE LET n == Number(r.bytes, 1, S, FALSE) IN
         IF n < 0 \/ Len(r.bytes) < S + n THEN Fails(Take(r, S, r.v))
         ELSE Take(r, S + n, Value(t, SubSeq(r.bytes, S + 1, S + n), <<>>, 0))

(* Where readSeq_insertable puts the element it reads: a new Variant() is  *)
(* inserted and then overwritten.  It sorts before everything in a set,    *)
(* unless it is there already.                                             *)
Inserted(t, kids, v) ==
    IF t \notin {"SetVariant", "MultisetVariant"} THEN Append(kids, v)
    ELSE IF t = "SetVariant" /\ kids # <<>> /\ kids[1] = Null("Void") THEN <<v>> \o Tail(kids)
    ELSE <<v>> \o kids

RECURSIVE read(_), ReadElements(_, _, _, _)

read(r) ==
    IF Len(r.bytes) < 2 THEN Fails(r)
    ELSE
    LET et == Number(r.bytes, 1, 2, TRUE)
        r1 == Take(r, 2, r.v)
        t == Types[IF et < 0 THEN -et ELSE et]
    IN  IF et = 0 \/ et > Len(Types) \/ -et > Len(Types) THEN Fails(r1)
        ELSE IF et < 0 THEN [r1 EXCEPT !.v = Null(t)]
        ELSE IF t = "Void" THEN [Fails(r1) EXCEPT !.v = Null(t)]
        ELSE IF t \in Strings THEN ReadText(r1, t)
        ELSE IF t \in Containers
        THEN IF Len(r1.bytes) < S THEN Fails(r1)
             ELSE LET n == Number(r1.bytes, 1, S, FALSE)
                  IN  ReadElements(Take(r1, S, r1.v), t, n, <<>>)
        ELSE IF t # "VariantPtr" THEN ReadScalar(r1, t)
        ELSE IF Len(r1.bytes) < 8 THEN Fails(r1)
        ELSE LET key == Number(r1.bytes, 1, 8, FALSE)
                 r2 == Take(r1, 8, Value(t, <<>>, <<>>, key))
             IN  IF key = 0 \/ key \in DOMAIN r2.objects THEN r2
                 ELSE LET in == read([r2 EXCEPT !.objects = Append(@, Null("Void"))])
                      IN  [in EXCEPT !.v = Value(t, <<>>, <<>>, key), !.objects[key] = in.v]

(* readSeq_indexable, readSeq_insertable and readMap: n elements or pairs  *)
(* are still to be read.                                                   *)
ReadElements(r, t, n, kids) ==
    IF n <= 0 THEN [r EXCEPT !.v = Value(t, <<>>, kids, 0)]
    ELSE IF t \notin Maps
    THEN LET e == read(r)
         IN  IF e.ok THEN ReadElements(e, t, n - 1, Inserted(t, kids, e.v)) ELSE e
    ELSE LET k == IF t \in StringMaps THEN ReadText(r, "Key") ELSE read(r)
             e == read(k)
         IN  IF k.ok /\ e.ok THEN ReadElements(e, t, n - 1, kids \o <<k.v, e.v>>) ELSE Fails(k)

(* deserialize: what read returns is not looked at, only whether it has    *)
(* come to the end.                                                        *)
Deserialize ==
    /\ outcome.at = "serialized"
    /\ LET r == read([bytes |-> buffer.bytes, ok |-> TRUE, v |-> Null("Void"), objects |-> <<>>])
           accepted == /\ Len(buffer.bytes) >= 2
                       /\ buffer.crc = Covered(buffer.size, buffer.bytes)
                       /\ r.bytes = <<>>
       IN  outcome' = [at |-> "done", ok |-> accepted,
                       v |-> IF accepted THEN r.v ELSE Null("Void"),
                       objects |-> IF accepted THEN r.objects ELSE <<>>]
    /\ UNCHANGED <<sample, buffer, damagedAt>>

SerialStart(s) ==
    /\ sample = s
    /\ buffer = [size |-> 0, bytes |-> <<>>, crc |-> <<>>]
    /\ damagedAt = 0
    /\ outcome = [at |-> "new", ok |-> FALSE, v |-> Null("Void"), objects |-> <<>>]

SerialInit == \E s \in Samples : SerialStart(s)
SerialNext == Serialize \/ Damage \/ Deserialize
SerialSpec == SerialInit /\ [][SerialNext]_serialVars

-----------------------------------------------------------------------------
(* Properties. *)

RECURSIVE Plain(_)
Plain(v) ==
    /\ v.t # "VariantPtr"
    /\ v.t \in {"SetVariant", "MultisetVariant"} => Len(v.kids) < 2
    /\ \A i \in DOMAIN v.kids : Plain(v.kids[i])

(* What deserialize makes of an undamaged buffer is the value that was     *)
(* serialized: calcSize, write and read agree on every type, null or not,  *)
(* nested or not.  Excepted are pointers (calcSize counts 4 bytes for a    *)
(* key of 8, so the buffer is too short) and sets of two or more elements  *)
(* (which come back in the opposite order).                                *)
RoundTrip ==
    outcome.at = "done" /\ damagedAt = 0 /\ Plain(sample.v) => outcome.ok /\ outcome.v = sample.v

(* A damaged byte is noticed, unless it is among the last four, which the  *)
(* crc does not cover.                                                     *)
DamageNoticed ==
    outcome.at = "done" /\ damagedAt \in 1 .. buffer.size - 4 => ~outcome.ok

(* deserialize undoes serialize, or refuses. *)
SerializationFaithful == RoundTrip /\ DamageNoticed

(* assert(_bufIter == _bufEnd) at the end of serialize: the value fills    *)
(* the buffer.                                                             *)
BufferExact ==
    Len(write(sample.v, sample.objects, <<>>).bytes) = calcSize(sample.v, sample.objects, <<>>).size
=============================================================================
