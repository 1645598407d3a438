--------------------------- MODULE VariantTypes ---------------------------
(***************************************************************************)
(* What a utils::Variant may hold (include/utils/variant.hpp).  A value is *)
(* its type, whether it is null, the numbers of a scalar (bits of a        *)
(* bitset, characters of a string), the elements of a container (keys and  *)
(* values of a map in turn) and the object a VariantPtr points to.         *)
(***************************************************************************)
EXTENDS Integers, Sequences

Types == <<"Void", "String", "Float", "Double", "Int8", "Int16", "Int32", "Int64",
           "UInt8", "UInt16", "UInt32", "UInt64", "VectorChar", "Date", "Datetime",
           "VectorVariant", "MapStringVariant", "Bool", "Tm", "Bitset8", "Bitset16",
           "Bitset32", "Bitset64", "Bitset128", "Bitset256", "Bitset512", "DateDuration",
           "TimeDuration", "DateTimeDuration", "MapVariantVariant",
           "MultimapStringVariant", "MultimapVariantVariant", "SetVariant",
           "MultisetVariant", "DequeVariant", "ListVariant", "Char", "Uuid", "VariantPtr">>
Et(t) == CHOOSE i \in DOMAIN Types : Types[i] = t

Strings == {"String", "VectorChar"}
StringMaps == {"MapStringVariant", "MultimapStringVariant"}
VariantMaps == {"MapVariantVariant", "MultimapVariantVariant"}
Insertable == {"SetVariant", "MultisetVariant", "ListVariant"}
Indexable == {"VectorVariant", "DequeVariant"}
Maps == StringMaps \cup VariantMaps
Containers == Maps \cup Insertable \cup Indexable
Signed == {"Int8", "Int16", "Int32", "Int64", "Tm", "DateDuration", "TimeDuration",
           "DateTimeDuration", "Datetime", "Char"}

Bits(t) ==
    CASE t = "Bitset8" -> 8 [] t = "Bitset16" -> 16 [] t = "Bitset32" -> 32
      [] t = "Bitset64" -> 64 [] t = "Bitset128" -> 128 [] t = "Bitset256" -> 256
      [] t = "Bitset512" -> 512 [] OTHER -> 0

Value(t, n, kids, ref) == [t |-> t, null |-> FALSE, n |-> n, kids |-> kids, ref |-> ref]
Null(t) == [t |-> t, null |-> TRUE, n |-> <<>>, kids |-> <<>>, ref |-> 0]
Undefined(t) == Value(t, <<>>, <<>>, 0)
One(t, x) == Value(t, <<x>>, <<>>, 0)

SignedInts == {"Int8", "Int16", "Int32", "Int64", "Char"}
UnsignedInts == {"UInt8", "UInt16", "UInt32", "UInt64"}
Reals == {"Float", "Double"}
Numeric == {"Bool"} \cup SignedInts \cup UnsignedInts \cup Reals
Bitsets == {t \in {Types[i] : i \in DOMAIN Types} : Bits(t) > 0}

(* T(): of a new value, and where lexical_cast throws. *)
Initial(t) ==
    CASE t \in Bitsets -> Value(t, [i \in 1 .. Bits(t) |-> 0], <<>>, 0)
      [] t = "Tm" -> Value(t, [i \in 1 .. 9 |-> 0], <<>>, 0)
      [] t = "DateTimeDuration" -> Value(t, <<0, 0>>, <<>>, 0)
      [] t \in Numeric \cup {"DateDuration", "TimeDuration"} -> One(t, 0)
      [] OTHER -> Undefined(t)   \* empty, or not_a_date_time

(* construct<T>() *)
Default(t) == IF t \in {"Tm", "Uuid"} THEN Undefined(t) ELSE IF t = "Void" THEN Null(t) ELSE Initial(t)
=============================================================================
