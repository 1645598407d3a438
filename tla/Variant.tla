------------------------------ MODULE Variant ------------------------------
(***************************************************************************)
(* utils::Variant as an object (src/utils/variantImpl.hpp, variant.cpp):   *)
(* _et is its type, negative for null, and _data holds the value itself,   *)
(* or a pointer to a block of its own for the types that are too large.    *)
(* Constructors, assignments, swap, setNull, setType, as and convert       *)
(* build, destroy and move the value; each is one action over two objects. *)
(*                                                                         *)
(* An assignment takes a reference, which may lead into the object itself: *)
(* to an element of the container it holds.  astray is history: an         *)
(* assignment read its source after the object had destroyed it.           *)
(***************************************************************************)
EXTENDS VariantTypes, FiniteSets

CONSTANTS Objects,      \* names of Variant objects
          BigTypes,     \* types with sizeof(T) > sizeof(_data)
          Contents,     \* values the program puts into them
          NewTypes,     \* arguments of setType, as and convert
          Variants,     \* values there are, with the elements of containers
          Converted(_, _)   \* what convert<T>() may make of a value, see VariantConvert

VARIABLES objects,  \* by name: alive, the value, its block or 0
          blocks,   \* blocks from new char[] that are not deleted
          meant,    \* history: what the object is meant to hold
          astray
variantVars == <<objects, blocks, meant, astray>>

Dead == [alive |-> FALSE, v |-> Null("Void"), block |-> 0]
MaxBlocks == Cardinality(Objects) + 1
Fresh(bs) == CHOOSE b \in 1 .. MaxBlocks : b \notin bs

(* An object and the heap, as the steps of an operation leave them. *)
Place(o) == [obj |-> objects[o], heap |-> blocks]

(* alloc and the placement new of construct. *)
construct(s, v) ==
    LET big == ~v.null /\ v.t \in BigTypes
        b == IF big THEN Fresh(s.heap) ELSE 0
    IN  [obj |-> [alive |-> TRUE, v |-> v, block |-> b],
         heap |-> IF big THEN s.heap \cup {b} ELSE s.heap]

(* destruct: ~T and free; the type stays, as null. *)
FreeForgotten(s) == [obj |-> [s.obj EXCEPT !.v = Null(@.t), !.block = 0], heap |-> s.heap]
destruct(s) == [obj |-> [s.obj EXCEPT !.v = Null(@.t), !.block = 0], heap |-> s.heap \ {s.obj.block}]

setNull(s, n) ==
    IF n THEN IF s.obj.v.null THEN s ELSE destruct(s)
    ELSE IF s.obj.v.null /\ s.obj.v.t # "Void" THEN construct(s, Default(s.obj.v.t)) ELSE s

setType(s, t) ==
    IF s.obj.v.t = t THEN s
    ELSE LET d == destruct(s) IN [d EXCEPT !.obj.v = Null(t)]

(* assign<T>: within the type T's own assignment, else a new value. *)
assign(s, v) ==
    IF s.obj.v.t = v.t THEN [setNull(s, FALSE) EXCEPT !.obj.v = v]
    ELSE construct(destruct(s), v)

(* assign<Variant>: for another type by a copy and swap. *)
assignVariant(s, v) ==
    IF v.t # s.obj.v.t
    THEN LET stub == construct([obj |-> Dead, heap |-> s.heap], v)
         IN  [obj |-> stub.obj, heap |-> stub.heap \ {s.obj.block}]
    ELSE IF v.null THEN setNull(s, TRUE)
    ELSE IF v.t = "Void" THEN destruct(s) ELSE assign(s, v)

Becomes(o, s, v) ==
    /\ objects' = [objects EXCEPT ![o] = s.obj]
    /\ blocks' = s.heap
    /\ meant' = [meant EXCEPT ![o] = v]

(* A value that is null is nothing else, and the elements of a value are   *)
(* values too; T's own assignment takes no null; whatever becomes of a     *)
(* value is one.                                                           *)
ASSUME VariantAssumption ==
    /\ IsFiniteSet(Objects)
    /\ \A v \in Variants :
         /\ v.null => v = Null(v.t)
         /\ v.t = "Void" => v.null
         /\ v.kids \in Seq(Variants)
         /\ {Null(v.t), Default(v.t)} \subseteq Variants
    /\ \A t \in NewTypes \cup {"Void", "String"} : {Null(t), Default(t)} \subseteq Variants
    /\ \A v \in Contents : v \in Variants /\ ~v.null
    /\ \A t \in NewTypes \ {"Void"}, v \in Variants :
         v.t # t => \A w \in Converted(t, v) : w \in Variants /\ ~w.null

-----------------------------------------------------------------------------
(* Constructors: from nothing, a value or another Variant.  A const char * *)
(* of NULL makes a null String.                                            *)
Create(o) ==
    /\ ~objects[o].alive
    /\ \E v \in Contents \cup {Null("Void"), Null("String")} \cup {objects[p].v : p \in Objects} :
         Becomes(o, construct(Place(o), v), v)
    /\ UNCHANGED astray

Destroy(o) ==
    /\ objects[o].alive
    /\ LET d == destruct(Place(o)) IN Becomes(o, [d EXCEPT !.obj = Dead], Null("Void"))
    /\ UNCHANGED astray

(* operator =(const T &), of a value from outside or of an element: the    *)
(* object destroys the container and copies from it then.                  *)
AssignValue(o) ==
    /\ objects[o].alive
    /\ \/ \E v \in Contents : Becomes(o, assign(Place(o), v), v) /\ UNCHANGED astray
       \/ \E i \in DOMAIN objects[o].v.kids :
            LET v == objects[o].v.kids[i] IN
            /\ ~v.null /\ v.t # "Key"
            /\ Becomes(o, assign(Place(o), v), v)
            /\ astray' = TRUE

(* operator =(const Variant &), of another object, itself or an element,   *)
(* which a container of the element's type overwrites as it reads it.      *)
AssignVariant(o) ==
    /\ objects[o].alive
    /\ \/ \E p \in Objects :
            /\ objects[p].alive
            /\ Becomes(o, assignVariant(Place(o), objects[p].v), objects[p].v)
            /\ UNCHANGED astray
       \/ \E i \in DOMAIN objects[o].v.kids :
            LET v == objects[o].v.kids[i] IN
            /\ v.t # "Key"
            /\ Becomes(o, assignVariant(Place(o), v), v)
            /\ astray' = (astray \/ (v.t = objects[o].v.t /\ ~v.null))

(* operator = from a C string: NULL where the object is no String yet. *)
AssignChars(o) ==
    /\ objects[o].alive
    /\ \/ \E v \in Contents : v.t = "String" /\ Becomes(o, assign(Place(o), v), v)
       \/ objects[o].v.t # "String" /\ Becomes(o, construct(destruct(Place(o)), Null("String")), Null("String"))
    /\ UNCHANGED astray

(* swap: the bytes change places. *)
Swap(o, p) ==
    /\ objects[o].alive /\ objects[p].alive /\ o # p
    /\ objects' = [objects EXCEPT ![o] = objects[p], ![p] = objects[o]]
    /\ meant' = [meant EXCEPT ![o] = meant[p], ![p] = meant[o]]
    /\ UNCHANGED <<blocks, astray>>

(* setNull(n) *)
SetNull(o) ==
    /\ objects[o].alive
    /\ \E n \in BOOLEAN :
         LET s == setNull(Place(o), n)
         IN  Becomes(o, s, IF n THEN Null(meant[o].t) ELSE IF meant[o].null THEN Default(meant[o].t) ELSE meant[o])
    /\ UNCHANGED astray

(* setType, setNull<T>(n) and as<T>(true). *)
SetType(o) ==
    /\ objects[o].alive
    /\ \E t \in NewTypes :
         LET s == setType(Place(o), t)
             kept == IF meant[o].t = t THEN meant[o] ELSE Null(t)
         IN  \/ Becomes(o, s, kept)
             \/ Becomes(o, setNull(s, TRUE), Null(t))
             \/ Becomes(o, setNull(s, FALSE), IF kept.null THEN Default(t) ELSE kept)
    /\ UNCHANGED astray

(* convert<T>() *)
Convert(o) ==
    /\ objects[o].alive
    /\ \E t \in NewTypes \ {"Void", objects[o].v.t} :
         \E v \in Converted(t, objects[o].v) : Becomes(o, assign(Place(o), v), v)
    /\ UNCHANGED astray

(* convert(EType): the case of etVoid goes on into that of etString. *)
ConvertToVoid(o) ==
    /\ objects[o].alive
    /\ LET s == setType(Place(o), "Void")
           text == Value("String", <<>>, <<>>, 0)
       IN  Becomes(o, assign(s, text), text)
    /\ UNCHANGED astray

(* operator[], by key or index, into another object; containerDereference  *)
(* gives null for what is not there.                                       *)
At(v, k) ==
    IF v.null THEN Null("Void")
    ELSE IF v.t \in Indexable THEN IF k < Len(v.kids) THEN v.kids[k + 1] ELSE Null("Void")
    ELSE IF k < Len(v.kids) \div 2 THEN v.kids[2 * k + 2] ELSE Null("Void")

Dereference(o, p) ==
    /\ objects[o].alive /\ objects[p].alive /\ o # p
    /\ objects[o].v.t \in Indexable \cup Maps
    /\ \E k \in 0 .. 1 : LET v == At(objects[o].v, k) IN Becomes(p, assignVariant(Place(p), v), v)
    /\ UNCHANGED astray

VariantInit ==
    /\ objects = [o \in Objects |-> Dead]
    /\ blocks = {}
    /\ meant = [o \in Objects |-> Null("Void")]
    /\ astray = FALSE

VariantNext ==
    \E o \in Objects :
      \/ Create(o) \/ Destroy(o) \/ AssignValue(o) \/ AssignVariant(o) \/ AssignChars(o)
      \/ SetNull(o) \/ SetType(o) \/ Convert(o) \/ ConvertToVoid(o)
      \/ \E p \in Objects : Swap(o, p) \/ Dereference(o, p)

VariantSpec == VariantInit /\ [][VariantNext]_variantVars

-----------------------------------------------------------------------------
(* Properties. *)

(* Whatever the order of operations, every block belongs to one object,    *)
(* which holds a value too large for it, and no such value is without its  *)
(* block: none leaks, none is deleted twice or shared by a copy or a swap. *)
BlocksOwned ==
    /\ \A o \in Objects : objects[o].block # 0 <=> ~objects[o].v.null /\ objects[o].v.t \in BigTypes
    /\ \A o, p \in Objects : objects[o].block = objects[p].block /\ objects[o].block # 0 => o = p
    /\ blocks = {objects[o].block : o \in Objects} \ {0}

(* An object holds what its last operation says, a copy of what it was     *)
(* given, unless an assignment has read a value it had destroyed.          *)
HoldsWhatIsMeant == ~astray => \A o \in Objects : objects[o].v = meant[o]

(* A Variant is a sound object: it owns its memory and holds what it is    *)
(* given.                                                                  *)
VariantSound == BlocksOwned /\ HoldsWhatIsMeant
=============================================================================
