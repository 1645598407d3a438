---------------------------- MODULE Event_proofs ----------------------------
(* Proofs about events (Event) and futures (Future).                       *)
EXTENDS MCEvent, FiniteSetTheorems, SequenceTheorems, WellFoundedInduction, TLAPS

-----------------------------------------------------------------------------
(* The operators on waiter lists and event lists. *)

Once(s) == \A i, j \in 1 .. Len(s) : s[i] = s[j] => i = j

LEMMA ElementsIn ==
  ASSUME NEW S, NEW s \in Seq(S)
  PROVE  Elements(s) \subseteq S
BY DEF Elements

LEMMA AppendElement ==
  ASSUME NEW S, NEW s \in Seq(S), NEW x \in S
  PROVE  /\ Append(s, x) \in Seq(S)
         /\ Elements(Append(s, x)) = Elements(s) \cup {x}
         /\ Once(s) /\ x \notin Elements(s) => Once(Append(s, x))
<1>1. /\ Append(s, x) \in Seq(S) /\ Len(Append(s, x)) = Len(s) + 1 /\ Len(s) \in Nat
      /\ \A i \in 1 .. Len(s) + 1 : Append(s, x)[i] = IF i <= Len(s) THEN s[i] ELSE x
  OBVIOUS
<1>2. Elements(Append(s, x)) = Elements(s) \cup {x}
  BY <1>1 DEF Elements
<1>3. Once(s) /\ x \notin Elements(s) => Once(Append(s, x))
  BY <1>1 DEF Elements, Once
<1> QED BY <1>1, <1>2, <1>3

LEMMA TailElements ==
  ASSUME NEW S, NEW s \in Seq(S), s # <<>>
  PROVE  /\ Head(s) \in S /\ Tail(s) \in Seq(S)
         /\ Head(s) \in Elements(s)
         /\ Elements(s) = {Head(s)} \cup Elements(Tail(s))
         /\ Once(s) => Once(Tail(s)) /\ Head(s) \notin Elements(Tail(s))
<1>1. /\ Head(s) \in S /\ Tail(s) \in Seq(S) /\ Len(Tail(s)) = Len(s) - 1 /\ Len(s) \in Nat \ {0}
      /\ Head(s) = s[1]
      /\ \A i \in 1 .. Len(s) - 1 : Tail(s)[i] = s[i + 1]
  BY HeadTailProperties, EmptySeq
<1>2. Head(s) \in Elements(s)
  BY <1>1 DEF Elements
<1>3. Elements(s) \subseteq {Head(s)} \cup Elements(Tail(s))
  <2> SUFFICES ASSUME NEW i \in 1 .. Len(s), i # 1 PROVE s[i] \in Elements(Tail(s))
    BY <1>1 DEF Elements
  <2>1. i - 1 \in 1 .. Len(Tail(s)) /\ Tail(s)[i - 1] = s[i]
    BY <1>1
  <2> QED BY <2>1 DEF Elements
<1>4. Elements(Tail(s)) \subseteq Elements(s)
  BY <1>1 DEF Elements
<1>5. Once(s) => Once(Tail(s)) /\ Head(s) \notin Elements(Tail(s))
  <2> SUFFICES ASSUME Once(s) PROVE Once(Tail(s)) /\ Head(s) \notin Elements(Tail(s))
    OBVIOUS
  <2>1. \A i \in 1 .. Len(Tail(s)) : i + 1 \in 1 .. Len(s) /\ i + 1 # 1 /\ Tail(s)[i] = s[i + 1]
    BY <1>1
  <2> QED BY <1>1, <2>1 DEF Once, Elements
<1> QED BY <1>1, <1>2, <1>3, <1>4, <1>5

(* Erased takes the only occurrence out. *)
LEMMA ErasedElement ==
  ASSUME NEW S, NEW s \in Seq(S), NEW x, Once(s)
  PROVE  /\ Erased(s, x) \in Seq(S)
         /\ Elements(Erased(s, x)) = Elements(s) \ {x}
         /\ Once(Erased(s, x))
<1>1. CASE x \notin Elements(s)
  BY <1>1 DEF Erased
<1>2. CASE x \in Elements(s)
  <2> DEFINE p == Position(s, x)
             a == SubSeq(s, 1, p - 1)
             b == SubSeq(s, p + 1, Len(s))
  <2>1. p \in 1 .. Len(s) /\ s[p] = x
    BY <1>2 DEF Position, Elements
  <2>2. Len(s) \in Nat /\ \A i \in 1 .. Len(s) : s[i] \in S
    OBVIOUS
  <2> HIDE DEF p
  <2>3. /\ a \in Seq(S) /\ Len(a) = p - 1 /\ \A i \in 1 .. p - 1 : a[i] = s[i]
    BY <2>1, <2>2, SubSeqProperties
  <2>4. /\ b \in Seq(S) /\ Len(b) = Len(s) - p /\ \A i \in 1 .. Len(s) - p : b[i] = s[p + i]
    BY <2>1, <2>2, SubSeqProperties
  <2> HIDE DEF a, b
  <2>5. /\ a \o b \in Seq(S) /\ Len(a \o b) = Len(s) - 1
        /\ \A i \in 1 .. Len(s) - 1 : (a \o b)[i] = IF i < p THEN s[i] ELSE s[i + 1]
    <3>1. /\ a \o b \in Seq(S) /\ Len(a \o b) = Len(a) + Len(b)
          /\ \A i \in 1 .. Len(a) + Len(b) : (a \o b)[i] = IF i <= Len(a) THEN a[i] ELSE b[i - Len(a)]
      BY <2>3, <2>4, ConcatProperties
    <3>2. Len(a) + Len(b) = Len(s) - 1
      BY <2>1, <2>2, <2>3, <2>4
    <3>3. ASSUME NEW i \in 1 .. Len(s) - 1
          PROVE  (a \o b)[i] = IF i < p THEN s[i] ELSE s[i + 1]
      <4>1. CASE i < p
        BY <4>1, <3>1, <3>2, <2>1, <2>2, <2>3
      <4>2. CASE ~(i < p)
        <5>1. (a \o b)[i] = b[i - (p - 1)] /\ i - (p - 1) \in 1 .. Len(s) - p
          BY <4>2, <3>1, <3>2, <2>1, <2>2, <2>3
        <5>2. p + (i - (p - 1)) = i + 1
          BY <2>1, <2>2
        <5> QED BY <4>2, <5>1, <5>2, <2>4
      <4> QED BY <4>1, <4>2
    <3> QED BY <3>1, <3>2, <3>3
  <2>6. Erased(s, x) = a \o b
    BY <1>2 DEF Erased, a, b, p
  <2> DEFINE c == a \o b
  <2> HIDE DEF c
  <2>7. c \in Seq(S) /\ Len(c) = Len(s) - 1
        /\ \A i \in 1 .. Len(s) - 1 : c[i] = IF i < p THEN s[i] ELSE s[i + 1]
    BY <2>5 DEF c
  <2>8. Elements(c) \subseteq Elements(s) \ {x}
    BY <2>1, <2>2, <2>7 DEF Elements, Once
  <2>9. Elements(s) \ {x} \subseteq Elements(c)
    <3> SUFFICES ASSUME NEW i \in 1 .. Len(s), i # p PROVE s[i] \in Elements(c)
      BY <2>1 DEF Elements
    <3>1. CASE i < p
      BY <3>1, <2>1, <2>2, <2>7 DEF Elements
    <3>2. CASE i > p
      <4>1. i - 1 \in 1 .. Len(c) /\ c[i - 1] = s[i]
        BY <3>2, <2>1, <2>2, <2>7
      <4> QED BY <4>1 DEF Elements
    <3> QED BY <3>1, <3>2, <2>1
  <2>10. Once(c)
    BY <2>1, <2>2, <2>7 DEF Once
  <2> QED BY <2>6, <2>7, <2>8, <2>9, <2>10 DEF c
<1> QED BY <1>1, <1>2

LEMMA TimesOnce ==
  ASSUME NEW S, NEW s \in Seq(S), NEW x, Once(s)
  PROVE  Times(x, s) = IF x \in Elements(s) THEN 1 ELSE 0
<1> DEFINE T == {i \in 1 .. Len(s) : s[i] = x}
<1>1. CASE x \in Elements(s)
  <2> PICK i \in 1 .. Len(s) : s[i] = x
    BY <1>1 DEF Elements
  <2>1. T = {i}
    BY DEF Once
  <2>2. Cardinality({i}) = 1
    BY FS_Singleton
  <2> QED BY <1>1, <2>1, <2>2 DEF Times
<1>2. CASE x \notin Elements(s)
  <2>1. T = {}
    BY <1>2 DEF Elements
  <2> QED BY <1>2, <2>1, FS_EmptySet DEF Times
<1> QED BY <1>1, <1>2

(* The events not reported yet: without the one just found, in some order. *)
LEMMA RemainingElements ==
  ASSUME NEW S, NEW l \in Seq(S), Once(l), NEW e \in Elements(l)
  PROVE  /\ Remaining(l, e) \in Seq(S)
         /\ Once(Remaining(l, e))
         /\ Elements(Remaining(l, e)) = Elements(l) \ {e}
<1> DEFINE r == [i \in 1 .. Len(l) |-> IF i = 1 THEN e ELSE IF l[i] = e THEN l[1] ELSE l[i]]
<1>1. PICK k \in 1 .. Len(l) : l[k] = e
  BY DEF Elements
<1>2. Len(l) \in Nat /\ \A i \in 1 .. Len(l) : l[i] \in S
  OBVIOUS
<1>3. r \in Seq(S) /\ Len(r) = Len(l) /\ r # <<>>
  <2>1. r \in [1 .. Len(l) -> S]
    BY <1>1, <1>2
  <2>2. r \in Seq(S)
    BY <2>1, <1>2, SeqDef
  <2> QED BY <1>1, <2>2
<1>4. \A i \in 1 .. Len(l) : r[i] = IF i = 1 THEN l[k] ELSE IF i = k THEN l[1] ELSE l[i]
  BY <1>1, <1>2 DEF Once
<1> HIDE DEF r
<1>5. Once(r)
  BY <1>1, <1>2, <1>3, <1>4 DEF Once
<1>6. Elements(r) = Elements(l)
  <2>1. Elements(r) \subseteq Elements(l)
    BY <1>1, <1>2, <1>3, <1>4 DEF Elements
  <2>2. ASSUME NEW i \in 1 .. Len(l) PROVE l[i] \in Elements(r)
    <3>1. \E j \in 1 .. Len(l) : r[j] = l[i]
      <4>1. CASE i = 1
        <5>1. r[k] = l[i]
          BY <4>1, <1>1, <1>2, <1>4
        <5> QED BY <5>1
      <4>2. CASE i = k
        <5>1. 1 \in 1 .. Len(l) /\ r[1] = l[i]
          BY <4>2, <1>1, <1>2, <1>4
        <5> QED BY <5>1
      <4>3. CASE i # 1 /\ i # k
        BY <4>3, <1>4
      <4> QED BY <4>1, <4>2, <4>3
    <3> QED BY <3>1, <1>3 DEF Elements
  <2> QED BY <2>1, <2>2 DEF Elements
<1>7. Head(r) = e
  BY <1>1, <1>2, <1>3, <1>4
<1>8. /\ Tail(r) \in Seq(S)
      /\ Elements(r) = {Head(r)} \cup Elements(Tail(r))
      /\ Once(Tail(r)) /\ Head(r) \notin Elements(Tail(r))
  BY <1>3, <1>5, TailElements
<1>9. Remaining(l, e) = Tail(r)
  BY DEF Remaining, r
<1> QED BY <1>6, <1>7, <1>8, <1>9

LEMMA PassedGrows ==
  ASSUME NEW S, NEW l \in Seq(S), NEW n \in Nat, n < Len(l)
  PROVE  /\ Elements(SubSeq(l, 1, n + 1)) = Elements(SubSeq(l, 1, n)) \cup {l[n + 1]}
         /\ Once(l) => l[n + 1] \notin Elements(SubSeq(l, 1, n))
<1>1. Len(l) \in Nat /\ \A i \in 1 .. Len(l) : l[i] \in S
  OBVIOUS
<1> DEFINE a == SubSeq(l, 1, n)
           b == SubSeq(l, 1, n + 1)
<1>2. Len(a) = n /\ \A i \in 1 .. n : a[i] = l[i]
  BY <1>1, SubSeqProperties
<1>3. Len(b) = n + 1 /\ \A i \in 1 .. n + 1 : b[i] = l[i]
  BY <1>1, SubSeqProperties
<1> HIDE DEF a, b
<1>4. Elements(b) = Elements(a) \cup {l[n + 1]}
  BY <1>2, <1>3 DEF Elements
<1>5. Once(l) => l[n + 1] \notin Elements(a)
  <2>1. n + 1 \in 1 .. Len(l) /\ \A i \in 1 .. n : i \in 1 .. Len(l) /\ i # n + 1
    BY <1>1
  <2> QED BY <1>2, <2>1 DEF Elements, Once
<1> QED BY <1>4, <1>5 DEF a, b

(* t is what is left of l to do; the first of it is done, or passed. *)
RestOf(t, l) ==
    /\ t # <<>> /\ Len(t) <= Len(l)
    /\ \A i \in 1 .. Len(t) : t[i] = l[Len(l) - Len(t) + i]

LEMMA RestStep ==
  ASSUME NEW S, NEW t \in Seq(S), NEW l \in Seq(S), RestOf(t, l)
  PROVE  LET n == Len(l) - Len(t)
         IN  /\ Head(t) \in S /\ Head(t) \in Elements(l)
             /\ SubSeq(l, 1, n) \in Seq(S)
             /\ SubSeq(l, 1, Len(l) - Len(Tail(t))) = SubSeq(l, 1, n + 1)
             /\ Elements(SubSeq(l, 1, n + 1)) = Elements(SubSeq(l, 1, n)) \cup {Head(t)}
             /\ Once(l) => Head(t) \notin Elements(SubSeq(l, 1, n))
             /\ Tail(t) \in Seq(S)
             /\ Len(t) > 1 => RestOf(Tail(t), l)
             /\ ~(Len(t) > 1) => SubSeq(l, 1, n + 1) = l
<1> DEFINE n == Len(l) - Len(t)
<1>1. Len(t) \in Nat \ {0} /\ Len(l) \in Nat /\ Len(t) <= Len(l)
  BY EmptySeq DEF RestOf
<1>2. n \in Nat /\ n < Len(l) /\ n + 1 \in 1 .. Len(l)
  BY <1>1
<1>3. Head(t) = l[n + 1] /\ Head(t) \in S
  <2>1. Head(t) = t[1] /\ 1 \in 1 .. Len(t) /\ t[1] \in S
    BY <1>1
  <2> QED BY <2>1 DEF RestOf
<1>4. Head(t) \in Elements(l)
  BY <1>2, <1>3 DEF Elements
<1>5. /\ Tail(t) \in Seq(S) /\ Len(Tail(t)) = Len(t) - 1
      /\ \A i \in 1 .. Len(t) - 1 : Tail(t)[i] = t[i + 1]
  <2>1. t # <<>>
    BY DEF RestOf
  <2> QED BY <2>1, HeadTailProperties
<1>6. Len(l) - Len(Tail(t)) = n + 1
  BY <1>1, <1>5
<1>7. SubSeq(l, 1, n) \in Seq(S)
  <2>1. \A i \in 1 .. n : l[i] \in S
    BY <1>1, <1>2
  <2> QED BY <1>2, <2>1, SubSeqProperties
<1>8. /\ Elements(SubSeq(l, 1, n + 1)) = Elements(SubSeq(l, 1, n)) \cup {Head(t)}
      /\ Once(l) => Head(t) \notin Elements(SubSeq(l, 1, n))
  <2> HIDE DEF n
  <2> QED BY <1>2, <1>3, PassedGrows
<1>9. ASSUME Len(t) > 1 PROVE RestOf(Tail(t), l)
  <2>1. Tail(t) # <<>> /\ Len(Tail(t)) <= Len(l)
    <3>1. Len(Tail(t)) > 0 /\ Len(Tail(t)) <= Len(l)
      BY <1>1, <1>5, <1>9
    <3> DEFINE u == Tail(t)
    <3> HIDE DEF u
    <3>2. Len(u) > 0 => u # <<>>
      OBVIOUS
    <3> QED BY <3>1, <3>2 DEF u
  <2>2. ASSUME NEW i \in 1 .. Len(Tail(t)) PROVE Tail(t)[i] = l[Len(l) - Len(Tail(t)) + i]
    <3>1. Tail(t)[i] = t[i + 1] /\ i + 1 \in 1 .. Len(t)
      BY <1>1, <1>5
    <3>2. t[i + 1] = l[n + (i + 1)]
      BY <3>1 DEF RestOf
    <3>3. n + (i + 1) = Len(l) - Len(Tail(t)) + i
      BY <1>1, <1>5
    <3> QED BY <3>1, <3>2, <3>3
  <2> QED BY <2>1, <2>2 DEF RestOf
<1>10. ASSUME ~(Len(t) > 1) PROVE SubSeq(l, 1, n + 1) = l
  <2>1. n + 1 = Len(l)
    BY <1>1, <1>10
  <2> QED BY <2>1, SubSeqFull
<1> QED BY <1>3, <1>4, <1>5, <1>6, <1>7, <1>8, <1>9, <1>10

LEMMA EmptyElements == Elements(<<>>) = {} /\ Once(<<>>)
BY DEF Elements, Once

-----------------------------------------------------------------------------
(* The invariant of events. *)

(* The fiber in set holds its event, the fiber that registers holds its    *)
(* notifier, nobody else holds a mutex across steps.                       *)
LocksHeld ==
    /\ \A e \in Events, f \in Fibers : evLock[e] = f <=> pc[f] = "notify" /\ ev[f] = e
    /\ \A f \in Fibers : pmnLock[f] <=> pc[f] = "register"
    /\ \A f \in Fibers : pc[f] \in {"notify", "wait"} => ev[f] \in Events
    /\ \A e \in AutoReset : evLock[e] # None => ~isSet[e]

(* A notifier has a key once an event of its list was found or came. *)
KeysChosen ==
    \A f \in Fibers :
        /\ readyKey[f] # None => pc[f] \in {"waitAny", "cancel"} /\ readyKey[f] \in Elements(list[f])
        /\ pc[f] = "cancel" => readyKey[f] # None

ListsDistinct ==
    /\ \A e \in Events : Once(waiters[e]) /\ Once(mnWaiters[e])
    /\ \A f \in Fibers : Once(list[f])

OnWaiters ==
    \A f \in Fibers, e \in Events :
        f \in Elements(waiters[e]) <=> pc[f] = "wait" /\ wakes[f] = 0 /\ ev[f] = e

(* What waitAny has passed, and that the rest is what it has yet to do. *)
Passed(f) == SubSeq(list[f], 1, Len(list[f]) - Len(todo[f]))
Registering ==
    \A f \in Fibers : pc[f] = "register" => RestOf(todo[f], list[f])

(* The events that hold a notifier, at each point of its waitAny. *)
OnNotifiers ==
    \A f \in Fibers, e \in Events :
        /\ pc[f] \in {"run", "notify", "wait"} => f \notin Elements(mnWaiters[e])
        /\ pc[f] = "register" => (f \in Elements(mnWaiters[e]) <=> e \in Elements(Passed(f)))
        /\ pc[f] = "waitAny" /\ readyKey[f] = None =>
              (f \in Elements(mnWaiters[e]) <=> e \in Elements(list[f]))
        /\ pc[f] = "waitAny" /\ readyKey[f] # None =>
              (f \in Elements(mnWaiters[e]) => e \in Elements(list[f]) \ {readyKey[f]})
        /\ pc[f] = "cancel" => (f \in Elements(mnWaiters[e]) => e \in Elements(todo[f]))

(* A signal that is kept or being given was counted. *)
SignalsCounted ==
    \A e \in AutoReset : isSet[e] \/ evLock[e] # None => sets[e] > 0

EventInv ==
    /\ TypeOK /\ LocksHeld /\ KeysChosen /\ ListsDistinct /\ OnWaiters
    /\ Registering /\ OnNotifiers /\ SignalsCounted
    /\ SetMeansNoWaiters /\ WokenOncePerWait /\ SignalConserved

LEMMA EventStarts == Init => EventInv
<1> SUFFICES ASSUME Init PROVE EventInv
  OBVIOUS
<1> USE EventAssumption
<1>1. TypeOK
  BY DEF Init, TypeOK, PC
<1>2. LocksHeld /\ KeysChosen /\ Registering /\ SignalsCounted /\ WokenOncePerWait
  BY DEF Init, LocksHeld, KeysChosen, Registering, SignalsCounted, WokenOncePerWait
<1>3. ListsDistinct /\ OnWaiters /\ OnNotifiers
  BY EmptyElements DEF Init, ListsDistinct, OnWaiters, OnNotifiers
<1>4. SetMeansNoWaiters
  BY DEF Init, SetMeansNoWaiters
<1>5. SignalConserved
  <2>1. \A e \in Events : OnTheWay(e) = {}
    BY DEF Init, OnTheWay
  <2>2. \A e \in Events : Cardinality(OnTheWay(e)) = 0
    BY <2>1, FS_EmptySet
  <2> QED BY <2>2 DEF Init, SignalConserved
<1> QED BY <1>1, <1>2, <1>3, <1>4, <1>5 DEF EventInv

(* How many fibers a signal is on its way to. *)
LEMMA WayCount ==
  ASSUME NEW e
  PROVE  /\ Cardinality(OnTheWay(e)) \in Nat
         /\ \A f \in Fibers : f \notin OnTheWay(e) =>
                Cardinality(OnTheWay(e) \cup {f}) = Cardinality(OnTheWay(e)) + 1
         /\ \A f \in OnTheWay(e) :
                Cardinality(OnTheWay(e) \ {f}) = Cardinality(OnTheWay(e)) - 1
         /\ \A f \in OnTheWay(e), g \in Fibers : g \notin OnTheWay(e) =>
                Cardinality((OnTheWay(e) \ {f}) \cup {g}) = Cardinality(OnTheWay(e))
<1> DEFINE O == OnTheWay(e)
<1>1. O \in SUBSET Fibers
  BY DEF OnTheWay
<1> HIDE DEF O
<1>2. IsFiniteSet(O)
  BY <1>1, EventAssumption, FS_Subset
<1>3. Cardinality(O) \in Nat
  BY <1>2, FS_CardinalityType
<1>4. \A f : f \notin O => Cardinality(O \cup {f}) = Cardinality(O) + 1
  BY <1>2, FS_AddElement
<1>5. \A f \in O : IsFiniteSet(O \ {f}) /\ Cardinality(O \ {f}) = Cardinality(O) - 1
  BY <1>2, FS_RemoveElement
<1>6. ASSUME NEW f \in O, NEW g \in Fibers, g \notin O
      PROVE  Cardinality((O \ {f}) \cup {g}) = Cardinality(O)
  <2>1. g \notin O \ {f}
    BY <1>6
  <2>2. Cardinality((O \ {f}) \cup {g}) = Cardinality(O \ {f}) + 1
    BY <1>5, <2>1, FS_AddElement
  <2> QED BY <1>3, <1>5, <2>2
<1> QED BY <1>3, <1>4, <1>5, <1>6 DEF O

-----------------------------------------------------------------------------
(* Each step keeps the invariant. *)

LEMMA SetBeginKeeps ==
  ASSUME EventInv, NEW f \in Fibers, NEW e \in Events, SetBegin(f, e)
  PROVE  EventInv'
<1> USE EventAssumption DEF EventInv, SetBegin, Goto
<1>1. TypeOK'
  BY DEF TypeOK, PC
<1>2. LocksHeld'
  BY DEF LocksHeld, TypeOK
<1>3. KeysChosen' /\ Registering'
  BY DEF KeysChosen, Registering, TypeOK
<1>4. ListsDistinct'
  BY DEF ListsDistinct
<1>5. OnWaiters'
  BY DEF OnWaiters, TypeOK
<1>6. OnNotifiers'
  BY DEF OnNotifiers, Passed, TypeOK
<1>7. SignalsCounted'
  BY DEF SignalsCounted, TypeOK
<1>8. SetMeansNoWaiters'
  BY DEF SetMeansNoWaiters, TypeOK
<1>9. WokenOncePerWait'
  BY DEF WokenOncePerWait, TypeOK
<1>10. SignalConserved'
  <2> SUFFICES ASSUME NEW d \in AutoReset \ Broadcast
               PROVE  sets'[d] = taken'[d] + Cardinality(OnTheWay(d)') + (IF isSet'[d] THEN 1 ELSE 0)
    BY DEF SignalConserved
  <2>1. sets[d] = taken[d] + Cardinality(OnTheWay(d)) + (IF isSet[d] THEN 1 ELSE 0)
    BY DEF SignalConserved
  <2>2. Cardinality(OnTheWay(d)) \in Nat /\ taken[d] \in Nat /\ sets[d] \in Nat /\ d \in Events
    BY WayCount DEF TypeOK
  <2>3. f \notin OnTheWay(d)
    BY DEF OnTheWay
  <2>4. CASE d = e
    <3>1. OnTheWay(d)' = OnTheWay(d) \cup {f}
      BY <2>4 DEF OnTheWay, TypeOK
    <3>2. sets'[d] = sets[d] + 1 /\ taken'[d] = taken[d] /\ ~isSet[d] /\ ~isSet'[d]
      BY <2>2, <2>4 DEF TypeOK
    <3>3. Cardinality(OnTheWay(d)') = Cardinality(OnTheWay(d)) + 1
      BY <2>3, <3>1, WayCount
    <3> HIDE DEF SetBegin, EventInv
    <3> QED BY <2>1, <2>2, <3>2, <3>3
  <2>5. CASE d # e
    <3>1. OnTheWay(d)' = OnTheWay(d)
      BY <2>5 DEF OnTheWay, TypeOK
    <3>2. sets'[d] = sets[d] /\ taken'[d] = taken[d] /\ isSet'[d] = isSet[d]
      BY <2>2, <2>5 DEF TypeOK
    <3> QED BY <2>1, <3>1, <3>2
  <2> QED BY <2>4, <2>5
<1> QED BY <1>1, <1>2, <1>3, <1>4, <1>5, <1>6, <1>7, <1>8, <1>9, <1>10 DEF EventInv

LEMMA ResetKeeps ==
  ASSUME EventInv, NEW f \in Fibers, NEW e \in Events, Reset(f, e)
  PROVE  EventInv'
<1> USE EventAssumption DEF EventInv, Reset
<1>1. TypeOK'
  <2>1. e \in AutoReset => sets[e] > 0
    BY DEF SignalsCounted
  <2>2. sets[e] - (IF e \in AutoReset THEN 1 ELSE 0) \in Nat
    BY <2>1 DEF TypeOK
  <2> QED BY <2>2 DEF TypeOK
<1>2. LocksHeld' /\ KeysChosen' /\ Registering' /\ ListsDistinct' /\ WokenOncePerWait' /\ OnWaiters'
  BY DEF LocksHeld, KeysChosen, Registering, ListsDistinct, WokenOncePerWait, OnWaiters, TypeOK
<1>3. OnNotifiers'
  BY DEF OnNotifiers, Passed
<1>4. SignalsCounted'
  BY DEF SignalsCounted, TypeOK
<1>5. SetMeansNoWaiters'
  BY DEF SetMeansNoWaiters, TypeOK
<1>6. SignalConserved'
  <2> SUFFICES ASSUME NEW d \in AutoReset \ Broadcast
               PROVE  sets'[d] = taken'[d] + Cardinality(OnTheWay(d)') + (IF isSet'[d] THEN 1 ELSE 0)
    BY DEF SignalConserved
  <2>1. sets[d] = taken[d] + Cardinality(OnTheWay(d)) + (IF isSet[d] THEN 1 ELSE 0)
    BY DEF SignalConserved
  <2>2. Cardinality(OnTheWay(d)) \in Nat /\ taken[d] \in Nat /\ sets[d] \in Nat /\ d \in Events
    BY WayCount DEF TypeOK
  <2>3. OnTheWay(d)' = OnTheWay(d) /\ taken' = taken
    BY DEF OnTheWay
  <2>4. CASE d = e
    <3>1. sets'[d] = sets[d] - 1 /\ isSet[d] /\ ~isSet'[d]
      BY <2>2, <2>4 DEF TypeOK
    <3> HIDE DEF Reset, EventInv
    <3> QED BY <2>1, <2>2, <2>3, <3>1
  <2>5. CASE d # e
    <3>1. sets'[d] = sets[d] /\ isSet'[d] = isSet[d]
      BY <2>2, <2>5 DEF TypeOK
    <3> QED BY <2>1, <2>3, <3>1
  <2> QED BY <2>4, <2>5
<1> QED BY <1>1, <1>2, <1>3, <1>4, <1>5, <1>6 DEF EventInv

(* wait takes the signal of the event, or joins its waiters. *)
LEMMA WaitKeeps ==
  ASSUME EventInv, NEW f \in Fibers, NEW e \in Events, Wait(f, e)
  PROVE  EventInv'
<1> USE EventAssumption DEF EventInv
<1>1. pc[f] = "run" /\ evLock[e] = None /\ wakes[f] = 0 /\ readyKey[f] = None
  <2>1. pc[f] = "run" /\ evLock[e] = None
    BY DEF Wait
  <2>2. wakes[f] \in Nat /\ wakes[f] <= 1 /\ wakes[f] # 1
    BY <2>1 DEF WokenOncePerWait, TypeOK
  <2>3. readyKey[f] = None
    BY <2>1 DEF KeysChosen
  <2> QED BY <2>1, <2>2, <2>3
<1>2. UNCHANGED <<mnWaiters, evLock, pmnLock, readyKey, list, todo, wakes, sets>>
  BY DEF Wait
<1>3. CASE isSet[e]
  <2>1. /\ isSet' = [isSet EXCEPT ![e] = e \notin AutoReset]
        /\ taken' = [taken EXCEPT ![e] = @ + (IF e \in AutoReset THEN 1 ELSE 0)]
        /\ UNCHANGED <<waiters, ev, pc>>
    BY <1>3 DEF Wait, Take, Took
  <2>2. TypeOK'
    BY <1>2, <2>1 DEF TypeOK
  <2>3. LocksHeld' /\ KeysChosen' /\ Registering' /\ ListsDistinct' /\ WokenOncePerWait' /\ OnWaiters'
    BY <1>2, <2>1 DEF LocksHeld, KeysChosen, Registering, ListsDistinct, WokenOncePerWait, OnWaiters, TypeOK
  <2>4. OnNotifiers'
    BY <1>2, <2>1 DEF OnNotifiers, Passed
  <2>5. SignalsCounted' /\ SetMeansNoWaiters'
    <3>1. \A d \in Events : isSet'[d] => isSet[d]
      BY <1>3, <2>1 DEF TypeOK
    <3> QED BY <1>2, <2>1, <3>1 DEF SignalsCounted, SetMeansNoWaiters
  <2>6. SignalConserved'
    <3> SUFFICES ASSUME NEW d \in AutoReset \ Broadcast
                 PROVE  sets'[d] = taken'[d] + Cardinality(OnTheWay(d)') + (IF isSet'[d] THEN 1 ELSE 0)
      BY DEF SignalConserved
    <3>1. sets[d] = taken[d] + Cardinality(OnTheWay(d)) + (IF isSet[d] THEN 1 ELSE 0)
      BY DEF SignalConserved
    <3>2. Cardinality(OnTheWay(d)) \in Nat /\ taken[d] \in Nat /\ sets[d] \in Nat /\ d \in Events
      BY WayCount DEF TypeOK
    <3>3. OnTheWay(d)' = OnTheWay(d) /\ sets' = sets
      BY <1>2, <2>1 DEF OnTheWay
    <3>4. CASE d = e
      <4>1. taken'[d] = taken[d] + 1
        BY <2>1, <3>2, <3>4 DEF TypeOK
      <4>2. isSet[d] /\ ~isSet'[d]
        BY <1>3, <2>1, <3>2, <3>4 DEF TypeOK
      <4> QED BY <3>1, <3>2, <3>3, <4>1, <4>2
    <3>5. CASE d # e
      <4>1. taken'[d] = taken[d] /\ isSet'[d] = isSet[d]
        BY <2>1, <3>2, <3>5 DEF TypeOK
      <4> QED BY <3>1, <3>3, <4>1
    <3> QED BY <3>4, <3>5
  <2> QED BY <2>2, <2>3, <2>4, <2>5, <2>6 DEF EventInv
<1>4. CASE ~isSet[e]
  <2>1. /\ waiters' = [waiters EXCEPT ![e] = Append(@, f)]
        /\ ev' = [ev EXCEPT ![f] = e]
        /\ pc' = [pc EXCEPT ![f] = "wait"]
        /\ UNCHANGED <<isSet, taken>>
    BY <1>4 DEF Wait, Goto
  <2>2. waiters[e] \in Seq(Fibers) /\ Once(waiters[e]) /\ f \notin Elements(waiters[e])
    BY <1>1 DEF TypeOK, ListsDistinct, OnWaiters
  <2>3. /\ Append(waiters[e], f) \in Seq(Fibers)
        /\ Elements(Append(waiters[e], f)) = Elements(waiters[e]) \cup {f}
        /\ Once(Append(waiters[e], f))
    BY <2>2, AppendElement
  <2>4. TypeOK'
    BY <1>2, <2>1, <2>3 DEF TypeOK, PC
  <2>5. LocksHeld'
    BY <1>1, <1>2, <2>1 DEF LocksHeld, TypeOK
  <2>6. KeysChosen' /\ Registering' /\ WokenOncePerWait'
    BY <1>1, <1>2, <2>1 DEF KeysChosen, Registering, WokenOncePerWait, TypeOK
  <2>7. ListsDistinct'
    BY <1>2, <2>1, <2>3 DEF ListsDistinct, TypeOK
  <2>8. OnWaiters'
    BY <1>1, <1>2, <2>1, <2>3 DEF OnWaiters, TypeOK
  <2>9. OnNotifiers'
    BY <1>1, <1>2, <2>1 DEF OnNotifiers, Passed, TypeOK
  <2>10. SignalsCounted'
    BY <1>2, <2>1 DEF SignalsCounted
  <2>11. SetMeansNoWaiters'
    BY <1>2, <1>4, <2>1 DEF SetMeansNoWaiters, TypeOK
  <2>12. SignalConserved'
    <3>1. ASSUME NEW d \in Events PROVE OnTheWay(d)' = OnTheWay(d)
      BY <1>1, <1>2, <2>1 DEF OnTheWay, TypeOK
    <3> QED BY <1>2, <2>1, <3>1 DEF SignalConserved
  <2> QED BY <2>4, <2>5, <2>6, <2>7, <2>8, <2>9, <2>10, <2>11, <2>12 DEF EventInv
<1> QED BY <1>3, <1>4

LEMMA WaitResumeKeeps ==
  ASSUME EventInv, NEW f \in Fibers, WaitResume(f)
  PROVE  EventInv'
<1> USE EventAssumption DEF EventInv
<1> DEFINE e == ev[f]
<1>0. pc[f] = "wait" /\ wakes[f] = 1 /\ e \in Events
  <2>1. pc[f] = "wait" /\ wakes[f] > 0
    BY DEF WaitResume, Woken
  <2>2. wakes[f] \in Nat /\ wakes[f] <= 1
    BY DEF WokenOncePerWait, TypeOK
  <2>3. e \in Events
    BY <2>1 DEF LocksHeld
  <2> QED BY <2>1, <2>2, <2>3
<1>1. /\ pc[f] = "wait" /\ wakes[f] = 1 /\ e \in Events
      /\ wakes' = [wakes EXCEPT ![f] = 0]
      /\ taken' = [taken EXCEPT ![e] = @ + (IF e \in AutoReset THEN 1 ELSE 0)]
      /\ pc' = [pc EXCEPT ![f] = "run"]
      /\ UNCHANGED <<isSet, waiters, mnWaiters, evLock, pmnLock, readyKey, list, todo, ev, sets>>
  BY <1>0 DEF WaitResume, Took, Goto
<1>2. TypeOK'
  BY <1>1 DEF TypeOK, PC
<1>3. LocksHeld'
  BY <1>1 DEF LocksHeld, TypeOK
<1>4. KeysChosen' /\ Registering' /\ WokenOncePerWait' /\ ListsDistinct' /\ SignalsCounted' /\ SetMeansNoWaiters'
  BY <1>1 DEF KeysChosen, Registering, WokenOncePerWait, ListsDistinct, SignalsCounted, SetMeansNoWaiters, TypeOK
<1>5. OnWaiters'
  BY <1>1 DEF OnWaiters, TypeOK
<1>6. OnNotifiers'
  BY <1>1 DEF OnNotifiers, Passed, TypeOK
<1>7. SignalConserved'
  <2> SUFFICES ASSUME NEW d \in AutoReset \ Broadcast
               PROVE  sets'[d] = taken'[d] + Cardinality(OnTheWay(d)') + (IF isSet'[d] THEN 1 ELSE 0)
    BY DEF SignalConserved
  <2>1. sets[d] = taken[d] + Cardinality(OnTheWay(d)) + (IF isSet[d] THEN 1 ELSE 0)
    BY DEF SignalConserved
  <2>2. Cardinality(OnTheWay(d)) \in Nat /\ taken[d] \in Nat /\ sets[d] \in Nat /\ d \in Events
    BY WayCount DEF TypeOK
  <2>3. sets' = sets /\ isSet' = isSet
    BY <1>1
  <2>4. CASE d = e
    <3>1. taken'[d] = taken[d] + 1
      BY <1>1, <2>2, <2>4 DEF TypeOK
    <3>2. f \in OnTheWay(d)
      BY <1>1, <2>4 DEF OnTheWay
    <3>3. OnTheWay(d)' = OnTheWay(d) \ {f}
      BY <1>1 DEF OnTheWay, TypeOK, KeysChosen
    <3>4. Cardinality(OnTheWay(d)') = Cardinality(OnTheWay(d)) - 1
      BY <3>2, <3>3, WayCount
    <3> QED BY <2>1, <2>2, <2>3, <3>1, <3>4
  <2>5. CASE d # e
    <3>1. taken'[d] = taken[d]
      BY <1>1, <2>2, <2>5 DEF TypeOK
    <3>2. OnTheWay(d)' = OnTheWay(d)
      BY <1>1, <2>5 DEF OnTheWay, TypeOK, KeysChosen
    <3> QED BY <2>1, <2>3, <3>1, <3>2
  <2> QED BY <2>4, <2>5
<1> QED BY <1>2, <1>3, <1>4, <1>5, <1>6, <1>7 DEF EventInv

(* What set does with the fibers in wait: all of them are made ready; or   *)
(* the first; or there is none, and the event stays set.                   *)
LEMMA SetReleases ==
  ASSUME EventInv, NEW e \in Events
  PROVE  LET w == waiters[e]
             W == {w[i] : i \in Released(e)}
             rest == SubSeq(w, Cardinality(Released(e)) + 1, Len(w))
         IN  /\ rest \in Seq(Fibers)
             /\ Once(rest)
             /\ W \subseteq Elements(w)
             /\ Elements(rest) = Elements(w) \ W
             /\ KeptIfNobody(e) => rest = <<>>
             /\ e \in AutoReset \ Broadcast =>
                  \/ W = {} /\ KeptIfNobody(e)
                  \/ ~KeptIfNobody(e) /\ \E g \in Elements(w) : W = {g}
<1> DEFINE w == waiters[e]
           W == {w[i] : i \in Released(e)}
           rest == SubSeq(w, Cardinality(Released(e)) + 1, Len(w))
<1>1. w \in Seq(Fibers) /\ Once(w)
  BY DEF EventInv, TypeOK, ListsDistinct
<1>2. Len(w) \in Nat
  BY <1>1
<1>3. CASE w = <<>>
  <2>1. Len(w) = 0 /\ Released(e) = {} /\ W = {}
    BY <1>3 DEF Released
  <2>2. rest = <<>>
    <3>1. Cardinality(Released(e)) = 0
      BY <2>1, FS_EmptySet
    <3> QED BY <1>2, <2>1, <3>1, SubSeqEmpty
  <2> QED BY <1>1, <1>3, <2>1, <2>2, EmptyElements DEF KeptIfNobody
<1>4. CASE w # <<>> /\ e \in AutoReset \ Broadcast
  <2>1. Len(w) > 0 /\ Released(e) = {1}
    BY <1>1, <1>4, EmptySeq DEF Released
  <2>2. Cardinality({1}) = 1
    BY FS_Singleton
  <2>3. rest = Tail(w)
    BY <1>1, <1>4, <2>1, <2>2, TailIsSubSeq
  <2>4. /\ Head(w) \in Elements(w) /\ Tail(w) \in Seq(Fibers) /\ Once(Tail(w))
        /\ Elements(Tail(w)) = Elements(w) \ {Head(w)}
    BY <1>1, <1>4, TailElements
  <2>5. W = {Head(w)}
    BY <1>1, <2>1
  <2>6. ~KeptIfNobody(e)
    BY <1>4, <2>1 DEF KeptIfNobody
  <2> QED BY <1>4, <2>3, <2>4, <2>5, <2>6
<1>5. CASE w # <<>> /\ e \notin AutoReset \ Broadcast
  <2>1. Released(e) = 1 .. Len(w)
    BY <1>5 DEF Released
  <2>2. Cardinality(1 .. Len(w)) = Len(w)
    BY <1>2, FS_Interval
  <2>3. rest = <<>>
    BY <1>2, <2>1, <2>2, SubSeqEmpty
  <2>4. W = Elements(w)
    BY <2>1 DEF Elements
  <2> HIDE DEF rest
  <2>5. rest \in Seq(Fibers) /\ Once(rest) /\ Elements(rest) = {}
    BY <2>3, EmptySeq, EmptyElements
  <2>6. Elements(rest) = Elements(w) \ W /\ W \subseteq Elements(w)
    BY <2>4, <2>5
  <2> QED BY <1>5, <2>3, <2>5, <2>6 DEF rest
<1> QED BY <1>3, <1>4, <1>5

LEMMA SetEndKeeps ==
  ASSUME EventInv, NEW f \in Fibers, SetEnd(f)
  PROVE  EventInv'
<1> USE EventAssumption DEF EventInv
<1> DEFINE e == ev[f]
           W == {waiters[e][i] : i \in Released(e)}
           rest == SubSeq(waiters[e], Cardinality(Released(e)) + 1, Len(waiters[e]))
<1>1. pc[f] = "notify" /\ e \in Events /\ mnWaiters[e] = <<>> /\ evLock[e] = f
  BY DEF SetEnd, LocksHeld
<1>2. /\ wakes' = [g \in Fibers |-> IF g \in W THEN wakes[g] + 1 ELSE wakes[g]]
      /\ waiters' = [waiters EXCEPT ![e] = rest]
      /\ isSet' = [isSet EXCEPT ![e] = KeptIfNobody(e)]
      /\ evLock' = [evLock EXCEPT ![e] = None]
      /\ pc' = [pc EXCEPT ![f] = "run"]
      /\ UNCHANGED <<mnWaiters, pmnLock, readyKey, list, todo, ev, sets, taken>>
  BY DEF SetEnd, Ready, Goto
<1>3. /\ rest \in Seq(Fibers)
      /\ Once(rest)
      /\ W \subseteq Elements(waiters[e])
      /\ Elements(rest) = Elements(waiters[e]) \ W
      /\ KeptIfNobody(e) => rest = <<>>
      /\ e \in AutoReset \ Broadcast =>
           \/ W = {} /\ KeptIfNobody(e)
           \/ ~KeptIfNobody(e) /\ \E g \in Elements(waiters[e]) : W = {g}
  BY <1>1, SetReleases
<1>4. \A g \in W : g \in Fibers /\ pc[g] = "wait" /\ wakes[g] = 0 /\ ev[g] = e
  <2>1. Elements(waiters[e]) \subseteq Fibers
    <3>1. waiters[e] \in Seq(Fibers)
      BY <1>1 DEF TypeOK
    <3> QED BY <3>1, ElementsIn
  <2> QED BY <1>1, <1>3, <2>1 DEF OnWaiters
<1> HIDE DEF e, W, rest
<1>5. TypeOK'
  <2>1. KeptIfNobody(e) \in BOOLEAN
    BY DEF KeptIfNobody
  <2>2. wakes' \in [Fibers -> Nat]
    BY <1>2 DEF TypeOK
  <2> QED BY <1>1, <1>2, <1>3, <2>1, <2>2 DEF TypeOK, PC
<1>6. LocksHeld'
  BY <1>1, <1>2 DEF LocksHeld, TypeOK, e
<1>7. KeysChosen' /\ Registering'
  BY <1>1, <1>2 DEF KeysChosen, Registering, TypeOK
<1>8. ListsDistinct'
  BY <1>1, <1>2, <1>3 DEF ListsDistinct, TypeOK
<1>9. OnWaiters'
  <2> SUFFICES ASSUME NEW g \in Fibers, NEW d \in Events
               PROVE  g \in Elements(waiters'[d]) <=> pc'[g] = "wait" /\ wakes'[g] = 0 /\ ev'[g] = d
    BY DEF OnWaiters
  <2>1. g \in Elements(waiters[d]) <=> pc[g] = "wait" /\ wakes[g] = 0 /\ ev[g] = d
    BY DEF OnWaiters
  <2>2. pc'[g] = "wait" <=> pc[g] = "wait"
    BY <1>1, <1>2 DEF TypeOK
  <2>3. CASE g \in W
    <3>1. wakes'[g] # 0
      BY <1>2, <1>4, <2>3
    <3>2. g \notin Elements(waiters'[d])
      BY <1>1, <1>2, <1>3, <1>4, <2>1, <2>3 DEF TypeOK
    <3> QED BY <3>1, <3>2
  <2>4. CASE g \notin W
    <3>1. wakes'[g] = wakes[g] /\ ev' = ev
      BY <1>2, <2>4
    <3>2. g \in Elements(waiters'[d]) <=> g \in Elements(waiters[d])
      BY <1>1, <1>2, <1>3, <2>4 DEF TypeOK
    <3> QED BY <2>1, <2>2, <3>1, <3>2
  <2> QED BY <2>3, <2>4
<1>10. OnNotifiers'
  BY <1>1, <1>2 DEF OnNotifiers, Passed, TypeOK
<1>11. SignalsCounted'
  <2>1. e \in AutoReset => sets[e] > 0
    BY <1>1 DEF SignalsCounted
  <2>2. \A d \in Events : d # e => isSet'[d] = isSet[d] /\ evLock'[d] = evLock[d]
    BY <1>1, <1>2 DEF TypeOK
  <2> QED BY <1>2, <2>1, <2>2 DEF SignalsCounted
<1>12. SetMeansNoWaiters'
  BY <1>1, <1>2, <1>3 DEF SetMeansNoWaiters, TypeOK
<1>13. WokenOncePerWait'
  <2> SUFFICES ASSUME NEW g \in Fibers
               PROVE  /\ wakes'[g] <= 1
                      /\ wakes'[g] = 1 => pc'[g] \in {"wait", "waitAny"}
                      /\ pc'[g] = "waitAny" => (wakes'[g] = 1 <=> readyKey'[g] # None)
    BY DEF WokenOncePerWait
  <2>1. CASE g \in W
    <3>1. wakes'[g] = 1 /\ pc'[g] = "wait"
      BY <1>1, <1>2, <1>4, <2>1 DEF TypeOK
    <3> QED BY <3>1
  <2>2. CASE g \notin W
    <3>1. wakes'[g] = wakes[g] /\ readyKey' = readyKey
      BY <1>2, <2>2
    <3>2. \/ pc'[g] = pc[g]
          \/ pc[g] = "notify" /\ pc'[g] = "run"
      BY <1>1, <1>2 DEF TypeOK
    <3> QED BY <3>1, <3>2 DEF WokenOncePerWait
  <2> QED BY <2>1, <2>2
<1>14. SignalConserved'
  <2> SUFFICES ASSUME NEW d \in AutoReset \ Broadcast
               PROVE  sets'[d] = taken'[d] + Cardinality(OnTheWay(d)') + (IF isSet'[d] THEN 1 ELSE 0)
    BY DEF SignalConserved
  <2>1. sets[d] = taken[d] + Cardinality(OnTheWay(d)) + (IF isSet[d] THEN 1 ELSE 0)
    BY DEF SignalConserved
  <2>2. Cardinality(OnTheWay(d)) \in Nat /\ taken[d] \in Nat /\ sets[d] \in Nat /\ d \in Events
    BY WayCount DEF TypeOK
  <2>3. sets' = sets /\ taken' = taken
    BY <1>2
  <2>4. CASE d = e
    <3>1. f \in OnTheWay(d) /\ ~isSet[d]
      BY <1>1, <2>4 DEF OnTheWay, LocksHeld, e
    <3>2. isSet'[d] <=> KeptIfNobody(e)
      BY <1>2, <2>2, <2>4 DEF TypeOK
    <3>3. CASE W = {} /\ KeptIfNobody(e)
      <4>1. OnTheWay(d)' = OnTheWay(d) \ {f}
        BY <1>1, <1>2, <3>3 DEF OnTheWay, TypeOK, KeysChosen
      <4>2. Cardinality(OnTheWay(d)') = Cardinality(OnTheWay(d)) - 1
        BY <3>1, <4>1, WayCount
      <4> QED BY <2>1, <2>2, <2>3, <3>1, <3>2, <3>3, <4>2
    <3>4. CASE ~KeptIfNobody(e) /\ \E g \in Elements(waiters[e]) : W = {g}
      <4>1. PICK g : W = {g}
        BY <3>4
      <4>2. g \in Fibers /\ pc[g] = "wait" /\ wakes[g] = 0 /\ ev[g] = e /\ g # f
        BY <1>1, <1>4, <4>1
      <4>3. g \notin OnTheWay(d)
        BY <4>2 DEF OnTheWay
      <4>4. OnTheWay(d)' = (OnTheWay(d) \ {f}) \cup {g}
        BY <1>1, <1>2, <2>4, <4>1, <4>2 DEF OnTheWay, TypeOK, KeysChosen
      <4>5. Cardinality(OnTheWay(d)') = Cardinality(OnTheWay(d))
        BY <3>1, <4>2, <4>3, <4>4, WayCount
      <4> QED BY <2>1, <2>3, <3>1, <3>2, <3>4, <4>5
    <3> QED BY <1>3, <2>4, <3>3, <3>4
  <2>5. CASE d # e
    <3>1. isSet'[d] = isSet[d]
      BY <1>1, <1>2, <2>2, <2>5 DEF TypeOK
    <3>2. OnTheWay(d)' = OnTheWay(d)
      <4>1. \A g \in Fibers : g \in W => ev[g] # d
        BY <1>4, <2>5
      <4> QED BY <1>1, <1>2, <2>5, <4>1 DEF OnTheWay, TypeOK, KeysChosen, e
    <3> QED BY <2>1, <2>3, <3>1, <3>2
  <2> QED BY <2>4, <2>5
<1> QED BY <1>5, <1>6, <1>7, <1>8, <1>9, <1>10, <1>11, <1>12, <1>13, <1>14 DEF EventInv

(* notifyReady: the first notifier leaves the list of the event; if it has *)
(* no key, it gets this one and its fiber is made ready.                   *)
LEMMA NotifyKeeps ==
  ASSUME EventInv, NEW f \in Fibers, Notify(f)
  PROVE  EventInv'
<1> USE EventAssumption DEF EventInv
<1> DEFINE e == ev[f]
           g == Head(mnWaiters[e])
<1>1. pc[f] = "notify" /\ e \in Events /\ mnWaiters[e] # <<>> /\ evLock[e] = f
  BY DEF Notify, LocksHeld
<1>2. mnWaiters[e] \in Seq(Fibers) /\ Once(mnWaiters[e])
  BY <1>1 DEF TypeOK, ListsDistinct
<1>3. /\ g \in Fibers /\ g \in Elements(mnWaiters[e])
      /\ Tail(mnWaiters[e]) \in Seq(Fibers) /\ Once(Tail(mnWaiters[e]))
      /\ Elements(Tail(mnWaiters[e])) = Elements(mnWaiters[e]) \ {g}
  BY <1>1, <1>2, TailElements
<1>4. /\ ~pmnLock[g]
      /\ mnWaiters' = [mnWaiters EXCEPT ![e] = Tail(@)]
      /\ UNCHANGED <<isSet, waiters, pmnLock, list, todo, ev, sets, taken>>
  BY DEF Notify
<1>5. pc[g] \in {"waitAny", "cancel"} /\ g # f
  <2>1. pc[g] # "register" /\ pc[g] \in PC
    BY <1>3, <1>4 DEF LocksHeld, TypeOK
  <2>2. pc[g] \notin {"run", "notify", "wait"}
    BY <1>1, <1>3 DEF OnNotifiers
  <2> QED BY <1>1, <2>1, <2>2 DEF PC
<1>6. /\ mnWaiters' \in [Events -> Seq(Fibers)]
      /\ \A d \in Events : Elements(mnWaiters'[d]) =
             IF d = e THEN Elements(mnWaiters[d]) \ {g} ELSE Elements(mnWaiters[d])
      /\ \A d \in Events : Once(mnWaiters'[d])
      /\ \A d \in Events : mnWaiters[d] = <<>> => mnWaiters'[d] = <<>>
  BY <1>1, <1>3, <1>4 DEF TypeOK, ListsDistinct
<1>7. /\ Notifiable(g) <=> readyKey[g] = None
      /\ \/ /\ Notifiable(g)
            /\ readyKey' = [readyKey EXCEPT ![g] = e]
            /\ wakes' = [h \in Fibers |-> IF h \in {g} THEN wakes[h] + 1 ELSE wakes[h]]
            /\ \/ /\ e \in AutoReset
                  /\ evLock' = [evLock EXCEPT ![e] = None]
                  /\ pc' = [pc EXCEPT ![f] = "run"]
               \/ /\ e \notin AutoReset
                  /\ UNCHANGED <<evLock, pc>>
         \/ /\ ~Notifiable(g)
            /\ UNCHANGED <<readyKey, wakes, evLock, pc>>
  BY DEF Notify, Notifiable, Ready, Goto
<1> HIDE DEF e, g
<1>8. CASE ~Notifiable(g)
  <2>1. UNCHANGED <<isSet, waiters, pmnLock, list, todo, ev, sets, taken, readyKey, wakes, evLock, pc>>
    BY <1>4, <1>7, <1>8
  <2>2. readyKey[g] # None
    BY <1>7, <1>8
  <2>3. TypeOK'
    BY <1>6, <2>1 DEF TypeOK
  <2>4. LocksHeld' /\ KeysChosen' /\ Registering' /\ OnWaiters' /\ SignalsCounted' /\ WokenOncePerWait'
    <3>1. LocksHeld' /\ OnWaiters' /\ SignalsCounted'
      BY <2>1 DEF LocksHeld, OnWaiters, SignalsCounted
    <3>2. KeysChosen' /\ WokenOncePerWait'
      BY <2>1 DEF KeysChosen, WokenOncePerWait
    <3>3. Registering'
      BY <2>1 DEF Registering
    <3> QED BY <3>1, <3>2, <3>3
  <2>5. ListsDistinct' /\ SetMeansNoWaiters'
    BY <1>6, <2>1 DEF ListsDistinct, SetMeansNoWaiters
  <2>6. OnNotifiers'
    <3> SUFFICES ASSUME NEW h \in Fibers, NEW d \in Events
                 PROVE  OnNotifiers!(h, d)'
      BY DEF OnNotifiers
    <3>1. Passed(h)' = Passed(h)
      BY <2>1 DEF Passed
    <3>2. OnNotifiers!(h, d)
      BY DEF OnNotifiers
    <3>3. CASE h = g
      BY <1>5, <1>6, <2>1, <2>2, <3>2, <3>3
    <3>4. CASE h # g
      BY <1>6, <2>1, <3>1, <3>2, <3>4
    <3> QED BY <3>3, <3>4
  <2>7. SignalConserved'
    <3>1. ASSUME NEW d \in Events PROVE OnTheWay(d)' = OnTheWay(d)
      BY <2>1 DEF OnTheWay
    <3> QED BY <2>1, <3>1 DEF SignalConserved
  <2> QED BY <2>3, <2>4, <2>5, <2>6, <2>7 DEF EventInv
<1>9. CASE Notifiable(g)
  <2>1. /\ readyKey' = [readyKey EXCEPT ![g] = e]
        /\ wakes' = [h \in Fibers |-> IF h = g THEN wakes[h] + 1 ELSE wakes[h]]
    BY <1>7, <1>9
  <2>2. \/ /\ e \in AutoReset
           /\ evLock' = [evLock EXCEPT ![e] = None]
           /\ pc' = [pc EXCEPT ![f] = "run"]
        \/ /\ e \notin AutoReset
           /\ UNCHANGED <<evLock, pc>>
    BY <1>7, <1>9
  <2>3. readyKey[g] = None /\ pc[g] = "waitAny" /\ wakes[g] = 0 /\ e \in Elements(list[g])
    <3>1. readyKey[g] = None
      BY <1>7, <1>9
    <3>2. pc[g] = "waitAny"
      BY <1>3, <1>5, <3>1 DEF KeysChosen
    <3>3. wakes[g] \in Nat /\ wakes[g] <= 1 /\ wakes[g] # 1
      BY <1>3, <3>1, <3>2 DEF WokenOncePerWait, TypeOK
    <3>4. e \in Elements(list[g])
      BY <1>1, <1>3, <3>1, <3>2 DEF OnNotifiers
    <3> QED BY <3>1, <3>2, <3>3, <3>4
  <2>4. /\ \A h \in Fibers : pc'[h] = pc[h] \/ (h = f /\ pc'[h] = "run" /\ e \in AutoReset)
        /\ e \in AutoReset => pc'[f] = "run"
        /\ \A d \in Events : d # e => evLock'[d] = evLock[d]
        /\ evLock'[e] = IF e \in AutoReset THEN None ELSE f
    BY <1>1, <2>2 DEF TypeOK
  <2>5. TypeOK'
    <3>1. readyKey' \in [Fibers -> Events \cup {None}]
      BY <1>1, <2>1 DEF TypeOK
    <3>2. wakes' \in [Fibers -> Nat]
      BY <2>1 DEF TypeOK
    <3>3. evLock' \in [Events -> Fibers \cup {None}] /\ pc' \in [Fibers -> PC]
      BY <2>2 DEF TypeOK, PC
    <3> QED BY <1>4, <1>6, <3>1, <3>2, <3>3 DEF TypeOK
  <2>6. LocksHeld'
    <3>1. CASE e \in AutoReset /\ evLock' = [evLock EXCEPT ![e] = None] /\ pc' = [pc EXCEPT ![f] = "run"]
      <4>1. ASSUME NEW d \in Events, NEW h \in Fibers
            PROVE  evLock'[d] = h <=> pc'[h] = "notify" /\ ev'[h] = d
        <5>1. evLock[d] = h <=> pc[h] = "notify" /\ ev[h] = d
          BY DEF LocksHeld
        <5> QED BY <1>1, <1>4, <3>1, <5>1 DEF TypeOK, e
      <4>2. ASSUME NEW h \in Fibers
            PROVE  /\ pmnLock'[h] <=> pc'[h] = "register"
                   /\ pc'[h] \in {"notify", "wait"} => ev'[h] \in Events
        BY <1>1, <1>4, <3>1 DEF LocksHeld, TypeOK
      <4>3. ASSUME NEW d \in AutoReset, evLock'[d] # None PROVE ~isSet'[d]
        BY <1>4, <3>1, <4>3 DEF LocksHeld, TypeOK
      <4> QED BY <4>1, <4>2, <4>3 DEF LocksHeld
    <3>2. CASE UNCHANGED <<evLock, pc>>
      BY <1>4, <3>2 DEF LocksHeld
    <3> QED BY <2>2, <3>1, <3>2
  <2>7. KeysChosen'
    <3> SUFFICES ASSUME NEW h \in Fibers PROVE KeysChosen!(h)'
      BY DEF KeysChosen
    <3>1. KeysChosen!(h)
      BY DEF KeysChosen
    <3>2. CASE h = g
      <4>1. pc'[h] = "waitAny" /\ readyKey'[h] = e
        BY <1>1, <1>5, <2>1, <2>3, <2>4, <3>2 DEF TypeOK
      <4> QED BY <1>4, <2>3, <3>2, <4>1
    <3>3. CASE h # g
      <4>1. readyKey'[h] = readyKey[h]
        BY <2>1, <3>3 DEF TypeOK
      <4>2. pc'[h] = pc[h] \/ (pc[h] = "notify" /\ pc'[h] = "run")
        BY <1>1, <2>4
      <4> QED BY <1>4, <3>1, <4>1, <4>2
    <3> QED BY <3>2, <3>3
  <2>8. Registering'
    <3>1. \A h \in Fibers : pc'[h] = "register" => pc[h] = "register"
      BY <2>4
    <3> QED BY <1>4, <3>1 DEF Registering
  <2>9. ListsDistinct'
    BY <1>4, <1>6 DEF ListsDistinct
  <2>10. OnWaiters'
    BY <1>1, <1>4, <2>1, <2>3, <2>4 DEF OnWaiters
  <2>11. OnNotifiers'
    <3> SUFFICES ASSUME NEW h \in Fibers, NEW d \in Events
                 PROVE  OnNotifiers!(h, d)'
      BY DEF OnNotifiers
    <3>1. Passed(h)' = Passed(h) /\ list' = list /\ todo' = todo
      BY <1>4 DEF Passed
    <3>2. OnNotifiers!(h, d)
      BY DEF OnNotifiers
    <3>3. CASE h = g
      <4>1. pc'[h] = "waitAny" /\ readyKey'[h] = e /\ e # None
        BY <1>1, <1>3, <1>5, <2>1, <2>3, <2>4, <3>3 DEF TypeOK
      <4>2. h \in Elements(mnWaiters'[d]) => d \in Elements(list[h]) \ {e}
        BY <1>6, <2>3, <3>2, <3>3
      <4> QED BY <3>1, <4>1, <4>2
    <3>4. CASE h = f
      BY <1>1, <1>6, <2>4, <3>2, <3>4
    <3>5. CASE h # g /\ h # f
      <4>1. pc'[h] = pc[h] /\ readyKey'[h] = readyKey[h]
        BY <2>1, <2>4, <3>5 DEF TypeOK
      <4>2. h \in Elements(mnWaiters'[d]) <=> h \in Elements(mnWaiters[d])
        BY <1>6, <3>5
      <4> QED BY <3>1, <3>2, <4>1, <4>2
    <3> QED BY <3>3, <3>4, <3>5
  <2>12. SignalsCounted'
    BY <1>1, <1>4, <2>4 DEF SignalsCounted
  <2>13. SetMeansNoWaiters'
    <3> SUFFICES ASSUME NEW d \in Events, isSet'[d], evLock'[d] = None
                 PROVE  waiters'[d] = <<>> /\ mnWaiters'[d] = <<>>
      BY DEF SetMeansNoWaiters
    <3>1. d # e
      BY <1>1, <1>4, <2>4 DEF LocksHeld
    <3> QED BY <1>4, <1>6, <2>4, <3>1 DEF SetMeansNoWaiters
  <2>14. WokenOncePerWait'
    <3> SUFFICES ASSUME NEW h \in Fibers
                 PROVE  /\ wakes'[h] <= 1
                        /\ wakes'[h] = 1 => pc'[h] \in {"wait", "waitAny"}
                        /\ pc'[h] = "waitAny" => (wakes'[h] = 1 <=> readyKey'[h] # None)
      BY DEF WokenOncePerWait
    <3>1. CASE h = g
      <4>1. wakes'[h] = 1 /\ pc'[h] = "waitAny" /\ readyKey'[h] = e /\ e # None
        BY <1>1, <1>5, <2>1, <2>3, <2>4, <3>1 DEF TypeOK
      <4> QED BY <4>1
    <3>2. CASE h # g
      <4>1. wakes'[h] = wakes[h] /\ readyKey'[h] = readyKey[h]
        BY <2>1, <3>2 DEF TypeOK
      <4>2. pc'[h] = pc[h] \/ (pc[h] = "notify" /\ pc'[h] = "run")
        BY <1>1, <2>4
      <4> QED BY <4>1, <4>2 DEF WokenOncePerWait
    <3> QED BY <3>1, <3>2
  <2>15. SignalConserved'
    <3> SUFFICES ASSUME NEW d \in AutoReset \ Broadcast
                 PROVE  sets'[d] = taken'[d] + Cardinality(OnTheWay(d)') + (IF isSet'[d] THEN 1 ELSE 0)
      BY DEF SignalConserved
    <3>1. sets[d] = taken[d] + Cardinality(OnTheWay(d)) + (IF isSet[d] THEN 1 ELSE 0)
      BY DEF SignalConserved
    <3>2. UNCHANGED <<sets, taken, isSet, ev>>
      BY <1>4
    <3>3. ASSUME NEW h \in Fibers, h # f, h # g
          PROVE  h \in OnTheWay(d)' <=> h \in OnTheWay(d)
      <4>1. pc'[h] = pc[h] /\ readyKey'[h] = readyKey[h] /\ wakes'[h] = wakes[h]
        BY <2>1, <2>4, <3>3 DEF TypeOK
      <4> QED BY <3>2, <4>1 DEF OnTheWay
    <3>4. g \in OnTheWay(d)' <=> d = e
      <4>1. pc'[g] = "waitAny" /\ readyKey'[g] = e
        BY <1>3, <1>5, <2>1, <2>3, <2>4 DEF TypeOK
      <4> QED BY <1>3, <4>1 DEF OnTheWay
    <3>5. f \notin OnTheWay(d)'
      <4>1. CASE e \in AutoReset
        <5>1. pc'[f] = "run"
          BY <2>4, <4>1
        <5> QED BY <5>1 DEF OnTheWay
      <4>2. CASE e \notin AutoReset
        <5>1. pc'[f] = "notify" /\ ev'[f] # d
          BY <1>1, <2>2, <3>2, <4>2 DEF e
        <5> QED BY <5>1 DEF OnTheWay
      <4> QED BY <4>1, <4>2
    <3>6. f \in OnTheWay(d) <=> d = e
      BY <1>1 DEF OnTheWay, e
    <3>7. g \notin OnTheWay(d)
      BY <2>3 DEF OnTheWay
    <3>8. OnTheWay(d) \subseteq Fibers /\ OnTheWay(d)' \subseteq Fibers
      BY DEF OnTheWay
    <3>9. CASE d = e
      <4>1. OnTheWay(d)' = (OnTheWay(d) \ {f}) \cup {g}
        BY <1>3, <1>5, <3>3, <3>4, <3>5, <3>8, <3>9
      <4>2. Cardinality(OnTheWay(d)') = Cardinality(OnTheWay(d))
        BY <1>3, <3>6, <3>7, <3>9, <4>1, WayCount
      <4> QED BY <3>1, <3>2, <4>2
    <3>10. CASE d # e
      <4>0. \A h \in Fibers : h \in OnTheWay(d)' <=> h \in OnTheWay(d)
        BY <3>3, <3>4, <3>5, <3>6, <3>7, <3>10
      <4>1. OnTheWay(d)' = OnTheWay(d)
        BY <3>8, <4>0
      <4> QED BY <3>1, <3>2, <4>1
    <3> QED BY <3>9, <3>10
  <2> QED BY <2>5, <2>6, <2>7, <2>8, <2>9, <2>10, <2>11, <2>12, <2>13, <2>14, <2>15 DEF EventInv
<1> QED BY <1>8, <1>9

LEMMA WaitAnyKeeps ==
  ASSUME EventInv, NEW f \in Fibers, WaitAny(f)
  PROVE  EventInv'
<1> USE EventAssumption DEF EventInv
<1>1. PICK l \in WaitLists \cup {list[f]} :
        /\ l # <<>>
        /\ list' = [list EXCEPT ![f] = l]
        /\ todo' = [todo EXCEPT ![f] = l]
  BY DEF WaitAny
<1>2. l \in Seq(Events) /\ Once(l)
  <2>1. CASE l \in WaitLists
    BY <2>1 DEF Once
  <2>2. CASE l = list[f]
    BY <2>2 DEF TypeOK, ListsDistinct
  <2> QED BY <2>1, <2>2
<1>3. /\ pc[f] = "run"
      /\ pmnLock' = [pmnLock EXCEPT ![f] = TRUE]
      /\ readyKey' = [readyKey EXCEPT ![f] = None]
      /\ pc' = [pc EXCEPT ![f] = "register"]
      /\ UNCHANGED <<isSet, waiters, mnWaiters, evLock, ev, wakes, sets, taken>>
  BY DEF WaitAny, Goto
<1>4. readyKey' = readyKey
  BY <1>3 DEF KeysChosen, TypeOK
<1>5. \A g \in Fibers : pc'[g] = IF g = f THEN "register" ELSE pc[g]
  BY <1>3 DEF TypeOK
<1>6. \A g \in Fibers : g # f => list'[g] = list[g] /\ todo'[g] = todo[g]
  BY <1>1 DEF TypeOK
<1>7. list'[f] = l /\ todo'[f] = l
  BY <1>1 DEF TypeOK
<1>8. TypeOK'
  BY <1>1, <1>2, <1>3 DEF TypeOK, PC
<1>9. LocksHeld'
  BY <1>3, <1>5 DEF LocksHeld, TypeOK
<1>10. KeysChosen'
  <2>1. readyKey[f] = None
    BY <1>3 DEF KeysChosen
  <2> QED BY <1>4, <1>5, <1>6, <2>1 DEF KeysChosen
<1>11. ListsDistinct'
  BY <1>2, <1>3, <1>6, <1>7 DEF ListsDistinct
<1>12. OnWaiters' /\ SignalsCounted' /\ SetMeansNoWaiters'
  BY <1>3, <1>5 DEF OnWaiters, SignalsCounted, SetMeansNoWaiters
<1>13. Registering'
  <2>1. RestOf(l, l)
    BY <1>1, <1>2 DEF RestOf
  <2> QED BY <1>5, <1>6, <1>7, <2>1 DEF Registering
<1>14. OnNotifiers'
  <2> SUFFICES ASSUME NEW g \in Fibers, NEW d \in Events PROVE OnNotifiers!(g, d)'
    BY DEF OnNotifiers
  <2>1. OnNotifiers!(g, d)
    BY DEF OnNotifiers
  <2>2. CASE g = f
    <3>1. Passed(g)' = <<>>
      <4>1. Len(l) - Len(l) = 0
        BY <1>2
      <4>2. Passed(g)' = SubSeq(l, 1, Len(l) - Len(l))
        BY <1>7, <2>2 DEF Passed
      <4> QED BY <4>1, <4>2, SubSeqEmpty
    <3>2. g \notin Elements(mnWaiters'[d])
      BY <1>3, <2>1, <2>2
    <3>3. pc'[g] = "register"
      BY <1>5, <2>2
    <3> QED BY <3>1, <3>2, <3>3, EmptyElements
  <2>3. CASE g # f
    <3>1. Passed(g)' = Passed(g) /\ list'[g] = list[g] /\ todo'[g] = todo[g] /\ pc'[g] = pc[g]
      BY <1>5, <1>6, <2>3 DEF Passed
    <3> QED BY <1>3, <1>4, <2>1, <3>1
  <2> QED BY <2>2, <2>3
<1>15. WokenOncePerWait'
  BY <1>3, <1>4, <1>5 DEF WokenOncePerWait, TypeOK
<1>16. SignalConserved'
  <2>1. ASSUME NEW d \in Events PROVE OnTheWay(d)' = OnTheWay(d)
    BY <1>3, <1>4, <1>5 DEF OnTheWay, KeysChosen
  <2> QED BY <1>3, <2>1 DEF SignalConserved
<1> QED BY <1>8, <1>9, <1>10, <1>11, <1>12, <1>13, <1>14, <1>15, <1>16 DEF EventInv

LEMMA WaitAnyResumeKeeps ==
  ASSUME EventInv, NEW f \in Fibers, WaitAnyResume(f)
  PROVE  EventInv'
<1> USE EventAssumption DEF EventInv
<1>1. /\ pc[f] = "waitAny" /\ wakes[f] > 0
      /\ wakes' = [wakes EXCEPT ![f] = @ - 1]
      /\ todo' = [todo EXCEPT ![f] = Erased(list[f], readyKey[f])]
      /\ pc' = [pc EXCEPT ![f] = "cancel"]
      /\ UNCHANGED <<isSet, waiters, mnWaiters, evLock, pmnLock, readyKey, list, ev, sets, taken>>
  BY DEF WaitAnyResume, Woken, Goto
<1>2. wakes[f] = 1
  BY <1>1 DEF WokenOncePerWait, TypeOK
<1>3. readyKey[f] # None
  BY <1>1, <1>2 DEF WokenOncePerWait
<1>4. list[f] \in Seq(Events) /\ Once(list[f])
  BY DEF TypeOK, ListsDistinct
<1>5. /\ Erased(list[f], readyKey[f]) \in Seq(Events)
      /\ Elements(Erased(list[f], readyKey[f])) = Elements(list[f]) \ {readyKey[f]}
  BY <1>4, ErasedElement
<1>6. /\ \A g \in Fibers : pc'[g] = IF g = f THEN "cancel" ELSE pc[g]
      /\ \A g \in Fibers : wakes'[g] = IF g = f THEN 0 ELSE wakes[g]
      /\ \A g \in Fibers : g # f => todo'[g] = todo[g]
      /\ todo'[f] = Erased(list[f], readyKey[f])
  BY <1>1, <1>2 DEF TypeOK
<1>7. TypeOK'
  <2>1. wakes' \in [Fibers -> Nat]
    BY <1>1, <1>2 DEF TypeOK
  <2>2. todo' \in [Fibers -> Seq(Events)] /\ pc' \in [Fibers -> PC]
    BY <1>1, <1>5 DEF TypeOK, PC
  <2> QED BY <1>1, <2>1, <2>2 DEF TypeOK
<1>8. LocksHeld' /\ SignalsCounted' /\ SetMeansNoWaiters'
  BY <1>1, <1>6 DEF LocksHeld, SignalsCounted, SetMeansNoWaiters
<1>9. KeysChosen' /\ ListsDistinct'
  BY <1>1, <1>3, <1>6 DEF KeysChosen, ListsDistinct
<1>10. OnWaiters' /\ WokenOncePerWait'
  BY <1>1, <1>6 DEF OnWaiters, WokenOncePerWait
<1>11. Registering'
  <2>1. \A g \in Fibers : pc'[g] = "register" =>
            pc[g] = "register" /\ todo'[g] = todo[g] /\ list'[g] = list[g]
    BY <1>1, <1>6
  <2> QED BY <2>1 DEF Registering
<1>12. OnNotifiers'
  <2> SUFFICES ASSUME NEW g \in Fibers, NEW d \in Events PROVE OnNotifiers!(g, d)'
    BY DEF OnNotifiers
  <2>1. OnNotifiers!(g, d)
    BY DEF OnNotifiers
  <2>2. CASE g = f
    <3>1. pc'[g] = "cancel" /\ todo'[g] = Erased(list[f], readyKey[f]) /\ mnWaiters' = mnWaiters
      BY <1>1, <1>6, <2>2
    <3> QED BY <1>1, <1>3, <1>5, <2>1, <2>2, <3>1
  <2>3. CASE g # f
    <3>1. Passed(g)' = Passed(g) /\ list'[g] = list[g] /\ todo'[g] = todo[g] /\ pc'[g] = pc[g]
      BY <1>1, <1>6, <2>3 DEF Passed
    <3> QED BY <1>1, <2>1, <3>1
  <2> QED BY <2>2, <2>3
<1>13. SignalConserved'
  <2>1. ASSUME NEW d \in Events PROVE OnTheWay(d)' = OnTheWay(d)
    BY <1>1, <1>6 DEF OnTheWay
  <2> QED BY <1>1, <2>1 DEF SignalConserved
<1> QED BY <1>7, <1>8, <1>9, <1>10, <1>11, <1>12, <1>13 DEF EventInv

(* mnWait finds the event set: its signal is taken, and what was passed is *)
(* to be rolled back.                                                      *)
LEMMA RegisterFindsKeeps ==
  ASSUME EventInv, NEW f \in Fibers, Register(f), isSet[Head(todo[f])]
  PROVE  EventInv'
<1> USE EventAssumption DEF EventInv
<1> DEFINE e == Head(todo[f])
<1>1. /\ pc[f] = "register" /\ evLock[e] = None /\ isSet[e]
      /\ isSet' = [isSet EXCEPT ![e] = e \notin AutoReset]
      /\ readyKey' = [readyKey EXCEPT ![f] = e]
      /\ pmnLock' = [pmnLock EXCEPT ![f] = FALSE]
      /\ todo' = [todo EXCEPT ![f] = Passed(f)]
      /\ pc' = [pc EXCEPT ![f] = "cancel"]
      /\ UNCHANGED <<mnWaiters, waiters, evLock, list, ev, wakes, sets, taken>>
  BY DEF Register, Take, UnlockedForRollback, Goto, Passed
<1>2. RestOf(todo[f], list[f]) /\ todo[f] \in Seq(Events) /\ list[f] \in Seq(Events)
  BY <1>1 DEF Registering, TypeOK
<1>3. e \in Events /\ e \in Elements(list[f])
  BY <1>2, RestStep
<1>4. Passed(f) \in Seq(Events)
  BY <1>2, RestStep DEF Passed
<1> HIDE DEF e
<1>5. /\ \A g \in Fibers : pc'[g] = IF g = f THEN "cancel" ELSE pc[g]
      /\ \A g \in Fibers : readyKey'[g] = IF g = f THEN e ELSE readyKey[g]
      /\ \A g \in Fibers : g # f => todo'[g] = todo[g]
      /\ todo'[f] = Passed(f)
      /\ \A d \in Events : isSet'[d] => isSet[d]
      /\ readyKey[f] = None /\ e # None
  BY <1>1, <1>3 DEF TypeOK, KeysChosen
<1>6. TypeOK'
  <2>1. /\ isSet' \in [Events -> BOOLEAN] /\ readyKey' \in [Fibers -> Events \cup {None}]
        /\ pmnLock' \in [Fibers -> BOOLEAN] /\ todo' \in [Fibers -> Seq(Events)] /\ pc' \in [Fibers -> PC]
    BY <1>1, <1>3, <1>4 DEF TypeOK, PC
  <2> QED BY <1>1, <2>1 DEF TypeOK
<1>7. LocksHeld'
  <2>1. \A g \in Fibers : pmnLock'[g] <=> pc'[g] = "register"
    BY <1>1, <1>5 DEF LocksHeld, TypeOK
  <2>2. \A d \in AutoReset : evLock'[d] # None => ~isSet'[d]
    BY <1>1, <1>5 DEF LocksHeld
  <2> QED BY <1>1, <1>5, <2>1, <2>2 DEF LocksHeld
<1>8. KeysChosen'
  BY <1>1, <1>3, <1>5 DEF KeysChosen
<1>9. ListsDistinct' /\ OnWaiters' /\ SignalsCounted' /\ SetMeansNoWaiters'
  <2>1. ListsDistinct' /\ OnWaiters'
    BY <1>1, <1>5 DEF ListsDistinct, OnWaiters
  <2>2. SignalsCounted' /\ SetMeansNoWaiters'
    BY <1>1, <1>5 DEF SignalsCounted, SetMeansNoWaiters
  <2> QED BY <2>1, <2>2
<1>10. Registering'
  <2>1. \A g \in Fibers : pc'[g] = "register" =>
            pc[g] = "register" /\ todo'[g] = todo[g] /\ list'[g] = list[g]
    BY <1>1, <1>5
  <2> QED BY <2>1 DEF Registering
<1>11. OnNotifiers'
  <2> SUFFICES ASSUME NEW g \in Fibers, NEW d \in Events PROVE OnNotifiers!(g, d)'
    BY DEF OnNotifiers
  <2>1. OnNotifiers!(g, d)
    BY DEF OnNotifiers
  <2>2. CASE g = f
    <3>1. pc'[g] = "cancel" /\ todo'[g] = Passed(f) /\ mnWaiters' = mnWaiters
      BY <1>1, <1>5, <2>2
    <3> QED BY <1>1, <2>1, <2>2, <3>1
  <2>3. CASE g # f
    <3>1. /\ Passed(g)' = Passed(g) /\ list'[g] = list[g] /\ todo'[g] = todo[g]
          /\ pc'[g] = pc[g] /\ readyKey'[g] = readyKey[g]
      BY <1>1, <1>5, <2>3 DEF Passed
    <3> QED BY <1>1, <2>1, <3>1
  <2> QED BY <2>2, <2>3
<1>12. WokenOncePerWait'
  BY <1>1, <1>5 DEF WokenOncePerWait
<1>13. SignalConserved'
  <2> SUFFICES ASSUME NEW d \in AutoReset \ Broadcast
               PROVE  sets'[d] = taken'[d] + Cardinality(OnTheWay(d)') + (IF isSet'[d] THEN 1 ELSE 0)
    BY DEF SignalConserved
  <2>1. sets[d] = taken[d] + Cardinality(OnTheWay(d)) + (IF isSet[d] THEN 1 ELSE 0)
    BY DEF SignalConserved
  <2>2. Cardinality(OnTheWay(d)) \in Nat /\ taken[d] \in Nat /\ sets[d] \in Nat /\ d \in Events
    BY WayCount DEF TypeOK
  <2>3. UNCHANGED <<sets, taken>>
    BY <1>1
  <2>4. \A g \in Fibers : g # f => (g \in OnTheWay(d)' <=> g \in OnTheWay(d))
    BY <1>1, <1>5 DEF OnTheWay
  <2>5. f \notin OnTheWay(d) /\ (f \in OnTheWay(d)' <=> d = e)
    BY <1>1, <1>5, <2>2 DEF OnTheWay
  <2>6. OnTheWay(d) \subseteq Fibers /\ OnTheWay(d)' \subseteq Fibers
    BY DEF OnTheWay
  <2>7. CASE d = e
    <3>1. OnTheWay(d)' = OnTheWay(d) \cup {f}
      BY <2>4, <2>5, <2>6, <2>7
    <3>2. Cardinality(OnTheWay(d)') = Cardinality(OnTheWay(d)) + 1
      BY <2>5, <3>1, WayCount
    <3>3. isSet[d] /\ ~isSet'[d]
      BY <1>1, <2>2, <2>7 DEF TypeOK
    <3>4. sets'[d] = sets[d] /\ taken'[d] = taken[d]
      BY <2>3
    <3>5. sets[d] = taken[d] + Cardinality(OnTheWay(d)) + 1
      BY <2>1, <3>3
    <3>6. sets[d] = taken[d] + (Cardinality(OnTheWay(d)) + 1) + 0
      BY <2>2, <3>5
    <3> QED BY <3>2, <3>3, <3>4, <3>6
  <2>8. CASE d # e
    <3>1. \A g \in Fibers : g \in OnTheWay(d)' <=> g \in OnTheWay(d)
      BY <2>4, <2>5, <2>8
    <3>2. OnTheWay(d)' = OnTheWay(d)
      BY <2>6, <3>1
    <3>3. isSet'[d] = isSet[d]
      BY <1>1, <1>3, <2>2, <2>8 DEF TypeOK
    <3>4. Cardinality(OnTheWay(d)') = Cardinality(OnTheWay(d)) /\ sets'[d] = sets[d] /\ taken'[d] = taken[d]
      BY <2>3, <3>2
    <3> HIDE DEF EventInv
    <3> QED BY <2>1, <3>3, <3>4
  <2> QED BY <2>7, <2>8
<1> QED BY <1>6, <1>7, <1>8, <1>9, <1>10, <1>11, <1>12, <1>13 DEF EventInv

(* mnWait registers the notifier with the event. *)
LEMMA RegisterJoinsKeeps ==
  ASSUME EventInv, NEW f \in Fibers, Register(f), ~isSet[Head(todo[f])]
  PROVE  EventInv'
<1> USE EventAssumption DEF EventInv
<1> DEFINE e == Head(todo[f])
           last == ~(Len(todo[f]) > 1)
<1>1. /\ pc[f] = "register" /\ evLock[e] = None /\ ~isSet[e]
      /\ mnWaiters' = [mnWaiters EXCEPT ![e] = Append(@, f)]
      /\ todo' = [todo EXCEPT ![f] = Tail(@)]
      /\ pmnLock' = [pmnLock EXCEPT ![f] = ~last]
      /\ pc' = [pc EXCEPT ![f] = IF last THEN "waitAny" ELSE "register"]
      /\ UNCHANGED <<isSet, readyKey, waiters, evLock, list, ev, wakes, sets, taken>>
  <2>1. /\ pmnLock' = [pmnLock EXCEPT ![f] = Len(todo[f]) > 1]
        /\ pc' = [pc EXCEPT ![f] = IF Len(todo[f]) > 1 THEN "register" ELSE "waitAny"]
    BY DEF Register, Goto
  <2>2. pmnLock' = [pmnLock EXCEPT ![f] = ~last]
    BY <2>1
  <2>3. pc' = [pc EXCEPT ![f] = IF last THEN "waitAny" ELSE "register"]
    BY <2>1
  <2> HIDE DEF last
  <2> QED BY <2>2, <2>3 DEF Register
<1>2. /\ todo[f] \in Seq(Events) /\ list[f] \in Seq(Events) /\ Once(list[f])
      /\ RestOf(todo[f], list[f])
  BY <1>1 DEF Registering, TypeOK, ListsDistinct
<1>3. Passed(f)' = SubSeq(list[f], 1, Len(list[f]) - Len(Tail(todo[f])))
  BY <1>1 DEF Passed, TypeOK
<1>4. e \in Events /\ Tail(todo[f]) \in Seq(Events)
  BY <1>2, RestStep
<1> DEFINE n == Len(list[f]) - Len(todo[f])
           p == SubSeq(list[f], 1, n)
           q == SubSeq(list[f], 1, n + 1)
<1>5. /\ SubSeq(list[f], 1, Len(list[f]) - Len(Tail(todo[f]))) = q
      /\ Elements(q) = Elements(p) \cup {e}
      /\ e \notin Elements(p)
      /\ last => q = list[f]
  BY <1>2, RestStep
<1>6. Passed(f) = p /\ Passed(f)' = q
  BY <1>3, <1>5 DEF Passed
<1> HIDE DEF p, q
<1>7. e \notin Elements(Passed(f)) /\ Elements(Passed(f)') = Elements(Passed(f)) \cup {e}
  BY <1>5, <1>6
<1>8. last => Passed(f)' = list[f]
  BY <1>5, <1>6
<1>9. ~last => RestOf(Tail(todo[f]), list[f])
  BY <1>2, RestStep
<1>10. /\ mnWaiters[e] \in Seq(Fibers) /\ Once(mnWaiters[e])
       /\ f \notin Elements(mnWaiters[e])
  BY <1>1, <1>4, <1>7 DEF TypeOK, ListsDistinct, OnNotifiers
<1>11. /\ Append(mnWaiters[e], f) \in Seq(Fibers)
       /\ Elements(Append(mnWaiters[e], f)) = Elements(mnWaiters[e]) \cup {f}
       /\ Once(Append(mnWaiters[e], f))
  BY <1>10, AppendElement
<1> HIDE DEF e, last
<1>12. /\ \A g \in Fibers : pc'[g] = IF g = f THEN IF last THEN "waitAny" ELSE "register" ELSE pc[g]
       /\ \A g \in Fibers : g # f => todo'[g] = todo[g]
       /\ todo'[f] = Tail(todo[f])
       /\ \A d \in Events : d # e => mnWaiters'[d] = mnWaiters[d]
       /\ mnWaiters'[e] = Append(mnWaiters[e], f)
       /\ readyKey[f] = None
  BY <1>1, <1>4 DEF TypeOK, KeysChosen
<1>13. TypeOK'
  <2>1. /\ mnWaiters' \in [Events -> Seq(Fibers)] /\ todo' \in [Fibers -> Seq(Events)]
        /\ pmnLock' \in [Fibers -> BOOLEAN] /\ pc' \in [Fibers -> PC]
    BY <1>1, <1>4, <1>11 DEF TypeOK, PC, last
  <2> QED BY <1>1, <2>1 DEF TypeOK
<1>14. LocksHeld'
  <2>1. \A g \in Fibers : pmnLock'[g] <=> pc'[g] = "register"
    BY <1>1, <1>12 DEF LocksHeld, TypeOK, last
  <2> QED BY <1>1, <1>12, <2>1 DEF LocksHeld
<1>15. KeysChosen' /\ WokenOncePerWait'
  <2>1. wakes[f] # 1 /\ wakes' = wakes
    BY <1>1 DEF WokenOncePerWait
  <2> QED BY <1>1, <1>12, <2>1 DEF KeysChosen, WokenOncePerWait
<1>16. ListsDistinct' /\ OnWaiters' /\ SignalsCounted'
  <2>1. ListsDistinct'
    BY <1>1, <1>11, <1>12 DEF ListsDistinct
  <2> QED BY <1>1, <1>12, <2>1 DEF OnWaiters, SignalsCounted
<1>17. SetMeansNoWaiters'
  BY <1>1, <1>12 DEF SetMeansNoWaiters
<1>18. Registering'
  BY <1>1, <1>9, <1>12 DEF Registering
<1>19. OnNotifiers'
  <2> SUFFICES ASSUME NEW g \in Fibers, NEW d \in Events PROVE OnNotifiers!(g, d)'
    BY DEF OnNotifiers
  <2>1. OnNotifiers!(g, d)
    BY DEF OnNotifiers
  <2>2. CASE g = f
    <3>1. f \in Elements(mnWaiters'[d]) <=> d \in Elements(Passed(f)')
      BY <1>1, <1>7, <1>11, <1>12, <2>1, <2>2
    <3>2. CASE last
      <4>1. pc'[g] = "waitAny" /\ readyKey'[g] = None /\ list' = list
        BY <1>1, <1>12, <2>2, <3>2
      <4> QED BY <1>8, <2>2, <3>1, <3>2, <4>1
    <3>3. CASE ~last
      <4>1. pc'[g] = "register"
        BY <1>12, <2>2, <3>3
      <4> QED BY <2>2, <3>1, <4>1
    <3> QED BY <3>2, <3>3
  <2>3. CASE g # f
    <3>1. /\ Passed(g)' = Passed(g) /\ list'[g] = list[g] /\ todo'[g] = todo[g]
          /\ pc'[g] = pc[g] /\ readyKey'[g] = readyKey[g]
      BY <1>1, <1>12, <2>3 DEF Passed
    <3>2. g \in Elements(mnWaiters'[d]) <=> g \in Elements(mnWaiters[d])
      BY <1>11, <1>12, <2>3
    <3> QED BY <2>1, <3>1, <3>2
  <2> QED BY <2>2, <2>3
<1>20. SignalConserved'
  <2>1. ASSUME NEW d \in Events PROVE OnTheWay(d)' = OnTheWay(d)
    BY <1>1, <1>12 DEF OnTheWay
  <2> QED BY <1>1, <2>1 DEF SignalConserved
<1> QED BY <1>13, <1>14, <1>15, <1>16, <1>17, <1>18, <1>19, <1>20 DEF EventInv

LEMMA CancelKeeps ==
  ASSUME EventInv, NEW f \in Fibers, Cancel(f)
  PROVE  EventInv'
<1> USE EventAssumption DEF EventInv
<1> DEFINE e == Head(todo[f])
<1>1. /\ pc[f] = "cancel" /\ todo[f] # <<>> /\ evLock[e] = None
      /\ mnWaiters' = [mnWaiters EXCEPT ![e] = Erased(@, f)]
      /\ todo' = [todo EXCEPT ![f] = Tail(@)]
      /\ UNCHANGED <<isSet, waiters, evLock, pmnLock, readyKey, list, ev, pc, wakes, sets, taken>>
  BY DEF Cancel
<1>2. /\ todo[f] \in Seq(Events)
      /\ e \in Events /\ Tail(todo[f]) \in Seq(Events)
      /\ Elements(todo[f]) = {e} \cup Elements(Tail(todo[f]))
  <2>1. todo[f] \in Seq(Events)
    BY DEF TypeOK
  <2> QED BY <1>1, <2>1, TailElements
<1>3. mnWaiters[e] \in Seq(Fibers) /\ Once(mnWaiters[e])
  BY <1>2 DEF TypeOK, ListsDistinct
<1>4. /\ Erased(mnWaiters[e], f) \in Seq(Fibers)
      /\ Elements(Erased(mnWaiters[e], f)) = Elements(mnWaiters[e]) \ {f}
      /\ Once(Erased(mnWaiters[e], f))
  BY <1>3, ErasedElement
<1>5. Erased(<<>>, f) = <<>>
  BY EmptyElements DEF Erased
<1> HIDE DEF e
<1>6. /\ \A g \in Fibers : g # f => todo'[g] = todo[g]
      /\ todo'[f] = Tail(todo[f])
      /\ \A d \in Events : d # e => mnWaiters'[d] = mnWaiters[d]
      /\ mnWaiters'[e] = Erased(mnWaiters[e], f)
  BY <1>1, <1>2 DEF TypeOK
<1>7. TypeOK'
  <2>1. mnWaiters' \in [Events -> Seq(Fibers)] /\ todo' \in [Fibers -> Seq(Events)]
    BY <1>1, <1>2, <1>4 DEF TypeOK
  <2> QED BY <1>1, <2>1 DEF TypeOK
<1>8. LocksHeld' /\ KeysChosen' /\ OnWaiters' /\ SignalsCounted' /\ WokenOncePerWait'
  <2>1. LocksHeld' /\ KeysChosen'
    BY <1>1 DEF LocksHeld, KeysChosen
  <2> QED BY <1>1, <2>1 DEF OnWaiters, SignalsCounted, WokenOncePerWait
<1>9. ListsDistinct'
  BY <1>1, <1>4, <1>6 DEF ListsDistinct
<1>10. Registering'
  <2>1. \A g \in Fibers : pc'[g] = "register" =>
            pc[g] = "register" /\ todo'[g] = todo[g] /\ list'[g] = list[g]
    BY <1>1, <1>6
  <2> QED BY <2>1 DEF Registering
<1>11. SetMeansNoWaiters'
  BY <1>1, <1>5, <1>6 DEF SetMeansNoWaiters
<1>12. OnNotifiers'
  <2> SUFFICES ASSUME NEW g \in Fibers, NEW d \in Events PROVE OnNotifiers!(g, d)'
    BY DEF OnNotifiers
  <2>1. OnNotifiers!(g, d)
    BY DEF OnNotifiers
  <2>2. CASE g = f
    <3>1. pc'[g] = "cancel" /\ todo'[g] = Tail(todo[f])
      BY <1>1, <1>6, <2>2
    <3>2. g \in Elements(mnWaiters'[d]) => d \in Elements(Tail(todo[f]))
      BY <1>1, <1>2, <1>4, <1>6, <2>1, <2>2
    <3> QED BY <3>1, <3>2
  <2>3. CASE g # f
    <3>1. /\ Passed(g)' = Passed(g) /\ list'[g] = list[g] /\ todo'[g] = todo[g]
          /\ pc'[g] = pc[g] /\ readyKey'[g] = readyKey[g]
      BY <1>1, <1>6, <2>3 DEF Passed
    <3>2. g \in Elements(mnWaiters'[d]) <=> g \in Elements(mnWaiters[d])
      BY <1>4, <1>6, <2>3
    <3> QED BY <2>1, <3>1, <3>2
  <2> QED BY <2>2, <2>3
<1>13. SignalConserved'
  <2>1. ASSUME NEW d \in Events PROVE OnTheWay(d)' = OnTheWay(d)
    BY <1>1 DEF OnTheWay
  <2> QED BY <1>1, <2>1 DEF SignalConserved
<1> QED BY <1>7, <1>8, <1>9, <1>10, <1>11, <1>12, <1>13 DEF EventInv

LEMMA WaitAnyReturnKeeps ==
  ASSUME EventInv, NEW f \in Fibers, WaitAnyReturn(f)
  PROVE  EventInv'
<1> USE EventAssumption DEF EventInv
<1> DEFINE e == readyKey[f]
<1>1. /\ pc[f] = "cancel" /\ todo[f] = <<>>
      /\ list' = [list EXCEPT ![f] = Remaining(@, e)]
      /\ taken' = [taken EXCEPT ![e] = @ + (IF e \in AutoReset THEN 1 ELSE 0)]
      /\ readyKey' = [readyKey EXCEPT ![f] = None]
      /\ pc' = [pc EXCEPT ![f] = "run"]
      /\ UNCHANGED <<isSet, waiters, mnWaiters, evLock, pmnLock, todo, ev, wakes, sets>>
  BY DEF WaitAnyReturn, Took, Goto
<1>2. /\ e \in Events /\ e \in Elements(list[f])
      /\ list[f] \in Seq(Events) /\ Once(list[f])
  BY <1>1 DEF KeysChosen, TypeOK, ListsDistinct
<1>3. Remaining(list[f], e) \in Seq(Events) /\ Once(Remaining(list[f], e))
  BY <1>2, RemainingElements
<1>4. \A d \in Events : f \notin Elements(mnWaiters[d])
  BY <1>1, EmptyElements DEF OnNotifiers
<1> HIDE DEF e
<1>5. /\ \A g \in Fibers : pc'[g] = IF g = f THEN "run" ELSE pc[g]
      /\ \A g \in Fibers : readyKey'[g] = IF g = f THEN None ELSE readyKey[g]
      /\ \A g \in Fibers : g # f => list'[g] = list[g]
      /\ list'[f] = Remaining(list[f], e)
  BY <1>1 DEF TypeOK
<1>6. TypeOK'
  <2>1. /\ list' \in [Fibers -> Seq(Events)] /\ taken' \in [Events -> Nat]
        /\ readyKey' \in [Fibers -> Events \cup {None}] /\ pc' \in [Fibers -> PC]
    <3>1. list' \in [Fibers -> Seq(Events)] /\ taken' \in [Events -> Nat]
      <4>1. list' \in [Fibers -> Seq(Events)]
        BY <1>1, <1>3 DEF TypeOK
      <4>2. taken[e] + (IF e \in AutoReset THEN 1 ELSE 0) \in Nat
        BY <1>2 DEF TypeOK, e
      <4>3. taken' \in [Events -> Nat]
        BY <1>1, <4>2 DEF TypeOK
      <4> QED BY <4>1, <4>3
    <3>2. readyKey' \in [Fibers -> Events \cup {None}] /\ pc' \in [Fibers -> PC]
      BY <1>1 DEF TypeOK, PC
    <3> QED BY <3>1, <3>2
  <2> QED BY <1>1, <2>1 DEF TypeOK
<1>7. LocksHeld' /\ KeysChosen' /\ WokenOncePerWait'
  <2>1. LocksHeld'
    BY <1>1, <1>5 DEF LocksHeld
  <2>2. KeysChosen' /\ WokenOncePerWait'
    BY <1>1, <1>5 DEF KeysChosen, WokenOncePerWait
  <2> QED BY <2>1, <2>2
<1>8. ListsDistinct' /\ OnWaiters' /\ SignalsCounted' /\ SetMeansNoWaiters'
  <2>1. ListsDistinct'
    BY <1>1, <1>3, <1>5 DEF ListsDistinct
  <2> QED BY <1>1, <1>5, <2>1 DEF OnWaiters, SignalsCounted, SetMeansNoWaiters
<1>9. Registering'
  <2>1. \A g \in Fibers : pc'[g] = "register" =>
            pc[g] = "register" /\ todo'[g] = todo[g] /\ list'[g] = list[g]
    BY <1>1, <1>5
  <2> QED BY <2>1 DEF Registering
<1>10. OnNotifiers'
  <2> SUFFICES ASSUME NEW g \in Fibers, NEW d \in Events PROVE OnNotifiers!(g, d)'
    BY DEF OnNotifiers
  <2>1. OnNotifiers!(g, d)
    BY DEF OnNotifiers
  <2>2. CASE g = f
    BY <1>1, <1>4, <1>5, <2>2
  <2>3. CASE g # f
    <3>1. /\ Passed(g)' = Passed(g) /\ list'[g] = list[g] /\ todo'[g] = todo[g]
          /\ pc'[g] = pc[g] /\ readyKey'[g] = readyKey[g]
      BY <1>1, <1>5, <2>3 DEF Passed
    <3> QED BY <1>1, <2>1, <3>1
  <2> QED BY <2>2, <2>3
<1>11. SignalConserved'
  <2> SUFFICES ASSUME NEW d \in AutoReset \ Broadcast
               PROVE  sets'[d] = taken'[d] + Cardinality(OnTheWay(d)') + (IF isSet'[d] THEN 1 ELSE 0)
    BY DEF SignalConserved
  <2>1. sets[d] = taken[d] + Cardinality(OnTheWay(d)) + (IF isSet[d] THEN 1 ELSE 0)
    BY DEF SignalConserved
  <2>2. Cardinality(OnTheWay(d)) \in Nat /\ taken[d] \in Nat /\ sets[d] \in Nat /\ d \in Events
    BY WayCount DEF TypeOK
  <2>3. UNCHANGED <<sets, isSet>>
    BY <1>1
  <2>4. \A g \in Fibers : g # f => (g \in OnTheWay(d)' <=> g \in OnTheWay(d))
    BY <1>1, <1>5 DEF OnTheWay
  <2>5. f \notin OnTheWay(d)' /\ (f \in OnTheWay(d) <=> d = e)
    BY <1>1, <1>5 DEF OnTheWay, e
  <2>6. OnTheWay(d) \subseteq Fibers /\ OnTheWay(d)' \subseteq Fibers
    BY DEF OnTheWay
  <2>7. CASE d = e
    <3>1. OnTheWay(d)' = OnTheWay(d) \ {f} /\ f \in OnTheWay(d)
      BY <2>4, <2>5, <2>6, <2>7
    <3>2. Cardinality(OnTheWay(d)') = Cardinality(OnTheWay(d)) - 1
      BY <3>1, WayCount
    <3>3. taken'[d] = taken[d] + 1
      BY <1>1, <2>2, <2>7 DEF TypeOK
    <3> QED BY <2>1, <2>2, <2>3, <3>2, <3>3
  <2>8. CASE d # e
    <3>1. \A g \in Fibers : g \in OnTheWay(d)' <=> g \in OnTheWay(d)
      BY <2>4, <2>5, <2>8
    <3>2. OnTheWay(d)' = OnTheWay(d)
      BY <2>6, <3>1
    <3>3. taken'[d] = taken[d]
      BY <1>1, <1>2, <2>2, <2>8 DEF TypeOK
    <3> QED BY <2>1, <2>3, <3>2, <3>3
  <2> QED BY <2>7, <2>8
<1> QED BY <1>6, <1>7, <1>8, <1>9, <1>10, <1>11 DEF EventInv

-----------------------------------------------------------------------------
LEMMA EventStep == EventInv /\ [Next]_vars => EventInv'
<1> SUFFICES ASSUME EventInv, [Next]_vars PROVE EventInv'
  OBVIOUS
<1>1. CASE Next
  <2>1. ASSUME NEW f \in Fibers, NEW e \in Events, SetBegin(f, e) PROVE EventInv'
    BY <2>1, SetBeginKeeps
  <2>2. ASSUME NEW f \in Fibers, NEW e \in Events, Reset(f, e) PROVE EventInv'
    BY <2>2, ResetKeeps
  <2>3. ASSUME NEW f \in Fibers, NEW e \in Events, Wait(f, e) PROVE EventInv'
    BY <2>3, WaitKeeps
  <2>4. ASSUME NEW f \in Fibers, Notify(f) PROVE EventInv'
    BY <2>4, NotifyKeeps
  <2>5. ASSUME NEW f \in Fibers, SetEnd(f) PROVE EventInv'
    BY <2>5, SetEndKeeps
  <2>6. ASSUME NEW f \in Fibers, WaitResume(f) PROVE EventInv'
    BY <2>6, WaitResumeKeeps
  <2>7. ASSUME NEW f \in Fibers, WaitAny(f) PROVE EventInv'
    BY <2>7, WaitAnyKeeps
  <2>8. ASSUME NEW f \in Fibers, Register(f) PROVE EventInv'
    BY <2>8, RegisterFindsKeeps, RegisterJoinsKeeps
  <2>9. ASSUME NEW f \in Fibers, WaitAnyResume(f) PROVE EventInv'
    BY <2>9, WaitAnyResumeKeeps
  <2>10. ASSUME NEW f \in Fibers, Cancel(f) PROVE EventInv'
    BY <2>10, CancelKeeps
  <2>11. ASSUME NEW f \in Fibers, WaitAnyReturn(f) PROVE EventInv'
    BY <2>11, WaitAnyReturnKeeps
  <2> QED BY <1>1, <2>1, <2>2, <2>3, <2>4, <2>5, <2>6, <2>7, <2>8, <2>9, <2>10, <2>11 DEF Next
<1>2. CASE UNCHANGED vars
  <2> USE <1>2 DEF vars, EventInv
  <2>1. TypeOK' /\ LocksHeld'
    BY DEF TypeOK, LocksHeld
  <2>2. KeysChosen' /\ ListsDistinct' /\ OnWaiters'
    BY DEF KeysChosen, ListsDistinct, OnWaiters
  <2>3. Registering' /\ SignalsCounted' /\ SetMeansNoWaiters' /\ WokenOncePerWait'
    BY DEF Registering, SignalsCounted, SetMeansNoWaiters, WokenOncePerWait
  <2>4. OnNotifiers'
    BY DEF OnNotifiers, Passed
  <2>5. SignalConserved'
    BY DEF SignalConserved, OnTheWay
  <2> QED BY <2>1, <2>2, <2>3, <2>4, <2>5
<1> QED BY <1>1, <1>2

(* The invariant says where each fiber is registered; as no list names it  *)
(* twice, it is there exactly once.                                        *)
LEMMA InvMeansConsistent == EventInv => WaitersConsistent
<1> SUFFICES ASSUME EventInv PROVE WaitersConsistent
  OBVIOUS
<1>1. \A f, e : e \in Events =>
        /\ Times(f, waiters[e]) = IF f \in Elements(waiters[e]) THEN 1 ELSE 0
        /\ Times(f, mnWaiters[e]) = IF f \in Elements(mnWaiters[e]) THEN 1 ELSE 0
  <2> SUFFICES ASSUME NEW f, NEW e \in Events
               PROVE  /\ Times(f, waiters[e]) = IF f \in Elements(waiters[e]) THEN 1 ELSE 0
                      /\ Times(f, mnWaiters[e]) = IF f \in Elements(mnWaiters[e]) THEN 1 ELSE 0
    OBVIOUS
  <2>1. /\ waiters[e] \in Seq(Fibers) /\ Once(waiters[e])
        /\ mnWaiters[e] \in Seq(Fibers) /\ Once(mnWaiters[e])
    BY DEF EventInv, TypeOK, ListsDistinct
  <2> QED BY <2>1, TimesOnce
<1>2. WaitersRegistered
  BY <1>1 DEF EventInv, WaitersRegistered, OnWaiters, OnNotifiers
<1> QED BY <1>2 DEF EventInv, WaitersConsistent

(* A signal of an auto-reset event ends exactly one wait, or is kept, or   *)
(* was reset: Event::set, wait and waitAny, for any number of fibers,      *)
(* events and wait lists.                                                  *)
THEOREM SignalsConserved == Spec => []SignalConserved
<1>1. EventInv => SignalConserved
  BY DEF EventInv
<1> QED BY EventStarts, EventStep, <1>1, PTL DEF Spec

-----------------------------------------------------------------------------
(* Mutexes. *)

(* Waits go through lists in order. *)
InLists(lists) == \A f \in Fibers : list[f] \in lists

LEMMA InListsStep ==
  ASSUME NEW lists, NEW rank, InOneOrder(lists, rank), EventInv, InLists(lists), [Next]_vars
  PROVE  InLists(lists)'
<1> USE DEF InLists, EventInv, TypeOK
<1>1. CASE UNCHANGED list
  BY <1>1
<1>2. ASSUME NEW f \in Fibers, WaitAny(f) PROVE InLists(lists)'
  <2>1. PICK l \in WaitLists \cup {list[f]} : list' = [list EXCEPT ![f] = l]
    BY <1>2 DEF WaitAny
  <2>2. l \in lists
    BY DEF InOneOrder
  <2> QED BY <2>1, <2>2
<1>3. ASSUME NEW f \in Fibers, WaitAnyReturn(f) PROVE InLists(lists)'
  <2>1. readyKey[f] \in Elements(list[f])
    BY <1>3 DEF WaitAnyReturn, KeysChosen
  <2>2. PICK i \in 1 .. Len(list[f]) : readyKey[f] = list[f][i]
    BY <2>1 DEF Elements
  <2>3. Remaining(list[f], readyKey[f]) \in lists
    BY <2>2 DEF InOneOrder
  <2>4. list' = [list EXCEPT ![f] = Remaining(list[f], readyKey[f])]
    BY <1>3 DEF WaitAnyReturn
  <2> QED BY <2>3, <2>4
<1>4. ASSUME NEW f \in Fibers,
             \/ \E e \in Events : SetBegin(f, e) \/ Reset(f, e) \/ Wait(f, e)
             \/ Notify(f) \/ SetEnd(f) \/ WaitResume(f) \/ WaitAnyResume(f) \/ Register(f) \/ Cancel(f)
      PROVE  UNCHANGED list
  BY <1>4 DEF SetBegin, Reset, Wait, Notify, SetEnd, WaitResume, WaitAnyResume, Register, Cancel
<1>5. CASE UNCHANGED vars
  BY <1>1, <1>5 DEF vars
<1> QED BY <1>1, <1>2, <1>3, <1>4, <1>5 DEF Next

(* The events whose mutex is held. *)
LockedEvents == {e \in Events : evLock[e] # None}

(* A waitAny that is registered with one event and takes the next one. *)
LEMMA PassedRank ==
  ASSUME NEW lists, NEW rank, InOneOrder(lists, rank), EventInv, InLists(lists),
         NEW g \in Fibers, pc[g] = "register", NEW e \in Elements(Passed(g))
  PROVE  Head(todo[g]) \in Events /\ rank[Head(todo[g])] < rank[e]
<1> DEFINE l == list[g]
           t == todo[g]
           n == Len(l) - Len(t)
<1>1. l \in Seq(Events) /\ t \in Seq(Events) /\ RestOf(t, l) /\ l \in lists
  BY DEF EventInv, TypeOK, Registering, InLists
<1>2. Len(t) \in Nat \ {0} /\ Len(l) \in Nat /\ Len(t) <= Len(l)
  BY <1>1, EmptySeq DEF RestOf
<1>3. Head(t) \in Events /\ Head(t) = l[n + 1]
  <2>1. Head(t) = t[1] /\ 1 \in 1 .. Len(t) /\ t[1] \in Events
    BY <1>1, <1>2
  <2> QED BY <1>1, <2>1 DEF RestOf
<1>4. PICK i \in 1 .. n : e = l[i]
  <2>1. Passed(g) = SubSeq(l, 1, n)
    BY DEF Passed
  <2> HIDE DEF n, l
  <2>2. n \in Nat /\ n <= Len(l)
    BY <1>2 DEF n
  <2>3. \A k \in 1 .. Len(l) : l[k] \in Events
    BY <1>1
  <2>4. Len(SubSeq(l, 1, n)) = n /\ \A i \in 1 .. n : SubSeq(l, 1, n)[i] = l[i]
    BY <1>1, <1>2, <2>2, <2>3, SubSeqProperties
  <2> QED BY <2>1, <2>4 DEF Elements
<1>5. i \in 1 .. Len(l) /\ n + 1 \in 1 .. Len(l) /\ i < n + 1
  <2>1. Len(t) \in Nat \ {0} /\ Len(l) \in Nat /\ Len(t) <= Len(l) /\ n = Len(l) - Len(t)
    BY <1>2
  <2> HIDE DEF n, l, t
  <2> QED BY <2>1, <1>4
<1>6. rank[l[i]] > rank[l[n + 1]]
  <2> HIDE DEF n, l
  <2> QED BY <1>1, <1>5 DEF InOneOrder
<1>7. rank[e] \in Nat /\ rank[Head(t)] \in Nat
  BY <1>1, <1>3, <1>4, <1>5 DEF InOneOrder
<1> QED BY <1>3, <1>4, <1>6, <1>7

LEMMA LessWellFounded == IsWellFoundedOn({s \in Nat \X Nat : s[1] < s[2]}, Nat)
<1>1. IsWellFoundedOn(OpToRel(<, Nat), Nat)
  BY NatLessThanWellFounded
<1> QED BY <1>1 DEF OpToRel

LEMMA Least ==
  ASSUME NEW S, S \subseteq Nat, S # {}
  PROVE  \E m \in S : \A n \in S : m <= n
<1> DEFINE R == {s \in Nat \X Nat : s[1] < s[2]}
<1>1. IsWellFoundedOn(R, Nat)
  BY LessWellFounded
<1>2. \A i, j \in Nat : i < j => <<i, j>> \in R
  OBVIOUS
<1> HIDE DEF R
<1>3. PICK m \in S : \A n \in S : <<n, m>> \notin R
  BY <1>1, WFMin
<1>4. ASSUME NEW n \in S PROVE m <= n
  <2>1. n \in Nat /\ m \in Nat /\ <<n, m>> \notin R
    BY <1>3
  <2>2. ~(n < m)
    BY <1>2, <2>1
  <2> QED BY <2>1, <2>2
<1> QED BY <1>4

LEMMA LowestLocked ==
  ASSUME NEW lists, NEW rank, InOneOrder(lists, rank), LockedEvents # {}
  PROVE  \E e \in LockedEvents : \A d \in LockedEvents : rank[e] <= rank[d]
<1>1. LockedEvents \subseteq Events /\ rank \in [Events -> Nat]
  BY DEF LockedEvents, InOneOrder
<1>2. PICK r : r = {rank[e] : e \in LockedEvents}
  OBVIOUS
<1>3. r \subseteq Nat /\ r # {}
  BY <1>1, <1>2
<1>4. PICK n \in r : \A m \in r : n <= m
  BY <1>3, Least
<1> QED BY <1>2, <1>4

(* If nobody who holds a mutex goes on, the mutex of each event waits for  *)
(* that of an event of lower rank, and this does not go on for ever.       *)
LEMMA HolderGoesOn ==
  ASSUME NEW lists, NEW rank, InOneOrder(lists, rank), EventInv, InLists(lists)
  PROVE  NoLockCycle
<1> SUFFICES ASSUME NEW f \in Fibers, Blocked(f),
                    \A g \in Fibers : (pmnLock[g] \/ \E e \in Events : evLock[e] = g) => Blocked(g)
             PROVE  FALSE
  BY DEF NoLockCycle
<1> USE DEF EventInv, TypeOK
<1>1. LockedEvents # {}
  <2>1. CASE pc[f] = "notify"
    <3>1. ev[f] \in Events /\ evLock[ev[f]] = f
      BY <2>1 DEF LocksHeld
    <3> QED BY <3>1, EventAssumption DEF LockedEvents
  <2>2. CASE pc[f] # "notify"
    <3>1. evLock[Head(todo[f])] # None /\ todo[f] # <<>>
      BY <2>2 DEF Blocked, Registering, RestOf
    <3>2. Head(todo[f]) \in Events
      BY <3>1, HeadTailProperties
    <3> QED BY <3>1, <3>2 DEF LockedEvents
  <2> QED BY <2>1, <2>2
<1>2. ASSUME NEW e \in LockedEvents PROVE \E d \in LockedEvents : rank[d] < rank[e]
  <2> DEFINE h == evLock[e]
             g == Head(mnWaiters[e])
  <2>1. e \in Events /\ h \in Fibers
    BY DEF LockedEvents
  <2>2. pc[h] = "notify" /\ ev[h] = e
    BY <2>1 DEF LocksHeld
  <2>3. Blocked(h)
    BY <2>1
  <2>4. mnWaiters[e] # <<>> /\ pmnLock[g]
    BY <2>2, <2>3 DEF Blocked
  <2>5. g \in Fibers /\ g \in Elements(mnWaiters[e])
    BY <2>1, <2>4, TailElements
  <2>6. pc[g] = "register" /\ Blocked(g)
    BY <2>4, <2>5 DEF LocksHeld
  <2>7. e \in Elements(Passed(g))
    BY <2>1, <2>5, <2>6 DEF OnNotifiers
  <2>8. Head(todo[g]) \in Events /\ rank[Head(todo[g])] < rank[e]
    BY <2>5, <2>6, <2>7, PassedRank
  <2>9. evLock[Head(todo[g])] # None
    BY <2>6 DEF Blocked
  <2> QED BY <2>8, <2>9 DEF LockedEvents
<1>3. PICK e \in LockedEvents : \A d \in LockedEvents : rank[e] <= rank[d]
  BY <1>1, LowestLocked
<1>4. PICK d \in LockedEvents : rank[d] < rank[e]
  BY <1>2
<1>5. rank[d] \in Nat /\ rank[e] \in Nat /\ rank[e] <= rank[d]
  BY <1>3 DEF LockedEvents, InOneOrder
<1> QED BY <1>4, <1>5

(* Workers do not block each other for good on the mutexes of Event and    *)
(* MultiNotifier: set, wait and waitAny, for any number of fibers, events  *)
(* and wait lists that name common events in one order.                    *)
THEOREM MutexesInOrder ==
  ASSUME NEW lists, NEW rank, InOneOrder(lists, rank)
  PROVE  Spec => []NoLockCycle
<1>1. Init => EventInv /\ InLists(lists)
  BY EventStarts DEF Init, InLists, InOneOrder
<1>2. EventInv /\ InLists(lists) /\ [Next]_vars => EventInv' /\ InLists(lists)'
  BY EventStep, InListsStep
<1>3. EventInv /\ InLists(lists) => NoLockCycle
  BY HolderGoesOn
<1> QED BY <1>1, <1>2, <1>3, PTL DEF Spec

(* Waits for at most two events are in one order if their lists are: what  *)
(* is left after a report is one event.                                    *)
LEMMA PairLeft ==
  ASSUME NEW l \in Seq(Events), Len(l) \in {1, 2}, NEW i \in 1 .. Len(l)
  PROVE  Remaining(l, l[i]) = <<>> \/ \E e \in Events : Remaining(l, l[i]) = <<e>>
<1> DEFINE w == [k \in 1 .. Len(l) |-> IF k = 1 THEN l[i] ELSE IF l[k] = l[i] THEN l[1] ELSE l[k]]
<1>1. w \in Seq(Events) /\ Len(w) = Len(l) /\ Remaining(l, l[i]) = Tail(w)
  <2>1. \A k \in 1 .. Len(l) : l[k] \in Events
    OBVIOUS
  <2>2. w \in [1 .. Len(l) -> Events]
    BY <2>1
  <2> QED BY <2>2 DEF Remaining
<1> HIDE DEF w
<1>2. w # <<>>
  BY <1>1, EmptySeq
<1>3. /\ Tail(w) \in Seq(Events) /\ Len(Tail(w)) = Len(l) - 1
  BY <1>1, <1>2, HeadTailProperties
<1>4. CASE Len(l) = 1
  BY <1>1, <1>3, <1>4, EmptySeq
<1>5. CASE Len(l) = 2
  <2>1. PICK t : t = Tail(w)
    OBVIOUS
  <2>2. t \in Seq(Events) /\ Len(t) = 1
    BY <1>3, <1>5, <2>1
  <2>3. t = <<t[1]>> /\ t[1] \in Events
    BY <2>2
  <2> QED BY <1>1, <2>1, <2>3
<1> QED BY <1>4, <1>5

LEMMA PairsInOrder ==
  ASSUME NEW rank \in [Events -> Nat],
         \A l \in WaitLists : Len(l) \in {1, 2} /\ (Len(l) = 2 => rank[l[1]] > rank[l[2]])
  PROVE  InOneOrder(WaitLists \cup {<<e>> : e \in Events} \cup {<<>>}, rank)
<1> DEFINE ones == {<<e>> : e \in Events}
           lists == WaitLists \cup ones \cup {<<>>}
<1>0. ASSUME NEW l \in lists, NEW i \in 1 .. Len(l)
      PROVE  l \in WaitLists \/ (l \in Seq(Events) /\ Len(l) = 1)
  <2>1. l # <<>>
    OBVIOUS
  <2>2. CASE l \in ones
    <3>1. PICK e \in Events : l = <<e>>
      BY <2>2
    <3> QED BY <3>1
  <2> HIDE DEF ones
  <2> QED BY <2>1, <2>2
<1> HIDE DEF lists
<1>1. ASSUME NEW l \in lists, NEW i \in 1 .. Len(l), NEW j \in 1 .. Len(l), i < j
      PROVE  rank[l[i]] > rank[l[j]]
  <2>1. l \in WaitLists
    <3>1. CASE l \in Seq(Events) /\ Len(l) = 1
      <4>1. i \in 1 .. 1 /\ j \in 1 .. 1
        BY <3>1
      <4> QED BY <1>1, <4>1
    <3> QED BY <1>0, <3>1
  <2>2. l \in Seq(Events) /\ Len(l) = 2 /\ i = 1 /\ j = 2
    BY <1>1, <2>1, EventAssumption
  <2> QED BY <2>1, <2>2
<1>2. ASSUME NEW l \in lists, NEW i \in 1 .. Len(l)
      PROVE  Remaining(l, l[i]) \in lists
  <2>1. l \in Seq(Events) /\ Len(l) \in {1, 2}
    BY <1>0, EventAssumption
  <2> QED BY <2>1, PairLeft DEF lists
<1> QED BY <1>1, <1>2 DEF InOneOrder, lists

(* Workers do not block each other for good on these mutexes if every wait *)
(* list names two events at most, in one order, as the waiters of pgc do,  *)
(* whose two futures are their own (src/pgc/impl/db.cpp).                  *)
THEOREM PairsNeverCycle ==
  ASSUME NEW rank \in [Events -> Nat],
         \A l \in WaitLists : Len(l) \in {1, 2} /\ (Len(l) = 2 => rank[l[1]] > rank[l[2]])
  PROVE  Spec => []NoLockCycle
BY PairsInOrder, MutexesInOrder

-----------------------------------------------------------------------------
(* Futures. *)

Datas(f) == [1 .. Volume[f] -> BOOLEAN]
Customs == [event : Futures, originalIndex : Nat]

FutureTypeOK ==
    /\ DOMAIN data = Futures /\ \A f \in Futures : data[f] \in Datas(f)
    /\ isReady \in [Futures -> BOOLEAN]
    /\ events \in Seq(Futures)
    /\ customs \in [1 .. Len(events) -> Customs]
    /\ current \in Nat \cup {WrongIndex}
    /\ exhausted \in BOOLEAN
    /\ DOMAIN seen = Futures

(* A future is ready only when all of its data are written. *)
ReadyComplete == \A f \in Futures : isReady[f] => \A k \in 1 .. Volume[f] : data[f][k]
SeenComplete == \A f \in Futures : seen[f] = NotSeen \/ Complete(seen[f])

(* The two arrays hold each of the futures, under its index. *)
InStep ==
    /\ \A i \in 1 .. Len(events) : customs[i].event = events[i]
    /\ \A i, j \in 1 .. Len(events) : customs[i].originalIndex = customs[j].originalIndex => i = j
    /\ {customs[i].originalIndex : i \in 1 .. Len(events)} = 0 .. Len(events) - 1

(* What was reported are the first places of the arrays, which are not     *)
(* swapped again.                                                          *)
ReportsExact ==
    /\ reports \in Seq({reports[i] : i \in DOMAIN reports})
    /\ Len(reports) = (IF exhausted THEN Len(events) ELSE NextIndex)
    /\ Len(reports) <= Len(events)
    /\ \A i \in 1 .. Len(reports) :
         /\ reports[i].index = customs[i].originalIndex
         /\ reports[i].ready /\ Complete(reports[i].data)

FutureInv == FutureTypeOK /\ ReadyComplete /\ SeenComplete /\ InStep /\ ReportsExact

(* What a fiber reads of a future that is ready. *)
LEMMA DataComplete ==
  ASSUME FutureTypeOK, ReadyComplete, NEW f \in Futures, isReady[f]
  PROVE  Complete(data[f])
<1>1. Volume[f] \in 1 .. 3 /\ data[f] \in [1 .. Volume[f] -> BOOLEAN]
  BY FutureAssumption DEF FutureTypeOK, Datas
<1>2. data[f] # NotSeen
  <2>1. 1 \in DOMAIN data[f]
    BY <1>1
  <2>2. 1 \notin DOMAIN <<>>
    OBVIOUS
  <2> QED BY <2>1, <2>2 DEF NotSeen
<1> QED BY <1>1, <1>2 DEF Complete, ReadyComplete

LEMMA IntervalLength ==
  ASSUME NEW m \in Nat, NEW n \in Nat, 1 .. m = 1 .. n
  PROVE  m = n
<1>1. n > 0 => n \in 1 .. m
  OBVIOUS
<1>2. m > 0 => m \in 1 .. n
  OBVIOUS
<1> QED BY <1>1, <1>2

LEMMA FutureStarts == ASSUME NEW l \in Seq(Futures), FutureStart(l) PROVE FutureInv
<1>1. Len(l) \in Nat /\ DOMAIN l = 1 .. Len(l) /\ events = l
  BY DEF FutureStart
<1>2. customs = [i \in 1 .. Len(l) |-> [event |-> l[i], originalIndex |-> i - 1]]
  BY <1>1 DEF FutureStart, Held
<1>3. customs \in [1 .. Len(l) -> Customs]
  BY <1>1, <1>2 DEF Customs
<1>4. FutureTypeOK
  BY <1>1, <1>3 DEF FutureStart, FutureTypeOK, Datas
<1>5. InStep
  <2>1. \A i \in 1 .. Len(l) : customs[i].event = l[i] /\ customs[i].originalIndex = i - 1
    BY <1>2
  <2>2. \A k \in 0 .. Len(l) - 1 : k + 1 \in 1 .. Len(l) /\ customs[k + 1].originalIndex = k
    BY <1>1, <2>1
  <2>3. {customs[i].originalIndex : i \in 1 .. Len(l)} = 0 .. Len(l) - 1
    BY <1>1, <2>1, <2>2
  <2> QED BY <1>1, <2>1, <2>3 DEF InStep
<1>6. ReportsExact
  <2>1. reports = <<>> /\ ~exhausted /\ NextIndex = 0
    BY DEF FutureStart, NextIndex
  <2>2. Len(reports) = 0 /\ reports \in Seq({reports[i] : i \in DOMAIN reports})
    BY <2>1
  <2> QED BY <1>1, <2>1, <2>2 DEF ReportsExact
<1>7. ReadyComplete /\ SeenComplete
  BY DEF FutureStart, ReadyComplete, SeenComplete
<1> QED BY <1>4, <1>5, <1>6, <1>7 DEF FutureInv

LEMMA WritePartKeeps ==
  ASSUME FutureInv, NEW f \in Futures, WritePart(f)
  PROVE  FutureInv'
<1> DEFINE n == Written(f) + 1
<1>1. /\ data' = [data EXCEPT ![f] = [data[f] EXCEPT ![n] = TRUE]]
      /\ UNCHANGED <<isReady, customs, events, current, exhausted, reports, seen>>
  BY DEF WritePart
<1> HIDE DEF n
<1>2. \A g \in Futures : /\ data'[g] \in Datas(g)
                         /\ \A k \in 1 .. Volume[g] : data[g][k] => data'[g][k]
  BY <1>1 DEF FutureInv, FutureTypeOK, Datas
<1>3. FutureTypeOK'
  BY <1>1, <1>2 DEF FutureInv, FutureTypeOK
<1>4. ReadyComplete'
  BY <1>1, <1>2 DEF FutureInv, ReadyComplete
<1>5. SeenComplete' /\ InStep' /\ ReportsExact'
  BY <1>1 DEF FutureInv, SeenComplete, InStep, ReportsExact, NextIndex
<1> QED BY <1>3, <1>4, <1>5 DEF FutureInv

LEMMA SetReadyKeeps ==
  ASSUME FutureInv, NEW f \in Futures, SetReady(f)
  PROVE  FutureInv'
<1>1. /\ isReady' = [isReady EXCEPT ![f] = TRUE]
      /\ UNCHANGED <<data, customs, events, current, exhausted, reports, seen>>
  BY DEF SetReady
<1>2. \A k \in 1 .. Volume[f] : data[f][k]
  <2> DEFINE P == {k \in 1 .. Volume[f] : data[f][k]}
  <2>1. Volume[f] \in Nat /\ Volume[f] >= 1
    BY FutureAssumption
  <2>2. IsFiniteSet(1 .. Volume[f]) /\ Cardinality(1 .. Volume[f]) = Volume[f]
    BY <2>1, FS_Interval
  <2>3. Cardinality(P) = Volume[f]
    BY DEF SetReady, Written
  <2>4. P \in SUBSET (1 .. Volume[f])
    OBVIOUS
  <2> HIDE DEF P
  <2>5. P = 1 .. Volume[f]
    BY <2>2, <2>3, <2>4, FS_Subset
  <2> QED BY <2>5 DEF P
<1>3. FutureTypeOK'
  BY <1>1 DEF FutureInv, FutureTypeOK
<1>4. ReadyComplete'
  BY <1>1, <1>2 DEF FutureInv, FutureTypeOK, ReadyComplete
<1>5. SeenComplete' /\ InStep' /\ ReportsExact'
  BY <1>1 DEF FutureInv, SeenComplete, InStep, ReportsExact, NextIndex
<1> QED BY <1>3, <1>4, <1>5 DEF FutureInv

LEMMA ReadDataKeeps ==
  ASSUME FutureInv, NEW f \in Futures, ReadData(f)
  PROVE  FutureInv'
<1>1. /\ isReady[f] /\ seen' = [seen EXCEPT ![f] = data[f]]
      /\ UNCHANGED <<data, isReady, customs, events, current, exhausted, reports>>
  BY DEF ReadData
<1>2. Complete(data[f])
  BY <1>1, DataComplete DEF FutureInv
<1>3. FutureTypeOK'
  BY <1>1 DEF FutureInv, FutureTypeOK
<1>4. SeenComplete'
  BY <1>1, <1>2 DEF FutureInv, FutureTypeOK, SeenComplete
<1>5. ReadyComplete' /\ InStep' /\ ReportsExact'
  BY <1>1 DEF FutureInv, ReadyComplete, InStep, ReportsExact, NextIndex
<1> QED BY <1>3, <1>4, <1>5 DEF FutureInv

(* wait reorders the two arrays alike, behind what was reported.           *)
LEMMA WaitNextKeeps ==
  ASSUME FutureInv, WaitNext
  PROVE  FutureInv'
<1> USE DEF FutureInv
<1> DEFINE n == NextIndex
           len == Len(events)
<1>1. /\ ~exhausted /\ current' = n /\ n < len
      /\ UNCHANGED <<data, isReady, exhausted, seen>>
      /\ reports' = Append(reports, [index |-> customs'[n + 1].originalIndex,
                                     data |-> data[customs'[n + 1].event],
                                     ready |-> isReady[customs'[n + 1].event]])
  BY DEF WaitNext
<1>2. PICK ready \in n .. len - 1 :
        /\ isReady[events[ready + 1]]
        /\ events' = [events EXCEPT ![n + 1] = events[ready + 1], ![ready + 1] = events[n + 1]]
        /\ customs' = [customs EXCEPT ![n + 1] = customs[ready + 1], ![ready + 1] = customs[n + 1]]
  BY DEF WaitNext, Swapped
<1>3. len \in Nat /\ n \in Nat /\ Len(reports) = n
  BY <1>1 DEF FutureTypeOK, ReportsExact, NextIndex, WrongIndex
<1> HIDE DEF n, len
<1> DEFINE a == n + 1
           b == ready + 1
           q(i) == IF i = b THEN a ELSE IF i = a THEN b ELSE i
<1>4. a \in 1 .. len /\ b \in 1 .. len /\ a > n /\ b > n
  BY <1>1, <1>2, <1>3
<1>5. /\ events \in [1 .. len -> Futures] /\ customs \in [1 .. len -> Customs]
      /\ events' = [events EXCEPT ![a] = events[b], ![b] = events[a]]
      /\ customs' = [customs EXCEPT ![a] = customs[b], ![b] = customs[a]]
  BY <1>2 DEF FutureTypeOK, len
<1> HIDE DEF a, b
<1>6. /\ events' \in [1 .. len -> Futures] /\ customs' \in [1 .. len -> Customs]
      /\ \A i \in 1 .. len : events'[i] = events[q(i)] /\ customs'[i] = customs[q(i)]
      /\ \A i \in 1 .. len : q(i) \in 1 .. len /\ q(q(i)) = i
  BY <1>4, <1>5
<1>7. events' \in Seq(Futures) /\ Len(events') = len
  <2>1. events' \in Seq(Futures)
    BY <1>3, <1>6, SeqDef
  <2>2. DOMAIN events' = 1 .. Len(events') /\ DOMAIN events' = 1 .. len /\ Len(events') \in Nat
    BY <1>6, <2>1
  <2> QED BY <1>3, <2>1, <2>2, IntervalLength
<1> HIDE DEF q
<1>8. FutureTypeOK'
  BY <1>1, <1>3, <1>6, <1>7 DEF FutureTypeOK
<1>9. ReadyComplete' /\ SeenComplete'
  BY <1>1 DEF ReadyComplete, SeenComplete
<1>10. InStep'
  <2>1. \A i \in 1 .. len : customs'[i].event = events'[i]
    BY <1>6 DEF InStep, len
  <2>2. ASSUME NEW i \in 1 .. len, NEW j \in 1 .. len,
               customs'[i].originalIndex = customs'[j].originalIndex
        PROVE  i = j
    <3>1. q(i) = q(j)
      BY <1>6, <2>2 DEF InStep, len
    <3> QED BY <1>6, <3>1
  <2>3. {customs'[i].originalIndex : i \in 1 .. len} = {customs[i].originalIndex : i \in 1 .. len}
    <3>1. ASSUME NEW i \in 1 .. len
          PROVE  /\ \E j \in 1 .. len : customs'[i].originalIndex = customs[j].originalIndex
                 /\ \E j \in 1 .. len : customs[i].originalIndex = customs'[j].originalIndex
      BY <1>6
    <3>2. {customs'[i].originalIndex : i \in 1 .. len} \subseteq {customs[i].originalIndex : i \in 1 .. len}
      <4> SUFFICES ASSUME NEW i \in 1 .. len
                   PROVE  customs'[i].originalIndex \in {customs[j].originalIndex : j \in 1 .. len}
        OBVIOUS
      <4>1. PICK j \in 1 .. len : customs'[i].originalIndex = customs[j].originalIndex
        BY <3>1
      <4> QED BY <4>1
    <3>3. {customs[i].originalIndex : i \in 1 .. len} \subseteq {customs'[i].originalIndex : i \in 1 .. len}
      <4> SUFFICES ASSUME NEW i \in 1 .. len
                   PROVE  customs[i].originalIndex \in {customs'[j].originalIndex : j \in 1 .. len}
        OBVIOUS
      <4>1. PICK j \in 1 .. len : customs[i].originalIndex = customs'[j].originalIndex
        BY <3>1
      <4> QED BY <4>1
    <3> QED BY <3>2, <3>3
  <2> QED BY <1>7, <2>1, <2>2, <2>3 DEF InStep, len
<1>11. ReportsExact'
  <2> DEFINE c == customs'[n + 1]
             r == [index |-> c.originalIndex, data |-> data[c.event], ready |-> isReady[c.event]]
             S == {reports[i] : i \in DOMAIN reports} \cup {r}
  <2>1. reports \in Seq({reports[i] : i \in DOMAIN reports})
    BY DEF ReportsExact
  <2>2. /\ Len(reports') = n + 1
        /\ \A i \in 1 .. n : reports'[i] = reports[i]
        /\ reports'[n + 1] = r
        /\ reports' \in Seq(S)
    <3> HIDE DEF r
    <3>1. reports \in Seq(S) /\ r \in S
      BY <2>1, SeqMonotonic
    <3>2. reports' = Append(reports, r)
      BY <1>1 DEF r
    <3> HIDE DEF S
    <3> QED BY <1>3, <3>1, <3>2
  <2>3. reports' \in Seq({reports'[i] : i \in DOMAIN reports'})
    BY <1>3, <2>2, SeqDef
  <2>4. isReady[c.event] /\ Complete(data[c.event])
    <3>1. c = customs[b] /\ c.event = events[b] /\ events[b] \in Futures
      BY <1>4, <1>5, <1>6 DEF a, q, InStep, len
    <3>2. isReady[c.event]
      BY <1>2, <3>1 DEF b
    <3> QED BY <3>1, <3>2, DataComplete
  <2>5. ASSUME NEW i \in 1 .. n
        PROVE  /\ reports'[i].index = customs'[i].originalIndex
               /\ reports'[i].ready /\ Complete(reports'[i].data)
    <3>1. i # a /\ i # b /\ i \in 1 .. len
      BY <1>1, <1>3, <1>4
    <3>2. customs'[i] = customs[i] /\ reports'[i] = reports[i]
      BY <1>6, <2>2, <3>1 DEF q
    <3> QED BY <1>3, <3>2 DEF ReportsExact
  <2>6. NextIndex' = n + 1
    BY <1>1, <1>3 DEF NextIndex, WrongIndex
  <2>7. Len(reports') <= len
    BY <1>1, <1>3, <2>2
  <2>8. ASSUME NEW i \in 1 .. Len(reports')
        PROVE  /\ reports'[i].index = customs'[i].originalIndex
               /\ reports'[i].ready /\ Complete(reports'[i].data)
    <3>1. CASE i = n + 1
      BY <2>2, <2>4, <3>1
    <3>2. CASE i # n + 1
      <4>1. i \in 1 .. n
        BY <1>3, <2>2, <3>2
      <4> QED BY <2>5, <4>1
    <3> QED BY <3>1, <3>2
  <2> QED BY <1>1, <1>7, <2>2, <2>3, <2>6, <2>7, <2>8 DEF ReportsExact
<1> QED BY <1>8, <1>9, <1>10, <1>11

LEMMA FutureStep == FutureInv /\ [FutureNext]_futureVars => FutureInv'
<1> SUFFICES ASSUME FutureInv, [FutureNext]_futureVars PROVE FutureInv'
  OBVIOUS
<1>1. ASSUME WaitExhausted PROVE FutureInv'
  <2> USE <1>1 DEF FutureInv
  <2>1. /\ ~exhausted /\ NextIndex >= Len(events) /\ exhausted' = TRUE /\ current' = NextIndex
        /\ UNCHANGED <<data, isReady, customs, events, reports, seen>>
    BY DEF WaitExhausted
  <2>2. NextIndex \in Nat /\ Len(events) \in Nat /\ Len(reports) = Len(events)
    BY <2>1 DEF FutureTypeOK, ReportsExact, NextIndex, WrongIndex
  <2>3. FutureTypeOK'
    BY <2>1, <2>2 DEF FutureTypeOK
  <2>4. ReportsExact'
    BY <2>1, <2>2 DEF ReportsExact
  <2> QED BY <2>1, <2>3, <2>4 DEF ReadyComplete, SeenComplete, InStep
<1>2. CASE FutureNext
  BY <1>1, <1>2, WritePartKeeps, SetReadyKeeps, ReadDataKeeps, WaitNextKeeps DEF FutureNext
<1>3. CASE UNCHANGED futureVars
  BY <1>3 DEF futureVars, FutureInv, FutureTypeOK, ReadyComplete, SeenComplete, InStep,
              ReportsExact, NextIndex
<1> QED BY <1>2, <1>3

LEMMA InvMeansExact == FutureInv => FutureExact
<1> SUFFICES ASSUME FutureInv PROVE FutureExact
  OBVIOUS
<1> USE DEF FutureInv
<1>1. DOMAIN events = 1 .. Len(events) /\ Len(events) \in Nat
  BY DEF FutureTypeOK
<1>2. DOMAIN reports = 1 .. Len(reports) /\ Len(reports) \in Nat
  BY DEF ReportsExact
<1>3. \A i \in 1 .. Len(reports) : i \in 1 .. Len(events)
  BY <1>1, <1>2 DEF ReportsExact
<1>4. \A i, j \in DOMAIN reports : reports[i].index = reports[j].index => i = j
  BY <1>2, <1>3 DEF ReportsExact, InStep
<1>5. \A i \in DOMAIN reports : reports[i].ready /\ Complete(reports[i].data)
  BY <1>2 DEF ReportsExact
<1>6. exhausted => {reports[i].index : i \in DOMAIN reports} = 0 .. Len(events) - 1
  <2> SUFFICES ASSUME exhausted
               PROVE  {reports[i].index : i \in DOMAIN reports} = 0 .. Len(events) - 1
    OBVIOUS
  <2>1. Len(reports) = Len(events)
    BY DEF ReportsExact
  <2>2. {reports[i].index : i \in 1 .. Len(events)} = {customs[i].originalIndex : i \in 1 .. Len(events)}
    BY <2>1 DEF ReportsExact
  <2> QED BY <1>2, <2>1, <2>2 DEF InStep
<1>7. \A i \in DOMAIN events : customs[i].event = events[i]
  BY <1>1 DEF InStep
<1>8. \A f \in Futures : seen[f] = NotSeen \/ Complete(seen[f])
  BY DEF SeenComplete
<1> QED BY <1>4, <1>5, <1>6, <1>7, <1>8 DEF FutureExact

-----------------------------------------------------------------------------
(* The waiter lists, the flags and the sleeping fibers of every event      *)
(* agree, and whoever waits for futures gets each of them once, complete,  *)
(* in whatever order they get ready: Event::set, wait and waitAny, Future  *)
(* and EventWaiter, for all fibers, events, wait lists and futures.        *)
THEOREM FuturesAreDelivered == EventSpec => []FuturesDelivered
<1> DEFINE BothInv == EventInv /\ FutureInv
<1>1. EventInit => BothInv
  <2> SUFFICES ASSUME EventInit PROVE BothInv
    OBVIOUS
  <2>1. EventInv
    BY EventStarts DEF EventInit
  <2>2. CASE part = "future"
    <3>1. PICK l \in FutureLists : FutureStart(l)
      BY <2>2 DEF EventInit, FutureInit
    <3>2. l \in Seq(Futures)
      BY FutureAssumption
    <3> QED BY <2>1, <3>1, <3>2, FutureStarts
  <2>3. CASE part # "future"
    <3>1. FutureStart(<<>>) /\ <<>> \in Seq(Futures)
      BY <2>3 DEF EventInit
    <3> QED BY <2>1, <3>1, FutureStarts
  <2> QED BY <2>2, <2>3
<1>2. BothInv /\ [EventNext]_<<part, vars, futureVars>> => BothInv'
  <2> SUFFICES ASSUME BothInv, [EventNext]_<<part, vars, futureVars>> PROVE BothInv'
    OBVIOUS
  <2>1. [Next]_vars /\ [FutureNext]_futureVars
    BY DEF EventNext
  <2> QED BY <2>1, EventStep, FutureStep
<1>3. BothInv => FuturesDelivered
  BY InvMeansConsistent, InvMeansExact DEF FuturesDelivered
<1> QED BY <1>1, <1>2, <1>3, PTL DEF EventSpec
=============================================================================
