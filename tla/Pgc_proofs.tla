----------------------------- MODULE Pgc_proofs -----------------------------
(* Proofs about the pgc library: the pool of connections (PgcDb), one      *)
(* connection (ConnectionHolder), what becomes of values and rows          *)
(* (PgcValues, PgcResult), and the objects that hold values (Variant).     *)
EXTENDS PgcDb, ConnectionHolder, PgcResult, Variant,
        FiniteSetTheorems, SequenceTheorems, WellFoundedInduction, TLAPS

-----------------------------------------------------------------------------
(* The pool. *)

(* No fiber waits twice: the queue gives each waiter one connection. *)
WaitersDistinct ==
    \A i, j \in 1 .. Len(waiters) : waiters[i] = waiters[j] => i = j

PoolInv == TypeOK /\ PoolConsistent /\ WaitersDistinct

LEMMA MinOfTwo ==
  ASSUME NEW a \in Nat, NEW b \in Nat
  PROVE  Min({a, b}) \in Nat /\ Min({a, b}) <= a /\ Min({a, b}) <= b
<1>1. \E x \in {a, b} : \A y \in {a, b} : x <= y
  OBVIOUS
<1>2. Min({a, b}) \in {a, b} /\ \A y \in {a, b} : Min({a, b}) <= y
  BY <1>1 DEF Min
<1> QED BY <1>2

LEMMA AtMostOne ==
  ASSUME NEW S, IsFiniteSet(S), Cardinality(S) <= 1, NEW T \in SUBSET S
  PROVE  Cardinality(T) <= 1
<1>1. Cardinality(T) <= Cardinality(S) /\ IsFiniteSet(T)
  BY FS_Subset
<1>2. Cardinality(T) \in Nat /\ Cardinality(S) \in Nat
  BY <1>1, FS_CardinalityType
<1> QED BY <1>1, <1>2

LEMMA PoolInit == Init => PoolInv
<1> SUFFICES ASSUME Init PROVE PoolInv
  OBVIOUS
<1>1. Waiting = {}
  BY DEF Init, Waiting
<1>2. Cardinality(start) <= 1
  BY FS_EmptySet DEF Init
<1>3. TypeOK
  BY DbAssumption DEF Init, TypeOK
<1>4. PoolConsistent
  BY <1>1, <1>2 DEF Init, PoolConsistent
<1>5. WaitersDistinct
  BY DEF Init, WaitersDistinct
<1> QED BY <1>3, <1>4, <1>5 DEF PoolInv

(* A newcomer takes a ready connection nobody holds, or waits once. *)
LEMMA AllocKeeps ==
  ASSUME PoolInv, NEW u \in Clients, Alloc(u)
  PROVE  PoolInv'
<1> USE DbAssumption DEF PoolInv
<1>1. CASE \E c \in ready : /\ status[c] = "ok"
                            /\ conn' = [conn EXCEPT ![u] = c]
                            /\ ready' = ready \ {c}
                            /\ work' = work \cup {c}
                            /\ UNCHANGED <<waiters, balances>>
  <2> PICK c \in ready : /\ status[c] = "ok"
                         /\ conn' = [conn EXCEPT ![u] = c]
                         /\ ready' = ready \ {c}
                         /\ work' = work \cup {c}
                         /\ UNCHANGED <<waiters, balances>>
    BY <1>1
  <2>1. UNCHANGED <<maxConnections, start, timers, status, makes, resetting>>
    BY DEF Alloc
  <2>2. conn[u] = None /\ u \notin Waiting /\ c \in Conns /\ c # None /\ c \notin work
    BY DEF Alloc, TypeOK, PoolConsistent
  <2>3. TypeOK'
    BY <2>1, <2>2 DEF TypeOK
  <2>4. Waiting' = Waiting
    BY DEF Waiting
  <2>5. \A v \in Clients : conn'[v] = IF v = u THEN c ELSE conn[v]
    BY DEF TypeOK
  <2>6. work' = {conn'[v] : v \in Clients} \ {None}
    BY <2>2, <2>5 DEF PoolConsistent
  <2>7. \A v, w \in Clients : conn'[v] = conn'[w] /\ conn'[v] # None => v = w
    BY <2>2, <2>5 DEF PoolConsistent
  <2>8. \A v \in Waiting' : conn'[v] = None
    <3>1. Waiting \subseteq Clients
      BY DEF TypeOK, Waiting
    <3> QED BY <2>2, <2>4, <2>5, <3>1 DEF PoolConsistent
  <2>9. PoolConsistent'
    BY <2>1, <2>2, <2>6, <2>7, <2>8 DEF PoolConsistent
  <2> QED BY <2>3, <2>9 DEF WaitersDistinct
<1>2. CASE /\ balances < MaxPending
           /\ waiters' = Append(waiters, u)
           /\ balances' = balances + 1
           /\ UNCHANGED <<conn, ready, work>>
  <2>1. UNCHANGED <<maxConnections, start, timers, status, makes, resetting>>
    BY DEF Alloc
  <2>2. conn[u] = None /\ u \notin Waiting
    BY DEF Alloc
  <2>3. waiters \in Seq(Clients)
    BY DEF TypeOK
  <2>4. TypeOK'
    BY <1>2, <2>1, <2>3 DEF TypeOK
  <2>5. /\ Len(waiters') = Len(waiters) + 1
        /\ \A i \in 1 .. Len(waiters) : waiters'[i] = waiters[i]
        /\ waiters'[Len(waiters) + 1] = u
    BY <1>2, <2>3
  <2>6. Waiting' = Waiting \cup {u}
    BY <2>3, <2>5 DEF Waiting
  <2>7. PoolConsistent'
    BY <1>2, <2>1, <2>2, <2>6 DEF PoolConsistent
  <2>8. WaitersDistinct'
    BY <2>2, <2>3, <2>5 DEF WaitersDistinct, Waiting
  <2> QED BY <2>4, <2>7, <2>8
<1> QED BY <1>1, <1>2 DEF Alloc

LEMMA BreakKeeps ==
  ASSUME PoolInv, NEW c \in Conns, Break(c)
  PROVE  PoolInv'
<1> USE DbAssumption DEF PoolInv, poolVars
<1>1. c \notin start /\ c \notin ready
  BY DEF Break, TypeOK, PoolConsistent
<1>2. TypeOK'
  BY DEF Break, TypeOK
<1>3. \A d \in Conns : status'[d] = IF d = c THEN "lost" ELSE status[d]
  BY DEF Break, TypeOK
<1>4. Waiting' = Waiting
  BY DEF Break, Waiting
<1>5. start \cup ready \cup work \subseteq Conns
  BY DEF TypeOK
<1>6. PoolConsistent'
  BY <1>1, <1>3, <1>4, <1>5 DEF Break, PoolConsistent
<1> QED BY <1>2, <1>6 DEF Break, WaitersDistinct

(* What a client gives back was its own. *)
LEMMA UnworkKeeps ==
  ASSUME PoolInv, NEW u \in Clients, Unwork(u)
  PROVE  PoolInv'
<1> USE DbAssumption DEF PoolInv
<1> DEFINE c == conn[u]
<1>1. c \in work /\ c \in Conns /\ c \notin start /\ c \notin ready
  BY DEF Unwork, TypeOK, PoolConsistent
<1>2. UNCHANGED <<maxConnections, start, waiters, timers, status, makes, resetting>>
  BY DEF Unwork
<1>3. /\ work' = work \ {c}
      /\ ready' = ready \/ (ready' = ready \cup {c} /\ status[c] = "ok")
      /\ conn' = [conn EXCEPT ![u] = None]
      /\ balances' \in 0 .. MaxPending
  BY DEF Unwork, TypeOK, Reusable, BalanceAgain
<1>4. TypeOK'
  BY <1>1, <1>2, <1>3 DEF TypeOK
<1>5. Waiting' = Waiting
  BY <1>2 DEF Waiting
<1>6. \A v \in Clients : conn'[v] = IF v = u THEN None ELSE conn[v]
  BY <1>3 DEF TypeOK
<1>7. work' = {conn'[v] : v \in Clients} \ {None}
  <2>1. \A d : d \in work <=> d # None /\ \E v \in Clients : conn[v] = d
    BY DEF PoolConsistent
  <2>2. \A d : d \in work' <=> d \in work /\ d # c
    BY <1>3
  <2>3. \A v \in Clients : v # u => conn[v] # c
    BY <1>1 DEF PoolConsistent
  <2>4. \A d : d \in work' <=> d # None /\ \E v \in Clients : conn'[v] = d
    BY <1>6, <2>1, <2>2, <2>3
  <2> QED BY <2>4
<1>8. \A v, w \in Clients : conn'[v] = conn'[w] /\ conn'[v] # None => v = w
  BY <1>6 DEF PoolConsistent
<1>9. \A v \in Waiting' : conn'[v] = None
  <2>1. Waiting \subseteq Clients
    BY DEF TypeOK, Waiting
  <2> QED BY <2>1, <1>5, <1>6 DEF PoolConsistent
<1>10. PoolConsistent'
  BY <1>1, <1>2, <1>3, <1>7, <1>8, <1>9 DEF PoolConsistent
<1> QED BY <1>2, <1>4, <1>10 DEF WaitersDistinct

(* Whatever is closed, the first n waiters get n different connections     *)
(* that were ready.                                                        *)
LEMMA BalanceKeeps ==
  ASSUME PoolInv, Balance
  PROVE  PoolInv'
<1> USE DbAssumption DEF PoolInv
<1>1. PICK closed \in kSubset(Excess, ready) :
         LET kept == ready \ closed
             n == Min({Len(waiters), Cardinality(kept)})
             rest == SubSeq(waiters, n + 1, Len(waiters))
         IN  \E given \in [1 .. n -> kept] :
               /\ \A i, j \in 1 .. n : given[i] = given[j] => i = j
               /\ conn' = [u \in Clients |->
                             IF \E i \in 1 .. n : waiters[i] = u
                             THEN given[CHOOSE i \in 1 .. n : waiters[i] = u] ELSE conn[u]]
               /\ ready' = kept \ {given[i] : i \in 1 .. n}
               /\ work' = work \cup {given[i] : i \in 1 .. n}
               /\ waiters' = IF maxConnections = 0 THEN <<>> ELSE rest
               /\ makes' = IF Wanted(rest, work') THEN makes + 1 ELSE makes
               /\ status' = [c \in Conns |-> IF c \in closed THEN "null" ELSE status[c]]
  BY DEF Balance
<1> DEFINE kept == ready \ closed
           n == Min({Len(waiters), Cardinality(kept)})
           rest == SubSeq(waiters, n + 1, Len(waiters))
<1>2. PICK given \in [1 .. n -> kept] :
         /\ \A i, j \in 1 .. n : given[i] = given[j] => i = j
         /\ conn' = [u \in Clients |->
                       IF \E i \in 1 .. n : waiters[i] = u
                       THEN given[CHOOSE i \in 1 .. n : waiters[i] = u] ELSE conn[u]]
         /\ ready' = kept \ {given[i] : i \in 1 .. n}
         /\ work' = work \cup {given[i] : i \in 1 .. n}
         /\ waiters' = IF maxConnections = 0 THEN <<>> ELSE rest
         /\ makes' = IF Wanted(rest, work') THEN makes + 1 ELSE makes
         /\ status' = [c \in Conns |-> IF c \in closed THEN "null" ELSE status[c]]
  BY <1>1
<1>3. UNCHANGED <<maxConnections, start, timers, resetting>> /\ balances' = balances - 1
      /\ balances > 0 /\ makes < MaxPending
  BY DEF Balance
<1>4. closed \subseteq ready /\ kept \subseteq ready /\ ready \subseteq Conns
  BY DEF kSubset, TypeOK
<1>5. n \in Nat /\ n <= Len(waiters)
  <2>1. IsFiniteSet(kept)
    BY <1>4, FS_Subset DEF TypeOK
  <2>2. Len(waiters) \in Nat /\ Cardinality(kept) \in Nat
    BY <2>1, FS_CardinalityType DEF TypeOK
  <2> QED BY <2>2, MinOfTwo
<1> HIDE DEF n
<1>6. waiters \in Seq(Clients) /\ Waiting \subseteq Clients
  BY DEF TypeOK, Waiting
<1>7. \A i \in 1 .. n : waiters[i] \in Waiting /\ conn[waiters[i]] = None
  BY <1>5, <1>6 DEF Waiting, PoolConsistent
<1>8. \A i \in 1 .. n : given[i] \in kept
  BY <1>2
<1>9. \A i \in 1 .. n : waiters[i] \in Clients /\ conn'[waiters[i]] = given[i]
  <2> TAKE i \in 1 .. n
  <2>1. waiters[i] \in Clients
    BY <1>5, <1>6
  <2> DEFINE k == CHOOSE j \in 1 .. n : waiters[j] = waiters[i]
  <2>2. k \in 1 .. n /\ waiters[k] = waiters[i]
    OBVIOUS
  <2>3. k = i
    BY <1>5, <1>6, <2>2 DEF WaitersDistinct
  <2>4. conn'[waiters[i]] = given[k]
    BY <1>2, <2>1
  <2> QED BY <2>1, <2>3, <2>4
<1>10. \A u \in Clients : \/ \E i \in 1 .. n : waiters[i] = u
                          \/ conn'[u] = conn[u]
  BY <1>2
<1>11. rest \in Seq(Clients) /\ \A i \in 1 .. Len(rest) : rest[i] = waiters[n + i]
       /\ Len(rest) = Len(waiters) - n
  BY <1>5, <1>6
<1>12. waiters' \in Seq(Clients) /\ \A i \in 1 .. Len(waiters') : waiters'[i] = waiters[n + i]
       /\ Len(waiters') <= Len(waiters) - n
  <2>1. CASE maxConnections = 0
    BY <1>2, <1>5, <1>6, <2>1
  <2>2. CASE maxConnections # 0
    BY <1>2, <1>11, <2>2
  <2> QED BY <2>1, <2>2
<1>13. TypeOK'
  <2>1. conn' \in [Clients -> Conns \cup {None}]
    <3>1. \A u \in Clients : conn'[u] \in Conns \cup {None}
      BY <1>4, <1>8, <1>9, <1>10 DEF TypeOK
    <3> QED BY <1>2, <3>1
  <2>2. status' \in [Conns -> {"null", "ok", "lost"}]
    BY <1>2 DEF TypeOK
  <2>3. ready' \subseteq Conns /\ work' \subseteq Conns
    BY <1>2, <1>4, <1>8 DEF TypeOK
  <2>4. makes' \in 0 .. MaxPending /\ balances' \in 0 .. MaxPending
    BY <1>2, <1>3 DEF TypeOK
  <2> QED BY <1>3, <1>12, <2>1, <2>2, <2>3, <2>4 DEF TypeOK
<1>14. WaitersDistinct'
  <2> SUFFICES ASSUME NEW i \in 1 .. Len(waiters'), NEW j \in 1 .. Len(waiters'),
                      waiters'[i] = waiters'[j]
               PROVE  i = j
    BY DEF WaitersDistinct
  <2>1. n + i \in 1 .. Len(waiters) /\ n + j \in 1 .. Len(waiters)
    BY <1>5, <1>6, <1>12
  <2>2. waiters[n + i] = waiters[n + j]
    BY <1>12
  <2>3. n + i = n + j
    BY <2>1, <2>2 DEF WaitersDistinct
  <2> QED BY <1>5, <2>3
<1>15. PoolConsistent'
  <2> DEFINE handed == {given[i] : i \in 1 .. n}
  <2>1. handed \subseteq ready /\ None \notin handed /\ handed \cap closed = {}
    BY <1>4, <1>8
  <2>2. work' = work \cup handed /\ ready' = kept \ handed
    BY <1>2
  <2>3. start' \cap ready' = {} /\ start' \cap work' = {} /\ ready' \cap work' = {}
    BY <1>3, <2>1, <2>2 DEF PoolConsistent
  <2>4. work' = {conn'[u] : u \in Clients} \ {None}
    <3>1. ASSUME NEW c \in work PROVE \E u \in Clients : conn'[u] = c /\ c # None
      <4>1. PICK u \in Clients : conn[u] = c /\ c # None
        BY DEF PoolConsistent
      <4>2. ~ \E i \in 1 .. n : waiters[i] = u
        BY <1>7, <4>1
      <4> QED BY <1>10, <4>1, <4>2
    <3>2. ASSUME NEW c \in handed PROVE \E u \in Clients : conn'[u] = c /\ c # None
      BY <1>9, <2>1
    <3>3. ASSUME NEW u \in Clients, conn'[u] # None PROVE conn'[u] \in work \cup handed
      <4>1. CASE \E i \in 1 .. n : waiters[i] = u
        BY <1>9, <4>1
      <4>2. CASE conn'[u] = conn[u]
        BY <3>3, <4>2 DEF PoolConsistent
      <4> QED BY <1>10, <4>1, <4>2
    <3> HIDE DEF handed
    <3> QED BY <2>2, <3>1, <3>2, <3>3
  <2>5. \A u, v \in Clients : conn'[u] = conn'[v] /\ conn'[u] # None => u = v
    <3> SUFFICES ASSUME NEW u \in Clients, NEW v \in Clients, conn'[u] = conn'[v], conn'[u] # None
                 PROVE  u = v
      OBVIOUS
    <3>1. \A w \in Clients : conn[w] # None => conn[w] \in work
      BY DEF PoolConsistent
    <3>2. work \cap handed = {}
      BY <2>1 DEF PoolConsistent
    <3>3. CASE \E i, j \in 1 .. n : waiters[i] = u /\ waiters[j] = v
      BY <1>2, <1>9, <3>3
    <3>4. CASE \E i \in 1 .. n : waiters[i] = u /\ conn'[v] = conn[v]
      BY <1>9, <3>1, <3>2, <3>4
    <3>5. CASE \E i \in 1 .. n : waiters[i] = v /\ conn'[u] = conn[u]
      BY <1>9, <3>1, <3>2, <3>5
    <3>6. CASE conn'[u] = conn[u] /\ conn'[v] = conn[v]
      BY <3>6 DEF PoolConsistent
    <3> QED BY <1>10, <3>3, <3>4, <3>5, <3>6
  <2>6. \A u \in Waiting' : conn'[u] = None
    <3> SUFFICES ASSUME NEW k \in 1 .. Len(waiters') PROVE conn'[waiters'[k]] = None
      BY DEF Waiting
    <3>1. n + k \in 1 .. Len(waiters) /\ waiters'[k] = waiters[n + k] /\ n + k \notin 1 .. n
      BY <1>5, <1>6, <1>12
    <3>2. ~ \E i \in 1 .. n : waiters[i] = waiters[n + k]
      <4> SUFFICES ASSUME NEW i \in 1 .. n, waiters[i] = waiters[n + k] PROVE FALSE
        OBVIOUS
      <4>1. i \in 1 .. Len(waiters)
        BY <1>5, <1>6
      <4> QED BY <3>1, <4>1 DEF WaitersDistinct
    <3>3. waiters[n + k] \in Clients /\ waiters[n + k] \in Waiting
      BY <1>6, <3>1 DEF Waiting
    <3> QED BY <1>10, <3>1, <3>2, <3>3 DEF PoolConsistent
  <2>7. \A c \in Conns : status'[c] = IF c \in closed THEN "null" ELSE status[c]
    BY <1>2
  <2>8. \A c \in start' \cup ready' : status'[c] = "ok"
    BY <1>3, <1>4, <2>2, <2>7 DEF PoolConsistent, TypeOK
  <2>9. \A c \in work' : status'[c] # "null"
    BY <1>4, <2>1, <2>2, <2>7 DEF PoolConsistent, TypeOK
  <2> QED BY <1>3, <2>3, <2>4, <2>5, <2>6, <2>8, <2>9 DEF PoolConsistent
<1> QED BY <1>13, <1>14, <1>15

LEMMA MakeConnectionKeeps ==
  ASSUME PoolInv, MakeConnection
  PROVE  PoolInv'
<1> USE DbAssumption DEF PoolInv, MayStart
<1>1. UNCHANGED <<maxConnections, ready, work, waiters, timers, balances, conn, resetting>>
      /\ makes' \in 0 .. MaxPending
  BY DEF MakeConnection, TypeOK
<1>2. Waiting' = Waiting
  BY <1>1 DEF Waiting
<1>3. CASE UNCHANGED <<start, status>>
  BY <1>1, <1>2, <1>3 DEF TypeOK, PoolConsistent, WaitersDistinct
<1>4. CASE ~ UNCHANGED <<start, status>>
  <2>1. PICK c \in Conns \ (start \cup ready \cup work) :
             start' = start \cup {c} /\ status' = [status EXCEPT ![c] = "ok"]
    BY <1>4 DEF MakeConnection
  <2>2. start' = {c}
    BY <1>4, <2>1 DEF MakeConnection
  <2>3. Cardinality(start') <= 1
    <3>1. Cardinality({c}) = 1
      BY FS_Singleton
    <3> QED BY <2>2, <3>1
  <2>4. TypeOK'
    BY <1>1, <2>1 DEF TypeOK
  <2>5. \A d \in Conns : status'[d] = IF d = c THEN "ok" ELSE status[d]
    BY <2>1 DEF TypeOK
  <2>6. PoolConsistent'
    BY <1>1, <1>2, <2>1, <2>2, <2>3, <2>5 DEF PoolConsistent, TypeOK
  <2> QED BY <1>1, <2>4, <2>6 DEF WaitersDistinct
<1> QED BY <1>3, <1>4

LEMMA PollKeeps ==
  ASSUME PoolInv, NEW c \in Conns, PollOk(c) \/ PollBad(c)
  PROVE  PoolInv'
<1> USE DbAssumption DEF PoolInv
<1>1. /\ UNCHANGED <<maxConnections, work, waiters, makes, conn, resetting>>
      /\ c \in start /\ start' = start \ {c}
      /\ \/ ready' = ready \cup {c} /\ status' = status
         \/ ready' = ready /\ status' = [status EXCEPT ![c] = "null"]
      /\ timers' \in {0, 1}
      /\ balances' \in 0 .. MaxPending
  BY DEF PollOk, PollBad, RetryLater, TimerNeeded, TypeOK
<1>2. Waiting' = Waiting
  BY <1>1 DEF Waiting
<1>3. Cardinality(start') <= 1
  <2>1. IsFiniteSet(start) /\ Cardinality(start) <= 1
    BY FS_Subset DEF TypeOK, PoolConsistent
  <2>2. start' \in SUBSET start
    BY <1>1
  <2> QED BY <2>1, <2>2, AtMostOne
<1>4. TypeOK'
  BY <1>1 DEF TypeOK
<1>5. c \notin work /\ c \notin ready /\ \A d \in Conns : d # c => status'[d] = status[d]
  BY <1>1 DEF TypeOK, PoolConsistent
<1>6. PoolConsistent'
  BY <1>1, <1>2, <1>3, <1>5 DEF PoolConsistent, TypeOK
<1> QED BY <1>1, <1>4, <1>6 DEF WaitersDistinct

(* reset clears the queue, and what it closes nobody holds. *)
LEMMA ResetKeeps ==
  ASSUME PoolInv, Reset \/ ResetDrain
  PROVE  PoolInv'
<1> USE DbAssumption DEF PoolInv
<1>1. CASE Reset
  <2>1. Waiting' = {} /\ waiters' \in Seq(Clients) /\ Len(waiters') = 0
    BY <1>1 DEF Reset, Waiting
  <2>2. TypeOK'
    BY <1>1, <2>1 DEF Reset, TypeOK
  <2>3. PoolConsistent'
    BY <1>1, <2>1 DEF Reset, PoolConsistent
  <2>4. WaitersDistinct'
    BY <2>1 DEF WaitersDistinct
  <2> QED BY <2>2, <2>3, <2>4
<1>2. CASE ResetDrain
  <2>1. Waiting' = Waiting
    BY <1>2 DEF ResetDrain, Waiting
  <2>2. TypeOK'
    BY <1>2 DEF ResetDrain, TypeOK
  <2>3. \A c \in Conns : status'[c] = IF c \in ready THEN "null" ELSE status[c]
    BY <1>2 DEF ResetDrain
  <2>4. PoolConsistent'
    BY <1>2, <2>1, <2>3 DEF ResetDrain, PoolConsistent, TypeOK
  <2> QED BY <1>2, <2>2, <2>4 DEF ResetDrain, WaitersDistinct
<1> QED BY <1>1, <1>2

LEMMA PoolNextKeeps == PoolInv /\ [Next]_vars => PoolInv'
<1> SUFFICES ASSUME PoolInv, [Next]_vars PROVE PoolInv'
  OBVIOUS
<1>1. CASE MakeConnectionFails \/ OnRebalanceTimer
  <2>1. UNCHANGED <<maxConnections, start, ready, work, waiters, status, conn, resetting>>
    BY <1>1 DEF MakeConnectionFails, OnRebalanceTimer
  <2>2. timers' \in {0, 1} /\ makes' \in 0 .. MaxPending /\ balances' \in 0 .. MaxPending
    BY <1>1, DbAssumption
    DEF MakeConnectionFails, OnRebalanceTimer, RetryLater, TimerNeeded, PoolInv, TypeOK
  <2> QED BY <2>1, <2>2 DEF PoolInv, TypeOK, PoolConsistent, WaitersDistinct, Waiting
<1>2. CASE UNCHANGED vars
  BY <1>2 DEF PoolInv, TypeOK, PoolConsistent, WaitersDistinct, Waiting, vars, poolVars
<1> QED BY <1>1, <1>2, AllocKeeps, UnworkKeeps, BreakKeeps, PollKeeps, BalanceKeeps,
           MakeConnectionKeeps, ResetKeeps DEF Next

(* The members of Db keep their types, whatever the order of allocations,  *)
(* returns, polls, retries, balancing and resets.                          *)
THEOREM PoolTypeCorrect == Spec => []TypeOK
<1>1. PoolInv => TypeOK
  BY DEF PoolInv
<1> QED BY <1>1, PoolInit, PoolNextKeeps, PTL DEF Spec

(* A connection is in one set of the pool, has one user at most, and       *)
(* nobody closes what a client holds: for every number of clients,         *)
(* connections and spawned calls, and every maximum.                       *)
THEOREM PoolStaysConsistent == Spec => []PoolConsistent
<1>1. PoolInv => PoolConsistent
  BY DEF PoolInv
<1> QED BY <1>1, PoolInit, PoolNextKeeps, PTL DEF Spec

-----------------------------------------------------------------------------
(* One connection. *)

(* One fiber at most is past the lock. *)
Inside(f) == pc[f] \notin {"none", "spawned"}
OneInside == \A f, g \in Procs : Inside(f) /\ Inside(g) => f = g

Prepares == {"savepoint", "prepare", "rollbackTo", "release", "execute"}
AtWork == {f \in Procs : pc[f] \in Prepares \cup {"query", "evict"}}
InFlight == IF AtWork = {} THEN 0 ELSE 1

Requests == [kind : {"query", "prepared", "end"}, sql : Sqls \cup {"ROLLBACK", "none"}, id : Nat]
Tables(S, T) == UNION {[D -> T] : D \in SUBSET S}

HolderTypeOK ==
    /\ requests \in Seq(Requests)
    /\ prepareds \in Tables(Sqls, [prid : Prids, access : Nat, create : Nat])
    /\ now \in Nat /\ clock \in Nat /\ pushed \in Nat
    /\ pc \in [Procs -> {"none", "spawned", "pick", "query", "evict"} \cup Prepares]
    /\ job \in [Procs -> Requests \cup {NoJob}]
    /\ inTrans \in [Procs -> BOOLEAN]
    /\ server \in [status : {"ok", "lost"}, trans : {"idle", "intrans", "inerror", "unknown"},
                   named : Tables(Prids, Sqls)]
    /\ answers \in Seq(Nat)
    /\ client \in {"none", "work", "rollback", "end", "gone"}

(* The requests that are not answered yet are the one a fiber works on and *)
(* those in the queue, with the numbers that follow the last answer.       *)
Numbered ==
    /\ pushed = Len(answers) + InFlight + Len(requests)
    /\ \A i \in 1 .. Len(requests) : requests[i].id = Len(answers) + InFlight + i
    /\ \A f \in AtWork : job[f].id = Len(answers) + 1

(* A fiber works on a request of the right kind, and what it prepares or   *)
(* executes is in the cache.                                               *)
JobsFit ==
    /\ \A i \in 1 .. Len(requests) : requests[i].kind = "prepared" => requests[i].sql \in Sqls
    /\ \A f \in Procs :
         /\ pc[f] \in Prepares => job[f].kind = "prepared" /\ job[f].sql \in DOMAIN prepareds
         /\ pc[f] = "query" => job[f].kind = "query"
         /\ pc[f] = "evict" => job[f].kind = "end"

Nothing == AtWork = {} /\ requests = <<>>
Only(k, s, where) ==
    \/ /\ AtWork = {} /\ Len(requests) = 1
       /\ requests[1].kind = k /\ requests[1].sql = s
    \/ /\ requests = <<>>
       /\ \E f \in Procs : pc[f] = where /\ job[f].sql = s

(* What the client has asked for and the session answers by the time it    *)
(* goes back to the pool.                                                  *)
WithinMaximum == now = 0 /\ Cardinality(DOMAIN prepareds) <= MaxPrepared
ClientFits ==
    /\ server.status = "ok" <=> server.trans # "unknown"
    /\ client = "none" => Nothing /\ server.trans = "idle" /\ WithinMaximum
    /\ client = "work" => /\ \A i \in 1 .. Len(requests) : requests[i].kind # "end"
                          /\ \A f \in Procs : pc[f] # "evict"
    /\ client = "rollback" => \/ Only("query", "ROLLBACK", "query")
                              \/ Nothing /\ server.trans \in {"idle", "unknown"}
    /\ client = "end" => /\ server.trans \in {"idle", "unknown"}
                         /\ \/ Only("end", "none", "evict")
                            \/ Nothing /\ (WithinMaximum \/ server.status = "lost")
    /\ client = "gone" => Nothing

HolderInv ==
    /\ HolderTypeOK /\ OneInside /\ Numbered /\ JobsFit /\ ClientFits
    /\ AnsweredInOrder /\ CacheAgrees

LEMMA TableParts ==
  ASSUME NEW S, NEW T, NEW fn \in Tables(S, T)
  PROVE  /\ DOMAIN fn \in SUBSET S
         /\ fn \in [DOMAIN fn -> T]
         /\ \A x \in DOMAIN fn : fn[x] \in T
<1>1. PICK D \in SUBSET S : fn \in [D -> T]
  BY DEF Tables
<1> QED BY <1>1

LEMMA NoTable ==
  ASSUME NEW S, NEW T
  PROVE  <<>> \in Tables(S, T) /\ DOMAIN <<>> = {}
<1>1. <<>> \in [{} -> T]
  OBVIOUS
<1> QED BY <1>1 DEF Tables

LEMMA WithParts ==
  ASSUME NEW S, NEW T, NEW fn \in Tables(S, T), NEW x \in S, NEW v \in T
  PROVE  /\ With(fn, x, v) \in Tables(S, T)
         /\ DOMAIN With(fn, x, v) = DOMAIN fn \cup {x}
         /\ With(fn, x, v)[x] = v
         /\ \A y \in DOMAIN fn : y # x => With(fn, x, v)[y] = fn[y]
<1>1. With(fn, x, v) \in [DOMAIN fn \cup {x} -> T] /\ DOMAIN fn \cup {x} \in SUBSET S
  BY TableParts DEF With
<1> QED BY <1>1 DEF With, Tables

LEMMA WithoutTable ==
  ASSUME NEW S, NEW T, NEW fn \in Tables(S, T), NEW x
  PROVE  Without(fn, x) \in Tables(S, T)
<1>1. Without(fn, x) \in [DOMAIN fn \ {x} -> T] /\ DOMAIN fn \ {x} \in SUBSET S
  BY TableParts DEF Without
<1> QED BY <1>1 DEF Tables

-----------------------------------------------------------------------------
(* What the session may be after a command. *)

Sessions == [status : {"ok", "lost"}, trans : {"idle", "intrans", "inerror", "unknown"},
             named : Tables(Prids, Sqls)]
Sound(session) == session.status = "ok" <=> session.trans # "unknown"

LEMMA StatementServed ==
  ASSUME server \in Sessions, server.status = "ok", Sound(server),
         NEW sql, NEW r \in Statement(sql)
  PROVE  /\ r.server \in Sessions /\ Sound(r.server) /\ r.server.status = "ok"
         /\ r.server.named = server.named
         /\ sql = "ROLLBACK" => r.server.trans = "idle"
<1> USE DEF Sessions, Sound, Refused, Accepted
<1>1. CASE sql = "BEGIN"
  BY <1>1 DEF Statement
<1>2. CASE sql \in {"COMMIT", "ROLLBACK"}
  BY <1>2 DEF Statement
<1>3. CASE sql \notin {"BEGIN", "COMMIT", "ROLLBACK"}
  BY <1>3 DEF Statement
<1> QED BY <1>1, <1>2, <1>3

PlainCommands == {"QUERY", "ROLLBACK TO", "SAVEPOINT", "RELEASE", "EXECUTE"}

(* An exchange that prepares and forgets nothing. *)
LEMMA PlainServed ==
  ASSUME server \in Sessions, Sound(server), NEW name, NEW sql,
         NEW cmd \in PlainCommands, NEW r \in Served(cmd, name, sql)
  PROVE  /\ r.server \in Sessions /\ Sound(r.server)
         /\ r.server.status = "ok" => server.status = "ok"
         /\ r.server.named = server.named
         /\ cmd = "QUERY" /\ sql = "ROLLBACK" => r.server.trans \in {"idle", "unknown"}
<1>1. CASE r = [code |-> "lost", server |-> Lost]
  BY <1>1 DEF Lost, Sessions, Sound
<1>2. CASE r # [code |-> "lost", server |-> Lost]
  <2>1. server.status = "ok"
    BY <1>2 DEF Served
  <2>2. CASE cmd = "QUERY"
    <3>1. r \in Statement(sql)
      BY <1>2, <2>1, <2>2 DEF Served
    <3> QED BY <2>1, <3>1, StatementServed
  <2>3. CASE cmd = "EXECUTE"
    <3>1. r \in Executed(name)
      BY <1>2, <2>1, <2>3 DEF Served
    <3>2. CASE name \in DOMAIN server.named
      <4>1. r \in Statement(server.named[name])
        BY <3>1, <3>2 DEF Executed
      <4>2. /\ r.server \in Sessions /\ Sound(r.server) /\ r.server.status = "ok"
            /\ r.server.named = server.named
        BY <2>1, <4>1, StatementServed
      <4> QED BY <2>1, <2>3, <4>2
    <3>3. CASE name \notin DOMAIN server.named
      BY <2>1, <2>3, <3>1, <3>3 DEF Executed, Refused, Sessions, Sound
    <3> QED BY <3>2, <3>3
  <2>4. CASE cmd = "ROLLBACK TO"
    <3>1. r = Accepted("intrans")
      BY <1>2, <2>1, <2>4 DEF Served
    <3> QED BY <2>1, <2>4, <3>1 DEF Accepted, Sessions, Sound
  <2>5. CASE cmd \in {"SAVEPOINT", "RELEASE"}
    <3>1. r = Accepted("intrans") \/ r = Refused("25P02")
      BY <1>2, <2>1, <2>5 DEF Served
    <3>2. CASE r = Accepted("intrans")
      BY <2>1, <2>5, <3>2 DEF Accepted, Sessions, Sound
    <3>3. CASE r = Refused("25P02")
      BY <2>1, <2>5, <3>3 DEF Refused, Sessions, Sound
    <3> QED BY <3>1, <3>2, <3>3
  <2> QED BY <2>2, <2>3, <2>4, <2>5 DEF PlainCommands
<1> QED BY <1>1, <1>2

LEMMA QueryServed ==
  ASSUME server \in Sessions, Sound(server), NEW sql, NEW r \in Served("QUERY", "none", sql)
  PROVE  /\ r.server \in Sessions /\ Sound(r.server)
         /\ r.server.status = "ok" => server.status = "ok"
         /\ r.server.named = server.named
         /\ sql = "ROLLBACK" => r.server.trans \in {"idle", "unknown"}
BY PlainServed DEF PlainCommands

(* PREPARE adds the name if the server does not know it. *)
LEMMA PrepareServed ==
  ASSUME server \in Sessions, Sound(server), NEW name \in Prids, NEW sql \in Sqls,
         NEW r \in Served("PREPARE", name, sql)
  PROVE  /\ r.server \in Sessions /\ Sound(r.server)
         /\ r.server.status = "ok" => server.status = "ok"
         /\ \/ /\ r.code = "ok" /\ name \notin DOMAIN server.named
               /\ r.server.named = With(server.named, name, sql)
            \/ r.code # "ok" /\ r.server.named = server.named
<1>1. CASE r = [code |-> "lost", server |-> Lost]
  BY <1>1 DEF Lost, Sessions, Sound
<1>2. CASE r # [code |-> "lost", server |-> Lost]
  <2>1. server.status = "ok" /\ r \in Prepared(name, sql)
    BY <1>2 DEF Served
  <2>2. CASE r = Refused("25P02") \/ r = Refused("42P05") \/ r = Refused("error")
    BY <2>1, <2>2 DEF Refused, Sessions, Sound
  <2>3. CASE ~(r = Refused("25P02") \/ r = Refused("42P05") \/ r = Refused("error"))
    <3>1. /\ name \notin DOMAIN server.named
          /\ r = [code |-> "ok", server |-> [server EXCEPT !.named = With(@, name, sql)]]
      BY <2>1, <2>3 DEF Prepared
    <3>2. With(server.named, name, sql) \in Tables(Prids, Sqls)
      BY WithParts DEF Sessions
    <3> QED BY <2>1, <3>1, <3>2 DEF Sessions, Sound
  <2> QED BY <2>2, <2>3
<1> QED BY <1>1, <1>2

(* DEALLOCATE outside a transaction forgets the name, or the session is    *)
(* lost.                                                                   *)
LEMMA DeallocateServed ==
  ASSUME server \in Sessions, Sound(server), server.trans \in {"idle", "unknown"},
         NEW name, NEW sql, NEW r \in Served("DEALLOCATE", name, sql)
  PROVE  /\ r.server \in Sessions /\ Sound(r.server)
         /\ r.server.status = "ok" => server.status = "ok"
         /\ r.server.trans \in {"idle", "unknown"}
         /\ \/ r.code \notin {"ok", "26000"} /\ r.server.status = "lost"
            \/ r.code = "26000" /\ r.server.named = server.named
            \/ r.code = "ok" /\ r.server.named = Without(server.named, name)
<1>1. CASE r = [code |-> "lost", server |-> Lost]
  BY <1>1 DEF Lost, Sessions, Sound
<1>2. CASE r # [code |-> "lost", server |-> Lost]
  <2>1. server.status = "ok" /\ server.trans = "idle" /\ r \in Deallocated(name)
    BY <1>2 DEF Served, Sound
  <2>2. CASE r = Refused("26000")
    BY <2>1, <2>2 DEF Refused, Sessions, Sound
  <2>3. CASE r # Refused("26000")
    <3>1. r = [code |-> "ok", server |-> [server EXCEPT !.named = Without(@, name)]]
      BY <2>1, <2>3 DEF Deallocated
    <3>2. Without(server.named, name) \in Tables(Prids, Sqls)
      BY WithoutTable DEF Sessions
    <3> QED BY <2>1, <3>1, <3>2 DEF Sessions, Sound
  <2> QED BY <2>2, <2>3
<1> QED BY <1>1, <1>2

-----------------------------------------------------------------------------
(* The queue of requests and the fibers. *)

LEMMA HolderStarts == HolderInit => HolderInv
<1> SUFFICES ASSUME HolderInit PROVE HolderInv
  OBVIOUS
<1> USE HolderAssumption DEF HolderInit
<1>1. prepareds = <<>> /\ DOMAIN prepareds = {}
      /\ \A S, T : prepareds \in Tables(S, T) /\ server.named \in Tables(S, T)
  BY NoTable
<1>2. AtWork = {} /\ InFlight = 0
  BY DEF AtWork, InFlight, Prepares
<1>3. HolderTypeOK
  <2>1. job \in [Procs -> Requests \cup {NoJob}]
    OBVIOUS
  <2>2. requests \in Seq(Requests) /\ answers \in Seq(Nat)
    OBVIOUS
  <2>3. server \in [status : {"ok", "lost"}, trans : {"idle", "intrans", "inerror", "unknown"},
                    named : Tables(Prids, Sqls)]
    BY <1>1
  <2> QED BY <1>1, <2>1, <2>2, <2>3 DEF HolderTypeOK
<1>4. OneInside
  BY DEF OneInside, Inside
<1>5. Numbered
  BY <1>2 DEF Numbered
<1>6. JobsFit
  BY DEF JobsFit, Prepares
<1>7. ClientFits
  <2>1. Cardinality(DOMAIN prepareds) = 0
    BY <1>1, FS_EmptySet
  <2> QED BY <1>2, <2>1 DEF ClientFits, Nothing, WithinMaximum
<1>8. AnsweredInOrder /\ CacheAgrees
  BY <1>1 DEF AnsweredInOrder, CacheAgrees
<1> QED BY <1>3, <1>4, <1>5, <1>6, <1>7, <1>8 DEF HolderInv

LEMMA Alone ==
  ASSUME HolderTypeOK, OneInside, NEW f \in Procs, Inside(f)
  PROVE  /\ AtWork \subseteq {f}
         /\ \A g \in Procs : g # f => pc[g] \in {"none", "spawned"}
BY DEF HolderTypeOK, OneInside, Inside, AtWork, Prepares

LEMMA AllAnsweredNothing ==
  ASSUME HolderTypeOK, Numbered, AllAnswered
  PROVE  Nothing
<1>1. Len(answers) \in Nat /\ Len(requests) \in Nat /\ InFlight \in {0, 1}
  BY DEF HolderTypeOK, InFlight
<1>2. InFlight = 0 /\ Len(requests) = 0
  BY <1>1 DEF Numbered, AllAnswered
<1> QED BY <1>2 DEF Nothing, InFlight, HolderTypeOK

(* pushRequest gives the next number. *)
LEMMA PushKeeps ==
  ASSUME HolderInv, NEW k \in {"query", "prepared", "end"},
         NEW s \in Sqls \cup {"ROLLBACK", "none"}, k = "prepared" => s \in Sqls,
         Push(k, s), UNCHANGED <<prepareds, now, job, inTrans, server, answers, clock>>,
         client' \in {"none", "work", "rollback", "end", "gone"}
  PROVE  /\ HolderTypeOK' /\ OneInside' /\ Numbered' /\ JobsFit'
         /\ AnsweredInOrder' /\ CacheAgrees'
         /\ AtWork' = AtWork
         /\ \A f \in AtWork : pc'[f] = pc[f]
         /\ \A f \in Procs : pc'[f] = "evict" => pc[f] = "evict"
         /\ requests' = Append(requests, [kind |-> k, sql |-> s, id |-> pushed + 1])
<1> USE DEF HolderInv
<1> DEFINE req == [kind |-> k, sql |-> s, id |-> pushed + 1]
<1>1. pushed \in Nat /\ requests \in Seq(Requests) /\ req \in Requests
  BY DEF HolderTypeOK, Requests
<1>2. pushed' = pushed + 1 /\ requests' = Append(requests, req)
  BY DEF Push
<1>3. \A f \in Procs : pc'[f] = pc[f] \/ (pc[f] = "none" /\ pc'[f] = "spawned")
  BY DEF Push, HolderTypeOK
<1>4. pc' \in [Procs -> {"none", "spawned", "pick", "query", "evict"} \cup Prepares]
  BY DEF Push, HolderTypeOK
<1>5. HolderTypeOK'
  BY <1>1, <1>2, <1>4 DEF HolderTypeOK
<1>6. AtWork' = AtWork
  BY <1>3 DEF AtWork, Prepares
<1>7. \A f \in Procs : Inside(f)' <=> Inside(f)
  BY <1>3 DEF Inside
<1>8. OneInside'
  BY <1>7 DEF OneInside
<1>9. /\ Len(requests') = Len(requests) + 1 /\ Len(requests) \in Nat
      /\ \A i \in 1 .. Len(requests) : requests'[i] = requests[i]
      /\ requests'[Len(requests) + 1] = req
      /\ Len(answers) \in Nat /\ InFlight \in {0, 1}
  BY <1>1, <1>2 DEF HolderTypeOK, InFlight
<1>10. Numbered'
  <2>1. InFlight' = InFlight /\ answers' = answers /\ job' = job
    BY <1>6 DEF InFlight
  <2>2. pushed' = Len(answers) + InFlight + Len(requests')
    BY <1>1, <1>2, <1>9 DEF Numbered
  <2>3. \A i \in 1 .. Len(requests') : requests'[i].id = Len(answers) + InFlight + i
    <3> TAKE i \in 1 .. Len(requests')
    <3>1. CASE i \in 1 .. Len(requests)
      BY <1>9, <3>1 DEF Numbered
    <3>2. CASE i = Len(requests) + 1
      BY <1>9, <3>2 DEF Numbered
    <3> QED BY <1>9, <3>1, <3>2
  <2> QED BY <1>6, <2>1, <2>2, <2>3 DEF Numbered
<1>11. JobsFit'
  <2>1. \A i \in 1 .. Len(requests') : requests'[i].kind = "prepared" => requests'[i].sql \in Sqls
    <3> TAKE i \in 1 .. Len(requests')
    <3>1. CASE i \in 1 .. Len(requests)
      BY <1>9, <3>1 DEF JobsFit
    <3>2. CASE i = Len(requests) + 1
      BY <1>9, <3>2
    <3> QED BY <1>9, <3>1, <3>2
  <2> QED BY <1>3, <2>1 DEF JobsFit, Prepares
<1>12. CacheAgrees'
  <2>1. \A f \in Procs : pc[f] \in {"savepoint", "prepare", "rollbackTo"} => pc'[f] = pc[f]
    BY <1>3
  <2> QED BY <2>1 DEF CacheAgrees, Prid
<1>13. AnsweredInOrder'
  BY DEF AnsweredInOrder
<1>14. \A f \in AtWork : pc'[f] = pc[f]
  BY <1>3 DEF AtWork, Prepares
<1> QED BY <1>2, <1>3, <1>5, <1>6, <1>8, <1>10, <1>11, <1>12, <1>13, <1>14

(* A fiber that works on a request goes on with it, or sets its future and *)
(* asks for the next.                                                      *)
LEMMA Progress ==
  ASSUME HolderInv, NEW f \in AtWork, UNCHANGED <<requests, pushed>>,
         \/ Answer(f)
         \/ /\ UNCHANGED <<job, answers>>
            /\ \E where \in Prepares \cup {"query", "evict"} : pc' = [pc EXCEPT ![f] = where]
  PROVE  /\ OneInside' /\ Numbered' /\ AnsweredInOrder'
         /\ pc' \in [Procs -> {"none", "spawned", "pick", "query", "evict"} \cup Prepares]
         /\ job' \in [Procs -> Requests \cup {NoJob}]
         /\ answers' \in Seq(Nat)
         /\ \A g \in Procs : g # f => pc'[g] = pc[g] /\ pc[g] \in {"none", "spawned"}
         /\ AtWork' \subseteq {f}
<1> USE DEF HolderInv
<1>1. f \in Procs /\ Inside(f) /\ AtWork = {f} /\ InFlight = 1
  BY Alone DEF AtWork, Inside, Prepares, InFlight
<1>2. pc' \in [Procs -> {"none", "spawned", "pick", "query", "evict"} \cup Prepares]
  BY <1>1 DEF Answer, HolderTypeOK
<1>3. \A g \in Procs : g # f => pc'[g] = pc[g] /\ pc[g] \in {"none", "spawned"}
  BY <1>1, Alone DEF Answer, HolderTypeOK
<1>4. AtWork' \subseteq {f}
  BY <1>3 DEF AtWork, Prepares
<1>5. OneInside'
  BY <1>3 DEF OneInside, Inside
<1>6. CASE Answer(f)
  <2>1. job[f].id = Len(answers) + 1 /\ Len(answers) \in Nat
    BY DEF Numbered, HolderTypeOK
  <2>2. answers' = Append(answers, Len(answers) + 1) /\ answers \in Seq(Nat)
    BY <1>6, <2>1 DEF Answer, HolderTypeOK
  <2>3. /\ Len(answers') = Len(answers) + 1
        /\ \A i \in 1 .. Len(answers) : answers'[i] = answers[i]
        /\ answers'[Len(answers) + 1] = Len(answers) + 1
        /\ answers' \in Seq(Nat)
    BY <2>1, <2>2
  <2>4. AnsweredInOrder'
    <3>1. \A i \in 1 .. Len(answers) : answers[i] = i
      BY DEF AnsweredInOrder
    <3>2. \A i \in 1 .. Len(answers') : answers'[i] = i
      BY <2>1, <2>3, <3>1
    <3>3. answers' = [i \in 1 .. Len(answers') |-> answers'[i]]
      BY <2>3
    <3> QED BY <3>2, <3>3 DEF AnsweredInOrder
  <2>5. AtWork' = {} /\ InFlight' = 0
    BY <1>1, <1>4, <1>6 DEF Answer, AtWork, Prepares, InFlight, HolderTypeOK
  <2>6. Numbered'
    BY <1>1, <2>1, <2>3, <2>5 DEF Numbered, HolderTypeOK
  <2>7. job' \in [Procs -> Requests \cup {NoJob}]
    BY <1>6 DEF Answer, HolderTypeOK
  <2> QED BY <1>2, <1>3, <1>4, <1>5, <2>3, <2>4, <2>6, <2>7
<1>7. CASE /\ UNCHANGED <<job, answers>>
           /\ \E where \in Prepares \cup {"query", "evict"} : pc' = [pc EXCEPT ![f] = where]
  <2>1. AtWork' = AtWork /\ InFlight' = InFlight
    BY <1>1, <1>4, <1>7 DEF AtWork, InFlight, HolderTypeOK
  <2>2. Numbered' /\ AnsweredInOrder'
    BY <1>7, <2>1 DEF Numbered, AnsweredInOrder
  <2> QED BY <1>2, <1>3, <1>4, <1>5, <1>7, <2>2 DEF HolderTypeOK
<1> QED BY <1>6, <1>7

(* What the client waits for when a fiber is at work. *)
LEMMA ClientWaits ==
  ASSUME HolderInv, NEW f \in AtWork
  PROVE  /\ client \in {"work", "rollback", "end"}
         /\ client = "work" => pc[f] # "evict"
         /\ client = "rollback" =>
              pc[f] = "query" /\ job[f].sql = "ROLLBACK" /\ requests = <<>>
         /\ client = "end" =>
              pc[f] = "evict" /\ requests = <<>> /\ server.trans \in {"idle", "unknown"}
<1> USE DEF HolderInv
<1>1. f \in Procs /\ Inside(f) /\ AtWork = {f}
  BY Alone DEF AtWork, Inside, Prepares
<1>2. \A g \in Procs : pc[g] \in {"query", "evict"} => g = f
  BY <1>1 DEF AtWork
<1> QED BY <1>1, <1>2 DEF ClientFits, Nothing, Only, HolderTypeOK

-----------------------------------------------------------------------------
(* The steps of the client. *)

LEMMA ClientKeeps ==
  ASSUME HolderInv, BeginWork \/ Query \/ EndWork \/ EndWorkRolledBack \/ GiveBack \/ Tick
  PROVE  HolderInv'
<1> USE DEF HolderInv
<1>1. CASE BeginWork
  <2>1. UNCHANGED <<requests, prepareds, pc, job, inTrans, server, pushed, answers, clock>>
        /\ now' = clock /\ client = "none" /\ client' = "work"
    BY <1>1 DEF BeginWork, fibers
  <2>2. HolderTypeOK'
    BY <2>1 DEF HolderTypeOK
  <2>3. OneInside' /\ Numbered' /\ JobsFit' /\ AnsweredInOrder' /\ CacheAgrees'
    BY <2>1 DEF OneInside, Inside, Numbered, AtWork, InFlight, JobsFit, AnsweredInOrder,
                CacheAgrees, Prid
  <2>4. ClientFits'
    BY <2>1 DEF ClientFits, Nothing, AtWork, Prepares
  <2> QED BY <2>2, <2>3, <2>4
<1>2. CASE Query
  <2>1. /\ client = "work" /\ client' = "work"
        /\ UNCHANGED <<prepareds, now, job, inTrans, server, answers, client, clock>>
    BY <1>2 DEF Query
  <2>2. PICK k \in {"query", "prepared"}, s \in Sqls : Push(k, s)
    BY <1>2 DEF Query
  <2>3. /\ HolderTypeOK' /\ OneInside' /\ Numbered' /\ JobsFit'
        /\ AnsweredInOrder' /\ CacheAgrees'
        /\ \A f \in Procs : pc'[f] = "evict" => pc[f] = "evict"
        /\ requests' = Append(requests, [kind |-> k, sql |-> s, id |-> pushed + 1])
    BY <2>1, <2>2, PushKeeps
  <2>4. \A i \in 1 .. Len(requests') : requests'[i].kind # "end"
    BY <2>1, <2>3 DEF ClientFits, HolderTypeOK
  <2>5. ClientFits'
    BY <2>1, <2>3, <2>4 DEF ClientFits
  <2> QED BY <2>3, <2>5
<1>3. ASSUME NEW k, NEW s, NEW at, NEW where,
             <<k, s, at, where>> \in {<<"query", "ROLLBACK", "rollback", "query">>,
                                      <<"end", "none", "end", "evict">>},
             AllAnswered, Push(k, s), client' = at,
             at = "end" => server.trans \in {"idle", "unknown"},
             UNCHANGED <<prepareds, now, job, inTrans, server, answers, clock>>
      PROVE  HolderInv'
  <2>1. Nothing
    BY <1>3, AllAnsweredNothing
  <2>2. /\ HolderTypeOK' /\ OneInside' /\ Numbered' /\ JobsFit'
        /\ AnsweredInOrder' /\ CacheAgrees'
        /\ AtWork' = AtWork
        /\ requests' = Append(requests, [kind |-> k, sql |-> s, id |-> pushed + 1])
    BY <1>3, PushKeeps
  <2>3. Len(requests') = 1 /\ requests'[1].kind = k /\ requests'[1].sql = s
    BY <2>1, <2>2 DEF Nothing
  <2>4. ClientFits'
    BY <1>3, <2>1, <2>2, <2>3 DEF ClientFits, Only, Nothing
  <2> QED BY <2>2, <2>4
<1>4. CASE EndWork
  <2>1. AllAnswered /\ UNCHANGED <<prepareds, now, job, inTrans, server, answers, clock>>
    BY <1>4 DEF EndWork
  <2>2. CASE InTransaction
    BY <1>3, <1>4, <2>1, <2>2 DEF EndWork
  <2>3. CASE ~InTransaction
    <3>1. server.trans \in {"idle", "unknown"}
      BY <2>3 DEF InTransaction, HolderTypeOK
    <3> QED BY <1>3, <1>4, <2>1, <2>3, <3>1 DEF EndWork
  <2> QED BY <2>2, <2>3
<1>5. CASE EndWorkRolledBack
  <2>1. AllAnswered /\ UNCHANGED <<prepareds, now, job, inTrans, server, answers, clock>>
        /\ client = "rollback"
    BY <1>5 DEF EndWorkRolledBack
  <2>2. Nothing
    BY <2>1, AllAnsweredNothing
  <2>3. server.trans \in {"idle", "unknown"}
    BY <2>1, <2>2 DEF ClientFits, Only, Nothing, AtWork
  <2> QED BY <1>3, <1>5, <2>1, <2>3 DEF EndWorkRolledBack
<1>6. CASE GiveBack
  <2>1. UNCHANGED <<requests, prepareds, now, pc, job, inTrans, server, pushed, answers, clock>>
        /\ client = "end" /\ AllAnswered
        /\ client' = IF server.status = "ok" THEN "none" ELSE "gone"
    BY <1>6 DEF GiveBack, holder, fibers
  <2>2. HolderTypeOK'
    BY <2>1 DEF HolderTypeOK
  <2>3. OneInside' /\ Numbered' /\ JobsFit' /\ AnsweredInOrder' /\ CacheAgrees'
    BY <2>1 DEF OneInside, Inside, Numbered, AtWork, InFlight, JobsFit, AnsweredInOrder,
                CacheAgrees, Prid
  <2>4. Nothing /\ Nothing'
    BY <2>1, AllAnsweredNothing DEF Nothing, AtWork
  <2>5. server.trans \in {"idle", "unknown"} /\ (WithinMaximum \/ server.status = "lost")
    BY <2>1, <2>4 DEF ClientFits, Only, Nothing, AtWork
  <2>6. ClientFits'
    BY <2>1, <2>4, <2>5 DEF ClientFits, WithinMaximum
  <2> QED BY <2>2, <2>3, <2>6
<1>7. CASE Tick
  <2>1. UNCHANGED <<requests, prepareds, now, pc, job, inTrans, server, pushed, answers, client>>
    BY <1>7 DEF Tick, holder, fibers
  <2>2. clock' \in Nat
    BY <1>7 DEF Tick, HolderTypeOK
  <2>3. HolderTypeOK'
    BY <2>1, <2>2 DEF HolderTypeOK
  <2>4. OneInside' /\ Numbered' /\ JobsFit' /\ ClientFits' /\ AnsweredInOrder' /\ CacheAgrees'
    BY <2>1 DEF OneInside, Inside, Numbered, AtWork, InFlight, JobsFit, AnsweredInOrder,
                CacheAgrees, Prid, ClientFits, Nothing, Only, WithinMaximum
  <2> QED BY <2>3, <2>4
<1> QED BY <1>1, <1>2, <1>4, <1>5, <1>6, <1>7

-----------------------------------------------------------------------------
(* The steps of processRequest_f. *)

LEMMA LockKeeps ==
  ASSUME HolderInv, NEW f \in Procs, Lock(f)
  PROVE  HolderInv'
<1> USE DEF HolderInv
<1>1. UNCHANGED <<requests, prepareds, now, job, inTrans, server, pushed, answers, client, clock>>
      /\ pc[f] = "spawned" /\ pc' = [pc EXCEPT ![f] = "pick"]
      /\ \A g \in Procs : pc[g] \in {"none", "spawned"}
  BY DEF Lock, holder, MutexFree
<1>2. \A g \in Procs : pc'[g] = IF g = f THEN "pick" ELSE pc[g]
  BY <1>1 DEF HolderTypeOK
<1>3. AtWork = {} /\ AtWork' = {}
  BY <1>1, <1>2 DEF AtWork, Prepares
<1>4. HolderTypeOK'
  BY <1>1 DEF HolderTypeOK
<1>5. OneInside'
  BY <1>1, <1>2 DEF OneInside, Inside
<1>6. Numbered'
  BY <1>1, <1>3 DEF Numbered, InFlight
<1>7. JobsFit' /\ AnsweredInOrder' /\ CacheAgrees'
  BY <1>1, <1>2 DEF JobsFit, Prepares, AnsweredInOrder, CacheAgrees, Prid
<1>8. ClientFits'
  BY <1>1, <1>2, <1>3 DEF ClientFits, Nothing, Only, WithinMaximum
<1> QED BY <1>4, <1>5, <1>6, <1>7, <1>8

(* A bad session fails all that is queued, in order. *)
LEMMA LeaveKeeps ==
  ASSUME HolderInv, NEW f \in Procs, Leave(f)
  PROVE  HolderInv'
<1> USE DEF HolderInv
<1> DEFINE ids == [i \in 1 .. Len(requests) |-> requests[i].id]
<1>1. /\ UNCHANGED <<prepareds, now, job, inTrans, server, pushed, client, clock>>
      /\ pc[f] = "pick" /\ pc' = [pc EXCEPT ![f] = "none"]
      /\ answers' = answers \o ids /\ requests' = <<>>
      /\ requests = <<>> \/ server.status = "lost"
  BY DEF Leave, HolderTypeOK
<1>2. \A g \in Procs : pc'[g] = IF g = f THEN "none" ELSE pc[g]
  BY <1>1 DEF HolderTypeOK
<1>3. AtWork = {} /\ AtWork' = {}
  <2>1. AtWork \subseteq {f}
    BY <1>1, Alone DEF Inside
  <2> QED BY <1>1, <1>2, <2>1 DEF AtWork, Prepares
<1>4. InFlight = 0 /\ InFlight' = 0
  BY <1>3 DEF InFlight
<1>5. /\ Len(answers) \in Nat /\ Len(requests) \in Nat
      /\ \A i \in 1 .. Len(requests) : requests[i].id = Len(answers) + i
      /\ pushed = Len(answers) + Len(requests)
  BY <1>4 DEF Numbered, HolderTypeOK
<1>6. answers \in Seq(Nat) /\ ids \in Seq(Nat) /\ Len(ids) = Len(requests)
  BY <1>5 DEF HolderTypeOK
<1>7. /\ answers' \in Seq(Nat) /\ Len(answers') = Len(answers) + Len(requests)
      /\ \A i \in 1 .. Len(answers') : answers'[i] = i
  <2>1. answers' \in Seq(Nat) /\ Len(answers') = Len(answers) + Len(requests)
    BY <1>1, <1>6, ConcatProperties
  <2>2. ASSUME NEW i \in 1 .. Len(answers') PROVE answers'[i] = i
    <3>1. CASE i <= Len(answers)
      <4>1. answers'[i] = answers[i]
        BY <1>1, <1>5, <1>6, <2>1, <3>1
      <4> QED BY <1>5, <2>1, <3>1, <4>1 DEF AnsweredInOrder
    <3>2. CASE i > Len(answers)
      <4>1. answers'[i] = ids[i - Len(answers)] /\ i - Len(answers) \in 1 .. Len(requests)
        BY <1>1, <1>5, <1>6, <2>1, <3>2
      <4> QED BY <1>5, <2>1, <4>1
    <3> QED BY <1>5, <2>1, <3>1, <3>2
  <2> QED BY <2>1, <2>2
<1>8. HolderTypeOK'
  <2>1. requests' \in Seq(Requests)
    BY <1>1
  <2> QED BY <1>1, <1>7, <2>1 DEF HolderTypeOK
<1>9. OneInside'
  BY <1>2 DEF OneInside, Inside
<1>10. Numbered'
  BY <1>1, <1>3, <1>4, <1>5, <1>7 DEF Numbered
<1>11. JobsFit' /\ CacheAgrees'
  BY <1>1, <1>2 DEF JobsFit, Prepares, CacheAgrees, Prid
<1>12. AnsweredInOrder'
  <2>1. answers' = [i \in 1 .. Len(answers') |-> answers'[i]]
    BY <1>7
  <2> QED BY <1>7, <2>1 DEF AnsweredInOrder
<1>13. ClientFits'
  <2>1. Nothing' /\ \A g \in Procs : pc'[g] # "evict"
    BY <1>1, <1>3 DEF Nothing, AtWork
  <2>2. client = "rollback" => server.trans \in {"idle", "unknown"}
    BY <1>1, <1>3 DEF ClientFits, Only, AtWork, HolderTypeOK
  <2> QED BY <1>1, <1>3, <2>1, <2>2 DEF ClientFits, WithinMaximum, Nothing, Only, AtWork
<1> QED BY <1>8, <1>9, <1>10, <1>11, <1>12, <1>13

(* The first request of the queue becomes the one in flight. *)
LEMMA PickKeeps ==
  ASSUME HolderInv, NEW f \in Procs, Pick(f)
  PROVE  HolderInv'
<1> USE DEF HolderInv
<1> DEFINE r == Head(requests)
           Entry == [prid : Prids, access : Nat, create : Nat]
           steps == {"savepoint", "prepare", "execute", "query", "evict"}
<1>1. /\ UNCHANGED <<now, server, pushed, answers, client, clock>>
      /\ pc[f] = "pick" /\ requests # <<>> /\ server.status = "ok"
      /\ job' = [job EXCEPT ![f] = r]
      /\ requests' = Tail(requests)
  BY DEF Pick
<1>2. /\ r \in Requests /\ r = requests[1] /\ Len(requests) \in Nat /\ Len(requests) > 0
      /\ requests' \in Seq(Requests) /\ Len(requests') = Len(requests) - 1
      /\ \A i \in 1 .. Len(requests') : requests'[i] = requests[i + 1]
  BY <1>1 DEF HolderTypeOK
<1>3. r.kind = "prepared" => r.sql \in Sqls
  BY <1>2 DEF JobsFit
<1>4. \E where \in steps :
         /\ pc' = [pc EXCEPT ![f] = where]
         /\ prepareds' \in Tables(Sqls, Entry)
         /\ DOMAIN prepareds \subseteq DOMAIN prepareds'
         /\ \A s \in DOMAIN prepareds : prepareds'[s].prid = prepareds[s].prid
         /\ inTrans' \in [Procs -> BOOLEAN]
         /\ \/ /\ r.kind = "prepared" /\ where = "execute" /\ r.sql \in DOMAIN prepareds
               /\ DOMAIN prepareds' = DOMAIN prepareds
            \/ /\ r.kind = "prepared" /\ where \in {"savepoint", "prepare"}
               /\ DOMAIN prepareds' = DOMAIN prepareds \cup {r.sql}
            \/ r.kind = "query" /\ where = "query" /\ UNCHANGED prepareds
            \/ r.kind = "end" /\ where = "evict" /\ UNCHANGED prepareds
  <2>1. prepareds \in Tables(Sqls, Entry) /\ now \in Nat
    BY DEF HolderTypeOK
  <2>2. CASE r.kind = "prepared" /\ r.sql \in DOMAIN prepareds
    <3>1. pc' = [pc EXCEPT ![f] = "execute"] /\ prepareds' = Touched(r.sql) /\ UNCHANGED inTrans
      BY <2>2 DEF Pick
    <3>2. prepareds' \in [DOMAIN prepareds -> Entry] /\ DOMAIN prepareds \in SUBSET Sqls
      <4>1. prepareds \in [DOMAIN prepareds -> Entry] /\ DOMAIN prepareds \in SUBSET Sqls
        BY <2>1, TableParts
      <4> QED BY <2>1, <3>1, <4>1 DEF Touched
    <3>3. prepareds' \in Tables(Sqls, Entry) /\ DOMAIN prepareds' = DOMAIN prepareds
      BY <3>2 DEF Tables
    <3>4. \A s \in DOMAIN prepareds : prepareds'[s].prid = prepareds[s].prid
      <4>1. prepareds \in [DOMAIN prepareds -> Entry]
        BY <2>1, TableParts
      <4> QED BY <2>1, <3>1, <4>1 DEF Touched
    <3> QED BY <2>2, <3>1, <3>3, <3>4 DEF HolderTypeOK
  <2>3. CASE r.kind = "prepared" /\ r.sql \notin DOMAIN prepareds
    <3>1. PICK p \in Prids :
            /\ prepareds' = Named(r.sql, p)
            /\ inTrans' = [inTrans EXCEPT ![f] = InTransaction]
            /\ pc' = [pc EXCEPT ![f] = IF InTransaction THEN "savepoint" ELSE "prepare"]
      BY <2>3 DEF Pick
    <3>2. [prid |-> p, access |-> now, create |-> now] \in Entry
      BY <2>1
    <3>3. /\ prepareds' \in Tables(Sqls, Entry)
          /\ DOMAIN prepareds' = DOMAIN prepareds \cup {r.sql}
          /\ \A s \in DOMAIN prepareds : s # r.sql => prepareds'[s] = prepareds[s]
      <4> DEFINE e == [prid |-> p, access |-> now, create |-> now]
      <4>1. prepareds' = With(prepareds, r.sql, e) /\ r.sql \in Sqls
        BY <1>3, <2>3, <3>1 DEF Named
      <4> HIDE DEF r, e, Entry
      <4> QED BY <2>1, <3>2, <4>1, WithParts DEF e
    <3>4. inTrans' \in [Procs -> BOOLEAN]
      BY <3>1 DEF HolderTypeOK, InTransaction
    <3>5. \A s \in DOMAIN prepareds : prepareds'[s].prid = prepareds[s].prid
      BY <2>3, <3>3
    <3>6. CASE InTransaction
      BY <2>3, <3>1, <3>3, <3>4, <3>5, <3>6
    <3>7. CASE ~InTransaction
      BY <2>3, <3>1, <3>3, <3>4, <3>5, <3>7
    <3> QED BY <3>6, <3>7
  <2>4. CASE r.kind = "query"
    BY <2>1, <2>4 DEF Pick, HolderTypeOK
  <2>5. CASE r.kind = "end"
    BY <2>1, <2>5 DEF Pick, HolderTypeOK
  <2> QED BY <1>2, <2>2, <2>3, <2>4, <2>5 DEF Requests
<1>5. PICK where \in steps :
         /\ pc' = [pc EXCEPT ![f] = where]
         /\ prepareds' \in Tables(Sqls, Entry)
         /\ DOMAIN prepareds \subseteq DOMAIN prepareds'
         /\ \A s \in DOMAIN prepareds : prepareds'[s].prid = prepareds[s].prid
         /\ inTrans' \in [Procs -> BOOLEAN]
         /\ \/ /\ r.kind = "prepared" /\ where = "execute" /\ r.sql \in DOMAIN prepareds
               /\ DOMAIN prepareds' = DOMAIN prepareds
            \/ /\ r.kind = "prepared" /\ where \in {"savepoint", "prepare"}
               /\ DOMAIN prepareds' = DOMAIN prepareds \cup {r.sql}
            \/ r.kind = "query" /\ where = "query" /\ UNCHANGED prepareds
            \/ r.kind = "end" /\ where = "evict" /\ UNCHANGED prepareds
  BY <1>4
<1>6. \A g \in Procs : pc'[g] = IF g = f THEN where ELSE pc[g]
  BY <1>5 DEF HolderTypeOK
<1>7. \A g \in Procs : g # f => pc[g] \in {"none", "spawned"}
  BY <1>1, Alone DEF Inside
<1>8. AtWork = {} /\ AtWork' = {f} /\ InFlight = 0 /\ InFlight' = 1
  <2>1. AtWork = {}
    BY <1>1, <1>7 DEF AtWork, Prepares
  <2>2. AtWork' = {f}
    BY <1>6, <1>7 DEF AtWork, Prepares
  <2> QED BY <2>1, <2>2 DEF InFlight
<1>9. HolderTypeOK'
  <2>1. pc' \in [Procs -> {"none", "spawned", "pick", "query", "evict"} \cup Prepares]
    BY <1>5 DEF HolderTypeOK, Prepares
  <2>2. job' \in [Procs -> Requests \cup {NoJob}]
    BY <1>1, <1>2 DEF HolderTypeOK
  <2> QED BY <1>1, <1>2, <1>5, <2>1, <2>2 DEF HolderTypeOK
<1>10. OneInside'
  BY <1>6, <1>7 DEF OneInside, Inside
<1>11. job'[f] = r
  BY <1>1 DEF HolderTypeOK
<1>12. Numbered'
  <2>1. /\ Len(answers) \in Nat /\ pushed = Len(answers) + Len(requests)
        /\ \A i \in 1 .. Len(requests) : requests[i].id = Len(answers) + i
    BY <1>8 DEF Numbered, HolderTypeOK
  <2>2. \A i \in 1 .. Len(requests') : requests'[i].id = Len(answers) + 1 + i
    BY <1>2, <2>1
  <2>3. r.id = Len(answers) + 1
    BY <1>2, <2>1
  <2> QED BY <1>1, <1>2, <1>8, <1>11, <2>1, <2>2, <2>3 DEF Numbered
<1>13. JobsFit'
  <2>1. \A i \in 1 .. Len(requests') : requests'[i].kind = "prepared" => requests'[i].sql \in Sqls
    BY <1>2 DEF JobsFit
  <2> QED BY <1>5, <1>6, <1>7, <1>11, <2>1 DEF JobsFit, Prepares
<1>14. CacheAgrees'
  BY <1>1, <1>5, <1>6, <1>7, <1>11 DEF CacheAgrees, Prid
<1>15. AnsweredInOrder'
  BY <1>1 DEF AnsweredInOrder
<1>16. ClientFits'
  <2>1. client \in {"work", "rollback", "end"}
    BY <1>1 DEF ClientFits, Nothing, HolderTypeOK
  <2>2. CASE client = "work"
    <3>1. r.kind # "end" /\ \A i \in 1 .. Len(requests') : requests'[i].kind # "end"
      BY <1>2, <2>2 DEF ClientFits
    <3>2. \A g \in Procs : pc'[g] # "evict"
      BY <1>5, <1>6, <1>7, <3>1
    <3> QED BY <1>1, <2>2, <3>1, <3>2 DEF ClientFits
  <2>3. CASE client \in {"rollback", "end"}
    <3>1. Len(requests) = 1 /\ (client = "rollback" => r.kind = "query" /\ r.sql = "ROLLBACK")
          /\ (client = "end" => r.kind = "end" /\ r.sql = "none" /\ server.trans \in {"idle", "unknown"})
      BY <1>1, <1>2, <2>3 DEF ClientFits, Only, Nothing
    <3>2. requests' = <<>>
      BY <1>2, <3>1
    <3> QED BY <1>1, <1>5, <1>6, <1>11, <2>3, <3>1, <3>2 DEF ClientFits, Only
  <2> QED BY <2>1, <2>2, <2>3
<1> QED BY <1>9, <1>10, <1>12, <1>13, <1>14, <1>15, <1>16

Preparing == {"savepoint", "prepare", "rollbackTo"}
Known(s, cache, names) == cache[s].prid \in DOMAIN names /\ names[cache[s].prid] = s

(* What the step of a fiber at work owes the rest of the system. *)
LEMMA StepKeeps ==
  ASSUME HolderInv, NEW f \in AtWork,
         UNCHANGED <<requests, pushed, inTrans, client, clock>>,
         now' \in Nat,
         prepareds' \in Tables(Sqls, [prid : Prids, access : Nat, create : Nat]),
         server' \in Sessions, Sound(server'),
         \/ Answer(f)
         \/ /\ UNCHANGED <<job, answers>>
            /\ \/ \E where \in Prepares : /\ pc' = [pc EXCEPT ![f] = where]
                                          /\ pc[f] \in Prepares
                                          /\ job[f].sql \in DOMAIN prepareds'
               \/ pc[f] = "evict" /\ pc' = pc,
         server'.status = "ok" =>
           \A s \in DOMAIN prepareds' :
             (pc'[f] \in Preparing /\ job'[f].sql = s) \/ Known(s, prepareds', server'.named),
         client = "rollback" => server'.trans \in {"idle", "unknown"} /\ Answer(f),
         client = "end" =>
           /\ server'.trans \in {"idle", "unknown"}
           /\ Answer(f) => WithinMaximum' \/ server'.status = "lost"
  PROVE  HolderInv'
<1> USE DEF HolderInv
<1>1. f \in Procs /\ Inside(f) /\ AtWork = {f}
  BY Alone DEF AtWork, Inside, Prepares
<1>2. CASE Answer(f)
  <2>1. /\ OneInside' /\ Numbered' /\ AnsweredInOrder'
        /\ pc' \in [Procs -> {"none", "spawned", "pick", "query", "evict"} \cup Prepares]
        /\ job' \in [Procs -> Requests \cup {NoJob}]
        /\ answers' \in Seq(Nat)
        /\ \A g \in Procs : g # f => pc'[g] = pc[g] /\ pc[g] \in {"none", "spawned"}
    BY <1>2, Progress
  <2>2. pc'[f] = "pick"
    BY <1>1, <1>2 DEF Answer, HolderTypeOK
  <2>3. AtWork' = {}
    BY <2>1, <2>2 DEF AtWork, Prepares
  <2>4. HolderTypeOK'
    BY <2>1 DEF HolderTypeOK, Sessions
  <2>5. JobsFit'
    BY <2>1, <2>2 DEF JobsFit, Prepares
  <2>6. CacheAgrees'
    BY <2>2 DEF CacheAgrees, Prid, Known, Preparing
  <2>7. ClientFits'
    <3>1. client \in {"work", "rollback", "end"} /\ (client # "work" => Nothing')
      BY <2>3, ClientWaits DEF Nothing
    <3>2. \A g \in Procs : pc'[g] # "evict"
      BY <2>1, <2>2
    <3> QED BY <1>2, <3>1, <3>2 DEF ClientFits, Sound
  <2> QED BY <2>1, <2>4, <2>5, <2>6, <2>7
<1>3. CASE /\ UNCHANGED <<job, answers>>
           /\ \E where \in Prepares : /\ pc' = [pc EXCEPT ![f] = where]
                                      /\ pc[f] \in Prepares
                                      /\ job[f].sql \in DOMAIN prepareds'
  <2>1. /\ OneInside' /\ Numbered' /\ AnsweredInOrder'
        /\ pc' \in [Procs -> {"none", "spawned", "pick", "query", "evict"} \cup Prepares]
        /\ \A g \in Procs : g # f => pc'[g] = pc[g] /\ pc[g] \in {"none", "spawned"}
    BY <1>3, Progress
  <2>2. pc'[f] \in Prepares /\ pc[f] \in Prepares
    BY <1>1, <1>3 DEF HolderTypeOK
  <2>3. HolderTypeOK'
    BY <1>3, <2>1 DEF HolderTypeOK, Sessions
  <2>4. JobsFit'
    BY <1>1, <1>3, <2>1, <2>2 DEF JobsFit, Prepares
  <2>5. CacheAgrees'
    BY <1>1 DEF CacheAgrees, Prid, Known, Preparing
  <2>6. ClientFits'
    <3>1. client = "work"
      BY <2>2, ClientWaits DEF Prepares
    <3>2. \A g \in Procs : pc'[g] # "evict"
      BY <2>1, <2>2 DEF Prepares
    <3> QED BY <3>1, <3>2 DEF ClientFits, Sound
  <2> QED BY <2>1, <2>3, <2>4, <2>5, <2>6
<1>4. CASE UNCHANGED <<job, answers, pc>> /\ pc[f] = "evict"
  <2>1. pc' = [pc EXCEPT ![f] = "evict"]
    BY <1>1, <1>4 DEF HolderTypeOK
  <2>2. OneInside' /\ Numbered' /\ AnsweredInOrder'
    BY <1>4, <2>1, Progress
  <2>3. HolderTypeOK'
    BY <1>4 DEF HolderTypeOK, Sessions
  <2>4. JobsFit'
    BY <1>1, <1>4, Alone DEF JobsFit, Prepares
  <2>5. CacheAgrees'
    BY <1>1, <1>4 DEF CacheAgrees, Prid, Known, Preparing
  <2>6. ClientFits'
    <3>1. client = "end" /\ requests = <<>>
      BY <1>4, ClientWaits
    <3>2. Only("end", "none", "evict")
      BY <1>1, <3>1 DEF ClientFits, Nothing
    <3>3. Only("end", "none", "evict")'
      BY <1>4, <3>2 DEF Only, AtWork
    <3> QED BY <3>1, <3>3 DEF ClientFits, Sound
  <2> QED BY <2>2, <2>3, <2>4, <2>5, <2>6
<1> QED BY <1>2, <1>3, <1>4

LEMMA CacheKnown ==
  ASSUME HolderInv, NEW f \in AtWork, server.status = "ok", NEW s \in DOMAIN prepareds,
         ~(pc[f] \in Preparing /\ job[f].sql = s)
  PROVE  Known(s, prepareds, server.named)
<1>1. f \in Procs /\ Inside(f) /\ AtWork = {f} /\ \A g \in Procs : g # f => pc[g] \notin Preparing
  BY Alone DEF HolderInv, AtWork, Inside, Prepares, Preparing
<1> QED BY <1>1 DEF HolderInv, CacheAgrees, Prid, Known, Preparing

LEMMA RunKeeps ==
  ASSUME HolderInv, NEW f \in Procs, Run(f)
  PROVE  HolderInv'
<1> USE DEF HolderInv
<1>1. /\ UNCHANGED <<requests, prepareds, now, inTrans, pushed, client, clock>>
      /\ Answer(f) /\ pc[f] \in {"query", "execute"} /\ f \in AtWork
  BY DEF Run, holder, AtWork, Prepares
<1>2. server \in Sessions /\ Sound(server)
  BY DEF HolderTypeOK, ClientFits, Sessions, Sound
<1>3. PICK r : /\ server' = r.server
               /\ \/ pc[f] = "query" /\ r \in Served("QUERY", "none", job[f].sql)
                  \/ pc[f] = "execute" /\ r \in Served("EXECUTE", Prid(job[f].sql), "none")
  BY DEF Run
<1>4. /\ server' \in Sessions /\ Sound(server')
      /\ server'.status = "ok" => server.status = "ok"
      /\ server'.named = server.named
      /\ pc[f] = "query" /\ job[f].sql = "ROLLBACK" => server'.trans \in {"idle", "unknown"}
  <2>1. CASE pc[f] = "query"
    <3>1. r \in Served("QUERY", "none", job[f].sql)
      BY <1>3, <2>1
    <3>2. /\ r.server \in Sessions /\ Sound(r.server)
          /\ r.server.status = "ok" => server.status = "ok"
          /\ r.server.named = server.named
          /\ job[f].sql = "ROLLBACK" => r.server.trans \in {"idle", "unknown"}
      BY <1>2, <3>1, QueryServed
    <3> QED BY <1>3, <3>2
  <2>2. CASE pc[f] = "execute"
    <3>1. r \in Served("EXECUTE", Prid(job[f].sql), "none")
      BY <1>3, <2>2
    <3>2. /\ r.server \in Sessions /\ Sound(r.server)
          /\ r.server.status = "ok" => server.status = "ok"
          /\ r.server.named = server.named
      BY <1>2, <3>1, PlainServed DEF PlainCommands
    <3> QED BY <1>3, <2>2, <3>2
  <2> QED BY <1>1, <2>1, <2>2
<1>5. client = "rollback" => server'.trans \in {"idle", "unknown"}
  BY <1>1, <1>4, ClientWaits
<1>6. client # "end"
  BY <1>1, ClientWaits
<1>7. server'.status = "ok" => \A s \in DOMAIN prepareds' : Known(s, prepareds', server'.named)
  <2> SUFFICES ASSUME server'.status = "ok", NEW s \in DOMAIN prepareds
               PROVE  Known(s, prepareds, server.named)
    BY <1>1, <1>4
  <2> QED BY <1>1, <1>4, CacheKnown DEF Preparing
<1> QED BY <1>1, <1>4, <1>5, <1>6, <1>7, StepKeeps DEF HolderTypeOK

(* A step that must succeed: the statement leaves the cache if it fails. *)
LEMMA GuardedKeeps ==
  ASSUME HolderInv, NEW f \in Procs, NEW here \in Prepares, NEW next \in Prepares,
         NEW cmd \in PlainCommands,
         here \in Preparing => next \in Preparing,
         Guarded(f, here, cmd, next)
  PROVE  HolderInv'
<1> USE DEF HolderInv
<1> DEFINE s == job[f].sql
           Entry == [prid : Prids, access : Nat, create : Nat]
<1>1. /\ UNCHANGED <<requests, now, inTrans, pushed, client, clock>>
      /\ pc[f] = here /\ f \in AtWork
  BY DEF Guarded, AtWork
<1>2. server \in Sessions /\ Sound(server) /\ prepareds \in Tables(Sqls, Entry)
      /\ s \in DOMAIN prepareds
  BY <1>1 DEF HolderTypeOK, ClientFits, Sessions, Sound, JobsFit
<1>3. PICK r \in Served(cmd, Prid(s), s) :
         /\ server' = r.server
         /\ IF r.code = "ok"
            THEN GoOn(f, next) /\ UNCHANGED prepareds
            ELSE Answer(f) /\ prepareds' = delPrepared(s)
  BY DEF Guarded
<1>4. /\ server' \in Sessions /\ Sound(server')
      /\ server'.status = "ok" => server.status = "ok"
      /\ server'.named = server.named
  <2>1. /\ r.server \in Sessions /\ Sound(r.server)
        /\ r.server.status = "ok" => server.status = "ok"
        /\ r.server.named = server.named
    BY <1>2, PlainServed
  <2> QED BY <1>3, <2>1
<1>5. client = "work"
  BY <1>1, ClientWaits DEF Prepares
<1>6. ASSUME server.status = "ok", NEW q \in DOMAIN prepareds, q # s \/ here \notin Preparing
      PROVE  Known(q, prepareds, server.named)
  BY <1>1, <1>6, CacheKnown DEF Preparing
<1>7. CASE r.code = "ok"
  <2>1. GoOn(f, next) /\ prepareds' = prepareds
    BY <1>3, <1>7
  <2>2. pc'[f] = next /\ job' = job
    BY <2>1 DEF GoOn, HolderTypeOK
  <2>3. server'.status = "ok" =>
          \A q \in DOMAIN prepareds' :
            (pc'[f] \in Preparing /\ job'[f].sql = q) \/ Known(q, prepareds', server'.named)
    <3> SUFFICES ASSUME server'.status = "ok", NEW q \in DOMAIN prepareds
                 PROVE  (next \in Preparing /\ s = q) \/ Known(q, prepareds, server.named)
      BY <1>4, <2>1, <2>2
    <3>1. CASE q # s \/ here \notin Preparing
      BY <1>4, <1>6, <3>1
    <3>2. CASE q = s /\ here \in Preparing
      BY <3>2
    <3> QED BY <3>1, <3>2
  <2> QED BY <1>1, <1>2, <1>4, <1>5, <2>1, <2>3, StepKeeps DEF GoOn, HolderTypeOK
<1>8. CASE r.code # "ok"
  <2>1. Answer(f) /\ prepareds' = Without(prepareds, s)
    BY <1>3, <1>8 DEF delPrepared
  <2>2. /\ prepareds' \in Tables(Sqls, Entry) /\ DOMAIN prepareds' = DOMAIN prepareds \ {s}
        /\ \A q \in DOMAIN prepareds : q # s => prepareds'[q] = prepareds[q]
    <3>1. prepareds' \in Tables(Sqls, Entry)
      <4> HIDE DEF s, Entry
      <4> QED BY <1>2, <2>1, WithoutTable
    <3> QED BY <2>1, <3>1 DEF Without
  <2>3. server'.status = "ok" => \A q \in DOMAIN prepareds' : Known(q, prepareds', server'.named)
    <3> SUFFICES ASSUME server'.status = "ok", NEW q \in DOMAIN prepareds, q # s
                 PROVE  Known(q, prepareds', server.named)
      BY <1>4, <2>2
    <3>1. Known(q, prepareds, server.named)
      BY <1>4, <1>6
    <3> QED BY <2>2, <3>1 DEF Known
  <2> QED BY <1>1, <1>4, <1>5, <2>1, <2>2, <2>3, StepKeeps DEF HolderTypeOK
<1> QED BY <1>7, <1>8

LEMMA PrepareKeeps ==
  ASSUME HolderInv, NEW f \in Procs, Prepare(f)
  PROVE  HolderInv'
<1> USE DEF HolderInv
<1> DEFINE s == job[f].sql
           Entry == [prid : Prids, access : Nat, create : Nat]
<1>1. /\ UNCHANGED <<requests, now, inTrans, pushed, client, clock>>
      /\ pc[f] = "prepare" /\ f \in AtWork /\ now' \in Nat
  BY DEF Prepare, AtWork, Prepares, HolderTypeOK
<1>2. /\ server \in Sessions /\ Sound(server) /\ prepareds \in Tables(Sqls, Entry)
      /\ s \in DOMAIN prepareds
  BY <1>1 DEF HolderTypeOK, ClientFits, Sessions, Sound, JobsFit, Prepares
<1>3. s \in Sqls /\ Prid(s) \in Prids /\ prepareds[s] \in Entry
      /\ prepareds \in [DOMAIN prepareds -> Entry] /\ DOMAIN prepareds \in SUBSET Sqls
  <2>1. prepareds \in [DOMAIN prepareds -> Entry] /\ DOMAIN prepareds \in SUBSET Sqls
    BY <1>2, TableParts
  <2> QED BY <1>2, <2>1 DEF Prid
<1>4. PICK r \in Served("PREPARE", Prid(s), s) :
         /\ server' = r.server
         /\ \/ r.code = "ok" /\ UNCHANGED prepareds
               /\ \E where \in {"release", "execute"} : GoOn(f, where)
            \/ r.code # "ok" /\ GoOn(f, "prepare") /\ UNCHANGED prepareds
            \/ r.code # "ok" /\ GoOn(f, "rollbackTo") /\ \E p \in Prids : prepareds' = genPrid(s, p)
            \/ r.code # "ok" /\ Answer(f) /\ prepareds' = delPrepared(s)
  <2>1. PICK r \in Served("PREPARE", Prid(s), s) :
          /\ server' = r.server
          /\ CASE r.code = "ok" ->
                   GoOn(f, IF inTrans[f] THEN "release" ELSE "execute") /\ UNCHANGED prepareds
              [] r.code = "42P05" /\ inTrans[f] ->
                   /\ GoOn(f, "rollbackTo")
                   /\ \E p \in Prids : prepareds' = genPrid(s, p)
              [] r.code = "42P05" /\ ~inTrans[f] -> GoOn(f, "prepare") /\ UNCHANGED prepareds
              [] OTHER -> Answer(f) /\ prepareds' = delPrepared(s)
    BY DEF Prepare
  <2>2. CASE r.code = "ok"
    <3>1. GoOn(f, IF inTrans[f] THEN "release" ELSE "execute") /\ UNCHANGED prepareds
      BY <2>1, <2>2
    <3>2. \E where \in {"release", "execute"} : GoOn(f, where)
      BY <3>1
    <3> QED BY <2>1, <2>2, <3>1, <3>2
  <2>3. CASE r.code = "42P05" /\ inTrans[f]
    BY <2>1, <2>3
  <2>4. CASE r.code = "42P05" /\ ~inTrans[f]
    BY <2>1, <2>4
  <2>5. CASE r.code # "ok" /\ r.code # "42P05"
    BY <2>1, <2>5
  <2> QED BY <2>2, <2>3, <2>4, <2>5
<1>5. /\ server' \in Sessions /\ Sound(server')
      /\ server'.status = "ok" => server.status = "ok"
      /\ \/ /\ r.code = "ok" /\ Prid(s) \notin DOMAIN server.named
            /\ server'.named = With(server.named, Prid(s), s)
         \/ r.code # "ok" /\ server'.named = server.named
  <2>1. /\ r.server \in Sessions /\ Sound(r.server)
        /\ r.server.status = "ok" => server.status = "ok"
        /\ \/ /\ r.code = "ok" /\ Prid(s) \notin DOMAIN server.named
              /\ r.server.named = With(server.named, Prid(s), s)
           \/ r.code # "ok" /\ r.server.named = server.named
    BY <1>2, <1>3, PrepareServed
  <2> QED BY <1>4, <2>1
<1>6. client = "work"
  BY <1>1, ClientWaits
<1>7. ASSUME server.status = "ok", NEW q \in DOMAIN prepareds, q # s
      PROVE  Known(q, prepareds, server.named)
  BY <1>1, <1>7, CacheKnown
<1>8. ASSUME NEW where \in Prepares, GoOn(f, where)
      PROVE  /\ UNCHANGED <<job, answers>> /\ pc' = [pc EXCEPT ![f] = where]
             /\ pc'[f] = where
  BY <1>8 DEF GoOn, HolderTypeOK
<1>9. CASE r.code = "ok" /\ UNCHANGED prepareds /\ \E where \in {"release", "execute"} : GoOn(f, where)
  <2>1. PICK where \in Prepares : GoOn(f, where)
    BY <1>9 DEF Prepares
  <2>2. server'.status = "ok" => \A q \in DOMAIN prepareds' : Known(q, prepareds', server'.named)
    <3> SUFFICES ASSUME server'.status = "ok", NEW q \in DOMAIN prepareds
                 PROVE  Known(q, prepareds, With(server.named, Prid(s), s))
      BY <1>5, <1>9
    <3>1. CASE q = s
      BY <3>1 DEF Known, With, Prid
    <3>2. CASE q # s
      <4>1. Known(q, prepareds, server.named)
        BY <1>5, <1>7, <3>2
      <4> QED BY <1>5, <1>9, <4>1 DEF Known, With, Prid
    <3> QED BY <3>1, <3>2
  <2>3. pc[f] \in Prepares /\ job[f].sql \in DOMAIN prepareds'
    BY <1>1, <1>2, <1>9 DEF Prepares
  <2> QED BY <1>1, <1>2, <1>5, <1>6, <1>8, <1>9, <2>1, <2>2, <2>3, StepKeeps
<1>10. CASE r.code # "ok" /\ GoOn(f, "prepare") /\ UNCHANGED prepareds
  <2>1. /\ UNCHANGED <<job, answers>> /\ pc' = [pc EXCEPT ![f] = "prepare"]
        /\ pc'[f] \in Preparing /\ "prepare" \in Prepares
    BY <1>8, <1>10 DEF Prepares, Preparing
  <2>2. server'.status = "ok" =>
          \A q \in DOMAIN prepareds' :
            (pc'[f] \in Preparing /\ job'[f].sql = q) \/ Known(q, prepareds', server'.named)
    BY <1>5, <1>7, <1>10, <2>1
  <2>3. pc[f] \in Prepares /\ job[f].sql \in DOMAIN prepareds'
    BY <1>1, <1>2, <1>10 DEF Prepares
  <2> QED BY <1>1, <1>2, <1>5, <1>6, <1>10, <2>1, <2>2, <2>3, StepKeeps
<1>11. CASE r.code # "ok" /\ GoOn(f, "rollbackTo") /\ \E p \in Prids : prepareds' = genPrid(s, p)
  <2>1. /\ UNCHANGED <<job, answers>> /\ pc' = [pc EXCEPT ![f] = "rollbackTo"]
        /\ pc'[f] \in Preparing /\ "rollbackTo" \in Prepares
    BY <1>8, <1>11 DEF Prepares, Preparing
  <2>2. PICK p \in Prids : prepareds' = [prepareds EXCEPT ![s].prid = p]
    BY <1>11 DEF genPrid
  <2>3. /\ prepareds' \in [DOMAIN prepareds -> Entry] /\ DOMAIN prepareds' = DOMAIN prepareds
        /\ \A q \in DOMAIN prepareds : q # s => prepareds'[q] = prepareds[q]
    BY <1>3, <2>2
  <2>4. prepareds' \in Tables(Sqls, Entry)
    BY <1>3, <2>3 DEF Tables
  <2>5. server'.status = "ok" =>
          \A q \in DOMAIN prepareds' :
            (pc'[f] \in Preparing /\ job'[f].sql = q) \/ Known(q, prepareds', server'.named)
    <3> SUFFICES ASSUME server'.status = "ok", NEW q \in DOMAIN prepareds, q # s
                 PROVE  Known(q, prepareds', server'.named)
      BY <2>1, <2>3
    <3>1. Known(q, prepareds, server.named)
      BY <1>5, <1>7
    <3> QED BY <1>5, <1>11, <2>3, <3>1 DEF Known
  <2>6. pc[f] \in Prepares /\ job[f].sql \in DOMAIN prepareds'
    BY <1>1, <1>2, <2>3 DEF Prepares
  <2> QED BY <1>1, <1>5, <1>6, <2>1, <2>4, <2>5, <2>6, StepKeeps
<1>12. CASE r.code # "ok" /\ Answer(f) /\ prepareds' = delPrepared(s)
  <2>1. Answer(f) /\ prepareds' = Without(prepareds, s)
    BY <1>12 DEF delPrepared
  <2>2. /\ prepareds' \in Tables(Sqls, Entry) /\ DOMAIN prepareds' = DOMAIN prepareds \ {s}
        /\ \A q \in DOMAIN prepareds : q # s => prepareds'[q] = prepareds[q]
    <3>1. prepareds' \in Tables(Sqls, Entry)
      <4> HIDE DEF s, Entry
      <4> QED BY <1>2, <2>1, WithoutTable
    <3> QED BY <2>1, <3>1 DEF Without
  <2>3. server'.status = "ok" => \A q \in DOMAIN prepareds' : Known(q, prepareds', server'.named)
    <3> SUFFICES ASSUME server'.status = "ok", NEW q \in DOMAIN prepareds, q # s
                 PROVE  Known(q, prepareds', server.named)
      BY <1>5, <1>12, <2>2
    <3>1. Known(q, prepareds, server.named)
      BY <1>5, <1>7
    <3> QED BY <2>2, <3>1 DEF Known
  <2> QED BY <1>1, <1>5, <1>6, <2>1, <2>2, <2>3, StepKeeps
<1> QED BY <1>4, <1>9, <1>10, <1>11, <1>12

LEMMA SqlsFinite == ASSUME NEW D \in SUBSET Sqls PROVE IsFiniteSet(D) /\ Cardinality(D) \in Nat
<1>1. IsFiniteSet({"BEGIN"}) /\ IsFiniteSet({"COMMIT"}) /\ IsFiniteSet({"work"})
  BY FS_Singleton
<1>2. IsFiniteSet({"BEGIN"} \cup {"COMMIT"})
  BY <1>1, FS_Union
<1>3. IsFiniteSet({"BEGIN"} \cup {"COMMIT"} \cup {"work"})
  BY <1>1, <1>2, FS_Union
<1>4. Sqls = {"BEGIN"} \cup {"COMMIT"} \cup {"work"}
  BY DEF Sqls
<1>5. IsFiniteSet(D)
  BY <1>3, <1>4, FS_Subset
<1> QED BY <1>5, FS_CardinalityType

(* There is an oldest statement in a cache that is not empty. *)
LEMMA OldestExists ==
  ASSUME DOMAIN prepareds \in SUBSET Sqls, DOMAIN prepareds # {},
         NEW t, \A s \in DOMAIN prepareds : t[s] \in Nat
  PROVE  Oldest(t) # {}
<1> SUFFICES \E s \in DOMAIN prepareds : \A q \in DOMAIN prepareds : t[s] <= t[q]
  BY DEF Oldest
<1> DEFINE D == DOMAIN prepareds
<1>1. ASSUME NEW a \in D, NEW b \in D
      PROVE  \E m \in {a, b} : t[m] <= t[a] /\ t[m] <= t[b]
  OBVIOUS
<1>2. PICK a \in D : TRUE
  OBVIOUS
<1>3. PICK b \in D : D \subseteq {a} \/ b # a
  OBVIOUS
<1>4. PICK c \in D : D \subseteq {a, b, c}
  BY <1>3 DEF Sqls
<1>5. PICK m \in D : t[m] <= t[a] /\ t[m] <= t[b]
  BY <1>1
<1>6. PICK n \in D : t[n] <= t[m] /\ t[n] <= t[c]
  BY <1>1
<1>7. t[n] <= t[a] /\ t[n] <= t[b] /\ t[n] <= t[c]
  BY <1>5, <1>6
<1> QED BY <1>4, <1>7

(* What is evicted is deallocated, or the session is lost. *)
LEMMA EvictKeeps ==
  ASSUME HolderInv, NEW f \in Procs, Evict(f)
  PROVE  HolderInv'
<1> USE DEF HolderInv
<1> DEFINE Entry == [prid : Prids, access : Nat, create : Nat]
<1>1. /\ UNCHANGED <<requests, now, inTrans, pushed, client, clock>>
      /\ pc[f] = "evict" /\ f \in AtWork /\ now' \in Nat
  BY DEF Evict, AtWork, Prepares, HolderTypeOK
<1>2. client = "end" /\ server.trans \in {"idle", "unknown"}
  BY <1>1, ClientWaits
<1>3. server \in Sessions /\ Sound(server) /\ prepareds \in Tables(Sqls, Entry)
  BY DEF HolderTypeOK, ClientFits, Sessions, Sound
<1>4. PICK s \in Evictable : \E r \in Served("DEALLOCATE", Prid(s), "none") :
        /\ server' = r.server
        /\ IF r.code \in {"ok", "26000"}
           THEN prepareds' = delPrepared(s) /\ UNCHANGED <<pc, job, answers>>
           ELSE prepareds' = <<>> /\ Answer(f)
  BY DEF Evict
<1> PICK r \in Served("DEALLOCATE", Prid(s), "none") :
        /\ server' = r.server
        /\ IF r.code \in {"ok", "26000"}
           THEN prepareds' = delPrepared(s) /\ UNCHANGED <<pc, job, answers>>
           ELSE prepareds' = <<>> /\ Answer(f)
  BY <1>4
<1>5. s \in DOMAIN prepareds
  BY DEF Evictable, Oldest
<1>6. /\ server' \in Sessions /\ Sound(server')
      /\ server'.status = "ok" => server.status = "ok"
      /\ server'.trans \in {"idle", "unknown"}
      /\ \/ r.code \notin {"ok", "26000"} /\ server'.status = "lost"
         \/ r.code = "26000" /\ server'.named = server.named
         \/ r.code = "ok" /\ server'.named = Without(server.named, Prid(s))
  <2>1. /\ r.server \in Sessions /\ Sound(r.server)
        /\ r.server.status = "ok" => server.status = "ok"
        /\ r.server.trans \in {"idle", "unknown"}
        /\ \/ r.code \notin {"ok", "26000"} /\ r.server.status = "lost"
           \/ r.code = "26000" /\ r.server.named = server.named
           \/ r.code = "ok" /\ r.server.named = Without(server.named, Prid(s))
    BY <1>2, <1>3, DeallocateServed
  <2> QED BY <1>4, <2>1
<1>7. ASSUME server.status = "ok", NEW q \in DOMAIN prepareds
      PROVE  Known(q, prepareds, server.named)
  BY <1>1, <1>7, CacheKnown DEF Preparing
<1>8. CASE r.code \in {"ok", "26000"}
  <2>1. prepareds' = Without(prepareds, s) /\ UNCHANGED <<pc, job, answers>>
    BY <1>8 DEF delPrepared
  <2>2. /\ prepareds' \in Tables(Sqls, Entry) /\ DOMAIN prepareds' = DOMAIN prepareds \ {s}
        /\ \A q \in DOMAIN prepareds : q # s => prepareds'[q] = prepareds[q]
    <3>1. prepareds' \in Tables(Sqls, Entry)
      <4> HIDE DEF Entry
      <4> QED BY <1>3, <2>1, WithoutTable
    <3> QED BY <2>1, <3>1 DEF Without
  <2>3. server'.status = "ok" => \A q \in DOMAIN prepareds' : Known(q, prepareds', server'.named)
    <3> SUFFICES ASSUME server'.status = "ok", NEW q \in DOMAIN prepareds, q # s
                 PROVE  Known(q, prepareds', server'.named)
      BY <2>2
    <3>1. Known(q, prepareds, server.named) /\ Known(s, prepareds, server.named)
      BY <1>5, <1>6, <1>7
    <3>2. prepareds[q].prid # Prid(s)
      BY <3>1 DEF Known, Prid
    <3>3. CASE server'.named = server.named
      BY <2>2, <3>1, <3>3 DEF Known
    <3>4. CASE server'.named = Without(server.named, Prid(s))
      BY <2>2, <3>1, <3>2, <3>4 DEF Known, Without
    <3> QED BY <1>6, <1>8, <3>3, <3>4
  <2>4. ~Answer(f)
    BY <1>1, <2>1 DEF Answer, AtWork, HolderTypeOK
  <2> QED BY <1>1, <1>2, <1>6, <2>1, <2>2, <2>3, <2>4, StepKeeps
<1>9. CASE r.code \notin {"ok", "26000"}
  <2>1. prepareds' = <<>> /\ Answer(f) /\ server'.status = "lost"
    BY <1>4, <1>6, <1>9
  <2>2. prepareds' \in Tables(Sqls, Entry)
    BY <2>1, NoTable
  <2> QED BY <1>1, <1>2, <1>6, <2>1, <2>2, StepKeeps
<1> QED BY <1>8, <1>9

LEMMA EndWorkDoneKeeps ==
  ASSUME HolderInv, NEW f \in Procs, EndWorkDone(f)
  PROVE  HolderInv'
<1> USE DEF HolderInv
<1> DEFINE Entry == [prid : Prids, access : Nat, create : Nat]
<1>1. /\ UNCHANGED <<requests, prepareds, inTrans, server, pushed, client, clock>>
      /\ pc[f] = "evict" /\ f \in AtWork /\ now' = 0 /\ Answer(f) /\ Evictable = {}
  BY DEF EndWorkDone, AtWork, Prepares
<1>2. client = "end" /\ server.trans \in {"idle", "unknown"}
  BY <1>1, ClientWaits
<1>3. server \in Sessions /\ Sound(server) /\ prepareds \in Tables(Sqls, Entry)
  BY DEF HolderTypeOK, ClientFits, Sessions, Sound
<1>4. DOMAIN prepareds \in SUBSET Sqls /\ \A s \in DOMAIN prepareds : prepareds[s] \in Entry
  <2>1. prepareds \in [DOMAIN prepareds -> Entry] /\ DOMAIN prepareds \in SUBSET Sqls
    BY <1>3, TableParts
  <2> QED BY <2>1
<1>5. WithinMaximum'
  <2>1. Cardinality(DOMAIN prepareds) \in Nat /\ MaxPrepared \in Nat
    BY <1>4, SqlsFinite, HolderAssumption
  <2>2. ASSUME Cardinality(DOMAIN prepareds) > MaxPrepared PROVE FALSE
    <3>1. DOMAIN prepareds # {}
      <4>1. Cardinality({}) = 0
        BY FS_EmptySet
      <4> QED BY <2>1, <2>2, <4>1
    <3> DEFINE t == [s \in DOMAIN prepareds |-> prepareds[s].access]
    <3>2. \A s \in DOMAIN prepareds : t[s] \in Nat
      BY <1>4
    <3>3. Oldest(t) # {}
      <4> HIDE DEF t
      <4> QED BY <1>4, <3>1, <3>2, OldestExists
    <3> QED BY <1>1, <2>2, <3>3 DEF Evictable
  <2> QED BY <1>1, <2>1, <2>2 DEF WithinMaximum
<1>6. server'.status = "ok" => \A q \in DOMAIN prepareds' : Known(q, prepareds', server'.named)
  BY <1>1, CacheKnown DEF Preparing
<1> QED BY <1>1, <1>2, <1>3, <1>5, <1>6, StepKeeps

LEMMA HolderNextKeeps == HolderInv /\ [HolderNext]_holderVars => HolderInv'
<1> SUFFICES ASSUME HolderInv, [HolderNext]_holderVars PROVE HolderInv'
  OBVIOUS
<1>1. CASE UNCHANGED holderVars
  BY <1>1 DEF HolderInv, holderVars, holder, fibers, HolderTypeOK, OneInside, Inside, Numbered,
              AtWork, InFlight, JobsFit, ClientFits, Nothing, Only, WithinMaximum,
              AnsweredInOrder, CacheAgrees, Prid
<1>2. ASSUME NEW f \in Procs, Process(f) PROVE HolderInv'
  <2>1. CASE Savepoint(f)
    BY <2>1, GuardedKeeps DEF Savepoint, Prepares, Preparing, PlainCommands
  <2>2. CASE Release(f)
    BY <2>2, GuardedKeeps DEF Release, Prepares, Preparing, PlainCommands
  <2>3. CASE RollbackTo(f)
    BY <2>3, GuardedKeeps DEF RollbackTo, Prepares, Preparing, PlainCommands
  <2> QED BY <1>2, <2>1, <2>2, <2>3, LockKeeps, LeaveKeeps, PickKeeps, RunKeeps, PrepareKeeps,
             EvictKeeps, EndWorkDoneKeeps DEF Process
<1> QED BY <1>1, <1>2, ClientKeeps DEF HolderNext

(* Futures are set in the order of the requests, each one once, for any    *)
(* number of fibers that pushRequest may have spawned and any failures.    *)
THEOREM RequestsAnsweredInOrder == HolderSpec => []AnsweredInOrder
<1>1. HolderInv => AnsweredInOrder
  BY DEF HolderInv
<1> QED BY <1>1, HolderStarts, HolderNextKeeps, PTL DEF HolderSpec

(* The cache of prepared statements is true of the session, and a          *)
(* connection that went back to the pool is clean, for any number of       *)
(* names, any maximum and any time-out.                                    *)
THEOREM HolderStaysConsistent == HolderSpec => []HolderConsistent
<1>1. HolderInv => HolderConsistent
  BY DEF HolderInv, HolderConsistent, ClientFits, Nothing, WithinMaximum, PoolClean
<1> QED BY <1>1, HolderStarts, HolderNextKeeps, PTL DEF HolderSpec
-----------------------------------------------------------------------------
(* The calendar.  A year of the calculation begins in March: with its      *)
(* number taken apart into centuries of 400 years, centuries, leap cycles  *)
(* and years, the day number has a part for each.                          *)

(* The days before a year, with a + b + c + f for its parts. *)
Parts(y, q, c, e, f) ==
    q \in Nat /\ c \in 0 .. 3 /\ e \in 0 .. 24 /\ f \in 0 .. 3 /\ y = 400 * q + 100 * c + 4 * e + f
YearStart(y) == y * 365 + (y \div 4 - y \div 100 + (y \div 100) \div 4)
PartsStart(q, c, e, f) == 146097 * q + 36524 * c + 1461 * e + 365 * f

LEMMA YearParts ==
  ASSUME NEW y \in Nat
  PROVE  \E q, c, e, f : Parts(y, q, c, e, f)
<1> DEFINE q == y \div 400  x == y % 400  c == x \div 100  z == x % 100  e == z \div 4  f == z % 4
<1>1. q \in Nat /\ x \in 0 .. 399 /\ y = 400 * q + x
  BY SMT
<1>2. c \in 0 .. 3 /\ z \in 0 .. 99 /\ x = 100 * c + z
  <2> HIDE DEF x
  <2> QED BY <1>1, SMT
<1>3. e \in 0 .. 24 /\ f \in 0 .. 3 /\ z = 4 * e + f
  <2> HIDE DEF z
  <2> QED BY <1>2, SMT
<1>4. y = 400 * q + 100 * c + 4 * e + f
  <2> HIDE DEF q, x, c, z, e, f
  <2> QED BY <1>1, <1>2, <1>3, SMT
<1> HIDE DEF q, c, e, f
<1>5. Parts(y, q, c, e, f)
  BY <1>1, <1>2, <1>3, <1>4, SMT DEF Parts
<1> QED BY <1>5

LEMMA YearDays ==
  ASSUME NEW y \in Nat, NEW q, NEW c, NEW e, NEW f, Parts(y, q, c, e, f)
  PROVE  YearStart(y) = PartsStart(q, c, e, f)
<1> USE DEF Parts
<1>1. y \div 4 = 100 * q + 25 * c + e
  BY SMT
<1>2. y \div 100 = 4 * q + c
  BY SMT
<1>3. (4 * q + c) \div 4 = q
  BY SMT
<1> QED BY <1>1, <1>2, <1>3, SMT DEF YearStart, PartsStart

(* The months: d is the day of the year that begins in March. *)
MarchMonth(m) == IF m > 2 THEN m + 1 ELSE m + 13
MarchDay(m, d) == (7834 * MarchMonth(m)) \div 256 + d - 123

MonthDay(m, d) ==
    m \in 1 .. 12 /\ d \in 1 .. 31 /\ (m \in {4, 6, 9, 11} => d <= 30) /\ (m = 2 => d <= 29)
MarchRead(m, d, a) ==
    /\ a \in 0 .. 365
    /\ (m > 2 => a < 306) /\ (m <= 2 => a >= 306)
    /\ (a = 365 => m = 2 /\ d = 29)
    /\ ((MarchTo(a) + 10) % 12) + 1 = m /\ a + 123 - (7834 * MarchTo(a)) \div 256 = d

LEMMA MonthsBack ==
  ASSUME NEW m, NEW d, MonthDay(m, d)
  PROVE  MarchRead(m, d, MarchDay(m, d))
<1> USE DEF MonthDay, MarchRead, MarchTo
<1>1. CASE m = 1
  BY <1>1, SMT DEF MarchDay, MarchMonth
<1>2. CASE m = 2
  BY <1>2, SMT DEF MarchDay, MarchMonth
<1>3. CASE m = 3
  BY <1>3, SMT DEF MarchDay, MarchMonth
<1>4. CASE m = 4
  BY <1>4, SMT DEF MarchDay, MarchMonth
<1>5. CASE m = 5
  BY <1>5, SMT DEF MarchDay, MarchMonth
<1>6. CASE m = 6
  BY <1>6, SMT DEF MarchDay, MarchMonth
<1>7. CASE m = 7
  BY <1>7, SMT DEF MarchDay, MarchMonth
<1>8. CASE m = 8
  BY <1>8, SMT DEF MarchDay, MarchMonth
<1>9. CASE m = 9
  BY <1>9, SMT DEF MarchDay, MarchMonth
<1>10. CASE m = 10
  BY <1>10, SMT DEF MarchDay, MarchMonth
<1>11. CASE m = 11
  BY <1>11, SMT DEF MarchDay, MarchMonth
<1>12. CASE m = 12
  BY <1>12, SMT DEF MarchDay, MarchMonth
<1> QED BY <1>1, <1>2, <1>3, <1>4, <1>5, <1>6, <1>7, <1>8, <1>9, <1>10, <1>11, <1>12, SMT

(* Back from days to the parts of a year. *)
CenturyDay(j, q, c, e, f, a) ==
    /\ q \in Nat /\ c \in 0 .. 3 /\ e \in 0 .. 24 /\ f \in 0 .. 3 /\ a \in 0 .. 365
    /\ j \in Int /\ j = PartsStart(q, c, e, f) + a
    /\ (a < 365 \/ f = 3) /\ (a < 365 \/ e < 24 \/ c = 3)
CenturyRead(j, q, c) == j \div 146097 = q /\ ((j - q * 146097) * 4 + 3) \div 146097 = c

LEMMA CenturiesBack ==
  ASSUME NEW j, NEW q, NEW c, NEW e, NEW f, NEW a, CenturyDay(j, q, c, e, f, a)
  PROVE  CenturyRead(j, q, c)
<1> USE DEF CenturyDay, CenturyRead, PartsStart
<1> DEFINE r == 36524 * c + 1461 * e + 365 * f + a
<1>1. r \in Int /\ 0 <= r /\ r <= 146096 /\ j = 146097 * q + r
  BY SMT
<1> DEFINE s == 4 * (1461 * e + 365 * f + a) + 3 - c
<1>2. s \in Int /\ 0 <= s /\ s <= 146096 /\ r * 4 + 3 = 146097 * c + s
  <2>1. CASE a = 365
    BY <2>1, SMT
  <2>2. CASE a # 365
    BY <2>2, SMT
  <2> QED BY <2>1, <2>2, SMT
<1> HIDE DEF r, s
<1>3. j \div 146097 = q /\ j - q * 146097 = r
  BY <1>1, SMT
<1>4. (r * 4 + 3) \div 146097 = c
  BY <1>2, SMT
<1> QED BY <1>3, <1>4, SMT

YearRead(w) == w - 4800
DateRead(q1, j2, y, m, d) ==
    LET a == CycleDay(j2)
    IN  YearRead(CycleYear(j2) + q1 * 4) = y /\ ((MarchTo(a) + 10) % 12) + 1 = m /\ a + 123 - (7834 * MarchTo(a)) \div 256 = d

LEMMA CycleDates ==
  ASSUME NEW q1 \in Int, NEW j2 \in Int, NEW y, NEW m, NEW d, DateRead(q1, j2, y, m, d)
  PROVE  CycleDate(q1, j2) = <<y, m, d>>
<1>1. PICK a \in Int : a = CycleDay(j2)
  BY SMT DEF CycleDay
<1>2. PICK w \in Int : w = MarchTo(a)
  BY SMT DEF MarchTo
<1>3. PICK x \in Int : x = CycleYear(j2)
  BY SMT DEF CycleYear
<1>4. x + q1 * 4 - 4800 = y /\ ((w + 10) % 12) + 1 = m /\ a + 123 - (7834 * w) \div 256 = d
  BY <1>1, <1>2, <1>3, SMT DEF DateRead, YearRead
<1>5. CycleDate(q1, j2) = <<x + q1 * 4 - 4800, ((w + 10) % 12) + 1, a + 123 - (7834 * w) \div 256>>
  BY <1>1, <1>2, <1>3, SMT DEF CycleDate
<1> QED BY <1>4, <1>5

CycleOf(j1, k, f, a) ==
    /\ k \in Nat /\ f \in 0 .. 3 /\ a \in 0 .. 365 /\ j1 \in Int
    /\ j1 = 1461 * k + 365 * f + a + 60 /\ (a < 365 \/ f = 3)
CycleRead(j1, k, f, a) ==
    LET q1 == j1 \div 1461
        j2 == j1 - q1 * 1461
    IN  /\ CycleDay(j2) = a
        /\ CycleYear(j2) + q1 * 4 = 4 * k + f + (IF a < 306 THEN 0 ELSE 1)

LEMMA CyclesBack ==
  ASSUME NEW j1, NEW k, NEW f, NEW a, CycleOf(j1, k, f, a)
  PROVE  CycleRead(j1, k, f, a)
<1> DEFINE Goal == CycleRead(j1, k, f, a)
<1> USE DEF CycleOf, CycleRead
<1>1. ASSUME a < 306 \/ f < 3 PROVE Goal
  <2> DEFINE r == 365 * f + a + 60
  <2>1. r \in 0 .. 1460 /\ j1 = 1461 * k + r
    BY <1>1, SMT
  <2>2. j1 \div 1461 = k /\ j1 - k * 1461 = r
    <3> HIDE DEF r
    <3> QED BY <2>1, SMT
  <2>3. CycleYear(r) = f + (IF a < 306 THEN 0 ELSE 1)
    <3>1. CASE f = 0
      BY <1>1, <3>1, SMT DEF CycleYear
    <3>2. CASE f = 1
      BY <1>1, <3>2, SMT DEF CycleYear
    <3>3. CASE f = 2
      BY <1>1, <3>3, SMT DEF CycleYear
    <3>4. CASE f = 3
      BY <1>1, <3>4, SMT DEF CycleYear
    <3> QED BY <3>1, <3>2, <3>3, <3>4, SMT
  <2>4. CycleDay(r) = a
    <3>1. CASE f = 0 /\ a < 306
      <4>1. CycleYear(r) = 0
        BY <2>3, <3>1, SMT
      <4> QED BY <3>1, <4>1, SMT DEF CycleDay
    <3>2. CASE f # 0 \/ a >= 306
      <4>1. CycleYear(r) # 0
        BY <2>3, <3>2, SMT
      <4>2. a < 365
        BY <1>1, SMT
      <4>3. (r + 305) % 365 = a
        <5>1. r + 305 = 365 * (f + 1) + a
          BY SMT
        <5> HIDE DEF r
        <5> QED BY <4>2, <5>1, <2>1, SMT
      <4> QED BY <4>1, <4>3, SMT DEF CycleDay
    <3> QED BY <3>1, <3>2, SMT
  <2> HIDE DEF r
  <2> QED BY <2>2, <2>3, <2>4, SMT
<1>2. ASSUME a >= 306, f = 3 PROVE Goal
  <2> DEFINE r == a - 306
  <2>1. r \in 0 .. 59 /\ j1 = 1461 * (k + 1) + r
    BY <1>2, SMT
  <2>2. j1 \div 1461 = k + 1 /\ j1 - (k + 1) * 1461 = r
    <3> HIDE DEF r
    <3> QED BY <2>1, SMT
  <2>3. CycleYear(r) = 0
    <3> HIDE DEF r
    <3> QED BY <2>1, SMT DEF CycleYear
  <2>4. CycleDay(r) = a
    BY <1>2, <2>3, SMT DEF CycleDay
  <2> HIDE DEF r
  <2> QED BY <1>2, <2>2, <2>3, <2>4, SMT
<1> QED BY <1>1, <1>2, SMT

MarchYear(y, m) == y + (IF m > 2 THEN 4800 ELSE 4799)

LEMMA LeapDays ==
  ASSUME NEW y \in Int, NEW m, NEW d, CalendarDay(y, m, d), m = 2, d = 29,
         NEW q, NEW c, NEW e, NEW f, Parts(MarchYear(y, m), q, c, e, f)
  PROVE  f = 3 /\ (e < 24 \/ c = 3)
<1> USE DEF Parts, MarchYear
<1>1. y % 4 = 0 /\ (y % 100 # 0 \/ y % 400 = 0)
  BY SMT DEF CalendarDay, MonthEnd, Leap
<1>2. f = 3
  BY <1>1, SMT
<1>3. ASSUME e = 24 PROVE c = 3
  <2>1. y = 400 * (q - 12) + 100 * (c + 1)
    BY <1>2, <1>3, SMT
  <2>2. y % 100 = 0
    BY <2>1, SMT
  <2>3. y % 400 = 0
    BY <1>1, <2>2, SMT
  <2> QED BY <2>1, <2>3, SMT
<1> QED BY <1>2, <1>3, SMT

LEMMA CalendarMonth ==
  ASSUME NEW y \in Int, NEW m \in Int, NEW d \in Int, CalendarDay(y, m, d)
  PROVE  MonthDay(m, d) /\ MarchYear(y, m) \in Nat
BY SMT DEF CalendarDay, MonthEnd, MonthDay, MarchYear

LEMMA DayNumber ==
  ASSUME NEW y \in Int, NEW m \in Int, NEW d \in Int, CalendarDay(y, m, d)
  PROVE  /\ date2j(y, m, d) + 32044 = YearStart(MarchYear(y, m)) + MarchDay(m, d)
         /\ date2j(y, m, d) \in Int
<1>1. MonthDay(m, d) /\ MarchYear(y, m) \in Nat
  BY CalendarMonth
<1> DEFINE z == MarchYear(y, m)
<1>2. date2j(y, m, d) = z * 365 - 32167 + (z \div 4 - z \div 100 + (z \div 100) \div 4)
                        + ((7834 * MarchMonth(m)) \div 256 + d)
  BY <1>1, SMT DEF date2j, MarchMonth, MarchYear, MonthDay
<1> DEFINE w == (7834 * MarchMonth(m)) \div 256
           x == z \div 4 - z \div 100 + (z \div 100) \div 4
<1>3. w \in Int
  BY <1>1, SMT DEF MarchMonth, MonthDay
<1> HIDE DEF z
<1>4. x \in Int
  BY <1>1, SMT DEF z
<1> HIDE DEF w, x
<1>5. date2j(y, m, d) = z * 365 - 32167 + x + (w + d)
  BY <1>2 DEF w, x
<1>6. YearStart(z) = z * 365 + x /\ MarchDay(m, d) = w + d - 123
  BY DEF YearStart, x, w, MarchDay
<1> QED BY <1>1, <1>3, <1>4, <1>5, <1>6, SMT DEF z

(* A date survives the way to a day number and back. *)
LEMMA DatesBack ==
  ASSUME NEW y \in Int, NEW m \in Int, NEW d \in Int, CalendarDay(y, m, d)
  PROVE  j2date(date2j(y, m, d)) = <<y, m, d>>
<1>1. MonthDay(m, d) /\ MarchYear(y, m) \in Nat
  BY CalendarMonth
<1>2. PICK q, c, e, f : Parts(MarchYear(y, m), q, c, e, f)
  BY <1>1, YearParts
<1> DEFINE a == MarchDay(m, d)
           jd == date2j(y, m, d)
           j0 == jd + 32044
<1> HIDE DEF a, jd
<1>3. MarchRead(m, d, a)
  BY <1>1, MonthsBack DEF a
<1>4. CenturyDay(j0, q, c, e, f, a)
  <2>1. jd \in Int /\ j0 = YearStart(MarchYear(y, m)) + a
    BY DayNumber DEF a, jd
  <2>2. YearStart(MarchYear(y, m)) = PartsStart(q, c, e, f)
    BY <1>1, <1>2, YearDays
  <2>3. a = 365 => m = 2 /\ d = 29
    BY <1>3 DEF MarchRead
  <2>4. a = 365 => f = 3 /\ (e < 24 \/ c = 3)
    BY <1>2, <2>3, LeapDays
  <2>5. a \in 0 .. 365
    BY <1>3 DEF MarchRead
  <2>6. q \in Nat /\ c \in 0 .. 3 /\ e \in 0 .. 24 /\ f \in 0 .. 3
    BY <1>2 DEF Parts
  <2>7. (a < 365 \/ f = 3) /\ (a < 365 \/ e < 24 \/ c = 3)
    BY <2>4, <2>5, SMT
  <2>8. j0 \in Int
    BY <2>1, SMT
  <2> QED BY <2>1, <2>2, <2>5, <2>6, <2>7, <2>8 DEF CenturyDay
<1>5. CenturyRead(j0, q, c)
  BY <1>4, CenturiesBack
<1> DEFINE j1 == j0 + 60 + q * 3 + c
           k == 100 * q + 25 * c + e
<1>6. CycleOf(j1, k, f, a)
  BY <1>4, SMT DEF CenturyDay, CycleOf, PartsStart
<1>7. CycleRead(j1, k, f, a)
  <2> HIDE DEF j1, k
  <2> QED BY <1>6, CyclesBack
<1> DEFINE q1 == j1 \div 1461
           j2 == j1 - q1 * 1461
<1>8. CycleDay(j2) = a /\ CycleYear(j2) + q1 * 4 = 4 * k + f + (IF a < 306 THEN 0 ELSE 1)
  BY <1>7 DEF CycleRead
<1>9. YearRead(CycleYear(j2) + q1 * 4) = y
  <2>1. q \in Nat /\ c \in 0 .. 3 /\ e \in 0 .. 24 /\ f \in 0 .. 3 /\ y + (IF m > 2 THEN 4800 ELSE 4799) = 400 * q + 100 * c + 4 * e + f
    BY <1>2 DEF Parts, MarchYear
  <2>2. (m > 2 => a < 306) /\ (m <= 2 => a >= 306) /\ a \in 0 .. 365
    BY <1>3 DEF MarchRead
  <2>3. YearRead(4 * k + f + (IF a < 306 THEN 0 ELSE 1)) = y
    BY <2>1, <2>2, SMT DEF YearRead
  <2> HIDE DEF q1, j2, k
  <2> QED BY <1>8, <2>3
<1>10. j2date(jd) = CycleDate(q1, j2)
  <2>1. j0 \div 146097 = q /\ ((j0 - q * 146097) * 4 + 3) \div 146097 = c
    BY <1>5 DEF CenturyRead
  <2>2. j1 = j0 + 60 + (j0 \div 146097) * 3 + ((j0 - (j0 \div 146097) * 146097) * 4 + 3) \div 146097
    BY <2>1
  <2> HIDE DEF j0, j1
  <2> QED BY <2>2, SMT DEF j2date, j0
<1>11. ((MarchTo(a) + 10) % 12) + 1 = m /\ a + 123 - (7834 * MarchTo(a)) \div 256 = d
  BY <1>3 DEF MarchRead
<1>12. q1 \in Int /\ j2 \in Int
  <2>1. j1 \in Int
    BY <1>6 DEF CycleOf
  <2> HIDE DEF j1
  <2> QED BY <2>1, SMT
<1> HIDE DEF q1, j2
<1>13. DateRead(q1, j2, y, m, d)
  BY <1>8, <1>9, <1>11 DEF DateRead
<1>14. CycleDate(q1, j2) = <<y, m, d>>
  BY <1>12, <1>13, CycleDates
<1> QED BY <1>10, <1>14 DEF jd

LEMMA DaysFrom2000 ==
  ASSUME NEW y \in Int, NEW m \in Int, NEW d \in Int, CalendarDay(y, m, d), y >= 2000
  PROVE  Days(y, m, d) >= 0
<1> DEFINE z == MarchYear(y, m)
<1>1. MonthDay(m, d) /\ z \in Nat
  BY CalendarMonth
<1>2. z >= 6799 /\ (m > 2 => z >= 6800)
  BY <1>1, SMT DEF MarchYear, MonthDay
<1>3. date2j(y, m, d) + 32044 = YearStart(z) + MarchDay(m, d) /\ date2j(y, m, d) \in Int
  BY DayNumber
<1>4. MarchRead(m, d, MarchDay(m, d))
  BY <1>1, MonthsBack
<1> DEFINE a == MarchDay(m, d)  x == z \div 4 - z \div 100 + (z \div 100) \div 4
<1> HIDE DEF z
<1>5. x \in Int /\ x >= 1648 /\ (z >= 6800 => x >= 1649)
  BY <1>1, <1>2, SMT
<1>6. YearStart(z) = z * 365 + x
  BY DEF YearStart
<1>7. a \in 0 .. 365 /\ (m <= 2 => a >= 306)
  BY <1>4 DEF MarchRead
<1>8. m \in 1 .. 12
  BY <1>1 DEF MonthDay
<1> HIDE DEF a, x
<1> QED BY <1>1, <1>2, <1>3, <1>5, <1>6, <1>7, <1>8, SMT DEF a, Days, POSTGRES_EPOCH_JDATE

-----------------------------------------------------------------------------
(* Ticks and days. *)

LEMMA TickFacts ==
  /\ Ticks.second \in Nat \ {0} /\ Ticks.minute \in Nat \ {0} /\ Ticks.hour \in Nat \ {0} /\ Ticks.day \in Nat \ {0}
  /\ Ticks.minute % Ticks.second = 0 /\ Ticks.hour % Ticks.second = 0 /\ Ticks.day % Ticks.second = 0
BY ParamsAssumption

LEMMA QuotInt ==
  ASSUME NEW a \in Int, NEW b \in Nat \ {0}
  PROVE  Quot(a, b) \in Int /\ Rem(a, b) \in Int /\ Rem(a, b) + b * Quot(a, b) = a
<1>1. Quot(a, b) \in Int
  BY SMT DEF Quot
<1> HIDE DEF Quot
<1>2. b * Quot(a, b) \in Int
  BY <1>1, SMT
<1> QED BY <1>1, <1>2, SMT DEF Rem

(* A division that leaves no negative rest. *)
LEMMA RestBack ==
  ASSUME NEW a \in Int, NEW b \in Nat \ {0}, a >= 0 \/ a % b = 0
  PROVE  Rem(a, b) >= 0
<1>1. PICK x \in Int : x = a \div b
  BY SMT
<1>2. CASE a >= 0
  <2>1. Rem(a, b) = a - b * (a \div b)
    BY <1>2, SMT DEF Rem, Quot
  <2>2. a - b * (a \div b) >= 0
    BY <1>2, SMT
  <2> QED BY <2>1, <2>2, SMT
<1>3. CASE a < 0 /\ a % b = 0
  <2>1. a = b * x
    BY <1>1, <1>3, SMT
  <2>2. (-a) \div b = -x
    <3>1. -a = (-x) * b
      BY <2>1, SMT
    <3> QED BY <3>1, SMT
  <2>3. Quot(a, b) = x
    BY <1>3, <2>2, SMT DEF Quot
  <2> QED BY <2>1, <2>3, SMT DEF Rem
<1> QED BY <1>2, <1>3, SMT

LEMMA MomentBack ==
  ASSUME NEW ts \in Int, integerDatetimes \/ ts >= 0 \/ ts % Ticks.second = 0
  PROVE  FromMoment(Moment(ts)) = ts
<1>1. CASE integerDatetimes
  BY <1>1 DEF FromMoment, Moment
<1>2. CASE ~integerDatetimes
  <2>1. PICK q \in Int, r \in Int : q = Quot(ts, Ticks.second) /\ r = Rem(ts, Ticks.second)
    BY TickFacts, QuotInt
  <2>2. r + Ticks.second * q = ts /\ r >= 0
    BY <1>2, <2>1, TickFacts, QuotInt, RestBack
  <2>3. Moment(ts) = <<q, r>>
    BY <1>2, <2>1 DEF Moment
  <2>4. FromMoment(<<q, r>>) = q * Ticks.second + r
    BY <1>2, <2>2, TickFacts, SMT DEF FromMoment
  <2>5. q * Ticks.second + r = ts
    BY <2>2, TickFacts, SMT
  <2> QED BY <2>3, <2>4, <2>5
<1> QED BY <1>1, <1>2

LEMMA DaySplit ==
  ASSUME NEW k \in Int, NEW t \in Int, 0 <= t, t < Ticks.day
  PROVE  SplitDay(t + k * Ticks.day) = [date |-> k, time |-> t]
<1>1. PICK w \in Nat \ {0} : w = Ticks.day
  BY TickFacts
<1>2. PICK ts \in Int : ts = t + k * w
  BY <1>1, SMT
<1>3. CASE k >= 0
  <2>1. ts >= 0 /\ ts \div w = k
    BY <1>1, <1>2, <1>3, SMT
  <2>2. Quot(ts, w) = k /\ Rem(ts, w) = t
    BY <1>1, <1>2, <2>1, SMT DEF Quot, Rem
  <2> QED BY <1>1, <1>2, <2>2, SMT DEF SplitDay
<1>4. CASE k < 0 /\ t = 0
  <2>1. ts < 0 /\ (-ts) \div w = -k
    <3>1. -ts = (-k) * w
      BY <1>2, <1>4, SMT
    <3>2. (-ts) \div w = -k
      BY <3>1, SMT
    <3> QED BY <1>2, <1>4, <3>2, SMT
  <2>2. Quot(ts, w) = k /\ Rem(ts, w) = t
    BY <1>1, <1>2, <1>4, <2>1, SMT DEF Quot, Rem
  <2> QED BY <1>1, <1>2, <2>2, SMT DEF SplitDay
<1>5. CASE k < 0 /\ t > 0
  <2>1. -ts = (-k - 1) * w + (w - t) /\ w - t \in Int /\ 0 < w - t /\ w - t < w
    BY <1>1, <1>2, <1>5, SMT
  <2>2. (-ts) \div w = -k - 1
    BY <2>1, SMT
  <2>3. (k + 1) * w <= 0
    BY <1>5, SMT
  <2>4. ts < 0
    BY <1>1, <1>2, <1>5, <2>3, SMT
  <2>5. Quot(ts, w) = k + 1
    BY <2>2, <2>4, SMT DEF Quot
  <2>6. Rem(ts, w) = t - w
    BY <1>2, <2>5, SMT DEF Rem
  <2>7. SplitDay(ts) = [date |-> Quot(ts, w) - 1, time |-> Rem(ts, w) + w]
    BY <1>1, <2>1, <2>6, SMT DEF SplitDay
  <2>8. SplitDay(ts) = [date |-> k, time |-> t]
    BY <2>5, <2>6, <2>7, SMT
  <2> QED BY <1>1, <1>2, <2>8
<1> QED BY <1>3, <1>4, <1>5, SMT

LEMMA DurationBack ==
  ASSUME NEW t \in Int
  PROVE  Duration(dt2time(t)) = t
<1>1. PICK h \in Int : h = Quot(t, Ticks.hour)
  BY TickFacts, QuotInt
<1>2. PICK a \in Nat, b \in Nat, c \in Nat : a = Ticks.hour /\ b = Ticks.minute /\ c = Ticks.second
  BY TickFacts
<1>3. PICK t1 \in Int : t1 = t - h * a
  BY <1>2, SMT
<1>4. PICK m \in Int : m = Quot(t1, Ticks.minute)
  BY TickFacts, QuotInt
<1>5. PICK t2 \in Int : t2 = t1 - m * b
  BY <1>2, SMT
<1>6. PICK s \in Int : s = Quot(t2, Ticks.second)
  BY TickFacts, QuotInt
<1>7. dt2time(t) = <<h, m, s, t2 - s * c>>
  BY <1>1, <1>2, <1>3, <1>4, <1>5, <1>6 DEF dt2time
<1>8. Duration(<<h, m, s, t2 - s * c>>) = h * a + m * b + s * c + (t2 - s * c)
  BY <1>2 DEF Duration, time2t
<1>9. h * a + m * b + s * c + (t2 - s * c) = t
  <2>1. PICK x \in Int, y \in Int, z \in Int : x = h * a /\ y = m * b /\ z = s * c
    BY SMT
  <2> QED BY <1>3, <1>5, <2>1, SMT
<1> QED BY <1>7, <1>8, <1>9

-----------------------------------------------------------------------------
(* Numbers and bits. *)

LEMMA WrapsBack ==
  ASSUME NEW h \in Nat \ {0}, NEW x \in Int, -h <= x, x < h
  PROVE  Wrap(x, h) = x
<1>1. x + h >= 0 /\ x + h < 2 * h /\ x + h \in Int /\ 2 * h \in Nat \ {0}
  BY SMT
<1>2. (x + h) % (2 * h) = x + h
  BY <1>1, SMT
<1> QED BY <1>2, SMT DEF Wrap

LEMMA BytesBack ==
  ASSUME NEW b, \A k \in 1 .. 8 : b[k] \in {0, 1}, NEW k \in 1 .. 8
  PROVE  (ByteOf(b) \div Weights[k]) % 2 = b[k]
<1>1. PICK b1 \in {0, 1}, b2 \in {0, 1}, b3 \in {0, 1}, b4 \in {0, 1},
           b5 \in {0, 1}, b6 \in {0, 1}, b7 \in {0, 1}, b8 \in {0, 1} :
         b1 = b[1] /\ b2 = b[2] /\ b3 = b[3] /\ b4 = b[4] /\ b5 = b[5] /\ b6 = b[6] /\ b7 = b[7] /\ b8 = b[8]
  OBVIOUS
<1>2. PICK x \in Int : x = b1 * 128 + b2 * 64 + b3 * 32 + b4 * 16 + b5 * 8 + b6 * 4 + b7 * 2 + b8
  BY SMT
<1>3. ByteOf(b) = x
  BY <1>1, <1>2 DEF ByteOf
<1>4. /\ (x \div 128) % 2 = b1 /\ (x \div 64) % 2 = b2 /\ (x \div 32) % 2 = b3 /\ (x \div 16) % 2 = b4
      /\ (x \div 8) % 2 = b5 /\ (x \div 4) % 2 = b6 /\ (x \div 2) % 2 = b7 /\ (x \div 1) % 2 = b8
  BY <1>2, SMT
<1>5. CASE k = 1
  BY <1>1, <1>3, <1>4, <1>5, SMT DEF Weights
<1>6. CASE k = 2
  BY <1>1, <1>3, <1>4, <1>6, SMT DEF Weights
<1>7. CASE k = 3
  BY <1>1, <1>3, <1>4, <1>7, SMT DEF Weights
<1>8. CASE k = 4
  BY <1>1, <1>3, <1>4, <1>8, SMT DEF Weights
<1>9. CASE k = 5
  BY <1>1, <1>3, <1>4, <1>9, SMT DEF Weights
<1>10. CASE k = 6
  BY <1>1, <1>3, <1>4, <1>10, SMT DEF Weights
<1>11. CASE k = 7
  BY <1>1, <1>3, <1>4, <1>11, SMT DEF Weights
<1>12. CASE k = 8
  BY <1>1, <1>3, <1>4, <1>12, SMT DEF Weights
<1> QED BY <1>5, <1>6, <1>7, <1>8, <1>9, <1>10, <1>11, <1>12, SMT

(* A bitset of whole bytes survives the way into bytes and back. *)
LEMMA BitsBack ==
  ASSUME NEW size \in {8, 16}, NEW n \in Seq(Int), Len(n) = size, \A i \in 1 .. size : n[i] \in {0, 1}
  PROVE  bits2Bitset(size, size, bitset2Bits(n)) = n
<1> DEFINE bytes == bitset2Bits(n)
<1>1. size \div 8 \in {1, 2} /\ size = 8 * (size \div 8)
  BY SMT
<1>2. ASSUME NEW i \in 1 .. size
      PROVE  (bytes[(i - 1) \div 8 + 1] \div Weights[((i - 1) % 8) + 1]) % 2 = n[i]
  <2>1. PICK j \in Int, k \in Int : j = (i - 1) \div 8 + 1 /\ k = ((i - 1) % 8) + 1
    BY SMT
  <2>2. j \in 1 .. size \div 8 /\ k \in 1 .. 8 /\ i = 8 * (j - 1) + k
    BY <2>1, SMT
  <2> DEFINE b == [l \in 1 .. 8 |-> n[8 * (j - 1) + l]]
  <2>3. bytes[j] = ByteOf(b)
    BY <2>2 DEF bitset2Bits
  <2>4. \A l \in 1 .. 8 : b[l] \in {0, 1}
    <3> SUFFICES ASSUME NEW l \in 1 .. 8 PROVE b[l] \in {0, 1}
      OBVIOUS
    <3>1. 8 * (j - 1) + l \in 1 .. size
      BY <1>1, <2>2, SMT
    <3> QED BY <3>1
  <2>5. b[k] = n[i]
    BY <2>2
  <2> HIDE DEF b
  <2>6. (ByteOf(b) \div Weights[k]) % 2 = b[k]
    BY <2>2, <2>4, BytesBack
  <2> QED BY <2>1, <2>3, <2>5, <2>6
<1>3. bits2Bitset(size, size, bytes) = [i \in 1 .. size |-> n[i]]
  <2> HIDE DEF bytes
  <2>1. \A i \in 1 .. size : ~(i > size)
    BY SMT
  <2> QED BY <1>2, <2>1, Zenon DEF bits2Bitset
<1>4. n = [i \in 1 .. size |-> n[i]]
  OBVIOUS
<1> QED BY <1>3, <1>4

-----------------------------------------------------------------------------
(* Values, bound, echoed by the server and fetched. *)

LEMMA NumbersAre ==
  ASSUME NEW n \in Seq(Int)
  PROVE  \A i \in 1 .. Len(n) : n[i] \in Int
OBVIOUS

LEMMA OneNumber ==
  ASSUME NEW n \in Seq(Int), Len(n) = 1
  PROVE  n = <<n[1]>> /\ n[1] \in Int
OBVIOUS

LEMMA TwoNumbers ==
  ASSUME NEW n \in Seq(Int), Len(n) = 2
  PROVE  n = <<n[1], n[2]>> /\ n[1] \in Int /\ n[2] \in Int
<1>1. \A i \in 1 .. Len(n) : n[i] \in Int
  OBVIOUS
<1>2. n = [i \in 1 .. 2 |-> n[i]]
  OBVIOUS
<1>3. <<n[1], n[2]>> = [i \in 1 .. 2 |-> n[i]]
  OBVIOUS
<1> QED BY <1>1, <1>2, <1>3

LEMMA ThreeNumbers ==
  ASSUME NEW n \in Seq(Int), Len(n) = 3
  PROVE  n = <<n[1], n[2], n[3]>> /\ n[1] \in Int /\ n[2] \in Int /\ n[3] \in Int
OBVIOUS

LEMMA FourNumbers ==
  ASSUME NEW n \in Seq(Int), Len(n) = 4
  PROVE  n = <<n[1], n[2], n[3], n[4]>> /\ n[1] \in Int /\ n[2] \in Int /\ n[3] \in Int /\ n[4] \in Int
OBVIOUS

LEMMA SixNumbers ==
  ASSUME NEW n \in Seq(Int), Len(n) = 6
  PROVE  n[1] \in Int /\ n[2] \in Int /\ n[3] \in Int /\ n[4] \in Int /\ n[5] \in Int /\ n[6] \in Int
<1>1. \A i \in 1 .. Len(n) : n[i] \in Int
  BY NumbersAre
<1>2. 1 .. Len(n) = {1, 2, 3, 4, 5, 6}
  OBVIOUS
<1> QED BY <1>1, <1>2

LEMMA TailOf ==
  ASSUME NEW s \in Seq(Int), NEW a \in Int
  PROVE  Tail(<<a>> \o s) = s /\ (<<a>> \o s)[1] = a
OBVIOUS

LEMMA AfterTwo ==
  ASSUME NEW s \in Seq(Int), NEW a \in Int, NEW b \in Int
  PROVE  /\ SubSeq(<<a, b>> \o s, 3, Len(<<a, b>> \o s)) = s
         /\ (<<a, b>> \o s)[1] = a /\ (<<a, b>> \o s)[2] = b
OBVIOUS

Column(t) == IF t = "String" THEN 25 ELSE Oid[t]
Echoed(c) == IF c.oid = 0 THEN [c EXCEPT !.oid = 25] ELSE c
PgCell(t, n) == [oid |-> Column(t), null |-> FALSE, n |-> n]

LEMMA OidTypes ==
  DOMAIN Oid = {"Bool", "Float", "Double", "Int8", "Int16", "Int32", "Int64", "UInt8", "UInt16", "UInt32",
                "UInt64", "Tm", "Date", "Datetime", "DateDuration", "TimeDuration", "DateTimeDuration",
                "Bitset8", "Bitset16", "VectorChar", "Uuid", "Char", "String"}
BY DEF Oid

LEMMA ColumnTypes ==
  /\ colType(Column("Bool")) = "Bool" /\ colType(Column("Float")) = "Float" /\ colType(Column("Double")) = "Double"
  /\ \A t \in {"Int8", "Int16", "UInt8", "UInt16"} : colType(Column(t)) = "Int16"
  /\ \A t \in {"Int32", "UInt32"} : colType(Column(t)) = "Int32"
  /\ \A t \in {"Int64", "UInt64"} : colType(Column(t)) = "Int64"
  /\ \A t \in {"Tm", "Datetime"} : colType(Column(t)) = "Datetime"
  /\ colType(Column("Date")) = "Date"
  /\ \A t \in {"DateDuration", "TimeDuration", "DateTimeDuration"} : colType(Column(t)) = "DateTimeDuration"
  /\ \A t \in {"Bitset8", "Bitset16"} : colType(Column(t)) = "Bitset8"
  /\ colType(Column("VectorChar")) = "VectorChar" /\ colType(Column("Uuid")) = "Uuid"
  /\ colType(Column("Char")) = "Char" /\ colType(Column("String")) = "String"
BY SMT DEF Column, Oid, colType

LEMMA EchoOf ==
  ASSUME NEW v, v.t \in DOMAIN Oid
  PROVE  Echoed(bindFiller(v)) = [oid |-> Column(v.t), null |-> v.null, n |-> IF v.null THEN <<>> ELSE Form(v)]
<1>1. v.t = "String" => Oid[v.t] = 0
  BY DEF Oid
<1>2. v.t # "String" => Oid[v.t] # 0
  BY OidTypes, SMT DEF Oid
<1> QED BY <1>1, <1>2 DEF Echoed, bindFiller, Column

LEMMA FetchDatetime ==
  ASSUME NEW c, ~c.null, colType(c.oid) = "Datetime", NEW x, NEW day,
         x = SplitDay(FromMoment(c.n)), day = j2date(x.date + POSTGRES_EPOCH_JDATE)
  PROVE  fetch(c) = Val("Datetime", <<day[1], day[2], day[3], Duration(dt2time(x.time))>>)
BY DEF fetch

LEMMA FetchDate ==
  ASSUME NEW c, ~c.null, colType(c.oid) = "Date"
  PROVE  fetch(c) = Val("Date", j2date(c.n[1] + POSTGRES_EPOCH_JDATE))
BY DEF fetch

LEMMA FetchInterval ==
  ASSUME NEW c, ~c.null, colType(c.oid) = "DateTimeDuration"
  PROVE  fetch(c) = Val("DateTimeDuration", <<c.n[2] + c.n[1] * DAYS_PER_MONTH,
                                              Duration(dt2time(FromMoment(SubSeq(c.n, 3, Len(c.n)))))>>)
BY DEF fetch

LEMMA FetchBits ==
  ASSUME NEW c, ~c.null, colType(c.oid) = "Bitset8"
  PROVE  fetch(c) = IF c.n[1] <= 8 THEN Val("Bitset8", bits2Bitset(8, c.n[1], Tail(c.n)))
                    ELSE Val("Bitset16", bits2Bitset(16, c.n[1], Tail(c.n)))
BY DEF fetch

LEMMA FetchBool ==
  ASSUME NEW c, ~c.null, colType(c.oid) = "Bool"
  PROVE  fetch(c) = Val("Bool", <<IF c.n[1] = 0 THEN 0 ELSE 1>>)
BY DEF fetch

LEMMA FetchOther ==
  ASSUME NEW c, ~c.null,
         colType(c.oid) \in {"Int16", "Int32", "Int64", "Float", "Double", "String", "VectorChar", "Char"}
  PROVE  fetch(c) = Val(colType(c.oid), c.n)
BY DEF fetch

LEMMA MeaningOf ==
  ASSUME NEW t, NEW n, t \notin {"Tm", "DateDuration", "TimeDuration"}
  PROVE  Meaning(Val(t, n)) = n
BY DEF Meaning, Val

(* One lemma for each type: what was bound means what is fetched. *)

Survives(v) == Meaning(fetch(PgCell(v.t, Form(v)))) = Meaning(v)

LEMMA CellFacts ==
  ASSUME NEW t, NEW n
  PROVE  ~PgCell(t, n).null /\ PgCell(t, n).oid = Column(t) /\ PgCell(t, n).n = n
BY DEF PgCell

LEMMA SignedType ==
  ASSUME NEW t \in {"Int8", "Int16", "Int32", "Int64"}, NEW n, OfType(t, n)
  PROVE  Len(n) = 1 /\ n[1] \in -IntHalf[t] .. IntHalf[t] - 1
BY DEF OfType, PgBitsets

LEMMA UnsignedType ==
  ASSUME NEW t \in {"UInt8", "UInt16", "UInt32", "UInt64"}, NEW n, OfType(t, n)
  PROVE  Len(n) = 1 /\ n[1] \in 0 .. 2 * IntHalf[t] - 1
BY DEF OfType, PgBitsets

LEMMA IntForm ==
  ASSUME NEW v, v.t \in {"Int8", "Int16", "Int32", "Int64", "UInt8", "UInt16", "UInt32", "UInt64"}
  PROVE  Form(v) = <<Wrap(v.n[1], IntHalf[v.t])>>
<1>1. DOMAIN IntHalf = {"Int8", "Int16", "Int32", "Int64", "UInt8", "UInt16", "UInt32", "UInt64"}
  BY DEF IntHalf
<1> QED BY <1>1 DEF Form, PgBitsets

LEMMA PlainMeaning ==
  ASSUME NEW v, ~v.null, v.t \notin {"Tm", "DateDuration", "TimeDuration"}
  PROVE  Meaning(v) = v.n
BY DEF Meaning

LEMMA IntsSurvive ==
  ASSUME NEW v, ~v.null, v.t \in DOMAIN IntHalf, v.n \in Seq(Int), OfType(v.t, v.n), ~Lossy(v)
  PROVE  Survives(v)
<1>1. DOMAIN IntHalf = {"Int8", "Int16", "Int32", "Int64", "UInt8", "UInt16", "UInt32", "UInt64"}
  BY DEF IntHalf
<1>2. PICK h \in Nat \ {0} : h = IntHalf[v.t]
  BY ParamsAssumption
<1>3. Len(v.n) = 1 /\ v.n[1] >= -h /\ v.n[1] < h
  <2>1. v.n[1] < IntHalf[v.t] \/ ~(v.n[1] >= IntHalf[v.t])
    BY DEF Lossy
  <2>2. CASE v.t \in {"Int8", "Int16", "Int32", "Int64"}
    BY <1>2, <2>2, SignedType
  <2>3. CASE v.t \in {"UInt8", "UInt16", "UInt32", "UInt64"}
    <3>1. Len(v.n) = 1 /\ v.n[1] \in 0 .. 2 * h - 1
      BY <1>2, <2>3, UnsignedType
    <3> QED BY <1>2, <2>1, <3>1
  <2> QED BY <1>1, <2>2, <2>3
<1>4. v.n = <<v.n[1]>> /\ v.n[1] \in Int
  BY <1>3, OneNumber
<1>5. Form(v) = v.n
  <2>1. Wrap(v.n[1], h) = v.n[1]
    BY <1>3, <1>4, WrapsBack
  <2>2. Form(v) = <<Wrap(v.n[1], IntHalf[v.t])>>
    BY <1>1, IntForm
  <2> QED BY <1>2, <1>4, <2>1, <2>2
<1>6. colType(Column(v.t)) \in {"Int16", "Int32", "Int64"}
  BY <1>1, ColumnTypes
<1>7. fetch(PgCell(v.t, v.n)) = Val(colType(Column(v.t)), v.n)
  BY <1>6, CellFacts, FetchOther
<1>8. Meaning(Val(colType(Column(v.t)), v.n)) = v.n
  BY <1>6, MeaningOf
<1>9. Meaning(v) = v.n
  BY <1>1, PlainMeaning
<1> QED BY <1>5, <1>7, <1>8, <1>9 DEF Survives

LEMMA BoolsSurvive ==
  ASSUME NEW v, ~v.null, v.t = "Bool", v.n \in Seq(Int), OfType(v.t, v.n)
  PROVE  Survives(v)
<1>1. Len(v.n) = 1 /\ v.n[1] \in {0, 1}
  BY DEF OfType, PgBitsets
<1>2. v.n = <<v.n[1]>>
  BY <1>1, OneNumber
<1>3. Form(v) = v.n
  BY DEF Form, IntHalf, PgBitsets
<1>4. fetch(PgCell(v.t, v.n)) = Val("Bool", <<IF v.n[1] = 0 THEN 0 ELSE 1>>)
  BY ColumnTypes, CellFacts, FetchBool
<1>5. <<IF v.n[1] = 0 THEN 0 ELSE 1>> = v.n
  <2>1. (IF v.n[1] = 0 THEN 0 ELSE 1) = v.n[1]
    BY <1>1
  <2> QED BY <1>2, <2>1
<1>6. Meaning(Val("Bool", v.n)) = v.n
  BY MeaningOf
<1>7. Meaning(v) = v.n
  BY DEF Meaning
<1> QED BY <1>3, <1>4, <1>5, <1>6, <1>7 DEF Survives

LEMMA OthersSurvive ==
  ASSUME NEW v, ~v.null, v.t \in {"Float", "Double", "VectorChar", "Char", "String"}
  PROVE  Survives(v)
<1>1. Form(v) = v.n
  BY DEF Form, IntHalf, PgBitsets
<1>2. colType(Column(v.t)) = v.t
  BY ColumnTypes
<1>3. fetch(PgCell(v.t, v.n)) = Val(v.t, v.n)
  BY <1>2, CellFacts, FetchOther
<1>4. Meaning(Val(v.t, v.n)) = v.n
  BY MeaningOf
<1>5. Meaning(v) = v.n
  BY DEF Meaning
<1> QED BY <1>1, <1>3, <1>4, <1>5 DEF Survives

LEMMA BitsSurvive ==
  ASSUME NEW v, ~v.null, v.t \in DOMAIN PgBitsets, v.n \in Seq(Int), OfType(v.t, v.n)
  PROVE  Survives(v)
<1>1. v.t \in {"Bitset8", "Bitset16"}
  BY DEF PgBitsets
<1>2. PICK size \in {8, 16} : size = PgBitsets[v.t] /\ (v.t = "Bitset8" => size = 8) /\ (v.t = "Bitset16" => size = 16)
  BY <1>1 DEF PgBitsets
<1>3. Len(v.n) = size /\ \A i \in DOMAIN v.n : v.n[i] \in {0, 1}
  BY <1>1, <1>2 DEF OfType, IntHalf
<1> DEFINE bytes == bitset2Bits(v.n)
<1>4. Form(v) = <<size>> \o bytes
  BY <1>1, <1>2 DEF Form, IntHalf
<1>5. bits2Bitset(size, size, bytes) = v.n
  <2>1. \A i \in 1 .. size : v.n[i] \in {0, 1}
    BY <1>3
  <2> QED BY <1>3, <2>1, BitsBack
<1>6. bytes \in Seq(Int)
  <2>1. PICK k \in Nat : k = Len(v.n) \div 8
    BY <1>3, SMT
  <2>2. \A i \in 1 .. k : bytes[i] \in Int
    <3> SUFFICES ASSUME NEW i \in 1 .. k PROVE bytes[i] \in Int
      OBVIOUS
    <3> DEFINE b == [l \in 1 .. 8 |-> v.n[8 * (i - 1) + l]]
    <3>1. bytes[i] = ByteOf(b)
      BY <2>1 DEF bitset2Bits
    <3>2. \A l \in 1 .. 8 : b[l] \in Int
      <4> SUFFICES ASSUME NEW l \in 1 .. 8 PROVE b[l] \in Int
        OBVIOUS
      <4>1. 8 * (i - 1) + l \in 1 .. Len(v.n)
        BY <1>3, <2>1, SMT
      <4> QED BY <4>1, NumbersAre
    <3> HIDE DEF b
    <3>3. ByteOf(b) \in Int
      <4>1. /\ b[1] \in Int /\ b[2] \in Int /\ b[3] \in Int /\ b[4] \in Int
            /\ b[5] \in Int /\ b[6] \in Int /\ b[7] \in Int /\ b[8] \in Int
        BY <3>2
      <4>2. PICK c1 \in Int, c2 \in Int, c3 \in Int, c4 \in Int, c5 \in Int, c6 \in Int, c7 \in Int, c8 \in Int :
              c1 = b[1] /\ c2 = b[2] /\ c3 = b[3] /\ c4 = b[4] /\ c5 = b[5] /\ c6 = b[6] /\ c7 = b[7] /\ c8 = b[8]
        BY <4>1
      <4>3. ByteOf(b) = c1 * 128 + c2 * 64 + c3 * 32 + c4 * 16 + c5 * 8 + c6 * 4 + c7 * 2 + c8
        BY <4>2 DEF ByteOf
      <4> QED BY <4>3, SMT
    <3> QED BY <3>1, <3>3
  <2>3. bytes = [i \in 1 .. k |-> bytes[i]]
    BY <2>1 DEF bitset2Bits
  <2> HIDE DEF bytes
  <2>4. [i \in 1 .. k |-> bytes[i]] \in Seq(Int)
    BY <2>2
  <2> QED BY <2>3, <2>4
<1> HIDE DEF bytes
<1>7. Tail(Form(v)) = bytes /\ Form(v)[1] = size
  <2>1. size \in Int
    BY <1>2
  <2> QED BY <1>4, <1>6, <2>1, TailOf
<1>8. fetch(PgCell(v.t, Form(v))) = Val(v.t, v.n)
  <2>1. fetch(PgCell(v.t, Form(v))) = IF size <= 8 THEN Val("Bitset8", bits2Bitset(8, size, bytes))
                                      ELSE Val("Bitset16", bits2Bitset(16, size, bytes))
    <3>1. colType(Column(v.t)) = "Bitset8"
      BY <1>1, ColumnTypes
    <3> DEFINE c == PgCell(v.t, Form(v))
    <3>2. ~c.null /\ c.oid = Column(v.t) /\ c.n = Form(v)
      BY CellFacts
    <3> HIDE DEF c
    <3>3. fetch(c) = IF c.n[1] <= 8 THEN Val("Bitset8", bits2Bitset(8, c.n[1], Tail(c.n)))
                     ELSE Val("Bitset16", bits2Bitset(16, c.n[1], Tail(c.n)))
      BY <3>1, <3>2, FetchBits
    <3> QED BY <1>7, <3>2, <3>3 DEF c
  <2>2. CASE v.t = "Bitset8"
    BY <1>2, <1>5, <2>1, <2>2
  <2>3. CASE v.t = "Bitset16"
    BY <1>2, <1>5, <2>1, <2>3
  <2> QED BY <1>1, <2>2, <2>3
<1>9. Meaning(Val(v.t, v.n)) = v.n /\ Meaning(v) = v.n
  BY <1>1, MeaningOf, PlainMeaning
<1> QED BY <1>8, <1>9 DEF Survives

LEMMA DaysBack ==
  ASSUME NEW y \in Int, NEW m \in Int, NEW d \in Int, CalendarDay(y, m, d)
  PROVE  Days(y, m, d) \in Int /\ j2date(Days(y, m, d) + POSTGRES_EPOCH_JDATE) = <<y, m, d>>
<1>1. PICK e \in Int : e = POSTGRES_EPOCH_JDATE
  BY SMT DEF POSTGRES_EPOCH_JDATE
<1>2. date2j(y, m, d) \in Int /\ j2date(date2j(y, m, d)) = <<y, m, d>>
  BY DayNumber, DatesBack
<1>3. Days(y, m, d) \in Int /\ Days(y, m, d) + POSTGRES_EPOCH_JDATE = date2j(y, m, d)
  BY <1>1, <1>2, SMT DEF Days
<1> QED BY <1>2, <1>3

Whole(a, s) == a % s = 0
InDay(t) == 0 <= t /\ t < Ticks.day
Exact(y, t) == integerDatetimes \/ y >= 2000 \/ Whole(t, Ticks.second)
MomentAt(y, m, d, t) == Moment(t + Days(y, m, d) * Ticks.day)

LEMMA WholeSeconds ==
  ASSUME NEW s \in Nat \ {0}, NEW a \in Int, NEW b \in Int, Whole(a, s), Whole(b, s), NEW k \in Int,
         NEW c \in Int, c = a + k * b
  PROVE  Whole(c, s)
<1> USE DEF Whole
<1>1. PICK x \in Int, y \in Int : a = s * x /\ b = s * y
  <2>1. a = s * (a \div s) /\ b = s * (b \div s) /\ a \div s \in Int /\ b \div s \in Int
    BY SMT
  <2> QED BY <2>1
<1>2. a + k * b = (x + k * y) * s
  BY <1>1, SMT
<1>3. x + k * y \in Int
  BY SMT
<1> QED BY <1>2, <1>3, SMT

LEMMA SecondsWhole ==
  ASSUME NEW h \in Int, NEW m \in Int, NEW s \in Int
  PROVE  time2t(h, m, s) \in Int /\ Whole(time2t(h, m, s), Ticks.second)
<1>1. PICK a \in Nat, b \in Nat, c \in Nat \ {0} : a = Ticks.hour /\ b = Ticks.minute /\ c = Ticks.second
  BY TickFacts
<1>2. Whole(a, c) /\ Whole(b, c) /\ Whole(c, c) /\ Whole(0, c)
  BY <1>1, TickFacts, SMT DEF Whole
<1>3. PICK x \in Int, y \in Int, z \in Int : x = h * a /\ y = h * a + m * b /\ z = h * a + m * b + s * c
  BY SMT
<1>4. Whole(x, c)
  <2>1. x = 0 + h * a
    BY <1>3, SMT
  <2> QED BY <1>2, <2>1, WholeSeconds
<1>5. Whole(y, c)
  <2>1. y = x + m * b
    BY <1>3, SMT
  <2> QED BY <1>2, <1>4, <2>1, WholeSeconds
<1>6. Whole(z, c)
  <2>1. z = y + s * c
    BY <1>3, SMT
  <2> QED BY <1>2, <1>5, <2>1, WholeSeconds
<1>7. time2t(h, m, s) = z
  BY <1>1, <1>3 DEF time2t
<1> QED BY <1>1, <1>6, <1>7

(* A moment: a day, and a time in it. *)
LEMMA MomentFetched ==
  ASSUME NEW y \in Int, NEW m \in Int, NEW d \in Int, CalendarDay(y, m, d),
         NEW t \in Int, InDay(t), Exact(y, t),
         NEW c, ~c.null, colType(c.oid) = "Datetime", c.n = MomentAt(y, m, d, t)
  PROVE  fetch(c) = Val("Datetime", <<y, m, d, t>>)
<1>1. PICK k \in Int : k = Days(y, m, d)
  BY DaysBack
<1>2. PICK w \in Nat \ {0}, s \in Nat \ {0} : w = Ticks.day /\ s = Ticks.second
  BY TickFacts
<1>3. PICK ts \in Int : ts = t + k * w
  BY SMT
<1>4. integerDatetimes \/ ts >= 0 \/ ts % Ticks.second = 0
  <2>1. CASE y >= 2000
    <3>1. k >= 0
      BY <1>1, <2>1, DaysFrom2000
    <3>2. k * w >= 0
      BY <3>1, SMT
    <3> QED BY <1>3, <3>2, SMT DEF InDay
  <2>2. CASE Whole(t, Ticks.second)
    <3>1. Whole(t, s) /\ Whole(w, s)
      BY <1>2, <2>2, TickFacts DEF Whole
    <3>2. Whole(ts, s)
      BY <1>3, <3>1, WholeSeconds
    <3> QED BY <1>2, <1>3, <3>2 DEF Whole
  <2> QED BY <2>1, <2>2 DEF Exact
<1>5. FromMoment(c.n) = ts
  <2>1. c.n = Moment(ts)
    BY <1>1, <1>2, <1>3 DEF MomentAt
  <2> QED BY <1>4, <2>1, MomentBack
<1> DEFINE x == [date |-> k, time |-> t]
<1>6. SplitDay(FromMoment(c.n)) = x
  <2>1. SplitDay(t + k * Ticks.day) = x
    BY DaySplit DEF InDay
  <2> QED BY <1>2, <1>3, <1>5, <2>1
<1>7. x.date = k /\ x.time = t
  OBVIOUS
<1>8. j2date(k + POSTGRES_EPOCH_JDATE) = <<y, m, d>>
  BY <1>1, DaysBack
<1>9. PICK day : day = <<y, m, d>>
  OBVIOUS
<1> HIDE DEF x
<1>10. day = j2date(x.date + POSTGRES_EPOCH_JDATE)
  BY <1>7, <1>8, <1>9
<1>11. fetch(c) = Val("Datetime", <<day[1], day[2], day[3], Duration(dt2time(x.time))>>)
  BY <1>6, <1>10, FetchDatetime
<1>12. Duration(dt2time(x.time)) = t
  BY <1>7, DurationBack
<1>13. day[1] = y /\ day[2] = m /\ day[3] = d
  BY <1>9
<1> QED BY <1>11, <1>12, <1>13

LEMMA DatesSurvive ==
  ASSUME NEW v, ~v.null, v.t = "Date", v.n \in Seq(Int), OfType(v.t, v.n)
  PROVE  Survives(v)
<1>1. Len(v.n) = 3 /\ CalendarDay(v.n[1], v.n[2], v.n[3])
  BY DEF OfType, PgBitsets
<1>2. v.n = <<v.n[1], v.n[2], v.n[3]>> /\ v.n[1] \in Int /\ v.n[2] \in Int /\ v.n[3] \in Int
  BY <1>1, ThreeNumbers
<1>10. PICK y \in Int, m \in Int, d \in Int : y = v.n[1] /\ m = v.n[2] /\ d = v.n[3]
  BY <1>2
<1>11. CalendarDay(y, m, d) /\ v.n = <<y, m, d>>
  BY <1>1, <1>2, <1>10
<1>3. PICK k \in Int : k = Days(y, m, d) /\ j2date(k + POSTGRES_EPOCH_JDATE) = v.n
  BY <1>11, DaysBack
<1>4. Form(v) = <<k>>
  BY <1>3, <1>10 DEF Form, IntHalf, PgBitsets
<1> DEFINE c == PgCell(v.t, <<k>>)
<1>5. ~c.null /\ colType(c.oid) = "Date" /\ c.n = <<k>>
  BY CellFacts, ColumnTypes
<1> HIDE DEF c
<1>6. fetch(c) = Val("Date", j2date(c.n[1] + POSTGRES_EPOCH_JDATE))
  BY <1>5, FetchDate
<1>7. c.n[1] = k
  BY <1>5
<1>8. fetch(c) = Val("Date", v.n)
  BY <1>3, <1>6, <1>7
<1>9. Meaning(Val("Date", v.n)) = v.n /\ Meaning(v) = v.n
  BY MeaningOf, PlainMeaning
<1> QED BY <1>4, <1>8, <1>9 DEF Survives, c

LEMMA DatetimesSurvive ==
  ASSUME NEW v, ~v.null, v.t = "Datetime", v.n \in Seq(Int), OfType(v.t, v.n), ~Lossy(v)
  PROVE  Survives(v)
<1>1. Len(v.n) = 4 /\ CalendarDay(v.n[1], v.n[2], v.n[3]) /\ v.n[4] \in 0 .. Ticks.day - 1
  BY DEF OfType, PgBitsets
<1>2. v.n = <<v.n[1], v.n[2], v.n[3], v.n[4]>> /\ v.n[1] \in Int /\ v.n[2] \in Int /\ v.n[3] \in Int /\ v.n[4] \in Int
  BY <1>1, FourNumbers
<1>3. PICK y \in Int, m \in Int, d \in Int, t \in Int : y = v.n[1] /\ m = v.n[2] /\ d = v.n[3] /\ t = v.n[4]
  BY <1>2
<1>4. InDay(t)
  BY <1>1, <1>3, TickFacts DEF InDay
<1>5. Exact(y, t)
  <2>1. integerDatetimes \/ ~(y < 2000) \/ t % Ticks.second = 0
    BY <1>3 DEF Lossy
  <2> QED BY <2>1, SMT DEF Exact, Whole
<1>6. Form(v) = MomentAt(y, m, d, t)
  BY <1>3 DEF Form, IntHalf, PgBitsets, MomentAt
<1>11. CalendarDay(y, m, d)
  BY <1>1, <1>3
<1> DEFINE c == PgCell(v.t, Form(v))
<1>7. ~c.null /\ colType(c.oid) = "Datetime" /\ c.n = Form(v)
  BY CellFacts, ColumnTypes
<1> HIDE DEF c
<1>8. fetch(c) = Val("Datetime", <<y, m, d, t>>)
  <2>1. c.n = MomentAt(y, m, d, t)
    BY <1>6, <1>7
  <2> QED BY <1>4, <1>5, <1>7, <1>11, <2>1, MomentFetched
<1>9. <<y, m, d, t>> = v.n
  BY <1>2, <1>3
<1>10. Meaning(Val("Datetime", v.n)) = v.n /\ Meaning(v) = v.n
  BY MeaningOf, PlainMeaning
<1> QED BY <1>8, <1>9, <1>10 DEF Survives, c

LEMMA TmsSurvive ==
  ASSUME NEW v, ~v.null, v.t = "Tm", v.n \in Seq(Int), OfType(v.t, v.n)
  PROVE  Survives(v)
<1>1. /\ Len(v.n) = 6 /\ CalendarDay(v.n[1] + 1900, v.n[2] + 1, v.n[3])
      /\ v.n[4] >= 0 /\ v.n[5] >= 0 /\ v.n[6] >= 0 /\ time2t(v.n[4], v.n[5], v.n[6]) < Ticks.day
  BY DEF OfType, PgBitsets
<1>2. /\ v.n[1] \in Int /\ v.n[2] \in Int /\ v.n[3] \in Int /\ v.n[4] \in Int /\ v.n[5] \in Int /\ v.n[6] \in Int
  BY <1>1, SixNumbers
<1>12. PICK n1 \in Int, n2 \in Int, n3 \in Int, h \in Int, i \in Int, s \in Int :
         n1 = v.n[1] /\ n2 = v.n[2] /\ n3 = v.n[3] /\ h = v.n[4] /\ i = v.n[5] /\ s = v.n[6]
  BY <1>2
<1>3. PICK y \in Int, m \in Int, d \in Int : y = n1 + 1900 /\ m = n2 + 1 /\ d = n3
  BY SMT
<1>4. PICK t \in Int : t = time2t(h, i, s)
  BY SecondsWhole
<1>11. CalendarDay(y, m, d) /\ h >= 0 /\ i >= 0 /\ s >= 0 /\ t < Ticks.day
  BY <1>1, <1>3, <1>4, <1>12
<1>5. InDay(t)
  <2>1. h \in Nat /\ i \in Nat /\ s \in Nat
    BY <1>11, SMT
  <2>2. PICK p \in Nat, q \in Nat, r \in Nat : p = Ticks.hour /\ q = Ticks.minute /\ r = Ticks.second
    BY TickFacts
  <2>3. t = h * p + i * q + s * r
    BY <1>4, <2>2 DEF time2t
  <2>4. h * p >= 0 /\ i * q >= 0 /\ s * r >= 0
    BY <2>1, SMT
  <2>5. t >= 0
    BY <2>3, <2>4, SMT
  <2> QED BY <1>11, <2>5 DEF InDay
<1>13. Exact(y, t)
  BY <1>4, SecondsWhole DEF Exact
<1>6. Form(v) = MomentAt(y, m, d, t)
  BY <1>3, <1>4, <1>12 DEF Form, IntHalf, PgBitsets, MomentAt
<1> DEFINE c == PgCell(v.t, Form(v))
<1>7. ~c.null /\ colType(c.oid) = "Datetime" /\ c.n = MomentAt(y, m, d, t)
  BY <1>6, CellFacts, ColumnTypes
<1> HIDE DEF c
<1>8. fetch(c) = Val("Datetime", <<y, m, d, t>>)
  BY <1>5, <1>7, <1>11, <1>13, MomentFetched
<1>9. Meaning(v) = <<y, m, d, t>>
  BY <1>3, <1>4, <1>12 DEF Meaning
<1>14. PICK n : n = <<y, m, d, t>>
  OBVIOUS
<1>10. Meaning(Val("Datetime", n)) = n
  BY MeaningOf
<1> QED BY <1>8, <1>9, <1>10, <1>14 DEF Survives, c

(* An interval: days, which are split into months, and ticks. *)
LEMMA IntervalFetched ==
  ASSUME NEW days \in Int, NEW ts \in Int, integerDatetimes \/ ts >= 0 \/ ts % Ticks.second = 0,
         NEW c, ~c.null, colType(c.oid) = "DateTimeDuration", c.n = Interval(days, ts)
  PROVE  fetch(c) = Val("DateTimeDuration", <<days, ts>>)
<1>1. PICK a \in Int, b \in Int : a = Quot(days, DAYS_PER_MONTH) /\ b = Rem(days, DAYS_PER_MONTH) /\ b + DAYS_PER_MONTH * a = days
  <2>1. DAYS_PER_MONTH \in Nat \ {0}
    BY DEF DAYS_PER_MONTH
  <2> QED BY <2>1, QuotInt
<1>2. Moment(ts) \in Seq(Int)
  <2>1. Quot(ts, Ticks.second) \in Int /\ Rem(ts, Ticks.second) \in Int
    BY TickFacts, QuotInt
  <2> HIDE DEF Quot, Rem
  <2> QED BY <2>1 DEF Moment
<1>3. PICK s \in Seq(Int) : s = Moment(ts)
  BY <1>2
<1>4. c.n = <<a, b>> \o s
  BY <1>1, <1>3 DEF Interval
<1>5. SubSeq(c.n, 3, Len(c.n)) = s /\ c.n[1] = a /\ c.n[2] = b
  BY <1>4, AfterTwo
<1>6. FromMoment(s) = ts
  BY <1>3, MomentBack
<1>7. c.n[2] + c.n[1] * DAYS_PER_MONTH = days
  BY <1>1, <1>5, SMT DEF DAYS_PER_MONTH
<1>8. Duration(dt2time(ts)) = ts
  BY DurationBack
<1>9. fetch(c) = Val("DateTimeDuration", <<c.n[2] + c.n[1] * DAYS_PER_MONTH,
                                           Duration(dt2time(FromMoment(SubSeq(c.n, 3, Len(c.n)))))>>)
  BY FetchInterval
<1> QED BY <1>5, <1>6, <1>7, <1>8, <1>9

LEMMA DurationsSurvive ==
  ASSUME NEW v, ~v.null, v.t \in {"DateDuration", "TimeDuration", "DateTimeDuration"}, v.n \in Seq(Int),
         OfType(v.t, v.n), ~Lossy(v)
  PROVE  Survives(v)
<1> DEFINE c == PgCell(v.t, Form(v))
<1>1. ~c.null /\ colType(c.oid) = "DateTimeDuration" /\ c.n = Form(v)
  BY CellFacts, ColumnTypes
<1> HIDE DEF c
<1>2. ASSUME NEW days \in Int, NEW ts \in Int, integerDatetimes \/ ts >= 0 \/ ts % Ticks.second = 0,
             Form(v) = Interval(days, ts), Meaning(v) = <<days, ts>>
      PROVE  Survives(v)
  <2>1. fetch(c) = Val("DateTimeDuration", <<days, ts>>)
    BY <1>1, <1>2, IntervalFetched
  <2>2. Meaning(Val("DateTimeDuration", <<days, ts>>)) = <<days, ts>>
    BY MeaningOf
  <2> QED BY <1>2, <2>1, <2>2 DEF Survives, c
<1>3. CASE v.t = "DateDuration"
  <2>1. Len(v.n) = 1
    BY <1>3 DEF OfType, PgBitsets
  <2>2. v.n[1] \in Int
    BY <2>1, OneNumber
  <2>3. Form(v) = Interval(v.n[1], 0)
    BY <1>3 DEF Form, IntHalf, PgBitsets
  <2>4. Meaning(v) = <<v.n[1], 0>>
    BY <1>3 DEF Meaning
  <2>5. 0 \in Int /\ 0 >= 0
    OBVIOUS
  <2> QED BY <1>2, <2>2, <2>3, <2>4, <2>5
<1>4. CASE v.t = "TimeDuration"
  <2>1. Len(v.n) = 1
    BY <1>4 DEF OfType, PgBitsets
  <2>2. PICK ts \in Int : ts = v.n[1]
    BY <2>1, OneNumber
  <2>3. Form(v) = Interval(0, ts)
    BY <1>4, <2>2 DEF Form, IntHalf, PgBitsets
  <2>4. Meaning(v) = <<0, ts>>
    BY <1>4, <2>2 DEF Meaning
  <2>5. integerDatetimes \/ ~(ts < 0) \/ ts % Ticks.second = 0
    <3>1. v.n[Len(v.n)] = ts
      BY <2>1, <2>2
    <3> QED BY <1>4, <3>1 DEF Lossy
  <2>6. integerDatetimes \/ ts >= 0 \/ ts % Ticks.second = 0
    BY <2>5, SMT
  <2>7. 0 \in Int
    OBVIOUS
  <2> QED BY <1>2, <2>3, <2>4, <2>6, <2>7
<1>5. CASE v.t = "DateTimeDuration"
  <2>1. Len(v.n) = 2
    BY <1>5 DEF OfType, PgBitsets
  <2>2. v.n = <<v.n[1], v.n[2]>> /\ v.n[1] \in Int /\ v.n[2] \in Int
    BY <2>1, TwoNumbers
  <2>3. PICK days \in Int, ts \in Int : days = v.n[1] /\ ts = v.n[2]
    BY <2>2
  <2>4. Form(v) = Interval(days, ts)
    BY <1>5, <2>3 DEF Form, IntHalf, PgBitsets
  <2>5. Meaning(v) = <<days, ts>>
    BY <1>5, <2>2, <2>3, PlainMeaning
  <2>6. integerDatetimes \/ ~(ts < 0) \/ ts % Ticks.second = 0
    <3>1. v.n[Len(v.n)] = ts
      BY <2>1, <2>3
    <3> QED BY <1>5, <3>1 DEF Lossy
  <2>7. integerDatetimes \/ ts >= 0 \/ ts % Ticks.second = 0
    BY <2>6, SMT
  <2> QED BY <1>2, <2>4, <2>5, <2>7
<1> QED BY <1>3, <1>4, <1>5

LEMMA ValuesSurvive ==
  ASSUME NEW v, Bindable(v), v.null \in BOOLEAN, ~v.null => v.n \in Seq(Int) /\ OfType(v.t, v.n)
  PROVE  Lossy(v) \/ Meaning(fetch(Echoed(bindFiller(v)))) = Meaning(v)
<1>1. v.t \in DOMAIN Oid
  BY DEF Bindable
<1>2. CASE v.null
  <2> DEFINE c == Echoed(bindFiller(v))
  <2>1. c.null
    BY <1>1, <1>2, EchoOf
  <2> HIDE DEF c
  <2>2. fetch(c) = PgNull(colType(c.oid))
    BY <2>1 DEF fetch
  <2>3. Meaning(PgNull(colType(c.oid))) = <<"null">>
    BY DEF Meaning, PgNull
  <2>4. Meaning(v) = <<"null">>
    BY <1>2 DEF Meaning
  <2> QED BY <2>2, <2>3, <2>4 DEF c
<1>3. CASE ~v.null
  <2> SUFFICES ASSUME ~Lossy(v) PROVE Survives(v)
    <3>1. Echoed(bindFiller(v)) = PgCell(v.t, Form(v))
      BY <1>1, <1>3, EchoOf DEF PgCell
    <3> QED BY <3>1 DEF Survives
  <2>1. v.n \in Seq(Int) /\ OfType(v.t, v.n)
    BY <1>3
  <2>2. v.t # "Uuid"
    BY <1>3 DEF Lossy
  <2>3. DOMAIN IntHalf = {"Int8", "Int16", "Int32", "Int64", "UInt8", "UInt16", "UInt32", "UInt64"}
    BY DEF IntHalf
  <2>4. DOMAIN PgBitsets = {"Bitset8", "Bitset16"}
    BY DEF PgBitsets
  <2>5. CASE v.t \in DOMAIN IntHalf
    BY <1>3, <2>1, <2>5, IntsSurvive
  <2>6. CASE v.t = "Bool"
    BY <1>3, <2>1, <2>6, BoolsSurvive
  <2>7. CASE v.t \in {"Float", "Double", "VectorChar", "Char", "String"}
    BY <1>3, <2>7, OthersSurvive
  <2>8. CASE v.t \in DOMAIN PgBitsets
    BY <1>3, <2>1, <2>8, BitsSurvive
  <2>9. CASE v.t = "Date"
    BY <1>3, <2>1, <2>9, DatesSurvive
  <2>10. CASE v.t = "Datetime"
    BY <1>3, <2>1, <2>10, DatetimesSurvive
  <2>11. CASE v.t = "Tm"
    BY <1>3, <2>1, <2>11, TmsSurvive
  <2>12. CASE v.t \in {"DateDuration", "TimeDuration", "DateTimeDuration"}
    BY <1>3, <2>1, <2>12, DurationsSurvive
  <2> QED BY <1>1, <2>2, <2>3, <2>4, <2>5, <2>6, <2>7, <2>8, <2>9, <2>10, <2>11, <2>12, OidTypes
<1> QED BY <1>2, <1>3

(* What is known of the values at each step of their way. *)
AllBindable == \A i \in DOMAIN params : Bindable(params[i])
SentForms == [i \in DOMAIN params |-> bindFiller(params[i])]
EchoedForms == [i \in DOMAIN params |-> Echoed(bindFiller(params[i]))]
FetchedValues == [i \in DOMAIN params |-> fetch(Echoed(bindFiller(params[i])))]

ValuesInv ==
    /\ params \in Params
    /\ AllBindable =>
         /\ valuesAt = "bound" => binds = SentForms
         /\ valuesAt = "answered" => row = EchoedForms
         /\ valuesAt = "fetched" => fetched = FetchedValues

LEMMA FromSame ==
  ASSUME NEW n, UNCHANGED integerDatetimes
  PROVE  FromMoment(n)' = FromMoment(n)
BY DEF FromMoment

LEMMA FetchSame ==
  ASSUME NEW c, UNCHANGED integerDatetimes
  PROVE  fetch(c)' = fetch(c)
BY FromSame DEF fetch

LEMMA MomentSame ==
  ASSUME NEW ts, UNCHANGED integerDatetimes
  PROVE  Moment(ts)' = Moment(ts)
BY DEF Moment

LEMMA IntervalSame ==
  ASSUME NEW days, NEW ts, UNCHANGED integerDatetimes
  PROVE  Interval(days, ts)' = Interval(days, ts)
BY MomentSame DEF Interval

LEMMA FormSame ==
  ASSUME NEW v, UNCHANGED integerDatetimes
  PROVE  bindFiller(v)' = bindFiller(v)
<1>1. Form(v)' = Form(v)
  BY MomentSame, IntervalSame DEF Form
<1> QED BY <1>1 DEF bindFiller

LEMMA ParamsSame ==
  ASSUME UNCHANGED <<params, integerDatetimes>>
  PROVE  UNCHANGED <<AllBindable, SentForms, EchoedForms, FetchedValues>>
<1>1. UNCHANGED AllBindable
  BY DEF AllBindable, Bindable
<1>2. UNCHANGED SentForms
  BY FormSame DEF SentForms
<1>3. UNCHANGED EchoedForms
  BY FormSame DEF EchoedForms, Echoed
<1>4. UNCHANGED FetchedValues
  BY FormSame, FetchSame DEF FetchedValues, Echoed
<1> QED BY <1>1, <1>2, <1>3, <1>4

LEMMA ValuesKeep ==
  ASSUME ValuesInv, [ValuesNext]_valueVars
  PROVE  ValuesInv'
<1>1. CASE UNCHANGED valueVars
  <2>1. UNCHANGED <<params, integerDatetimes, binds, row, fetched, valuesAt>>
    BY <1>1 DEF valueVars
  <2> QED BY <2>1, ParamsSame DEF ValuesInv
<1>2. CASE Bind
  <2>1. UNCHANGED <<params, integerDatetimes>> /\ valuesAt' \in {"bound", "undefined"}
    BY <1>2 DEF Bind
  <2>2. AllBindable => binds' = SentForms
    BY <1>2 DEF Bind, AllBindable, SentForms
  <2> QED BY <2>1, <2>2, ParamsSame DEF ValuesInv
<1>3. CASE ServerEcho
  <2>1. UNCHANGED <<params, integerDatetimes>> /\ valuesAt = "bound" /\ valuesAt' = "answered"
    BY <1>3 DEF ServerEcho
  <2>2. AllBindable => row' = EchoedForms
    <3>1. row' = [i \in DOMAIN binds |-> Echoed(binds[i])]
      BY <1>3 DEF ServerEcho, Echoed
    <3>2. AllBindable => binds = SentForms
      BY <2>1 DEF ValuesInv
    <3> QED BY <3>1, <3>2 DEF SentForms, EchoedForms
  <2> QED BY <2>1, <2>2, ParamsSame DEF ValuesInv
<1>4. CASE FetchRow
  <2>1. UNCHANGED <<params, integerDatetimes>> /\ valuesAt = "answered" /\ valuesAt' = "fetched"
    BY <1>4 DEF FetchRow
  <2>2. AllBindable => fetched' = FetchedValues
    <3>1. fetched' = [i \in DOMAIN row |-> fetch(row[i])]
      BY <1>4 DEF FetchRow
    <3>2. AllBindable => row = EchoedForms
      BY <2>1 DEF ValuesInv
    <3> QED BY <3>1, <3>2 DEF FetchedValues, EchoedForms
  <2> QED BY <2>1, <2>2, ParamsSame DEF ValuesInv
<1> QED BY <1>1, <1>2, <1>3, <1>4 DEF ValuesNext

LEMMA ValuesRead == ValuesInv => ReadsBack
<1> SUFFICES ASSUME ValuesInv, valuesAt = "fetched", AllBindable
    PROVE  Len(fetched) = Len(params)
           /\ \A i \in DOMAIN params : Lossy(params[i]) \/ Meaning(fetched[i]) = Meaning(params[i])
  BY DEF ReadsBack, AllBindable
<1>1. fetched = FetchedValues
  BY DEF ValuesInv
<1>2. /\ params \in Seq([t : STRING, null : BOOLEAN, n : Seq(Int)])
      /\ \A i \in DOMAIN params : params[i].null \/ OfType(params[i].t, params[i].n)
  BY ParamsAssumption DEF ValuesInv
<1>3. Len(fetched) = Len(params)
  <2>1. DOMAIN params = 1 .. Len(params) /\ Len(params) \in Nat
    BY <1>2
  <2> QED BY <1>1, <2>1 DEF FetchedValues
<1>4. ASSUME NEW i \in DOMAIN params PROVE Lossy(params[i]) \/ Meaning(fetched[i]) = Meaning(params[i])
  <2>1. PICK v : v = params[i]
    OBVIOUS
  <2>2. v \in [t : STRING, null : BOOLEAN, n : Seq(Int)]
    <3>1. PICK S : S = [t : STRING, null : BOOLEAN, n : Seq(Int)]
      OBVIOUS
    <3>2. params \in Seq(S)
      BY <1>2, <3>1
    <3>3. params[i] \in S
      BY <3>2
    <3> QED BY <2>1, <3>1, <3>3
  <2>3. Bindable(v) /\ v.null \in BOOLEAN /\ (~v.null => v.n \in Seq(Int) /\ OfType(v.t, v.n))
    BY <1>2, <2>1, <2>2 DEF AllBindable
  <2>4. fetched[i] = fetch(Echoed(bindFiller(v)))
    BY <1>1, <2>1 DEF FetchedValues
  <2>5. Lossy(v) \/ Meaning(fetch(Echoed(bindFiller(v)))) = Meaning(v)
    BY <2>3, ValuesSurvive
  <2> QED BY <2>1, <2>4, <2>5
<1> QED BY <1>3, <1>4

-----------------------------------------------------------------------------
(* Rows and columns. *)

LEMMA LessWellFounded == IsWellFoundedOn({s \in Nat \X Nat : s[1] < s[2]}, Nat)
<1>1. IsWellFoundedOn(OpToRel(<, Nat), Nat)
  BY NatLessThanWellFounded
<1> QED BY <1>1 DEF OpToRel

LEMMA LeastIs ==
  ASSUME NEW S, S \subseteq Nat, S # {}
  PROVE  Least(S) \in S /\ \A y \in S : Least(S) <= y
<1> DEFINE R == {s \in Nat \X Nat : s[1] < s[2]}
<1>1. IsWellFoundedOn(R, Nat)
  BY LessWellFounded
<1>2. \A i, j \in Nat : i < j => <<i, j>> \in R
  OBVIOUS
<1> HIDE DEF R
<1>3. PICK x \in S : \A y \in S : <<y, x>> \notin R
  BY <1>1, WFMin
<1>4. ASSUME NEW y \in S PROVE x <= y
  <2>1. x \in Nat /\ y \in Nat /\ <<y, x>> \notin R
    BY <1>3
  <2>2. ~(y < x)
    BY <1>2, <2>1
  <2> QED BY <2>1, <2>2
<1>5. \E x_1 \in S : \A y \in S : x_1 <= y
  BY <1>4
<1> QED BY <1>5 DEF Least

(* The loop stops at the first element that cannot be read. *)
LEMMA FirstBadIs ==
  ASSUME NEW n \in Nat, NEW good, DOMAIN good = 1 .. n, Len(good) = n
  PROVE  /\ FirstBad(good) \in 1 .. n + 1
         /\ FirstBad(good) = n + 1 <=> AllGood(good)
<1> DEFINE S == {i \in DOMAIN good : ~good[i]} \cup {Len(good) + 1}
<1>1. S \subseteq Nat /\ n + 1 \in S
  OBVIOUS
<1>2. FirstBad(good) = Least(S)
  BY DEF FirstBad
<1>3. Least(S) \in S /\ \A y \in S : Least(S) <= y
  <2> HIDE DEF S
  <2> QED BY <1>1, LeastIs
<1>4. ASSUME AllGood(good) PROVE Least(S) = n + 1
  BY <1>3, <1>4 DEF AllGood
<1>5. ASSUME ~AllGood(good) PROVE Least(S) # n + 1
  <2>1. PICK i \in DOMAIN good : ~good[i]
    BY <1>5 DEF AllGood
  <2>2. Least(S) <= i
    BY <1>3, <2>1
  <2> HIDE DEF S
  <2> QED BY <2>1, <2>2
<1>6. Least(S) \in 1 .. n + 1
  BY <1>3
<1> QED BY <1>2, <1>4, <1>5, <1>6

LEMMA AllOverwritten ==
  ASSUME NEW n \in Nat, NEW kids, NEW new, NEW good,
         DOMAIN good = 1 .. n, Len(good) = n, new = [i \in 1 .. n |-> new[i]], AllGood(good)
  PROVE  Overwritten(kids, new, good) = new
<1>1. FirstBad(good) = n + 1
  BY FirstBadIs
<1>2. Len(new) = n
  OBVIOUS
<1> DEFINE old == Resized(kids, n)
<1>3. DOMAIN old = 1 .. n
  BY DEF Resized
<1>4. Overwritten(kids, new, good) =
        [i \in DOMAIN old |-> IF i < FirstBad(good) /\ i <= Len(new) THEN new[i] ELSE old[i]]
  BY <1>2 DEF Overwritten
<1> HIDE DEF old
<1>5. [i \in DOMAIN old |-> IF i < FirstBad(good) /\ i <= Len(new) THEN new[i] ELSE old[i]]
        = [i \in 1 .. n |-> new[i]]
  BY <1>1, <1>2, <1>3
<1> QED BY <1>4, <1>5

LEMMA RowFetched ==
  ASSUME NEW t, NEW kids, NEW cs, NEW r, DOMAIN cs = 1 .. Len(cs), Len(cs) \in Nat
  PROVE  LET res == fetchRowList_(t, kids, cs, r)
         IN  /\ res.ok <=> \A i \in DOMAIN cs : Fetchable(table[r][cs[i]])
             /\ res.ok => res.v = [t |-> t, kids |-> [i \in DOMAIN cs |-> fetch(table[r][cs[i]])]]
<1> DEFINE good == [i \in DOMAIN cs |-> Fetchable(table[r][cs[i]])]
           new == [i \in DOMAIN cs |-> IF good[i] THEN fetch(table[r][cs[i]]) ELSE VoidCell]
           res == fetchRowList_(t, kids, cs, r)
<1>1. res = [ok |-> AllGood(good), v |-> [t |-> t, kids |-> Overwritten(kids, new, good)]]
  BY DEF fetchRowList_
<1>2. AllGood(good) <=> \A i \in DOMAIN cs : Fetchable(table[r][cs[i]])
  BY DEF AllGood
<1>3. ASSUME AllGood(good) PROVE Overwritten(kids, new, good) = [i \in DOMAIN cs |-> fetch(table[r][cs[i]])]
  <2>1. new = [i \in DOMAIN cs |-> fetch(table[r][cs[i]])]
    BY <1>3 DEF AllGood
  <2>2. DOMAIN good = 1 .. Len(cs) /\ Len(good) = Len(cs) /\ new = [i \in 1 .. Len(cs) |-> new[i]]
    OBVIOUS
  <2> HIDE DEF good, new
  <2>3. Overwritten(kids, new, good) = new
    BY <1>3, <2>2, AllOverwritten
  <2> QED BY <2>1, <2>3
<1> HIDE DEF good, new, res
<1> QED BY <1>1, <1>2, <1>3 DEF res

(* A map has every name asked for, with the last column of the name. *)
MapReads(cs, r, entries) ==
    /\ DOMAIN entries = {ColNames[cs[i]] : i \in DOMAIN cs}
    /\ \A i \in DOMAIN cs :
         (\A j \in DOMAIN cs : j > i => ColNames[cs[j]] # ColNames[cs[i]]) =>
           entries[ColNames[cs[i]]] = fetch(table[r][cs[i]])

LEMMA MapFetched ==
  ASSUME NEW cs, NEW r, DOMAIN cs = 1 .. Len(cs), Len(cs) \in Nat
  PROVE  LET res == fetchRowMap_(cs, r)
         IN  /\ res.ok <=> \A i \in DOMAIN cs : Fetchable(table[r][cs[i]])
             /\ res.ok => MapReads(cs, r, res.v.entries)
<1> DEFINE good == [i \in DOMAIN cs |-> Fetchable(table[r][cs[i]])]
           bad == FirstBad(good)
           named(x) == {i \in DOMAIN cs : i < bad /\ ColNames[cs[i]] = x}
           entries == [x \in {ColNames[cs[i]] : i \in DOMAIN cs \cap (1 .. bad)} |->
                         IF named(x) = {} THEN VoidCell ELSE fetch(table[r][cs[Greatest(named(x))]])]
           res == fetchRowMap_(cs, r)
<1>1. res = [ok |-> bad > Len(cs), v |-> [t |-> "MapStringVariant", entries |-> entries]]
  BY DEF fetchRowMap_
<1>2. AllGood(good) <=> \A i \in DOMAIN cs : Fetchable(table[r][cs[i]])
  BY DEF AllGood
<1>3. bad \in 1 .. Len(cs) + 1 /\ (bad = Len(cs) + 1 <=> AllGood(good))
  <2>1. DOMAIN good = 1 .. Len(cs) /\ Len(good) = Len(cs)
    OBVIOUS
  <2> HIDE DEF good
  <2> QED BY <2>1, FirstBadIs
<1> HIDE DEF good, bad
<1>4. bad > Len(cs) <=> AllGood(good)
  BY <1>3
<1>5. ASSUME bad > Len(cs) PROVE MapReads(cs, r, entries)
  <2>1. DOMAIN cs \cap (1 .. bad) = DOMAIN cs
    BY <1>3, <1>5
  <2>2. DOMAIN entries = {ColNames[cs[i]] : i \in DOMAIN cs}
    BY <2>1
  <2>3. ASSUME NEW i \in DOMAIN cs, \A j \in DOMAIN cs : j > i => ColNames[cs[j]] # ColNames[cs[i]]
        PROVE  entries[ColNames[cs[i]]] = fetch(table[r][cs[i]])
    <3> DEFINE x == ColNames[cs[i]]
               S == named(x)
    <3>1. i \in S /\ \A j \in S : j \in Nat /\ j <= i
      BY <1>3, <1>5, <2>3
    <3>2. x \in DOMAIN entries
      BY <2>2
    <3>3. entries[x] = IF S = {} THEN VoidCell ELSE fetch(table[r][cs[Greatest(S)]])
      BY <3>2
    <3> HIDE DEF S, x, entries
    <3>4. Greatest(S) = i
      <4>1. i \in Nat
        BY <3>1
      <4>2. \E z \in S : \A y \in S : z >= y
        BY <3>1, <4>1
      <4>3. Greatest(S) \in S /\ \A y \in S : Greatest(S) >= y
        BY <4>2 DEF Greatest
      <4>4. Greatest(S) <= i /\ Greatest(S) >= i /\ Greatest(S) \in Nat
        BY <3>1, <4>3
      <4> QED BY <4>1, <4>4
    <3> QED BY <3>1, <3>3, <3>4 DEF x
  <2> HIDE DEF entries
  <2> QED BY <2>2, <2>3 DEF MapReads
<1>6. res.ok = (bad > Len(cs)) /\ res.v.entries = entries
  <2> HIDE DEF entries, res
  <2> QED BY <1>1
<1> HIDE DEF entries, res
<1>7. res.ok <=> \A i \in DOMAIN cs : Fetchable(table[r][cs[i]])
  BY <1>2, <1>4, <1>6
<1>8. ASSUME res.ok PROVE MapReads(cs, r, res.v.entries)
  BY <1>5, <1>6, <1>8
<1> QED BY <1>7, <1>8 DEF res

LEMMA RowsOfRange ==
  ASSUME table \in Results, NEW range \in RowRanges
  PROVE  \E n \in Nat :
            LET asked == {r \in DOMAIN table : range[1] <= r /\ r < range[2]}
            IN  /\ RangeRows(range) = [k \in 1 .. n |-> range[1] + k - 1]
                /\ asked = {range[1] + k - 1 : k \in 1 .. n}
                /\ Cardinality(asked) = n
<1>1. PICK a, b : a = range[1] /\ b = range[2]
  OBVIOUS
<1>2. a \in Nat \ {0} /\ b \in Nat
  BY <1>1, ResultAssumption
<1>3. PICK m : m = Len(table)
  OBVIOUS
<1>4. m \in Nat /\ DOMAIN table = 1 .. m
  <2>1. PICK S : S = Seq([oid : Nat, null : BOOLEAN, n : Seq(Int)])
    OBVIOUS
  <2>2. table \in Seq(S)
    BY <2>1, ResultAssumption
  <2> QED BY <1>3, <2>2
<1> DEFINE end == IF b > m + 1 THEN m + 1 ELSE b
           n == IF a >= end THEN 0 ELSE end - a
           asked == {r \in DOMAIN table : a <= r /\ r < b}
<1>5. n \in Nat /\ end \in Nat
  BY <1>2, <1>4
<1>6. RangeRows(range) = [k \in 1 .. n |-> a + k - 1]
  <2>1. RangeRows(range) = [k \in 1 .. n |-> range[1] + k - 1]
    BY <1>1, <1>3 DEF RangeRows
  <2> QED BY <1>1, <2>1
<1>7. asked = a .. end - 1
  BY <1>2, <1>4
<1>8. asked = {a + k - 1 : k \in 1 .. n}
  <2>1. ASSUME NEW r \in asked PROVE \E k \in 1 .. n : r = a + k - 1
    <3>1. r \in Nat /\ a <= r /\ r <= end - 1
      BY <1>2, <1>5, <1>7
    <3>2. r - a + 1 \in 1 .. n /\ r = a + (r - a + 1) - 1
      BY <1>2, <1>5, <3>1
    <3> QED BY <3>2
  <2>2. ASSUME NEW k \in 1 .. n PROVE a + k - 1 \in asked
    BY <1>2, <1>5, <1>7
  <2> HIDE DEF asked, n
  <2> QED BY <2>1, <2>2
<1>9. Cardinality(asked) = n
  <2>1. a \in Int /\ end - 1 \in Int
    BY <1>2, <1>5
  <2>2. Cardinality(a .. end - 1) = IF a > end - 1 THEN 0 ELSE (end - 1) - a + 1
    BY <2>1, FS_Interval
  <2>3. n = IF a > end - 1 THEN 0 ELSE (end - 1) - a + 1
    BY <1>2, <1>5
  <2> QED BY <1>7, <2>2, <2>3
<1> HIDE DEF n
<1> QED BY <1>1, <1>5, <1>6, <1>8, <1>9

RowsRead(res, t, cs, n, rs) ==
    /\ res.ok <=> \A k \in 1 .. n : \A i \in DOMAIN cs : Fetchable(table[rs[k]][cs[i]])
    /\ res.ok =>
         res.v = [t |-> t,
                  kids |-> [k \in 1 .. n |-> [t |-> t, kids |-> [i \in DOMAIN cs |-> fetch(table[rs[k]][cs[i]])]]]]

MapsRead(res, cs, n, rs) ==
    /\ res.ok <=> \A k \in 1 .. n : \A i \in DOMAIN cs : Fetchable(table[rs[k]][cs[i]])
    /\ res.ok =>
         /\ DOMAIN res.v.kids = 1 .. n
         /\ \A k \in 1 .. n : MapReads(cs, rs[k], res.v.kids[k].entries)

ColumnRead(res, t, c, n, rs) ==
    /\ res.ok <=> \A k \in 1 .. n : Fetchable(table[rs[k]][c])
    /\ res.ok => res.v = [t |-> t, kids |-> [k \in 1 .. n |-> fetch(table[rs[k]][c])]]

LEMMA RowsFetched ==
  ASSUME NEW t, NEW kids, NEW cs, DOMAIN cs = 1 .. Len(cs), Len(cs) \in Nat,
         NEW range, NEW n \in Nat, NEW rs, RangeRows(range) = rs, DOMAIN rs = 1 .. n
  PROVE  RowsRead(fetchRowsList_(t, kids, cs, range), t, cs, n, rs)
<1> DEFINE one == [k \in DOMAIN rs |->
                     fetchRowList_(t, IF k <= Len(kids) THEN KidsAs(kids[k], t) ELSE <<>>, cs, rs[k])]
           good == [k \in DOMAIN rs |-> one[k].ok]
           new == [k \in DOMAIN rs |-> one[k].v]
           filled == Overwritten(kids, new, good)
           bad == FirstBad(good)
           res == fetchRowsList_(t, kids, cs, range)
<1>1. res = [ok |-> AllGood(good),
             v |-> [t |-> t, kids |-> IF AllGood(good) THEN filled ELSE [filled EXCEPT ![bad] = one[bad].v]]]
  BY DEF fetchRowsList_
<1>2. ASSUME NEW k \in 1 .. n
      PROVE  /\ one[k].ok <=> \A i \in DOMAIN cs : Fetchable(table[rs[k]][cs[i]])
             /\ one[k].ok => one[k].v = [t |-> t, kids |-> [i \in DOMAIN cs |-> fetch(table[rs[k]][cs[i]])]]
  <2>1. PICK old : old = IF k <= Len(kids) THEN KidsAs(kids[k], t) ELSE <<>>
    OBVIOUS
  <2>2. one[k] = fetchRowList_(t, old, cs, rs[k])
    BY <2>1
  <2> HIDE DEF one
  <2> QED BY <2>2, RowFetched
<1>3. DOMAIN good = 1 .. n /\ Len(good) = n /\ new = [k \in 1 .. n |-> new[k]]
  OBVIOUS
<1>4. \A k \in 1 .. n : good[k] = one[k].ok /\ new[k] = one[k].v
  OBVIOUS
<1> HIDE DEF one, good, new
<1>5. AllGood(good) <=> \A k \in 1 .. n : \A i \in DOMAIN cs : Fetchable(table[rs[k]][cs[i]])
  BY <1>2, <1>3, <1>4 DEF AllGood
<1>6. ASSUME AllGood(good)
      PROVE  filled = [k \in 1 .. n |-> [t |-> t, kids |-> [i \in DOMAIN cs |-> fetch(table[rs[k]][cs[i]])]]]
  <2>1. filled = new
    BY <1>3, <1>6, AllOverwritten
  <2>2. \A k \in 1 .. n : new[k] = [t |-> t, kids |-> [i \in DOMAIN cs |-> fetch(table[rs[k]][cs[i]])]]
    BY <1>2, <1>3, <1>4, <1>6 DEF AllGood
  <2> HIDE DEF filled
  <2> QED BY <1>3, <2>1, <2>2
<1> HIDE DEF filled, bad, res
<1>7. res.ok = AllGood(good) /\ (AllGood(good) => res.v = [t |-> t, kids |-> filled])
  BY <1>1
<1>8. res.ok <=> \A k \in 1 .. n : \A i \in DOMAIN cs : Fetchable(table[rs[k]][cs[i]])
  BY <1>5, <1>7
<1>9. res.ok =>
        res.v = [t |-> t,
                 kids |-> [k \in 1 .. n |-> [t |-> t, kids |-> [i \in DOMAIN cs |-> fetch(table[rs[k]][cs[i]])]]]]
  BY <1>6, <1>7
<1> QED BY <1>8, <1>9 DEF res, RowsRead

LEMMA MapsFetched ==
  ASSUME NEW t, NEW kids, NEW cs, DOMAIN cs = 1 .. Len(cs), Len(cs) \in Nat,
         NEW range, NEW n \in Nat, NEW rs, RangeRows(range) = rs, DOMAIN rs = 1 .. n
  PROVE  MapsRead(fetchRowsMap_(t, kids, cs, range), cs, n, rs)
<1> DEFINE one == [k \in DOMAIN rs |-> fetchRowMap_(cs, rs[k])]
           good == [k \in DOMAIN rs |-> one[k].ok]
           new == [k \in DOMAIN rs |-> one[k].v]
           filled == Overwritten(kids, new, good)
           bad == FirstBad(good)
           res == fetchRowsMap_(t, kids, cs, range)
<1>1. res = [ok |-> AllGood(good),
             v |-> [t |-> t, kids |-> IF AllGood(good) THEN filled ELSE [filled EXCEPT ![bad] = one[bad].v]]]
  BY DEF fetchRowsMap_
<1>2. ASSUME NEW k \in 1 .. n
      PROVE  /\ one[k].ok <=> \A i \in DOMAIN cs : Fetchable(table[rs[k]][cs[i]])
             /\ one[k].ok => MapReads(cs, rs[k], one[k].v.entries)
  <2>1. one[k] = fetchRowMap_(cs, rs[k])
    OBVIOUS
  <2> HIDE DEF one
  <2> QED BY <2>1, MapFetched
<1>3. DOMAIN good = 1 .. n /\ Len(good) = n /\ new = [k \in 1 .. n |-> new[k]]
  OBVIOUS
<1>4. \A k \in 1 .. n : good[k] = one[k].ok /\ new[k] = one[k].v
  OBVIOUS
<1> HIDE DEF one, good, new
<1>5. AllGood(good) <=> \A k \in 1 .. n : \A i \in DOMAIN cs : Fetchable(table[rs[k]][cs[i]])
  BY <1>2, <1>3, <1>4 DEF AllGood
<1>6. ASSUME AllGood(good)
      PROVE  DOMAIN filled = 1 .. n /\ \A k \in 1 .. n : MapReads(cs, rs[k], filled[k].entries)
  <2>1. filled = new
    BY <1>3, <1>6, AllOverwritten
  <2>2. \A k \in 1 .. n : MapReads(cs, rs[k], new[k].entries)
    BY <1>2, <1>3, <1>4, <1>6 DEF AllGood
  <2> HIDE DEF filled
  <2> QED BY <1>3, <2>1, <2>2
<1> HIDE DEF filled, bad, res
<1>7. res.ok = AllGood(good) /\ (AllGood(good) => res.v.kids = filled)
  BY <1>1
<1>8. res.ok <=> \A k \in 1 .. n : \A i \in DOMAIN cs : Fetchable(table[rs[k]][cs[i]])
  BY <1>5, <1>7
<1>9. res.ok => DOMAIN res.v.kids = 1 .. n /\ \A k \in 1 .. n : MapReads(cs, rs[k], res.v.kids[k].entries)
  BY <1>6, <1>7
<1> QED BY <1>8, <1>9 DEF res, MapsRead

LEMMA ColumnFetched ==
  ASSUME NEW t, NEW kids, NEW c, NEW range, NEW n \in Nat, NEW rs, RangeRows(range) = rs, DOMAIN rs = 1 .. n
  PROVE  ColumnRead(fetchColumn_(t, kids, c, range), t, c, n, rs)
<1> DEFINE good == [k \in DOMAIN rs |-> Fetchable(table[rs[k]][c])]
           new == [k \in DOMAIN rs |-> IF good[k] THEN fetch(table[rs[k]][c]) ELSE VoidCell]
           res == fetchColumn_(t, kids, c, range)
<1>1. res = [ok |-> AllGood(good), v |-> [t |-> t, kids |-> Overwritten(kids, new, good)]]
  BY DEF fetchColumn_
<1>2. AllGood(good) <=> \A k \in 1 .. n : Fetchable(table[rs[k]][c])
  BY DEF AllGood
<1>3. ASSUME AllGood(good) PROVE Overwritten(kids, new, good) = [k \in 1 .. n |-> fetch(table[rs[k]][c])]
  <2>1. new = [k \in 1 .. n |-> fetch(table[rs[k]][c])]
    BY <1>3 DEF AllGood
  <2>2. DOMAIN good = 1 .. n /\ Len(good) = n /\ new = [k \in 1 .. n |-> new[k]]
    OBVIOUS
  <2> HIDE DEF good, new
  <2>3. Overwritten(kids, new, good) = new
    BY <1>3, <2>2, AllOverwritten
  <2> QED BY <2>1, <2>3
<1> HIDE DEF good, new, res
<1> QED BY <1>1, <1>2, <1>3 DEF res, ColumnRead

LEMMA ColumnsNumbered ==
  ASSUME NEW cs \in ColLists
  PROVE  DOMAIN cs = 1 .. Len(cs) /\ Len(cs) \in Nat
<1>1. cs \in Seq(DOMAIN ColNames)
  BY ResultAssumption
<1> QED BY <1>1

LEMMA RowNumbered ==
  ASSUME table \in Results, NEW r \in DOMAIN table
  PROVE  r \in Nat /\ r + 1 - 1 = r /\ {q \in DOMAIN table : r <= q /\ q < r + 1} = {r}
<1>1. PICK S : S = Seq([oid : Nat, null : BOOLEAN, n : Seq(Int)])
  OBVIOUS
<1>2. table \in Seq(S)
  BY <1>1, ResultAssumption
<1>3. DOMAIN table \subseteq Nat
  BY <1>2
<1> QED BY <1>3

LEMMA CallFetchesRow ==
  ASSUME table \in Results, fetchRowList
  PROVE  FetchedExact'
<1>1. PICK cs \in ColLists, r \in DOMAIN table :
        Returns("rowList", cs, <<r, r + 1>>, fetchRowList_(DstType, DstKids, cs, r))
  BY DEF fetchRowList
<1> DEFINE res == fetchRowList_(DstType, DstKids, cs, r)
<1>2. /\ dst' = res.v /\ UNCHANGED <<table, integerDatetimes>>
      /\ call' = [op |-> "rowList", cs |-> cs, range |-> <<r, r + 1>>, ok |-> res.ok]
  BY <1>1 DEF Returns, valueVars
<1>3. DOMAIN cs = 1 .. Len(cs) /\ Len(cs) \in Nat
  BY ColumnsNumbered
<1>5. {q \in DOMAIN table : r <= q /\ q < r + 1} = {r} /\ r + 1 - 1 = r
  BY RowNumbered
<1>6. /\ res.ok <=> \A i \in DOMAIN cs : Fetchable(table[r][cs[i]])
      /\ res.ok => res.v = [t |-> DstType, kids |-> [i \in DOMAIN cs |-> fetch(table[r][cs[i]])]]
  <2>1. PICK t, kids : t = DstType /\ kids = DstKids
    OBVIOUS
  <2>2. res = fetchRowList_(t, kids, cs, r)
    BY <2>1
  <2> HIDE DEF res
  <2> QED BY <1>3, <2>1, <2>2, RowFetched
<1> HIDE DEF res
<1>8. res.ok => dst'.kids = [i \in DOMAIN cs |-> fetch(table[r][cs[i]])']
  BY <1>2, <1>6, FetchSame
<1>9. /\ call'.op = "rowList" /\ call'.cs = cs /\ call'.range[1] = r /\ call'.range[2] = r + 1
      /\ call'.ok = res.ok
  BY <1>2
<1>10. (RowAsked(r))' = [i \in DOMAIN cs |-> fetch(table[r][cs[i]])']
  BY <1>2, <1>9 DEF RowAsked
<1> QED BY <1>2, <1>5, <1>6, <1>8, <1>9, <1>10 DEF FetchedExact

LEMMA CallFetchesMap ==
  ASSUME table \in Results, fetchRowMap
  PROVE  FetchedExact'
<1>1. PICK cs \in ColLists, r \in DOMAIN table : Returns("rowMap", cs, <<r, r + 1>>, fetchRowMap_(cs, r))
  BY DEF fetchRowMap
<1> DEFINE res == fetchRowMap_(cs, r)
<1>2. /\ dst' = res.v /\ UNCHANGED <<table, integerDatetimes>>
      /\ call' = [op |-> "rowMap", cs |-> cs, range |-> <<r, r + 1>>, ok |-> res.ok]
  BY <1>1 DEF Returns, valueVars
<1>3. DOMAIN cs = 1 .. Len(cs) /\ Len(cs) \in Nat
  BY ColumnsNumbered
<1>4. {q \in DOMAIN table : r <= q /\ q < r + 1} = {r} /\ r + 1 - 1 = r
  BY RowNumbered
<1>5. /\ res.ok <=> \A i \in DOMAIN cs : Fetchable(table[r][cs[i]])
      /\ res.ok => MapReads(cs, r, res.v.entries)
  BY <1>3, MapFetched
<1> HIDE DEF res
<1>6. /\ call'.op = "rowMap" /\ call'.cs = cs /\ call'.range[1] = r /\ call'.range[2] = r + 1
      /\ call'.ok = res.ok
  BY <1>2
<1>7. ASSUME res.ok
      PROVE  /\ DOMAIN dst'.entries = {ColNames[cs[i]] : i \in DOMAIN cs}
             /\ MapAsked(r, dst.entries)'
  <2>1. MapReads(cs, r, dst'.entries)
    BY <1>2, <1>5, <1>7
  <2> QED BY <1>2, <1>6, <2>1, FetchSame DEF MapReads, MapAsked
<1> QED BY <1>2, <1>4, <1>5, <1>6, <1>7 DEF FetchedExact

LEMMA CallFetchesRows ==
  ASSUME table \in Results, fetchRowsList
  PROVE  FetchedExact'
<1>1. PICK cs \in ColLists, range \in RowRanges :
        Returns("rowsList", cs, range, fetchRowsList_(DstType, DstKids, cs, range))
  BY DEF fetchRowsList
<1> DEFINE res == fetchRowsList_(DstType, DstKids, cs, range)
           asked == {r \in DOMAIN table : range[1] <= r /\ r < range[2]}
<1>2. /\ dst' = res.v /\ UNCHANGED <<table, integerDatetimes>>
      /\ call' = [op |-> "rowsList", cs |-> cs, range |-> range, ok |-> res.ok]
  BY <1>1 DEF Returns, valueVars
<1>3. DOMAIN cs = 1 .. Len(cs) /\ Len(cs) \in Nat
  BY ColumnsNumbered
<1>4. PICK n \in Nat : /\ RangeRows(range) = [k \in 1 .. n |-> range[1] + k - 1]
                       /\ asked = {range[1] + k - 1 : k \in 1 .. n}
                       /\ Cardinality(asked) = n
  BY RowsOfRange
<1>5. PICK rs, t, kids : rs = RangeRows(range) /\ t = DstType /\ kids = DstKids
  OBVIOUS
<1>6. DOMAIN rs = 1 .. n /\ \A k \in 1 .. n : rs[k] = range[1] + k - 1
  BY <1>4, <1>5
<1>7. RowsRead(res, t, cs, n, rs)
  <2>1. res = fetchRowsList_(t, kids, cs, range)
    BY <1>5
  <2> HIDE DEF res
  <2> QED BY <1>3, <1>5, <1>6, <2>1, RowsFetched
<1> HIDE DEF res
<1>8. /\ call'.op = "rowsList" /\ call'.cs = cs /\ call'.range = range /\ call'.ok = res.ok
  BY <1>2
<1>9. asked = {rs[k] : k \in 1 .. n}
  BY <1>4, <1>6
<1>10. asked = {r \in DOMAIN table' : call'.range[1] <= r /\ r < call'.range[2]}
  BY <1>2, <1>8
<1> HIDE DEF asked
<1>11. res.ok <=> \A r \in asked, i \in DOMAIN call'.cs : Fetchable(table'[r][call'.cs[i]])
  BY <1>2, <1>7, <1>8, <1>9 DEF RowsRead
<1>12. ASSUME res.ok
       PROVE  /\ Len(dst'.kids) = Cardinality(asked)
              /\ \A k \in DOMAIN dst'.kids :
                   dst'.kids[k].t = dst'.t /\ dst'.kids[k].kids = RowAsked(call.range[1] + k - 1)'
  <2>1. /\ dst'.t = t
        /\ dst'.kids = [k \in 1 .. n |-> [t |-> t, kids |-> [i \in DOMAIN cs |-> fetch(table[rs[k]][cs[i]])]]]
    BY <1>2, <1>7, <1>12 DEF RowsRead
  <2>2. Len(dst'.kids) = n
    BY <2>1
  <2>3. ASSUME NEW k \in 1 .. n
        PROVE  RowAsked(call.range[1] + k - 1)' = [i \in DOMAIN cs |-> fetch(table[rs[k]][cs[i]])]
    BY <1>2, <1>6, <1>8, FetchSame DEF RowAsked
  <2>4. ASSUME NEW k \in DOMAIN dst'.kids
        PROVE  dst'.kids[k].t = dst'.t /\ dst'.kids[k].kids = RowAsked(call.range[1] + k - 1)'
    <3>1. k \in 1 .. n
      BY <2>1
    <3>2. dst'.kids[k] = [t |-> t, kids |-> [i \in DOMAIN cs |-> fetch(table[rs[k]][cs[i]])]]
      BY <2>1, <3>1
    <3> QED BY <2>1, <2>3, <3>1, <3>2
  <2>5. Cardinality(asked) = n
    BY <1>4 DEF asked
  <2> QED BY <2>2, <2>4, <2>5
<1> QED BY <1>8, <1>10, <1>11, <1>12 DEF FetchedExact

LEMMA CallFetchesMaps ==
  ASSUME table \in Results, fetchRowsMap
  PROVE  FetchedExact'
<1>1. PICK cs \in ColLists, range \in RowRanges :
        Returns("rowsMap", cs, range, fetchRowsMap_(DstType, DstKids, cs, range))
  BY DEF fetchRowsMap
<1> DEFINE res == fetchRowsMap_(DstType, DstKids, cs, range)
           asked == {r \in DOMAIN table : range[1] <= r /\ r < range[2]}
<1>2. /\ dst' = res.v /\ UNCHANGED <<table, integerDatetimes>>
      /\ call' = [op |-> "rowsMap", cs |-> cs, range |-> range, ok |-> res.ok]
  BY <1>1 DEF Returns, valueVars
<1>3. DOMAIN cs = 1 .. Len(cs) /\ Len(cs) \in Nat
  BY ColumnsNumbered
<1>4. PICK n \in Nat : /\ RangeRows(range) = [k \in 1 .. n |-> range[1] + k - 1]
                       /\ asked = {range[1] + k - 1 : k \in 1 .. n}
                       /\ Cardinality(asked) = n
  BY RowsOfRange
<1>5. PICK rs, t, kids : rs = RangeRows(range) /\ t = DstType /\ kids = DstKids
  OBVIOUS
<1>6. DOMAIN rs = 1 .. n /\ \A k \in 1 .. n : rs[k] = range[1] + k - 1
  BY <1>4, <1>5
<1>7. MapsRead(res, cs, n, rs)
  <2>1. res = fetchRowsMap_(t, kids, cs, range)
    BY <1>5
  <2> HIDE DEF res
  <2> QED BY <1>3, <1>5, <1>6, <2>1, MapsFetched
<1> HIDE DEF res
<1>8. /\ call'.op = "rowsMap" /\ call'.cs = cs /\ call'.range = range /\ call'.ok = res.ok
  BY <1>2
<1>9. asked = {rs[k] : k \in 1 .. n}
  BY <1>4, <1>6
<1>10. asked = {r \in DOMAIN table' : call'.range[1] <= r /\ r < call'.range[2]}
  BY <1>2, <1>8
<1> HIDE DEF asked
<1>11. res.ok <=> \A r \in asked, i \in DOMAIN call'.cs : Fetchable(table'[r][call'.cs[i]])
  BY <1>2, <1>7, <1>8, <1>9 DEF MapsRead
<1>12. ASSUME res.ok
       PROVE  /\ Len(dst'.kids) = Cardinality(asked)
              /\ \A k \in DOMAIN dst'.kids : MapAsked(call.range[1] + k - 1, dst.kids[k].entries)'
  <2>1. DOMAIN dst'.kids = 1 .. n /\ \A k \in 1 .. n : MapReads(cs, rs[k], dst'.kids[k].entries)
    BY <1>2, <1>7, <1>12 DEF MapsRead
  <2>2. Len(dst'.kids) = n
    BY <2>1
  <2>3. ASSUME NEW k \in 1 .. n
        PROVE  MapAsked(call.range[1] + k - 1, dst.kids[k].entries)'
    <3>1. MapReads(cs, rs[k], dst'.kids[k].entries)
      BY <2>1
    <3>2. rs[k] = call'.range[1] + k - 1
      BY <1>6, <1>8
    <3> QED BY <1>2, <1>8, <3>1, <3>2, FetchSame DEF MapReads, MapAsked
  <2>5. Cardinality(asked) = n
    BY <1>4 DEF asked
  <2> QED BY <2>1, <2>2, <2>3, <2>5
<1> QED BY <1>8, <1>10, <1>11, <1>12 DEF FetchedExact

LEMMA CallFetchesColumn ==
  ASSUME table \in Results, fetchColumn
  PROVE  FetchedExact'
<1>1. PICK c \in DOMAIN ColNames, range \in RowRanges :
        Returns("column", <<c>>, range, fetchColumn_(DstType, DstKids, c, range))
  BY DEF fetchColumn
<1> DEFINE res == fetchColumn_(DstType, DstKids, c, range)
           asked == {r \in DOMAIN table : range[1] <= r /\ r < range[2]}
<1>2. /\ dst' = res.v /\ UNCHANGED <<table, integerDatetimes>>
      /\ call' = [op |-> "column", cs |-> <<c>>, range |-> range, ok |-> res.ok]
  BY <1>1 DEF Returns, valueVars
<1>4. PICK n \in Nat : /\ RangeRows(range) = [k \in 1 .. n |-> range[1] + k - 1]
                       /\ asked = {range[1] + k - 1 : k \in 1 .. n}
                       /\ Cardinality(asked) = n
  BY RowsOfRange
<1>5. PICK rs, t, kids : rs = RangeRows(range) /\ t = DstType /\ kids = DstKids
  OBVIOUS
<1>6. DOMAIN rs = 1 .. n /\ \A k \in 1 .. n : rs[k] = range[1] + k - 1
  BY <1>4, <1>5
<1>7. ColumnRead(res, t, c, n, rs)
  <2>1. res = fetchColumn_(t, kids, c, range)
    BY <1>5
  <2> HIDE DEF res
  <2> QED BY <1>5, <1>6, <2>1, ColumnFetched
<1> HIDE DEF res
<1>8. /\ call'.op = "column" /\ call'.cs = <<c>> /\ call'.range = range /\ call'.ok = res.ok
  BY <1>2
<1>9. asked = {rs[k] : k \in 1 .. n}
  BY <1>4, <1>6
<1>10. asked = {r \in DOMAIN table' : call'.range[1] <= r /\ r < call'.range[2]}
  BY <1>2, <1>8
<1> HIDE DEF asked
<1>11. res.ok <=> \A r \in asked, i \in DOMAIN call'.cs : Fetchable(table'[r][call'.cs[i]])
  <2>1. DOMAIN call'.cs = {1} /\ call'.cs[1] = c
    BY <1>8
  <2> QED BY <1>2, <1>7, <1>9, <2>1 DEF ColumnRead
<1>12. ASSUME res.ok
       PROVE  /\ Len(dst'.kids) = Cardinality(asked)
              /\ \A k \in DOMAIN dst'.kids : dst'.kids[k] = (RowAsked(call.range[1] + k - 1)[1])'
  <2>1. dst'.kids = [k \in 1 .. n |-> fetch(table[rs[k]][c])]
    BY <1>2, <1>7, <1>12 DEF ColumnRead
  <2>2. Len(dst'.kids) = n /\ DOMAIN dst'.kids = 1 .. n
    BY <2>1
  <2>3. ASSUME NEW k \in 1 .. n
        PROVE  (RowAsked(call.range[1] + k - 1)[1])' = fetch(table[rs[k]][c])
    BY <1>2, <1>6, <1>8, FetchSame DEF RowAsked
  <2>5. Cardinality(asked) = n
    BY <1>4 DEF asked
  <2> QED BY <2>1, <2>2, <2>3, <2>5
<1> QED BY <1>8, <1>10, <1>11, <1>12 DEF FetchedExact

ResultInv == ValuesInv /\ table \in Results /\ FetchedExact

LEMMA ResultInvInit == ValuesInit /\ ResultInit => ResultInv
BY DEF ValuesInit, ValuesStart, ResultInit, ResultStart, NoCall, ResultInv, ValuesInv, FetchedExact

LEMMA ResultInvKept ==
  ResultInv /\ [(ValuesNext /\ UNCHANGED resultVars) \/ ResultNext]_<<valueVars, resultVars>> => ResultInv'
<1> SUFFICES ASSUME ResultInv, [(ValuesNext /\ UNCHANGED resultVars) \/ ResultNext]_<<valueVars, resultVars>>
    PROVE  ResultInv'
  OBVIOUS
<1>1. ASSUME UNCHANGED resultVars, [ValuesNext]_valueVars PROVE ResultInv'
  <2>1. ValuesInv'
    BY <1>1, ValuesKeep DEF ResultInv
  <2>2. UNCHANGED <<table, dst, call, integerDatetimes>>
    BY <1>1 DEF resultVars, valueVars, ValuesNext, Bind, ServerEcho, FetchRow
  <2>3. FetchedExact'
    BY <2>2, FetchSame DEF ResultInv, FetchedExact, RowAsked, MapAsked
  <2> QED BY <2>1, <2>2, <2>3 DEF ResultInv
<1>2. CASE ResultNext
  <2>1. UNCHANGED <<table, valueVars>>
    BY <1>2 DEF ResultNext, fetchRowList, fetchRowMap, fetchRowsList, fetchRowsMap, fetchColumn, Returns
  <2>2. ValuesInv'
    BY <2>1, ValuesKeep DEF ResultInv
  <2>3. FetchedExact'
    BY <1>2, CallFetchesRow, CallFetchesMap, CallFetchesRows, CallFetchesMaps, CallFetchesColumn
       DEF ResultNext, ResultInv
  <2> QED BY <2>1, <2>2, <2>3 DEF ResultInv
<1>3. CASE UNCHANGED <<valueVars, resultVars>>
  BY <1>1, <1>3
<1> QED BY <1>1, <1>2, <1>3

(* What goes to the server comes back unchanged and in its place, and a    *)
(* fetch of a row, of rows or of a column gives exactly what was asked for *)
(* or says that it could not (bindData.cpp, fetchData.cpp, result.cpp):    *)
(* for every table, every list of columns and names, every range, every    *)
(* tuple of parameters, both clocks of the server and any sizes of its     *)
(* integers and of its ticks that ParamsAssumption allows.                 *)
THEOREM ResultsStayExact == ResultSpec => []ResultsExact
<1>1. ResultInv => ResultsExact
  BY ValuesRead DEF ResultInv, ResultsExact
<1> QED BY <1>1, ResultInvInit, ResultInvKept, PTL DEF ResultSpec

-----------------------------------------------------------------------------
(* Variants as objects. *)

(* The blocks of the other objects. *)
Others(o) == {objects[p].block : p \in Objects \ {o}} \ {0}

(* In the midst of an operation on o: its memory is its own, and there is  *)
(* none when it is null or small.                                          *)
Made == [obj : [alive : BOOLEAN, v : Variants, block : 0 .. MaxBlocks], heap : SUBSET (1 .. MaxBlocks)]
Fine(o, s) ==
    /\ s \in Made
    /\ s.obj.block # 0 <=> ~s.obj.v.null /\ s.obj.v.t \in BigTypes
    /\ s.obj.block \notin Others(o)
    /\ s.heap = Others(o) \cup ({s.obj.block} \ {0})
    /\ ~s.obj.alive => s.obj.block = 0

(* What an operation makes of o. *)
Gives(o, s, v) == Fine(o, s) /\ s.obj.alive /\ s.obj.v = v

VariantInv ==
    /\ objects \in [Objects -> [alive : BOOLEAN, v : Variants, block : 0 .. MaxBlocks]]
    /\ \A o \in Objects : ~objects[o].alive => objects[o].block = 0
    /\ DOMAIN meant = Objects
    /\ astray \in BOOLEAN
    /\ VariantSound

LEMMA BlocksCount == MaxBlocks \in Nat /\ MaxBlocks = Cardinality(Objects) + 1
BY VariantAssumption, FS_CardinalityType DEF MaxBlocks

(* There are more names of blocks than objects. *)
LEMMA FreshIsFree ==
  ASSUME NEW bs, IsFiniteSet(bs), Cardinality(bs) <= Cardinality(Objects)
  PROVE  Fresh(bs) \in 1 .. MaxBlocks /\ Fresh(bs) \notin bs
<1>1. \E b \in 1 .. MaxBlocks : b \notin bs
  <2> SUFFICES ASSUME 1 .. MaxBlocks \subseteq bs PROVE FALSE
    OBVIOUS
  <2>1. Cardinality(1 .. MaxBlocks) <= Cardinality(bs)
    BY FS_Subset
  <2>2. Cardinality(1 .. MaxBlocks) = MaxBlocks
    BY BlocksCount, FS_Interval
  <2>3. Cardinality(Objects) \in Nat /\ Cardinality(bs) \in Nat
    BY VariantAssumption, FS_CardinalityType
  <2> QED BY <2>1, <2>2, <2>3, BlocksCount
<1> QED BY <1>1 DEF Fresh

LEMMA OthersFew ==
  ASSUME VariantInv, NEW o \in Objects, NEW b
  PROVE  /\ IsFiniteSet(Others(o) \cup {b})
         /\ Cardinality(Others(o) \cup {b}) <= Cardinality(Objects)
         /\ Others(o) \subseteq 1 .. MaxBlocks
<1> DEFINE f == [p \in Objects |-> IF p = o THEN b ELSE objects[p].block]
           S == {f[p] : p \in Objects}
<1>1. f \in Surjection(Objects, S)
  BY DEF Surjection
<1>2. IsFiniteSet(S) /\ Cardinality(S) <= Cardinality(Objects)
  BY <1>1, VariantAssumption, FS_Surjection
<1>3. Others(o) \cup {b} \subseteq S
  BY DEF Others
<1>4. IsFiniteSet(Others(o) \cup {b}) /\ Cardinality(Others(o) \cup {b}) <= Cardinality(S)
  BY <1>2, <1>3, FS_Subset
<1>5. Cardinality(S) \in Nat /\ Cardinality(Objects) \in Nat /\ Cardinality(Others(o) \cup {b}) \in Nat
  BY <1>2, <1>4, VariantAssumption, FS_CardinalityType
<1>6. Others(o) \subseteq 1 .. MaxBlocks
  <2> SUFFICES ASSUME NEW p \in Objects, objects[p].block # 0
      PROVE  objects[p].block \in 1 .. MaxBlocks
    BY DEF Others
  <2>1. objects[p].block \in 0 .. MaxBlocks
    BY DEF VariantInv
  <2> QED BY <2>1, BlocksCount
<1> QED BY <1>2, <1>4, <1>5, <1>6

LEMMA VariantsNamed ==
  ASSUME NEW v \in Variants
  PROVE  /\ v.null => v = Null(v.t)
         /\ v.t = "Void" => v.null
         /\ Null(v.t) \in Variants /\ Default(v.t) \in Variants
BY VariantAssumption

LEMMA NullIs == \A t : Null(t).t = t /\ Null(t).null
BY DEF Null

LEMMA DefaultIs == \A t : Default(t).t = t /\ (Default(t).null <=> t = "Void")
<1> SUFFICES ASSUME NEW t PROVE Default(t).t = t /\ (Default(t).null <=> t = "Void")
  OBVIOUS
<1>1. Initial(t).t = t /\ Initial(t).null = FALSE
  BY DEF Initial, One, Undefined, Value
<1> QED BY <1>1, NullIs DEF Default, Undefined, Value

LEMMA PlaceFine ==
  ASSUME VariantInv, NEW o \in Objects
  PROVE  Fine(o, Place(o)) /\ Place(o).obj = objects[o]
<1> DEFINE s == Place(o)
<1>1. s.obj = objects[o] /\ s.heap = blocks
  BY DEF Place
<1>2. objects[o] \in [alive : BOOLEAN, v : Variants, block : 0 .. MaxBlocks]
  BY DEF VariantInv
<1>3. blocks = {objects[p].block : p \in Objects} \ {0}
  BY DEF VariantInv, VariantSound, BlocksOwned
<1>4. blocks = Others(o) \cup ({objects[o].block} \ {0})
  BY <1>3 DEF Others
<1>5. blocks \subseteq 1 .. MaxBlocks
  <2>1. Others(o) \subseteq 1 .. MaxBlocks
    BY OthersFew
  <2>2. objects[o].block \in 0 .. MaxBlocks
    BY <1>2
  <2> QED BY <1>4, <2>1, <2>2, BlocksCount
<1>6. s \in Made
  BY <1>2, <1>5 DEF Place, Made
<1>7. objects[o].block \notin Others(o)
  BY DEF VariantInv, VariantSound, BlocksOwned, Others
<1>8. objects[o].block # 0 <=> ~objects[o].v.null /\ objects[o].v.t \in BigTypes
  BY DEF VariantInv, VariantSound, BlocksOwned
<1>9. ~objects[o].alive => objects[o].block = 0
  BY DEF VariantInv
<1> QED BY <1>1, <1>4, <1>6, <1>7, <1>8, <1>9 DEF Fine

LEMMA DestructFine ==
  ASSUME VariantInv, NEW o \in Objects, NEW s, Fine(o, s)
  PROVE  /\ Fine(o, destruct(s))
         /\ destruct(s).obj.v = Null(s.obj.v.t)
         /\ destruct(s).obj.block = 0
         /\ destruct(s).obj.alive = s.obj.alive
<1> DEFINE d == destruct(s)
<1>1. s \in Made
  BY DEF Fine
<1>2. Null(s.obj.v.t) \in Variants
  BY <1>1, VariantsNamed DEF Made
<1>3. d.obj = [alive |-> s.obj.alive, v |-> Null(s.obj.v.t), block |-> 0] /\ d.heap = s.heap \ {s.obj.block}
  BY <1>1 DEF destruct, Made
<1>4. d \in Made
  <2>1. s.heap \in SUBSET (1 .. MaxBlocks) /\ s.obj.alive \in BOOLEAN
    BY <1>1 DEF Made
  <2>2. d = [obj |-> [alive |-> s.obj.alive, v |-> Null(s.obj.v.t), block |-> 0], heap |-> s.heap \ {s.obj.block}]
    BY <1>3 DEF destruct
  <2> HIDE DEF d
  <2> QED BY <1>2, <2>1, <2>2, BlocksCount DEF Made
<1>5. d.heap = Others(o) /\ 0 \notin Others(o)
  BY <1>3 DEF Fine, Others
<1> QED BY <1>3, <1>4, <1>5, NullIs DEF Fine

LEMMA ConstructFine ==
  ASSUME VariantInv, NEW o \in Objects, NEW s, Fine(o, s), s.obj.block = 0, NEW v \in Variants
  PROVE  Gives(o, construct(s, v), v)
<1> DEFINE r == construct(s, v)
           b == Fresh(s.heap)
<1>1. s.heap = Others(o) /\ 0 \notin Others(o) /\ Others(o) \subseteq 1 .. MaxBlocks
  BY OthersFew DEF Fine, Others
<1>2. b \in 1 .. MaxBlocks /\ b \notin s.heap
  <2>1. IsFiniteSet(Others(o) \cup {0}) /\ Cardinality(Others(o) \cup {0}) <= Cardinality(Objects)
    BY OthersFew
  <2>2. IsFiniteSet(s.heap) /\ Cardinality(s.heap) <= Cardinality(Others(o) \cup {0})
    BY <1>1, <2>1, FS_Subset
  <2>3. Cardinality(s.heap) \in Nat /\ Cardinality(Others(o) \cup {0}) \in Nat /\ Cardinality(Objects) \in Nat
    BY <2>1, <2>2, VariantAssumption, FS_CardinalityType
  <2> QED BY <2>1, <2>2, <2>3, FreshIsFree
<1>3. CASE ~v.null /\ v.t \in BigTypes
  <2>1. r = [obj |-> [alive |-> TRUE, v |-> v, block |-> b], heap |-> s.heap \cup {b}]
    BY <1>3 DEF construct
  <2>2. b # 0 /\ b \in 0 .. MaxBlocks
    BY <1>2, BlocksCount
  <2> HIDE DEF b
  <2>3. r \in Made
    BY <1>1, <1>2, <2>1, <2>2 DEF Made
  <2> QED BY <1>1, <1>2, <1>3, <2>1, <2>2, <2>3 DEF Gives, Fine
<1>4. CASE ~(~v.null /\ v.t \in BigTypes)
  <2>1. r = [obj |-> [alive |-> TRUE, v |-> v, block |-> 0], heap |-> s.heap]
    BY <1>4 DEF construct
  <2>2. r \in Made
    BY <1>1, <2>1, BlocksCount DEF Made
  <2> QED BY <1>1, <1>4, <2>1, <2>2 DEF Gives, Fine
<1> QED BY <1>3, <1>4

(* A copy made apart, with its own block, in place of the old value. *)
LEMMA SwappedFine ==
  ASSUME VariantInv, NEW o \in Objects, NEW s, Fine(o, s), NEW v \in Variants,
         NEW r, r = construct([obj |-> Dead, heap |-> s.heap], v)
  PROVE  Gives(o, [obj |-> r.obj, heap |-> r.heap \ {s.obj.block}], v)
<1> DEFINE b == Fresh(s.heap)
           g == [obj |-> r.obj, heap |-> r.heap \ {s.obj.block}]
<1>1. /\ s.heap = Others(o) \cup ({s.obj.block} \ {0}) /\ s.obj.block \notin Others(o)
      /\ 0 \notin Others(o) /\ Others(o) \subseteq 1 .. MaxBlocks
  BY OthersFew DEF Fine, Others
<1>2. b \in 1 .. MaxBlocks /\ b \notin s.heap
  <2>1. /\ IsFiniteSet(Others(o) \cup {s.obj.block})
        /\ Cardinality(Others(o) \cup {s.obj.block}) <= Cardinality(Objects)
    BY OthersFew
  <2>2. s.heap \subseteq Others(o) \cup {s.obj.block}
    BY <1>1
  <2>3. IsFiniteSet(s.heap) /\ Cardinality(s.heap) <= Cardinality(Others(o) \cup {s.obj.block})
    BY <2>1, <2>2, FS_Subset
  <2>4. /\ Cardinality(s.heap) \in Nat /\ Cardinality(Others(o) \cup {s.obj.block}) \in Nat
        /\ Cardinality(Objects) \in Nat
    BY <2>1, <2>3, VariantAssumption, FS_CardinalityType
  <2> QED BY <2>1, <2>3, <2>4, FreshIsFree
<1>3. CASE ~v.null /\ v.t \in BigTypes
  <2>1. r.obj = [alive |-> TRUE, v |-> v, block |-> b] /\ r.heap = s.heap \cup {b}
    BY <1>3 DEF construct
  <2>2. b # 0 /\ b \in 0 .. MaxBlocks
    BY <1>2, BlocksCount
  <2> HIDE DEF b
  <2>3. g = [obj |-> [alive |-> TRUE, v |-> v, block |-> b], heap |-> (s.heap \cup {b}) \ {s.obj.block}]
    BY <2>1
  <2> HIDE DEF g
  <2>4. s.obj.block # b
    BY <1>1, <1>2, <2>2
  <2>5. g.heap = Others(o) \cup {b}
    BY <1>1, <2>3, <2>4
  <2>6. g \in Made
    BY <1>1, <1>2, <2>2, <2>3, <2>5 DEF Made
  <2>7. Gives(o, g, v)
    BY <1>1, <1>2, <1>3, <2>2, <2>3, <2>5, <2>6 DEF Gives, Fine
  <2> QED BY <2>7 DEF g
<1>4. CASE ~(~v.null /\ v.t \in BigTypes)
  <2>1. r.obj = [alive |-> TRUE, v |-> v, block |-> 0] /\ r.heap = s.heap
    BY <1>4 DEF construct
  <2>2. g = [obj |-> [alive |-> TRUE, v |-> v, block |-> 0], heap |-> Others(o)]
    <3>1. s.heap \ {s.obj.block} = Others(o)
      BY <1>1
    <3> QED BY <2>1, <3>1
  <2> HIDE DEF g
  <2>3. g \in Made
    BY <1>1, <2>2, BlocksCount DEF Made
  <2>4. Gives(o, g, v)
    BY <1>1, <1>4, <2>2, <2>3 DEF Gives, Fine
  <2> QED BY <2>4 DEF g
<1> QED BY <1>3, <1>4

(* What setNull(FALSE) makes of a value. *)
Filled(v) == IF v.null THEN Default(v.t) ELSE v

LEMMA SetNullFine ==
  ASSUME VariantInv, NEW o \in Objects, NEW s, Fine(o, s), s.obj.alive
  PROVE  /\ Gives(o, setNull(s, TRUE), Null(s.obj.v.t))
         /\ Gives(o, setNull(s, FALSE), Filled(s.obj.v))
<1>1. s.obj.v \in Variants
  BY DEF Fine, Made
<1>2. Gives(o, setNull(s, TRUE), Null(s.obj.v.t))
  BY <1>1, DestructFine, VariantsNamed DEF setNull, Gives
<1>3. CASE s.obj.v.null /\ s.obj.v.t # "Void"
  <2>1. s.obj.block = 0
    BY <1>3 DEF Fine
  <2>2. setNull(s, FALSE) = construct(s, Default(s.obj.v.t)) /\ Default(s.obj.v.t) \in Variants
    BY <1>1, <1>3, VariantsNamed DEF setNull
  <2>3. Gives(o, setNull(s, FALSE), Default(s.obj.v.t))
    BY <2>1, <2>2, ConstructFine
  <2> QED BY <1>2, <1>3, <2>3 DEF Filled
<1>4. CASE s.obj.v.null /\ s.obj.v.t = "Void"
  <2>1. s.obj.v = Default("Void")
    BY <1>1, <1>4, VariantsNamed DEF Default
  <2>2. setNull(s, FALSE) = s
    BY <1>4 DEF setNull
  <2> QED BY <1>2, <1>4, <2>1, <2>2 DEF Filled, Gives
<1>5. CASE ~s.obj.v.null
  <2>1. setNull(s, FALSE) = s
    BY <1>5 DEF setNull
  <2> QED BY <1>2, <1>5, <2>1 DEF Filled, Gives
<1> QED BY <1>3, <1>4, <1>5

LEMMA SetTypeFine ==
  ASSUME VariantInv, NEW o \in Objects, NEW s, Fine(o, s), s.obj.alive, NEW t, Null(t) \in Variants
  PROVE  Gives(o, setType(s, t), IF s.obj.v.t = t THEN s.obj.v ELSE Null(t))
<1>1. CASE s.obj.v.t = t
  BY <1>1 DEF setType, Gives
<1>2. CASE s.obj.v.t # t
  <2> DEFINE d == destruct(s)
             r == [d EXCEPT !.obj.v = Null(t)]
  <2>1. Fine(o, d) /\ d.obj.block = 0 /\ d.obj.alive
    BY DestructFine
  <2>2. d \in Made
    BY <2>1 DEF Fine
  <2>3. setType(s, t) = r
    BY <1>2 DEF setType
  <2> HIDE DEF d
  <2>4. r = [obj |-> [alive |-> d.obj.alive, v |-> Null(t), block |-> d.obj.block], heap |-> d.heap]
    BY <2>2 DEF Made
  <2> HIDE DEF r
  <2>5. r \in Made
    BY <2>2, <2>4 DEF Made
  <2>6. Gives(o, r, Null(t))
    BY <2>1, <2>4, <2>5, NullIs DEF Gives, Fine
  <2> QED BY <1>2, <2>3, <2>6
<1> QED BY <1>1, <1>2

LEMMA AssignFine ==
  ASSUME VariantInv, NEW o \in Objects, NEW s, Fine(o, s), s.obj.alive, NEW v \in Variants, ~v.null
  PROVE  Gives(o, assign(s, v), v)
<1>1. CASE s.obj.v.t = v.t
  <2> DEFINE d == setNull(s, FALSE)
             r == [d EXCEPT !.obj.v = v]
  <2>1. Fine(o, d) /\ d.obj.alive /\ d.obj.v = Filled(s.obj.v)
    BY SetNullFine DEF Gives
  <2>2. d \in Made
    BY <2>1 DEF Fine
  <2>3. assign(s, v) = r
    BY <1>1 DEF assign
  <2> HIDE DEF d
  <2>4. d.obj.v.t = v.t /\ ~d.obj.v.null
    <3>1. v.t # "Void"
      BY VariantsNamed
    <3> QED BY <1>1, <2>1, <3>1, DefaultIs DEF Filled
  <2>5. r = [obj |-> [alive |-> d.obj.alive, v |-> v, block |-> d.obj.block], heap |-> d.heap]
    BY <2>2 DEF Made
  <2> HIDE DEF r
  <2>6. r \in Made
    BY <2>2, <2>5 DEF Made
  <2>7. Gives(o, r, v)
    BY <2>1, <2>4, <2>5, <2>6 DEF Gives, Fine
  <2> QED BY <2>3, <2>7
<1>2. CASE s.obj.v.t # v.t
  <2>1. assign(s, v) = construct(destruct(s), v)
    BY <1>2 DEF assign
  <2> QED BY <2>1, DestructFine, ConstructFine
<1> QED BY <1>1, <1>2

LEMMA AssignVariantFine ==
  ASSUME VariantInv, NEW o \in Objects, NEW s, Fine(o, s), s.obj.alive, NEW v \in Variants
  PROVE  Gives(o, assignVariant(s, v), v)
<1>1. CASE v.t # s.obj.v.t
  <2> DEFINE r == construct([obj |-> Dead, heap |-> s.heap], v)
  <2>1. assignVariant(s, v) = [obj |-> r.obj, heap |-> r.heap \ {s.obj.block}]
    BY <1>1 DEF assignVariant
  <2> HIDE DEF r
  <2>2. r = construct([obj |-> Dead, heap |-> s.heap], v)
    BY DEF r
  <2> QED BY <2>1, <2>2, SwappedFine
<1>2. CASE v.t = s.obj.v.t /\ v.null
  <2>1. assignVariant(s, v) = setNull(s, TRUE)
    BY <1>2 DEF assignVariant
  <2>2. v = Null(s.obj.v.t)
    BY <1>2, VariantsNamed
  <2> QED BY <2>1, <2>2, SetNullFine
<1>3. CASE v.t = s.obj.v.t /\ ~v.null
  <2>1. assignVariant(s, v) = assign(s, v)
    BY <1>3, VariantsNamed DEF assignVariant
  <2> QED BY <1>3, <2>1, AssignFine
<1> QED BY <1>1, <1>2, <1>3

(* Whatever an operation on o makes of it, no other object is disturbed. *)
LEMMA OthersUndisturbed ==
  ASSUME VariantInv, NEW o \in Objects, NEW s, Fine(o, s), NEW v, Becomes(o, s, v),
         astray' \in BOOLEAN, astray => astray', ~astray' => s.obj.v = v
  PROVE  VariantInv'
<1>1. s \in Made /\ (~s.obj.alive => s.obj.block = 0)
  BY DEF Fine
<1>2. s.obj \in [alive : BOOLEAN, v : Variants, block : 0 .. MaxBlocks]
  BY <1>1 DEF Made
<1>3. /\ objects \in [Objects -> [alive : BOOLEAN, v : Variants, block : 0 .. MaxBlocks]]
      /\ DOMAIN meant = Objects
  BY DEF VariantInv
<1>4. objects' \in [Objects -> [alive : BOOLEAN, v : Variants, block : 0 .. MaxBlocks]]
  BY <1>2, <1>3 DEF Becomes
<1>5. /\ objects'[o] = s.obj
      /\ \A p \in Objects \ {o} : objects'[p] = objects[p]
  BY <1>3 DEF Becomes
<1>6. DOMAIN meant' = Objects /\ meant'[o] = v /\ \A p \in Objects \ {o} : meant'[p] = meant[p]
  BY <1>3 DEF Becomes
<1>7. \A p \in Objects : ~objects'[p].alive => objects'[p].block = 0
  BY <1>1, <1>5 DEF VariantInv
<1>8. HoldsWhatIsMeant'
  <2> SUFFICES ASSUME ~astray', NEW p \in Objects PROVE objects'[p].v = meant'[p]
    BY DEF HoldsWhatIsMeant
  <2>1. CASE p = o
    BY <1>1, <1>5, <1>6, <2>1
  <2>2. CASE p # o
    BY <1>5, <1>6, <2>2 DEF VariantInv, VariantSound, HoldsWhatIsMeant
  <2> QED BY <2>1, <2>2
<1>9. BlocksOwned'
  <2>1. \A p \in Objects : objects'[p].block # 0 <=> ~objects'[p].v.null /\ objects'[p].v.t \in BigTypes
    <3> SUFFICES ASSUME NEW p \in Objects
        PROVE  objects'[p].block # 0 <=> ~objects'[p].v.null /\ objects'[p].v.t \in BigTypes
      OBVIOUS
    <3>1. CASE p = o
      BY <1>5, <3>1 DEF Fine
    <3>2. CASE p # o
      BY <1>5, <3>2 DEF VariantInv, VariantSound, BlocksOwned
    <3> QED BY <3>1, <3>2
  <2>2. \A p \in Objects \ {o} : s.obj.block # 0 => objects[p].block # s.obj.block
    BY DEF Fine, Others
  <2>3. \A p, q \in Objects : objects'[p].block = objects'[q].block /\ objects'[p].block # 0 => p = q
    <3> SUFFICES ASSUME NEW p \in Objects, NEW q \in Objects,
                        objects'[p].block = objects'[q].block, objects'[p].block # 0
        PROVE  p = q
      OBVIOUS
    <3>1. CASE p # o /\ q # o
      BY <1>5, <3>1 DEF VariantInv, VariantSound, BlocksOwned
    <3>2. CASE p = o \/ q = o
      BY <1>5, <2>2, <3>2
    <3> QED BY <3>1, <3>2
  <2>4. blocks' = Others(o) \cup ({s.obj.block} \ {0})
    BY DEF Becomes, Fine
  <2>5. blocks' = {objects'[p].block : p \in Objects} \ {0}
    BY <1>5, <2>4 DEF Others
  <2> QED BY <2>1, <2>3, <2>5 DEF BlocksOwned
<1> QED BY <1>4, <1>6, <1>7, <1>8, <1>9 DEF VariantInv, VariantSound

LEMMA BecomesKeeps ==
  ASSUME VariantInv, NEW o \in Objects, NEW s, NEW w, Gives(o, s, w), NEW v, Becomes(o, s, v),
         astray' \in BOOLEAN, astray => astray', ~astray' => w = v
  PROVE  VariantInv'
BY OthersUndisturbed DEF Gives

(* What the program puts into an object is a value. *)
LEMMA ValuesAre ==
  ASSUME VariantInv
  PROVE  /\ \A v \in Contents : v \in Variants /\ ~v.null
         /\ \A t \in NewTypes \cup {"Void", "String"} : Null(t) \in Variants /\ Default(t) \in Variants
         /\ \A o \in Objects : objects[o].v \in Variants
         /\ \A o \in Objects : \A i \in DOMAIN objects[o].v.kids : objects[o].v.kids[i] \in Variants
         /\ \A v \in Variants : v.kids \in Seq(Variants)
<1>1. /\ \A v \in Contents : v \in Variants /\ ~v.null
      /\ \A t \in NewTypes \cup {"Void", "String"} : Null(t) \in Variants /\ Default(t) \in Variants
      /\ \A v \in Variants : v.kids \in Seq(Variants)
  BY VariantAssumption
<1>2. \A o \in Objects : objects[o].v \in Variants
  BY DEF VariantInv
<1>3. \A o \in Objects : \A i \in DOMAIN objects[o].v.kids : objects[o].v.kids[i] \in Variants
  <2> TAKE o \in Objects
  <2>1. objects[o].v.kids \in Seq(Variants)
    BY <1>1, <1>2
  <2> QED BY <2>1
<1> QED BY <1>1, <1>2, <1>3

LEMMA CreateKeeps == ASSUME VariantInv, NEW o \in Objects, Create(o) PROVE VariantInv'
<1>1. PICK v \in Contents \cup {Null("Void"), Null("String")} \cup {objects[p].v : p \in Objects} :
        Becomes(o, construct(Place(o), v), v)
  BY DEF Create
<1>2. v \in Variants
  BY ValuesAre
<1>3. objects[o].block = 0
  BY DEF Create, VariantInv
<1>4. PICK s : s = Place(o)
  OBVIOUS
<1>5. PICK r : r = construct(s, v)
  OBVIOUS
<1>6. Gives(o, r, v)
  BY <1>2, <1>3, <1>4, <1>5, PlaceFine, ConstructFine
<1>7. Becomes(o, r, v) /\ UNCHANGED astray
  BY <1>1, <1>4, <1>5 DEF Create
<1> QED BY <1>6, <1>7, BecomesKeeps DEF VariantInv

LEMMA DestroyKeeps == ASSUME VariantInv, NEW o \in Objects, Destroy(o) PROVE VariantInv'
<1> DEFINE e == destruct(Place(o))
<1>1. Fine(o, e) /\ e.obj.block = 0
  BY PlaceFine, DestructFine
<1>2. e \in Made
  BY <1>1 DEF Fine
<1>3. Becomes(o, [e EXCEPT !.obj = Dead], Null("Void")) /\ UNCHANGED astray
  BY DEF Destroy
<1> HIDE DEF e
<1>4. PICK r : r = [obj |-> Dead, heap |-> e.heap]
  OBVIOUS
<1>5. Becomes(o, r, Null("Void"))
  BY <1>2, <1>3, <1>4 DEF Made
<1>6. e.heap = Others(o) /\ 0 \notin Others(o)
  BY <1>1 DEF Fine, Others
<1>7. Null("Void") \in Variants
  BY ValuesAre
<1>8. r \in Made
  BY <1>2, <1>4, <1>7, BlocksCount DEF Made, Dead
<1>9. Fine(o, r) /\ r.obj.v = Null("Void")
  BY <1>4, <1>6, <1>8, NullIs DEF Fine, Dead
<1>10. PICK v : v = Null("Void")
  OBVIOUS
<1> QED BY <1>3, <1>5, <1>9, <1>10, OthersUndisturbed DEF VariantInv

LEMMA AssignValueKeeps == ASSUME VariantInv, NEW o \in Objects, AssignValue(o) PROVE VariantInv'
<1>1. PICK v \in Variants : ~v.null /\ Becomes(o, assign(Place(o), v), v)
  <2>1. CASE \E v \in Contents : Becomes(o, assign(Place(o), v), v) /\ UNCHANGED astray
    BY <2>1, ValuesAre
  <2>2. CASE \E i \in DOMAIN objects[o].v.kids :
               LET v == objects[o].v.kids[i] IN
               /\ ~v.null /\ v.t # "Key"
               /\ Becomes(o, assign(Place(o), v), v)
               /\ astray' = TRUE
    BY <2>2, ValuesAre
  <2> QED BY <2>1, <2>2 DEF AssignValue
<1>2. astray' \in BOOLEAN /\ (astray => astray')
  <2>1. astray' = astray \/ astray' = TRUE
    BY DEF AssignValue
  <2> QED BY <2>1 DEF VariantInv
<1>3. PICK s : s = Place(o)
  OBVIOUS
<1>4. PICK r : r = assign(s, v)
  OBVIOUS
<1>5. objects[o].alive
  BY DEF AssignValue
<1>6. Gives(o, r, v)
  BY <1>1, <1>3, <1>4, <1>5, PlaceFine, AssignFine
<1>7. Becomes(o, r, v)
  BY <1>1, <1>3, <1>4
<1> QED BY <1>2, <1>6, <1>7, BecomesKeeps

LEMMA AssignVariantKeeps == ASSUME VariantInv, NEW o \in Objects, AssignVariant(o) PROVE VariantInv'
<1>1. PICK v \in Variants : Becomes(o, assignVariant(Place(o), v), v)
  <2>1. CASE \E p \in Objects : Becomes(o, assignVariant(Place(o), objects[p].v), objects[p].v)
    BY <2>1, ValuesAre
  <2>2. CASE \E i \in DOMAIN objects[o].v.kids :
               Becomes(o, assignVariant(Place(o), objects[o].v.kids[i]), objects[o].v.kids[i])
    BY <2>2, ValuesAre
  <2> QED BY <2>1, <2>2 DEF AssignVariant
<1>2. astray' \in BOOLEAN /\ (astray => astray')
  BY DEF AssignVariant, VariantInv
<1>3. PICK s : s = Place(o)
  OBVIOUS
<1>4. PICK r : r = assignVariant(s, v)
  OBVIOUS
<1>5. objects[o].alive
  BY DEF AssignVariant
<1>6. Gives(o, r, v)
  BY <1>3, <1>4, <1>5, PlaceFine, AssignVariantFine
<1>7. Becomes(o, r, v)
  BY <1>1, <1>3, <1>4
<1> QED BY <1>2, <1>6, <1>7, BecomesKeeps

LEMMA AssignCharsKeeps == ASSUME VariantInv, NEW o \in Objects, AssignChars(o) PROVE VariantInv'
<1>1. astray' = astray /\ objects[o].alive
  BY DEF AssignChars
<1>2. PICK s : s = Place(o)
  OBVIOUS
<1>3. CASE \E v \in Contents : Becomes(o, assign(Place(o), v), v)
  <2>1. PICK v \in Contents : Becomes(o, assign(Place(o), v), v)
    BY <1>3
  <2>2. PICK r : r = assign(s, v)
    OBVIOUS
  <2>3. Gives(o, r, v)
    BY <1>1, <1>2, <2>2, ValuesAre, PlaceFine, AssignFine
  <2> QED BY <1>1, <1>2, <2>1, <2>2, <2>3, BecomesKeeps DEF VariantInv
<1>4. CASE Becomes(o, construct(destruct(Place(o)), Null("String")), Null("String"))
  <2>1. PICK d : d = destruct(s)
    OBVIOUS
  <2>2. PICK v : v = Null("String")
    OBVIOUS
  <2>3. PICK r : r = construct(d, v)
    OBVIOUS
  <2>4. Fine(o, d) /\ d.obj.block = 0
    BY <1>2, <2>1, PlaceFine, DestructFine
  <2>5. Gives(o, r, v)
    BY <2>2, <2>3, <2>4, ValuesAre, ConstructFine
  <2> QED BY <1>1, <1>2, <1>4, <2>1, <2>2, <2>3, <2>5, BecomesKeeps DEF VariantInv
<1> QED BY <1>3, <1>4 DEF AssignChars

LEMMA SetNullKeeps == ASSUME VariantInv, NEW o \in Objects, SetNull(o) PROVE VariantInv'
<1>1. astray' = astray /\ objects[o].alive /\ astray \in BOOLEAN
  BY DEF SetNull, VariantInv
<1>2. ~astray => meant[o] = objects[o].v
  BY DEF VariantInv, VariantSound, HoldsWhatIsMeant
<1>3. PICK s : s = Place(o)
  OBVIOUS
<1>4. Fine(o, s) /\ s.obj = objects[o]
  BY <1>3, PlaceFine
<1>5. Gives(o, setNull(s, TRUE), Null(s.obj.v.t)) /\ Gives(o, setNull(s, FALSE), Filled(s.obj.v))
  BY <1>1, <1>4, SetNullFine
<1>6. PICK n \in BOOLEAN :
        Becomes(o, setNull(s, n),
                IF n THEN Null(meant[o].t) ELSE IF meant[o].null THEN Default(meant[o].t) ELSE meant[o])
  BY <1>3 DEF SetNull
<1>7. PICK r : r = setNull(s, n)
  OBVIOUS
<1>8. PICK v : v = IF n THEN Null(meant[o].t) ELSE IF meant[o].null THEN Default(meant[o].t) ELSE meant[o]
  OBVIOUS
<1>9. PICK w : w = IF n THEN Null(s.obj.v.t) ELSE Filled(s.obj.v)
  OBVIOUS
<1>10. Gives(o, r, w)
  BY <1>5, <1>7, <1>9
<1>11. ~astray => w = v
  BY <1>2, <1>4, <1>8, <1>9 DEF Filled
<1>12. Becomes(o, r, v)
  BY <1>6, <1>7, <1>8
<1> QED BY <1>1, <1>10, <1>11, <1>12, BecomesKeeps

LEMMA SetTypeKeeps == ASSUME VariantInv, NEW o \in Objects, SetType(o) PROVE VariantInv'
<1>1. astray' = astray /\ objects[o].alive /\ astray \in BOOLEAN
  BY DEF SetType, VariantInv
<1>2. ~astray => meant[o] = objects[o].v
  BY DEF VariantInv, VariantSound, HoldsWhatIsMeant
<1> DEFINE kept(t) == IF meant[o].t = t THEN meant[o] ELSE Null(t)
<1>3. PICK t \in NewTypes :
        \/ Becomes(o, setType(Place(o), t), kept(t))
        \/ Becomes(o, setNull(setType(Place(o), t), TRUE), Null(t))
        \/ Becomes(o, setNull(setType(Place(o), t), FALSE), IF kept(t).null THEN Default(t) ELSE kept(t))
  BY DEF SetType
<1>4. PICK s : s = Place(o)
  OBVIOUS
<1>5. Fine(o, s) /\ s.obj = objects[o]
  BY <1>4, PlaceFine
<1>6. PICK r : r = setType(s, t)
  OBVIOUS
<1>7. PICK w : w = IF s.obj.v.t = t THEN s.obj.v ELSE Null(t)
  OBVIOUS
<1>8. Null(t) \in Variants
  BY ValuesAre
<1>9. Gives(o, r, w)
  BY <1>1, <1>5, <1>6, <1>7, <1>8, SetTypeFine
<1>10. w.t = t
  BY <1>7, NullIs
<1>11. PICK k : k = kept(t)
  OBVIOUS
<1>12. ~astray => w = k
  BY <1>2, <1>5, <1>7, <1>11
<1>13. Gives(o, setNull(r, TRUE), Null(t)) /\ Gives(o, setNull(r, FALSE), Filled(w))
  BY <1>9, <1>10, SetNullFine DEF Gives
<1> HIDE DEF kept
<1>14. CASE Becomes(o, setType(Place(o), t), kept(t))
  <2>1. Becomes(o, r, k)
    BY <1>4, <1>6, <1>11, <1>14
  <2> QED BY <1>1, <1>9, <1>12, <2>1, BecomesKeeps
<1>15. CASE Becomes(o, setNull(setType(Place(o), t), TRUE), Null(t))
  <2>1. PICK q : q = setNull(r, TRUE)
    OBVIOUS
  <2>2. PICK z : z = Null(t)
    OBVIOUS
  <2>3. Becomes(o, q, z) /\ Gives(o, q, z)
    BY <1>4, <1>6, <1>13, <1>15, <2>1, <2>2
  <2> QED BY <1>1, <2>3, BecomesKeeps
<1>16. CASE Becomes(o, setNull(setType(Place(o), t), FALSE), IF kept(t).null THEN Default(t) ELSE kept(t))
  <2>1. PICK q : q = setNull(r, FALSE)
    OBVIOUS
  <2>2. PICK z : z = IF k.null THEN Default(t) ELSE k
    OBVIOUS
  <2>3. PICK y : y = Filled(w)
    OBVIOUS
  <2>4. Becomes(o, q, z) /\ Gives(o, q, y)
    BY <1>4, <1>6, <1>11, <1>13, <1>16, <2>1, <2>2, <2>3
  <2>5. ~astray => y = z
    BY <1>10, <1>12, <2>2, <2>3 DEF Filled
  <2> QED BY <1>1, <2>4, <2>5, BecomesKeeps
<1> QED BY <1>3, <1>14, <1>15, <1>16

LEMMA ConvertKeeps == ASSUME VariantInv, NEW o \in Objects, Convert(o) PROVE VariantInv'
<1>1. PICK t \in NewTypes \ {"Void", objects[o].v.t} :
        \E v \in Converted(t, objects[o].v) : Becomes(o, assign(Place(o), v), v)
  BY DEF Convert
<1>2. PICK v \in Converted(t, objects[o].v) : Becomes(o, assign(Place(o), v), v)
  BY <1>1
<1>3. v \in Variants /\ ~v.null
  BY ValuesAre, VariantAssumption
<1>4. objects[o].alive /\ astray' = astray
  BY DEF Convert
<1>5. PICK s : s = Place(o)
  OBVIOUS
<1>6. PICK r : r = assign(s, v)
  OBVIOUS
<1>7. Gives(o, r, v)
  BY <1>3, <1>4, <1>5, <1>6, PlaceFine, AssignFine
<1>8. Becomes(o, r, v)
  BY <1>2, <1>5, <1>6
<1> QED BY <1>4, <1>7, <1>8, BecomesKeeps DEF VariantInv

(* An empty text is a new String. *)
LEMMA EmptyText == Value("String", <<>>, <<>>, 0) = Default("String")
<1>1. "String" \notin Bitsets
  BY DEF Bitsets, Bits
<1>2. "String" \notin Numeric \cup {"DateDuration", "TimeDuration"}
  BY DEF Numeric, SignedInts, UnsignedInts, Reals
<1> QED BY <1>1, <1>2 DEF Default, Initial, Undefined

LEMMA ConvertToVoidKeeps == ASSUME VariantInv, NEW o \in Objects, ConvertToVoid(o) PROVE VariantInv'
<1>1. PICK s : s = Place(o)
  OBVIOUS
<1>2. PICK d : d = setType(s, "Void")
  OBVIOUS
<1>3. PICK v : v = Value("String", <<>>, <<>>, 0)
  OBVIOUS
<1>4. PICK r : r = assign(d, v)
  OBVIOUS
<1>5. Becomes(o, r, v) /\ objects[o].alive /\ astray' = astray
  BY <1>1, <1>2, <1>3, <1>4 DEF ConvertToVoid
<1>6. Fine(o, d) /\ d.obj.alive
  BY <1>1, <1>2, <1>5, PlaceFine, ValuesAre, SetTypeFine DEF Gives
<1>7. v \in Variants /\ ~v.null
  BY <1>3, EmptyText, ValuesAre, DefaultIs
<1>8. Gives(o, r, v)
  BY <1>4, <1>6, <1>7, AssignFine
<1> QED BY <1>5, <1>8, BecomesKeeps DEF VariantInv

LEMMA AtIsValue ==
  ASSUME VariantInv, NEW v \in Variants, NEW k \in Nat
  PROVE  At(v, k) \in Variants
<1>1. v.kids \in Seq(Variants) /\ Null("Void") \in Variants
  BY ValuesAre
<1>2. Len(v.kids) \in Nat /\ DOMAIN v.kids = 1 .. Len(v.kids) /\ \A i \in 1 .. Len(v.kids) : v.kids[i] \in Variants
  BY <1>1
<1>3. CASE v.null \/ (v.t \in Indexable /\ ~k < Len(v.kids)) \/ (v.t \notin Indexable /\ ~k < Len(v.kids) \div 2)
  BY <1>1, <1>3 DEF At
<1>4. CASE ~v.null /\ v.t \in Indexable /\ k < Len(v.kids)
  <2>1. k + 1 \in 1 .. Len(v.kids)
    BY <1>2, <1>4
  <2> QED BY <1>2, <1>4, <2>1 DEF At
<1>5. CASE ~v.null /\ v.t \notin Indexable /\ k < Len(v.kids) \div 2
  <2>1. PICK n \in Nat : n = Len(v.kids)
    BY <1>2
  <2>2. PICK h \in Int : h = n \div 2 /\ 2 * h <= n
    OBVIOUS
  <2>3. k < h
    BY <1>5, <2>1, <2>2
  <2>4. 2 * k + 2 \in 1 .. n
    BY <2>2, <2>3
  <2> QED BY <1>2, <1>5, <2>1, <2>4 DEF At
<1> QED BY <1>3, <1>4, <1>5

LEMMA DereferenceKeeps ==
  ASSUME VariantInv, NEW o \in Objects, NEW p \in Objects, Dereference(o, p)
  PROVE  VariantInv'
<1>1. PICK k \in 0 .. 1 :
        Becomes(p, assignVariant(Place(p), At(objects[o].v, k)), At(objects[o].v, k))
  BY DEF Dereference
<1>2. PICK v : v = At(objects[o].v, k)
  OBVIOUS
<1>3. v \in Variants
  BY <1>2, ValuesAre, AtIsValue
<1>4. PICK s : s = Place(p)
  OBVIOUS
<1>5. PICK r : r = assignVariant(s, v)
  OBVIOUS
<1>6. objects[p].alive /\ astray' = astray
  BY DEF Dereference
<1>7. Gives(p, r, v)
  BY <1>3, <1>4, <1>5, <1>6, PlaceFine, AssignVariantFine
<1>8. Becomes(p, r, v)
  BY <1>1, <1>2, <1>4, <1>5
<1> QED BY <1>6, <1>7, <1>8, BecomesKeeps DEF VariantInv

(* The bytes change places, and the blocks with them. *)
LEMMA SwapKeeps ==
  ASSUME VariantInv, NEW o \in Objects, NEW p \in Objects, Swap(o, p)
  PROVE  VariantInv'
<1> DEFINE other(q) == IF q = o THEN p ELSE IF q = p THEN o ELSE q
<1>1. /\ objects \in [Objects -> [alive : BOOLEAN, v : Variants, block : 0 .. MaxBlocks]]
      /\ DOMAIN meant = Objects /\ astray' = astray /\ blocks' = blocks
  BY DEF VariantInv, Swap
<1>2. \A q \in Objects : other(q) \in Objects /\ other(other(q)) = q
  OBVIOUS
<1>3. \A q \in Objects : objects'[q] = objects[other(q)] /\ meant'[q] = meant[other(q)]
  BY <1>1 DEF Swap
<1>4. objects' \in [Objects -> [alive : BOOLEAN, v : Variants, block : 0 .. MaxBlocks]] /\ DOMAIN meant' = Objects
  BY <1>1 DEF Swap
<1> HIDE DEF other
<1>5. \A q \in Objects : ~objects'[q].alive => objects'[q].block = 0
  BY <1>2, <1>3 DEF VariantInv
<1>6. HoldsWhatIsMeant'
  BY <1>1, <1>2, <1>3 DEF VariantInv, VariantSound, HoldsWhatIsMeant
<1>7. BlocksOwned'
  <2>1. \A q \in Objects : objects'[q].block # 0 <=> ~objects'[q].v.null /\ objects'[q].v.t \in BigTypes
    BY <1>2, <1>3 DEF VariantInv, VariantSound, BlocksOwned
  <2>2. \A q, r \in Objects : objects'[q].block = objects'[r].block /\ objects'[q].block # 0 => q = r
    <3> SUFFICES ASSUME NEW q \in Objects, NEW r \in Objects,
                        objects'[q].block = objects'[r].block, objects'[q].block # 0
        PROVE  q = r
      OBVIOUS
    <3>1. other(q) = other(r)
      BY <1>2, <1>3 DEF VariantInv, VariantSound, BlocksOwned
    <3> QED BY <1>2, <3>1
  <2>3. {objects'[q].block : q \in Objects} = {objects[q].block : q \in Objects}
    BY <1>2, <1>3
  <2> QED BY <1>1, <2>1, <2>2, <2>3 DEF VariantInv, VariantSound, BlocksOwned
<1> QED BY <1>1, <1>4, <1>5, <1>6, <1>7 DEF VariantInv, VariantSound

LEMMA VariantInvInit == VariantInit => VariantInv
<1> SUFFICES ASSUME VariantInit PROVE VariantInv
  OBVIOUS
<1>1. \A o \in Objects : objects[o] = Dead
  BY DEF VariantInit
<1>2. Dead \in [alive : BOOLEAN, v : Variants, block : 0 .. MaxBlocks]
  BY VariantAssumption, BlocksCount DEF Dead
<1>3. BlocksOwned
  BY <1>1, NullIs DEF VariantInit, BlocksOwned, Dead
<1>4. HoldsWhatIsMeant
  BY <1>1 DEF VariantInit, HoldsWhatIsMeant, Dead
<1>5. \A o \in Objects : ~objects[o].alive => objects[o].block = 0
  BY <1>1 DEF Dead
<1> QED BY <1>2, <1>3, <1>4, <1>5 DEF VariantInit, VariantInv, VariantSound

LEMMA VariantInvKept == VariantInv /\ [VariantNext]_variantVars => VariantInv'
<1> SUFFICES ASSUME VariantInv, [VariantNext]_variantVars PROVE VariantInv'
  OBVIOUS
<1>1. CASE VariantNext
  <2> PICK o \in Objects :
        \/ Create(o) \/ Destroy(o) \/ AssignValue(o) \/ AssignVariant(o) \/ AssignChars(o)
        \/ SetNull(o) \/ SetType(o) \/ Convert(o) \/ ConvertToVoid(o)
        \/ \E p \in Objects : Swap(o, p) \/ Dereference(o, p)
    BY <1>1 DEF VariantNext
  <2>1. CASE Create(o) \/ Destroy(o)
    BY <2>1, CreateKeeps, DestroyKeeps
  <2>2. CASE AssignValue(o) \/ AssignVariant(o) \/ AssignChars(o)
    BY <2>2, AssignValueKeeps, AssignVariantKeeps, AssignCharsKeeps
  <2>3. CASE SetNull(o) \/ SetType(o)
    BY <2>3, SetNullKeeps, SetTypeKeeps
  <2>4. CASE Convert(o) \/ ConvertToVoid(o)
    BY <2>4, ConvertKeeps, ConvertToVoidKeeps
  <2>5. CASE \E p \in Objects : Swap(o, p) \/ Dereference(o, p)
    BY <2>5, SwapKeeps, DereferenceKeeps
  <2> QED BY <2>1, <2>2, <2>3, <2>4, <2>5
<1>2. CASE UNCHANGED variantVars
  <2> USE <1>2 DEF variantVars
  <2>1. BlocksOwned' /\ HoldsWhatIsMeant'
    BY DEF VariantInv, VariantSound, BlocksOwned, HoldsWhatIsMeant
  <2> QED BY <2>1 DEF VariantInv, VariantSound
<1> QED BY <1>1, <1>2

(* However Variants are built, assigned to each other or from within       *)
(* themselves, swapped, converted and destroyed (variantImpl.hpp), each    *)
(* too large value has one block and each block one owner, and an object   *)
(* holds what it was last given: for every number of objects, every choice *)
(* of the types that are too large and whatever the conversions make.      *)
THEOREM VariantsStaySound == VariantSpec => []VariantSound
<1>1. VariantInv => VariantSound
  BY DEF VariantInv
<1> QED BY <1>1, VariantInvInit, VariantInvKept, PTL DEF VariantSpec
=============================================================================
