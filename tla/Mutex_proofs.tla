---------------------------- MODULE Mutex_proofs ----------------------------
(***************************************************************************)
(* async::Mutex excludes, for any number of fibers.  MutualExclusion is    *)
(* not inductive: it says nothing of who has been woken.  LockHandedOver   *)
(* is what the steps keep: the lock is with the first of _owners, who runs *)
(* or has been woken exactly once.                                         *)
(***************************************************************************)
EXTENDS Mutex, TLAPS

(* The inductive invariant; the run on Mutex.cfg checks both parts. *)
IInv == TypeOK /\ LockHandedOver

LEMMA InitIInv == Init => IInv
BY DEF Init, IInv, TypeOK, LockHandedOver, QueuedOnce, LockWithFirst, NoStrayWake, PC

(* Appending to the queue keeps what was there. *)
LEMMA AppendFacts ==
    ASSUME NEW S, NEW s \in Seq(S), NEW x \in S
    PROVE  /\ Append(s, x) \in Seq(S)
           /\ Len(Append(s, x)) = Len(s) + 1
           /\ \A i \in 1 .. Len(s) : Append(s, x)[i] = s[i]
           /\ Append(s, x)[Len(s) + 1] = x
OBVIOUS

(* Erasing the first element moves the others down by one. *)
LEMMA TailFacts ==
    ASSUME NEW S, NEW s \in Seq(S), s # <<>>
    PROVE  /\ Tail(s) \in Seq(S)
           /\ Len(Tail(s)) = Len(s) - 1
           /\ \A i \in 1 .. Len(s) - 1 : Tail(s)[i] = s[i + 1]
           /\ Tail(s) # <<>> => Head(Tail(s)) = s[2] /\ Len(s) >= 2
OBVIOUS

(* A fiber that joins an empty queue, by Mutex::lock or Mutex::tryLock,    *)
(* or the end of a queue in Mutex::lock.                                   *)
LEMMA JoinKeeps ==
    ASSUME IInv, NEW f \in Fibers, pc[f] = "out",
           owners' = Append(owners, f), wakes' = wakes,
           pc' = [pc EXCEPT ![f] = IF Len(owners') = 1 THEN "in" ELSE "queued"]
    PROVE  IInv'
<1> USE DEF IInv
<1>1. /\ owners' \in Seq(Fibers) /\ Len(owners') = Len(owners) + 1
      /\ \A i \in 1 .. Len(owners) : owners'[i] = owners[i]
      /\ owners'[Len(owners) + 1] = f
      /\ Len(owners) \in Nat
  BY AppendFacts DEF TypeOK
<1>2. TypeOK'
  BY <1>1 DEF TypeOK, PC
<1>3. \A i \in 1 .. Len(owners) : owners[i] # f
  BY DEF LockHandedOver, QueuedOnce
<1>4. QueuedOnce'
  <2>1. \A i, j \in 1 .. Len(owners') : owners'[i] = owners'[j] => i = j
    BY <1>1, <1>3 DEF LockHandedOver, QueuedOnce
  <2>2. \A g \in Fibers : pc'[g] # "out" <=> \E i \in 1 .. Len(owners') : owners'[i] = g
    <3> TAKE g \in Fibers
    <3>1. CASE g = f
      <4>1. pc'[g] # "out" BY <3>1 DEF TypeOK
      <4>2. owners'[Len(owners')] = g /\ Len(owners') \in 1 .. Len(owners') BY <3>1, <1>1
      <4> QED BY <4>1, <4>2
    <3>2. CASE g # f
      <4>1. pc'[g] = pc[g] BY <3>2 DEF TypeOK
      <4>2. pc[g] # "out" <=> \E i \in 1 .. Len(owners) : owners[i] = g
        BY DEF LockHandedOver, QueuedOnce
      <4>3. (\E i \in 1 .. Len(owners) : owners[i] = g)
                <=> \E i \in 1 .. Len(owners') : owners'[i] = g
        BY <3>2, <1>1
      <4> QED BY <4>1, <4>2, <4>3
    <3> QED BY <3>1, <3>2
  <2> QED BY <2>1, <2>2 DEF QueuedOnce
<1>5. LockWithFirst'
  <2> SUFFICES ASSUME NEW i \in 1 .. Len(owners')
               PROVE  IF i = 1 THEN wakes'[owners'[i]] = (IF pc'[owners'[i]] = "in" THEN 0 ELSE 1)
                               ELSE wakes'[owners'[i]] = 0 /\ pc'[owners'[i]] # "in"
    BY DEF LockWithFirst
  <2>1. CASE i = Len(owners) + 1
    BY <2>1, <1>1 DEF LockHandedOver, NoStrayWake, TypeOK
  <2>2. CASE i \in 1 .. Len(owners)
    <3>1. owners'[i] = owners[i] /\ owners[i] \in Fibers /\ owners[i] # f
      BY <2>2, <1>1, <1>3 DEF TypeOK
    <3>2. pc'[owners'[i]] = pc[owners[i]] BY <3>1 DEF TypeOK
    <3> QED BY <2>2, <3>1, <3>2 DEF LockHandedOver, LockWithFirst
  <2> QED BY <2>1, <2>2, <1>1
<1>6. NoStrayWake'
  BY DEF LockHandedOver, NoStrayWake, TypeOK
<1> QED BY <1>2, <1>4, <1>5, <1>6 DEF LockHandedOver

(* A queued fiber that yields, or is resumed by its one wake-up, keeps its *)
(* place.                                                                  *)
LEMMA FiberYieldKeeps == ASSUME IInv, NEW f \in Fibers, FiberYield(f) PROVE IInv'
<1> USE DEF IInv, FiberYield
<1>1. TypeOK' BY DEF TypeOK, PC
<1>2. \A g \in Fibers : /\ pc'[g] = "in" <=> pc[g] = "in"
                        /\ pc'[g] = "out" <=> pc[g] = "out"
  BY DEF TypeOK
<1>3. \A i \in 1 .. Len(owners) : owners[i] \in Fibers BY DEF TypeOK
<1>4. QueuedOnce' BY <1>2 DEF LockHandedOver, QueuedOnce
<1>5. LockWithFirst' BY <1>2, <1>3 DEF LockHandedOver, LockWithFirst
<1>6. NoStrayWake' BY <1>2 DEF LockHandedOver, NoStrayWake
<1> QED BY <1>1, <1>4, <1>5, <1>6 DEF LockHandedOver

LEMMA ResumeKeeps == ASSUME IInv, NEW f \in Fibers, Resume(f) PROVE IInv'
<1> USE DEF IInv, Resume, Woken
<1>1. TypeOK' BY DEF TypeOK, PC
<1>2. /\ \A g \in Fibers : g # f => pc'[g] = pc[g] /\ wakes'[g] = wakes[g]
      /\ pc'[f] = "in" /\ pc[f] = "asleep" /\ wakes'[f] = wakes[f] - 1 /\ wakes[f] > 0
  BY DEF TypeOK
<1>3. \A i \in 1 .. Len(owners) : owners[i] \in Fibers BY DEF TypeOK
<1>4. QueuedOnce' BY <1>2 DEF LockHandedOver, QueuedOnce
<1>5. PICK k \in 1 .. Len(owners) : owners[k] = f
  BY <1>2 DEF LockHandedOver, QueuedOnce
<1>6. k = 1 /\ wakes[f] = 1
  BY <1>2, <1>5 DEF LockHandedOver, LockWithFirst
<1>7. LockWithFirst'
  <2> SUFFICES ASSUME NEW i \in 1 .. Len(owners)
               PROVE  IF i = 1 THEN wakes'[owners[i]] = (IF pc'[owners[i]] = "in" THEN 0 ELSE 1)
                               ELSE wakes'[owners[i]] = 0 /\ pc'[owners[i]] # "in"
    BY DEF LockWithFirst
  <2>1. CASE i = 1 BY <2>1, <1>2, <1>5, <1>6
  <2>2. CASE i # 1
    <3>1. owners[i] # f BY <2>2, <1>5, <1>6 DEF LockHandedOver, QueuedOnce
    <3> QED BY <2>2, <3>1, <1>2, <1>3 DEF LockHandedOver, LockWithFirst
  <2> QED BY <2>1, <2>2
<1>8. NoStrayWake' BY <1>2 DEF LockHandedOver, NoStrayWake
<1> QED BY <1>1, <1>4, <1>7, <1>8 DEF LockHandedOver

(* Mutex::unlock by the owner: the next of the queue becomes the first and *)
(* is woken.                                                               *)
LEMMA UnlockKeeps == ASSUME IInv, NEW f \in Fibers, Unlock(f) PROVE IInv'
<1> USE DEF IInv
<1>1. /\ pc[f] = "in" /\ owners # <<>> /\ owners' = Tail(owners)
      /\ pc' = [pc EXCEPT ![f] = "out"]
      /\ wakes' = [g \in Fibers |-> IF g \in ToWake(owners') THEN wakes[g] + 1 ELSE wakes[g]]
  BY DEF Unlock
<1>2. /\ owners' \in Seq(Fibers) /\ Len(owners') = Len(owners) - 1
      /\ \A i \in 1 .. Len(owners') : owners'[i] = owners[i + 1]
      /\ Len(owners) \in Nat /\ Len(owners) >= 1
      /\ owners' # <<>> => Head(owners') = owners[2] /\ Len(owners) >= 2
  BY <1>1, TailFacts DEF TypeOK
<1>3. \A i \in 1 .. Len(owners) : owners[i] \in Fibers BY DEF TypeOK
<1>4. TypeOK' BY <1>1, <1>2 DEF TypeOK, PC
<1>5. owners[1] = f
  BY <1>1, <1>2 DEF LockHandedOver, QueuedOnce, LockWithFirst
<1>6. \A i \in 2 .. Len(owners) : owners[i] # f
  BY <1>2, <1>5 DEF LockHandedOver, QueuedOnce
<1>7. \A g \in Fibers : g \in ToWake(owners') <=> Len(owners) >= 2 /\ g = owners[2]
  BY <1>2 DEF ToWake
<1>8. QueuedOnce'
  <2>1. \A i, j \in 1 .. Len(owners') : owners'[i] = owners'[j] => i = j
    <3> TAKE i, j \in 1 .. Len(owners')
    <3> HAVE owners'[i] = owners'[j]
    <3>1. owners[i + 1] = owners[j + 1] /\ i + 1 \in 1 .. Len(owners) /\ j + 1 \in 1 .. Len(owners)
      BY <1>2
    <3>2. i + 1 = j + 1 BY <3>1 DEF LockHandedOver, QueuedOnce
    <3> QED BY <3>2
  <2>2. \A g \in Fibers : pc'[g] # "out" <=> \E i \in 1 .. Len(owners') : owners'[i] = g
    <3> TAKE g \in Fibers
    <3>1. CASE g = f
      <4>1. pc'[g] = "out" BY <3>1, <1>1 DEF TypeOK
      <4>2. \A i \in 1 .. Len(owners') : owners'[i] # g BY <3>1, <1>2, <1>6
      <4> QED BY <4>1, <4>2
    <3>2. CASE g # f
      <4>1. pc'[g] = pc[g] BY <3>2, <1>1 DEF TypeOK
      <4>2. pc[g] # "out" <=> \E i \in 1 .. Len(owners) : owners[i] = g
        BY DEF LockHandedOver, QueuedOnce
      <4>3. ASSUME NEW i \in 1 .. Len(owners), owners[i] = g
            PROVE  \E j \in 1 .. Len(owners') : owners'[j] = g
        <5>1. i - 1 \in 1 .. Len(owners') BY <4>3, <3>2, <1>5, <1>2
        <5>2. owners'[i - 1] = g BY <5>1, <4>3, <1>2
        <5> QED BY <5>1, <5>2
      <4>4. ASSUME NEW j \in 1 .. Len(owners'), owners'[j] = g
            PROVE  \E i \in 1 .. Len(owners) : owners[i] = g
        <5>1. j + 1 \in 1 .. Len(owners) /\ owners[j + 1] = g BY <4>4, <1>2
        <5> QED BY <5>1
      <4> QED BY <4>1, <4>2, <4>3, <4>4
    <3> QED BY <3>1, <3>2
  <2> QED BY <2>1, <2>2 DEF QueuedOnce
<1>9. LockWithFirst'
  <2> SUFFICES ASSUME NEW i \in 1 .. Len(owners')
               PROVE  IF i = 1 THEN wakes'[owners'[i]] = (IF pc'[owners'[i]] = "in" THEN 0 ELSE 1)
                               ELSE wakes'[owners'[i]] = 0 /\ pc'[owners'[i]] # "in"
    BY DEF LockWithFirst
  <2> DEFINE g == owners[i + 1]
  <2>1. /\ i + 1 \in 2 .. Len(owners) /\ i + 1 \in 1 .. Len(owners) /\ i + 1 # 1
        /\ owners'[i] = g /\ Len(owners) >= 2
    BY <1>2
  <2>2. g \in Fibers /\ g # f BY <2>1, <1>3, <1>6
  <2>3. pc'[g] = pc[g] BY <2>2, <1>1 DEF TypeOK
  <2>4. wakes[g] = 0 /\ pc[g] # "in" BY <2>1 DEF LockHandedOver, LockWithFirst
  <2>5. g = owners[2] <=> i = 1
    <3>1. 2 \in 1 .. Len(owners) BY <2>1, <1>2
    <3>2. g = owners[2] => i + 1 = 2 BY <3>1, <2>1 DEF LockHandedOver, QueuedOnce
    <3> QED BY <3>2
  <2>6. wakes'[g] = IF i = 1 THEN 1 ELSE 0
    BY <2>1, <2>2, <2>4, <2>5, <1>1, <1>7
  <2> QED BY <2>1, <2>3, <2>4, <2>6
<1>10. NoStrayWake'
  <2> SUFFICES ASSUME NEW g \in Fibers, pc'[g] = "out" PROVE wakes'[g] = 0
    BY DEF NoStrayWake
  <2>1. wakes[g] = 0
    <3>1. CASE g = f
      <4>1. 1 \in 1 .. Len(owners) BY <1>2
      <4> QED BY <3>1, <4>1, <1>1, <1>5 DEF LockHandedOver, LockWithFirst
    <3>2. CASE g # f BY <3>2, <1>1 DEF LockHandedOver, NoStrayWake, TypeOK
    <3> QED BY <3>1, <3>2
  <2>2. g \notin ToWake(owners')
    <3> SUFFICES ASSUME Len(owners) >= 2, g = owners[2] PROVE FALSE BY <1>7
    <3>1. 2 \in 1 .. Len(owners) /\ 2 \in 2 .. Len(owners) BY <1>2
    <3>2. pc[g] # "out" BY <3>1 DEF LockHandedOver, QueuedOnce
    <3>3. g # f BY <3>1, <1>6
    <3> QED BY <3>2, <3>3, <1>1 DEF TypeOK
  <2> QED BY <2>1, <2>2, <1>1
<1> QED BY <1>4, <1>8, <1>9, <1>10 DEF LockHandedOver

(* No step of lock, tryLock, unlock or the scheduler breaks the invariant. *)
LEMMA NextIInv == IInv /\ [Next]_vars => IInv'
<1> SUFFICES ASSUME IInv, [Next]_vars PROVE IInv' OBVIOUS
<1>1. ASSUME NEW f \in Fibers, Lock(f) PROVE IInv'
  BY <1>1, JoinKeeps DEF Lock, Join, IsFirst
<1>2. ASSUME NEW f \in Fibers, TryLock(f) PROVE IInv'
  <2>1. Len(owners') = 1 BY <1>2 DEF TryLock, Join
  <2> QED BY <1>2, <2>1, JoinKeeps DEF TryLock, Join
<1>3. ASSUME NEW f \in Fibers, FiberYield(f) PROVE IInv' BY <1>3, FiberYieldKeeps
<1>4. ASSUME NEW f \in Fibers, Resume(f) PROVE IInv' BY <1>4, ResumeKeeps
<1>5. ASSUME NEW f \in Fibers, Unlock(f) PROVE IInv' BY <1>5, UnlockKeeps
<1>6. CASE UNCHANGED vars
  BY <1>6 DEF vars, IInv, TypeOK, LockHandedOver, QueuedOnce, LockWithFirst, NoStrayWake
<1> QED BY <1>1, <1>2, <1>3, <1>4, <1>5, <1>6 DEF Next, Step

(* The members of Mutex keep their types. *)
THEOREM TypeCorrect == Spec => []TypeOK
<1>1. IInv => TypeOK BY DEF IInv
<1> QED BY InitIInv, NextIInv, <1>1, PTL DEF Spec

(* Mutex::unlock passes the lock to the first of the queue and to nobody   *)
(* else.                                                                   *)
THEOREM HandedOver == Spec => []LockHandedOver
<1>1. IInv => LockHandedOver BY DEF IInv
<1> QED BY InitIInv, NextIInv, <1>1, PTL DEF Spec

(* Two fibers are never both between Mutex::lock and Mutex::unlock. *)
THEOREM Exclusion == Spec => []MutualExclusion
<1>1. IInv => MutualExclusion
  <2> SUFFICES ASSUME IInv, NEW f \in Fibers, NEW g \in Fibers, pc[f] = "in", pc[g] = "in"
               PROVE  f = g
    BY DEF MutualExclusion
  <2>1. \A h \in Fibers : pc[h] = "in" => owners[1] = h
    BY DEF IInv, LockHandedOver, QueuedOnce, LockWithFirst
  <2> QED BY <2>1
<1> QED BY InitIInv, NextIInv, <1>1, PTL DEF Spec

(* Mutex::lock serves in the order of arrival: no step gives the lock to a *)
(* fiber that has another one before it in _owners.                        *)
THEOREM Fifo == Spec => FirstComeFirstServed
<1> DEFINE Behind(f, g) == \E i, j \in DOMAIN owners : i < j /\ owners[i] = f /\ owners[j] = g
<1>1. ASSUME IInv, [Next]_vars, NEW f \in Fibers, NEW g \in Fibers, Behind(f, g)
      PROVE  pc'[g] # "in"
  <2>1. PICK j \in 1 .. Len(owners) : j # 1 /\ owners[j] = g
    BY <1>1 DEF IInv, TypeOK
  <2>2. wakes[g] = 0 /\ pc[g] # "in" /\ pc[g] # "out"
    BY <1>1, <2>1 DEF IInv, LockHandedOver, LockWithFirst, QueuedOnce
  <2>3. ASSUME NEW h \in Fibers, Lock(h) \/ TryLock(h) \/ FiberYield(h) \/ Unlock(h)
        PROVE  pc'[g] # "in"
    BY <1>1, <2>2, <2>3 DEF IInv, TypeOK, Lock, TryLock, FiberYield, Unlock
  <2>4. ASSUME NEW h \in Fibers, Resume(h) PROVE pc'[g] # "in"
    <3>1. h # g BY <2>4, <2>2 DEF Resume, Woken
    <3> QED BY <1>1, <2>2, <2>4, <3>1 DEF IInv, TypeOK, Resume
  <2>5. CASE UNCHANGED vars BY <2>5, <2>2 DEF vars
  <2> QED BY <1>1, <2>3, <2>4, <2>5 DEF Next, Step
<1>2. IInv /\ [Next]_vars
        => [\A f, g \in Fibers : Behind(f, g) => pc'[g] # "in"]_vars
  BY <1>1
<1> QED BY InitIInv, NextIInv, <1>2, PTL DEF Spec, FirstComeFirstServed
=============================================================================
