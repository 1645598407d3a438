------------------------- MODULE SpiderService_proofs -------------------------
(***************************************************************************)
(* The counter of processOne fibers and the amounts of the sites, which    *)
(* spider::Service keeps beside what they count: SpiderAccounts, for any   *)
(* number of pages, fibers and failures and any concurrency.               *)
(***************************************************************************)
EXTENDS SpiderService, Integers, FiniteSetTheorems, TLAPS

Places == {"free", "get", "store", "end", "write", "signal"}
LoadStates == [at : Places, page : SpiderPages \cup {0}, reg : 0 .. SizeMax]

SpiderTypeOK ==
    /\ stopFlag \in BOOLEAN /\ doneSet \in BOOLEAN
    /\ raced \in BOOLEAN /\ late \in BOOLEAN /\ twice \in BOOLEAN
    /\ phase \in {"new", "running", "stopping", "stopped", "crashed"}
    /\ looping \in {"off", "check", "limit", "wait", "select", "count", "spawn", "commit"}
    /\ loopReg \in 0 .. SizeMax /\ counter \in 0 .. SizeMax
    /\ picked \in SpiderPages \cup {0}
    /\ counterLock \in Loads \cup {0}
    /\ loads \in [Loads -> LoadStates]
    /\ status \in [SpiderPages -> {"absent", "null", "pend", "failed", "done"}]
    /\ age \in [Sites -> 0 .. 2]
    /\ amounts \in [Sites -> [all : Int, new : Int]]
    /\ failures \in Nat

-----------------------------------------------------------------------------
(* The inductive invariant. *)

(* The fibers that _numWorkers counts, and what it is while no update of   *)
(* it was lost: below the limit as long as processLoop is about to spawn.  *)
CountedLoads == {l \in Loads : Counted(l)}
CounterExact ==
    ~raced => /\ counter = Cardinality(CountedLoads)
              /\ counter <= Concurrency
              /\ looping \in {"select", "count", "spawn"} => counter < Concurrency

(* Who lowers the counter holds _mtxWorkers. *)
LockHeld == \A l \in Loads : loads[l].at = "write" <=> counterLock = l

(* While processLoop holds the table locks, the page it picked stays to be *)
(* loaded.                                                                 *)
PickedLoadable ==
    looping \in {"count", "spawn", "commit"} => picked \in SpiderPages /\ status[picked] \in {"null", "pend"}

(* Nothing is being loaded after stop, unless processLoop spawned late. *)
StopWaits ==
    /\ phase \in {"stopping", "stopped"} => stopFlag
    /\ phase = "stopped" /\ ~late => \A l \in Loads : ~Loading(l)

(* Every page has one fiber, and is there and not done until that fiber    *)
(* ends.                                                                   *)
LoadsDistinct ==
    ~twice =>
      /\ \A k, l \in Loads :
           loads[k].at # "free" /\ loads[l].at # "free" /\ loads[k].page = loads[l].page => k = l
      /\ \A l \in Loads :
           Loading(l) => loads[l].page \in Found /\ status[loads[l].page] # "done"

SpiderInv ==
    /\ SpiderTypeOK /\ CounterExact /\ LockHeld /\ PickedLoadable /\ StopWaits
    /\ LoadsDistinct /\ AmountsTrue

-----------------------------------------------------------------------------
(* The counter is a size_t. *)
LEMMA CountedUp == ASSUME NEW n \in Nat, NEW m \in Nat, n < m PROVE (n + 1) % (m + 1) = n + 1
OBVIOUS
LEMMA CountedDown == ASSUME NEW n \in Nat, NEW m \in Nat, n < m + 1 PROVE (n + (m + 1)) % (m + 1) = n
OBVIOUS
LEMMA WithinSize == ASSUME NEW n \in Nat, NEW m \in Nat PROVE n % (m + 1) \in 0 .. m
OBVIOUS

(* Everything counted is finite. *)
LEMMA LoadsFinite == IsFiniteSet(CountedLoads) /\ Cardinality(CountedLoads) \in Nat
<1>1. CountedLoads \subseteq Loads
  BY DEF CountedLoads
<1> QED BY <1>1, SpiderAssumption, FS_Subset, FS_CardinalityType

LEMMA PagesFinite ==
  ASSUME NEW S, S \subseteq SpiderPages
  PROVE  IsFiniteSet(S) /\ Cardinality(S) \in Nat
BY SpiderAssumption, FS_Subset, FS_CardinalityType

(* What changes the amounts that are true: nothing, as long as no page is  *)
(* found or done.                                                          *)
LEMMA AmountsStay ==
  ASSUME AmountsTrue, ~twice' => ~twice, amounts' = amounts,
         ~twice => \A p \in SpiderPages : (status'[p] = "absent" <=> status[p] = "absent")
                                       /\ (status'[p] = "done" <=> status[p] = "done")
  PROVE  AmountsTrue'
<1> SUFFICES ASSUME ~twice', NEW s \in Sites
             PROVE  /\ amounts'[s].all = Cardinality({p \in Found : SiteOf(p) = s})'
                    /\ amounts'[s].new = Cardinality({p \in Found : SiteOf(p) = s /\ status[p] # "done"})'
  BY DEF AmountsTrue
<1>1. /\ {p \in Found : SiteOf(p) = s}' = {p \in Found : SiteOf(p) = s}
      /\ {p \in Found : SiteOf(p) = s /\ status[p] # "done"}' = {p \in Found : SiteOf(p) = s /\ status[p] # "done"}
  BY DEF Found
<1> QED BY <1>1 DEF AmountsTrue

-----------------------------------------------------------------------------
(* processLoop *)

LEMMA SpiderStartKeeps ==
  ASSUME SpiderInv, ~raced, SpiderStart
  PROVE  SpiderInv'
<1> USE DEF SpiderInv, SpiderStart, spiderDb, spiderHistory
<1>1. SpiderTypeOK'
  BY DEF SpiderTypeOK
<1>2. CounterExact'
  BY DEF CounterExact, CountedLoads, Counted
<1>3. LockHeld'
  BY DEF LockHeld
<1>4. PickedLoadable'
  BY DEF PickedLoadable, SpiderTypeOK
<1>5. StopWaits'
  BY DEF StopWaits, Loading, SpiderTypeOK
<1>6. LoadsDistinct'
  BY DEF LoadsDistinct, Loading, Found, SpiderTypeOK
<1>7. AmountsTrue'
  BY DEF AmountsTrue, Found
<1> QED BY <1>1, <1>2, <1>3, <1>4, <1>5, <1>6, <1>7

LEMMA LoopCheckKeeps ==
  ASSUME SpiderInv, ~raced, LoopCheck
  PROVE  SpiderInv'
<1> USE DEF SpiderInv, LoopCheck, spiderDb, spiderHistory
<1>1. SpiderTypeOK'
  BY DEF SpiderTypeOK
<1>2. CounterExact'
  BY DEF CounterExact, CountedLoads, Counted
<1>3. LockHeld'
  BY DEF LockHeld
<1>4. PickedLoadable'
  BY DEF PickedLoadable, SpiderTypeOK
<1>5. StopWaits'
  BY DEF StopWaits, Loading, SpiderTypeOK
<1>6. LoadsDistinct'
  BY DEF LoadsDistinct, Loading, Found, SpiderTypeOK
<1>7. AmountsTrue'
  BY DEF AmountsTrue, Found
<1> QED BY <1>1, <1>2, <1>3, <1>4, <1>5, <1>6, <1>7

LEMMA LoopLimitKeeps ==
  ASSUME SpiderInv, ~raced, LoopLimit
  PROVE  SpiderInv'
<1> USE DEF SpiderInv, LoopLimit, spiderDb, spiderHistory, PoolFull
<1>1. SpiderTypeOK'
  BY DEF SpiderTypeOK
<1>2. CounterExact'
  BY SpiderAssumption DEF CounterExact, CountedLoads, Counted, SpiderTypeOK
<1>3. LockHeld'
  BY DEF LockHeld
<1>4. PickedLoadable'
  BY DEF PickedLoadable, SpiderTypeOK
<1>5. StopWaits'
  BY DEF StopWaits, Loading, SpiderTypeOK
<1>6. LoadsDistinct'
  BY DEF LoadsDistinct, Loading, Found, SpiderTypeOK
<1>7. AmountsTrue'
  BY DEF AmountsTrue, Found
<1> QED BY <1>1, <1>2, <1>3, <1>4, <1>5, <1>6, <1>7

LEMMA LoopWaitKeeps ==
  ASSUME SpiderInv, ~raced, LoopWait
  PROVE  SpiderInv'
<1> USE DEF SpiderInv, LoopWait, spiderDb, spiderHistory
<1>1. SpiderTypeOK'
  BY DEF SpiderTypeOK
<1>2. CounterExact'
  BY DEF CounterExact, CountedLoads, Counted
<1>3. LockHeld'
  BY DEF LockHeld
<1>4. PickedLoadable'
  BY DEF PickedLoadable, SpiderTypeOK
<1>5. StopWaits'
  BY DEF StopWaits, Loading, SpiderTypeOK
<1>6. LoadsDistinct'
  BY DEF LoadsDistinct, Loading, Found, SpiderTypeOK
<1>7. AmountsTrue'
  BY DEF AmountsTrue, Found
<1> QED BY <1>1, <1>2, <1>3, <1>4, <1>5, <1>6, <1>7

LEMMA LoopSelectKeeps ==
  ASSUME SpiderInv, ~raced, LoopSelect
  PROVE  SpiderInv'
<1> USE DEF SpiderInv, LoopSelect, spiderDb, spiderHistory, StatementFails, TablesFree, Selectable
<1>1. SpiderTypeOK'
  BY DEF SpiderTypeOK
<1>2. CounterExact'
  BY DEF CounterExact, CountedLoads, Counted
<1>3. LockHeld'
  BY DEF LockHeld
<1>4. PickedLoadable'
  BY DEF PickedLoadable, SpiderTypeOK
<1>5. StopWaits'
  BY DEF StopWaits, Loading, SpiderTypeOK
<1>6. LoadsDistinct'
  BY DEF LoadsDistinct, Loading, Found, SpiderTypeOK
<1>7. AmountsTrue'
  BY DEF AmountsTrue, Found
<1> QED BY <1>1, <1>2, <1>3, <1>4, <1>5, <1>6, <1>7

LEMMA LoopCountKeeps ==
  ASSUME SpiderInv, ~raced, LoopCount
  PROVE  SpiderInv'
<1> USE DEF SpiderInv, LoopCount, spiderDb, spiderHistory
<1>1. SpiderTypeOK'
  BY DEF SpiderTypeOK
<1>2. CounterExact'
  BY DEF CounterExact, CountedLoads, Counted
<1>3. LockHeld'
  BY DEF LockHeld
<1>4. PickedLoadable'
  BY DEF PickedLoadable, SpiderTypeOK
<1>5. StopWaits'
  BY DEF StopWaits, Loading, SpiderTypeOK
<1>6. LoadsDistinct'
  BY DEF LoadsDistinct, Loading, Found, SpiderTypeOK
<1>7. AmountsTrue'
  BY DEF AmountsTrue, Found
<1> QED BY <1>1, <1>2, <1>3, <1>4, <1>5, <1>6, <1>7

LEMMA LoopSpawnKeeps ==
  ASSUME SpiderInv, ~raced, NEW l \in Loads, LoopSpawn(l)
  PROVE  SpiderInv'
<1> USE DEF SpiderInv, LoopSpawn, spiderDb, spiderHistory, NoLoad
<1> DEFINE r == [NoLoad EXCEPT !.at = "get", !.page = picked]
<1>20. /\ r \in LoadStates /\ r.at = "get" /\ r.page = picked
  <2>1. NoLoad \in LoadStates /\ picked \in SpiderPages \cup {0} /\ 0 \in 0 .. SizeMax
    BY SpiderAssumption DEF SpiderTypeOK, LoadStates, Places
  <2> QED BY <2>1 DEF LoadStates, Places
<1>21. loads' = [loads EXCEPT ![l] = r] /\ loads \in [Loads -> LoadStates]
  BY DEF SpiderTypeOK
<1> HIDE DEF r
<1>0. /\ loads' \in [Loads -> LoadStates]
      /\ \A k \in Loads \ {l} : loads'[k] = loads[k]
      /\ loads'[l].at = "get" /\ loads'[l].page = picked
  BY <1>20, <1>21
<1>10. counter' \in 0 .. SizeMax
  BY WithinSize, SpiderAssumption DEF SpiderTypeOK
<1>11. loads[l].at = "free" /\ picked \in SpiderPages
  BY DEF PickedLoadable
<1>1. SpiderTypeOK'
  BY <1>0, <1>10, SpiderAssumption DEF SpiderTypeOK
<1>2. CounterExact'
  <2> SUFFICES ASSUME ~raced' PROVE counter' = Cardinality(CountedLoads') /\ counter' <= Concurrency
    BY DEF CounterExact
  <2>1. counter' = counter + 1
    <3>1. counter = loopReg
      OBVIOUS
    <3>2. counter < Concurrency
      BY DEF CounterExact
    <3> QED BY <3>1, <3>2, CountedUp, SpiderAssumption DEF SpiderTypeOK
  <2>2. CountedLoads' = CountedLoads \cup {l} /\ l \notin CountedLoads
    BY <1>0 DEF CountedLoads, Counted
  <2>3. Cardinality(CountedLoads') = Cardinality(CountedLoads) + 1
    BY <2>2, LoadsFinite, FS_AddElement
  <2> QED BY <2>1, <2>3, SpiderAssumption DEF CounterExact, SpiderTypeOK
<1>3. LockHeld'
  BY <1>0 DEF LockHeld
<1>4. PickedLoadable'
  BY DEF PickedLoadable, SpiderTypeOK
<1>5. StopWaits'
  BY <1>0 DEF StopWaits, Loading, SpiderTypeOK
<1>6. LoadsDistinct'
  <2> SUFFICES ASSUME ~twice'
               PROVE  /\ \A j, k \in Loads :
                           loads'[j].at # "free" /\ loads'[k].at # "free" /\ loads'[j].page = loads'[k].page => j = k
                      /\ \A k \in Loads :
                           Loading(k)' => loads'[k].page \in Found' /\ status'[loads'[k].page] # "done"
    BY DEF LoadsDistinct
  <2>1. ~twice /\ \A k \in Loads : loads[k].at # "free" => loads[k].page # picked
    BY DEF SpiderTypeOK
  <2>2. Found' = Found /\ status' = status /\ picked \in Found /\ status[picked] # "done"
    BY DEF Found, PickedLoadable
  <2> HIDE DEF LoopSpawn
  <2> QED BY <1>0, <1>11, <2>1, <2>2 DEF LoadsDistinct, Loading
<1>7. AmountsTrue'
  BY AmountsStay DEF SpiderTypeOK
<1> QED BY <1>1, <1>2, <1>3, <1>4, <1>5, <1>6, <1>7

LEMMA LoopCommitKeeps ==
  ASSUME SpiderInv, ~raced, LoopCommit
  PROVE  SpiderInv'
<1> USE DEF SpiderInv, LoopCommit, spiderDb, spiderHistory, StatementFails
<1>0. \A p \in SpiderPages : status'[p] = status[p] \/ (p = picked /\ status'[p] = "pend")
  BY DEF SpiderTypeOK
<1>10. picked \in SpiderPages /\ status[picked] \in {"null", "pend"}
  BY DEF PickedLoadable
<1>1. SpiderTypeOK'
  BY DEF SpiderTypeOK
<1>2. CounterExact'
  BY DEF CounterExact, CountedLoads, Counted
<1>3. LockHeld'
  BY DEF LockHeld
<1>4. PickedLoadable'
  BY DEF PickedLoadable, SpiderTypeOK
<1>5. StopWaits'
  BY DEF StopWaits, Loading, SpiderTypeOK
<1>6. LoadsDistinct'
  BY DEF LoadsDistinct, Loading, Found, SpiderTypeOK
<1>7. AmountsTrue'
  BY <1>0, <1>10, AmountsStay
<1> QED BY <1>1, <1>2, <1>3, <1>4, <1>5, <1>6, <1>7

-----------------------------------------------------------------------------
(* processOne *)

LEMMA FetchKeeps ==
  ASSUME SpiderInv, ~raced, NEW l \in Loads, Fetch(l)
  PROVE  SpiderInv'
<1> USE DEF SpiderInv, Fetch, spiderDb, spiderHistory, At, StatementFails, TablesFree
<1>0. /\ loads' \in [Loads -> LoadStates]
      /\ \A k \in Loads \ {l} : loads'[k] = loads[k]
      /\ loads'[l].at \in {"store", "end"} /\ loads'[l].page = loads[l].page
  BY DEF SpiderTypeOK, LoadStates, Places
<1>10. ~twice => loads[l].page \in SpiderPages /\ status[loads[l].page] \notin {"absent", "done"}
  BY DEF LoadsDistinct, Loading, Found
<1>11. status' \in [SpiderPages -> {"absent", "null", "pend", "failed", "done"}]
  BY DEF SpiderTypeOK
<1>12. \A p \in SpiderPages : status'[p] = status[p] \/ (p = loads[l].page /\ status'[p] = "failed")
  BY DEF SpiderTypeOK
<1>13. failures' \in Nat
  BY DEF SpiderTypeOK
<1>1. SpiderTypeOK'
  BY <1>0, <1>11, <1>13 DEF SpiderTypeOK
<1>2. CounterExact'
  <2>1. CountedLoads' = CountedLoads
    BY <1>0 DEF CountedLoads, Counted
  <2> QED BY <2>1 DEF CounterExact
<1>3. LockHeld'
  BY <1>0 DEF LockHeld
<1>4. PickedLoadable'
  BY DEF PickedLoadable, SpiderTypeOK
<1>5. StopWaits'
  BY <1>0 DEF StopWaits, Loading, SpiderTypeOK
<1>6. LoadsDistinct'
  <2>1. \A p \in Found : status[p] # "done" => p \in Found' /\ status'[p] # "done"
    BY <1>12 DEF Found
  <2>2. twice' = twice
    OBVIOUS
  <2> HIDE DEF Fetch
  <2>3. \A k \in Loads : loads'[k].page = loads[k].page /\ (loads'[k].at # "free" => loads[k].at # "free")
    BY <1>0 DEF Fetch
  <2>4. \A k \in Loads : Loading(k)' => Loading(k)
    BY <1>0 DEF Fetch, Loading
  <2> QED BY <2>1, <2>2, <2>3, <2>4 DEF LoadsDistinct
<1>7. AmountsTrue'
  <2>1. ~twice => \A p \in SpiderPages : (status'[p] = "absent" <=> status[p] = "absent")
                                       /\ (status'[p] = "done" <=> status[p] = "done")
    BY <1>10, <1>12
  <2> QED BY <2>1, AmountsStay
<1> QED BY <1>1, <1>2, <1>3, <1>4, <1>5, <1>6, <1>7

(* The transaction of StorePage, as far as the tables go. *)
LEMMA Recounts ==
  ASSUME SpiderTypeOK, ~twice, AmountsTrue,
         NEW p \in Found, status[p] # "done", NEW new, new \subseteq SpiderPages \ Found,
         status' = [q \in SpiderPages |->
                      IF q = p THEN "done" ELSE IF q \in new THEN "null" ELSE status[q]],
         amounts' = Recounted(p, new)
  PROVE  AmountsTrue'
<1> SUFFICES ASSUME NEW s \in Sites
             PROVE  /\ amounts'[s].all = Cardinality({q \in Found : SiteOf(q) = s})'
                    /\ amounts'[s].new = Cardinality({q \in Found : SiteOf(q) = s /\ status[q] # "done"})'
  BY DEF AmountsTrue
<1> DEFINE F == {q \in Found : SiteOf(q) = s}
           U == {q \in Found : SiteOf(q) = s /\ status[q] # "done"}
           N == {q \in new : SiteOf(q) = s}
           D == IF s = SiteOf(p) THEN {p} ELSE {}
           d == IF s = SiteOf(p) THEN 1 ELSE 0
<1>1. /\ amounts'[s].all = amounts[s].all + Cardinality(N)
      /\ amounts'[s].new = amounts[s].new + Cardinality(N) - d
  BY DEF Recounted
<1>2. amounts[s].all = Cardinality(F) /\ amounts[s].new = Cardinality(U)
  BY DEF AmountsTrue
<1>3. /\ F \subseteq SpiderPages /\ U \subseteq F /\ N \subseteq SpiderPages
      /\ F \cap N = {} /\ U \cap N = {}
  BY DEF Found
<1>4. /\ IsFiniteSet(F) /\ Cardinality(F) \in Nat /\ IsFiniteSet(U) /\ Cardinality(U) \in Nat
      /\ IsFiniteSet(N) /\ Cardinality(N) \in Nat /\ IsFiniteSet(U \cup N)
  BY <1>3, PagesFinite
<1>5. Cardinality(F \cup N) = Cardinality(F) + Cardinality(N)
  <2>1. Cardinality(F \cup N) = Cardinality(F) + Cardinality(N) - Cardinality(F \cap N)
    BY <1>4, FS_Union
  <2> HIDE DEF F, U, N
  <2> QED BY <1>3, <1>4, <2>1, FS_EmptySet
<1>6. Cardinality(U \cup N) = Cardinality(U) + Cardinality(N)
  <2>1. Cardinality(U \cup N) = Cardinality(U) + Cardinality(N) - Cardinality(U \cap N)
    BY <1>4, FS_Union
  <2> HIDE DEF F, U, N
  <2> QED BY <1>3, <1>4, <2>1, FS_EmptySet
<1>7. \A q \in SpiderPages :
        status'[q] = IF q = p THEN "done" ELSE IF q \in new THEN "null" ELSE status[q]
  OBVIOUS
<1>8. {q \in Found : SiteOf(q) = s}' = F \cup N
  BY <1>7 DEF Found
<1>9. {q \in Found : SiteOf(q) = s /\ status[q] # "done"}' = (U \cup N) \ D
  BY <1>7 DEF Found
<1>10. Cardinality((U \cup N) \ D) = Cardinality(U \cup N) - d
  <2>1. CASE s = SiteOf(p)
    <3>1. p \in U \cup N /\ D = {p}
      BY <2>1
    <3> HIDE DEF U, N, D
    <3> QED BY <1>4, <2>1, <3>1, FS_RemoveElement
  <2>2. CASE s # SiteOf(p)
    <3>1. (U \cup N) \ D = U \cup N /\ Cardinality(U \cup N) \in Nat
      BY <1>4, <2>2, FS_CardinalityType
    <3> QED BY <2>2, <3>1
  <2> QED BY <2>1, <2>2
<1>d. d \in Int
  OBVIOUS
<1> HIDE DEF F, U, N, D, d
<1>11. amounts'[s].all = Cardinality({q \in Found : SiteOf(q) = s})'
  BY <1>1, <1>2, <1>5, <1>8
<1>12. amounts'[s].new = Cardinality({q \in Found : SiteOf(q) = s /\ status[q] # "done"})'
  <2>1. Cardinality({q \in Found : SiteOf(q) = s /\ status[q] # "done"})' = Cardinality((U \cup N) \ D)
    BY <1>9, Zenon
  <2>2. amounts'[s].new = Cardinality((U \cup N) \ D)
    BY <1>d, <1>1, <1>2, <1>4, <1>6, <1>10
  <2> QED BY <2>1, <2>2, Zenon
<1> QED BY <1>11, <1>12

LEMMA StorePageKeeps ==
  ASSUME SpiderInv, ~raced, NEW l \in Loads, StorePage(l)
  PROVE  SpiderInv'
<1> USE DEF SpiderInv, StorePage, spiderDb, spiderHistory, At, StatementFails, TablesFree
<1>0. /\ loads' \in [Loads -> LoadStates]
      /\ \A k \in Loads \ {l} : loads'[k] = loads[k]
      /\ loads'[l].at = "end" /\ loads'[l].page = loads[l].page
  BY SpiderAssumption DEF SpiderTypeOK, LoadStates, Places
<1> DEFINE p == loads[l].page
<1>10. ~twice => p \in Found /\ status[p] # "done"
  BY DEF LoadsDistinct, Loading
<1>11. \/ \E new \in SUBSET (SpiderPages \ Found) :
            /\ status' = [q \in SpiderPages |->
                            IF q = p THEN "done" ELSE IF q \in new THEN "null" ELSE status[q]]
            /\ amounts' = Recounted(p, new)
       \/ UNCHANGED <<status, amounts>>
  OBVIOUS
<1>12. twice' = twice
  OBVIOUS
<1>13. failures' = failures \/ failures' = failures + 1
  OBVIOUS
<1>1. SpiderTypeOK'
  <2>1. status' \in [SpiderPages -> {"absent", "null", "pend", "failed", "done"}]
    BY <1>11 DEF SpiderTypeOK
  <2>2. age' \in [Sites -> 0 .. 2]
    <3>1. age \in [Sites -> 0 .. 2]
      BY DEF SpiderTypeOK
    <3>2. CASE UNCHANGED spiderDb
      BY <3>1, <3>2
    <3>3. CASE ~UNCHANGED spiderDb
      <4>1. PICK links \in SUBSET SpiderPages :
              age' = [s \in Sites |->
                        IF \E q \in links \ Found : SiteOf(q) = s /\ amounts[s].all = 0 THEN 0 ELSE age[s]]
        BY <3>3
      <4> QED BY <3>1, <4>1
    <3> QED BY <3>2, <3>3
  <2>4. failures' \in Nat
    BY <1>13 DEF SpiderTypeOK
  <2>3. amounts' \in [Sites -> [all : Int, new : Int]]
    <3>1. ASSUME NEW new \in SUBSET (SpiderPages \ Found)
          PROVE  Recounted(p, new) \in [Sites -> [all : Int, new : Int]]
      <4> DEFINE more(s) == Cardinality({q \in new : SiteOf(q) = s})
      <4>1. \A s \in Sites : more(s) \in Nat
        BY PagesFinite
      <4>2. Recounted(p, new) = [s \in Sites |->
              [all |-> amounts[s].all + more(s),
               new |-> amounts[s].new + more(s) - (IF s = SiteOf(p) THEN 1 ELSE 0)]]
        BY DEF Recounted
      <4> HIDE DEF more, p
      <4>3. \A s \in Sites : amounts[s].all \in Int /\ amounts[s].new \in Int
        BY DEF SpiderTypeOK
      <4> QED BY <4>1, <4>2, <4>3
    <3> QED BY <1>11, <3>1 DEF SpiderTypeOK
  <2> QED BY <1>0, <2>1, <2>2, <2>3, <2>4 DEF SpiderTypeOK
<1>2. CounterExact'
  <2>1. CountedLoads' = CountedLoads
    BY <1>0 DEF CountedLoads, Counted
  <2> QED BY <2>1 DEF CounterExact
<1>3. LockHeld'
  BY <1>0 DEF LockHeld
<1>4. PickedLoadable'
  BY DEF PickedLoadable
<1>5. StopWaits'
  BY <1>0 DEF StopWaits, Loading, SpiderTypeOK
<1>6. LoadsDistinct'
  <2> SUFFICES ASSUME ~twice
               PROVE  /\ \A j, k \in Loads :
                           loads'[j].at # "free" /\ loads'[k].at # "free" /\ loads'[j].page = loads'[k].page => j = k
                      /\ \A k \in Loads :
                           Loading(k)' => loads'[k].page \in Found' /\ status'[loads'[k].page] # "done"
    BY <1>12 DEF LoadsDistinct
  <2>1. \A q \in Found \ {p} : status[q] # "done" => q \in Found' /\ status'[q] # "done"
    BY <1>11 DEF Found
  <2>2. \A k \in Loads : Loading(k)' => k # l /\ loads'[k] = loads[k] /\ Loading(k)
    BY <1>0 DEF Loading
  <2>3. \A k \in Loads : loads'[k].page = loads[k].page /\ (loads'[k].at # "free" => loads[k].at # "free")
    BY <1>0
  <2>4. \A k \in Loads : Loading(k) /\ k # l => loads[k].page # p
    BY DEF LoadsDistinct, Loading
  <2> HIDE DEF StorePage, p
  <2> QED BY <2>1, <2>2, <2>3, <2>4 DEF LoadsDistinct
<1>7. AmountsTrue'
  <2>1. CASE UNCHANGED <<status, amounts>>
    BY <1>12, <2>1, AmountsStay
  <2>2. ASSUME ~twice, NEW new \in SUBSET (SpiderPages \ Found),
               status' = [q \in SpiderPages |->
                            IF q = p THEN "done" ELSE IF q \in new THEN "null" ELSE status[q]],
               amounts' = Recounted(p, new)
        PROVE  AmountsTrue'
    <3> HIDE DEF p, StorePage
    <3> QED BY <1>10, <2>2, Recounts
  <2>3. CASE twice
    BY <1>12, <2>3 DEF AmountsTrue
  <2> QED BY <1>11, <2>1, <2>2, <2>3
<1> QED BY <1>1, <1>2, <1>3, <1>4, <1>5, <1>6, <1>7

LEMMA EndReadKeeps ==
  ASSUME SpiderInv, ~raced, NEW l \in Loads, EndRead(l)
  PROVE  SpiderInv'
<1> USE DEF SpiderInv, EndRead, spiderDb, spiderHistory
<1>0. /\ loads' \in [Loads -> LoadStates]
      /\ \A k \in Loads \ {l} : loads'[k] = loads[k]
      /\ loads'[l].at = "write" /\ loads'[l].page = loads[l].page
  BY SpiderAssumption DEF SpiderTypeOK, LoadStates, Places
<1>1. SpiderTypeOK'
  BY <1>0 DEF SpiderTypeOK
<1>2. CounterExact'
  <2>1. CountedLoads' = CountedLoads
    BY <1>0 DEF CountedLoads, Counted
  <2> QED BY <2>1 DEF CounterExact
<1>3. LockHeld'
  BY <1>0, SpiderAssumption DEF LockHeld
<1>4. PickedLoadable'
  BY DEF PickedLoadable, SpiderTypeOK
<1>5. StopWaits'
  BY <1>0 DEF StopWaits, Loading, SpiderTypeOK
<1>6. LoadsDistinct'
  BY <1>0 DEF LoadsDistinct, Loading, Found
<1>7. AmountsTrue'
  BY DEF AmountsTrue, Found
<1> QED BY <1>1, <1>2, <1>3, <1>4, <1>5, <1>6, <1>7

LEMMA EndWriteKeeps ==
  ASSUME SpiderInv, ~raced, NEW l \in Loads, EndWrite(l)
  PROVE  SpiderInv'
<1> USE DEF SpiderInv, EndWrite, spiderDb, spiderHistory
<1> DEFINE r == [loads[l] EXCEPT !.at = "signal", !.reg = 0]
<1>20. /\ r \in LoadStates /\ r.at = "signal" /\ r.page = loads[l].page
  <2>1. loads[l] \in LoadStates /\ picked \in SpiderPages \cup {0} /\ 0 \in 0 .. SizeMax
    BY SpiderAssumption DEF SpiderTypeOK, LoadStates, Places
  <2> QED BY <2>1 DEF LoadStates, Places
<1>21. loads' = [loads EXCEPT ![l] = r] /\ loads \in [Loads -> LoadStates]
  BY DEF SpiderTypeOK
<1> HIDE DEF r
<1>0. /\ loads' \in [Loads -> LoadStates]
      /\ \A k \in Loads \ {l} : loads'[k] = loads[k]
      /\ loads'[l].at = "signal" /\ loads'[l].page = loads[l].page
  BY <1>20, <1>21
<1>10. counter' \in 0 .. SizeMax
  <2>1. loads[l].reg + SizeMax \in Nat
    BY SpiderAssumption DEF SpiderTypeOK, LoadStates
  <2> QED BY <2>1, WithinSize, SpiderAssumption
<1>11. loads[l].at = "write" /\ counterLock = l /\ l # 0
  BY SpiderAssumption DEF LockHeld
<1>1. SpiderTypeOK'
  BY <1>0, <1>10 DEF SpiderTypeOK
<1>2. CounterExact'
  <2> SUFFICES ASSUME ~raced'
               PROVE  /\ counter' = Cardinality(CountedLoads') /\ counter' <= Concurrency
                      /\ looping \in {"select", "count", "spawn"} => counter' < Concurrency
    BY DEF CounterExact
  <2>1. CountedLoads' = CountedLoads \ {l} /\ l \in CountedLoads
    BY <1>0, <1>11 DEF CountedLoads, Counted
  <2>2. Cardinality(CountedLoads') = Cardinality(CountedLoads) - 1 /\ Cardinality(CountedLoads') \in Nat
    BY <2>1, LoadsFinite, FS_RemoveElement, FS_CardinalityType
  <2>3. /\ counter = Cardinality(CountedLoads) /\ counter \in Nat /\ counter - 1 \in Nat
        /\ counter <= SizeMax
    BY <2>2, LoadsFinite DEF CounterExact, SpiderTypeOK
  <2>4. counter' = counter - 1
    <3>1. counter' = (counter + SizeMax) % (SizeMax + 1)
      OBVIOUS
    <3>2. counter + SizeMax = (counter - 1) + (SizeMax + 1) /\ counter - 1 < SizeMax + 1
      BY <2>3, SpiderAssumption
    <3>3. ((counter - 1) + (SizeMax + 1)) % (SizeMax + 1) = counter - 1
      BY <2>3, <3>2, CountedDown, SpiderAssumption
    <3> QED BY <3>1, <3>2, <3>3
  <2> QED BY <2>2, <2>3, <2>4, SpiderAssumption DEF CounterExact
<1>3. LockHeld'
  BY <1>0, <1>11, SpiderAssumption DEF LockHeld
<1>4. PickedLoadable'
  BY DEF PickedLoadable, SpiderTypeOK
<1>5. StopWaits'
  BY <1>0 DEF StopWaits, Loading, SpiderTypeOK
<1>6. LoadsDistinct'
  BY <1>0 DEF LoadsDistinct, Loading, Found
<1>7. AmountsTrue'
  BY DEF AmountsTrue, Found
<1> QED BY <1>1, <1>2, <1>3, <1>4, <1>5, <1>6, <1>7

LEMMA EndSignalKeeps ==
  ASSUME SpiderInv, ~raced, NEW l \in Loads, EndSignal(l)
  PROVE  SpiderInv'
<1> USE DEF SpiderInv, EndSignal, spiderDb, spiderHistory, NoLoad
<1>0. /\ loads' \in [Loads -> LoadStates]
      /\ \A k \in Loads \ {l} : loads'[k] = loads[k]
      /\ loads'[l].at = "free" /\ loads'[l].page = 0
  BY SpiderAssumption DEF SpiderTypeOK, LoadStates, Places
<1>1. SpiderTypeOK'
  BY <1>0 DEF SpiderTypeOK
<1>2. CounterExact'
  <2>1. CountedLoads' = CountedLoads
    BY <1>0 DEF CountedLoads, Counted
  <2> QED BY <2>1 DEF CounterExact
<1>3. LockHeld'
  BY <1>0 DEF LockHeld
<1>4. PickedLoadable'
  BY DEF PickedLoadable, SpiderTypeOK
<1>5. StopWaits'
  BY <1>0 DEF StopWaits, Loading, SpiderTypeOK
<1>6. LoadsDistinct'
  BY <1>0 DEF LoadsDistinct, Loading, Found
<1>7. AmountsTrue'
  BY DEF AmountsTrue, Found
<1> QED BY <1>1, <1>2, <1>3, <1>4, <1>5, <1>6, <1>7

-----------------------------------------------------------------------------
(* stop, and the time that passes *)

LEMMA SpiderStopKeeps ==
  ASSUME SpiderInv, ~raced, SpiderStop
  PROVE  SpiderInv'
<1> USE DEF SpiderInv, SpiderStop, spiderDb, spiderHistory
<1>1. SpiderTypeOK'
  BY DEF SpiderTypeOK
<1>2. CounterExact'
  BY DEF CounterExact, CountedLoads, Counted
<1>3. LockHeld'
  BY DEF LockHeld
<1>4. PickedLoadable'
  BY DEF PickedLoadable, SpiderTypeOK
<1>5. StopWaits'
  BY DEF StopWaits, Loading, SpiderTypeOK
<1>6. LoadsDistinct'
  BY DEF LoadsDistinct, Loading, Found, SpiderTypeOK
<1>7. AmountsTrue'
  BY DEF AmountsTrue, Found
<1> QED BY <1>1, <1>2, <1>3, <1>4, <1>5, <1>6, <1>7

LEMMA StopReturnsAtZeroKeeps ==
  ASSUME SpiderInv, ~raced, StopReturnsAtZero
  PROVE  SpiderInv'
<1> USE DEF SpiderInv, StopReturnsAtZero, spiderDb, spiderHistory
<1>1. SpiderTypeOK'
  BY DEF SpiderTypeOK
<1>2. CounterExact'
  BY DEF CounterExact, CountedLoads, Counted
<1>3. LockHeld'
  BY DEF LockHeld
<1>4. PickedLoadable'
  BY DEF PickedLoadable, SpiderTypeOK
<1>5. StopWaits'
  <2>1. CountedLoads = {}
    BY LoadsFinite, FS_EmptySet DEF CounterExact
  <2> QED BY <2>1 DEF CountedLoads, Counted, Loading, StopWaits
<1>6. LoadsDistinct'
  BY DEF LoadsDistinct, Loading, Found, SpiderTypeOK
<1>7. AmountsTrue'
  BY DEF AmountsTrue, Found
<1> QED BY <1>1, <1>2, <1>3, <1>4, <1>5, <1>6, <1>7

LEMMA DbGoneKeeps ==
  ASSUME SpiderInv, ~raced, DbGone
  PROVE  SpiderInv'
<1> USE DEF SpiderInv, DbGone, spiderDb, spiderHistory
<1>1. SpiderTypeOK'
  BY DEF SpiderTypeOK
<1>2. CounterExact'
  BY DEF CounterExact, CountedLoads, Counted
<1>3. LockHeld'
  BY DEF LockHeld
<1>4. PickedLoadable'
  BY DEF PickedLoadable, SpiderTypeOK
<1>5. StopWaits'
  BY DEF StopWaits
<1>6. LoadsDistinct'
  BY DEF LoadsDistinct, Loading, Found, SpiderTypeOK
<1>7. AmountsTrue'
  BY DEF AmountsTrue, Found
<1> QED BY <1>1, <1>2, <1>3, <1>4, <1>5, <1>6, <1>7

LEMMA SiteAgesKeeps ==
  ASSUME SpiderInv, ~raced, NEW s \in Sites, SiteAges(s)
  PROVE  SpiderInv'
<1> USE DEF SpiderInv, SiteAges, spiderDb, spiderHistory
<1>1. SpiderTypeOK'
  BY DEF SpiderTypeOK
<1>2. CounterExact'
  BY DEF CounterExact, CountedLoads, Counted
<1>3. LockHeld'
  BY DEF LockHeld
<1>4. PickedLoadable'
  BY DEF PickedLoadable, SpiderTypeOK
<1>5. StopWaits'
  BY DEF StopWaits, Loading, SpiderTypeOK
<1>6. LoadsDistinct'
  BY DEF LoadsDistinct, Loading, Found, SpiderTypeOK
<1>7. AmountsTrue'
  BY DEF AmountsTrue, Found
<1> QED BY <1>1, <1>2, <1>3, <1>4, <1>5, <1>6, <1>7

-----------------------------------------------------------------------------
LEMMA SpiderStarts == SpiderInit => SpiderInv
<1> SUFFICES ASSUME SpiderInit PROVE SpiderInv
  OBVIOUS
<1> USE DEF SpiderInit, NoLoad
<1>1. IsFiniteSet({}) /\ Cardinality({}) = 0 /\ IsFiniteSet({1}) /\ Cardinality({1}) = 1
  BY FS_EmptySet, FS_Singleton
<1>2. SpiderTypeOK
  <2>1. loads \in [Loads -> LoadStates]
    BY SpiderAssumption DEF LoadStates, Places
  <2>2. amounts \in [Sites -> [all : Int, new : Int]] /\ age \in [Sites -> 0 .. 2]
    OBVIOUS
  <2>3. status \in [SpiderPages -> {"absent", "null", "pend", "failed", "done"}]
    OBVIOUS
  <2>4. 0 \in 0 .. SizeMax
    BY SpiderAssumption
  <2> QED BY <2>1, <2>2, <2>3, <2>4 DEF SpiderTypeOK
<1>3. CountedLoads = {}
  BY DEF CountedLoads, Counted
<1>4. CounterExact /\ LockHeld /\ PickedLoadable /\ StopWaits /\ LoadsDistinct
  BY <1>1, <1>3, SpiderAssumption DEF CounterExact, LockHeld, PickedLoadable, StopWaits, LoadsDistinct, Loading
<1>5. AmountsTrue
  <2> SUFFICES ASSUME NEW s \in Sites
               PROVE  /\ amounts[s].all = Cardinality({p \in Found : SiteOf(p) = s})
                      /\ amounts[s].new = Cardinality({p \in Found : SiteOf(p) = s /\ status[p] # "done"})
    BY DEF AmountsTrue
  <2>1. Found = {1} /\ SiteOf(1) = "s" /\ status[1] = "null"
    BY SpiderAssumption DEF Found, SiteOf
  <2>2. {p \in Found : SiteOf(p) = s} = (IF s = "s" THEN {1} ELSE {})
    BY <2>1
  <2>3. {p \in Found : SiteOf(p) = s /\ status[p] # "done"} = (IF s = "s" THEN {1} ELSE {})
    BY <2>1
  <2> QED BY <1>1, <2>2, <2>3
<1> QED BY <1>2, <1>4, <1>5 DEF SpiderInv

LEMMA SpiderNextKeeps == SpiderInv /\ [SpiderNext]_spiderVars => SpiderInv'
<1> SUFFICES ASSUME SpiderInv, [SpiderNext]_spiderVars PROVE SpiderInv'
  OBVIOUS
<1>1. CASE UNCHANGED spiderVars
  <2> USE <1>1 DEF spiderVars, spiderDb, spiderHistory, SpiderInv
  <2>1. SpiderTypeOK' /\ LockHeld' /\ PickedLoadable' /\ StopWaits'
    BY DEF SpiderTypeOK, LockHeld, PickedLoadable, StopWaits, Loading
  <2>2. CounterExact' /\ LoadsDistinct'
    BY DEF CounterExact, CountedLoads, Counted, LoadsDistinct, Loading, Found
  <2>3. AmountsTrue'
    BY AmountsStay
  <2> QED BY <2>1, <2>2, <2>3
<1>2. ASSUME ~raced, LoopStep PROVE SpiderInv'
  BY <1>2, LoopCheckKeeps, LoopLimitKeeps, LoopWaitKeeps, LoopSelectKeeps, LoopCountKeeps,
     LoopSpawnKeeps, LoopCommitKeeps DEF LoopStep
<1>3. ASSUME ~raced, NEW l \in Loads, LoadStep(l) PROVE SpiderInv'
  BY <1>3, FetchKeeps, StorePageKeeps, EndReadKeeps, EndWriteKeeps, EndSignalKeeps DEF LoadStep
<1> QED BY <1>1, <1>2, <1>3, SpiderStartKeeps, SpiderStopKeeps, StopReturnsAtZeroKeeps, DbGoneKeeps, SiteAgesKeeps
        DEF SpiderNext, Alive

(* Until an update of _numWorkers is lost it counts the fibers, and stop   *)
(* waits for them; and as long as no page has two fibers the amounts of    *)
(* the sites are those of their pages: for any number of pages, fibers and *)
(* failing statements.                                                     *)
THEOREM SpiderStaysAccounted == SpiderSpec => []SpiderAccounts
<1>1. SpiderInv => SpiderAccounts
  <2> SUFFICES ASSUME SpiderInv PROVE SpiderAccounts
    OBVIOUS
  <2>1. LoadsAccounted
    BY DEF SpiderInv, LoadsAccounted, CounterExact, CountedLoads, StopWaits
  <2> QED BY <2>1 DEF SpiderAccounts, SpiderInv
<1> QED BY <1>1, SpiderStarts, SpiderNextKeeps, PTL DEF SpiderSpec

=============================================================================
