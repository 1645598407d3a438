-------------------------- MODULE ScomService_proofs --------------------------
(***************************************************************************)
(* The crawl of scom::impl::Service: what is pending is being loaded, the  *)
(* cache of page rules is true, the workers are counted, and no host is    *)
(* asked too often; for any number of pages, rules, helpers, failures and  *)
(* any limits.  And scom::impl::PageRuleApplyer (PageRules): which pages   *)
(* the rules of an instance select, for any rules, pages and links.        *)
(***************************************************************************)
EXTENDS ScomService, PageRules, Integers, FiniteSetTheorems, SequenceTheorems, WellFoundedInduction, TLAPS

Accesses == {"absent", "null", "use", "ignore"}
PageRows == [access : Accesses, status : {"null", "pend", "done"}, host : Nat]
HostRows == [id : Nat, atime : Nat]
Caches == [known : BOOLEAN, rules : Nat, access : [Pages -> Accesses]]

ScomTypeOK ==
    /\ stage \in {"none", "init", "load", "gone"} /\ started \in BOOLEAN /\ rules \in Nat
    /\ page \in [Pages -> PageRows]
    /\ active \in [Hosts -> HostRows] /\ nextHost \in Nat
    /\ cache \in Caches
    /\ service \in {"running", "stopping", "waiting", "stopped", "exited"}
    /\ worker \in [Workers -> {"check", "body", "begun", "off"}]
    /\ helpers \in Nat /\ numWorkers \in Nat /\ raii \in Nat
    /\ loaders \in [Pages -> Nat]
    /\ doneEvent \in BOOLEAN
    /\ clock \in Nat /\ faults \in Nat
    /\ began \in Nat /\ merger \in {"loop", "asking"}
    /\ asked \in [Hosts -> Nat]
    /\ tainted \in BOOLEAN /\ orphans \subseteq Pages

-----------------------------------------------------------------------------
(* The inductive invariant. *)

(* _numWorkers counts the workers and the loaders, each of them.           *)
OnDuty == {w \in Workers : worker[w] # "off"}
Fibers == {x \in Pages \X Nat : x[2] \in 1 .. loaders[x[1]]}
CountMatches ==
    /\ IsFiniteSet(Fibers)
    /\ numWorkers = Cardinality(OnDuty) + helpers + Cardinality(Fibers)
    /\ service = "stopped" => numWorkers = 0

(* A page that is not in the table has no status.                          *)
AbsentIdle == \A p \in Pages : page[p].access = "absent" => page[p].status = "null"

(* Before an instance starts nothing is remembered of it, but for a start  *)
(* that failed.                                                            *)
CacheStartsEmpty == stage \in {"none", "init"} /\ ~tainted => ~cache.known

(* Ids of host rows are not used again, and a page names the row of its    *)
(* own host, or one that is gone.                                          *)
RowsDistinct ==
    /\ nextHost > 0
    /\ \A h \in Hosts : active[h].id < nextHost /\ active[h].atime <= clock
    /\ \A g, h \in Hosts : active[g].id # 0 /\ active[g].id = active[h].id => g = h
    /\ \A p \in Pages :
         /\ page[p].host < nextHost
         /\ \A h \in Hosts : page[p].host # 0 /\ active[h].id = page[p].host => h = HostOf(p)

(* A host that was asked has a row that says so until it has rested.       *)
AskedKnown ==
    \A h \in Hosts :
      /\ asked[h] <= clock
      /\ \/ asked[h] = 0 \/ asked[h] + HostDelay <= clock
         \/ active[h].id # 0 /\ asked[h] <= active[h].atime

(* What workerMain found when its transaction began still holds: the limit *)
(* was not reached, and nobody else adds workers.                          *)
Begun == began <= clock /\ (worker["main"] = "begun" => numWorkers < MaxWorkers)

ScomInv ==
    /\ ScomTypeOK /\ CountMatches /\ WorkersBounded /\ AbsentIdle /\ PendingIsLoaded
    /\ CacheTruthful /\ CacheStartsEmpty /\ RowsDistinct /\ AskedKnown /\ Begun

-----------------------------------------------------------------------------
(* Induction over an interval, for sets. *)

LEMMA LessWellFounded == IsWellFoundedOn({s \in Nat \X Nat : s[1] < s[2]}, Nat)
<1>1. IsWellFoundedOn(OpToRel(<, Nat), Nat)
  BY NatLessThanWellFounded
<1> QED BY <1>1 DEF OpToRel

LEMMA Least ==
  ASSUME NEW S, S \subseteq Nat, S # {}
  PROVE  \E m \in S : \A n \in S : m <= n
<1> DEFINE R == {s \in Nat \X Nat : s[1] < s[2]}
<1>1. IsWellFoundedOn(R, Nat)
  BY LessWellFounded
<1>2. \A i, j \in Nat : i < j => <<i, j>> \in R
  OBVIOUS
<1> HIDE DEF R
<1>3. PICK m \in S : \A n \in S : <<n, m>> \notin R
  BY <1>1, WFMin
<1>4. ASSUME NEW n \in S PROVE m <= n
  <2>1. n \in Nat /\ m \in Nat /\ <<n, m>> \notin R
    BY <1>3
  <2>2. ~(n < m)
    BY <1>2, <2>1
  <2> QED BY <2>1, <2>2
<1> QED BY <1>4

LEMMA Upwards ==
  ASSUME NEW S, NEW n \in Nat, 0 \in S, \A i \in 0 .. n - 1 : i \in S => i + 1 \in S
  PROVE  0 .. n \subseteq S
<1> SUFFICES ASSUME (0 .. n) \ S # {} PROVE FALSE
  OBVIOUS
<1>1. PICK m \in (0 .. n) \ S : \A k \in (0 .. n) \ S : m <= k
  <2>1. (0 .. n) \ S \subseteq Nat
    OBVIOUS
  <2> QED BY <2>1, Least
<1>2. m # 0 /\ m - 1 \in 0 .. n - 1 /\ m - 1 \in 0 .. n
  BY <1>1
<1>3. m - 1 \in S
  BY <1>1, <1>2
<1> QED BY <1>1, <1>2, <1>3

-----------------------------------------------------------------------------
(* The loop of workerMain. *)

LEMMA LoopExists ==
  ASSUME NEW q, NEW len \in Nat
  PROVE  \E g : g = [n \in 0 .. len |-> IF n = 0 THEN Tables ELSE LoadPage(g[n - 1], q[n])]
<1> DEFINE S == {k \in 0 .. len : \E g : g = [n \in 0 .. k |-> IF n = 0 THEN Tables ELSE LoadPage(g[n - 1], q[n])]}
<1>1. 0 \in S
  <2> DEFINE g == [n \in 0 .. 0 |-> Tables]
  <2>1. g = [n \in 0 .. 0 |-> IF n = 0 THEN Tables ELSE LoadPage(g[n - 1], q[n])]
    OBVIOUS
  <2> HIDE DEF g
  <2> QED BY <2>1
<1>2. ASSUME NEW k \in 0 .. len - 1, k \in S PROVE k + 1 \in S
  <2>1. PICK g : g = [n \in 0 .. k |-> IF n = 0 THEN Tables ELSE LoadPage(g[n - 1], q[n])]
    BY <1>2
  <2> DEFINE h == [n \in 0 .. k + 1 |-> IF n <= k THEN g[n] ELSE LoadPage(g[k], q[k + 1])]
  <2>2. h = [n \in 0 .. k + 1 |-> IF n = 0 THEN Tables ELSE LoadPage(h[n - 1], q[n])]
    <3>1. ASSUME NEW n \in 0 .. k + 1
          PROVE  h[n] = IF n = 0 THEN Tables ELSE LoadPage(h[n - 1], q[n])
      <4>1. CASE n = k + 1
        <5>1. h[n] = LoadPage(g[k], q[n]) /\ h[n - 1] = g[k] /\ n # 0
          BY <4>1
        <5> QED BY <5>1
      <4>2. CASE n \in 1 .. k
        <5>1. h[n] = g[n] /\ h[n - 1] = g[n - 1] /\ n # 0 /\ n \in 0 .. k
          BY <4>2
        <5>2. g[n] = LoadPage(g[n - 1], q[n])
          BY <2>1, <5>1
        <5> QED BY <5>1, <5>2
      <4>3. CASE n = 0
        BY <2>1, <4>3
      <4> QED BY <4>1, <4>2, <4>3
    <3>2. h = [n \in 0 .. k + 1 |-> h[n]]
      OBVIOUS
    <3> HIDE DEF h
    <3> QED BY <3>1, <3>2
  <2> HIDE DEF h
  <2>3. k + 1 \in 0 .. len
    OBVIOUS
  <2> QED BY <2>2, <2>3
<1> HIDE DEF S
<1>3. 0 .. len \subseteq S
  BY <1>1, <1>2, Upwards
<1>4. len \in S
  BY <1>3
<1> QED BY <1>4 DEF S

LEMMA LoopSteps ==
  ASSUME NEW q, Len(q) \in Nat
  PROVE  /\ Loop(q)[0] = Tables
         /\ \A n \in 1 .. Len(q) : Loop(q)[n] = LoadPage(Loop(q)[n - 1], q[n])
<1> DEFINE t == Loop(q)
<1>1. t = CHOOSE g : g = [n \in 0 .. Len(q) |-> IF n = 0 THEN Tables ELSE LoadPage(g[n - 1], q[n])]
  BY DEF Loop
<1> HIDE DEF t
<1>2. t = [n \in 0 .. Len(q) |-> IF n = 0 THEN Tables ELSE LoadPage(t[n - 1], q[n])]
  BY <1>1, LoopExists
<1>3. t[0] = Tables
  BY <1>2
<1>4. ASSUME NEW n \in 1 .. Len(q) PROVE t[n] = LoadPage(t[n - 1], q[n])
  BY <1>2
<1> QED BY <1>3, <1>4 DEF t

(* What the loop has is a copy of the tables and two local sets. *)
LoopTables ==
    [page : [Pages -> PageRows], active : [Hosts -> HostRows], next : Nat, used : SUBSET Nat,
     spawned : SUBSET Pages]

(* A page p of the host h, given to a loader: the row of the host, which   *)
(* may be a new one, has the id and is stamped.                            *)
Loads(t, u, p, h, id) ==
    /\ u \in LoopTables
    /\ \A r \in Pages \ {p} : u.page[r] = t.page[r]
    /\ u.page[p].access = t.page[p].access /\ u.page[p].status = "pend" /\ u.page[p].host = id
    /\ \A g \in Hosts \ {h} : u.active[g] = t.active[g]
    /\ u.active[h].id = id /\ u.active[h].atime = began
    /\ u.used = t.used \cup {id} /\ u.spawned = t.spawned \cup {p}

(* A page that has to wait for its host. *)
Waits(t, u, p, h) ==
    /\ u \in LoopTables
    /\ \A r \in Pages \ {p} : u.page[r] = t.page[r]
    /\ u.page[p].access = t.page[p].access /\ u.page[p].status = t.page[p].status
    /\ u.page[p].host = t.active[h].id
    /\ u.active = t.active /\ u.next = t.next /\ u.used = t.used /\ u.spawned = t.spawned

LEMMA PendedLoads ==
  ASSUME NEW t \in LoopTables, NEW p \in Pages, NEW h \in Hosts, t.active[h].atime = began
  PROVE  Loads(t, Pended(t, p, h), p, h, t.active[h].id) /\ Pended(t, p, h).next = t.next
<1> DEFINE id == t.active[h].id
           one == [t EXCEPT !.page[p].status = "pend"]
           two == [one EXCEPT !.page[p].host = id]
           three == [two EXCEPT !.used = @ \cup {id}]
           four == [three EXCEPT !.spawned = @ \cup {p}]
<1>0. id \in Nat
  BY DEF LoopTables, HostRows
<1> HIDE DEF id
<1>1. /\ one \in LoopTables
      /\ one.page = [t.page EXCEPT ![p] = [t.page[p] EXCEPT !.status = "pend"]]
      /\ one.active = t.active /\ one.next = t.next /\ one.used = t.used /\ one.spawned = t.spawned
  BY DEF LoopTables, PageRows
<1> HIDE DEF one
<1>2. /\ two \in LoopTables
      /\ two.page = [one.page EXCEPT ![p] = [one.page[p] EXCEPT !.host = id]]
      /\ two.active = t.active /\ two.next = t.next /\ two.used = t.used /\ two.spawned = t.spawned
  <2>1. one.page[p] \in PageRows /\ one.page \in [Pages -> PageRows]
    BY <1>1 DEF LoopTables
  <2>2. [one.page[p] EXCEPT !.host = id] \in PageRows
    BY <1>0, <2>1 DEF PageRows
  <2>3. [one.page EXCEPT ![p] = [one.page[p] EXCEPT !.host = id]] \in [Pages -> PageRows]
    BY <2>1, <2>2
  <2> QED BY <1>1, <2>3 DEF LoopTables
<1> HIDE DEF two
<1>3. /\ three \in LoopTables /\ three.page = two.page /\ three.active = t.active /\ three.next = t.next
      /\ three.used = t.used \cup {id} /\ three.spawned = t.spawned
  BY <1>0, <1>2 DEF LoopTables
<1> HIDE DEF three
<1>4. /\ four \in LoopTables /\ four.page = two.page /\ four.active = t.active /\ four.next = t.next
      /\ four.used = t.used \cup {id} /\ four.spawned = t.spawned \cup {p}
  BY <1>3 DEF LoopTables
<1> HIDE DEF four
<1>5. Pended(t, p, h) = four
  BY DEF Pended, id, one, two, three, four
<1>6. /\ \A r \in Pages \ {p} : two.page[r] = t.page[r]
      /\ two.page[p].access = t.page[p].access /\ two.page[p].status = "pend" /\ two.page[p].host = id
  BY <1>0, <1>1, <1>2 DEF LoopTables, PageRows
<1> QED BY <1>4, <1>5, <1>6 DEF Loads, id

(* The rows of the hosts before the loop, as the invariant has them.       *)
Free(h) == asked[h] = 0 \/ asked[h] + HostDelay <= clock

(* The loop has the page p given to a loader under the row of its host,    *)
(* which was not used before and whose host may be asked.                  *)
LoadsDue(t, u, p) ==
    /\ Loads(t, u, p, HostOf(p), u.active[HostOf(p)].id)
    /\ u.next >= t.next /\ u.active[HostOf(p)].id # 0
    /\ \/ u.active[HostOf(p)].id = t.active[HostOf(p)].id /\ u.next = t.next
       \/ t.active[HostOf(p)].id = 0 /\ u.active[HostOf(p)].id = t.next /\ u.next = t.next + 1

(* What the loop keeps. *)
LoopInv(t) ==
    /\ t \in LoopTables /\ t.spawned \subseteq Due /\ t.next >= nextHost
    /\ \A p \in Pages : /\ t.page[p].access = page[p].access
                        /\ t.page[p].status = IF p \in t.spawned THEN "pend" ELSE page[p].status
                        /\ t.page[p].host < t.next
    /\ \A h \in Hosts : /\ t.active[h].id < t.next /\ t.active[h].atime <= clock
                        /\ \/ t.active[h].id = active[h].id
                           \/ active[h].id = 0 /\ t.active[h].id >= nextHost
    /\ \A g, h \in Hosts : t.active[g].id # 0 /\ t.active[g].id = t.active[h].id => g = h
    /\ \A p \in Pages, h \in Hosts :
         t.page[p].host # 0 /\ t.active[h].id = t.page[p].host => h = HostOf(p)
    /\ \A h \in Hosts :
         \/ t.active[h] = active[h] /\ \A p \in t.spawned : HostOf(p) # h
         \/ /\ t.active[h].atime = began /\ t.active[h].id # 0 /\ t.active[h].id \in t.used
            /\ Free(h)
            /\ \A p, q \in t.spawned : HostOf(p) = h /\ HostOf(q) = h => p = q

LEMMA HostOfType == \A p \in Pages : HostOf(p) \in Hosts
BY DEF HostOf, Hosts

LEMMA Stamped ==
  ASSUME NEW t \in LoopTables, NEW h \in Hosts, began \in Nat
  PROVE  /\ StampHost(t, h) \in LoopTables
         /\ StampHost(t, h).page = t.page /\ StampHost(t, h).next = t.next
         /\ StampHost(t, h).used = t.used /\ StampHost(t, h).spawned = t.spawned
         /\ \A g \in Hosts \ {h} : StampHost(t, h).active[g] = t.active[g]
         /\ StampHost(t, h).active[h].id = t.active[h].id
         /\ StampHost(t, h).active[h].atime = began
<1> DEFINE row == [t.active[h] EXCEPT !.atime = began]
<1>1. row \in HostRows /\ row.id = t.active[h].id /\ row.atime = began
  BY DEF LoopTables, HostRows
<1>2. StampHost(t, h) = [t EXCEPT !.active = [t.active EXCEPT ![h] = row]]
  BY DEF StampHost, LoopTables
<1> HIDE DEF row
<1>3. t.active \in [Hosts -> HostRows] /\ [t.active EXCEPT ![h] = row] \in [Hosts -> HostRows]
  BY <1>1 DEF LoopTables
<1> QED BY <1>1, <1>2, <1>3 DEF LoopTables

(* A host that has no row gets one. *)
Inserted(t, h) == [t EXCEPT !.active[h] = [id |-> t.next, atime |-> began], !.next = @ + 1]

LEMMA NewRow ==
  ASSUME NEW t \in LoopTables, NEW h \in Hosts, began \in Nat
  PROVE  LET u == Inserted(t, h) IN
         /\ u \in LoopTables
         /\ u.page = t.page /\ u.next = t.next + 1 /\ u.used = t.used /\ u.spawned = t.spawned
         /\ \A g \in Hosts \ {h} : u.active[g] = t.active[g]
         /\ u.active[h].id = t.next /\ u.active[h].atime = began
<1> DEFINE row == [id |-> t.next, atime |-> began]
           u == Inserted(t, h)
<1>1. row \in HostRows /\ row.id = t.next /\ row.atime = began
  BY DEF LoopTables, HostRows
<1> DEFINE one == [t EXCEPT !.active = [t.active EXCEPT ![h] = row]]
<1>2. u = [one EXCEPT !.next = @ + 1]
  BY DEF LoopTables, Inserted
<1> HIDE DEF u
<1> HIDE DEF row
<1>3. t.active \in [Hosts -> HostRows] /\ [t.active EXCEPT ![h] = row] \in [Hosts -> HostRows]
  BY <1>1 DEF LoopTables
<1>4. /\ one \in LoopTables /\ one.page = t.page /\ one.next = t.next /\ one.used = t.used
      /\ one.spawned = t.spawned /\ one.active = [t.active EXCEPT ![h] = row]
  BY <1>3 DEF LoopTables
<1> HIDE DEF one
<1>5. /\ [one EXCEPT !.next = @ + 1] \in LoopTables
      /\ [one EXCEPT !.next = @ + 1].page = one.page /\ [one EXCEPT !.next = @ + 1].active = one.active
      /\ [one EXCEPT !.next = @ + 1].used = one.used /\ [one EXCEPT !.next = @ + 1].spawned = one.spawned
      /\ [one EXCEPT !.next = @ + 1].next = one.next + 1
  BY <1>4 DEF LoopTables
<1>6. u \in LoopTables /\ u.page = t.page /\ u.active = [t.active EXCEPT ![h] = row]
      /\ u.used = t.used /\ u.spawned = t.spawned /\ u.next = t.next + 1
  BY ONLY <1>2, <1>4, <1>5
<1>7. /\ \A g \in Hosts \ {h} : u.active[g] = t.active[g]
      /\ u.active[h].id = t.next /\ u.active[h].atime = began
  BY ONLY <1>1, <1>3, <1>6, h \in Hosts
<1> QED BY <1>6, <1>7 DEF u

LEMMA WaitsRow ==
  ASSUME NEW t \in LoopTables, NEW p \in Pages, NEW h \in Hosts
  PROVE  Waits(t, [t EXCEPT !.page[p].host = t.active[h].id], p, h)
<1> DEFINE row == [t.page[p] EXCEPT !.host = t.active[h].id]
           u == [t EXCEPT !.page[p].host = t.active[h].id]
<1>1. /\ row \in PageRows /\ row.access = t.page[p].access /\ row.status = t.page[p].status
      /\ row.host = t.active[h].id
  BY DEF LoopTables, PageRows, HostRows
<1>2. u = [t EXCEPT !.page = [t.page EXCEPT ![p] = row]]
  BY DEF LoopTables
<1> HIDE DEF row
<1>3. t.page \in [Pages -> PageRows] /\ [t.page EXCEPT ![p] = row] \in [Pages -> PageRows]
  BY <1>1 DEF LoopTables
<1> HIDE DEF u
<1>4. /\ u \in LoopTables /\ u.page = [t.page EXCEPT ![p] = row]
      /\ u.active = t.active /\ u.next = t.next /\ u.used = t.used /\ u.spawned = t.spawned
  BY <1>2, <1>3 DEF LoopTables
<1> QED BY <1>1, <1>3, <1>4 DEF Waits, u

(* What becomes of a due page. *)
LEMMA LoadCases ==
  ASSUME ScomInv, NEW t, LoopInv(t), NEW p \in Due
  PROVE  LET u == LoadPage(t, p) IN
         \/ u = t
         \/ /\ LoadsDue(t, u, p) /\ Free(HostOf(p))
            /\ t.active[HostOf(p)] = active[HostOf(p)] /\ \A r \in t.spawned : HostOf(r) # HostOf(p)
         \/ Waits(t, u, p, HostOf(p)) /\ t.active[HostOf(p)].id # 0
<1> DEFINE h == HostOf(p)
           u == LoadPage(t, p)
<1>1. /\ t \in LoopTables /\ p \in Pages /\ h \in Hosts /\ clock \in Nat /\ began \in Nat /\ began <= clock /\ HostDelay \in Nat \ {0}
      /\ t.active[h] \in HostRows /\ t.next \in Nat /\ active[h] \in HostRows /\ asked[h] \in Nat
  <2>1. p \in Pages
    BY DEF Due
  <2>2. h \in Hosts
    BY <2>1, HostOfType
  <2> HIDE DEF h
  <2> QED BY <2>1, <2>2, ScomAssumption DEF LoopInv, LoopTables, ScomInv, ScomTypeOK, Begun
<1>a. ASSUME NEW w \in LoopTables, w.active[h].atime = began
      PROVE  /\ Loads(w, Pended(w, p, h), p, h, w.active[h].id) /\ Pended(w, p, h).next = w.next
             /\ Pended(w, p, h).active[h].id = w.active[h].id
  BY <1>1, <1>a, PendedLoads DEF Loads
<1>b. /\ StampHost(t, h) \in LoopTables
      /\ StampHost(t, h).page = t.page /\ StampHost(t, h).next = t.next
      /\ StampHost(t, h).used = t.used /\ StampHost(t, h).spawned = t.spawned
      /\ \A g \in Hosts \ {h} : StampHost(t, h).active[g] = t.active[g]
      /\ StampHost(t, h).active[h].id = t.active[h].id
      /\ StampHost(t, h).active[h].atime = began
  BY <1>1, Stamped
<1>c. ASSUME Rested(active[h]), active[h].id # 0 PROVE Free(h)
  BY <1>1, <1>c DEF Rested, Free, ScomInv, AskedKnown, HostRows
<1>d. \/ t.active[h] = active[h] /\ \A r \in t.spawned : HostOf(r) # h
      \/ t.active[h].atime = began /\ t.active[h].id # 0 /\ t.active[h].id \in t.used
  BY <1>1 DEF LoopInv
<1>e. ASSUME t.active[h].id # 0, u = Pended(StampHost(t, h), p, h)
      PROVE  LoadsDue(t, u, p)
  <2> DEFINE w == StampHost(t, h)
  <2>1. Loads(w, u, p, h, t.active[h].id) /\ u.next = w.next /\ u.active[h].id = t.active[h].id
    BY <1>a, <1>b, <1>e
  <2> HIDE DEF w, u, h
  <2>2. Loads(t, u, p, h, u.active[h].id)
    BY <1>b, <2>1 DEF Loads, w
  <2> QED BY <1>1, <1>b, <1>e, <2>1, <2>2 DEF LoadsDue, h, w
<1>2. CASE RowOf(p) # {}
  <2>1. PICK g \in Hosts : page[p].host # 0 /\ active[g].id = page[p].host
    BY <1>2 DEF RowOf
  <2>2. g = h
    BY <1>1, <2>1 DEF ScomInv, RowsDistinct
  <2>3. active[h].id # 0 /\ Rested(active[h])
    BY <2>1, <2>2 DEF Due, RowOf
  <2>4. t.active[h].id = active[h].id
    BY <1>1, <2>3 DEF LoopInv
  <2>5. CASE t.active[h].id \in t.used
    BY <1>2, <2>5 DEF LoadPage
  <2>6. CASE t.active[h].id \notin t.used
    <3>1. u = Pended(StampHost(t, h), p, h)
      BY <1>2, <2>6 DEF LoadPage
    <3>2. LoadsDue(t, u, p)
      BY <1>e, <2>3, <2>4, <3>1
    <3> QED BY <1>c, <1>d, <2>3, <2>6, <3>2
  <2> QED BY <2>5, <2>6
<1>3. CASE RowOf(p) = {} /\ t.active[h].id = 0
  <2> DEFINE w == Inserted(t, h)
  <2>1. /\ w \in LoopTables
        /\ w.page = t.page /\ w.next = t.next + 1 /\ w.used = t.used /\ w.spawned = t.spawned
        /\ \A g \in Hosts \ {h} : w.active[g] = t.active[g]
        /\ w.active[h].id = t.next /\ w.active[h].atime = began
    BY <1>1, NewRow
  <2>2. u = Pended(w, p, h)
    BY <1>3 DEF LoadPage, Inserted
  <2> HIDE DEF w
  <2>3. Loads(w, u, p, h, t.next) /\ u.next = t.next + 1 /\ u.active[h].id = t.next
    BY <1>a, <2>1, <2>2
  <2>4. t.active[h] = active[h] /\ \A r \in t.spawned : HostOf(r) # h
    BY <1>3, <1>d
  <2>5. Free(h)
    BY <1>1, <1>3, <2>4 DEF Free, ScomInv, AskedKnown
  <2>6. t.next # 0
    BY <1>1 DEF LoopInv, ScomInv, RowsDistinct, ScomTypeOK
  <2> HIDE DEF u
  <2>7. LoadsDue(t, u, p)
    <3> HIDE DEF h
    <3>1. Loads(t, u, p, h, u.active[h].id)
      BY <2>1, <2>3 DEF Loads
    <3> QED BY <1>1, <1>3, <2>3, <2>6, <3>1 DEF LoadsDue, h
  <2> QED BY <2>4, <2>5, <2>7 DEF u, h
<1>4. CASE RowOf(p) = {} /\ t.active[h].id # 0 /\ Rested(t.active[h])
  <2>1. u = Pended(StampHost(t, h), p, h)
    BY <1>4 DEF LoadPage
  <2>2. LoadsDue(t, u, p)
    BY <1>4, <1>e, <2>1
  <2>3. t.active[h].atime # began
    BY <1>1, <1>4 DEF Rested, HostRows
  <2> QED BY <1>4, <1>c, <1>d, <2>2, <2>3
<1>5. CASE RowOf(p) = {} /\ t.active[h].id # 0 /\ ~Rested(t.active[h])
  <2>1. u = [t EXCEPT !.page[p].host = t.active[h].id]
    BY <1>5 DEF LoadPage
  <2> QED BY <1>1, <1>5, <2>1, WaitsRow
<1> QED BY <1>2, <1>3, <1>4, <1>5

LEMMA LoopKeeps ==
  ASSUME ScomInv, NEW t, LoopInv(t), NEW p \in Due
  PROVE  LoopInv(LoadPage(t, p)) /\ LoadPage(t, p).spawned \subseteq t.spawned \cup {p}
<1> DEFINE h == HostOf(p)
           u == LoadPage(t, p)
<1>1. /\ t \in LoopTables /\ p \in Pages /\ h \in Hosts /\ clock \in Nat /\ began \in Nat /\ began <= clock /\ nextHost \in Nat
      /\ \A g \in Hosts : t.active[g].id \in Nat /\ t.active[g].atime \in Nat /\ active[g].id \in Nat
      /\ t.next \in Nat /\ \A r \in Pages : t.page[r].host \in Nat
  <2>1. p \in Pages
    BY DEF Due
  <2>2. h \in Hosts
    BY <2>1, HostOfType
  <2> HIDE DEF h
  <2> QED BY <2>1, <2>2 DEF LoopInv, LoopTables, ScomInv, ScomTypeOK, HostRows, PageRows, Begun
<1>2. CASE u = t
  BY <1>2
<1>3. CASE /\ LoadsDue(t, u, p) /\ Free(h)
           /\ t.active[h] = active[h] /\ \A r \in t.spawned : HostOf(r) # h
  <2> DEFINE id == u.active[h].id
  <2> HIDE DEF u
  <2>1. /\ u \in LoopTables
        /\ \A r \in Pages \ {p} : u.page[r] = t.page[r]
        /\ u.page[p].access = t.page[p].access /\ u.page[p].status = "pend" /\ u.page[p].host = id
        /\ \A g \in Hosts \ {h} : u.active[g] = t.active[g]
        /\ u.active[h].atime = began
        /\ u.used = t.used \cup {id} /\ u.spawned = t.spawned \cup {p}
        /\ u.next >= t.next /\ id # 0 /\ u.next \in Nat /\ id \in Nat
        /\ \/ id = t.active[h].id /\ u.next = t.next
           \/ t.active[h].id = 0 /\ id = t.next /\ u.next = t.next + 1
    <3>1. u \in LoopTables
      BY <1>3 DEF LoadsDue, Loads
    <3>2. u.next \in Nat /\ id \in Nat
      BY <1>1, <3>1 DEF LoopTables, HostRows
    <3> QED BY <1>3, <3>1, <3>2 DEF LoadsDue, Loads
  <2> HIDE DEF id, h
  <2>a. u.active[h].id = id
    BY DEF id
  <2>2. u.spawned \subseteq Due /\ u.next >= nextHost
    BY <1>1, <2>1 DEF LoopInv
  <2>3. ASSUME NEW r \in Pages
        PROVE  /\ u.page[r].access = page[r].access
               /\ u.page[r].status = IF r \in u.spawned THEN "pend" ELSE page[r].status
               /\ u.page[r].host < u.next
    <3>1. CASE r = p
      <4>1. id < u.next
        BY <1>1, <2>1 DEF LoopInv
      <4> QED BY <1>1, <2>1, <3>1, <4>1 DEF LoopInv
    <3>2. CASE r # p
      BY <1>1, <2>1, <3>2 DEF LoopInv
    <3> QED BY <3>1, <3>2
  <2>4. ASSUME NEW g \in Hosts
        PROVE  /\ u.active[g].id < u.next /\ u.active[g].atime <= clock
               /\ \/ u.active[g].id = active[g].id
                  \/ active[g].id = 0 /\ u.active[g].id >= nextHost
    <3>1. CASE g = h
      BY <1>1, <1>3, <2>1, <2>a, <3>1 DEF LoopInv, h
    <3>2. CASE g # h
      BY <1>1, <2>1, <3>2 DEF LoopInv
    <3> QED BY <3>1, <3>2
  <2>5. ASSUME NEW f \in Hosts, NEW g \in Hosts, u.active[f].id # 0, u.active[f].id = u.active[g].id
        PROVE  f = g
    <3>1. \A e \in Hosts : t.active[e].id < t.next
      BY DEF LoopInv
    <3>2. \A e, k \in Hosts : t.active[e].id # 0 /\ t.active[e].id = t.active[k].id => e = k
      BY DEF LoopInv
    <3> QED BY <1>1, <2>1, <2>a, <2>5, <3>1, <3>2
  <2>6. ASSUME NEW r \in Pages, NEW g \in Hosts, u.page[r].host # 0, u.active[g].id = u.page[r].host
        PROVE  g = HostOf(r)
    <3>1. \A e, k \in Hosts : u.active[e].id # 0 /\ u.active[e].id = u.active[k].id => e = k
      BY <2>5
    <3>2. CASE r = p
      BY <1>1, <2>1, <2>a, <2>6, <3>1, <3>2 DEF h
    <3>3. CASE r # p
      <4>1. u.page[r].host = t.page[r].host /\ t.page[r].host < t.next
        BY <2>1, <3>3 DEF LoopInv
      <4>2. CASE g # h
        BY <2>1, <2>6, <4>1, <4>2 DEF LoopInv
      <4>3. CASE g = h
        <5>1. id = t.page[r].host
          BY <2>6, <2>a, <4>1, <4>3
        <5>2. id = t.active[h].id
          BY <1>1, <2>1, <4>1, <5>1
        <5> QED BY <1>1, <2>6, <4>1, <4>3, <5>1, <5>2 DEF LoopInv
      <4> QED BY <4>2, <4>3
    <3> QED BY <3>2, <3>3
  <2>7. ASSUME NEW g \in Hosts
        PROVE  \/ u.active[g] = active[g] /\ \A r \in u.spawned : HostOf(r) # g
               \/ /\ u.active[g].atime = began /\ u.active[g].id # 0 /\ u.active[g].id \in u.used
                  /\ Free(g)
                  /\ \A r, s \in u.spawned : HostOf(r) = g /\ HostOf(s) = g => r = s
    <3>1. CASE g = h
      BY <1>3, <2>1, <2>a, <3>1 DEF h
    <3>2. CASE g # h
      <4>1. HostOf(p) # g
        BY <3>2 DEF h
      <4> QED BY <2>1, <3>2, <4>1 DEF LoopInv
    <3> QED BY <3>1, <3>2
  <2>8. LoopInv(u)
    BY <2>1, <2>2, <2>3, <2>4, <2>5, <2>6, <2>7 DEF LoopInv
  <2> QED BY <2>1, <2>8 DEF u
<1>4. CASE Waits(t, u, p, h) /\ t.active[h].id # 0
  <2> HIDE DEF u, h
  <2>1. /\ u \in LoopTables
        /\ \A r \in Pages \ {p} : u.page[r] = t.page[r]
        /\ u.page[p].access = t.page[p].access /\ u.page[p].status = t.page[p].status
        /\ u.page[p].host = t.active[h].id
        /\ u.active = t.active /\ u.next = t.next /\ u.used = t.used /\ u.spawned = t.spawned
    BY <1>4 DEF Waits
  <2>2. ASSUME NEW r \in Pages
        PROVE  /\ u.page[r].access = page[r].access
               /\ u.page[r].status = IF r \in u.spawned THEN "pend" ELSE page[r].status
               /\ u.page[r].host < u.next
    BY <1>1, <2>1 DEF LoopInv
  <2>3. ASSUME NEW r \in Pages, NEW g \in Hosts, u.page[r].host # 0, u.active[g].id = u.page[r].host
        PROVE  g = HostOf(r)
    <3>1. CASE r = p
      BY <1>1, <1>4, <2>1, <2>3, <3>1 DEF LoopInv, h
    <3>2. CASE r # p
      BY <2>1, <2>3, <3>2 DEF LoopInv
    <3> QED BY <3>1, <3>2
  <2>4. /\ u.spawned \subseteq Due /\ u.next >= nextHost
        /\ \A g \in Hosts : /\ u.active[g].id < u.next /\ u.active[g].atime <= clock
                            /\ \/ u.active[g].id = active[g].id
                               \/ active[g].id = 0 /\ u.active[g].id >= nextHost
        /\ \A f, g \in Hosts : u.active[f].id # 0 /\ u.active[f].id = u.active[g].id => f = g
        /\ \A g \in Hosts :
             \/ u.active[g] = active[g] /\ \A r \in u.spawned : HostOf(r) # g
             \/ /\ u.active[g].atime = began /\ u.active[g].id # 0 /\ u.active[g].id \in u.used
                /\ Free(g)
                /\ \A r, s \in u.spawned : HostOf(r) = g /\ HostOf(s) = g => r = s
    BY <2>1 DEF LoopInv
  <2>5. LoopInv(u)
    BY <2>1, <2>2, <2>3, <2>4 DEF LoopInv
  <2> QED BY <2>1, <2>5 DEF u
<1> QED BY <1>2, <1>3, <1>4, LoadCases

LEMMA PagesFinite == IsFiniteSet(Pages) /\ \A s \in SUBSET Pages : IsFiniteSet(s) /\ Cardinality(s) \in Nat
<1>1. IsFiniteSet(Pages)
  BY FS_Interval, ScomAssumption DEF Pages
<1> QED BY <1>1, FS_Subset, FS_CardinalityType

LEMMA ChosenIsAGranula ==
  ASSUME NEW q \in Chosen, Granula \in Nat
  PROVE  Len(q) \in Nat /\ Len(q) <= Granula /\ \A n \in 1 .. Len(q) : q[n] \in Due
<1> DEFINE m == Min({Granula, Cardinality(Due)})
<1>0. Due \subseteq Pages
  BY DEF Due
<1>1. Cardinality(Due) \in Nat
  BY <1>0, PagesFinite
<1>2. m \in Nat /\ m <= Granula
  <2>1. \E x \in {Granula, Cardinality(Due)} : \A y \in {Granula, Cardinality(Due)} : x <= y
    <3>1. CASE Granula <= Cardinality(Due)
      BY <1>1, <3>1
    <3>2. CASE Cardinality(Due) <= Granula
      BY <1>1, <3>2
    <3> QED BY <1>1, <3>1, <3>2
  <2>2. m \in {Granula, Cardinality(Due)} /\ \A y \in {Granula, Cardinality(Due)} : m <= y
    BY <2>1 DEF Min
  <2> QED BY <1>1, <2>2
<1> HIDE DEF m
<1>3. PICK s \in kSubset(m, Due) : q \in SetToSeqs(s)
  BY DEF Chosen, m
<1>4. s \subseteq Due /\ Cardinality(s) = m
  BY <1>3 DEF kSubset
<1>5. q \in [1 .. m -> s]
  BY <1>3, <1>4 DEF SetToSeqs
<1>6. q \in Seq(s) /\ Len(q) = m
  <2>1. q \in Seq(s)
    BY <1>2, <1>5
  <2> QED BY <1>2, <1>5, <2>1, LenProperties
<1> QED BY <1>2, <1>4, <1>5, <1>6

LEMMA TablesInv == ASSUME ScomInv PROVE LoopInv(Tables) /\ Tables.spawned = {}
<1> DEFINE t == Tables
<1>1. t \in LoopTables /\ t.page = page /\ t.active = active /\ t.next = nextHost /\ t.spawned = {}
  BY DEF Tables, LoopTables, ScomInv, ScomTypeOK
<1> HIDE DEF t
<1>2. nextHost \in Nat
  BY DEF ScomInv, ScomTypeOK
<1>3. LoopInv(t)
  BY <1>1, <1>2 DEF LoopInv, ScomInv, RowsDistinct
<1> QED BY <1>1, <1>3 DEF t

(* What workerMain has after n of the pages of a granula. *)
LEMMA MainLoop ==
  ASSUME ScomInv, NEW q \in Chosen
  PROVE  /\ Len(q) \in Nat /\ Len(q) <= Granula
         /\ \A n \in 0 .. Len(q) : /\ LoopInv(Loop(q)[n])
                                   /\ Cardinality(Loop(q)[n].spawned) \in 0 .. Granula
<1>1. Len(q) \in Nat /\ Len(q) <= Granula /\ (\A n \in 1 .. Len(q) : q[n] \in Due) /\ Granula \in Nat
  BY ScomAssumption, ChosenIsAGranula
<1>2. /\ Loop(q)[0] = Tables
      /\ \A n \in 1 .. Len(q) : Loop(q)[n] = LoadPage(Loop(q)[n - 1], q[n])
  BY <1>1, LoopSteps
<1> DEFINE t(n) == Loop(q)[n]
           S == {n \in 0 .. Len(q) : LoopInv(t(n)) /\ Cardinality(t(n).spawned) <= n}
<1>3. t(0) = Tables /\ \A n \in 1 .. Len(q) : t(n) = LoadPage(t(n - 1), q[n])
  BY <1>2
<1> HIDE DEF t
<1>4. 0 \in S
  <2>1. Cardinality(Tables.spawned) = 0
    BY TablesInv, FS_EmptySet
  <2> QED BY <1>1, <1>3, <2>1, TablesInv
<1>5. ASSUME NEW i \in 0 .. Len(q) - 1, i \in S PROVE i + 1 \in S
  <2> DEFINE u == t(i + 1)
  <2>1. i + 1 \in 1 .. Len(q) /\ u = LoadPage(t(i), q[i + 1]) /\ q[i + 1] \in Due
    <3>1. i + 1 \in 1 .. Len(q) /\ (i + 1) - 1 = i
      BY <1>1
    <3> QED BY <1>1, <1>3, <3>1
  <2>2. LoopInv(t(i)) /\ Cardinality(t(i).spawned) <= i
    BY <1>5
  <2> HIDE DEF u, S
  <2>3. LoopInv(u) /\ u.spawned \subseteq t(i).spawned \cup {q[i + 1]}
    BY <2>1, <2>2, LoopKeeps
  <2>4. t(i).spawned \subseteq Pages
    BY <2>2 DEF LoopInv, Due
  <2>5. /\ IsFiniteSet(t(i).spawned) /\ Cardinality(t(i).spawned) \in Nat
        /\ IsFiniteSet(t(i).spawned \cup {q[i + 1]})
        /\ Cardinality(t(i).spawned \cup {q[i + 1]}) <= Cardinality(t(i).spawned) + 1
    <3>1. IsFiniteSet(t(i).spawned) /\ Cardinality(t(i).spawned) \in Nat
      BY <2>4, PagesFinite
    <3> DEFINE old == t(i).spawned
               e == q[i + 1]
    <3> HIDE DEF old, e
    <3>2. IsFiniteSet(old) /\ Cardinality(old) \in Nat
      BY <3>1 DEF old
    <3>3. /\ IsFiniteSet(old \cup {e})
          /\ Cardinality(old \cup {e}) = IF e \in old THEN Cardinality(old) ELSE Cardinality(old) + 1
      BY <3>2, FS_AddElement
    <3>4. Cardinality(old \cup {e}) <= Cardinality(old) + 1
      BY <3>2, <3>3
    <3> QED BY <3>2, <3>3, <3>4 DEF old, e
  <2>6. Cardinality(u.spawned) <= Cardinality(t(i).spawned \cup {q[i + 1]})
    BY <2>3, <2>5, FS_Subset
  <2>7. Cardinality(u.spawned) \in Nat /\ Cardinality(t(i).spawned \cup {q[i + 1]}) \in Nat
    BY <2>3, <2>5, FS_Subset, FS_CardinalityType
  <2>8. Cardinality(u.spawned) <= i + 1
    BY <2>2, <2>5, <2>6, <2>7
  <2> QED BY <2>1, <2>3, <2>8 DEF u, S
<1>6. 0 .. Len(q) \subseteq S
  <2> HIDE DEF S
  <2> QED BY <1>1, <1>4, <1>5, Upwards
<1>7. ASSUME NEW n \in 0 .. Len(q)
      PROVE  LoopInv(t(n)) /\ Cardinality(t(n).spawned) \in 0 .. Granula
  <2>1. LoopInv(t(n)) /\ Cardinality(t(n).spawned) <= n
    BY <1>6
  <2>2. t(n).spawned \subseteq Pages
    BY <2>1 DEF LoopInv, Due
  <2>3. Cardinality(t(n).spawned) \in Nat
    BY <2>2, PagesFinite
  <2> QED BY <1>1, <2>1, <2>3
<1> QED BY <1>1, <1>7 DEF t

-----------------------------------------------------------------------------
(* What the larger actions do. *)

LEMMA MainEffect ==
  ASSUME ScomInv, Main
  PROVE  \E t : /\ LoopInv(t) /\ Cardinality(t.spawned) \in 0 .. Granula
                /\ Spawn(t.spawned)
                /\ \/ /\ page' = t.page /\ active' = t.active /\ nextHost' = t.next
                      /\ asked' = AskedBy(t.spawned) /\ UNCHANGED faults
                   \/ UNCHANGED <<page, active, nextHost, asked>> /\ Fault
<1>1. PICK q \in Chosen :
         \/ LET t == Loop(q)[Len(q)] IN
              /\ page' = t.page /\ active' = t.active /\ nextHost' = t.next
              /\ Spawn(t.spawned)
              /\ asked' = AskedBy(t.spawned)
              /\ UNCHANGED faults
         \/ \E n \in 0 .. Len(q) :
              /\ Fault
              /\ Spawn(Loop(q)[n].spawned)
              /\ UNCHANGED <<page, active, nextHost, asked>>
  BY DEF Main
<1>2. /\ Len(q) \in Nat
      /\ \A n \in 0 .. Len(q) : LoopInv(Loop(q)[n]) /\ Cardinality(Loop(q)[n].spawned) \in 0 .. Granula
  BY MainLoop
<1>3. CASE LET t == Loop(q)[Len(q)] IN
              /\ page' = t.page /\ active' = t.active /\ nextHost' = t.next
              /\ Spawn(t.spawned)
              /\ asked' = AskedBy(t.spawned)
              /\ UNCHANGED faults
  <2>1. Len(q) \in 0 .. Len(q)
    BY <1>2
  <2>2. LoopInv(Loop(q)[Len(q)]) /\ Cardinality(Loop(q)[Len(q)].spawned) \in 0 .. Granula
    BY <1>2, <2>1
  <2> DEFINE t == Loop(q)[Len(q)]
  <2>3. /\ page' = t.page /\ active' = t.active /\ nextHost' = t.next
        /\ Spawn(t.spawned) /\ asked' = AskedBy(t.spawned) /\ UNCHANGED faults
    BY <1>3
  <2> HIDE DEF t
  <2> QED BY <2>2, <2>3 DEF t
<1>4. CASE \E n \in 0 .. Len(q) :
              /\ Fault
              /\ Spawn(Loop(q)[n].spawned)
              /\ UNCHANGED <<page, active, nextHost, asked>>
  <2>1. PICK n \in 0 .. Len(q) :
              /\ Fault
              /\ Spawn(Loop(q)[n].spawned)
              /\ UNCHANGED <<page, active, nextHost, asked>>
    BY <1>4
  <2>2. LoopInv(Loop(q)[n]) /\ Cardinality(Loop(q)[n].spawned) \in 0 .. Granula
    BY <1>2
  <2> QED BY <2>1, <2>2
<1> QED BY <1>1, <1>3, <1>4

(* The update of the rules writes accesses, and only of pages that are in  *)
(* the table or remembered.                                                *)
LEMMA EntryType == ASSUME ScomTypeOK PROVE Entry \in Caches /\ Judged(Entry) \in Caches
<1>1. NoCache \in Caches
  BY DEF NoCache, Caches, Accesses
<1>2. [NoCache EXCEPT !.known = TRUE, !.rules = rules] \in Caches
  BY <1>1 DEF ScomTypeOK, Caches
<1>3. Entry \in Caches
  BY <1>2 DEF Entry, ScomTypeOK
<1> DEFINE c == Entry
           a == [p \in Pages |-> IF Loaded(c)[p] = "absent" THEN "absent" ELSE Verdict(c.rules, p)]
<1> HIDE DEF c
<1>4. a \in [Pages -> Accesses]
  BY DEF Verdict, Accesses
<1>5. Judged(c) = [c EXCEPT !.access = a]
  BY DEF Judged
<1> HIDE DEF a
<1>6. Judged(c) \in Caches
  BY <1>3, <1>4, <1>5 DEF Caches, c
<1> QED BY <1>3, <1>6 DEF c

LEMMA Updates ==
  ASSUME ScomTypeOK
  PROVE  /\ Stored(Entry) \in [Pages -> PageRows]
         /\ \A p \in Pages :
              LET judged == Judged(Entry).access[p] IN
              /\ Stored(Entry)[p].status = page[p].status /\ Stored(Entry)[p].host = page[p].host
              /\ Stored(Entry)[p].access = IF judged # Loaded(Entry)[p] THEN judged ELSE page[p].access
              /\ judged = "absent" => Loaded(Entry)[p] = "absent"
         /\ Judged(Entry).known = Entry.known /\ Judged(Entry).rules = Entry.rules
<1> DEFINE c == Entry
           j == Judged(Entry)
<1>1. c \in Caches /\ j \in Caches /\ page \in [Pages -> PageRows]
  BY EntryType DEF ScomTypeOK
<1>2. j.known = c.known /\ j.rules = c.rules
      /\ \A p \in Pages : j.access[p] = IF Loaded(c)[p] = "absent" THEN "absent" ELSE Verdict(c.rules, p)
  <2> HIDE DEF c
  <2> QED BY <1>1 DEF Judged, Caches, c
<1>3. ASSUME NEW p \in Pages PROVE j.access[p] = "absent" => Loaded(c)[p] = "absent"
  BY <1>2 DEF Verdict
<1> HIDE DEF c, j
<1>4. \A p \in Pages : Stored(c)[p] = IF j.access[p] # Loaded(c)[p]
                                      THEN [page[p] EXCEPT !.access = j.access[p]] ELSE page[p]
  BY DEF Stored, c, j
<1>5. ASSUME NEW p \in Pages
      PROVE  /\ Stored(c)[p] \in PageRows
             /\ Stored(c)[p].status = page[p].status /\ Stored(c)[p].host = page[p].host
             /\ Stored(c)[p].access = IF j.access[p] # Loaded(c)[p] THEN j.access[p] ELSE page[p].access
  <2>1. page[p] \in PageRows /\ j.access[p] \in Accesses
    BY <1>1 DEF Caches
  <2> QED BY <1>4, <2>1 DEF PageRows
<1>6. Stored(c) \in [Pages -> PageRows]
  <2>1. Stored(c) = [p \in Pages |-> Stored(c)[p]]
    BY DEF Stored
  <2> QED BY <1>5, <2>1
<1> QED BY <1>2, <1>3, <1>5, <1>6 DEF c, j

LEMMA Inserts ==
  ASSUME ScomTypeOK, NEW new
  PROVE  /\ insertPageIfAbsent(new) \in [Pages -> PageRows]
         /\ \A p \in Pages :
              insertPageIfAbsent(new)[p] =
                IF p \in new /\ page[p].access = "absent"
                THEN [access |-> "null", status |-> "null", host |-> 0] ELSE page[p]
BY DEF insertPageIfAbsent, Present, NoPage, ScomTypeOK, PageRows, Accesses

LEMMA FailureCases ==
  ASSUME ScomTypeOK, NEW u \in UpdateFailures \cup {UpdateOk}
  PROVE  /\ u.cache \in Caches /\ u.bad \in BOOLEAN
         /\ u \in UpdateFailures /\ ~u.bad => ~u.cache.known \/ u.cache = Entry
<1>1. NoCache \in Caches /\ ~NoCache.known
  BY DEF NoCache, Caches, Accesses
<1>2. [NoCache EXCEPT !.known = TRUE] \in Caches
  BY <1>1 DEF Caches
<1>3. \/ u.cache \in {Entry, NoCache} /\ u.bad = FALSE
      \/ u.cache = [NoCache EXCEPT !.known = TRUE] /\ u.bad = TRUE
      \/ u = UpdateOk /\ u.cache = Judged(Entry) /\ u.bad = FALSE
  <2>1. CASE u = UpdateOk
    BY <2>1 DEF UpdateOk
  <2>2. CASE u = [ok |-> FALSE, page |-> page, cache |-> Entry, bad |-> FALSE]
    BY <2>2
  <2>3. CASE u = [ok |-> FALSE, page |-> page, cache |-> NoCache, bad |-> FALSE]
    BY <2>3
  <2>4. CASE u = [ok |-> FALSE, page |-> page, cache |-> [NoCache EXCEPT !.known = TRUE], bad |-> TRUE]
    BY <2>4
  <2> QED BY <2>1, <2>2, <2>3, <2>4 DEF UpdateFailures, DroppedEntry
<1>4. u \in UpdateFailures /\ ~u.bad => u.cache \in {Entry, NoCache}
  BY DEF UpdateFailures, DroppedEntry
<1> QED BY <1>1, <1>2, <1>3, <1>4, EntryType

-----------------------------------------------------------------------------
(* Types. *)

LEMMA SpawnTypes ==
  ASSUME ScomTypeOK, NEW s \in SUBSET Pages, Cardinality(s) \in Nat, Spawn(s)
  PROVE  loaders' \in [Pages -> Nat] /\ numWorkers' \in Nat
<1>1. \A p \in Pages : loaders[p] + (IF p \in s THEN 1 ELSE 0) \in Nat
  BY DEF ScomTypeOK
<1> QED BY <1>1 DEF Spawn, ScomTypeOK

LEMMA AskedTypes ==
  ASSUME ScomTypeOK, NEW s
  PROVE  AskedBy(s) \in [Hosts -> Nat]
<1>1. \A h \in Hosts : (IF \E p \in s : HostOf(p) = h THEN began ELSE asked[h]) \in Nat
  BY DEF ScomTypeOK
<1> QED BY <1>1 DEF AskedBy

LEMMA WorkersCount ==
  /\ IsFiniteSet(Workers) /\ Cardinality(Workers) \in Nat
  /\ \A s \in SUBSET Workers : IsFiniteSet(s) /\ Cardinality(s) \in Nat
<1>1. IsFiniteSet({"main"} \cup {"rules"})
  BY FS_Singleton, FS_AddElement
<1>2. Workers = {"main"} \cup {"rules"}
  BY DEF Workers
<1>3. IsFiniteSet(Workers)
  BY <1>1, <1>2
<1> QED BY <1>3, FS_Subset, FS_CardinalityType

LEMMA TypeInit == ASSUME Init PROVE ScomTypeOK
<1>1. NoPage \in PageRows /\ NoHost \in HostRows
  BY DEF PageRows, HostRows, Accesses, NoPage, NoHost
<1>2. NoCache \in Caches
  BY DEF Caches, Accesses, NoCache
<1>3. /\ page \in [Pages -> PageRows] /\ active \in [Hosts -> HostRows]
      /\ worker \in [Workers -> {"check", "body", "begun", "off"}]
      /\ loaders \in [Pages -> Nat] /\ asked \in [Hosts -> Nat]
  BY <1>1 DEF Init
<1>4. numWorkers \in Nat /\ helpers \in Nat
  <2>1. Cardinality(Workers) \in Nat /\ NumHelpers \in Nat
    BY WorkersCount, ScomAssumption
  <2> QED BY <2>1 DEF Init
<1>5. /\ stage = "none" /\ started = FALSE /\ rules = 0 /\ nextHost = 1 /\ cache = NoCache
      /\ service = "running" /\ doneEvent = FALSE /\ raii = 0 /\ clock = 1 /\ faults = 0
      /\ began = 0 /\ merger = "loop" /\ tainted = FALSE /\ orphans = {}
  BY DEF Init
<1> QED BY <1>2, <1>3, <1>4, <1>5 DEF ScomTypeOK

LEMMA TypeNext ==
  ASSUME ScomInv, [Next]_vars, numWorkers' \in Nat
  PROVE  ScomTypeOK'
<1>0. ScomTypeOK /\ NumHelpers \in Nat
  BY ScomAssumption DEF ScomInv
<1>1. CASE Create
  BY <1>0, <1>1 DEF Create, ScomTypeOK, pool, history
<1>2. CASE Setup
  <2>1. PICK new \in SUBSET Pages : page' = insertPageIfAbsent(new)
    BY <1>2 DEF Setup
  <2>2. page' \in [Pages -> PageRows] /\ rules' \in Nat
    BY <1>0, <1>2, <2>1, Inserts DEF Setup, ScomTypeOK
  <2> QED BY <1>0, <1>2, <2>2 DEF Setup, ScomTypeOK, pool, history
<1>3. CASE StartInstance
  <2>1. page' \in [Pages -> PageRows] /\ cache' \in Caches
    BY <1>0, <1>3, Updates, EntryType DEF StartInstance, UpdateOk
  <2> QED BY <1>0, <1>3, <2>1 DEF StartInstance, ScomTypeOK, pool, history
<1>4. CASE StartFails
  <2>1. cache' \in Caches
    BY <1>0, <1>4, FailureCases DEF StartFails
  <2>2. faults' \in Nat /\ tainted' \in BOOLEAN
    BY <1>0, <1>4, <2>1 DEF StartFails, Fault, ScomTypeOK, Caches
  <2> QED BY <1>0, <1>4, <2>1, <2>2 DEF StartFails, ScomTypeOK, pool, db
<1>5. CASE StopInstance
  BY <1>0, <1>5 DEF StopInstance, ScomTypeOK, pool, history
<1>6. CASE Destroy
  BY <1>0, <1>6 DEF Destroy, ScomTypeOK, pool, history, NoPage, PageRows, Accesses
<1>7. ASSUME NEW w \in Workers, Check(w) PROVE ScomTypeOK'
  BY <1>0, <1>7 DEF Check, ScomTypeOK, db, history
<1>8. ASSUME NEW w \in Workers, WorkerEnds(w) PROVE ScomTypeOK'
  BY <1>0, <1>8 DEF WorkerEnds, ScomTypeOK, db, history
<1>9. CASE HelperEnds
  BY <1>0, <1>9 DEF HelperEnds, ScomTypeOK, db, history
<1>10. CASE MainIdle \/ MainBegin
  BY <1>0, <1>10 DEF MainIdle, MainBegin, Back, ScomTypeOK, db, history
<1>11. CASE Main
  <2>1. PICK t : /\ LoopInv(t) /\ Cardinality(t.spawned) \in 0 .. Granula
                 /\ Spawn(t.spawned)
                 /\ \/ /\ page' = t.page /\ active' = t.active /\ nextHost' = t.next
                       /\ asked' = AskedBy(t.spawned) /\ UNCHANGED faults
                    \/ UNCHANGED <<page, active, nextHost, asked>> /\ Fault
    BY <1>11, MainEffect
  <2>2. t.spawned \in SUBSET Pages /\ Cardinality(t.spawned) \in Nat
    BY <2>1 DEF LoopInv, LoopTables
  <2>3. loaders' \in [Pages -> Nat] /\ numWorkers' \in Nat
    BY <1>0, <2>1, <2>2, SpawnTypes
  <2>4. page' \in [Pages -> PageRows] /\ active' \in [Hosts -> HostRows] /\ nextHost' \in Nat
    BY <1>0, <2>1 DEF LoopInv, LoopTables, ScomTypeOK
  <2>5. faults' \in Nat /\ asked' \in [Hosts -> Nat]
    BY <1>0, <2>1, AskedTypes DEF Fault, ScomTypeOK
  <2>6. /\ UNCHANGED <<stage, started, rules, cache, service, helpers, merger, doneEvent, raii, clock, tainted, orphans>>
        /\ began' = 0 /\ worker' \in [Workers -> {"check", "body", "begun", "off"}]
    BY <1>0, <1>11 DEF Main, Back, ScomTypeOK
  <2> QED BY <1>0, <2>3, <2>4, <2>5, <2>6 DEF ScomTypeOK
<1>12. CASE DeleteOldInstance
  BY <1>0, <1>12 DEF DeleteOldInstance, HelperRuns, ScomTypeOK, pool, history
<1>13. CASE RestatusPend
  BY <1>0, <1>13 DEF RestatusPend, HelperRuns, ScomTypeOK, pool, history, db
<1>14. CASE DeleteOldHosts
  BY <1>0, <1>14 DEF DeleteOldHosts, HelperRuns, ScomTypeOK, pool, history, NoHost, HostRows
<1>15. CASE ApplyRules
  <2>0. UpdateOk.page = Stored(Entry) /\ UpdateOk.cache = Judged(Entry)
    BY DEF UpdateOk
  <2>1. \/ UNCHANGED <<page, cache>>
        \/ page' = Stored(Entry) /\ cache' = Judged(Entry)
        \/ UNCHANGED page /\ \E u \in UpdateFailures \cup {UpdateOk} : cache' = u.cache
    BY <1>15, <2>0 DEF ApplyRules
  <2>2. page' \in [Pages -> PageRows] /\ cache' \in Caches
    <3>1. CASE UNCHANGED <<page, cache>>
      BY <1>0, <3>1 DEF ScomTypeOK
    <3>2. CASE page' = Stored(Entry) /\ cache' = Judged(Entry)
      BY <1>0, <3>2, Updates, EntryType
    <3>3. CASE UNCHANGED page /\ \E u \in UpdateFailures \cup {UpdateOk} : cache' = u.cache
      BY <1>0, <3>3, FailureCases DEF ScomTypeOK
    <3> QED BY <2>1, <3>1, <3>2, <3>3
  <2>3. \/ UNCHANGED <<faults, tainted>>
        \/ /\ Fault
           /\ \/ tainted' = TRUE
              \/ \E u \in UpdateFailures : tainted' = (u.cache.known /\ (tainted \/ u.bad))
    BY <1>15 DEF ApplyRules
  <2>4. faults' \in Nat /\ tainted' \in BOOLEAN
    <3>1. faults' \in Nat
      BY <1>0, <2>3 DEF Fault, ScomTypeOK
    <3>2. tainted \in BOOLEAN
      BY <1>0 DEF ScomTypeOK
    <3>3. \A x, y, z : (x /\ (y \/ z)) \in BOOLEAN
      OBVIOUS
    <3>4. tainted' \in BOOLEAN
      <4>1. CASE \E u \in UpdateFailures : tainted' = (u.cache.known /\ (tainted \/ u.bad))
        BY <3>3, <4>1, Zenon
      <4>2. CASE tainted' = tainted \/ tainted' = TRUE
        BY <3>2, <4>2, Zenon
      <4> QED BY <2>3, <4>1, <4>2, Zenon
    <3> QED BY <3>1, <3>4
  <2> QED BY <1>0, <1>15, <2>2, <2>4 DEF ApplyRules, Back, ScomTypeOK
<1>16. CASE Merge \/ Answered
  BY <1>0, <1>16 DEF Merge, Answered, Merging, MergerOnly, ScomTypeOK, history, db
<1>17. ASSUME NEW p \in Pages, Loader(p) PROVE ScomTypeOK'
  <2>1. loaders' \in [Pages -> Nat] /\ numWorkers' \in Nat /\ raii' \in Nat
    BY <1>0, <1>17 DEF Loader, ScomTypeOK
  <2>2. page' \in [Pages -> PageRows] /\ faults' \in Nat /\ orphans' \subseteq Pages
    <3>1. CASE \E links \in SUBSET (Pages \ Present) :
                 /\ page' = [insertPageIfAbsent(links) EXCEPT
                               ![p].status = IF p \in Present THEN "done" ELSE @]
                 /\ UNCHANGED <<faults, orphans>>
      <4>1. PICK links :
                 /\ page' = [insertPageIfAbsent(links) EXCEPT
                               ![p].status = IF p \in Present THEN "done" ELSE @]
                 /\ UNCHANGED <<faults, orphans>>
        BY <3>1
      <4> DEFINE i == insertPageIfAbsent(links)
                 r == [i[p] EXCEPT !.status = IF p \in Present THEN "done" ELSE @]
      <4>2. i \in [Pages -> PageRows] /\ page' = [i EXCEPT ![p] = r]
        BY <1>0, <4>1, Inserts
      <4> HIDE DEF i
      <4>3. r \in PageRows
        BY <4>2 DEF PageRows
      <4> QED BY <1>0, <4>1, <4>2, <4>3 DEF ScomTypeOK
    <3>2. CASE /\ Fault /\ orphans' = orphans \cup {q \in {p} : page[q].status = "pend"}
               /\ UNCHANGED page
      BY <1>0, <3>2 DEF Fault, ScomTypeOK
    <3> QED BY <1>17, <3>1, <3>2 DEF Loader
  <2> QED BY <1>0, <1>17, <2>1, <2>2 DEF Loader, ScomTypeOK
<1>18. CASE SignalDone
  BY <1>0, <1>18 DEF SignalDone, ScomTypeOK, db, history
<1>19. CASE StopBegins
  BY <1>0, <1>19 DEF StopBegins, ScomTypeOK, db, history, pool, NoCache, Caches, Accesses
<1>20. CASE StopCheck
  BY <1>0, <1>20 DEF StopCheck, ScomTypeOK, db, history, pool
<1>21. CASE StopWakes
  BY <1>0, <1>21 DEF StopWakes, ScomTypeOK, db, history
<1>22. CASE Start
  BY <1>0, <1>22 DEF Start, ScomTypeOK, db, history, NoCache, Caches, Accesses
<1>23. CASE Tick
  BY <1>0, <1>23 DEF Tick, ScomTypeOK, db, history, pool
<1>24. CASE UNCHANGED vars
  BY <1>0, <1>24 DEF vars, ScomTypeOK, db, history, pool
<1> QED BY <1>1, <1>2, <1>3, <1>4, <1>5, <1>6, <1>7, <1>8, <1>9, <1>10, <1>11, <1>12, <1>13, <1>14, <1>15,
           <1>16, <1>17, <1>18, <1>19, <1>20, <1>21, <1>22, <1>23, <1>24 DEF Next

-----------------------------------------------------------------------------
(* The count of workers. *)

PoolInv == CountMatches /\ WorkersBounded

LEMMA PoolFrame ==
  ASSUME PoolInv, UNCHANGED <<helpers, loaders, numWorkers>>,
         \A w \in Workers : worker'[w] = "off" <=> worker[w] = "off",
         service' = "stopped" => numWorkers = 0
  PROVE  PoolInv'
<1>1. OnDuty' = OnDuty /\ Fibers' = Fibers
  BY DEF OnDuty, Fibers
<1>2. CountMatches'
  BY <1>1 DEF PoolInv, CountMatches
<1>3. WorkersBounded'
  BY DEF PoolInv, WorkersBounded, OwnWorkers
<1> QED BY <1>2, <1>3 DEF PoolInv

LEMMA PoolShrinks ==
  ASSUME ScomInv, CountMatches', numWorkers' = numWorkers - 1, numWorkers' \in Nat
  PROVE  PoolInv'
<1>1. numWorkers \in Nat /\ OwnWorkers \in Nat /\ MaxWorkers \in Nat /\ Granula \in Nat
  BY ScomAssumption, WorkersCount DEF ScomInv, ScomTypeOK, OwnWorkers
<1>2. OwnWorkers' = OwnWorkers
  BY DEF OwnWorkers
<1> HIDE DEF OwnWorkers
<1> QED BY <1>1, <1>2 DEF ScomInv, WorkersBounded, PoolInv

LEMMA WorkerLeaves ==
  ASSUME ScomInv, NEW w \in Workers, worker[w] # "off", worker' = [worker EXCEPT ![w] = "off"]
  PROVE  /\ Cardinality(OnDuty') = Cardinality(OnDuty) - 1
         /\ Cardinality(OnDuty) \in Nat /\ Cardinality(OnDuty') \in Nat
<1>1. worker \in [Workers -> {"check", "body", "begun", "off"}]
  BY DEF ScomInv, ScomTypeOK
<1>2. OnDuty' = OnDuty \ {w} /\ w \in OnDuty /\ OnDuty \subseteq Workers
  BY <1>1 DEF OnDuty
<1>3. IsFiniteSet(OnDuty) /\ Cardinality(OnDuty) \in Nat /\ Cardinality(OnDuty') \in Nat
  <2>1. OnDuty' \subseteq Workers
    BY <1>2
  <2> QED BY <1>2, <2>1, WorkersCount
<1> QED BY <1>2, <1>3, FS_RemoveElement

LEMMA LoaderLeaves ==
  ASSUME ScomInv, NEW p \in Pages, loaders[p] > 0, loaders' = [loaders EXCEPT ![p] = @ - 1]
  PROVE  /\ IsFiniteSet(Fibers')
         /\ Cardinality(Fibers') = Cardinality(Fibers) - 1
         /\ Cardinality(Fibers) \in Nat /\ Cardinality(Fibers') \in Nat
<1> DEFINE x == <<p, loaders[p]>>
<1>1. loaders \in [Pages -> Nat] /\ IsFiniteSet(Fibers)
  BY DEF ScomInv, ScomTypeOK, CountMatches
<1>2. \A r \in Pages : loaders'[r] = IF r = p THEN loaders[p] - 1 ELSE loaders[r]
  BY <1>1
<1>3. Fibers' = Fibers \ {x} /\ x \in Fibers
  <2>1. x \in Fibers
    BY <1>1 DEF Fibers
  <2>2. ASSUME NEW y \in Pages \X Nat PROVE y \in Fibers' <=> y \in Fibers /\ y # x
    <3>1. PICK r \in Pages, n \in Nat : y = <<r, n>>
      OBVIOUS
    <3>2. CASE r = p
      BY <1>1, <1>2, <3>1, <3>2 DEF Fibers
    <3>3. CASE r # p
      BY <1>1, <1>2, <3>1, <3>3 DEF Fibers
    <3> QED BY <3>2, <3>3
  <2>3. Fibers' \subseteq Pages \X Nat /\ Fibers \subseteq Pages \X Nat
    BY DEF Fibers
  <2> HIDE DEF x
  <2> QED BY <2>1, <2>2, <2>3
<1> HIDE DEF x
<1> QED BY <1>1, <1>3, FS_RemoveElement, FS_CardinalityType

LEMMA LoadersArrive ==
  ASSUME ScomInv, NEW s \in SUBSET Pages, Spawn(s)
  PROVE  /\ IsFiniteSet(Fibers') /\ Cardinality(Fibers') = Cardinality(Fibers) + Cardinality(s)
         /\ Cardinality(Fibers) \in Nat /\ Cardinality(Fibers') \in Nat /\ Cardinality(s) \in Nat
<1> DEFINE new == {<<p, loaders[p] + 1>> : p \in s}
           f == [p \in s |-> <<p, loaders[p] + 1>>]
<1>1. loaders \in [Pages -> Nat] /\ IsFiniteSet(Fibers)
  BY DEF ScomInv, ScomTypeOK, CountMatches
<1>2. \A r \in Pages : loaders'[r] = loaders[r] + (IF r \in s THEN 1 ELSE 0)
  BY <1>1 DEF Spawn
<1>3. IsFiniteSet(s) /\ Cardinality(s) \in Nat
  BY PagesFinite
<1>4. IsFiniteSet(new) /\ Cardinality(new) = Cardinality(s)
  <2>1. f \in [s -> new] /\ \A a, b \in s : f[a] = f[b] => a = b
    OBVIOUS
  <2>2. \A y \in new : \E a \in s : f[a] = y
    OBVIOUS
  <2> HIDE DEF f, new
  <2>3. f \in Bijection(s, new)
    BY <2>1, <2>2 DEF Bijection, Injection, Surjection, IsInjective
  <2>4. ExistsBijection(s, new)
    BY <2>3 DEF ExistsBijection
  <2> QED BY <1>3, <2>4, FS_Bijection
<1>5. \A y : y \in new <=> \E p \in s : y = <<p, loaders[p] + 1>>
  OBVIOUS
<1> HIDE DEF new, f
<1>6. Fibers' = Fibers \cup new /\ Fibers \cap new = {}
  <2>1. ASSUME NEW r \in Pages, NEW n \in Nat
        PROVE  /\ <<r, n>> \in Fibers' <=> <<r, n>> \in Fibers \/ <<r, n>> \in new
               /\ ~(<<r, n>> \in Fibers /\ <<r, n>> \in new)
    <3>1. <<r, n>> \in new <=> r \in s /\ n = loaders[r] + 1
      BY <1>5
    <3>2. (<<r, n>> \in Fibers <=> n \in 1 .. loaders[r]) /\ (<<r, n>> \in Fibers' <=> n \in 1 .. loaders'[r])
      BY DEF Fibers
    <3>3. loaders[r] \in Nat
      BY <1>1
    <3> QED BY <1>2, <3>1, <3>2, <3>3
  <2>2. Fibers' \subseteq Pages \X Nat /\ Fibers \subseteq Pages \X Nat
    BY DEF Fibers
  <2>3. new \subseteq Pages \X Nat
    BY <1>1, <1>5
  <2>4. ASSUME NEW y \in Pages \X Nat
        PROVE  (y \in Fibers' <=> y \in Fibers \/ y \in new) /\ ~(y \in Fibers /\ y \in new)
    <3>1. PICK r \in Pages, n \in Nat : y = <<r, n>>
      OBVIOUS
    <3> QED BY <2>1, <3>1
  <2> QED BY <2>2, <2>3, <2>4
<1>7. Cardinality(Fibers') = Cardinality(Fibers) + Cardinality(new) - Cardinality({}) /\ IsFiniteSet(Fibers')
  BY <1>1, <1>4, <1>6, FS_Union
<1>8. Cardinality({}) = 0 /\ Cardinality(Fibers) \in Nat /\ Cardinality(Fibers') \in Nat
  BY <1>1, <1>7, FS_EmptySet, FS_CardinalityType
<1> QED BY <1>3, <1>4, <1>7, <1>8

LEMMA PoolInit == ASSUME Init PROVE PoolInv
<1>1. OnDuty = Workers
  BY DEF Init, OnDuty
<1>2. Fibers = {}
  BY DEF Init, Fibers
<1>3. IsFiniteSet({}) /\ Cardinality({}) = 0
  BY FS_EmptySet
<1>4. Cardinality(Workers) \in Nat /\ NumHelpers \in Nat
  BY WorkersCount, ScomAssumption
<1>5. numWorkers = Cardinality(Workers) + NumHelpers /\ helpers = NumHelpers /\ service = "running"
  BY DEF Init
<1>6. CountMatches
  BY <1>1, <1>2, <1>3, <1>4, <1>5 DEF CountMatches
<1>7. WorkersBounded
  BY <1>4, <1>5 DEF WorkersBounded, OwnWorkers
<1> QED BY <1>6, <1>7 DEF PoolInv

LEMMA PoolNext ==
  ASSUME ScomInv, [Next]_vars
  PROVE  PoolInv' /\ numWorkers' \in Nat
<1> USE DEF db, history, pool
<1>0. /\ PoolInv /\ numWorkers \in Nat /\ helpers \in Nat /\ loaders \in [Pages -> Nat]
      /\ worker \in [Workers -> {"check", "body", "begun", "off"}] /\ NumHelpers \in Nat
      /\ "main" \in Workers /\ "rules" \in Workers
  BY ScomAssumption DEF ScomInv, ScomTypeOK, PoolInv, Workers
<1>a. numWorkers = Cardinality(OnDuty) + helpers + Cardinality(Fibers)
  BY DEF ScomInv, CountMatches
<1>b. service = "stopped" => numWorkers = 0
  BY DEF ScomInv, CountMatches
<1>c. IsFiniteSet(Fibers) /\ Cardinality(Fibers) \in Nat
  BY FS_CardinalityType DEF ScomInv, CountMatches
<1>d. IsFiniteSet(OnDuty) /\ Cardinality(OnDuty) \in Nat
  BY WorkersCount DEF OnDuty
<1>e. ASSUME UNCHANGED pool, service' = "stopped" => numWorkers = 0 PROVE PoolInv' /\ numWorkers' \in Nat
  BY <1>0, <1>e, PoolFrame
<1>1. CASE Create \/ StartInstance \/ StartFails \/ StopInstance \/ Destroy
  BY <1>1, <1>b, <1>e DEF Create, StartInstance, StartFails, StopInstance, Destroy
<1>2. CASE Setup
  BY <1>2, <1>b, <1>e DEF Setup
<1>3. ASSUME NEW w \in Workers, Check(w) PROVE PoolInv' /\ numWorkers' \in Nat
  <2>1. \A v \in Workers : worker'[v] = "off" <=> worker[v] = "off"
    BY <1>0, <1>3 DEF Check
  <2>2. UNCHANGED <<helpers, loaders, numWorkers, service>>
    BY <1>3 DEF Check
  <2> QED BY <1>0, <1>b, <2>1, <2>2, PoolFrame
<1>4. ASSUME NEW w \in Workers, WorkerEnds(w) PROVE PoolInv' /\ numWorkers' \in Nat
  <2>1. /\ Cardinality(OnDuty') = Cardinality(OnDuty) - 1 /\ Cardinality(OnDuty') \in Nat
    BY <1>4, WorkerLeaves DEF WorkerEnds
  <2>2. Fibers' = Fibers /\ helpers' = helpers /\ service' = service /\ numWorkers' = numWorkers - 1
    BY <1>4 DEF WorkerEnds, Fibers
  <2>3. numWorkers' = Cardinality(OnDuty') + helpers' + Cardinality(Fibers') /\ numWorkers' \in Nat
    BY <1>0, <1>a, <1>c, <1>d, <2>1, <2>2
  <2>4. service' = "stopped" => numWorkers' = 0
    BY <1>0, <1>b, <2>2, <2>3
  <2>5. CountMatches'
    BY <1>c, <2>2, <2>3, <2>4 DEF CountMatches
  <2> QED BY <2>2, <2>3, <2>5, PoolShrinks
<1>5. CASE HelperEnds
  <2>1. /\ Fibers' = Fibers /\ OnDuty' = OnDuty /\ helpers' = helpers - 1 /\ helpers > 0
        /\ service' = service /\ numWorkers' = numWorkers - 1
    BY <1>0, <1>5 DEF HelperEnds, Fibers, OnDuty
  <2>2. numWorkers' = Cardinality(OnDuty') + helpers' + Cardinality(Fibers') /\ numWorkers' \in Nat
    BY <1>0, <1>a, <1>c, <1>d, <2>1
  <2>3. service' = "stopped" => numWorkers' = 0
    BY <1>0, <1>b, <2>1, <2>2
  <2>4. CountMatches'
    BY <1>c, <2>1, <2>2, <2>3 DEF CountMatches
  <2> QED BY <2>1, <2>2, <2>4, PoolShrinks
<1>6. ASSUME NEW p \in Pages, Loader(p) PROVE PoolInv' /\ numWorkers' \in Nat
  <2>1. /\ IsFiniteSet(Fibers')
        /\ Cardinality(Fibers') = Cardinality(Fibers) - 1 /\ Cardinality(Fibers') \in Nat
    BY <1>6, LoaderLeaves DEF Loader
  <2>2. OnDuty' = OnDuty /\ helpers' = helpers /\ service' = service /\ numWorkers' = numWorkers - 1
    BY <1>6 DEF Loader, OnDuty
  <2>3. numWorkers' = Cardinality(OnDuty') + helpers' + Cardinality(Fibers') /\ numWorkers' \in Nat
    BY <1>0, <1>a, <1>c, <1>d, <2>1, <2>2
  <2>4. service' = "stopped" => numWorkers' = 0
    BY <1>0, <1>b, <2>2, <2>3
  <2>5. CountMatches'
    BY <2>1, <2>2, <2>3, <2>4 DEF CountMatches
  <2> QED BY <2>2, <2>3, <2>5, PoolShrinks
<1>7. CASE MainIdle \/ MainBegin \/ ApplyRules
  <2>1. PICK w \in Workers, to \in {"check", "begun"} :
          worker[w] = "body" /\ worker' = [worker EXCEPT ![w] = to]
    BY <1>0, <1>7 DEF MainIdle, MainBegin, ApplyRules, Back
  <2>2. \A v \in Workers : worker'[v] = "off" <=> worker[v] = "off"
    BY <1>0, <2>1
  <2>3. UNCHANGED <<helpers, loaders, numWorkers, service>>
    BY <1>7 DEF MainIdle, MainBegin, ApplyRules
  <2> QED BY <1>0, <1>b, <2>2, <2>3, PoolFrame
<1>8. CASE Main
  <2>1. PICK t : LoopInv(t) /\ Cardinality(t.spawned) \in 0 .. Granula /\ Spawn(t.spawned)
    BY <1>8, MainEffect
  <2>2. t.spawned \in SUBSET Pages
    BY <2>1 DEF LoopInv, LoopTables
  <2>3. /\ IsFiniteSet(Fibers') /\ Cardinality(Fibers') = Cardinality(Fibers) + Cardinality(t.spawned)
        /\ Cardinality(t.spawned) \in Nat
    BY <2>1, <2>2, LoadersArrive
  <2>4. /\ worker' = [worker EXCEPT !["main"] = "check"] /\ worker["main"] = "begun"
        /\ helpers' = helpers /\ service' = service /\ numWorkers < MaxWorkers
        /\ numWorkers' = numWorkers + Cardinality(t.spawned)
    <3>1. MaxWorkers \in Nat
      BY ScomAssumption
    <3> QED BY <1>0, <1>8, <2>1, <3>1 DEF Main, Back, Spawn, ScomInv, Begun
  <2>5. OnDuty' = OnDuty /\ "main" \in OnDuty
    BY <1>0, <2>4 DEF OnDuty
  <2>6. numWorkers > 0
    <3>1. Cardinality(OnDuty) # 0
      BY <1>d, <2>5, FS_EmptySet
    <3> QED BY <1>0, <1>a, <1>c, <1>d, <3>1
  <2>7. numWorkers' = Cardinality(OnDuty') + helpers' + Cardinality(Fibers') /\ numWorkers' \in Nat
    BY <1>0, <1>a, <1>c, <1>d, <2>3, <2>4, <2>5
  <2>8. CountMatches'
    BY <1>b, <2>3, <2>4, <2>6, <2>7 DEF CountMatches
  <2>9. WorkersBounded'
    <3>1. Cardinality(t.spawned) <= Granula /\ Granula \in Nat /\ MaxWorkers \in Nat
      BY <2>1, ScomAssumption
    <3>2. numWorkers' < MaxWorkers + Granula
      BY <1>0, <2>3, <2>4, <3>1
    <3> QED BY <3>2 DEF WorkersBounded
  <2> QED BY <2>7, <2>8, <2>9 DEF PoolInv
<1>9. CASE DeleteOldInstance \/ RestatusPend \/ DeleteOldHosts
  BY <1>9, <1>b, <1>e DEF DeleteOldInstance, RestatusPend, DeleteOldHosts, HelperRuns
<1>10. CASE Merge \/ Answered
  <2>1. UNCHANGED <<worker, helpers, loaders, numWorkers>> /\ (service' = service \/ service' = "exited")
    BY <1>10 DEF Merge, Answered, MergerOnly
  <2> QED BY <1>0, <1>b, <2>1, PoolFrame
<1>11. CASE SignalDone
  BY <1>0, <1>11, <1>b, PoolFrame DEF SignalDone
<1>12. CASE StopBegins
  BY <1>12, <1>e DEF StopBegins
<1>13. CASE StopCheck
  BY <1>13, <1>e DEF StopCheck
<1>14. CASE StopWakes
  BY <1>0, <1>14, PoolFrame DEF StopWakes
<1>15. CASE Start
  <2>1. numWorkers = 0 /\ Cardinality(Fibers) = 0
    BY <1>0, <1>15, <1>a, <1>b, <1>c, <1>d DEF Start
  <2>2. /\ Fibers' = Fibers /\ helpers' = NumHelpers /\ service' = "running" /\ OnDuty' = Workers
        /\ numWorkers' = Cardinality(Workers) + NumHelpers
    <3>1. Cardinality(Workers) \in Nat
      BY WorkersCount
    <3>2. worker' = [w \in Workers |-> "check"] /\ loaders' = loaders /\ helpers' = NumHelpers
          /\ service' = "running" /\ numWorkers' = numWorkers + Cardinality(Workers) + NumHelpers
      BY <1>15 DEF Start
    <3> QED BY <1>0, <2>1, <3>1, <3>2 DEF Fibers, OnDuty
  <2>3. Cardinality(Workers) \in Nat
    BY WorkersCount
  <2>4. numWorkers' = Cardinality(OnDuty') + helpers' + Cardinality(Fibers') /\ numWorkers' \in Nat
    BY <1>0, <2>1, <2>2, <2>3
  <2>5. CountMatches'
    BY <1>c, <2>2, <2>4 DEF CountMatches
  <2>6. WorkersBounded'
    BY <1>0, <2>2, <2>3 DEF WorkersBounded, OwnWorkers
  <2> QED BY <2>4, <2>5, <2>6 DEF PoolInv
<1>16. CASE Tick \/ UNCHANGED vars
  BY <1>16, <1>b, <1>e DEF Tick, vars
<1> QED BY <1>1, <1>2, <1>3, <1>4, <1>5, <1>6, <1>7, <1>8, <1>9, <1>10, <1>11, <1>12, <1>13, <1>14, <1>15,
           <1>16 DEF Next

-----------------------------------------------------------------------------
(* What is pending has a loader. *)

RowsInv == AbsentIdle /\ PendingIsLoaded

LEMMA RowsFrame ==
  ASSUME ScomInv, orphans \subseteq orphans',
         \A p \in Pages : loaders[p] > 0 => loaders'[p] > 0,
         \A p \in Pages : \/ page'[p].status = "null"
                          \/ /\ page'[p].status = page[p].status
                             /\ page'[p].access = "absent" => page[p].access = "absent"
  PROVE  RowsInv'
BY DEF RowsInv, ScomInv, AbsentIdle, PendingIsLoaded

LEMMA RowsSame ==
  ASSUME ScomInv, UNCHANGED <<page, loaders, orphans>> PROVE RowsInv'
BY RowsFrame

LEMMA RowsUpdated ==
  ASSUME ScomInv, page' = Stored(Entry), UNCHANGED <<loaders, orphans>> PROVE RowsInv'
<1>1. ScomTypeOK
  BY DEF ScomInv
<1>2. ASSUME NEW p \in Pages
      PROVE  /\ page'[p].status = page[p].status
             /\ page'[p].access = "absent" => page[p].access = "absent"
  <2>1. /\ page'[p].status = page[p].status
        /\ page'[p].access = IF Judged(Entry).access[p] # Loaded(Entry)[p]
                             THEN Judged(Entry).access[p] ELSE page[p].access
        /\ Judged(Entry).access[p] = "absent" => Loaded(Entry)[p] = "absent"
    BY <1>1, Updates
  <2> QED BY <2>1
<1> QED BY <1>2, RowsFrame

LEMMA RowsNext ==
  ASSUME ScomInv, [Next]_vars
  PROVE  RowsInv'
<1> USE DEF db, history, pool
<1>0. ScomTypeOK /\ page \in [Pages -> PageRows] /\ loaders \in [Pages -> Nat] /\ orphans \subseteq Pages
  BY DEF ScomInv, ScomTypeOK
<1>1. CASE Create \/ StartFails \/ StopInstance
  BY <1>1, RowsSame DEF Create, StartFails, StopInstance
<1>2. CASE Setup
  <2>1. PICK new \in SUBSET Pages : page' = insertPageIfAbsent(new)
    BY <1>2 DEF Setup
  <2>2. \A p \in Pages : \/ page'[p].status = "null"
                         \/ page'[p] = page[p]
    BY <1>0, <2>1, Inserts
  <2> QED BY <1>2, <2>2, RowsFrame DEF Setup
<1>3. CASE StartInstance
  BY <1>3, RowsUpdated DEF StartInstance, UpdateOk
<1>4. CASE Destroy
  <2>1. \A p \in Pages : page'[p].status = "null"
    BY <1>4 DEF Destroy, NoPage
  <2> QED BY <2>1 DEF RowsInv, AbsentIdle, PendingIsLoaded
<1>5. ASSUME NEW w \in Workers, Check(w) \/ WorkerEnds(w) PROVE RowsInv'
  BY <1>5, RowsSame DEF Check, WorkerEnds
<1>6. CASE \/ HelperEnds \/ MainIdle \/ MainBegin \/ DeleteOldInstance \/ RestatusPend \/ DeleteOldHosts
           \/ Merge \/ Answered
  BY <1>6, RowsSame DEF HelperEnds, MainIdle, MainBegin, DeleteOldInstance, RestatusPend, DeleteOldHosts,
                        HelperRuns, Merge, Answered, MergerOnly
<1>7. CASE Main
  <2>1. PICK t : /\ LoopInv(t) /\ Spawn(t.spawned)
                 /\ page' = t.page \/ page' = page
    BY <1>7, MainEffect
  <2>2. orphans' = orphans
    BY <1>7 DEF Main
  <2>3. \A p \in Pages : loaders'[p] = loaders[p] + (IF p \in t.spawned THEN 1 ELSE 0)
    BY <2>1 DEF Spawn
  <2>4. CASE page' = page
    BY <1>0, <2>2, <2>3, <2>4, RowsFrame
  <2>5. CASE page' = t.page
    <3>1. ASSUME NEW p \in Pages
          PROVE  /\ page'[p].access = page[p].access
                 /\ page'[p].status = IF p \in t.spawned THEN "pend" ELSE page[p].status
                 /\ p \in t.spawned => page[p].access = "use" /\ loaders'[p] > 0
      <4>1. p \in t.spawned => page[p].access = "use"
        BY <2>1 DEF LoopInv, Due
      <4> QED BY <1>0, <2>1, <2>3, <2>5, <4>1 DEF LoopInv
    <3>2. AbsentIdle'
      BY <3>1 DEF AbsentIdle, ScomInv
    <3>3. PendingIsLoaded'
      <4>1. ASSUME NEW p \in Pages, page'[p].status = "pend" PROVE loaders'[p] > 0 \/ p \in orphans'
        <5>1. CASE p \in t.spawned
          BY <3>1, <5>1
        <5>2. CASE p \notin t.spawned
          <6>1. page[p].status = "pend"
            BY <3>1, <4>1, <5>2
          <6>2. loaders[p] > 0 \/ p \in orphans
            BY <6>1 DEF PendingIsLoaded, ScomInv
          <6> QED BY <1>0, <2>2, <2>3, <5>2, <6>2
        <5> QED BY <5>1, <5>2
      <4> QED BY <4>1 DEF PendingIsLoaded
    <3> QED BY <3>2, <3>3 DEF RowsInv
  <2> QED BY <2>1, <2>4, <2>5
<1>8. CASE ApplyRules
  <2>1. UNCHANGED <<loaders, orphans>> /\ (UNCHANGED page \/ page' = Stored(Entry))
    BY <1>8 DEF ApplyRules, UpdateOk
  <2> QED BY <2>1, RowsSame, RowsUpdated
<1>9. ASSUME NEW p \in Pages, Loader(p) PROVE RowsInv'
  <2>1. \A r \in Pages : loaders'[r] = IF r = p THEN loaders[p] - 1 ELSE loaders[r]
    BY <1>0, <1>9 DEF Loader
  <2>2. CASE \E links \in SUBSET (Pages \ Present) :
               /\ page' = [insertPageIfAbsent(links) EXCEPT
                             ![p].status = IF p \in Present THEN "done" ELSE @]
               /\ UNCHANGED <<faults, orphans>>
    <3>1. PICK links :
               /\ page' = [insertPageIfAbsent(links) EXCEPT
                             ![p].status = IF p \in Present THEN "done" ELSE @]
               /\ UNCHANGED <<faults, orphans>>
      BY <2>2
    <3> DEFINE i == insertPageIfAbsent(links)
    <3>2. i \in [Pages -> PageRows]
      BY <1>0, Inserts
    <3>3. \A r \in Pages : i[r].status = "null" \/ i[r] = page[r]
      BY <1>0, Inserts
    <3> HIDE DEF i
    <3>4. /\ \A r \in Pages \ {p} : page'[r] = i[r]
          /\ page'[p].access = i[p].access
          /\ page'[p].status = IF p \in Present THEN "done" ELSE i[p].status
      BY <3>1, <3>2 DEF i, PageRows
    <3>5. ASSUME NEW r \in Pages
          PROVE  /\ page'[r].access = "absent" => page'[r].status = "null"
                 /\ page'[r].status = "pend" => loaders'[r] > 0 \/ r \in orphans
      <4>1. CASE r # p
        <5>1. page'[r] = i[r] /\ loaders'[r] = loaders[r]
          BY <2>1, <3>4, <4>1
        <5>2. i[r].access = "absent" => i[r].status = "null"
          BY <3>3 DEF ScomInv, AbsentIdle
        <5>3. i[r].status = "pend" => loaders[r] > 0 \/ r \in orphans
          BY <3>3 DEF ScomInv, PendingIsLoaded
        <5> QED BY <5>1, <5>2, <5>3
      <4>2. CASE r = p /\ p \in Present
        <5>1. page[p].access # "absent"
          BY <4>2 DEF Present
        <5>2. i[p] = page[p]
          BY <1>0, <5>1, Inserts DEF i
        <5> QED BY <3>4, <4>2, <5>1, <5>2
      <4>3. CASE r = p /\ p \notin Present
        <5>1. page[p].access = "absent"
          BY <4>3 DEF Present
        <5>2. page[p].status = "null"
          BY <5>1 DEF ScomInv, AbsentIdle
        <5> QED BY <3>3, <3>4, <4>3, <5>2
      <4> QED BY <4>1, <4>2, <4>3
    <3> QED BY <3>1, <3>5 DEF RowsInv, AbsentIdle, PendingIsLoaded
  <2>3. CASE orphans' = orphans \cup {q \in {p} : page[q].status = "pend"} /\ UNCHANGED page
    <3>1. ASSUME NEW r \in Pages, page'[r].status = "pend" PROVE loaders'[r] > 0 \/ r \in orphans'
      BY <2>1, <2>3, <3>1 DEF ScomInv, PendingIsLoaded
    <3> QED BY <2>3, <3>1 DEF RowsInv, PendingIsLoaded, AbsentIdle, ScomInv
  <2> QED BY <1>9, <2>2, <2>3 DEF Loader
<1>10. CASE SignalDone \/ StopBegins \/ StopCheck \/ StopWakes
  BY <1>10, RowsSame DEF SignalDone, StopBegins, StopCheck, StopWakes
<1>11. CASE Start \/ Tick \/ UNCHANGED vars
  BY <1>11, RowsSame DEF Start, Tick, vars
<1> QED BY <1>1, <1>2, <1>3, <1>4, <1>5, <1>6, <1>7, <1>8, <1>9, <1>10, <1>11 DEF Next

-----------------------------------------------------------------------------
(* What the cache remembers. *)

RememberedInv == CacheTruthful /\ CacheStartsEmpty

LEMMA RememberedSame ==
  ASSUME ScomInv, UNCHANGED <<stage, rules, tainted>>, cache' = cache \/ ~cache'.known,
         \A p \in Pages : page'[p].access = page[p].access \/ page[p].access = "absent"
  PROVE  RememberedInv'
<1>1. CASE ~cache'.known
  BY <1>1 DEF RememberedInv, CacheTruthful, CacheStartsEmpty
<1>2. CASE cache' = cache
  BY <1>2 DEF RememberedInv, CacheTruthful, CacheStartsEmpty, ScomInv
<1> QED BY <1>1, <1>2

LEMMA RememberedDone ==
  ASSUME ScomInv, stage \in {"init", "load"}, stage' = "load", UNCHANGED <<rules, tainted>>,
         cache' = Judged(Entry), page' = Stored(Entry)
  PROVE  RememberedInv'
<1>1. ScomTypeOK
  BY DEF ScomInv
<1>2. CASE tainted
  BY <1>2 DEF RememberedInv, CacheTruthful, CacheStartsEmpty
<1>3. CASE ~tainted
  <2>1. /\ Entry.rules = rules
        /\ \A p \in Pages : Entry.access[p] \in {"absent", page[p].access}
    <3>1. CASE cache.known
      BY <1>3, <3>1 DEF Entry, ScomInv, CacheTruthful, CacheStartsEmpty
    <3>2. CASE ~cache.known
      BY <3>2 DEF Entry, NoCache
    <3> QED BY <3>1, <3>2
  <2>2. \A p \in Pages : Loaded(Entry)[p] = page[p].access
    BY <2>1 DEF Loaded
  <2>3. \A p \in Pages : page'[p].access = IF Judged(Entry).access[p] # Loaded(Entry)[p]
                                          THEN Judged(Entry).access[p] ELSE page[p].access
    BY <1>1, Updates
  <2>4. cache'.rules = rules' /\ \A p \in Pages : cache'.access[p] = page'[p].access
    BY <1>1, <2>1, <2>2, <2>3, Updates
  <2> QED BY <2>4 DEF RememberedInv, CacheTruthful, CacheStartsEmpty
<1> QED BY <1>2, <1>3

LEMMA RememberedNext ==
  ASSUME ScomInv, [Next]_vars
  PROVE  RememberedInv'
<1> USE DEF db, history, pool
<1>0. ScomTypeOK /\ stage \in {"none", "init", "load", "gone"} /\ tainted \in BOOLEAN /\ cache.known \in BOOLEAN
  BY DEF ScomInv, ScomTypeOK, Caches
<1>1. CASE Create
  BY <1>1 DEF Create, ScomInv, RememberedInv, CacheTruthful, CacheStartsEmpty
<1>2. CASE Setup
  <2>1. stage' = "init" /\ stage = "init" /\ UNCHANGED <<cache, tainted>>
    BY <1>2 DEF Setup
  <2> QED BY <2>1 DEF ScomInv, RememberedInv, CacheTruthful, CacheStartsEmpty
<1>3. CASE StartInstance
  BY <1>3, RememberedDone DEF StartInstance, UpdateOk
<1>4. CASE StartFails
  <2>1. tainted' = cache'.known
    BY <1>4 DEF StartFails
  <2>2. cache'.known => tainted'
    BY <2>1
  <2> QED BY <2>2 DEF RememberedInv, CacheTruthful, CacheStartsEmpty
<1>5. CASE StopInstance
  BY <1>5, RememberedSame DEF StopInstance
<1>6. CASE Destroy \/ DeleteOldInstance
  <2>1. stage' = "gone"
    BY <1>6 DEF Destroy, DeleteOldInstance
  <2> QED BY <2>1 DEF RememberedInv, CacheTruthful, CacheStartsEmpty
<1>7. ASSUME NEW w \in Workers, Check(w) \/ WorkerEnds(w) PROVE RememberedInv'
  BY <1>7, RememberedSame DEF Check, WorkerEnds
<1>8. CASE \/ HelperEnds \/ MainIdle \/ MainBegin \/ RestatusPend \/ DeleteOldHosts
           \/ Merge \/ Answered
  BY <1>8, RememberedSame DEF HelperEnds, MainIdle, MainBegin, RestatusPend, DeleteOldHosts, HelperRuns,
                              Merge, Answered, MergerOnly
<1>9. CASE Main
  <2>1. PICK t : LoopInv(t) /\ (page' = t.page \/ page' = page)
    BY <1>9, MainEffect
  <2>2. \A p \in Pages : page'[p].access = page[p].access
    BY <2>1 DEF LoopInv
  <2> QED BY <1>9, <2>2, RememberedSame DEF Main
<1>10. CASE ApplyRules
  <2>0. UNCHANGED <<stage, rules>>
    BY <1>10 DEF ApplyRules
  <2>1. CASE UNCHANGED <<page, cache, tainted>>
    BY <2>0, <2>1, RememberedSame
  <2>2. CASE Undecided /\ cache' = UpdateOk.cache /\ page' = UpdateOk.page /\ UNCHANGED tainted
    BY <2>0, <2>2, RememberedDone DEF UpdateOk, Undecided
  <2>3. CASE Undecided /\ cache' = UpdateOk.cache /\ tainted' = TRUE
    BY <2>0, <2>3 DEF RememberedInv, CacheTruthful, CacheStartsEmpty
  <2>4. CASE /\ Undecided /\ UNCHANGED page
             /\ \E u \in UpdateFailures :
                     cache' = u.cache /\ tainted' = (u.cache.known /\ (tainted \/ u.bad))
    <3>1. PICK u \in UpdateFailures :
                     cache' = u.cache /\ tainted' = (u.cache.known /\ (tainted \/ u.bad))
      BY <2>4
    <3>2. stage = "load" /\ stage' = "load"
      BY <2>0, <2>4 DEF Undecided
    <3>3. CASE tainted \/ u.bad
      BY <3>1, <3>2, <3>3 DEF RememberedInv, CacheTruthful, CacheStartsEmpty
    <3>4. CASE ~tainted /\ ~u.bad
      <4>1. ~cache'.known \/ cache' = Entry
        BY <1>0, <3>1, <3>4, FailureCases
      <4>2. CASE ~cache'.known
        BY <3>2, <4>2 DEF RememberedInv, CacheTruthful, CacheStartsEmpty
      <4>3. CASE cache' = Entry
        <5>1. /\ Entry.rules = rules
              /\ \A p \in Pages : Entry.access[p] \in {"absent", page[p].access}
          <6>1. CASE cache.known
            BY <3>2, <3>4, <6>1 DEF Entry, ScomInv, CacheTruthful
          <6>2. CASE ~cache.known
            BY <6>2 DEF Entry, NoCache
          <6> QED BY <6>1, <6>2
        <5> QED BY <2>0, <2>4, <3>2, <4>3, <5>1 DEF RememberedInv, CacheTruthful, CacheStartsEmpty
      <4> QED BY <4>1, <4>2, <4>3
    <3> QED BY <3>3, <3>4
  <2> QED BY <1>10, <2>1, <2>2, <2>3, <2>4 DEF ApplyRules
<1>11. ASSUME NEW p \in Pages, Loader(p) PROVE RememberedInv'
  <2>1. UNCHANGED <<stage, rules, tainted, cache>>
    BY <1>11 DEF Loader
  <2>2. \A r \in Pages : page'[r].access = page[r].access \/ page[r].access = "absent"
    <3>1. CASE UNCHANGED page
      BY <3>1
    <3>2. CASE \E links : page' = [insertPageIfAbsent(links) EXCEPT
                                     ![p].status = IF p \in Present THEN "done" ELSE @]
      <4>1. PICK links : page' = [insertPageIfAbsent(links) EXCEPT
                                    ![p].status = IF p \in Present THEN "done" ELSE @]
        BY <3>2
      <4> DEFINE i == insertPageIfAbsent(links)
      <4>2. i \in [Pages -> PageRows] /\ \A r \in Pages : i[r] = page[r] \/ page[r].access = "absent"
        BY <1>0, Inserts
      <4> HIDE DEF i
      <4>3. \A r \in Pages : page'[r].access = i[r].access
        BY <4>1, <4>2 DEF i, PageRows
      <4> QED BY <4>2, <4>3
    <3> QED BY <1>11, <3>1, <3>2 DEF Loader
  <2> QED BY <2>1, <2>2, RememberedSame
<1>12. CASE SignalDone \/ StopCheck \/ StopWakes \/ Tick \/ UNCHANGED vars
  BY <1>12, RememberedSame DEF SignalDone, StopCheck, StopWakes, Tick, vars
<1>13. CASE StopBegins \/ Start
  <2>1. ~cache'.known
    BY <1>13 DEF StopBegins, Start, NoCache
  <2> QED BY <2>1 DEF RememberedInv, CacheTruthful, CacheStartsEmpty
<1> QED BY <1>1, <1>2, <1>3, <1>4, <1>5, <1>6, <1>7, <1>8, <1>9, <1>10, <1>11, <1>12, <1>13 DEF Next

-----------------------------------------------------------------------------
(* Hosts and when they were asked. *)

HostsInv == RowsDistinct /\ AskedKnown

LEMMA HostsFrame ==
  ASSUME ScomInv, UNCHANGED <<active, nextHost, asked>>,
         clock \in Nat, clock' \in Nat, clock <= clock',
         \A p \in Pages : page'[p].host = page[p].host \/ page'[p].host = 0
  PROVE  HostsInv'
<1>0. /\ nextHost \in Nat /\ HostDelay \in Nat
      /\ \A h \in Hosts : active[h].id \in Nat /\ active[h].atime \in Nat /\ asked[h] \in Nat
  BY ScomAssumption DEF ScomInv, ScomTypeOK, HostRows
<1>1. RowsDistinct'
  <2>1. \A h \in Hosts : active[h].id < nextHost /\ active[h].atime <= clock'
    BY <1>0 DEF ScomInv, RowsDistinct
  <2>2. \A p \in Pages :
         /\ page'[p].host < nextHost
         /\ \A h \in Hosts : page'[p].host # 0 /\ active[h].id = page'[p].host => h = HostOf(p)
    BY DEF ScomInv, RowsDistinct
  <2> QED BY <2>1, <2>2 DEF ScomInv, RowsDistinct
<1>2. AskedKnown'
  BY <1>0 DEF ScomInv, AskedKnown
<1> QED BY <1>1, <1>2 DEF HostsInv

LEMMA HostsSame ==
  ASSUME ScomInv, UNCHANGED <<active, nextHost, asked, clock>>,
         \A p \in Pages : page'[p].host = page[p].host \/ page'[p].host = 0
  PROVE  HostsInv'
<1>1. clock \in Nat
  BY DEF ScomInv, ScomTypeOK
<1> QED BY <1>1, HostsFrame

(* A granula of loads leaves the hosts it asked stamped. *)
LEMMA HostsStamped ==
  ASSUME ScomInv, NEW t, LoopInv(t), active' = t.active, nextHost' = t.next, page' = t.page,
         asked' = AskedBy(t.spawned), UNCHANGED clock
  PROVE  HostsInv'
<1>0. /\ clock \in Nat /\ began \in Nat /\ began <= clock /\ nextHost \in Nat /\ t.next \in Nat /\ HostDelay \in Nat
      /\ \A h \in Hosts : asked[h] \in Nat
  BY ScomAssumption DEF ScomInv, ScomTypeOK, LoopInv, LoopTables, Begun
<1>1. RowsDistinct'
  <2>1. nextHost' > 0
    BY <1>0 DEF LoopInv, ScomInv, RowsDistinct
  <2> QED BY <2>1 DEF RowsDistinct, LoopInv
<1>2. ASSUME NEW h \in Hosts
      PROVE  /\ asked'[h] <= clock
             /\ \/ asked'[h] = 0 \/ asked'[h] + HostDelay <= clock
                \/ t.active[h].id # 0 /\ asked'[h] <= t.active[h].atime
  <2>1. asked'[h] = IF \E p \in t.spawned : HostOf(p) = h THEN began ELSE asked[h]
    BY DEF AskedBy
  <2>2. asked[h] <= clock
    BY <1>2 DEF ScomInv, AskedKnown
  <2>3. CASE t.active[h] = active[h] /\ \A p \in t.spawned : HostOf(p) # h
    <3>1. asked'[h] = asked[h]
      BY <2>1, <2>3
    <3> QED BY <1>2, <2>3, <3>1 DEF ScomInv, AskedKnown
  <2>4. CASE t.active[h].atime = began /\ t.active[h].id # 0 /\ Free(h)
    BY <1>0, <2>1, <2>2, <2>4 DEF Free
  <2> QED BY <2>3, <2>4 DEF LoopInv
<1>3. AskedKnown'
  BY <1>2 DEF AskedKnown
<1> QED BY <1>1, <1>3 DEF HostsInv

LEMMA HostsNext ==
  ASSUME ScomInv, [Next]_vars
  PROVE  HostsInv'
<1> USE DEF db, history, pool
<1>0. ScomTypeOK /\ clock \in Nat
  BY DEF ScomInv, ScomTypeOK
<1>1. CASE Create \/ StartFails \/ StopInstance
  BY <1>1, HostsSame DEF Create, StartFails, StopInstance
<1>2. CASE Setup
  <2>1. PICK new \in SUBSET Pages : page' = insertPageIfAbsent(new)
    BY <1>2 DEF Setup
  <2>2. \A p \in Pages : page'[p].host = page[p].host \/ page'[p].host = 0
    BY <1>0, <2>1, Inserts
  <2> QED BY <1>2, <2>2, HostsSame DEF Setup
<1>3. CASE StartInstance
  <2>1. \A p \in Pages : page'[p].host = page[p].host
    BY <1>0, <1>3, Updates DEF StartInstance, UpdateOk
  <2> QED BY <1>3, <2>1, HostsSame DEF StartInstance
<1>4. CASE Destroy
  <2>1. \A p \in Pages : page'[p].host = 0
    BY <1>4 DEF Destroy, NoPage
  <2> QED BY <1>4, <2>1, HostsSame DEF Destroy
<1>5. ASSUME NEW w \in Workers, Check(w) \/ WorkerEnds(w) PROVE HostsInv'
  BY <1>5, HostsSame DEF Check, WorkerEnds
<1>6. CASE \/ HelperEnds \/ MainIdle \/ MainBegin \/ DeleteOldInstance \/ RestatusPend
           \/ Merge \/ Answered
  BY <1>6, HostsSame DEF HelperEnds, MainIdle, MainBegin, DeleteOldInstance, RestatusPend, HelperRuns,
                         Merge, Answered, MergerOnly
<1>7. CASE Main
  <2>1. PICK t : /\ LoopInv(t)
                 /\ Spawn(t.spawned)
                 /\ \/ /\ page' = t.page /\ active' = t.active /\ nextHost' = t.next
                       /\ asked' = AskedBy(t.spawned) /\ UNCHANGED faults
                    \/ UNCHANGED <<page, active, nextHost, asked>> /\ Fault
    BY <1>7, MainEffect
  <2>2. clock' = clock
    BY <1>7 DEF Main
  <2>3. CASE /\ page' = t.page /\ active' = t.active /\ nextHost' = t.next
             /\ asked' = AskedBy(t.spawned)
    BY <2>1, <2>2, <2>3, HostsStamped
  <2>4. CASE UNCHANGED <<page, active, nextHost, asked>>
    BY <2>2, <2>4, HostsSame
  <2> QED BY <2>1, <2>3, <2>4
<1>8. CASE DeleteOldHosts
  <2>0. /\ HostDelay \in Nat \ {0} /\ HostTimeout \in Nat /\ HostTimeout >= HostDelay
        /\ nextHost \in Nat /\ nextHost > 0
        /\ \A h \in Hosts : active[h].id \in Nat /\ active[h].atime \in Nat /\ asked[h] \in Nat
    BY <1>0, ScomAssumption DEF ScomTypeOK, HostRows, ScomInv, RowsDistinct
  <2>1. /\ UNCHANGED <<page, nextHost, clock, asked>>
        /\ \A h \in Hosts : \/ active'[h] = active[h]
                            \/ /\ active'[h].id = 0 /\ active'[h].atime = 0
                               /\ active[h].atime + HostTimeout <= clock
    <3>1. PICK since \in 1 .. clock :
            active' = [h \in Hosts |->
                         IF active[h].atime + HostTimeout <= since THEN NoHost ELSE active[h]]
      BY <1>8 DEF DeleteOldHosts
    <3>2. since \in Nat /\ since <= clock
      BY <1>0, <3>1
    <3>3. ASSUME NEW h \in Hosts
          PROVE  \/ active'[h] = active[h]
                 \/ /\ active'[h].id = 0 /\ active'[h].atime = 0
                    /\ active[h].atime + HostTimeout <= clock
      <4>1. CASE active[h].atime + HostTimeout <= since
        BY <1>0, <2>0, <3>1, <3>2, <4>1 DEF NoHost
      <4> QED BY <3>1, <4>1
    <3> QED BY <1>8, <3>3 DEF DeleteOldHosts, HelperRuns
  <2>2. RowsDistinct'
    <3>1. ASSUME NEW h \in Hosts
          PROVE  /\ active'[h].id < nextHost /\ active'[h].atime <= clock
                 /\ active'[h].id # 0 => active'[h].id = active[h].id
      BY <1>0, <2>0, <2>1 DEF ScomInv, RowsDistinct
    <3> QED BY <2>1, <3>1 DEF ScomInv, RowsDistinct
  <2>3. ASSUME NEW h \in Hosts
        PROVE  /\ asked[h] <= clock
               /\ \/ asked[h] = 0 \/ asked[h] + HostDelay <= clock
                  \/ active'[h].id # 0 /\ asked[h] <= active'[h].atime
    <3>1. /\ asked[h] <= clock
          /\ \/ asked[h] = 0 \/ asked[h] + HostDelay <= clock
             \/ active[h].id # 0 /\ asked[h] <= active[h].atime
      BY <2>3 DEF ScomInv, AskedKnown
    <3> QED BY <1>0, <2>0, <2>1, <3>1
  <2>4. AskedKnown'
    BY <2>1, <2>3 DEF AskedKnown
  <2> QED BY <2>2, <2>4 DEF HostsInv
<1>9. CASE ApplyRules
  <2>1. UNCHANGED page \/ page' = Stored(Entry)
    BY <1>9 DEF ApplyRules, UpdateOk
  <2>2. \A p \in Pages : page'[p].host = page[p].host
    BY <1>0, <2>1, Updates
  <2> QED BY <1>9, <2>2, HostsSame DEF ApplyRules
<1>10. ASSUME NEW p \in Pages, Loader(p) PROVE HostsInv'
  <2>1. UNCHANGED <<active, nextHost, asked, clock>>
    BY <1>10 DEF Loader
  <2>2. \A r \in Pages : page'[r].host = page[r].host \/ page'[r].host = 0
    <3>1. CASE UNCHANGED page
      BY <3>1
    <3>2. CASE \E links : page' = [insertPageIfAbsent(links) EXCEPT
                                     ![p].status = IF p \in Present THEN "done" ELSE @]
      <4>1. PICK links : page' = [insertPageIfAbsent(links) EXCEPT
                                    ![p].status = IF p \in Present THEN "done" ELSE @]
        BY <3>2
      <4> DEFINE i == insertPageIfAbsent(links)
      <4>2. i \in [Pages -> PageRows] /\ \A r \in Pages : i[r].host = page[r].host \/ i[r].host = 0
        BY <1>0, Inserts
      <4> HIDE DEF i
      <4>3. \A r \in Pages : page'[r].host = i[r].host
        BY <4>1, <4>2 DEF i, PageRows
      <4> QED BY <4>2, <4>3
    <3> QED BY <1>10, <3>1, <3>2 DEF Loader
  <2> QED BY <2>1, <2>2, HostsSame
<1>11. CASE SignalDone \/ StopBegins \/ StopCheck \/ StopWakes
  BY <1>11, HostsSame DEF SignalDone, StopBegins, StopCheck, StopWakes
<1>12. CASE Start \/ UNCHANGED vars
  BY <1>12, HostsSame DEF Start, vars
<1>13. CASE Tick
  <2>1. /\ UNCHANGED <<active, nextHost, asked, page>> /\ clock' = clock + 1
    BY <1>13 DEF Tick
  <2> QED BY <1>0, <2>1, HostsFrame
<1> QED BY <1>1, <1>2, <1>3, <1>4, <1>5, <1>6, <1>7, <1>8, <1>9, <1>10, <1>11, <1>12, <1>13 DEF Next

-----------------------------------------------------------------------------
(* While workerMain waits for its locks. *)

LEMMA BegunSame ==
  ASSUME ScomInv, clock \in Nat, clock' \in Nat, clock <= clock',
         UNCHANGED began, worker'["main"] = "begun" => worker["main"] = "begun",
         numWorkers' = numWorkers \/ numWorkers' = numWorkers - 1
  PROVE  Begun'
<1>1. numWorkers \in Nat /\ MaxWorkers \in Nat /\ began \in Nat
  BY ScomAssumption DEF ScomInv, ScomTypeOK
<1> QED BY <1>1 DEF ScomInv, Begun

LEMMA BegunNext ==
  ASSUME ScomInv, [Next]_vars
  PROVE  Begun'
<1> USE DEF db, history, pool
<1>0. /\ clock \in Nat /\ numWorkers \in Nat /\ MaxWorkers \in Nat
      /\ worker \in [Workers -> {"check", "body", "begun", "off"}] /\ "main" \in Workers
  BY ScomAssumption DEF ScomInv, ScomTypeOK, Workers
<1>1. CASE Create \/ Setup \/ StartInstance \/ StartFails \/ StopInstance \/ Destroy
  BY <1>0, <1>1, BegunSame DEF Create, Setup, StartInstance, StartFails, StopInstance, Destroy
<1>2. ASSUME NEW w \in Workers, Check(w) \/ WorkerEnds(w) PROVE Begun'
  <2>1. UNCHANGED <<began, clock>> /\ (numWorkers' = numWorkers \/ numWorkers' = numWorkers - 1)
    BY <1>2 DEF Check, WorkerEnds
  <2>2. worker'["main"] = "begun" => worker["main"] = "begun"
    BY <1>0, <1>2 DEF Check, WorkerEnds
  <2> QED BY <1>0, <2>1, <2>2, BegunSame
<1>3. CASE MainIdle \/ ApplyRules
  <2>1. UNCHANGED <<began, clock, numWorkers>>
    BY <1>3 DEF MainIdle, ApplyRules
  <2>2. worker'["main"] = "begun" => worker["main"] = "begun"
    BY <1>0, <1>3 DEF MainIdle, ApplyRules, Back
  <2> QED BY <1>0, <2>1, <2>2, BegunSame
<1>4. CASE MainBegin
  BY <1>0, <1>4 DEF MainBegin, TooManyWorkers, Begun
<1>5. CASE Main
  BY <1>0, <1>5 DEF Main, Back, Begun
<1>6. CASE DeleteOldInstance \/ RestatusPend \/ DeleteOldHosts
  BY <1>0, <1>6, BegunSame DEF DeleteOldInstance, RestatusPend, DeleteOldHosts, HelperRuns
<1>7. CASE Merge \/ Answered
  BY <1>0, <1>7, BegunSame DEF Merge, Answered, MergerOnly
<1>8. ASSUME NEW p \in Pages, Loader(p) PROVE Begun'
  <2>1. UNCHANGED <<began, clock, worker>> /\ numWorkers' = numWorkers - 1
    BY <1>8 DEF Loader
  <2> QED BY <1>0, <2>1, BegunSame
<1>9. CASE HelperEnds \/ SignalDone \/ StopBegins \/ StopCheck \/ StopWakes
  BY <1>0, <1>9, BegunSame DEF HelperEnds, SignalDone, StopBegins, StopCheck, StopWakes
<1>10. CASE Start
  BY <1>0, <1>10 DEF Start, Begun, ScomInv
<1>11. CASE Tick \/ UNCHANGED vars
  BY <1>0, <1>11, BegunSame DEF Tick, vars
<1> QED BY <1>1, <1>2, <1>3, <1>4, <1>5, <1>6, <1>7, <1>8, <1>9, <1>10, <1>11 DEF Next

-----------------------------------------------------------------------------
(* The invariant, and what follows from it. *)

LEMMA ScomInit == ASSUME Init PROVE ScomInv
<1>1. ScomTypeOK /\ PoolInv
  BY TypeInit, PoolInit
<1>2. stage = "none" /\ cache = NoCache /\ nextHost = 1 /\ clock = 1
      /\ page = [p \in Pages |-> NoPage] /\ active = [h \in Hosts |-> NoHost]
      /\ asked = [h \in Hosts |-> 0] /\ began = 0 /\ worker["main"] = "check"
  BY DEF Init, Workers
<1>3. AbsentIdle /\ PendingIsLoaded
  BY <1>2 DEF AbsentIdle, PendingIsLoaded, NoPage
<1>4. CacheTruthful /\ CacheStartsEmpty
  BY <1>2 DEF CacheTruthful, CacheStartsEmpty, NoCache
<1>5. RowsDistinct
  BY <1>2 DEF RowsDistinct, NoPage, NoHost
<1>6. AskedKnown
  BY <1>2 DEF AskedKnown
<1>7. Begun
  BY <1>2 DEF Begun
<1> QED BY <1>1, <1>3, <1>4, <1>5, <1>6, <1>7 DEF ScomInv, PoolInv

LEMMA ScomNext == ASSUME ScomInv, [Next]_vars PROVE ScomInv'
<1>1. PoolInv' /\ numWorkers' \in Nat
  BY PoolNext
<1>2. ScomTypeOK'
  BY <1>1, TypeNext
<1>3. RowsInv' /\ RememberedInv' /\ HostsInv' /\ Begun'
  BY RowsNext, RememberedNext, HostsNext, BegunNext
<1> QED BY <1>1, <1>2, <1>3 DEF ScomInv, PoolInv, RowsInv, RememberedInv, HostsInv

LEMMA ScomInvariant == Spec => []ScomInv
<1>1. Init => ScomInv
  BY ScomInit
<1>2. ScomInv /\ [Next]_vars => ScomInv'
  BY ScomNext
<1> QED BY <1>1, <1>2, PTL DEF Spec

(* A page that is pending has a loader that will settle it, unless that    *)
(* loader failed: the transaction that turns pages to 'pend' has spawned   *)
(* the loader of each of them when it commits (workerMain, uriLoader).     *)
THEOREM PendingStaysLoaded == Spec => []PendingIsLoaded
<1>1. ScomInv => PendingIsLoaded
  BY DEF ScomInv
<1> QED BY <1>1, ScomInvariant, PTL

(* The cache of page rules agrees with the tables, through updates that    *)
(* fail at any statement and restarts of the service (PageRuleApplyers-    *)
(* Container::update, Service::start and stop).                            *)
THEOREM CacheStaysTruthful == Spec => []CacheTruthful
<1>1. ScomInv => CacheTruthful
  BY DEF ScomInv
<1> QED BY <1>1, ScomInvariant, PTL

(* _numWorkers is what runs: workerMain overshoots its limit by less than  *)
(* a granula, and when stop returns nothing runs (WorkerRaii, workerMain,  *)
(* Service::stop).                                                         *)
THEOREM WorkersStayAccounted == Spec => []WorkersAccounted
<1>1. ASSUME ScomInv PROVE StopDrains
  <2>1. SUFFICES ASSUME service = "stopped" PROVE /\ \A w \in Workers : worker[w] = "off"
                                                  /\ helpers = 0
                                                  /\ \A p \in Pages : loaders[p] = 0
    BY DEF StopDrains
  <2>2. /\ IsFiniteSet(OnDuty) /\ Cardinality(OnDuty) \in Nat
        /\ IsFiniteSet(Fibers) /\ Cardinality(Fibers) \in Nat /\ helpers \in Nat
        /\ loaders \in [Pages -> Nat]
    BY <1>1, WorkersCount, FS_CardinalityType DEF ScomInv, CountMatches, OnDuty, ScomTypeOK
  <2>3. Cardinality(OnDuty) + helpers + Cardinality(Fibers) = 0
    BY <1>1, <2>1 DEF ScomInv, CountMatches
  <2>4. Cardinality(OnDuty) = 0 /\ helpers = 0 /\ Cardinality(Fibers) = 0
    BY <2>2, <2>3
  <2>5. OnDuty = {} /\ Fibers = {}
    BY <2>2, <2>4, FS_EmptySet
  <2>6. ASSUME NEW p \in Pages PROVE loaders[p] = 0
    <3>1. CASE loaders[p] # 0
      <4>1. <<p, 1>> \in Fibers
        BY <2>2, <3>1 DEF Fibers
      <4> QED BY <2>5, <4>1
    <3> QED BY <3>1
  <2> QED BY <2>4, <2>5, <2>6 DEF OnDuty
<1>2. ScomInv => WorkersAccounted
  BY <1>1 DEF WorkersAccounted, ScomInv
<1> QED BY <1>2, ScomInvariant, PTL

(* No transaction of workerMain loads two pages from one host, and none    *)
(* loads from a host that a committed transaction loaded from less than    *)
(* _net_hostAccessDelay after its BEGIN, by the clock at the spawn of the  *)
(* loaders and not at the BEGIN that is compared with the stamp; though    *)
(* workerHostDeleteOld deletes the row of the host and a later load makes  *)
(* it again, transactions fail, and each waits for its locks in between.   *)
THEOREM HostsAskedPolitely == Spec => HostPolite
<1> DEFINE Asked == {r \in Pages : loaders'[r] > loaders[r]}
           Polite == \A p, q \in Asked :
                       /\ HostOf(p) = HostOf(q) => p = q
                       /\ asked[HostOf(p)] = 0 \/ asked[HostOf(p)] + HostDelay <= clock
<1>1. ASSUME ScomInv, [Next]_vars PROVE [Polite]_vars
  <2>0. loaders \in [Pages -> Nat]
    BY <1>1 DEF ScomInv, ScomTypeOK
  <2>1. CASE Main
    <3>1. PICK t : LoopInv(t) /\ Spawn(t.spawned)
      BY <1>1, <2>1, MainEffect
    <3>2. Asked = t.spawned
      <4>1. t.spawned \subseteq Pages
        BY <3>1 DEF LoopInv, LoopTables
      <4>2. \A p \in Pages : loaders'[p] = loaders[p] + (IF p \in t.spawned THEN 1 ELSE 0)
        BY <3>1 DEF Spawn
      <4> QED BY <2>0, <4>1, <4>2
    <3>3. ASSUME NEW p \in t.spawned, NEW q \in t.spawned
          PROVE  /\ HostOf(p) = HostOf(q) => p = q
                 /\ asked[HostOf(p)] = 0 \/ asked[HostOf(p)] + HostDelay <= clock
      <4>1. HostOf(p) \in Hosts
        BY <3>1, HostOfType DEF LoopInv, LoopTables
      <4>2. /\ Free(HostOf(p))
            /\ \A r, s \in t.spawned : HostOf(r) = HostOf(p) /\ HostOf(s) = HostOf(p) => r = s
        BY <3>1, <4>1 DEF LoopInv
      <4> QED BY <3>3, <4>2 DEF Free
    <3> HIDE DEF Asked
    <3>4. Polite
      BY <3>2, <3>3
    <3> QED BY <3>4
  <2>2. CASE ~Main
    <3>1. \A p \in Pages : ~(loaders'[p] > loaders[p])
      <4>1. UNCHANGED loaders \/ \E p \in Pages : loaders' = [loaders EXCEPT ![p] = @ - 1]
        BY <1>1, <2>2
           DEF Next, Create, Setup, StartInstance, StartFails, StopInstance, Destroy, Check, WorkerEnds,
               MainIdle, MainBegin, DeleteOldInstance, RestatusPend, DeleteOldHosts, ApplyRules, HelperRuns,
               Merge, Answered, MergerOnly,
               Loader, HelperEnds, SignalDone, StopBegins, StopCheck, StopWakes, Start, Tick, vars, pool
      <4> QED BY <2>0, <4>1
    <3>2. Asked = {}
      BY <3>1
    <3> HIDE DEF Asked
    <3>3. Polite
      BY <3>2
    <3> QED BY <3>3
  <2> QED BY <2>1, <2>2
<1>2. ScomInv /\ [Next]_vars =>
        [\A p, q \in {r \in Pages : loaders'[r] > loaders[r]} :
           /\ HostOf(p) = HostOf(q) => p = q
           /\ asked[HostOf(p)] = 0 \/ asked[HostOf(p)] + HostDelay <= clock]_vars
  BY <1>1
<1> QED BY <1>2, ScomInvariant, PTL DEF Spec, HostPolite

-----------------------------------------------------------------------------
(* What the rules of an instance select (PageRules). *)

(* A state that is computed in n steps, whatever a step is. *)
Stays(S, n, F) == \A k \in 1 .. n, s \in S : F[<<k, s>>] \in S
Steps(g, n, b, F) == g[0] = b /\ \A k \in 1 .. n : g[k] = F[<<k, g[k - 1]>>]

LEMMA StepsExist ==
  ASSUME NEW S, NEW b \in S, NEW n \in Nat, NEW F, Stays(S, n, F)
  PROVE  \E g \in [0 .. n -> S] : Steps(g, n, b, F)
<1> DEFINE T == {m \in 0 .. n : \E g \in [0 .. m -> S] :
                       g[0] = b /\ \A k \in 1 .. m : g[k] = F[<<k, g[k - 1]>>]}
<1>1. 0 \in T
  <2>1. PICK g : g = [k \in 0 .. 0 |-> b]
    OBVIOUS
  <2>2. g \in [0 .. 0 -> S] /\ g[0] = b /\ (1 .. 0) = {}
    BY <2>1
  <2> QED BY <2>2
<1>2. ASSUME NEW m \in 0 .. n - 1, m \in T PROVE m + 1 \in T
  <2>1. PICK g \in [0 .. m -> S] : g[0] = b /\ \A k \in 1 .. m : g[k] = F[<<k, g[k - 1]>>]
    BY <1>2
  <2> DEFINE h == [k \in 0 .. m + 1 |-> IF k = m + 1 THEN F[<<m + 1, g[m]>>] ELSE g[k]]
  <2>2. m + 1 \in 0 .. n /\ m + 1 \in 1 .. n /\ g[m] \in S
    BY <2>1
  <2>3. F[<<m + 1, g[m]>>] \in S
    BY <2>2 DEF Stays
  <2>4. h \in [0 .. m + 1 -> S]
    BY <2>1, <2>3
  <2>5. \A k \in 0 .. m : h[k] = g[k]
    OBVIOUS
  <2>6. h[m + 1] = F[<<m + 1, g[m]>>]
    OBVIOUS
  <2> HIDE DEF h
  <2>7. ASSUME NEW k \in 1 .. m + 1 PROVE h[k] = F[<<k, h[k - 1]>>]
    <3>1. k - 1 \in 0 .. m
      OBVIOUS
    <3>2. CASE k = m + 1
      BY <2>5, <2>6, <3>1, <3>2
    <3>3. CASE k \in 1 .. m
      BY <2>1, <2>5, <3>1, <3>3
    <3> QED BY <3>2, <3>3
  <2>8. h[0] = b
    BY <2>1, <2>5
  <2> QED BY <2>2, <2>4, <2>7, <2>8
<1>3. 0 .. n \subseteq T
  <2> HIDE DEF T
  <2> QED BY <1>1, <1>2, Upwards
<1>4. n \in T
  BY <1>3
<1> QED BY <1>4 DEF Steps

RulesTypeOK ==
    /\ refRules \in RuleLists
    /\ refereces \in Seq(SUBSET Nat) /\ \A p \in RulePages : refereces[p] \subseteq RulePages
    /\ Len(refereces) < INT_MAX
    /\ level \in Seq(Int) /\ Len(level) = Len(refereces)
    /\ accessSimple \in Seq(SUBSET Nat) /\ Len(accessSimple) = Len(refereces)
    /\ accessRefs \in Seq(SUBSET Nat) /\ Len(accessRefs) = Len(refereces)

LEMMA RulesTyped ==
  ASSUME RulesTypeOK
  PROVE  /\ Len(refereces) \in Nat /\ RulePages = 1 .. Len(refereces)
         /\ \A n \in 0 .. Len(refereces) : n \in Int /\ n < INT_MAX /\ INT_MAX \in Int
         /\ level \in [RulePages -> Int]
         /\ Len(refRules) \in Nat /\ DOMAIN refRules = 1 .. Len(refRules)
         /\ \A i \in DOMAIN refRules : refRules[i] \in ReferenceRules
<1>1. Len(refereces) \in Nat /\ RulePages = 1 .. Len(refereces)
  BY DEF RulesTypeOK, RulePages
<1>2. \A n \in 0 .. Len(refereces) : n \in Int /\ n < INT_MAX /\ INT_MAX \in Int
  BY <1>1 DEF RulesTypeOK, INT_MAX
<1>3. level \in [RulePages -> Int]
  BY <1>1 DEF RulesTypeOK
<1>4. refRules \in Seq(ReferenceRules)
  BY RulesAssumption DEF RulesTypeOK
<1> QED BY <1>1, <1>2, <1>3, <1>4

-----------------------------------------------------------------------------
(* The reference definition: the pages n links lead to, step by step. *)

Closer(pages) == pages \cup UNION {refereces[p] : p \in pages}

LEMMA ReachSteps ==
  ASSUME RulesTypeOK, NEW source \in RulePages, NEW n \in Nat
  PROVE  \E reach : /\ reach[0] = {source}
                    /\ \A k \in 1 .. n : reach[k] = Closer(reach[k - 1])
                    /\ Within(source, n) = reach[n]
<1> DEFINE S == SUBSET RulePages
           F == [x \in (1 .. n) \X S |-> Closer(x[2])]
           Reaches(g) == g = [k \in 0 .. n |-> IF k = 0 THEN {source} ELSE Closer(g[k - 1])]
           reach == CHOOSE g : Reaches(g)
<1>1. \A s \in S : Closer(s) \in S
  BY DEF RulesTypeOK, Closer
<1>2. {source} \in S
  OBVIOUS
<1>3. \A k \in 1 .. n, s \in S : F[<<k, s>>] = Closer(s)
  OBVIOUS
<1> HIDE DEF S, F
<1>11. Stays(S, n, F)
  BY <1>1, <1>3 DEF Stays
<1>4. PICK g \in [0 .. n -> S] : g[0] = {source} /\ \A k \in 1 .. n : g[k] = F[<<k, g[k - 1]>>]
  <2>1. \E g \in [0 .. n -> S] : Steps(g, n, {source}, F)
    BY <1>2, <1>11, StepsExist
  <2> QED BY <2>1 DEF Steps
<1>5. ASSUME NEW k \in 0 .. n PROVE g[k] = IF k = 0 THEN {source} ELSE Closer(g[k - 1])
  <2>1. k # 0 => k - 1 \in 0 .. n /\ k \in 1 .. n
    OBVIOUS
  <2>2. k # 0 => g[k - 1] \in S
    BY <1>4, <2>1
  <2> QED BY <1>3, <1>4, <2>1, <2>2
<1>6. Reaches(g)
  BY <1>4, <1>5
<1>7. Reaches(reach)
  BY <1>6
<1>8. Within(source, n) = reach[n]
  BY DEF Within, Closer
<1> HIDE DEF reach
<1>9. \A k \in 0 .. n : reach[k] = IF k = 0 THEN {source} ELSE Closer(reach[k - 1])
  BY Zenon, <1>7
<1>10. reach[0] = {source} /\ \A k \in 1 .. n : reach[k] = Closer(reach[k - 1])
  <2>1. 0 \in 0 .. n /\ \A k \in 1 .. n : k \in 0 .. n /\ k # 0
    OBVIOUS
  <2> QED BY <1>9, <2>1
<1> QED BY <1>8, <1>10

LEMMA WithinSteps ==
  ASSUME RulesTypeOK, NEW source \in RulePages
  PROVE  /\ Within(source, 0) = {source}
         /\ \A n \in Nat : Within(source, n + 1) = Closer(Within(source, n))
<1>1. Within(source, 0) = {source}
  BY ReachSteps
<1>2. ASSUME NEW n \in Nat PROVE Within(source, n + 1) = Closer(Within(source, n))
  <2>1. PICK a : /\ a[0] = {source}
                 /\ \A k \in 1 .. n : a[k] = Closer(a[k - 1])
                 /\ Within(source, n) = a[n]
    BY ReachSteps
  <2>2. PICK b : /\ b[0] = {source}
                 /\ \A k \in 1 .. n + 1 : b[k] = Closer(b[k - 1])
                 /\ Within(source, n + 1) = b[n + 1]
    <3>1. n + 1 \in Nat
      OBVIOUS
    <3> QED BY <3>1, ReachSteps
  <2> DEFINE T == {k \in 0 .. n : a[k] = b[k]}
  <2>3. 0 \in T
    BY <2>1, <2>2
  <2>4. ASSUME NEW i \in 0 .. n - 1, i \in T PROVE i + 1 \in T
    <3>1. i + 1 \in 1 .. n /\ i + 1 \in 1 .. n + 1 /\ (i + 1) - 1 = i
      OBVIOUS
    <3>2. a[i + 1] = Closer(a[i]) /\ b[i + 1] = Closer(b[i]) /\ a[i] = b[i]
      BY <2>1, <2>2, <2>4, <3>1
    <3> QED BY <3>1, <3>2
  <2>5. n \in T
    <3> HIDE DEF T
    <3>1. 0 .. n \subseteq T
      BY <2>3, <2>4, Upwards
    <3> QED BY <3>1
  <2>6. n + 1 \in 1 .. n + 1 /\ (n + 1) - 1 = n
    OBVIOUS
  <2> QED BY <2>1, <2>2, <2>5, <2>6
<1> QED BY <1>1, <1>2

LEMMA WithinGrows ==
  ASSUME RulesTypeOK, NEW source \in RulePages, NEW n \in Nat, NEW k \in 0 .. n
  PROVE  Within(source, k) \subseteq Within(source, n)
<1> DEFINE T == {i \in 0 .. n - k : Within(source, k) \subseteq Within(source, k + i)}
<1>1. n - k \in Nat /\ k \in Nat
  OBVIOUS
<1>2. 0 \in T
  BY <1>1
<1>3. ASSUME NEW i \in 0 .. (n - k) - 1, i \in T PROVE i + 1 \in T
  <2>1. k + i \in Nat /\ (k + i) + 1 = k + (i + 1) /\ i + 1 \in 0 .. n - k
    BY <1>1
  <2>2. Within(source, k + (i + 1)) = Closer(Within(source, k + i))
    BY <2>1, WithinSteps
  <2> QED BY <1>3, <2>1, <2>2 DEF Closer
<1>4. n - k \in T
  <2> HIDE DEF T
  <2>1. 0 .. n - k \subseteq T
    BY <1>1, <1>2, <1>3, Upwards
  <2> QED BY <1>1, <2>1
<1>5. k + (n - k) = n
  OBVIOUS
<1> QED BY <1>4, <1>5

-----------------------------------------------------------------------------
(* The search of updateReferences. *)

Search == [level : [RulePages -> Int], buffer : SUBSET RulePages]

LEMMA WaveStays ==
  ASSUME RulesTypeOK, NEW s \in Search, NEW k \in 0 .. Len(refereces)
  PROVE  Wave(k, s) \in Search
<1> DEFINE now == {p \in s.buffer : s.level[p] > k}
<1>1. s.level \in [RulePages -> Int] /\ s.buffer \subseteq RulePages /\ k \in Int
  BY RulesTyped DEF Search
<1>2. UNION {refereces[p] : p \in now} \subseteq RulePages
  BY <1>1 DEF RulesTypeOK
<1>3. Wave(k, s) = [level |-> [p \in RulePages |-> IF p \in now THEN k ELSE s.level[p]],
                    buffer |-> UNION {refereces[p] : p \in now}]
  BY DEF Wave
<1> HIDE DEF now
<1>4. [p \in RulePages |-> IF p \in now THEN k ELSE s.level[p]] \in [RulePages -> Int]
  BY <1>1
<1> QED BY <1>2, <1>3, <1>4 DEF Search

LEMMA WaveSteps ==
  ASSUME RulesTypeOK, NEW lv \in [RulePages -> Int], NEW source \in RulePages
  PROVE  \E wave : /\ wave[0] = Wave(0, [level |-> lv, buffer |-> {source}])
                   /\ \A k \in 1 .. Len(refereces) : wave[k] = Wave(k, wave[k - 1])
                   /\ \A k \in 0 .. Len(refereces) : wave[k] \in Search
                   /\ WavesFrom(lv, source) = wave[Len(refereces)].level
<1> DEFINE n == Len(refereces)
           start == [level |-> lv, buffer |-> {source}]
           F == [x \in (1 .. n) \X Search |-> Wave(x[1], x[2])]
           Waves(g) == g = [k \in 0 .. n |-> Wave(k, IF k = 0 THEN start ELSE g[k - 1])]
           wave == CHOOSE g : Waves(g)
<1>1. n \in Nat /\ start \in Search
  BY RulesTyped DEF Search
<1>2. 0 \in 0 .. n /\ (1 .. n) \subseteq 0 .. n
  BY <1>1
<1>3. Wave(0, start) \in Search /\ \A k \in 1 .. n, s \in Search : Wave(k, s) \in Search
  BY <1>1, <1>2, WaveStays
<1>4. \A k \in 1 .. n, s \in Search : F[<<k, s>>] = Wave(k, s)
  OBVIOUS
<1>5. WavesFrom(lv, source) = wave[n].level
  BY DEF WavesFrom
<1> HIDE DEF F, n, start
<1>6. Stays(Search, n, F)
  BY <1>3, <1>4 DEF Stays
<1>7. PICK g \in [0 .. n -> Search] : g[0] = Wave(0, start) /\ \A k \in 1 .. n : g[k] = F[<<k, g[k - 1]>>]
  <2>1. \E g \in [0 .. n -> Search] : Steps(g, n, Wave(0, start), F)
    BY <1>1, <1>3, <1>6, StepsExist
  <2> QED BY <2>1 DEF Steps
<1>8. ASSUME NEW k \in 0 .. n PROVE g[k] = Wave(k, IF k = 0 THEN start ELSE g[k - 1])
  <2>1. k # 0 => k - 1 \in 0 .. n /\ k \in 1 .. n
    BY <1>1
  <2>2. k # 0 => g[k - 1] \in Search
    BY <1>7, <2>1
  <2> QED BY <1>4, <1>7, <2>1, <2>2
<1>9. Waves(g)
  BY <1>7, <1>8
<1>10. Waves(wave)
  BY <1>9
<1> HIDE DEF wave
<1>11. \A k \in 0 .. n : wave[k] = Wave(k, IF k = 0 THEN start ELSE wave[k - 1])
  BY Zenon, <1>10
<1>12. wave[0] = Wave(0, start) /\ \A k \in 1 .. n : wave[k] = Wave(k, wave[k - 1])
  <2>1. \A k \in 1 .. n : k # 0
    BY <1>1
  <2> QED BY <1>2, <1>11, <2>1
<1>13. \A k \in 0 .. n : wave[k] \in Search
  <2> DEFINE T == {k \in 0 .. n : wave[k] \in Search}
  <2>1. 0 \in T
    BY <1>2, <1>3, <1>12
  <2>2. ASSUME NEW i \in 0 .. n - 1, i \in T PROVE i + 1 \in T
    <3>1. i + 1 \in 1 .. n /\ i + 1 \in 0 .. n /\ (i + 1) - 1 = i
      BY <1>1
    <3>2. wave[i + 1] = Wave(i + 1, wave[i])
      BY <1>12, <3>1
    <3> QED BY <1>3, <2>2, <3>1, <3>2
  <2>3. 0 .. n \subseteq T
    <3> HIDE DEF T
    <3> QED BY <1>1, <2>1, <2>2, Upwards
  <2> QED BY <2>3
<1> QED BY <1>5, <1>12, <1>13 DEF start, n

(* After wave n, the levels are the distances up to n, and the buffer is   *)
(* what wave n + 1 may add.                                                *)
Searched(source, n, s) ==
    /\ \A p \in RulePages :
         /\ p \in Within(source, n) =>
              /\ s.level[p] \in 0 .. n /\ p \in Within(source, s.level[p])
              /\ \A m \in 0 .. n : p \in Within(source, m) => s.level[p] <= m
         /\ p \notin Within(source, n) => s.level[p] = INT_MAX
    /\ Within(source, n) \cup s.buffer = Within(source, n + 1)

Forgotten == [p \in RulePages |-> INT_MAX]

LEMMA SearchStarts ==
  ASSUME RulesTypeOK, NEW source \in RulePages
  PROVE  Searched(source, 0, Wave(0, [level |-> Forgotten, buffer |-> {source}]))
<1>1. /\ Len(refereces) \in Nat /\ INT_MAX \in Int /\ INT_MAX > 0
  BY RulesTyped DEF INT_MAX
<1>2. Within(source, 0) = {source} /\ Within(source, 0 + 1) = {source} \cup UNION {refereces[p] : p \in {source}}
  BY WithinSteps DEF Closer
<1>3. {p \in {source} : Forgotten[p] > 0} = {source}
  BY <1>1 DEF Forgotten
<1> DEFINE s == Wave(0, [level |-> Forgotten, buffer |-> {source}])
<1>4. s = [level |-> [p \in RulePages |-> IF p \in {source} THEN 0 ELSE Forgotten[p]],
           buffer |-> UNION {refereces[p] : p \in {source}}]
  BY <1>3 DEF Wave
<1> HIDE DEF s
<1>5. \A p \in RulePages : s.level[p] = IF p = source THEN 0 ELSE INT_MAX
  BY <1>4 DEF Forgotten
<1>6. ASSUME NEW p \in RulePages, p = source
      PROVE  /\ s.level[p] \in 0 .. 0 /\ p \in Within(source, s.level[p])
             /\ \A m \in 0 .. 0 : p \in Within(source, m) => s.level[p] <= m
  <2>1. s.level[p] = 0 /\ \A m \in 0 .. 0 : m = 0
    BY <1>5, <1>6
  <2> QED BY <1>2, <1>6, <2>1
<1>7. Within(source, 0) \cup s.buffer = Within(source, 0 + 1)
  BY <1>2, <1>4
<1>8. \A p \in RulePages : p \in Within(source, 0) <=> p = source
  BY <1>2
<1> QED BY <1>5, <1>6, <1>7, <1>8 DEF Searched, s

LEMMA SearchContinues ==
  ASSUME RulesTypeOK, NEW source \in RulePages, NEW s \in Search,
         NEW n \in 0 .. Len(refereces) - 1, Searched(source, n, s)
  PROVE  Searched(source, n + 1, Wave(n + 1, s))
<1> DEFINE now == {p \in s.buffer : s.level[p] > n + 1}
           t == Wave(n + 1, s)
<1>1. n \in Nat /\ n + 1 \in Nat /\ n + 1 \in 0 .. Len(refereces) /\ n + 1 < INT_MAX /\ INT_MAX \in Int
  BY RulesTyped
<1>2. s.buffer \subseteq RulePages /\ s.level \in [RulePages -> Int]
  BY DEF Search
<1>3. now = s.buffer \ Within(source, n)
  <2>1. ASSUME NEW p \in s.buffer, p \in Within(source, n) PROVE ~(s.level[p] > n + 1)
    <3>1. s.level[p] \in 0 .. n
      BY <1>2, <2>1 DEF Searched
    <3> QED BY <1>1, <3>1
  <2>2. ASSUME NEW p \in s.buffer, p \notin Within(source, n) PROVE s.level[p] > n + 1
    <3>1. s.level[p] = INT_MAX
      BY <1>2, <2>2 DEF Searched
    <3> QED BY <1>1, <3>1
  <2> QED BY <2>1, <2>2
<1>4. t = [level |-> [p \in RulePages |-> IF p \in now THEN n + 1 ELSE s.level[p]],
           buffer |-> UNION {refereces[p] : p \in now}]
  BY DEF Wave
<1> HIDE DEF now, t
<1>5. /\ Within(source, n + 1) = Closer(Within(source, n))
      /\ Within(source, (n + 1) + 1) = Closer(Within(source, n + 1))
      /\ Within(source, n) \cup now = Within(source, n + 1)
  <2>1. Within(source, n) \cup s.buffer = Within(source, n + 1)
    BY DEF Searched
  <2> QED BY <1>1, <1>3, <2>1, WithinSteps
<1>6. \A p \in RulePages : t.level[p] = IF p \in now THEN n + 1 ELSE s.level[p]
  BY <1>4
<1>7. ASSUME NEW p \in RulePages, p \in Within(source, n + 1)
      PROVE  /\ t.level[p] \in 0 .. n + 1 /\ p \in Within(source, t.level[p])
             /\ \A m \in 0 .. n + 1 : p \in Within(source, m) => t.level[p] <= m
  <2>1. CASE p \in now
    <3>1. t.level[p] = n + 1 /\ p \notin Within(source, n)
      BY <1>3, <1>6, <2>1
    <3>2. ASSUME NEW m \in 0 .. n + 1, p \in Within(source, m) PROVE n + 1 <= m
      <4>1. m \notin 0 .. n
        BY <1>1, <3>1, <3>2, WithinGrows
      <4> QED BY <1>1, <4>1
    <3> QED BY <1>1, <1>7, <3>1, <3>2
  <2>2. CASE p \notin now
    <3>1. p \in Within(source, n) /\ t.level[p] = s.level[p]
      BY <1>5, <1>6, <1>7, <2>2
    <3>2. /\ s.level[p] \in 0 .. n /\ p \in Within(source, s.level[p])
          /\ \A m \in 0 .. n : p \in Within(source, m) => s.level[p] <= m
      BY <3>1 DEF Searched
    <3>3. ASSUME NEW m \in 0 .. n + 1, p \in Within(source, m) PROVE s.level[p] <= m
      <4>1. m \in 0 .. n \/ m = n + 1
        BY <1>1
      <4> QED BY <1>1, <3>2, <3>3, <4>1
    <3>4. s.level[p] \in 0 .. n + 1
      BY <1>1, <3>2
    <3> QED BY <3>1, <3>2, <3>3, <3>4
  <2> QED BY <2>1, <2>2
<1>8. ASSUME NEW p \in RulePages, p \notin Within(source, n + 1) PROVE t.level[p] = INT_MAX
  BY <1>5, <1>6, <1>8 DEF Searched
<1>9. Within(source, n + 1) \cup t.buffer = Within(source, (n + 1) + 1)
  <2> DEFINE Led(pages) == UNION {refereces[p] : p \in pages}
  <2>1. t.buffer = Led(now)
    BY <1>4
  <2>2. Led(Within(source, n)) \subseteq Within(source, n + 1)
    BY <1>5 DEF Closer
  <2>3. Within(source, (n + 1) + 1) = Within(source, n + 1) \cup Led(Within(source, n + 1))
    BY <1>5 DEF Closer
  <2>4. \A a, b, c : c = a \cup b => Led(c) = Led(a) \cup Led(b)
    OBVIOUS
  <2> HIDE DEF Led
  <2>5. Led(Within(source, n + 1)) = Led(Within(source, n)) \cup Led(now)
    BY <1>5, <2>4
  <2> QED BY <2>1, <2>2, <2>3, <2>5
<1> QED BY <1>7, <1>8, <1>9 DEF Searched, t

(* A search on levels that no earlier one left anything in finds the       *)
(* distance of every page.                                                 *)
LEMMA SearchExact ==
  ASSUME RulesTypeOK, NEW source \in RulePages
  PROVE  WavesFrom(Forgotten, source) = [p \in RulePages |-> Distance(source, p)]
<1> DEFINE n == Len(refereces)
<1>1. Forgotten \in [RulePages -> Int] /\ n \in Nat
  BY RulesTyped DEF Forgotten, INT_MAX
<1>2. PICK wave : /\ wave[0] = Wave(0, [level |-> Forgotten, buffer |-> {source}])
                  /\ \A k \in 1 .. n : wave[k] = Wave(k, wave[k - 1])
                  /\ \A k \in 0 .. n : wave[k] \in Search
                  /\ WavesFrom(Forgotten, source) = wave[n].level
  BY <1>1, WaveSteps
<1> DEFINE T == {k \in 0 .. n : Searched(source, k, wave[k])}
<1>3. 0 \in T
  BY <1>1, <1>2, SearchStarts
<1>4. ASSUME NEW i \in 0 .. n - 1, i \in T PROVE i + 1 \in T
  <2>1. i \in 0 .. n /\ i + 1 \in 1 .. n /\ i + 1 \in 0 .. n /\ (i + 1) - 1 = i
    BY <1>1
  <2>2. wave[i + 1] = Wave(i + 1, wave[i]) /\ wave[i] \in Search
    BY <1>2, <2>1
  <2>3. Searched(source, i, wave[i])
    BY <1>4
  <2> QED BY <2>1, <2>2, <2>3, SearchContinues
<1>5. Searched(source, n, wave[n])
  <2> HIDE DEF T
  <2>1. 0 .. n \subseteq T
    BY <1>1, <1>3, <1>4, Upwards
  <2> QED BY <1>1, <2>1 DEF T
<1>6. wave[n].level \in [RulePages -> Int] /\ 0 .. n \subseteq Int
  BY <1>1, <1>2 DEF Search
<1>7. ASSUME NEW p \in RulePages PROVE wave[n].level[p] = Distance(source, p)
  <2> DEFINE ns == {m \in 0 .. n : p \in Within(source, m)}
             lv == wave[n].level[p]
  <2>1. CASE p \in Within(source, n)
    <3>1. lv \in ns /\ \A m \in ns : lv <= m
      BY <1>5, <2>1 DEF Searched
    <3>2. \A k \in ns : (\A m \in ns : k <= m) => k = lv
      BY <1>1, <3>1
    <3>3. ns # {} /\ Distance(source, p) = CHOOSE k \in ns : \A m \in ns : k <= m
      BY <3>1 DEF Distance
    <3> HIDE DEF ns, lv
    <3> QED BY <3>1, <3>2, <3>3 DEF lv
  <2>2. CASE p \notin Within(source, n)
    <3>1. lv = INT_MAX
      BY <1>5, <2>2 DEF Searched
    <3>2. ns = {}
      BY <1>1, <2>2, WithinGrows
    <3> QED BY <3>1, <3>2 DEF Distance
  <2> QED BY <2>1, <2>2
<1> QED BY <1>2, <1>6, <1>7

-----------------------------------------------------------------------------
(* The last loop of updateReferences. *)

Collected == [level : [RulePages -> Int], chosen : SUBSET RulePages, applied : Nat]

LEMMA CollectStays ==
  ASSUME RulesTypeOK, NEW s \in Collected, NEW k \in RulePages, NEW r
  PROVE  Collect(r, s, k) \in Collected
<1>1. INT_MAX \in Int
  BY DEF INT_MAX
<1>2. s.level \in [RulePages -> Int] /\ s.chosen \subseteq RulePages /\ s.applied \in Nat
  BY DEF Collected
<1>3. [s.level EXCEPT ![k] = INT_MAX] \in [RulePages -> Int]
  BY <1>1, <1>2
<1>4. CASE Exhausted(r, s.applied)
  BY <1>4 DEF Collect
<1>5. CASE ~Exhausted(r, s.applied) /\ InRange(r, s.level[k])
  <2>1. Collect(r, s, k) = [level |-> [s.level EXCEPT ![k] = INT_MAX],
                            chosen |-> s.chosen \cup {k}, applied |-> s.applied + 1]
    BY <1>5 DEF Collect, ForgetLevel
  <2> QED BY <1>2, <1>3, <2>1 DEF Collected
<1>6. CASE ~Exhausted(r, s.applied) /\ ~InRange(r, s.level[k])
  <2>1. Collect(r, s, k) = [level |-> [s.level EXCEPT ![k] = INT_MAX],
                            chosen |-> s.chosen, applied |-> s.applied]
    BY <1>6 DEF Collect, ForgetLevel
  <2> QED BY <1>2, <1>3, <2>1 DEF Collected
<1> QED BY <1>4, <1>5, <1>6

LEMMA CollectSteps ==
  ASSUME RulesTypeOK, NEW lv \in [RulePages -> Int], NEW r
  PROVE  \E collect : /\ collect[0] = Unchosen(lv)
                      /\ \A k \in 1 .. Len(refereces) : collect[k] = Collect(r, collect[k - 1], k)
                      /\ \A k \in 0 .. Len(refereces) : collect[k] \in Collected
                      /\ CollectFrom(lv, r) = collect[Len(refereces)]
<1> DEFINE n == Len(refereces)
           F == [x \in (1 .. n) \X Collected |-> Collect(r, x[2], x[1])]
           Collects(g) == g = [k \in 0 .. n |-> IF k = 0 THEN Unchosen(lv) ELSE Collect(r, g[k - 1], k)]
           collect == CHOOSE g : Collects(g)
<1>1. n \in Nat /\ Unchosen(lv) \in Collected
  BY RulesTyped DEF Collected, Unchosen
<1>2. 0 \in 0 .. n /\ (1 .. n) \subseteq 0 .. n /\ 1 .. n = RulePages
  BY <1>1, RulesTyped
<1>3. \A k \in 1 .. n, s \in Collected : Collect(r, s, k) \in Collected
  BY <1>2, CollectStays
<1>4. \A k \in 1 .. n, s \in Collected : F[<<k, s>>] = Collect(r, s, k)
  OBVIOUS
<1>5. CollectFrom(lv, r) = collect[n]
  BY DEF CollectFrom
<1> HIDE DEF F, n
<1>6. Stays(Collected, n, F)
  BY <1>3, <1>4 DEF Stays
<1>7. PICK g \in [0 .. n -> Collected] : g[0] = Unchosen(lv) /\ \A k \in 1 .. n : g[k] = F[<<k, g[k - 1]>>]
  <2>1. \E g \in [0 .. n -> Collected] : Steps(g, n, Unchosen(lv), F)
    BY <1>1, <1>6, StepsExist
  <2> QED BY <2>1 DEF Steps
<1>8. ASSUME NEW k \in 0 .. n PROVE g[k] = IF k = 0 THEN Unchosen(lv) ELSE Collect(r, g[k - 1], k)
  <2>1. k # 0 => k - 1 \in 0 .. n /\ k \in 1 .. n
    BY <1>1
  <2>2. k # 0 => g[k - 1] \in Collected
    BY <1>7, <2>1
  <2> QED BY <1>4, <1>7, <2>1, <2>2
<1>9. Collects(g)
  BY <1>7, <1>8
<1>10. Collects(collect)
  BY <1>9
<1> HIDE DEF collect
<1>11. \A k \in 0 .. n : collect[k] = IF k = 0 THEN Unchosen(lv) ELSE Collect(r, collect[k - 1], k)
  BY Zenon, <1>10
<1>12. collect[0] = Unchosen(lv) /\ \A k \in 1 .. n : collect[k] = Collect(r, collect[k - 1], k)
  <2>1. \A k \in 1 .. n : k # 0
    BY <1>1
  <2> QED BY <1>2, <1>11, <2>1
<1>13. \A k \in 0 .. n : collect[k] \in Collected
  <2> DEFINE T == {k \in 0 .. n : collect[k] \in Collected}
  <2>1. 0 \in T
    BY <1>1, <1>2, <1>12
  <2>2. ASSUME NEW i \in 0 .. n - 1, i \in T PROVE i + 1 \in T
    <3>1. i + 1 \in 1 .. n /\ i + 1 \in 0 .. n /\ (i + 1) - 1 = i
      BY <1>1
    <3>2. collect[i + 1] = Collect(r, collect[i], i + 1)
      BY <1>12, <3>1
    <3> QED BY <1>3, <2>2, <3>1, <3>2
  <2>3. 0 .. n \subseteq T
    <3> HIDE DEF T
    <3> QED BY <1>1, <2>1, <2>2, Upwards
  <2> QED BY <2>3
<1> QED BY <1>5, <1>12, <1>13 DEF n

(* A rule without a limit takes every page whose level is in its range and *)
(* leaves no level behind.                                                 *)
LEMMA CollectUnlimited ==
  ASSUME RulesTypeOK, NEW lv \in [RulePages -> Int], NEW r, r.amount \in Int, Unlimited(r)
  PROVE  /\ CollectFrom(lv, r).level = Forgotten
         /\ CollectFrom(lv, r).chosen = {p \in RulePages : InRange(r, lv[p])}
<1> DEFINE n == Len(refereces)
<1>1. n \in Nat /\ RulePages = 1 .. n
  BY RulesTyped
<1>2. PICK collect : /\ collect[0] = Unchosen(lv)
                     /\ \A k \in 1 .. n : collect[k] = Collect(r, collect[k - 1], k)
                     /\ \A k \in 0 .. n : collect[k] \in Collected
                     /\ CollectFrom(lv, r) = collect[n]
  BY CollectSteps
<1> DEFINE Passed(k, s) == /\ s.level = [p \in RulePages |-> IF p <= k THEN INT_MAX ELSE lv[p]]
                           /\ s.chosen = {p \in 1 .. k : InRange(r, lv[p])}
           T == {k \in 0 .. n : Passed(k, collect[k])}
<1>3. 0 \in T
  <2>1. collect[0].level = lv /\ collect[0].chosen = {}
    BY <1>2 DEF Unchosen
  <2>2. 1 .. 0 = {} /\ \A p \in RulePages : ~(p <= 0)
    BY <1>1
  <2>3. lv = [p \in RulePages |-> IF p <= 0 THEN INT_MAX ELSE lv[p]]
    BY <2>2
  <2> QED BY <1>1, <2>1, <2>2, <2>3
<1>4. ASSUME NEW i \in 0 .. n - 1, i \in T PROVE i + 1 \in T
  <2>1. /\ i + 1 \in 1 .. n /\ i + 1 \in 0 .. n /\ (i + 1) - 1 = i /\ i \in 0 .. n
        /\ 1 .. i + 1 = (1 .. i) \cup {i + 1} /\ ~(i + 1 <= i) /\ i + 1 \in RulePages
    BY <1>1
  <2>2. collect[i + 1] = Collect(r, collect[i], i + 1)
    BY <1>2, <2>1
  <2>3. ~Exhausted(r, collect[i].applied)
    BY DEF Exhausted, Unlimited
  <2>4. Passed(i, collect[i])
    BY <1>4
  <2> HIDE DEF T
  <2>5. collect[i].level[i + 1] = lv[i + 1]
    BY <2>1, <2>4
  <2>6. collect[i + 1].level = [p \in RulePages |-> IF p <= i + 1 THEN INT_MAX ELSE lv[p]]
    <3>1. collect[i + 1].level = [collect[i].level EXCEPT ![i + 1] = INT_MAX]
      BY <2>2, <2>3 DEF Collect, ForgetLevel
    <3>2. \A p \in RulePages : (p <= i + 1) <=> (p <= i \/ p = i + 1)
      BY <1>1
    <3> QED BY <2>1, <2>4, <3>1, <3>2
  <2>7. collect[i + 1].chosen = {p \in 1 .. i + 1 : InRange(r, lv[p])}
    <3>1. CASE InRange(r, lv[i + 1])
      <4>1. collect[i + 1].chosen = collect[i].chosen \cup {i + 1}
        BY <2>2, <2>3, <2>5, <3>1 DEF Collect
      <4> QED BY <2>1, <2>4, <3>1, <4>1
    <3>2. CASE ~InRange(r, lv[i + 1])
      <4>1. collect[i + 1].chosen = collect[i].chosen
        BY <2>2, <2>3, <2>5, <3>2 DEF Collect
      <4> QED BY <2>1, <2>4, <3>2, <4>1
    <3> QED BY <3>1, <3>2
  <2> QED BY <2>1, <2>6, <2>7 DEF T
<1>5. Passed(n, collect[n])
  <2> HIDE DEF T
  <2>1. 0 .. n \subseteq T
    BY <1>1, <1>3, <1>4, Upwards
  <2>2. n \in T
    BY <1>1, <2>1
  <2> HIDE DEF Passed
  <2> QED BY <2>2 DEF T
<1>6. \A p \in RulePages : p <= n
  BY <1>1
<1> QED BY <1>1, <1>2, <1>5, <1>6 DEF Forgotten

(* A rule with a limit takes no more pages than that. *)
LEMMA CollectBounded ==
  ASSUME RulesTypeOK, NEW lv \in [RulePages -> Int], NEW r, r.amount \in Nat
  PROVE  LET chosen == CollectFrom(lv, r).chosen
         IN  IsFiniteSet(chosen) /\ Cardinality(chosen) <= r.amount
<1> DEFINE n == Len(refereces)
<1>1. n \in Nat /\ RulePages = 1 .. n
  BY RulesTyped
<1>2. PICK collect : /\ collect[0] = Unchosen(lv)
                     /\ \A k \in 1 .. n : collect[k] = Collect(r, collect[k - 1], k)
                     /\ \A k \in 0 .. n : collect[k] \in Collected
                     /\ CollectFrom(lv, r) = collect[n]
  BY CollectSteps
<1> DEFINE Counted(k, s) == /\ IsFiniteSet(s.chosen) /\ s.chosen \subseteq 1 .. k
                            /\ Cardinality(s.chosen) = s.applied /\ s.applied <= r.amount
           T == {k \in 0 .. n : Counted(k, collect[k])}
<1>3. 0 \in T
  <2>1. collect[0].chosen = {} /\ collect[0].applied = 0
    BY <1>2 DEF Unchosen
  <2>2. IsFiniteSet({}) /\ Cardinality({}) = 0
    BY FS_EmptySet
  <2>3. IsFiniteSet(collect[0].chosen) /\ Cardinality(collect[0].chosen) = 0
    BY <2>1, <2>2
  <2>4. collect[0].chosen \subseteq 1 .. 0 /\ 0 <= r.amount /\ 0 \in 0 .. n
    BY <1>1, <2>1
  <2> QED BY <2>1, <2>3, <2>4
<1>4. ASSUME NEW i \in 0 .. n - 1, i \in T PROVE i + 1 \in T
  <2>1. /\ i + 1 \in 1 .. n /\ i + 1 \in 0 .. n /\ (i + 1) - 1 = i /\ i \in 0 .. n
        /\ 1 .. i + 1 = (1 .. i) \cup {i + 1} /\ i + 1 \notin 1 .. i
    BY <1>1
  <2>2. collect[i + 1] = Collect(r, collect[i], i + 1) /\ collect[i].applied \in Nat
    BY <1>2, <2>1 DEF Collected
  <2>3. Counted(i, collect[i])
    BY <1>4
  <2> HIDE DEF T
  <2>4. CASE Exhausted(r, collect[i].applied)
    <3>1. collect[i + 1] = collect[i]
      BY <2>2, <2>4 DEF Collect
    <3> QED BY <2>1, <2>3, <3>1 DEF T
  <2>5. CASE ~Exhausted(r, collect[i].applied) /\ ~InRange(r, collect[i].level[i + 1])
    <3>1. collect[i + 1].chosen = collect[i].chosen /\ collect[i + 1].applied = collect[i].applied
      BY <2>2, <2>5 DEF Collect
    <3> QED BY <2>1, <2>3, <3>1 DEF T
  <2>6. CASE ~Exhausted(r, collect[i].applied) /\ InRange(r, collect[i].level[i + 1])
    <3>1. /\ collect[i + 1].chosen = collect[i].chosen \cup {i + 1}
          /\ collect[i + 1].applied = collect[i].applied + 1
      BY <2>2, <2>6 DEF Collect
    <3>2. collect[i].applied + 1 <= r.amount
      BY <2>2, <2>6 DEF Exhausted
    <3>3. i + 1 \notin collect[i].chosen
      BY <2>1, <2>3
    <3>4. /\ IsFiniteSet(collect[i + 1].chosen)
          /\ Cardinality(collect[i + 1].chosen) = Cardinality(collect[i].chosen) + 1
      <4>1. PICK c : c = collect[i].chosen
        OBVIOUS
      <4>2. IsFiniteSet(c) /\ i + 1 \notin c
        BY <2>3, <3>3, <4>1
      <4>3. IsFiniteSet(c \cup {i + 1}) /\ Cardinality(c \cup {i + 1}) = Cardinality(c) + 1
        BY <4>2, FS_AddElement
      <4> QED BY <3>1, <4>1, <4>3
    <3>5. collect[i + 1].chosen \subseteq 1 .. i + 1
      BY <2>1, <2>3, <3>1
    <3> QED BY <2>1, <2>3, <3>1, <3>2, <3>4, <3>5 DEF T
  <2> QED BY <2>4, <2>5, <2>6
<1>5. Counted(n, collect[n])
  <2> HIDE DEF T
  <2>1. 0 .. n \subseteq T
    BY <1>1, <1>3, <1>4, Upwards
  <2> QED BY <1>1, <2>1 DEF T
<1> QED BY <1>2, <1>5

-----------------------------------------------------------------------------
(* The rules of an instance one after the other. *)

LEMMA WavesTyped ==
  ASSUME RulesTypeOK, NEW lv \in [RulePages -> Int], NEW source \in RulePages
  PROVE  WavesFrom(lv, source) \in [RulePages -> Int]
<1>1. PICK wave : /\ \A k \in 0 .. Len(refereces) : wave[k] \in Search
                  /\ WavesFrom(lv, source) = wave[Len(refereces)].level
  BY WaveSteps
<1>2. Len(refereces) \in 0 .. Len(refereces)
  BY RulesTyped
<1> QED BY <1>1, <1>2 DEF Search

LEMMA ResultStays ==
  ASSUME RulesTypeOK, NEW lv \in [RulePages -> Int], NEW r \in ReferenceRules
  PROVE  RuleResult(lv, r) \in Collected
<1>1. Unchosen(lv) \in Collected
  BY DEF Unchosen, Collected
<1>2. CASE r.source \notin RulePages \/ r.max < 0
  BY <1>1, <1>2 DEF RuleResult, updateReferences
<1>3. CASE r.source \in RulePages /\ ~(r.max < 0)
  <2>1. Len(refereces) \in Nat /\ Len(refereces) \in 0 .. Len(refereces)
    BY RulesTyped
  <2>2. WavesFrom(lv, r.source) \in [RulePages -> Int]
    BY <1>3, WavesTyped
  <2>3. CollectFrom(WavesFrom(lv, r.source), r) \in Collected
    BY <2>1, <2>2, CollectSteps
  <2> QED BY <1>3, <2>3 DEF RuleResult, updateReferences
<1> QED BY <1>2, <1>3

LEMMA ResultSteps ==
  ASSUME RulesTypeOK
  PROVE  /\ RuleResults[0] = Unchosen(level)
         /\ \A k \in DOMAIN refRules : RuleResults[k] = RuleResult(RuleResults[k - 1].level, refRules[k])
         /\ \A k \in 0 .. Len(refRules) : RuleResults[k] \in Collected
<1> DEFINE n == Len(refRules)
           F == [x \in (1 .. n) \X Collected |-> RuleResult(x[2].level, refRules[x[1]])]
           Results(g) == g = [k \in 0 .. n |-> IF k = 0 THEN Unchosen(level)
                                               ELSE RuleResult(g[k - 1].level, refRules[k])]
           res == CHOOSE g : Results(g)
<1>1. n \in Nat /\ Unchosen(level) \in Collected /\ DOMAIN refRules = 1 .. n
  BY RulesTyped DEF Collected, Unchosen
<1>2. 0 \in 0 .. n /\ (1 .. n) \subseteq 0 .. n
  BY <1>1
<1>3. \A k \in 1 .. n, s \in Collected : RuleResult(s.level, refRules[k]) \in Collected
  <2>1. ASSUME NEW k \in 1 .. n, NEW s \in Collected PROVE RuleResult(s.level, refRules[k]) \in Collected
    <3>1. refRules[k] \in ReferenceRules
      BY <1>1, RulesTyped
    <3>2. s.level \in [RulePages -> Int]
      BY DEF Collected
    <3> QED BY <3>1, <3>2, ResultStays
  <2> QED BY <2>1
<1>4. \A k \in 1 .. n, s \in Collected : F[<<k, s>>] = RuleResult(s.level, refRules[k])
  OBVIOUS
<1>5. RuleResults = res
  BY DEF RuleResults
<1> HIDE DEF F, n
<1>6. Stays(Collected, n, F)
  BY <1>3, <1>4 DEF Stays
<1>7. PICK g \in [0 .. n -> Collected] : g[0] = Unchosen(level) /\ \A k \in 1 .. n : g[k] = F[<<k, g[k - 1]>>]
  <2>1. \E g \in [0 .. n -> Collected] : Steps(g, n, Unchosen(level), F)
    BY <1>1, <1>6, StepsExist
  <2> QED BY <2>1 DEF Steps
<1>8. ASSUME NEW k \in 0 .. n
      PROVE  g[k] = IF k = 0 THEN Unchosen(level) ELSE RuleResult(g[k - 1].level, refRules[k])
  <2>1. k # 0 => k - 1 \in 0 .. n /\ k \in 1 .. n
    BY <1>1
  <2>2. k # 0 => g[k - 1] \in Collected
    BY <1>7, <2>1
  <2> QED BY <1>4, <1>7, <2>1, <2>2
<1>9. Results(g)
  BY <1>7, <1>8
<1>10. Results(res)
  BY <1>9
<1> HIDE DEF res
<1>11. \A k \in 0 .. n : res[k] = IF k = 0 THEN Unchosen(level) ELSE RuleResult(res[k - 1].level, refRules[k])
  BY Zenon, <1>10
<1>12. res[0] = Unchosen(level) /\ \A k \in 1 .. n : res[k] = RuleResult(res[k - 1].level, refRules[k])
  <2>1. \A k \in 1 .. n : k # 0
    BY <1>1
  <2> QED BY <1>2, <1>11, <2>1
<1>13. \A k \in 0 .. n : res[k] \in Collected
  <2> DEFINE T == {k \in 0 .. n : res[k] \in Collected}
  <2>1. 0 \in T
    BY <1>1, <1>2, <1>12
  <2>2. ASSUME NEW i \in 0 .. n - 1, i \in T PROVE i + 1 \in T
    <3>1. i + 1 \in 1 .. n /\ i + 1 \in 0 .. n /\ (i + 1) - 1 = i
      BY <1>1
    <3>2. res[i + 1] = RuleResult(res[i].level, refRules[i + 1])
      BY <1>12, <3>1
    <3> QED BY <1>3, <2>2, <3>1, <3>2
  <2>3. 0 .. n \subseteq T
    <3> HIDE DEF T
    <3> QED BY <1>1, <2>1, <2>2, Upwards
  <2> QED BY <2>3
<1> QED BY <1>1, <1>5, <1>12, <1>13 DEF n

(* While no rule has a limit, every one finds the levels forgotten, leaves *)
(* them so, and takes the pages in its range.                              *)
AllUnlimited == \A i \in DOMAIN refRules : Unlimited(refRules[i])

LEMMA ResultUnlimited ==
  ASSUME RulesTypeOK, NEW r \in ReferenceRules, Unlimited(r)
  PROVE  /\ RuleResult(Forgotten, r).level = Forgotten
         /\ r.source \in RulePages /\ r.max >= 0 =>
              RuleResult(Forgotten, r).chosen = {p \in RulePages : InRange(r, Distance(r.source, p))}
<1>1. r.amount \in Int /\ r.max \in Int
  BY DEF ReferenceRules
<1>2. CASE r.source \notin RulePages \/ r.max < 0
  BY <1>1, <1>2 DEF RuleResult, updateReferences, Unchosen
<1>3. CASE r.source \in RulePages /\ ~(r.max < 0)
  <2> DEFINE lv == WavesFrom(Forgotten, r.source)
  <2>1. Forgotten \in [RulePages -> Int]
    BY DEF Forgotten, INT_MAX
  <2>2. lv \in [RulePages -> Int]
    BY <1>3, <2>1, WavesTyped
  <2>3. lv = [p \in RulePages |-> Distance(r.source, p)]
    BY <1>3, SearchExact
  <2>4. RuleResult(Forgotten, r) = CollectFrom(lv, r)
    BY <1>3 DEF RuleResult, updateReferences
  <2> HIDE DEF lv
  <2>5. /\ RuleResult(Forgotten, r).level = Forgotten
        /\ RuleResult(Forgotten, r).chosen = {p \in RulePages : InRange(r, lv[p])}
    BY <1>1, <2>2, <2>4, CollectUnlimited
  <2>6. \A p \in RulePages : lv[p] = Distance(r.source, p)
    BY <2>3
  <2> QED BY <2>5, <2>6
<1> QED BY <1>2, <1>3

LEMMA ResultsUnlimited ==
  ASSUME RulesTypeOK, AllUnlimited, level = Forgotten
  PROVE  \A k \in 0 .. Len(refRules) : RuleResults[k].level = Forgotten
<1> DEFINE n == Len(refRules)
           T == {k \in 0 .. n : RuleResults[k].level = Forgotten}
<1>1. n \in Nat /\ DOMAIN refRules = 1 .. n
  BY RulesTyped
<1>2. 0 \in T
  BY <1>1, ResultSteps DEF Unchosen
<1>3. ASSUME NEW i \in 0 .. n - 1, i \in T PROVE i + 1 \in T
  <2>1. i + 1 \in 1 .. n /\ i + 1 \in 0 .. n /\ (i + 1) - 1 = i
    BY <1>1
  <2>2. RuleResults[i + 1] = RuleResult(RuleResults[i].level, refRules[i + 1])
    BY <1>1, <2>1, ResultSteps
  <2>3. refRules[i + 1] \in ReferenceRules /\ Unlimited(refRules[i + 1])
    BY <1>1, <2>1, RulesTyped DEF AllUnlimited
  <2> QED BY <1>3, <2>1, <2>2, <2>3, ResultUnlimited
<1>4. 0 .. n \subseteq T
  <2> HIDE DEF T
  <2> QED BY <1>1, <1>2, <1>3, Upwards
<1> QED BY <1>4

(* A rule with a limit takes no more pages than that, on any levels. *)
LEMMA ResultBounded ==
  ASSUME RulesTypeOK, NEW i \in DOMAIN refRules, refRules[i].amount >= 0
  PROVE  LET chosen == RuleResults[i].chosen
         IN  IsFiniteSet(chosen) /\ Cardinality(chosen) <= refRules[i].amount
<1>1. PICK r : r = refRules[i]
  OBVIOUS
<1>2. r \in ReferenceRules /\ r.amount \in Nat
  <2>1. r \in ReferenceRules
    BY <1>1, RulesTyped
  <2> QED BY <1>1, <2>1 DEF ReferenceRules
<1>3. i - 1 \in 0 .. Len(refRules)
  BY RulesTyped
<1>4. PICK lv : lv = RuleResults[i - 1].level
  OBVIOUS
<1>5. lv \in [RulePages -> Int] /\ RuleResults[i] = RuleResult(lv, r)
  BY <1>1, <1>3, <1>4, ResultSteps DEF Collected
<1>6. CASE r.source \notin RulePages \/ r.max < 0
  <2>1. RuleResults[i].chosen = {}
    BY <1>5, <1>6 DEF RuleResult, updateReferences, Unchosen
  <2>2. IsFiniteSet({}) /\ Cardinality({}) = 0
    BY FS_EmptySet
  <2> QED BY <1>1, <1>2, <2>1, <2>2
<1>7. CASE r.source \in RulePages /\ ~(r.max < 0)
  <2>2. WavesFrom(lv, r.source) \in [RulePages -> Int]
    BY <1>5, <1>7, WavesTyped
  <2>3. RuleResults[i] = CollectFrom(WavesFrom(lv, r.source), r)
    BY <1>5, <1>7 DEF RuleResult, updateReferences
  <2> QED BY <1>1, <1>2, <2>2, <2>3, CollectBounded
<1> QED BY <1>6, <1>7

LEMMA SimpleTyped == \A i \in DOMAIN SimpleRules : SimpleRules[i].amount \in Int
<1>1. \A i \in DOMAIN SimpleRules : SimpleRules[i] \in PatternRules
  BY RulesAssumption
<1> QED BY <1>1 DEF PatternRules

(* A simple rule with a limit selects no more pages than that: the pages   *)
(* it selected before are among those it would select without one.         *)
LEMMA SimpleBounded ==
  ASSUME RulesTypeOK, NEW r, r.amount \in Nat
  PROVE  IsFiniteSet(SelectSimple(r)) /\ Cardinality(SelectSimple(r)) <= r.amount
<1> DEFINE n == Len(refereces)
           All(k) == {q \in 1 .. k : Selects(r, q)}
           Taken(k) == {p \in All(k) : Cardinality(All(p - 1)) < r.amount}
           T == {k \in 0 .. n : IsFiniteSet(Taken(k)) /\ Cardinality(Taken(k)) <= r.amount}
<1>1. n \in Nat /\ RulePages = 1 .. n
  BY RulesTyped
<1>2. 0 \in T
  <2>1. Taken(0) = {}
    OBVIOUS
  <2>2. IsFiniteSet({}) /\ Cardinality({}) = 0
    BY FS_EmptySet
  <2>3. 0 \in 0 .. n /\ 0 <= r.amount
    BY <1>1
  <2> HIDE DEF Taken
  <2> QED BY <2>1, <2>2, <2>3
<1>3. ASSUME NEW i \in 0 .. n - 1, i \in T PROVE i + 1 \in T
  <2>1. i \in Nat /\ i + 1 \in 0 .. n /\ 1 .. i + 1 = (1 .. i) \cup {i + 1} /\ (i + 1) - 1 = i
    BY <1>1
  <2>2. IsFiniteSet(Taken(i)) /\ Cardinality(Taken(i)) <= r.amount
    BY <1>3
  <2>3. All(i + 1) = All(i) \cup {q \in {i + 1} : Selects(r, q)}
    BY <2>1
  <2>4. CASE Selects(r, i + 1) /\ Cardinality(All(i)) < r.amount
    <3>1. IsFiniteSet(All(i)) /\ Cardinality(All(i)) \in Nat
      <4>1. 1 \in Int /\ i \in Int
        BY <2>1
      <4>2. IsFiniteSet(1 .. i)
        BY <4>1, FS_Interval
      <4>3. All(i) \in SUBSET (1 .. i)
        OBVIOUS
      <4> HIDE DEF All
      <4>4. IsFiniteSet(All(i))
        BY <4>2, <4>3, FS_Subset
      <4> QED BY <4>4, FS_CardinalityType
    <3>2. Taken(i) \subseteq All(i)
      OBVIOUS
    <3> HIDE DEF All
    <3>3. Taken(i + 1) = Taken(i) \cup {i + 1}
      BY <2>1, <2>3, <2>4
    <3> HIDE DEF Taken
    <3>4. Cardinality(Taken(i)) <= Cardinality(All(i)) /\ Cardinality(Taken(i)) \in Nat
      BY <2>2, <3>1, <3>2, FS_Subset, FS_CardinalityType
    <3>5. IsFiniteSet(Taken(i + 1)) /\ Cardinality(Taken(i + 1)) <= Cardinality(Taken(i)) + 1
      <4>1. PICK c : c = Taken(i)
        OBVIOUS
      <4>2. IsFiniteSet(c)
        BY <2>2, <4>1
      <4>3. /\ IsFiniteSet(c \cup {i + 1})
            /\ Cardinality(c \cup {i + 1}) = Cardinality(c) \/ Cardinality(c \cup {i + 1}) = Cardinality(c) + 1
        BY <4>2, FS_AddElement
      <4>4. Cardinality(c) \in Nat
        BY <4>2, FS_CardinalityType
      <4>5. c \cup {i + 1} = Taken(i + 1)
        BY <3>3, <4>1
      <4>6. Cardinality(c \cup {i + 1}) <= Cardinality(c) + 1
        BY <4>3, <4>4
      <4> QED BY <4>1, <4>3, <4>5, <4>6
    <3>6. Cardinality(Taken(i)) + 1 <= r.amount
      BY <2>4, <3>1, <3>4
    <3>7. Cardinality(Taken(i + 1)) \in Nat
      BY <3>5, FS_CardinalityType
    <3>8. Cardinality(Taken(i + 1)) <= r.amount
      BY <3>4, <3>5, <3>6, <3>7
    <3> QED BY <2>1, <3>5, <3>8
  <2>5. CASE ~(Selects(r, i + 1) /\ Cardinality(All(i)) < r.amount)
    <3>1. Taken(i + 1) = Taken(i)
      <4> HIDE DEF All
      <4> QED BY <2>1, <2>3, <2>5
    <3> HIDE DEF Taken
    <3> QED BY <2>1, <2>2, <3>1
  <2> QED BY <2>4, <2>5
<1>4. n \in T
  <2> HIDE DEF T
  <2>1. 0 .. n \subseteq T
    BY <1>1, <1>2, <1>3, Upwards
  <2> QED BY <1>1, <2>1
<1>5. SelectSimple(r) = Taken(n)
  BY <1>1 DEF SelectSimple
<1> QED BY <1>4, <1>5

-----------------------------------------------------------------------------
(* The invariant: the levels are forgotten while no rule has a limit, and  *)
(* the rules with one have kept to it.                                     *)

KeptTo(amount, pages) == amount >= 0 => IsFiniteSet(pages) /\ Cardinality(pages) <= amount
AmountsKept ==
    /\ \A i \in DOMAIN refRules : KeptTo(refRules[i].amount, {p \in RulePages : i \in accessRefs[p]})
    /\ \A i \in DOMAIN SimpleRules : KeptTo(SimpleRules[i].amount, {p \in RulePages : i \in accessSimple[p]})
RulesInv == RulesTypeOK /\ (AllUnlimited => level = Forgotten) /\ AmountsKept

LEMMA RulesInitial == RulesInit => RulesInv
<1> SUFFICES ASSUME NEW list \in RuleLists, RulesStart(list) PROVE RulesInv
  BY DEF RulesInit
<1>1. RulePages = {1} /\ Len(refereces) = 1 /\ refereces[1] = {}
  BY DEF RulesStart, RulePages
<1>2. RulesTypeOK
  <2>1. /\ refereces \in Seq(SUBSET Nat) /\ level \in Seq(Int)
        /\ accessSimple \in Seq(SUBSET Nat) /\ accessRefs \in Seq(SUBSET Nat)
    BY DEF RulesStart, INT_MAX
  <2>2. Len(level) = 1 /\ Len(accessSimple) = 1 /\ Len(accessRefs) = 1 /\ 1 < INT_MAX
    BY DEF RulesStart, INT_MAX
  <2> QED BY <1>1, <2>1, <2>2 DEF RulesTypeOK, RulesStart
<1>3. level = Forgotten
  BY <1>1 DEF RulesStart, Forgotten
<1>4. AmountsKept
  <2>1. \A i : {p \in RulePages : i \in accessRefs[p]} = {} /\ {p \in RulePages : i \in accessSimple[p]} = {}
    BY <1>1 DEF RulesStart
  <2>2. IsFiniteSet({}) /\ Cardinality({}) = 0
    BY FS_EmptySet
  <2>3. \A i \in DOMAIN refRules : refRules[i].amount \in Int
    BY RulesTyped, <1>2 DEF ReferenceRules
  <2>4. \A i \in DOMAIN SimpleRules : SimpleRules[i].amount \in Int
    BY SimpleTyped
  <2> QED BY <2>1, <2>2, <2>3, <2>4 DEF AmountsKept, KeptTo
<1> QED BY <1>2, <1>3, <1>4 DEF RulesInv

LEMMA LoadNewPageKeeps == RulesInv /\ LoadNewPage => RulesInv'
<1> SUFFICES ASSUME RulesInv, LoadNewPage PROVE RulesInv'
  OBVIOUS
<1> DEFINE n == Len(refereces)
<1>1. /\ n \in Nat /\ RulePages = 1 .. n /\ RulesTypeOK
      /\ DOMAIN level = 1 .. n /\ DOMAIN accessRefs = 1 .. n /\ DOMAIN accessSimple = 1 .. n
  BY RulesTyped DEF RulesInv, RulesTypeOK
<1>2. /\ refereces' = Append(refereces, {}) /\ level' = Append(level, INT_MAX)
      /\ accessSimple' = Append(accessSimple, {}) /\ accessRefs' = Append(accessRefs, {})
      /\ refRules' = refRules /\ n < NumRulePages
  BY DEF LoadNewPage
<1>3. /\ refereces' \in Seq(SUBSET Nat) /\ level' \in Seq(Int)
      /\ accessSimple' \in Seq(SUBSET Nat) /\ accessRefs' \in Seq(SUBSET Nat)
      /\ Len(refereces') = n + 1 /\ Len(level') = n + 1 /\ Len(accessSimple') = n + 1 /\ Len(accessRefs') = n + 1
  BY <1>1, <1>2 DEF RulesTypeOK, INT_MAX
<1>4. RulePages' = 1 .. n + 1 /\ 1 .. n + 1 = (1 .. n) \cup {n + 1} /\ n + 1 \notin 1 .. n
  BY <1>1, <1>3 DEF RulePages
<1>5. /\ \A p \in 1 .. n : /\ refereces'[p] = refereces[p] /\ level'[p] = level[p]
                           /\ accessSimple'[p] = accessSimple[p] /\ accessRefs'[p] = accessRefs[p]
      /\ refereces'[n + 1] = {} /\ level'[n + 1] = INT_MAX
      /\ accessSimple'[n + 1] = {} /\ accessRefs'[n + 1] = {}
  BY <1>1, <1>2 DEF RulesTypeOK, INT_MAX
<1>6. RulesTypeOK'
  <2>1. n + 1 < INT_MAX
    BY <1>1, <1>2, RulesAssumption DEF INT_MAX
  <2>2. \A p \in 1 .. n + 1 : refereces'[p] \subseteq RulePages'
    BY <1>1, <1>4, <1>5 DEF RulesTypeOK
  <2>3. refRules' \in RuleLists
    BY <1>1, <1>2 DEF RulesTypeOK
  <2> QED BY <1>3, <1>4, <2>1, <2>2, <2>3 DEF RulesTypeOK
<1>7. (AllUnlimited => level = Forgotten)'
  <2> SUFFICES ASSUME AllUnlimited' PROVE level' = Forgotten'
    OBVIOUS
  <2>1. level = Forgotten
    BY <1>2 DEF AllUnlimited, RulesInv
  <2>2. \A p \in 1 .. n + 1 : level'[p] = INT_MAX
    BY <1>1, <1>4, <1>5, <2>1 DEF Forgotten
  <2>3. level' = [p \in 1 .. n + 1 |-> level'[p]]
    BY <1>1, <1>3
  <2> QED BY <1>4, <2>2, <2>3 DEF Forgotten
<1>8. AmountsKept'
  <2>1. \A i : /\ {p \in RulePages' : i \in accessRefs'[p]} = {p \in RulePages : i \in accessRefs[p]}
               /\ {p \in RulePages' : i \in accessSimple'[p]} = {p \in RulePages : i \in accessSimple[p]}
    BY <1>1, <1>4, <1>5
  <2> QED BY <1>2, <2>1 DEF RulesInv, AmountsKept
<1> QED BY <1>6, <1>7, <1>8 DEF RulesInv

LEMMA LoadReferencesKeeps == RulesInv /\ LoadReferences => RulesInv'
<1> SUFFICES ASSUME RulesInv, LoadReferences PROVE RulesInv'
  OBVIOUS
<1>1. PICK p \in RulePages, dst \in SUBSET RulePages : refereces' = [refereces EXCEPT ![p] = dst]
  BY DEF LoadReferences
<1>2. refRules' = refRules /\ level' = level /\ accessSimple' = accessSimple /\ accessRefs' = accessRefs
  BY DEF LoadReferences
<1>3. /\ RulesTypeOK /\ RulePages \subseteq Nat /\ RulePages' = RulePages
      /\ Len(refereces') = Len(refereces) /\ refereces' \in Seq(SUBSET Nat)
      /\ \A q \in RulePages : refereces'[q] = IF q = p THEN dst ELSE refereces[q]
  BY <1>1, RulesTyped DEF RulesInv, RulesTypeOK, RulePages
<1>4. RulesTypeOK'
  <2>1. \A q \in RulePages' : refereces'[q] \subseteq RulePages'
    BY <1>3 DEF RulesTypeOK
  <2> QED BY <1>2, <1>3, <2>1 DEF RulesTypeOK
<1>5. Forgotten' = Forgotten
  BY <1>3 DEF Forgotten
<1> QED BY <1>2, <1>3, <1>4, <1>5 DEF RulesInv, AllUnlimited, AmountsKept

LEMMA UpdateKeeps == RulesInv /\ Update => RulesInv'
<1> SUFFICES ASSUME RulesInv, Update PROVE RulesInv'
  OBVIOUS
<1> DEFINE n == Len(refereces)
           m == Len(refRules)
<1>1. /\ RulesTypeOK /\ n \in Nat /\ RulePages = 1 .. n
      /\ m \in Nat /\ m \in 0 .. m /\ DOMAIN refRules = 1 .. m /\ (1 .. m) \subseteq 0 .. m
  BY RulesTyped DEF RulesInv
<1>2. /\ accessSimple' = [p \in RulePages |-> {i \in DOMAIN SimpleRules : p \in SelectSimple(SimpleRules[i])}]
      /\ accessRefs' = [p \in RulePages |-> {i \in DOMAIN refRules : p \in RuleResults[i].chosen}]
      /\ level' = RuleResults[m].level
      /\ refRules' = refRules /\ refereces' = refereces
  BY DEF Update
<1>3. RulePages' = RulePages /\ Forgotten' = Forgotten
  BY <1>2 DEF RulePages, Forgotten
<1>4. \A k \in 0 .. m : RuleResults[k] \in Collected
  BY <1>1, ResultSteps
<1>5. RulesTypeOK'
  <2>1. level' \in [RulePages -> Int]
    BY <1>1, <1>2, <1>4 DEF Collected
  <2>2. DOMAIN SimpleRules \subseteq Nat /\ DOMAIN refRules \subseteq Nat
    BY <1>1, RulesAssumption
  <2>3. accessSimple' \in [1 .. n -> SUBSET Nat] /\ accessRefs' \in [1 .. n -> SUBSET Nat]
    BY <1>1, <1>2, <2>2
  <2>4. \A S, f : f \in [1 .. n -> S] => f \in Seq(S) /\ Len(f) = n
    BY <1>1
  <2>5. /\ level' \in Seq(Int) /\ Len(level') = n
        /\ accessSimple' \in Seq(SUBSET Nat) /\ Len(accessSimple') = n
        /\ accessRefs' \in Seq(SUBSET Nat) /\ Len(accessRefs') = n
    BY <1>1, <2>1, <2>3, <2>4
  <2> QED BY <1>1, <1>2, <1>3, <2>5 DEF RulesTypeOK
<1>6. (AllUnlimited => level = Forgotten)'
  <2> SUFFICES ASSUME AllUnlimited' PROVE level' = Forgotten'
    OBVIOUS
  <2>1. AllUnlimited
    BY <1>2 DEF AllUnlimited
  <2>2. RuleResults[m].level = Forgotten
    BY <1>1, <2>1, ResultsUnlimited DEF RulesInv
  <2> QED BY <1>2, <1>3, <2>2
<1>7. AmountsKept'
  <2>1. ASSUME NEW i \in DOMAIN refRules
        PROVE  KeptTo(refRules[i].amount, {p \in RulePages : i \in accessRefs'[p]})
    <3>1. {p \in RulePages : i \in accessRefs'[p]} = RuleResults[i].chosen
      <4>1. RuleResults[i].chosen \subseteq RulePages
        BY <1>1, <1>4 DEF Collected
      <4> QED BY <1>2, <4>1
    <3> QED BY <1>1, <3>1, ResultBounded DEF KeptTo
  <2>2. ASSUME NEW i \in DOMAIN SimpleRules
        PROVE  KeptTo(SimpleRules[i].amount, {p \in RulePages : i \in accessSimple'[p]})
    <3>1. PICK r : r = SimpleRules[i]
      OBVIOUS
    <3>2. r.amount \in Int
      BY <3>1, SimpleTyped
    <3>3. {p \in RulePages : i \in accessSimple'[p]} = SelectSimple(r)
      <4>1. SelectSimple(r) \subseteq RulePages
        BY DEF SelectSimple
      <4>2. \A p \in RulePages : i \in accessSimple'[p] <=> p \in SelectSimple(r)
        BY <1>2, <3>1
      <4> QED BY <4>1, <4>2
    <3>4. r.amount >= 0 => r.amount \in Nat
      BY <3>2
    <3> QED BY <1>1, <3>1, <3>3, <3>4, SimpleBounded DEF KeptTo
  <2> QED BY <1>2, <1>3, <2>1, <2>2 DEF AmountsKept
<1> QED BY <1>5, <1>6, <1>7 DEF RulesInv

LEMMA RulesUnchanged == RulesInv /\ UNCHANGED ruleVars => RulesInv'
BY DEF RulesInv, RulesTypeOK, AllUnlimited, Forgotten, AmountsKept, RulePages, ruleVars

LEMMA RulesInductive == RulesSpec => []RulesInv
<1>1. RulesInv /\ [RulesNext]_ruleVars => RulesInv'
  BY LoadNewPageKeeps, LoadReferencesKeeps, UpdateKeeps, RulesUnchanged DEF RulesNext
<1> QED BY <1>1, RulesInitial, PTL DEF RulesSpec

(* PageRuleApplyer::update: a rule with an amount is applied to no more    *)
(* pages than that, whatever rules and updates came before and whichever   *)
(* pages and links loadPages has added since.                              *)
THEOREM RulesKeepTheirAmount == RulesSpec => []AmountKept
<1>1. RulesInv => AmountKept
  BY DEF RulesInv, AmountsKept, KeptTo, AmountKept
<1> QED BY <1>1, RulesInductive, PTL

(* updateReferences: while no rule of the instance has an amount, every    *)
(* update lets a reference rule select exactly the pages whose distance    *)
(* from its source, in links, is in its range, however the pages are       *)
(* linked: the search of one rule finds no level that another one left.    *)
THEOREM UnlimitedRulesSelectExactly == RulesSpec => UnlimitedRulesExact
<1>1. RulesInv =>
        ((\A i \in DOMAIN refRules : Unlimited(refRules[i])) =>
           \A i \in DOMAIN refRules :
             LET r == refRules[i] IN
             Update /\ r.source \in RulePages /\ r.max >= 0 =>
               \A p \in RulePages : i \in accessRefs'[p] <=> InRange(r, Distance(r.source, p)))
  <2> SUFFICES ASSUME RulesInv, Update, AllUnlimited, NEW i \in DOMAIN refRules,
                      refRules[i].source \in RulePages, refRules[i].max >= 0, NEW p \in RulePages
               PROVE  i \in accessRefs'[p] <=> InRange(refRules[i], Distance(refRules[i].source, p))
    BY DEF AllUnlimited
  <2>1. PICK r : r = refRules[i]
    OBVIOUS
  <2>2. RulesTypeOK /\ r \in ReferenceRules /\ Unlimited(r) /\ i - 1 \in 0 .. Len(refRules)
    BY <2>1, RulesTyped DEF RulesInv, AllUnlimited
  <2>3. RuleResults[i - 1].level = Forgotten
    BY <2>2, ResultsUnlimited DEF RulesInv
  <2>4. RuleResults[i] = RuleResult(Forgotten, r)
    BY <2>1, <2>2, <2>3, ResultSteps
  <2>5. RuleResults[i].chosen = {q \in RulePages : InRange(r, Distance(r.source, q))}
    BY <2>1, <2>2, <2>4, ResultUnlimited
  <2>6. i \in accessRefs'[p] <=> p \in RuleResults[i].chosen
    BY DEF Update
  <2> QED BY <2>1, <2>5, <2>6
<1> QED BY <1>1, RulesInductive, PTL DEF UnlimitedRulesExact, RulesSpec
=============================================================================
