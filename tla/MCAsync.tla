------------------------------ MODULE MCAsync ------------------------------
(***************************************************************************)
(* For TLC: two parts of the async library, the fiber mutex and the life   *)
(* cycle of the service, and spider, which builds on them directly, with   *)
(* what it makes of a text and what scom makes of the texts of its pages.  *)
(* Each behaviour is about one of them.                                    *)
(***************************************************************************)
EXTENDS Mutex, ServiceLifecycle, SpiderService, ReportGenerator

VARIABLE part

(* Texts of up to four characters; texts of up to seven words that have    *)
(* one to three meanings.                                                  *)
Char(category) == [category |-> category, letter |-> "a"]
MCTexts == UNION {[1 .. n -> {Char(c) : c \in {"LU", "LL", "LO", "N", "P", "Z"}}] : n \in 1 .. 4}
MCMeanings ==
    [w \in UNION {[1 .. n -> {Char("LL"), Char("P"), [category |-> "N", letter |-> "N"]}] : n \in 1 .. 4} |->
       IF Len(w) = 1 THEN {<<Char("LL"), Char("LL")>>} ELSE {}]
BucketsOf(sizes) == [i \in DOMAIN sizes |-> {<<k>> : k \in 1 .. sizes[i]}]
MCBucketLists ==
    {BucketsOf(s) : s \in UNION {[1 .. n -> 1 .. 2] : n \in 0 .. 5}}
    \cup {BucketsOf([i \in 1 .. 7 |-> s]) : s \in {1, 3}}

(* Pages for a report: words of one letter that hunspell knows, two of     *)
(* them with one stem, a sign it does not know, and an unknown long word.  *)
L(x) == [category |-> "LL", letter |-> x]
MCLong == <<L("x"), L("x"), L("x")>>
MCStems == [w \in {<<L("a")>>, <<L("b")>>, <<L("c")>>} |-> IF w = <<L("c")>> THEN <<L("a")>> ELSE w]
MCcrc32 == [w \in {<<L("a")>>, <<L("b")>>, MCLong} |-> IF w = <<L("a")>> THEN 1 ELSE IF w = <<L("b")>> THEN 2 ELSE 3]
Text(words) == FoldLeft(LAMBDA t, w : t \o w \o <<Char("Z")>>, <<>>, words)
A == <<L("a")>>
B == <<L("b")>>
C == <<L("c")>>
Page(selected, refs, words) == [selected |-> selected, refs |-> refs, text |-> Text(words)]
MCTables ==
    {(1 :> Page(TRUE, {1, 3, 4}, <<A, B, A, B, C, B, A>>)) @@ (2 :> Page(FALSE, {}, <<A, B>>))
       @@ (3 :> Page(TRUE, {1, 2, 9}, <<B, A, C, B>>)) @@ (4 :> Page(TRUE, {1}, <<MCLong, A, <<Char("P")>>, B>>)),
     (1 :> Page(TRUE, {2}, <<A, B, MCLong, B, A, A>>)) @@ (2 :> Page(TRUE, {}, <<>>)) @@ (3 :> Page(FALSE, {}, <<B>>)),
     (1 :> Page(TRUE, {}, <<A>>)) @@ (2 :> Page(FALSE, {}, <<A>>))}

AsyncInit ==
    /\ part \in {"mutex", "service", "spider", "text", "report"}
    /\ Init /\ ServiceInit /\ SpiderInit
    /\ IF part = "text" THEN TextInit ELSE TextStart(<<>>)
    /\ IF part = "report" THEN ReportInit ELSE ReportStart(<<>>)

AsyncNext ==
    /\ UNCHANGED part
    /\ \/ part = "mutex" /\ Next /\ UNCHANGED <<serviceVars, spiderVars, textVars, reportVars>>
       \/ part = "service" /\ ServiceNext /\ UNCHANGED <<vars, spiderVars, textVars, reportVars>>
       \/ part = "spider" /\ SpiderNext /\ UNCHANGED <<vars, serviceVars, textVars, reportVars>>
       \/ part = "text" /\ TextNext /\ UNCHANGED <<vars, serviceVars, spiderVars, reportVars>>
       \/ part = "report" /\ ReportNext /\ UNCHANGED <<vars, serviceVars, spiderVars, textVars>>

AsyncSpec ==
    /\ AsyncInit /\ [][AsyncNext]_<<part, vars, serviceVars, spiderVars, textVars, reportVars>>
    /\ MutexFairness /\ ServiceFairness /\ SpiderFairness
=============================================================================
