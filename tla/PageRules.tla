----------------------------- MODULE PageRules -----------------------------
(***************************************************************************)
(* scom::impl::PageRuleApplyer (src/scom/impl/pageRuleApplyer.cpp): which  *)
(* pages of an instance the rules select.  A simple rule (regex, domain,   *)
(* path) looks at the page's address; a reference rule at its distance, in *)
(* links, from a source page.  A rule is applied to at most _amount pages. *)
(* Pages and links arrive with every loadPages; each update starts anew,   *)
(* except for Page::_levelInCurrentUpdate, which every reference rule is   *)
(* to leave at INT_MAX.                                                    *)
(***************************************************************************)
EXTENDS Integers, Sequences, FiniteSets

CONSTANTS NumRulePages,  \* bound: pages are 1 .. NumRulePages, in load order
          RuleLists,     \* the lists of reference rules that are tried
          SimpleRules    \* the simple rules of the instance

INT_MAX == 2147483647

(* A path rule has a host; a domain rule has none. *)
PatternRules == [host : Seq(STRING), pattern : Seq(STRING), min : Int, max : Int, amount : Int, negative : BOOLEAN]
ReferenceRules == [source : Nat, min : Int, max : Int, amount : Int, negative : BOOLEAN]

ASSUME RulesAssumption ==
    /\ NumRulePages \in Nat /\ NumRulePages < INT_MAX
    /\ RuleLists \subseteq Seq(ReferenceRules)
    /\ SimpleRules \in Seq(PatternRules)

VARIABLES
    refRules,     \* _rulesReference
    refereces,    \* Page::_refereces of the loaded pages
    level,        \* Page::_levelInCurrentUpdate
    accessSimple, \* Page::_accessSimple: the simple rules that selected the page
    accessRefs    \* Page::_accessRefs: likewise the reference rules

ruleVars == <<refRules, refereces, level, accessSimple, accessRefs>>

RulePages == DOMAIN refereces

RulesStart(list) ==
    /\ refRules = list
    /\ refereces = <<{}>>
    /\ level = <<INT_MAX>>
    /\ accessSimple = <<{}>> /\ accessRefs = <<{}>>

RulesInit == \E list \in RuleLists : RulesStart(list)

(* loadPages: another page, or the links that a page was found to have. *)
LoadNewPage ==
    /\ Len(refereces) < NumRulePages
    /\ refereces' = Append(refereces, {})
    /\ level' = Append(level, INT_MAX)
    /\ accessSimple' = Append(accessSimple, {})
    /\ accessRefs' = Append(accessRefs, {})
    /\ UNCHANGED refRules

LoadReferences ==
    /\ \E p \in RulePages : refereces[p] = {} /\
         \E dst \in SUBSET RulePages \ {{}} : refereces' = [refereces EXCEPT ![p] = dst]
    /\ UNCHANGED <<refRules, level, accessSimple, accessRefs>>

-----------------------------------------------------------------------------
(* Simple rules. *)

(* An int compared with a size_t: a negative one counts as huge. *)
ExceedsSize(i, size) == i < 0 \/ i > size

(* levelMatched: the labels of the pattern from mustMatchMin up to         *)
(* mustMatchMax are equal to those of the sample.                          *)
levelMatched(pattern, patternMin, patternMax, sample) ==
    LET lo == IF Len(pattern) - 1 + patternMin < 0 THEN 0 ELSE Len(pattern) - 1 + patternMin
        up == Len(pattern) + patternMax
        hi == IF ExceedsSize(up, Len(pattern)) THEN Len(pattern) ELSE up
        hs == IF hi > Len(sample) THEN Len(sample) ELSE hi
    IN  \/ pattern = <<>>
        \/ hi <= lo
        \/ \A i \in lo + 1 .. hs : pattern[i] = sample[i]

(* The address of a page: the labels of its host, the outermost first, and *)
(* the directories of its path.                                            *)
RuleHost(p) == IF p = 3 THEN <<"com", "b">> ELSE <<"com">>
RulePath(p) == IF p = 1 THEN <<"">> ELSE <<"", "dir">>

(* A domain rule looks at the host; a path rule at the path, and, unless it *)
(* is negative, at no page of another host.  A regular expression is not   *)
(* modelled: it selects some pages, as a domain rule does.                 *)
Selects(r, p) ==
    /\ r.host \in {<<>>, RuleHost(p)} \/ r.negative
    /\ levelMatched(r.pattern, r.min, r.max, IF r.host = <<>> THEN RuleHost(p) ELSE RulePath(p)) # r.negative

(* The first loop of update: a rule selects pages in their order until it  *)
(* was applied _amount times; a negative amount is no limit.               *)
SelectUnlimited(r) == {p \in RulePages : Selects(r, p)}
SelectSimple(r) ==
    {p \in RulePages : /\ Selects(r, p)
                       /\ r.amount >= 0 => Cardinality({q \in 1 .. p - 1 : Selects(r, q)}) < r.amount}

-----------------------------------------------------------------------------
(* Reference rules. *)

(* The breadth first search of updateReferences: wave n holds the pages to *)
(* look at on level n.  A page whose level is not above n is skipped with  *)
(* its children.                                                           *)
Wave(n, s) ==
    LET now == {p \in s.buffer : s.level[p] > n}
    IN  [level |-> [p \in RulePages |-> IF p \in now THEN n ELSE s.level[p]],
         buffer |-> UNION {refereces[p] : p \in now}]
WavesFrom(lv, source) ==
    LET wave[n \in 0 .. Len(refereces)] ==
          Wave(n, IF n = 0 THEN [level |-> lv, buffer |-> {source}] ELSE wave[n - 1])
    IN  wave[Len(refereces)].level

(* The last loop: the levels in the range (or outside it) are selected and *)
(* forgotten, until the rule has been applied _amount times; the levels of *)
(* the pages after that stay.                                              *)
InRange(r, lv) == (lv >= r.min /\ lv <= r.max) # r.negative
Exhausted(r, n) == r.amount >= 0 /\ n >= r.amount

(* The last line of the loop. *)
KeepLevel(lv, p) == lv
ForgetLevel(lv, p) == [lv EXCEPT ![p] = INT_MAX]

Collect(r, s, p) ==
    IF Exhausted(r, s.applied) THEN s
    ELSE [level |-> ForgetLevel(s.level, p),
          chosen |-> IF InRange(r, s.level[p]) THEN s.chosen \cup {p} ELSE s.chosen,
          applied |-> IF InRange(r, s.level[p]) THEN s.applied + 1 ELSE s.applied]

Unchosen(lv) == [level |-> lv, chosen |-> {}, applied |-> 0]
CollectFrom(lv, r) ==
    LET collect[n \in 0 .. Len(refereces)] ==
          IF n = 0 THEN Unchosen(lv) ELSE Collect(r, collect[n - 1], n)
    IN  collect[Len(refereces)]
updateReferences(lv, r) ==
    IF r.max < 0 THEN Unchosen(lv) ELSE CollectFrom(WavesFrom(lv, r.source), r)

(* The results of the rules one after the other, on the levels each one    *)
(* finds.  A rule whose source is not loaded yet is left out.              *)
RuleResult(lv, r) == IF r.source \notin RulePages THEN Unchosen(lv) ELSE updateReferences(lv, r)
RuleResults ==
    LET res[n \in 0 .. Len(refRules)] ==
          IF n = 0 THEN Unchosen(level) ELSE RuleResult(res[n - 1].level, refRules[n])
    IN  res

Update ==
    /\ accessSimple' = [p \in RulePages |->
                          {i \in DOMAIN SimpleRules : p \in SelectSimple(SimpleRules[i])}]
    /\ LET res == RuleResults IN
         /\ accessRefs' = [p \in RulePages |-> {i \in DOMAIN refRules : p \in res[i].chosen}]
         /\ level' = res[Len(refRules)].level
    /\ UNCHANGED <<refRules, refereces>>

RulesNext == LoadNewPage \/ LoadReferences \/ Update
RulesSpec == RulesInit /\ [][RulesNext]_ruleVars

-----------------------------------------------------------------------------
(* Properties. *)

(* Reference definition: the pages that n links or fewer lead to. *)
Within(source, n) ==
    LET reach[k \in 0 .. n] ==
          IF k = 0 THEN {source} ELSE reach[k - 1] \cup UNION {refereces[p] : p \in reach[k - 1]}
    IN  reach[n]
Distance(source, p) ==
    LET ns == {n \in 0 .. Len(refereces) : p \in Within(source, n)}
    IN  IF ns = {} THEN INT_MAX ELSE CHOOSE n \in ns : \A m \in ns : n <= m

Unlimited(r) == r.amount < 0

(* A reference rule without a limit selects the pages whose distance from  *)
(* its source is in its range, whatever other rules and updates came       *)
(* before: no level of an earlier search is taken for one of this search.  *)
ReferenceRuleExact ==
    [][Update =>
         \A i \in DOMAIN refRules :
           LET r == refRules[i] IN
           Unlimited(r) /\ r.source \in RulePages /\ r.max >= 0 =>
             \A p \in RulePages : i \in accessRefs'[p] <=> InRange(r, Distance(r.source, p))]_ruleVars

(* The same while no rule of the instance has a limit. *)
UnlimitedRulesExact ==
    [][(\A i \in DOMAIN refRules : Unlimited(refRules[i])) =>
         \A i \in DOMAIN refRules :
           LET r == refRules[i] IN
           Update /\ r.source \in RulePages /\ r.max >= 0 =>
             \A p \in RulePages : i \in accessRefs'[p] <=> InRange(r, Distance(r.source, p))]_ruleVars

(* No rule selects more pages than its amount, over all updates and loads. *)
AmountKept ==
    /\ \A i \in DOMAIN refRules : refRules[i].amount >= 0 =>
         Cardinality({p \in RulePages : i \in accessRefs[p]}) <= refRules[i].amount
    /\ \A i \in DOMAIN SimpleRules : SimpleRules[i].amount >= 0 =>
         Cardinality({p \in RulePages : i \in accessSimple[p]}) <= SimpleRules[i].amount

=============================================================================
