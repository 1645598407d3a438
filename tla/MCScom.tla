------------------------------- MODULE MCScom ------------------------------
(***************************************************************************)
(* The scom library for TLC: the crawl of an instance, in which a rule is  *)
(* just there or not, what the rules of an instance select, and what is    *)
(* read in the pages they select, by spider too.  Each behaviour is about  *)
(* one of them.                                                            *)
(***************************************************************************)
EXTENDS ScomService, PageRules, MCPage

VARIABLE part

RefRule(src, min, max, amount, negative) ==
    [source |-> src, min |-> min, max |-> max, amount |-> amount, negative |-> negative]

(* Unlimited rules, a negative one, and a limited one before another. *)
MCRuleLists ==
    {<<RefRule(1, 0, 1, -1, FALSE), RefRule(2, 1, 2, -1, FALSE)>>,
     <<RefRule(1, 0, 1, -1, TRUE), RefRule(1, 1, 1, -1, FALSE)>>,
     <<RefRule(1, 0, 2, 1, FALSE), RefRule(2, 0, 1, -1, FALSE)>>}

MCSimpleRules ==
    <<[host |-> <<>>, pattern |-> <<"com">>, min |-> -1, max |-> 0, amount |-> 1, negative |-> FALSE],
      [host |-> <<"com">>, pattern |-> <<"", "dir">>, min |-> 0, max |-> 0, amount |-> -1, negative |-> FALSE],
      [host |-> <<"com">>, pattern |-> <<"", "other">>, min |-> 0, max |-> 0, amount |-> 1, negative |-> TRUE]>>

ScomInit ==
    /\ part \in {"crawl", "rules", "page"}
    /\ Init
    /\ IF part = "rules" THEN RulesInit ELSE RulesStart(<<>>)
    /\ IF part = "page" THEN PageInit ELSE PageStart(<<>>)

ScomNext ==
    /\ UNCHANGED part
    /\ \/ part = "crawl" /\ Next /\ UNCHANGED <<ruleVars, pageVars>>
       \/ part = "rules" /\ RulesNext /\ UNCHANGED <<vars, pageVars>>
       \/ part = "page" /\ PageNext /\ UNCHANGED <<vars, ruleVars>>

(* What an instance loads: of its pages no more than its rules have an     *)
(* amount for (PageRuleApplyer::update), and of a page that is loaded all  *)
(* that it shows and every page it leads to, however its tags are nested.  *)
LoadsExact == AmountKept /\ PageExact

ScomSpec == ScomInit /\ [][ScomNext]_<<part, vars, ruleVars, pageVars>> /\ Fairness
=============================================================================
