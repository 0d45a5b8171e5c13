----------------------------- MODULE MCRuleLoop -----------------------------
(* Constant values for the instances of RuleLoop that TLC checks.          *)
EXTENDS RuleLoop, TLC

CONSTANTS s1, s2

(* The two commodities are interchangeable.                                *)
Swap == Permutations({s1, s2})
=============================================================================
