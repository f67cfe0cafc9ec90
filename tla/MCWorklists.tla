---------------------------- MODULE MCWorklists ----------------------------
(* Instances of Worklists for TLC: two weeks, one recurring template.      *)
EXTENDS Worklists, TLC

CONSTANTS tpl

\* The template falls on the Monday of the first week, as one every two weeks does.
MCDue == [w \in Weeks |-> IF w = 1 THEN {<<tpl, 0>>} ELSE {}]
MCTemplates == {tpl}
\* Amending twice takes three worklists; requests that interleave meet in fewer.
MCMaxWorklists == [tk |-> 3, hosted |-> 2]
MCMaxTasks == [tk |-> 2, hosted |-> 2]
RequestSymmetry == Permutations(Requests)

=============================================================================
