----------------------------- MODULE MCTaskLead -----------------------------
(* Instances of TaskLead for TLC: two people on the roster.                *)
EXTENDS TaskLead, TLC

RequestAndPeopleSymmetry == Permutations(People) \cup Permutations(Requests)

=============================================================================
