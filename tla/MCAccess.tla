------------------------------ MODULE MCAccess ------------------------------
(* Instances of Access for TLC: two users, who founded an organization each. *)
EXTENDS Access, TLC

CONSTANTS alice, bob

AnOrgEach == <<alice, bob>>
BothBound == <<[user |-> alice, org |-> 1], [user |-> bob, org |-> 2]>>

=============================================================================
