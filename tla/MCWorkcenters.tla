---------------------------- MODULE MCWorkcenters ----------------------------
(* Instances of Workcenters for TLC: of the seeded roles, the owner's. *)
EXTENDS Workcenters

OwnerOnly == <<[perms |-> Codes, scopable |-> FALSE]>>

=============================================================================
