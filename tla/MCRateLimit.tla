---------------------------- MODULE MCRateLimit ----------------------------
(* Instances of RateLimit for TLC: a limit of two logins. *)
EXTENDS RateLimit

LoginOnly == [login |-> 2]

=============================================================================
