------------------------------ MODULE MCAlerts ------------------------------
(* Instances of Alerts for TLC: one person, two departure dates.           *)
EXTENDS Alerts, TLC

MCAttributes == {"prd", "roster"}
MCValues == [a \in Attributes |->
                IF a = "prd" THEN {0, 2} ELSE {Active, Incoming, Departed}]
MCFormValues == [a \in Attributes |-> IF a = "prd" THEN {0, 2} ELSE {Active}]

=============================================================================
