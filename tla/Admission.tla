----------------------------- MODULE Admission -----------------------------
(***************************************************************************)
(* What one rate limiter promises (the docstrings of                       *)
(* app/auth/rate_limit.py): every key has a quota; a request is let in and *)
(* takes one from it, or, when nothing is left, kept out at no cost; time, *)
(* and nothing else, gives a key its whole quota back.                     *)
(***************************************************************************)
EXTENDS Integers

CONSTANTS
    Keys,           \* what requests are counted by
    Limit           \* the quota of each key

VARIABLES
    quota,          \* what is left of each key's quota
    answer          \* what the last request of each key was told

vars == <<quota, answer>>

Init ==
    /\ quota = Limit
    /\ answer = [k \in Keys |-> "none"]

LetIn(k) ==
    /\ quota[k] > 0
    /\ quota' = [quota EXCEPT ![k] = @ - 1]
    /\ answer' = [answer EXCEPT ![k] = "in"]

KeepOut(k) ==
    /\ quota[k] = 0
    /\ answer' = [answer EXCEPT ![k] = "out"]
    /\ UNCHANGED quota

\* One moment may end the windows of several keys.
Renew ==
    /\ \E K \in SUBSET Keys : quota' = [k \in Keys |-> IF k \in K THEN Limit[k] ELSE quota[k]]
    /\ UNCHANGED answer

Next == Renew \/ \E k \in Keys : LetIn(k) \/ KeepOut(k)

Spec == Init /\ [][Next]_vars

=============================================================================
