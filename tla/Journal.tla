------------------------------ MODULE Journal ------------------------------
(***************************************************************************)
(* What effective dating promises (the docstrings of                       *)
(* app/services/effective.py): of every person a journal of each           *)
(* attribute, where what is noted stays as it was noted, nothing is noted  *)
(* that is current already, and what is current is what was noted last,    *)
(* whatever date it was given.                                             *)
(***************************************************************************)
EXTENDS Sequences

CONSTANTS
    Attributes,     \* what is kept of a person
    Values,         \* the values there are
    Days,           \* the dates there are
    None            \* no value

VARIABLES
    log,            \* log[p][a]: what was noted of attribute a of person p
    current         \* current[p][a]: the value that is shown of it, or None

vars == <<log, current>>

\* What is said of a person at one time, on the attributes that are mentioned.
Notes == [Attributes -> Values \cup {None}]

Noted(entries, value, day) ==
    IF value = None THEN entries ELSE Append(entries, [value |-> value, from |-> day])

Init ==
    /\ log = <<>>
    /\ current = <<>>

\* A person is added.
Enter(notes, day) ==
    /\ log' = Append(log, [a \in Attributes |-> Noted(<<>>, notes[a], day)])
    /\ current' = Append(current, notes)

\* Something new is said of a person.
Note(p, notes, day) ==
    /\ \A a \in Attributes : notes[a] # None => notes[a] # current[p][a]
    /\ log' = [log EXCEPT ![p] = [a \in Attributes |-> Noted(log[p][a], notes[a], day)]]
    /\ current' = [current EXCEPT ![p] =
                    [a \in Attributes |->
                        IF notes[a] = None THEN current[p][a] ELSE notes[a]]]

\* A step notes something.
Next ==
    /\ log' # log
    /\ \E notes \in Notes, day \in Days :
          Enter(notes, day) \/ \E p \in DOMAIN log : Note(p, notes, day)

Spec == Init /\ [][Next]_vars

=============================================================================
