-------------------------- MODULE MCInterviewSlots --------------------------
\* A small instance of InterviewSlots for TLC.
EXTENDS InterviewSlots, TLC

CONSTANTS s1, s2

SlotWith(status) == [status |-> status, invalid |-> FALSE, invalidated |-> FALSE, over |-> FALSE]

\* The slot that requests name has yet to be made; the other is to come or done.
OneMade == {[s \in Slot |-> IF s = s1 THEN NoRow ELSE SlotWith(st)] : st \in {Pending, 9}}

Finish == {[status |-> 9, invalid |-> FALSE]}
FinishOrSpoil == {[status |-> 9, invalid |-> i] : i \in BOOLEAN}
CallSymmetry == Permutations(Call)

Start == {[status |-> InProgress, size |-> 2]}
=============================================================================
