---------------------------- MODULE ModeratorCover ----------------------------
(***************************************************************************)
(* What a moderator's availability promises, whatever rows it is kept in:  *)
(* the units of time offered.  Posting a range offers all of it and takes  *)
(* nothing back; only a call that deletes a range takes time back, once,   *)
(* and no time but that range's.                                           *)
(***************************************************************************)
EXTENDS Integers

CONSTANTS Call, Horizon

VARIABLES
  cover,   \* the units of time offered
  removed  \* the calls that have deleted a range

Units(from, to) == from .. (to - 1)

Init == cover \subseteq Units(0, Horizon) /\ removed = {}

Offer(from, to) == cover' = cover \cup Units(from, to) /\ UNCHANGED removed

Withdraw(c, from, to) ==
  /\ removed' = removed \cup {c}
  /\ cover \ Units(from, to) \subseteq cover'
  /\ cover' \subseteq cover

Next ==
  \E from, to \in 0 .. Horizon :
    from < to /\ (Offer(from, to) \/ \E c \in Call \ removed : Withdraw(c, from, to))

Spec == Init /\ [][Next]_<<cover, removed>>
=============================================================================
