------------------------ MODULE MCHonorariumPayment ------------------------
\* Small instances of HonorariumPayment for TLC.
EXTENDS HonorariumPayment, TLC

AllFaults == FaultKinds

\* What can go wrong while the server stays up and the client waits.  (A Lambda
\* that fails behind a 200 is to the server one that has credited.)
ServedFaults == {"refused", "lostReply", "commit", "commitReply", "query"}

Symmetry == Permutations(Request) \cup Permutations(Slot) \cup Permutations(Amount)
============================================================================
