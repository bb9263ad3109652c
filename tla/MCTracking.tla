----------------------------- MODULE MCTracking -----------------------------
(* Instances of Tracking for TLC.                                          *)
EXTENDS Tracking, TLC

CONSTANTS w1, w2, m1, m2   \* model values: drains and messages

\* Drains only differ by name, and so do requests (safety properties only).
Names == Permutations({w1, w2}) \cup Permutations({m1, m2})

=============================================================================
