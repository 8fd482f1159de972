---------------------------- MODULE MCFollowUps ----------------------------
EXTENDS FollowUps, TLC

Symmetry ==
  Permutations(Reminder) \cup Permutations(Sender) \cup Permutations(Checker)
=============================================================================
