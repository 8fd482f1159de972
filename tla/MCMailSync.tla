----------------------------- MODULE MCMailSync -----------------------------
(* Model checking of MailSync: threads, users and workers are interchangeable. *)
EXTENDS MCInbox, MailSync, TLC

Symmetry == Permutations(Thread) \cup Permutations(User) \cup Permutations(Worker)
=============================================================================
