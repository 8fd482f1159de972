---- MODULE MCTokenVault ----
EXTENDS TokenVault, MCAccess, TLC

Symmetry == Permutations(Proc)
====
