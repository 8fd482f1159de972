---------------------------- MODULE MCEnrichment ----------------------------
(* Model checking of Enrichment: workers are interchangeable. *)
EXTENDS Enrichment, MCVerdict, TLC

AllOff == [AllOn EXCEPT !.on = FALSE]
NoSort == [AllOn EXCEPT !.sort = FALSE]

OnlyOn == {AllOn}
OnOff == {AllOn, AllOff}
SortOrNot == {AllOn, NoSort}

Symmetry == Permutations(Worker)
=============================================================================
