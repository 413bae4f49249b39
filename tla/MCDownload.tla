----------------------------- MODULE MCDownload -----------------------------
(* Names for one or two calls of run(). *)
EXTENDS Download, TLC

CONSTANTS r1, r2

OneRun == {r1}
TwoRuns == {r1, r2}

RunSymmetry == Permutations(TwoRuns)
=============================================================================
