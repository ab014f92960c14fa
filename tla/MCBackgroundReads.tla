--------------------------- MODULE MCBackgroundReads ---------------------------
(* Model-checking instances of BackgroundReads.                            *)
EXTENDS BackgroundReads, TLC

CONSTANTS a1, a2    \* application threads, model values

OneApp  == {a1}
TwoApps == {a1, a2}

(* The application threads are interchangeable; used for safety only.      *)
Symmetry == Permutations(Apps)

================================================================================
