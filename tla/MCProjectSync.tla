--------------------------- MODULE MCProjectSync ---------------------------
(* Model-checking instance of ProjectSync: no property tells workers apart. *)
EXTENDS ProjectSync, TLC

Symmetry == Permutations(Workers)

\* State constraint: every property is about the end of a round that began quietly, so that
\* nothing is left to see once the last round is over, or has begun otherwise.
RoundsToEnd == round < MaxRounds \/ (main.st # "idle" /\ main.quiet)
=============================================================================
