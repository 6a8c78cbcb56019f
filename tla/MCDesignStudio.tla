--------------------------- MODULE MCDesignStudio ---------------------------
(* Instances of DesignStudio for TLC.                                       *)
EXTENDS DesignStudio, TLC
CONSTANTS a, b, c1, c2, c3

\* Designs are interchangeable, and so are the threads that serve requests.
StudioSymmetry == Permutations(Ids) \cup Permutations(Callers)
=============================================================================
