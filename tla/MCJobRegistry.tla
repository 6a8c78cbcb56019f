--------------------------- MODULE MCJobRegistry ---------------------------
(* Instances of JobRegistry for TLC.                                        *)
EXTENDS JobRegistry
CONSTANTS j1, j2, j3, c1

\* One job outgrows its log, the others are short.
MCYield == [j \in Jobs |-> IF j = j1 THEN 3 ELSE 1]
=============================================================================
