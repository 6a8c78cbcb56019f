---------------------------- MODULE EventStream ----------------------------
(***************************************************************************)
(* What every pollable log of the system promises its reader (the MCP      *)
(* job_events tool, the dashboard's and the fleet's "offset" log): the     *)
(* source only grows until it is closed, the reader takes it in order,     *)
(* without a gap or a repeat, and is told "done" only when it is closed    *)
(* and wholly read.                                                        *)
(***************************************************************************)
EXTENDS Naturals, Sequences

VARIABLES source,     \* the events recorded so far
          closed,     \* nothing more will be recorded
          taken,      \* what the reader has received
          concluded   \* the reader was told it has everything

vars == <<source, closed, taken, concluded>>

Init ==
    /\ source = <<>> /\ taken = <<>>
    /\ closed = FALSE /\ concluded = FALSE

Grow ==
    /\ ~closed
    /\ Len(source') = Len(source) + 1
    /\ source = SubSeq(source', 1, Len(source))
    /\ UNCHANGED <<closed, taken, concluded>>

Close ==
    /\ ~closed
    /\ closed' = TRUE
    /\ UNCHANGED <<source, taken, concluded>>

Take ==
    /\ ~concluded
    /\ \E n \in Len(taken)..Len(source) :
          /\ taken' = SubSeq(source, 1, n)
          /\ concluded' = (closed /\ n = Len(source))
    /\ UNCHANGED <<source, closed>>

Next == Grow \/ Close \/ Take

Spec == Init /\ [][Next]_vars
=============================================================================
