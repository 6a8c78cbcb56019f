----------------------------- MODULE SolverRun -----------------------------
(***************************************************************************)
(* solve_pins one connection at a time (csp/pin_solver.py), and the        *)
(* checker, written apart from it ("the two modules are deliberately       *)
(* independent", csp/compatibility.py), on what it leaves.                 *)
(***************************************************************************)
EXTENDS PinSolver, Compatibility

CONSTANT Inputs   \* the designs solved

\* Every pin a design names is a pin; nothing keeps them apart.
Readable(d) ==
    /\ {"board", "comps", "buses", "conns"} \subseteq DOMAIN d
    /\ d.board \in DOMAIN Boards => DOMAIN Board(d).caps \subseteq Pins
    /\ d.conns \in Seq(Connections)
    /\ DOMAIN d.buses \cup DOMAIN d.comps \subseteq Nat
    /\ BoundPins(d.conns) \cup PinsOnBuses(d.buses) \subseteq Pins
    /\ Ids(d.buses) \cup Ids(d.comps) \subseteq Names
    /\ \A i \in DOMAIN d.conns :
          IsLocked(d, d.conns[i]) => LockOf(d, d.conns[i]) \in Pins

ASSUME InputsAssumption == \A d \in Inputs : Readable(d)

\* The design, the run over it, where the run stands, and whether this is the
\* second run, over what the first one left.
VARIABLES design, run, phase, at, again
vars == <<design, run, phase, at, again>>

\* A design whose board is unknown is handed back as it came.
Knows(d) == d.board \in DOMAIN Boards
FirstPhase(d) == IF Knows(d) THEN "lock" ELSE "done"

Init ==
    /\ design \in Inputs
    /\ run = Start(design)
    /\ phase = FirstPhase(design) /\ at = 1
    /\ again = FALSE

Lock ==
    /\ phase = "lock" /\ at <= Len(run.conns)
    /\ run' = LockAt(design, run, at)
    /\ at' = at + 1
    /\ UNCHANGED <<design, phase, again>>

Locked ==
    /\ phase = "lock" /\ at > Len(run.conns)
    /\ phase' = "solve" /\ at' = 1
    /\ UNCHANGED <<design, run, again>>

Assign ==
    /\ phase = "solve" /\ at <= Len(run.conns)
    /\ run' = SolveAt(design, run, at)
    /\ at' = at + 1
    /\ UNCHANGED <<design, phase, again>>

Finish ==
    /\ phase = "solve" /\ at > Len(run.conns)
    /\ phase' = "done"
    /\ UNCHANGED <<design, run, at, again>>

\* The design as the run leaves it, handed to the solver once more.
Solved == [design EXCEPT !.conns = run.conns]
SolveAgain ==
    /\ phase = "done" /\ ~again
    /\ design' = Solved
    /\ run' = Start(Solved)
    /\ phase' = FirstPhase(design) /\ at' = 1
    /\ again' = TRUE

Next == Lock \/ Locked \/ Assign \/ Finish \/ SolveAgain

Spec == Init /\ [][Next]_vars

-----------------------------------------------------------------------------
(* Properties.                                                             *)

\* Every part of the run keeps its type: targets stay targets, and the pins in
\* use are pins.
TypeOK ==
    /\ Readable(design)
    /\ phase \in {"lock", "solve", "done"} /\ again \in BOOLEAN
    /\ at \in Nat \ {0}
    /\ run \in [conns : Seq(Connections), used : SUBSET Pins, usedEx : SUBSET (Names \X Nat),
                by : Seq({"none", "given", "lock", "solver"})]
    /\ Len(run.conns) = Len(design.conns) /\ Len(run.by) = Len(design.conns)
    /\ \A i \in DOMAIN run.conns :
          /\ run.conns[i].comp = design.conns[i].comp
          /\ run.conns[i].role = design.conns[i].role
          /\ run.conns[i].target.kind = design.conns[i].target.kind

\* The pins a connection and a bus slot can claim are all known to be in use:
\* a solver that missed one (the UART slots once were) hands it out again.
UsedCovers == BoundPins(run.conns) \cup PinsOnBuses(design.buses) \subseteq run.used

OnPin(i, p) == run.conns[i].target.kind = "gpio" /\ run.conns[i].target.to = p

\* A pin the solver chooses is nobody else's: no other connection is on it,
\* however that one was bound, and no bus slot is.
SolverPinsExclusive ==
    \A i \in DOMAIN run.conns :
       run.by[i] = "solver" /\ run.conns[i].target.kind = "gpio" =>
          /\ run.conns[i].target.to \notin PinsOnBuses(design.buses)
          /\ \A j \in DOMAIN run.conns : OnPin(j, run.conns[i].target.to) => i = j

\* The connections the solver put on a board pin, the pins that could have
\* served one and are still free, and what the checker says of a pin for it.
ByTheSolver == {i \in DOMAIN run.conns :
                  run.by[i] = "solver" /\ run.conns[i].target.kind = "gpio"}
Could(i) == Suitable(Board(design), PinOf(design, run.conns[i]))
Spare(i) == Could(i) \ run.used
IsSpecial(p) == Special(Board(design).caps[p])
CodesOn(i, p) == PinCodes(PinOf(design, run.conns[i]), Caps(Board(design), p),
                          Board(design).classic)
Graded(i, p, severity) == \E code \in CodesOn(i, p) : code[1] = severity

\* A connection is left without a pin only when every pin that could serve it
\* was in use, and the solver falls back on a special pin only when every plain
\* one was.
NothingWasted ==
    /\ phase = "done" /\ Knows(design) =>
          \A i \in DOMAIN run.conns :
             /\ run.by[i] = "none" /\ run.conns[i].target.kind = "gpio"
             /\ HasPin(design, run.conns[i])
             => Spare(i) = {}
    /\ \A i \in ByTheSolver : IsSpecial(run.conns[i].target.to) =>
          \A p \in Spare(i) : IsSpecial(p)

\* Solving what was solved changes nothing: solve_pins may be called after
\* every edit.
SolvedIsStable == again => run.conns = design.conns

\* The solver's result is one a caller can keep: as good as it could be, and
\* its own fixed point.
SolvedIsKept == NothingWasted /\ SolvedIsStable

\* Only unbound targets are ever filled, and only once.
BoundStays ==
    [][\A i \in DOMAIN run.conns :
          ~Unbound(run.conns[i].target) => run'.conns[i].target = run.conns[i].target]_vars

-----------------------------------------------------------------------------
(* The checker on what the solver did.                                     *)

\* The solver never picks a pin the checker then calls impossible, save for an
\* output it does not know for one: a chip select, or a role of a bus that is
\* wired pin by pin.
CheckerAgrees ==
    \A i \in ByTheSolver :
       i \in Checked(Solved) /\ Graded(i, run.conns[i].target.to, "error") =>
          PinOf(design, run.conns[i]).kind \in OutputKinds \ SolverOutputs

\* Where the checker warns of a strap, a console or an ADC2 pin the solver
\* chose, every pin left for it is special or draws a warning too.
NoNeedlessWarning ==
    \A i \in ByTheSolver :
       LET libPin == PinOf(design, run.conns[i]) IN
         /\ Graded(i, run.conns[i].target.to, "warn")
         /\ libPin.kind = "analog_in" => "pwm" \notin libPin.needs
         => \A p \in Spare(i) : IsSpecial(p) \/ Graded(i, p, "warn")

\* The solver and the checker agree on every pin the solver chose.
ChosenPinsPass == CheckerAgrees /\ NoNeedlessWarning

\* The solver's result is one to keep, and one the checker accepts.
SolverSound == SolvedIsKept /\ ChosenPinsPass

\* Refuted: "a CSP solver assigns legal pins" (README.md:14).  An SPI chip
\* select may be put on a pin that cannot drive it.
AssignsLegalPins ==
    \A i \in ByTheSolver : ~Graded(i, run.conns[i].target.to, "error")

\* Refuted: that a warning is drawn only where no free pin would have spared
\* it.  All special pins rank alike: a strap may be taken before a free pin
\* that is special for its LED alone, of which the checker says nothing.
SparesWarnings ==
    \A i \in ByTheSolver :
       /\ Graded(i, run.conns[i].target.to, "warn")
       /\ "pwm" \notin PinOf(design, run.conns[i]).needs
       => \A p \in Spare(i) : Graded(i, p, "warn")
=============================================================================
