----------------------------- MODULE PinSolver -----------------------------
(***************************************************************************)
(* csp/pin_solver.py: solve_pins walks the connections twice, first to     *)
(* apply the components' locked_pins, then to give every unbound           *)
(* connection a board pin, a bus, an expander pin or a parent.             *)
(***************************************************************************)
EXTENDS Designs

CONSTANTS
    Pins,     \* pin names
    MaxPin    \* a bound on their numbers

Names == STRING \X Nat
Targets == [kind : TargetKinds, to : Names \cup {None}, number : Nat]
Connections == [comp : Names, role : STRING, target : Targets]

BoundPins(conns) == {conns[i].target.to : i \in {j \in DOMAIN conns :
                        conns[j].target.kind = "gpio" /\ conns[j].target.to # None}}

\* The lock on a connection's role, if its component has one.
IsLocked(d, c) == c.comp \in Ids(d.comps) /\ c.role \in DOMAIN Named(d.comps, c.comp).locks
LockOf(d, c) == Named(d.comps, c.comp).locks[c.role]

ASSUME PinsAssumption ==
    /\ MaxPin \in Nat
    /\ None \notin Names
    /\ Pins \subseteq Names
    /\ \A p \in Pins : Number(p) <= MaxPin
    /\ \A lib \in DOMAIN Parts : Parts[lib].expander \in Nat

-----------------------------------------------------------------------------
(* What a pin is worth to a connection.                                    *)

SolverOutputs == {"digital_out", "i2s_dout"}
Special(caps) ==
    caps \cap ({"boot", "strap", "builtin_led"} \cup StrapTags \cup SerialTags) # {}

\* Mutant: what a pin cannot do is not looked at.
Suitable_AnyFunction(board, libPin) ==
    {p \in DOMAIN board.caps :
        /\ RequiredCaps(libPin.kind) \subseteq board.caps[p]
        /\ libPin.kind \in SolverOutputs => "input_only" \notin board.caps[p]}
\* The pins that can serve a library pin ...
Suitable(board, libPin) ==
    {p \in DOMAIN board.caps :
        /\ RequiredCaps(libPin.kind) \subseteq board.caps[p]
        /\ libPin.kind \in SolverOutputs => "input_only" \notin board.caps[p]
        /\ Unserved(libPin, board.caps[p]) = {}}

\* ... and their order: plain ones first, then those with a PWM channel if one
\* is required, then those off ADC2, then by name.
Penalty(board, libPin, p) ==
    LET caps == board.caps[p] IN
      (IF Special(caps) THEN 4 ELSE 0)
    + (IF "pwm" \in libPin.needs /\ "pwm" \notin caps THEN 2 ELSE 0)
    + (IF libPin.kind = "analog_in" /\ board.classic /\ "adc2" \in caps THEN 1 ELSE 0)

Rank(board, libPin, p) == Penalty(board, libPin, p) * (MaxPin + 1) + Number(p)

Best(board, libPin, free) ==
    CHOOSE p \in free :
       Rank(board, libPin, p) = Least({Rank(board, libPin, q) : q \in free})

-----------------------------------------------------------------------------
(* A run holds the connections, the pins and expander pins in use, and, as *)
(* history, what bound each connection.                                    *)

BoundExpanderPins(conns) ==
    {<<conns[i].target.to, conns[i].target.number>> : i \in {j \in DOMAIN conns :
        conns[j].target.kind = "expander_pin" /\ conns[j].target.to # None}}

\* Mutants: the buses' pins, or the bound ones, are not in use.
Start_NoBuses(d) ==
    [conns |-> d.conns, used |-> BoundPins(d.conns), usedEx |-> BoundExpanderPins(d.conns),
     by |-> [i \in DOMAIN d.conns |-> IF Unbound(d.conns[i].target) THEN "none" ELSE "given"]]
Start_NoBound(d) ==
    [conns |-> d.conns, used |-> PinsOnBuses(d.buses), usedEx |-> BoundExpanderPins(d.conns),
     by |-> [i \in DOMAIN d.conns |-> IF Unbound(d.conns[i].target) THEN "none" ELSE "given"]]
Start(d) ==
    [conns |-> d.conns,
     used |-> BoundPins(d.conns) \cup PinsOnBuses(d.buses),
     usedEx |-> BoundExpanderPins(d.conns),
     by |-> [i \in DOMAIN d.conns |-> IF Unbound(d.conns[i].target) THEN "none" ELSE "given"]]

Bind(run, i, target, whom) ==
    [run EXCEPT !.conns[i].target = target, !.by[i] = whom]

\* _apply_locked_pins: an empty target takes the lock; a bound one keeps its
\* pin, and the lock's is reserved all the same.
LockAt(d, run, i) ==
    LET c == run.conns[i]
        reserved == [run EXCEPT !.used = @ \cup {LockOf(d, c)}]
    IN IF ~IsLocked(d, c) \/ c.target.kind # "gpio" THEN run
       ELSE IF c.target.to # None THEN reserved
       ELSE Bind(reserved, i, Target("gpio", LockOf(d, c)), "lock")

\* Mutant: a special pin is no candidate at all.
SolveGpio_PlainOnly(d, run, i) ==
    LET libPin == PinOf(d, run.conns[i])
        free == {p \in Suitable(Board(d), libPin) \ run.used : ~Special(Board(d).caps[p])}
        p == Best(Board(d), libPin, free)
    IN IF free = {} THEN run
       ELSE Bind([run EXCEPT !.used = @ \cup {p}], i, Target("gpio", p), "solver")
SolveGpio(d, run, i) ==
    LET libPin == PinOf(d, run.conns[i])
        free == Suitable(Board(d), libPin) \ run.used
        p == Best(Board(d), libPin, free)
    IN IF free = {} THEN run
       ELSE Bind([run EXCEPT !.used = @ \cup {p}], i, Target("gpio", p), "solver")

\* The first bus of the type the pin's kind runs on.
SolveBus(d, run, i) ==
    LET wanted == BusTypeOf(PinOf(d, run.conns[i]).kind)
        options == {b \in DOMAIN d.buses : d.buses[b].type = wanted}
    IN IF options = {} THEN run
       ELSE Bind(run, i, Target("bus", d.buses[Least(options)].id), "solver")

\* The first free pin of the first expander that has one.
FreeOn(d, run, e) ==
    {n \in 0..(Parts[d.comps[e].lib].expander - 1) :
        <<d.comps[e].id, n>> \notin run.usedEx}
SolveExpander(d, run, i) ==
    LET open == {e \in DOMAIN d.comps :
                    d.comps[e].lib \in DOMAIN Parts /\ FreeOn(d, run, e) # {}}
        id == d.comps[Least(open)].id
        n == Least(FreeOn(d, run, Least(open)))
    IN IF open = {} THEN run
       ELSE Bind([run EXCEPT !.usedEx = @ \cup {<<id, n>>}], i,
                 ExpanderTarget(id, n), "solver")

\* The first other component of the part the role's parent names.
SolveComponent(d, run, i) ==
    LET wanted == PinOf(d, run.conns[i]).parent
        options == {c \in DOMAIN d.comps :
                       d.comps[c].lib = wanted /\ d.comps[c].id # run.conns[i].comp}
    IN IF wanted = None \/ options = {} THEN run
       ELSE Bind(run, i, Target("component", d.comps[Least(options)].id), "solver")

SolveAt(d, run, i) ==
    LET c == run.conns[i] IN
    IF ~Unbound(c.target) \/ ~HasPin(d, c) THEN run
    ELSE CASE c.target.kind = "gpio" -> SolveGpio(d, run, i)
           [] c.target.kind = "bus" -> SolveBus(d, run, i)
           [] c.target.kind = "expander_pin" -> SolveExpander(d, run, i)
           [] c.target.kind = "component" -> SolveComponent(d, run, i)

\* The run after each connection, first of the locks and then of the solving, and
\* the whole of solve_pins, for the tools that call it.
LockRuns(d) ==
    LET runs[n \in 0..Len(d.conns)] ==
          IF n = 0 THEN Start(d) ELSE LockAt(d, runs[n - 1], n)
    IN runs
SolveRuns(d) ==
    LET runs[n \in 0..Len(d.conns)] ==
          IF n = 0 THEN LockRuns(d)[Len(d.conns)] ELSE SolveAt(d, runs[n - 1], n)
    IN runs
Solve(d) == IF d.board \in DOMAIN Boards THEN SolveRuns(d)[Len(d.conns)] ELSE Start(d)

-----------------------------------------------------------------------------
(* _static_warnings, the current budget left out: pins that two            *)
(* connections claim.  Bus slots are not looked at.                        *)

Claimants(conns, target) == {i \in DOMAIN conns : conns[i].target = target}
Conflicts(conns) ==
    {conns[i].target : i \in {j \in DOMAIN conns :
        /\ conns[j].target.kind \in {"gpio", "expander_pin"} /\ ~Unbound(conns[j].target)
        /\ Cardinality(Claimants(conns, conns[j].target)) > 1}}
=============================================================================
