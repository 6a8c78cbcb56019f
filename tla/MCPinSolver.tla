---------------------------- MODULE MCPinSolver ----------------------------
(* Two uses of the solver, each a model of its own: a behaviour is of the    *)
(* one or of the other.  The solver alone: a board with a pin of every sort, *)
(* and parts whose three pins are wired, locked or left open in every way.   *)
(* The editor: two boards, an example, a stored design and a new one, and a  *)
(* user who does a few things while answers are under way.                   *)
EXTENDS SolverRun, Editor

G(n) == <<"GPIO", n>>
MCPins == {G(n) : n \in 1..6}

MCBoards == [devkit |->
  [caps |-> G(1) :> {"gpio", "boot_low"} @@ G(2) :> {"gpio", "adc", "input_only"}
         @@ G(3) :> {"gpio", "adc", "adc2"}
         @@ G(4) :> {"gpio", "no_pwm", "no_interrupt", "no_fast_gpio"}
         @@ G(5) :> {"gpio", "adc", "pwm"}
         @@ G(6) :> {"gpio", "builtin_led"},
   classic |-> TRUE,
   defaults |-> <<>>,
   rails |-> <<[name |-> "GND", volts |-> 0], [name |-> "3V3", volts |-> 3]>>,
   revisions |-> {}],
  bare |->
  [caps |-> G(2) :> {"gpio", "i2c_sda"} @@ G(3) :> {"gpio", "serial_tx"}
         @@ G(5) :> {"gpio", "i2c_scl", "boot_high"} @@ G(6) :> {"gpio"},
   classic |-> FALSE,
   defaults |-> [i2c |-> [sda |-> G(2), scl |-> G(5)]],
   rails |-> <<>>,
   revisions |-> {"v2"}]]

Pin(role, kind, needs, parent) ==
    [role |-> role, kind |-> kind, needs |-> needs, driven |-> FALSE, parent |-> parent]
Part(pins, size) ==
    [pins |-> pins, expander |-> size, supply |-> {3}, template |-> TRUE, emits |-> TRUE,
     reads |-> {}, loads |-> {}, cap |-> None, dialect |-> None, subparts |-> {}]

MCParts ==
    [led |-> Part(<<Pin("OUT", "digital_out", {"pwm"}, None)>>, 0),
     relay |-> Part(<<Pin("OUT", "digital_out", {}, None)>>, 0),
     pot |-> Part(<<Pin("OUT", "analog_in", {}, None)>>, 0),
     radio |-> Part(<<Pin("OUT", "spi_cs", {}, None)>>, 0),
     counter |-> Part(<<Pin("OUT", "digital_in", {"interrupt"}, None)>>, 0),
     light |-> [Part(<<Pin("VCC", "power", {}, None), Pin("SDA", "i2c_sda", {}, None)>>, 0)
                EXCEPT !.reads = {"bus"}],
     hub |-> Part(<<Pin("SDA", "i2c_sda", {}, None)>>, 1),
     channel |-> Part(<<Pin("HUB", "parent", {}, "hub")>>, 0)]

Comp(n, lib, locks) == [id |-> <<lib, n>>, lib |-> lib, locks |-> locks, params |-> {}]
Conn(comp, role, target) == [comp |-> comp, role |-> role, target |-> target]

I2c(sda, scl) == [id |-> <<"i2c#", 0>>, type |-> "i2c", pins |-> [sda |-> sda, scl |-> scl]]

\* What a part's pin starts as.
Starts == {Target("gpio", None), Target("gpio", G(5)), Target("expander_pin", None)}
Locks == {<<>>, [OUT |-> G(5)], [OUT |-> G(3)]}
Buses == {<<>>, <<I2c(G(3), G(5))>>}
Libs == {"led", "pot", "radio", "counter"}

Wired(lib1, lib2, t1, t2, t3, locks, buses) ==
    [board |-> "devkit", warnings |-> {}, buses |-> buses,
     comps |-> <<Comp(1, lib1, locks), Comp(2, lib2, <<>>), Comp(3, "relay", <<>>),
                 Comp(1, "hub", <<>>), Comp(1, "channel", <<>>)>>,
     conns |-> <<Conn(<<lib1, 1>>, "OUT", t1), Conn(<<lib2, 2>>, "OUT", t2),
                 Conn(<<"relay", 3>>, "OUT", t3),
                 Conn(<<"hub", 1>>, "SDA", Target("bus", None)),
                 Conn(<<"channel", 1>>, "HUB", Target("component", None))>>]

MCInputs ==
    {[Wired("led", "pot", t, t, t, <<>>, <<>>) EXCEPT !.board = None] : t \in Starts} \cup
    {Wired(lib1, lib2, t1, t2, t3, locks, buses) :
        lib1 \in Libs, lib2 \in {"pot", "radio"}, t1 \in Starts, t2 \in Starts, t3 \in Starts,
        locks \in Locks, buses \in Buses}
-----------------------------------------------------------------------------
(* The editor's world.                                                     *)

MCIntegrations == {<<n, 0>> : n \in {"led", "i2c", "light"}}
Doc(board, comps, buses, conns) ==
    [board |-> board, flash |-> 4, revision |-> None, comps |-> comps, buses |-> buses,
     conns |-> conns, warnings |-> {}, strict |-> FALSE, overrides |-> <<>>,
     automations |-> {}, reqs |-> <<>>]
Member(id, lib) == [id |-> id, lib |-> lib, locks |-> <<>>, params |-> {}, show |-> <<>>]
MCExamples ==
    [lamp |-> Doc("devkit", <<Member(<<"lamp", 0>>, "led")>>, <<>>,
                  <<Conn(<<"lamp", 0>>, "OUT", Target("gpio", G(4)))>>)]
MCStored ==
    [station |-> Doc("bare", <<Member(<<"light", 1>>, "light")>>,
                     <<[id |-> <<"i2c#", 0>>, type |-> "i2c", pins |-> [sda |-> G(2), scl |-> G(5)]]>>,
                     <<Conn(<<"light", 1>>, "SDA", Target("bus", <<"i2c#", 0>>))>>)]
MCFresh == {Doc("devkit", <<Member(<<"led", 1>>, "led")>>,
                <<[id |-> <<"i2c#", 1>>, type |-> "i2c", pins |-> <<>>]>>,
                <<Conn(<<"led", 1>>, "OUT", Target("gpio", None))>>)}
\* A generated id, and one ESPHome reserves.
MCNewNames == {<<"i2c#", 1>>, <<"uart#", 0>>}
MCBundles == {<<[lib |-> "led", hint |-> None]>>}
Call(tool, lib) == [tool |-> tool, lib |-> lib]
MCAnswers == {<<Call("add_component", "led")>>, <<Call("render", None), Call("render", None)>>}

\* While the editor is at work the solver has been handed a design without a
\* board, twice, and rests.
Resting ==
    /\ design = CHOOSE d \in Inputs : d.board = None
    /\ run = Start(design)
    /\ phase = "done" /\ at = 1 /\ again = TRUE
StudioInit ==
    \/ Init /\ tab = [Empty EXCEPT !.acts = 0] /\ asks = {} /\ TurnsInit
    \/ Resting /\ EditorInit
StudioNext ==
    \/ Next /\ UNCHANGED editorVars
    \/ EditorNext /\ UNCHANGED vars
StudioSpec == StudioInit /\ [][StudioNext]_<<vars, editorVars>>
=============================================================================
