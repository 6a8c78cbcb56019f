--------------------------- MODULE DesignSession ---------------------------
(***************************************************************************)
(* One design under a sequence of tool calls, as an agent's turn or an MCP *)
(* client makes them, with a load of the document between any two.  What   *)
(* overlapping calls do to each other is DesignStudio's subject.           *)
(***************************************************************************)
EXTENDS Intake

CONSTANTS
    Documents,   \* the designs a session starts from
    Legacies,    \* documents of older versions, see Intake
    Stocked,     \* the boards and the parts a session picks from
    Offered,
    Hints,       \* ids asked for by the caller
    Aims,        \* targets set by hand
    GivenPins,   \* pins given to add_bus
    Modules,     \* composite modules: sequences of [lib, hint]
    Strays,      \* connections the caller may name though they do not exist
    MaxCalls,    \* a bound on the calls of a session
    MaxParts     \* a bound on the components of a design

\* A document as the model (model.py) reads it, whatever its fields say.
IsSeq(s) == Len(s) \in Nat /\ s = [k \in 1..Len(s) |-> s[k]]
IsComp(c) == c = [id |-> c.id, lib |-> c.lib, locks |-> c.locks, params |-> c.params,
                  show |-> c.show]
IsBus(b) == b = [id |-> b.id, type |-> b.type, pins |-> b.pins]
IsConn(c) == c = [comp |-> c.comp, role |-> c.role, target |-> c.target]
IsAutomation(a) ==
    /\ a = [id |-> a.id, trigger |-> a.trigger, conditions |-> a.conditions,
            actions |-> a.actions]
    /\ IsSeq(a.conditions) /\ IsSeq(a.actions)
IsDocument(d) ==
    /\ d = [field \in DOMAIN d |-> d[field]]
    /\ {"board", "flash", "revision", "comps", "buses", "conns", "strict", "overrides",
        "automations"} \subseteq DOMAIN d
    /\ IsSeq(d.comps) /\ \A c \in DOMAIN d.comps : IsComp(d.comps[c])
    /\ IsSeq(d.buses) /\ \A b \in DOMAIN d.buses : IsBus(d.buses[b])
    /\ IsSeq(d.conns) /\ \A i \in DOMAIN d.conns : IsConn(d.conns[i])
    /\ \A a \in d.automations : IsAutomation(a)

\* The numbers at the end of integrations' names start at lilygo_t5_47, past the
\* ids add_component makes up.
ASSUME SessionAssumption ==
    /\ MaxCalls \in Nat /\ MaxParts \in Nat
    /\ \A d \in Documents : IsDocument(d)
    /\ Stocked \subseteq DOMAIN Boards /\ Offered \subseteq DOMAIN Parts
    /\ \A b \in DOMAIN Onboard : IsSeq(Onboard[b])
    /\ \A lib \in DOMAIN Parts : IsSeq(Parts[lib].pins)
    /\ \A members \in Modules : /\ IsSeq(members)
                                /\ \A k \in DOMAIN members : members[k].lib \in DOMAIN Parts
    /\ \A name \in Integrations : Number(name) \notin 1..MaxParts
    /\ \A lib \in DOMAIN Parts : None \notin Parts[lib].loads
    /\ None \notin DOMAIN BusStem
    /\ None \notin {<<"esphome", 0>>, <<"logger", 0>>} \cup {BusIntegration(type) : type \in DOMAIN BusStem}

\* Sessions start from documents in order, as the tools leave one: no two parts and
\* no two buses have one id, a bus is of a type there is, no part has the reserved
\* name of a bus, and a connection has its part and a bus target its bus.
IdsApart(things) == \A j, k \in DOMAIN things : things[j].id = things[k].id => j = k
Refers(d, c) ==
    /\ c.comp \in Ids(d.comps)
    /\ c.target.kind = "bus" => c.target.to \in Ids(d.buses) \cup {None}
ASSUME DocumentsAssumption ==
    \A d \in Documents :
       /\ IdsApart(d.comps) /\ IdsApart(d.buses)
       /\ \A b \in DOMAIN d.buses : d.buses[b].type \in DOMAIN BusStem
       /\ Ids(d.comps) \cap Ids(d.buses) \cap ReservedBusIds = {}
       /\ \A i \in DOMAIN d.conns : Refers(d, d.conns[i])

VARIABLES
    design,   \* the document
    hand,     \* as history: the connections set by hand, as <<component, role>>
    call,     \* the last call, and the part it added
    calls     \* as history: how many calls there were
vars == <<design, hand, call, calls>>

Key(c) == <<c.comp, c.role>>

Init ==
    /\ design \in {Repaired(d) : d \in Documents}
    /\ hand = {Key(design.conns[i]) : i \in {j \in DOMAIN design.conns :
                                                ~Unbound(design.conns[j].target)}}
    /\ call = [tool |-> "none", part |-> None]
    /\ calls = 0

Called(tool, part) == /\ calls < MaxCalls /\ calls' = calls + 1
                      /\ call' = [tool |-> tool, part |-> part]

\* A connection that was set by hand stays so under the name its part gets.
ByHand(i) == Key(design.conns[i]) \in hand
Followed == hand' = {Key(design'.conns[i]) : i \in {j \in DOMAIN design.conns : ByHand(j)}}

RunSetBoard(board, revision) ==
    /\ revision \in Boards[board].revisions \cup {None}
    /\ Called("set_board", None)
    /\ design' = SetBoard(design, board, revision)
    /\ UNCHANGED hand

\* POST /design/seed_onboard, which the dialogs send for a new design.
RunSeedOnboard ==
    /\ design.comps = <<>> /\ design.buses = <<>> /\ design.conns = <<>>
    /\ Called("seed_onboard", None)
    /\ design' = SeedOnboard(design)
    /\ UNCHANGED hand

RunAddComponent(lib, hint) ==
    /\ Len(design.comps) < MaxParts /\ calls < MaxCalls
    /\ \E added \in {AddComponent(design, lib, hint)} :
          Called("add_component", added.id) /\ design' = added.design
    /\ Followed

RunInsertModule(members) ==
    /\ Len(design.comps) + Len(members) <= MaxParts
    /\ Called("insert_module", None)
    /\ design' = InsertModule(design, members)
    /\ Followed

RunRemoveComponent(id) ==
    /\ Called("remove_component", id)
    /\ design' = RemoveComponent(design, id)
    /\ hand' = {k \in hand : k[1] # id}

RunSetParam(id, key, present) ==
    /\ Called("set_param", id)
    /\ design' = SetParam(design, id, key, present)
    /\ UNCHANGED hand

RunSetConnection(comp, role, target) ==
    /\ Called("set_connection", comp)
    /\ design' = SetConnection(design, comp, role, target)
    /\ hand' = hand \cup {<<comp, role>>}

RunSetStrict(enabled) ==
    /\ Called("set_strict", None)
    /\ design' = [design EXCEPT !.strict = enabled]
    /\ UNCHANGED hand

RunAddBus(id, type, pins) ==
    LET bus == NewBus(design, id, type, pins) IN
    /\ CanAddBus(design, bus)
    /\ Called("add_bus", None)
    /\ design' = [design EXCEPT !.buses = Append(@, bus)]
    /\ UNCHANGED hand

RunSolvePins ==
    /\ Called("solve_pins", None)
    /\ design' = [design EXCEPT !.conns = Solve(design).conns]
    /\ UNCHANGED hand

RunSetPartOverride(id, part, mpn) ==
    /\ HasSubpart(design, id, part)
    /\ Called("set_part_override", id)
    /\ design' = SetPartOverride(design, id, part, mpn)
    /\ UNCHANGED hand

\* The document is stored and loaded again, which repairs it.
Reload ==
    /\ Called("load", None)
    /\ design' = Repaired(design)
    /\ Followed

Next ==
    \/ RunSeedOnboard
    \/ \E board \in Stocked : \E revision \in Boards[board].revisions \cup {None} :
          RunSetBoard(board, revision)
    \/ \E lib \in Offered, hint \in Hints \cup {None} : RunAddComponent(lib, hint)
    \/ \E members \in Modules : RunInsertModule(members)
    \/ \E id \in Ids(design.comps) :
          \/ RunRemoveComponent(id)
          \/ \E present \in BOOLEAN : RunSetParam(id, "lambda", present)
          \/ \E part \in PartOf(design, id).subparts, mpn \in {None, "mpn"} :
                RunSetPartOverride(id, part, mpn)
    \/ \E key \in {Key(design.conns[i]) : i \in DOMAIN design.conns}, target \in Aims :
          RunSetConnection(key[1], key[2], target)
    \/ \E c \in Strays : RunSetConnection(c.comp, c.role, c.target)
    \/ \E enabled \in BOOLEAN : RunSetStrict(enabled)
    \/ \E id \in Hints, type \in {"i2c"}, pins \in GivenPins : RunAddBus(id, type, pins)
    \/ RunSolvePins
    \/ Reload

Spec == Init /\ [][Next]_vars

-----------------------------------------------------------------------------
(* Properties.                                                             *)

Bindings(d) == {i \in DOMAIN d.conns : ~Unbound(d.conns[i].target)}

\* The document stays one the model (model.py) accepts.
TypeOK ==
    /\ design.board \in DOMAIN Boards
    /\ \A c \in DOMAIN design.comps :
          design.comps[c].id \in Names /\ design.comps[c].lib \in DOMAIN Parts
    /\ \A b \in DOMAIN design.buses :
          design.buses[b].id \in Names /\ design.buses[b].type \in DOMAIN BusStem
    /\ \A i \in DOMAIN design.conns :
          design.conns[i].comp \in Names /\ design.conns[i].target \in Targets
    /\ design.strict \in BOOLEAN
    /\ calls \in 0..MaxCalls

\* Two connections share a pin only where one of them was set by hand or its
\* component is locked to it: no sequence of the other tools double-books one.
SharedOnlyByHand ==
    \A i, j \in Bindings(design) :
       /\ i # j
       /\ design.conns[i].target = design.conns[j].target
       /\ design.conns[i].target.kind \in {"gpio", "expander_pin"}
       => \E k \in {i, j} :
             \/ ByHand(k)
             \/ /\ IsLocked(design, design.conns[k])
                /\ LockOf(design, design.conns[k]) = design.conns[k].target.to

\* Ids stay apart, and but for what was set by hand every connection has its
\* component and every bus target its bus, whatever is dropped or renamed.
ReferencesHold ==
    /\ Cardinality(Ids(design.comps)) = Len(design.comps)
    /\ Cardinality(Ids(design.buses)) = Len(design.buses)
    /\ \A i \in DOMAIN design.conns :
          ~ByHand(i) =>
             /\ design.conns[i].comp \in Ids(design.comps)
             /\ design.conns[i].target.kind = "bus" =>
                   design.conns[i].target.to \in Ids(design.buses) \cup {None}

\* "It (and any future unmapped peripheral) is skipped with an info warning so
\* nothing silently disappears" (seed.py:13): each peripheral has that warning or
\* its part, each pin the board names for it landing on the part's role; and
\* nothing the seeding wires is left open, nor a bus it makes without pins.
OwnLines == [gps_ |-> [TX |-> "tx", RX |-> "rx"], imu_mpu6886 |-> [SDA |-> "sda", SCL |-> "scl"]]
Landed(d, p) ==
    LET h == HandlerOf(p)
        c == Named(d.comps, h.id)
        lines == IF p.key \in DOMAIN OwnLines THEN OwnLines[p.key] ELSE <<>>
        own == {lines[role] : role \in DOMAIN lines} \subseteq DOMAIN p.pins
    IN /\ IsHandled(p) /\ h.id \in Ids(d.comps) /\ c.lib = h.lib
       /\ \A k \in DOMAIN h.pins :
             h.pins[k][2] \in DOMAIN p.pins => RolePin(d, c, h.pins[k][1]) = p.pins[h.pins[k][2]]
       /\ \A role \in DOMAIN lines : own => RolePin(d, c, role) = p.pins[lines[role]]
Onboarded(d) ==
    /\ \A p \in ToSet(Peripherals(d.board)) : Landed(d, p) <=> Unmappable(p.key) \notin d.warnings
    /\ \A b \in DOMAIN d.buses : d.buses[b].pins # <<>>
    /\ \A i \in DOMAIN d.conns :
          /\ ~Unbound(d.conns[i].target)
          /\ d.conns[i].target.kind = "bus" => d.conns[i].target.to \in Ids(d.buses)
BoardsSeed == \A b \in DOMAIN Boards : Onboarded(SeededDesign(b))
BoardSeeded ==
    /\ call.tool = "seed_onboard" => Onboarded(design)
    /\ calls = 0 => BoardsSeed

\* A part whose template asks for no more than its pins bring, each under a role
\* of its own: parts of a hub are the exception HubBinds is about.
PinRoles(part) ==
    {part.pins[k].role : k \in {e \in DOMAIN part.pins :
        /\ part.pins[e].kind \notin {"power", "ground", "passthrough"}
        /\ BusTypeOf(part.pins[e].kind) = None}}
RolesApart(part) ==
    \A k, e \in DOMAIN part.pins : part.pins[k].role = part.pins[e].role => k = e
BringsAll(part) ==
    /\ "parent" \notin part.reads
    /\ "bus" \in part.reads => NeededBusTypes(part) # {}
    /\ part.reads \ {"bus"} \subseteq PinRoles(part)
    /\ RolesApart(part)

\* What passes the library's gates serves the tools: a part that renders on
\* buses, of roles that are all its own, brings all its template reads, which is
\* what add_component goes by; and on a board without errors no part that is
\* added is left without the bus the board has a default of, what is seeded
\* lacks no pin, and the LoRaWAN block names the board's pins, in each revision
\* all those its radio cannot do without (yaml_gen.py:487).
BusesFound(d, lib) ==
    \A added \in {AddComponent(d, lib, None)} : \A i \in ConnsOf(added.design, added.id) :
       LET c == added.design.conns[i]
           type == BusTypeOf(PinOf(added.design, c).kind)
       IN type # None /\ type \in DOMAIN Board(d).defaults =>
             c.target.kind = "bus" /\ c.target.to \in Ids(added.design.buses)
CheckedPartsBring ==
    \A lib \in DOMAIN Parts :
       IsRendered(Parts[lib]) /\ DraftRenders(lib, TRUE) /\ RolesApart(Parts[lib])
       => BringsAll(Parts[lib])
RadioWired(seeded) ==
    LET b == seeded.board IN
    \A d \in {[seeded EXCEPT !.revision = rev] : rev \in Boards[b].revisions \cup {None}} :
       /\ LorawanRenders(d, <<"uptime">>)
       /\ \A block \in {LorawanBlock(d, <<"uptime">>)} :
             LET sets == IF d.revision = None THEN Radios[b].base ELSE Radios[b].of[d.revision] IN
             IF b \notin DOMAIN Radios THEN block = None
             ELSE /\ block.radio \subseteq DOMAIN Boards[b].caps
                  /\ {sets[key] : key \in {"txen", "rxen"} \cap DOMAIN sets} \subseteq block.radio \cup {None}
                  /\ UNION {sets[key] : key \in {"high", "low"} \cap DOMAIN sets} \subseteq block.radio
SeededBrings(seeded) ==
    /\ RadioWired(seeded)
    /\ \A e \in DOMAIN seeded.buses : MissingPins(seeded.buses[e]) = {}
    /\ \A d \in {seeded, DraftDesign(seeded.board, <<>>, <<>>, <<>>)}, lib \in DOMAIN Parts : BusesFound(d, lib)
CheckedBoardsBring ==
    \A b \in DOMAIN Boards : BoardErrors(b) = {} => SeededBrings(SeededDesign(b))
GatesHold == CheckedPartsBring /\ CheckedBoardsBring

\* The type invariant, no pin is double-booked but by hand, every reference
\* holds, and so does what a board and the library bring.
DocumentSound ==
    /\ TypeOK /\ SharedOnlyByHand /\ ReferencesHold
    /\ BoardSeeded
    /\ calls = 0 => GatesHold

\* A connection is moved by set_connection alone, and add_component touches
\* nothing but the new part's, not even what was unbound.  A target that named
\* no bus may be taken for the bus add_component seeds and drops.
MovesAsAsked ==
    LET tool == call'.tool IN
    tool \notin {"remove_component", "load"} =>
       \A i \in DOMAIN design.conns :
          LET c == design.conns[i] IN
          \/ ~Unbound(c.target) /\ tool = "set_connection" /\ c.comp = call'.part
          \/ Unbound(c.target) /\ tool # "add_component"
          \/ tool = "add_component" /\ c.comp \notin Ids(design.comps)
          \/ c.target.kind = "bus" /\ c.target.to \notin Ids(design.buses)
          \/ design'.conns[i].target = c.target
NothingMovesUnasked == [][MovesAsAsked]_vars

\* A design that renders still does after such a part was added, when its pins
\* all found a place, or had none to look for, and nobody had left connections
\* under its name.
KeepsRendering ==
    /\ call'.tool = "add_component" /\ Renders(design)
    /\ BringsAll(PartOf(design', call'.part))
    /\ \A i \in ConnsOf(design', call'.part) :
          i \notin DOMAIN design.conns /\ ~Unbound(design'.conns[i].target)
    => Renders(design')
AddKeepsRendering == [][KeepsRendering]_vars

\* The id a new part gets is one ESPHome accepts.
AcceptsNewId ==
    call'.tool = "add_component" /\ Renders(design') =>
       call'.part \notin IdConflicts(design') \cap Integrations
NewIdAccepted == [][AcceptsNewId]_vars

\* No tool moves what it was not asked to, and a part is added so that the
\* design still renders, and under an id ESPHome accepts.
ToolsKeepTheDesign == NothingMovesUnasked /\ AddKeepsRendering /\ NewIdAccepted

\* "Wired the way a user would have wired them" (migrate.py:75): a block becomes
\* its part, once, on the pins it gave, beside all the document had and under an
\* id of its own.  A GPS on the console is told of by what the lorawan target
\* makes of the part.
Count(d, lib) == Cardinality({c \in DOMAIN d.comps : d.comps[c].lib = lib})
Only(d, lib) == CHOOSE c \in ToSet(d.comps) : c.lib = lib
Apart(d) == Cardinality(Ids(d.comps) \cup Ids(d.buses)) = Len(d.comps) + Len(d.buses)
ConsoleTold(m, pins) ==
    pins \cap ConsolePins(m.design) # {} =>
       "lorawan_gps_on_console_uart" \in LorawanWarnings(m.design, m.lorawan)
Lowers(l, f, lib, m) ==
    LET asked == f \in DOMAIN l.lorawan /\ l.lorawan[f] # None
                 /\ (f = "oled" => l.lorawan.oled.enabled)
    IN /\ Count(m.design, lib) = IF asked /\ Count(l.design, lib) = 0 THEN 1 ELSE Count(l.design, lib)
       /\ asked /\ Count(l.design, lib) = 0 =>
             LET On(role) == RolePin(m.design, Only(m.design, lib), role) IN
             CASE f = "gps" -> /\ On("TX") = l.lorawan.gps.rx_pin /\ On("RX") = l.lorawan.gps.tx_pin
                               /\ ConsoleTold(m, {On("TX"), On("RX")})
               [] f = "dht22" -> On("DATA") = l.lorawan.dht22.pin
               [] f = "oled" -> (On("SDA") # None) = (\E b \in DOMAIN m.design.buses :
                                   m.design.buses[b].type = "i2c" /\ "sda" \in DOMAIN m.design.buses[b].pins)
LowersTo == [gps |-> "uart_gps", dht22 |-> "dht", oled |-> "ssd1306"]
Keeps(l, m) ==
    /\ m.version = "1.0"
    /\ IsPrefix(l.design.comps, m.design.comps) /\ IsPrefix(l.design.buses, m.design.buses)
    /\ IsPrefix(l.design.conns, m.design.conns)
    /\ Apart(l.design) => Apart(m.design)
    /\ \A f \in DOMAIN LowersTo : Lowers(l, f, LowersTo[f], m)

\* Loading leaves no id that ESPHome refuses in a design that renders, breaks no
\* render, and has nothing to do the second time; and migrating keeps what an
\* older document holds, whichever version it says it is of.
Settled(d, loaded) ==
    /\ loaded = d \/ (Repaired(loaded) = loaded /\ (Renders(loaded) <=> Renders(d)))
    /\ Ids(loaded.buses) \cap ReservedBusIds = {}
    /\ IdWarnings(loaded) = {}
SameParts(d, e) == <<d.comps, d.buses, d.conns>> = <<e.comps, e.buses, e.conns>>
FromEach(l) == [v \in {"0.1", "0.2", "0.3"} |-> Migrated([l EXCEPT !.version = v])]
FirstLoads ==
    /\ \A d \in Documents : Settled(d, Repaired(d))
    /\ \A l \in Legacies : \A loads \in {FromEach(l)} :
          LET m == loads[l.version] IN
          /\ Keeps(l, m) /\ Settled(m.design, Repaired(m.design))
          /\ \A v \in DOMAIN loads : SameParts(loads[v].design, m.design)
LoadSettles == Settled(design, Repaired(design)) /\ (calls = 0 => FirstLoads)

\* "Share reference designators and net names" (kicad/netlist.py): the sheet, the
\* board and the script put the same pads together, as far as the net is a rail,
\* a pin of the board, a line of a bus the design has or a node of a subcircuit,
\* and no pad of it is asked onto two; no two parts share a designator.  In the
\* script they are on one net, unless a subcircuit is on it by a role that leads
\* there through another part's (FollowersAgree).
PlainNet(d, net) ==
    \/ net[1] \in {"RAIL", "LOCAL"}
    \/ net[1] = "GPIO" /\ net[2] # None
    \/ net[1] = "BUS" /\ net[2] \in Ids(d.buses)
ByRole(d, net) ==
    \E id \in SubIds(d) : \E node \in SubNodes(d, id) :
       LET bound == BoundRoles(d, id, node)
       IN bound # {} /\ d.conns[LastOf(bound)].target.kind = "net" /\ NodeNet(d, id, node) = net
DrawnPads(d, landings) == UNION {{<<l.net, pad>> : pad \in SheetPads(d, l)} : l \in landings}
LaidPads(d, landings) == UNION {{<<l.net, pad>> : pad \in BoardPads(d, l)} : l \in landings}
OnBoard(d) == LaidPads(d, Landings(d))
InScript(d) ==
    UNION {{<<<<join.landing.net, join.made>>, pad>> : pad \in ScriptPads(d, join)} :
           join \in ScriptJoins(d)}
PadsOf(relation, net) == {r[2] : r \in {q \in relation : q[1] = net}}
FirstOfItsName(d, pad) ==
    LET pins == Symbols[SymbolOf(d, pad.key)]
    IN \E k \in DOMAIN pins : /\ pins[k].number = pad.number
                              /\ \A e \in 1..(k - 1) : pins[e].name # pins[k].name \/ pins[k].name = "~"
Same(d, sheet, board, script) ==
    LET once(pad) == Cardinality({r \in sheet : r[2] = pad}) = 1
        mapped(pads) == {pad \in pads : pad.key = BoardKey \/ HasFootprint(d, pad.key)}
        made(net) == {r[1] : r \in {q \in script : q[1][1] = net}}
    IN \A net \in {r[1] : r \in sheet} :
          PlainNet(d, net) /\ (\A pad \in PadsOf(sheet, net) : once(pad)) =>
             LET pads == mapped(PadsOf(sheet, net)) IN
             /\ PadsOf(board, net) = {pad \in pads : FirstOfItsName(d, pad)}
             /\ pads # {} => /\ UNION {PadsOf(script, one) : one \in made(net)} = pads
                             /\ ByRole(d, net) \/ Cardinality(made(net)) = 1
Agree(d, landings) == Same(d, DrawnPads(d, landings), LaidPads(d, landings), InScript(d))
NetsAgree ==
    /\ Agree(design, Landings(design))
    /\ Cardinality(ToSet(Refs(design))) = Len(Refs(design))

\* "The warnings here are what tells the user why nothing happened" (intent.py):
\* what the generator leaves out of an automation that does anything, or of a
\* display, has one.
DroppedIsWarned ==
    Renders(design) =>
       /\ \A a \in design.automations :
             LET left == {l \in Lowered(design) : l.id = a.id} IN
               \/ AutomationWarnings(design, a) # {} \/ a.actions = <<>>
               \/ \E l \in left : l.actions = a.actions /\ l.conditions = a.conditions
       /\ \A c \in Shows(design) \ Drawn(design) :
             "lambda" \in design.comps[c].params \/ ShowWarnings(design, c) # {}

\* "Plus human-readable warnings for anything the design contains that Tasmota
\* can't express" (targets/tasmota.py:225): what a part or an I2C bus is wired for
\* stands in the template, or the template's warnings name it; and no unit of a
\* family stands in two slots.
Stands(d, on, pin, func) ==
    LET units == IF func \in DOMAIN UnitMax THEN UnitMax[func] ELSE 1
        base == FuncValue(func, ChipOf(d))
    IN /\ PinNumber(pin) \in DOMAIN on /\ base # None
       /\ on[PinNumber(pin)] \in base..(base + units - 1)
LinesStand(d, on, bus, lines) ==
    \A k \in DOMAIN lines : lines[k][1] \in DOMAIN bus.pins =>
                                Stands(d, on, bus.pins[lines[k][1]], lines[k][2])
ConnStands(d, on, c, block, conn) ==
    IF IsDirect(block, conn)
    THEN Bound(conn) /\ Stands(d, on, conn.target.to, Variant(c, block, block.pins[conn.role]))
    ELSE conn.target.kind \in {"bus", "component"} =>
           \A id \in ToSet(Hops(d, conn.target)) \cap Ids(d.buses) :
              LinesStand(d, on, Named(d.buses, id), FuncLines(c, block))
PartStands(d, on, c) ==
    LET block == BlocksOf(c).tasmota IN
    IF block = None THEN BlocksOf(c).i2c
    ELSE \A i \in ConnsOf(d, c.id) : ConnStands(d, on, c, block, d.conns[i])
UnitsApart(on) ==
    \A p, q \in DOMAIN on : on[p] = on[q] /\ p # q =>
       \A f \in DOMAIN UnitMax : on[p] \notin FUNC[f]..(FUNC[f] + 31)
Tells(d, t) ==
    /\ \A c \in DOMAIN d.comps :
          d.comps[c].id \in TasmotaWarnings(d, t) \/ PartStands(d, t.on, d.comps[c])
    /\ \A b \in DOMAIN d.buses : d.buses[b].type = "i2c" =>
          <<"bus", d.buses[b].id>> \in t.said \/ LinesStand(d, t.on, d.buses[b], I2cLines)
    /\ UnitsApart(t.on)
TemplateTells(d) == HasLayout(d) => Tells(d, Template(d))

\* "An ESP8266 build numbers every later function lower by the ESP32-only entries
\* before it" (targets/tasmota.py:16): a function's index there is how many of the
\* functions before it the build has.
NumbersAgree ==
    \A name \in DOMAIN FUNC :
       LET value == FuncValue(name, "esp8266")
           index == FUNC[name] \div 32
       IN value # None =>
             /\ value \div 32 = Cardinality((0..(index - 1)) \ Within(Esp32Only))
             /\ value % 32 = FUNC[name] % 32

\* The "warnings for what the design contains that WLED cannot express"
\* (targets/wled.py:97): every part is in cfg.json or compiled in, or one of the
\* two names it; with nothing to compile in, cfg.json alone does.
InCfg(cfg) == ToSet(cfg.led) \cup ToSet(cfg.btn) \cup {cfg.ir, cfg.relay}
              \cup {cfg.um[name] : name \in DOMAIN cfg.um}
CompiledIn(build) == {build.flags[flag] : flag \in DOMAIN build.flags}
InWled(d, cfg, build) ==
    \A c \in DOMAIN d.comps :
       LET id == d.comps[c].id IN
       /\ id \in InCfg(cfg) \cup CompiledIn(build) \cup WledWarnings(d)
       /\ ~WledBuilds(d) => id \in InCfg(cfg) \cup cfg.said
WledTells(d) == HasImage(d) => InWled(d, Cfg(d), Override(d))

\* "The code still runs with everything that is mapped" (micropython_gen.py:59):
\* every part is written or said to be skipped; a part's hub is written before it,
\* and the object of its bus is made; and no part is skipped for a hub that is
\* written after all, but where the hub hangs on another itself.
CodeSound(d, lang, code, made) ==
    LET done == ToSet(code.done)
        hung == Hung(d)
    IN \A c \in DOMAIN d.comps :
       LET id == d.comps[c].id
           hub == HubOf(d, d.comps[c])
       IN /\ id \in done \cup code.said
          /\ \A k \in DOMAIN code.done :
                code.done[k] = id /\ hub # None => \E e \in 1..(k - 1) : code.done[e] = hub
          /\ id \in done /\ BusOf(d, d.comps[c]) \in Objects(d) => BusOf(d, d.comps[c]) \in made
          /\ hub \notin hung /\ Enters(d, lang, d.comps[c], done) => id \in done
CodeTells(d) ==
    LET micro == MicroCode(d)
        circuit == CircuitCode(d)
    IN /\ CodeSound(d, "micropython", micro, MicroBuses(d, micro))
       /\ CodeSound(d, "circuitpython", circuit, CircuitBuses(d, circuit))

\* Of no target is a part lost without a word.
LibraryKnows(d) ==
    d.board \in DOMAIN Boards /\ \A c \in DOMAIN d.comps : d.comps[c].lib \in DOMAIN Parts
Tellable(d) == LibraryKnows(d) => TemplateTells(d) /\ WledTells(d) /\ CodeTells(d)
Older == {Migrated(l).design : l \in Legacies}
FirmwareTells ==
    /\ calls = 0 => NumbersAgree
    /\ \A d \in {design} \cup IF calls = 0 THEN Older ELSE {} : Tellable(d)

\* What validation says of a substitution is what the parts list shows, and a net
\* target it says nothing of shares its net with another landing.
Shown(d, key) == {p.value : p \in {q \in ToSet(Placed(d)) : q.key = key}}
ValidationTells ==
    /\ \A key \in DOMAIN design.overrides :
          LET says == OverrideWarning(design, key) IN
          /\ says = "part_override_unknown" <=> Shown(design, key) = {}
          /\ says # "part_override_unknown" => design.overrides[key] \in Shown(design, key)
    /\ \A i \in OwnConns(design) :
          /\ design.conns[i].target.kind = "net"
          /\ NetWarnings(design, design.conns[i]) \subseteq {"net_target_on_signal_pin"}
          => LET net == Name(design, design.conns[i])
             IN Cardinality({l \in Landings(design) : l.net = net}) > 1

\* What the validate tool finds ok the API renders, with a LoRaWAN block too where
\* it says nothing of the revision; and set_board leaves nothing of the board
\* before (agent/tools.py).
ToolsTell ==
    /\ ValidateTool(design).ok =>
          /\ RenderAnswers(design)
          /\ LorawanRenders(design, <<"uptime">>) \/ "board_revision_unknown" \in ValidateTool(design).said
    /\ call.tool = "set_board" =>
          Validation(design) \cap {"flash_size_override_ignored", "flash_size_override_above_board",
                                   "board_revision_unknown"} = {}

\* What the exports, the other targets and validation make of a design agrees with
\* it, or says where it does not.  Every KiCad export loads the design first.
ArtifactsAgree ==
    /\ call.tool \in {"none", "load"} => NetsAgree
    /\ FirmwareTells /\ ValidationTells /\ ToolsTell

-----------------------------------------------------------------------------
(* Refuted.                                                                *)

\* "Each one's HUB connection auto-binds to the (single) hub in the design"
\* (library/components/ads1115_channel.yaml:95).  add_component gives it a board
\* pin instead, since default_target_for_pin does not know hub_ref.
HubBinds ==
    \A i \in DOMAIN design.conns :
       LET c == design.conns[i] IN
         /\ ~ByHand(i) /\ HasPin(design, c) /\ PinOf(design, c).kind = "hub_ref"
         /\ \E h \in DOMAIN design.comps : design.comps[h].lib = PinOf(design, c).parent
         => c.target.kind # "gpio"

\* "Bus already runs on ...; connect the part to it instead of adding another
\* bus" (agent/tools.py:765): add_component seeds one there all the same.
BusesApart ==
    \A b, e \in DOMAIN design.buses :
       BusPins(design.buses[b]) \cap BusPins(design.buses[e]) # {} => b = e

\* "Already-bound connections are left untouched; conflicts among them are
\* surfaced as warnings" (csp/pin_solver.py:10): a bus seeded on pins that parts
\* are on is no conflict to anyone.
SeededBusFree ==
    [][call'.tool = "add_component" =>
          PinsOnBuses(design'.buses) \cap BoundPins(design.conns) \subseteq
             PinsOnBuses(design.buses)]_vars

\* "Every reference to one" is renamed with it (migrate.py:198): substitutions
\* and the sources of widgets are not.
RenamesFollow ==
    \A d \in Documents \cup {design} :
       LET parts(doc) == {k[1] : k \in DOMAIN doc.overrides}
           sources(doc) == UNION {{w.source : w \in ToSet(doc.comps[c].show)} :
                                   c \in DOMAIN doc.comps}
           named(doc) == parts(doc) \cup sources(doc)
       IN named(d) \subseteq Ids(d.comps) =>
             named(Repaired(d)) \subseteq Ids(Repaired(d).comps)

\* "warn/error compatibility entries and design warnings block generation"
\* (docs/design-schema.md:133) under strict mode: what validate reports of ids
\* ESPHome refuses is an error, and does not.
StrictBlocksErrors ==
    design.strict /\ RenderAnswers(design) => IdConflicts(design) \cap Integrations = {}

\* "Unbound targets ... stay unconnected" (kicad/generator.py:345), and the board
\* "mirrors the schematic's net derivation exactly" (netlist.py:251): on the sheet
\* and the board every pin without a GPIO is on one net with the others.
UnboundApart ==
    \A pad, other \in PadsOf(OnBoard(design), <<"GPIO", None>>) : pad = other

\* The same of the nets of expander pins and hubs: each connection makes a new
\* net of that name in the script, where the board has one.
EveryNetAgrees ==
    \A net \in {r[1] : r \in OnBoard(design)} :
       net[1] \in {"EXP", "HUB"} =>
          \E one \in {r[1] : r \in InScript(design)} :
             PadsOf(OnBoard(design), net) \subseteq PadsOf(InScript(design), one)

\* The same of a net a subcircuit's role leads to through another part's role: the
\* script makes it a net of its own of that name (kicad/generator.py:424-426).
FollowersAgree ==
    \A net \in {r[1] : r \in OnBoard(design)} :
       ByRole(design, net) =>
          \E one \in {r[1] : r \in InScript(design)} :
             PadsOf(OnBoard(design), net) \subseteq PadsOf(InScript(design), one)

\* "So the script always runs" (kicad/generator.py:17): it names the lines of a
\* bus the design does not have, which nothing declares.
ScriptAlwaysRuns == ScriptRuns(design)
=============================================================================
