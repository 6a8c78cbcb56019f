---------------------------- MODULE DesignTools ----------------------------
(***************************************************************************)
(* The tools that edit a design (agent/tools.py, with the seeding helpers  *)
(* of designs/seed.py), each as an operator from a design to the design it *)
(* leaves, and the repairs every load applies (migrate.py).                *)
(***************************************************************************)
EXTENDS PinSolver, Compatibility, Generation

CONSTANT Integrations   \* the names of ESPHome's integrations

ASSUME IntegrationsAssumption == Integrations \subseteq Names

\* The next free id on a stem: "led_1", "led_2", ...
NextId(stem, used, from) ==
    <<stem, Least({n \in from..(from + Cardinality(used)) : <<stem, n>> \notin used})>>

-----------------------------------------------------------------------------
(* Seeding a component.                                                    *)

NeededBusTypes(part) ==
    {BusTypeOf(part.pins[k].kind) : k \in DOMAIN part.pins} \ {None}

\* default_target_for_pin.  Rails are ordered as the board lists them; a rail
\* of 0 V is ground and never a supply.
SupplyRail(rails, part) ==
    LET live == {r \in DOMAIN rails : rails[r].volts > 0}
        fit == {r \in live : rails[r].volts \in part.supply}
        lowest == {r \in fit : \A q \in fit : rails[r].volts <= rails[q].volts}
        usual == {r \in DOMAIN rails : rails[r].name = "3V3"}
        Choice == IF lowest # {} THEN lowest ELSE IF usual # {} THEN usual
                  ELSE IF live # {} THEN live ELSE DOMAIN rails
    IN IF Choice = {} THEN <<"3V3", 0>> ELSE <<rails[Least(Choice)].name, 0>>

\* Without a rail of 0 V one whose name looks like ground.
GroundNames == {"GND", "gnd", "AGND"}
GroundRail(rails) ==
    LET zero == {r \in DOMAIN rails : rails[r].volts = 0}
        named == {r \in DOMAIN rails : rails[r].name \in GroundNames}
        Choice == IF zero # {} THEN zero ELSE named
    IN IF Choice = {} THEN <<"GND", 0>> ELSE <<rails[Least(Choice)].name, 0>>

DefaultTarget(buses, rails, part, libPin) ==
    LET type == BusTypeOf(libPin.kind)
        match == {b \in DOMAIN buses : buses[b].type = type}
    IN CASE libPin.kind = "power" -> Target("rail", SupplyRail(rails, part))
         [] libPin.kind = "ground" -> Target("rail", GroundRail(rails))
         [] libPin.kind = "passthrough" -> Target("net", None)
         [] type # None -> Target("bus", IF match = {} THEN None ELSE buses[Least(match)].id)
         [] OTHER -> Target("gpio", None)

\* prepare_buses: a bus of every type the part needs and the design lacks, on
\* the board's default pins of the type, or none, whoever is on them.
DefaultPins(board, type) ==
    IF type \in DOMAIN board.defaults THEN board.defaults[type] ELSE <<>>
PrepareBuses(d, part) ==
    LET lacking == NeededBusTypes(part) \ {d.buses[b].type : b \in DOMAIN d.buses}
        bus(type) == [id |-> NextId(type, Ids(d.buses), 1), type |-> type,
                      pins |-> DefaultPins(Board(d), type)]
        new == SetToSeq(lacking)
    IN [d EXCEPT !.buses = @ \o [k \in DOMAIN new |-> bus(new[k])]]

SeedConnections(d, id, part) ==
    LET rails == IF d.board \in DOMAIN Boards THEN Board(d).rails ELSE <<>>
    IN [d EXCEPT !.conns = @ \o [k \in DOMAIN part.pins |->
           [comp |-> id, role |-> part.pins[k].role,
            target |-> DefaultTarget(d.buses, rails, part, part.pins[k])]]]

\* Mutant: the connections keep the old id.
Rename_CompsOnly(d, old, new) ==
    [d EXCEPT !.comps = [c \in DOMAIN @ |-> IF @[c].id = old THEN [@[c] EXCEPT !.id = new] ELSE @[c]]]
Rename(d, old, new) ==
    [d EXCEPT !.comps = [c \in DOMAIN @ |-> IF @[c].id = old THEN [@[c] EXCEPT !.id = new] ELSE @[c]],
              !.conns = [i \in DOMAIN @ |-> IF @[i].comp = old THEN [@[i] EXCEPT !.comp = new]
                                            ELSE @[i]]]

\* _esphome_refuses: a design that does not render is on the safe side.
Refuses(d, id) == Renders(d) => id \in IdConflicts(d)

\* add_component_with_connections: what it leaves, and the new part's id.
SeedPart(d, lib, hint) ==
    LET used == Ids(d.comps)
        id == IF hint # None /\ hint \notin used THEN hint ELSE NextId(lib, used, 1)
        new == [id |-> id, lib |-> lib, locks |-> <<>>, params |-> {}, show |-> <<>>]
        placed == [d EXCEPT !.comps = Append(@, new)]
        seeded == SeedConnections(IF d.board \in DOMAIN Boards
                                  THEN PrepareBuses(placed, Parts[lib]) ELSE placed,
                                  id, Parts[lib])
        other == NextId(Stem(id), used, 1)
    IN IF id \in Integrations /\ Refuses(seeded, id)
       THEN [design |-> Rename(seeded, id, other), id |-> other]
       ELSE [design |-> seeded, id |-> id]

-----------------------------------------------------------------------------
(* The tools.                                                              *)

\* A flash size and a revision say nothing of another board.
SetBoard(d, board, revision) ==
    [d EXCEPT !.board = board, !.flash = None, !.revision = revision]

\* Mutant: what was on a dropped bus stays bound to it.
DropEmptyBuses_Dangling(d, before) ==
    LET empty == {d.buses[b].id : b \in {e \in DOMAIN d.buses :
                     d.buses[e].id \notin before /\ MissingPins(d.buses[e]) # {}}}
    IN [d EXCEPT !.buses = Picked(@, {b \in DOMAIN @ : @[b].id \notin empty})]
\* A bus that was seeded without pins is dropped again, and what was on it
\* unbound.
DropEmptyBuses(d, before) ==
    LET empty == {d.buses[b].id : b \in {e \in DOMAIN d.buses :
                     d.buses[e].id \notin before /\ MissingPins(d.buses[e]) # {}}}
        on(c) == c.target.kind = "bus" /\ c.target.to \in empty
    IN [d EXCEPT !.buses = Picked(@, {b \in DOMAIN @ : @[b].id \notin empty}),
                 !.conns = [i \in DOMAIN @ |->
                     IF on(@[i]) THEN [@[i] EXCEPT !.target = Target("bus", None)] ELSE @[i]]]

\* A part before its pins are solved, and the whole of add_component: of what
\* the solver would bind, only the new part's pins are kept.
SeedTrimmed(d, lib, hint) ==
    LET Trimmed(seeded) == [design |-> DropEmptyBuses(seeded.design, Ids(d.buses)),
                            id |-> seeded.id]
    IN Trimmed(SeedPart(d, lib, hint))

\* Mutants: everything the solver bound is kept, or it runs before the buses
\* are dropped.
AddComponent_KeepsAll(d, lib, hint) ==
    LET seeded == SeedTrimmed(d, lib, hint)
    IN [design |-> [seeded.design EXCEPT !.conns = Solve(seeded.design).conns], id |-> seeded.id]
AddComponent(d, lib, hint) ==
    LET lastOf(solved, id, role) == CHOOSE i \in DOMAIN solved :
            /\ solved[i].comp = id /\ solved[i].role = role
            /\ \A j \in DOMAIN solved :
                  solved[j].comp = id /\ solved[j].role = role => j <= i
        Own(solved, id, c) == IF c.comp # id THEN c
                              ELSE [c EXCEPT !.target = solved[lastOf(solved, id, c.role)].target]
        Kept(seeded, solved) ==
            [design |-> [seeded.design EXCEPT
                           !.conns = [i \in DOMAIN @ |-> Own(solved, seeded.id, @[i])]],
             id |-> seeded.id]
        Solved(seeded) == Kept(seeded, Solve(seeded.design).conns)
    IN Solved(SeedTrimmed(d, lib, hint))

\* insert_module: its parts one after the other, as by hand but unsolved.
InsertRuns(d, members) ==
    LET runs[n \in 0..Len(members)] ==
          IF n = 0 THEN d
          ELSE SeedPart(runs[n - 1], members[n].lib, members[n].hint).design
    IN runs
InsertModule(d, members) == InsertRuns(d, members)[Len(members)]

\* Connections to the part that is removed, and substitutions in it, stay.
RemoveComponent(d, id) ==
    [d EXCEPT !.comps = Picked(@, {c \in DOMAIN @ : @[c].id # id}),
              !.conns = Picked(@, {i \in DOMAIN @ : @[i].comp # id})]

SetParam(d, id, key, present) ==
    LET c == Least({e \in DOMAIN d.comps : d.comps[e].id = id})
    IN [d EXCEPT !.comps[c].params = IF present THEN @ \cup {key} ELSE @ \ {key}]

\* The first connection of the role is pointed elsewhere, or one is made.
SetConnection(d, comp, role, target) ==
    LET those == {i \in DOMAIN d.conns : d.conns[i].comp = comp /\ d.conns[i].role = role}
    IN IF those = {} THEN [d EXCEPT !.conns = Append(@, [comp |-> comp, role |-> role,
                                                         target |-> target])]
       ELSE [d EXCEPT !.conns[Least(those)].target = target]

\* add_bus: on the pins given, else the board's; never on pins of another bus.
NewBus(d, id, type, pins) ==
    [id |-> id, type |-> type,
     pins |-> pins @@ (IF d.board \in DOMAIN Boards THEN DefaultPins(Board(d), type) ELSE <<>>)]
CanAddBus(d, bus) ==
    /\ bus.id \notin ReservedBusIds \cup Ids(d.buses)
    /\ BusPins(bus) \cap PinsOnBuses(d.buses) = {}

SetPartOverride(d, id, part, mpn) ==
    [d EXCEPT !.overrides = IF mpn = None THEN [k \in DOMAIN @ \ {<<id, part>>} |-> @[k]]
                            ELSE <<id, part>> :> mpn @@ @]
HasSubpart(d, id, part) == Known(d, id) /\ part \in PartOf(d, id).subparts

\* render: refused under strict mode while anything blocks it.  What is rendered is
\* the document repaired, which gives other ids and breaks no render (LoadSettles).
RenderAnswers(d) == (d.strict => StrictBlockers(d) = {}) /\ Renders(d)

-----------------------------------------------------------------------------
(* migrate.py: the repairs, which run whenever a document is loaded.       *)

\* _apply_id_renames: one map for components and buses alike.  A widget's source
\* and the key of a substitution are not followed.
ApplyRenames(d, renames) ==
    LET to(id) == IF id \in DOMAIN renames THEN renames[id] ELSE id
        carries == {"bus", "expander_pin", "component", "net"}
        moved(t) == IF t.kind \in carries THEN [kind |-> t.kind, to |-> to(t.to), number |-> t.number]
                    ELSE t
        told(things) == [k \in DOMAIN things |-> [things[k] EXCEPT !.comp = to(@)]]
    IN [d EXCEPT
          !.comps = [c \in DOMAIN d.comps |-> [d.comps[c] EXCEPT !.id = to(@)]],
          !.buses = [b \in DOMAIN d.buses |-> [d.buses[b] EXCEPT !.id = to(@)]],
          !.conns = [i \in DOMAIN d.conns |->
              [comp |-> to(d.conns[i].comp), role |-> d.conns[i].role,
               target |-> moved(d.conns[i].target)]],
          !.automations = {[id |-> a.id, trigger |-> [a.trigger EXCEPT !.comp = to(@)],
                            conditions |-> told(a.conditions), actions |-> told(a.actions)] :
                           a \in d.automations}]

\* The next free generated id of a bus, given the ids taken.
FreeBusId(type, taken) == NextId(BusStem[type], taken, 0)

\* Both repairs walk the ids in order, each new id being taken from then on: the
\* next free number on its stem.
RenameAll(things, which, stem, from, start) ==
    LET After(acc, thing, new) == [taken |-> acc.taken \cup {new},
                                   map |-> Put(acc.map, thing.id, new)]
        upTo[n \in 0..Len(things)] ==
          IF n = 0 THEN start
          ELSE IF things[n].id \notin which THEN upTo[n - 1]
          ELSE After(upTo[n - 1], things[n], NextId(stem[n], upTo[n - 1].taken, from))
    IN upTo[Len(things)]
RenameComps(comps, which, start) ==
    RenameAll(comps, which, [c \in DOMAIN comps |-> Stem(comps[c].id)], 1, start)
RenameBuses(buses, which, start) ==
    RenameAll(buses, which, [b \in DOMAIN buses |-> BusStem[buses[b].type]], 0, start)

\* A bus id ESPHome reserves; only the other buses' ids are looked at.
RenameReserved(d) ==
    LET start == [taken |-> Ids(d.buses), map |-> <<>>]
    IN ApplyRenames(d, RenameBuses(d.buses, ReservedBusIds, start).map)

\* Mutant: the buses keep their names.
RenameIntegrationNames_CompsOnly(d) ==
    LET all == [taken |-> Ids(d.comps) \cup Ids(d.buses), map |-> <<>>]
    IN IF Renders(d) THEN ApplyRenames(d, RenameComps(d.comps, IdConflicts(d), all).map) ELSE d
\* An id that names an integration the design loads.
RenameIntegrationNames(d) ==
    LET bad == IdConflicts(d)
        all == [taken |-> Ids(d.comps) \cup Ids(d.buses), map |-> <<>>]
        both == RenameBuses(d.buses, bad, RenameComps(d.comps, bad, all))
    IN IF Renders(d) THEN ApplyRenames(d, both.map) ELSE d

Repaired(d) == RenameIntegrationNames(RenameReserved(d))
=============================================================================
