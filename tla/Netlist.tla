------------------------------ MODULE Netlist ------------------------------
(***************************************************************************)
(* The KiCad artifacts of a design: the nets and the designators they all  *)
(* start from (kicad/netlist.py), the pads the drawn sheet (schematic.py)  *)
(* and the board (pcb.py) put on them, and what the SKiDL script           *)
(* (generator.py) joins when it is run.                                    *)
(***************************************************************************)
EXTENDS Designs

CONSTANTS
    Cards,        \* library id -> [prefix, kicad, parts]
    BoardCards,   \* board id -> None or [symbol, map]
    Symbols,      \* symbol -> its pins in order, as [name, number]
    NetNames      \* what a net target may name: a role, or a node of a subcircuit

\* A kicad is None or [symbol, map, banks, footprint]: map renames roles, banks
\* are the pins an expander gives, in order.  A subcircuit's parts are [id,
\* prefix, symbol, pins, value], pins taking a pin of the symbol to the node it
\* is on.  A net target's number is the position of its name in NetNames.
Header == "Connector_Generic"   \* the pins of its symbols have no names
Unmapped == [prefix |-> "U", kicad |-> None, parts |-> <<>>]
Digits == <<"1", "2", "3", "4", "5", "6", "7", "8">>

CardOf(lib) == IF lib \in DOMAIN Cards THEN Cards[lib] ELSE Unmapped
CardIn(d, id) == CardOf(Named(d.comps, id).lib)
HasSub(d, id) == id \in Ids(d.comps) /\ CardIn(d, id).parts # <<>>
SubPart(card, id) == card.parts[CHOOSE k \in DOMAIN card.parts : card.parts[k].id = id]
Nodes(part) == {part.pins[pin] : pin \in DOMAIN part.pins}
SubNodes(d, id) == UNION {Nodes(part) : part \in ToSet(CardIn(d, id).parts)}

-----------------------------------------------------------------------------
(* Parts and designators.                                                  *)

BoardKey == <<<<"board", 0>>, "">>

\* placed_parts: a component, or each part of its subcircuit, under its key; a
\* substitution replaces the value on it.
PlacedOf(d, c) ==
    LET card == CardOf(c.lib)
        own == [key |-> <<c.id, "">>, prefix |-> card.prefix, value |-> c.lib,
                symbol |-> IF card.kicad = None THEN Header ELSE card.kicad.symbol]
        valueOf(part) == IF <<c.id, part.id>> \in DOMAIN d.overrides
                         THEN d.overrides[<<c.id, part.id>>] ELSE part.value
    IN IF card.parts = <<>> THEN <<own>>
       ELSE [k \in DOMAIN card.parts |->
               [key |-> <<c.id, card.parts[k].id>>, prefix |-> card.parts[k].prefix,
                value |-> valueOf(card.parts[k]), symbol |-> card.parts[k].symbol]]
Placed(d) == FoldLeft(LAMBDA all, c : all \o PlacedOf(d, c), <<>>, d.comps)

\* assign_refs: a counter per prefix, in the order of the design; the board is M1.
Ref(placed, k) ==
    <<placed[k].prefix,
      Cardinality({e \in 1..k : placed[e].prefix = placed[k].prefix})>>
Refs(d) == LET placed == Placed(d)
           IN [k \in DOMAIN placed |-> Ref(placed, k)]

\* generate_bom: the designators of each value, those of unmapped parts left out.
OnBom(d, p) == p.key[2] # "" \/ CardIn(d, p.key[1]).kicad # None
Bom(d) ==
    LET placed == Placed(d)
        listed == {k \in DOMAIN placed : OnBom(d, placed[k])}
    IN [v \in {placed[k].value : k \in listed} |->
          {Ref(placed, k) : k \in {e \in listed : placed[e].value = v}}]

-----------------------------------------------------------------------------
(* Names of nets: <<kind, ...>>.                                           *)

\* The line of the bus a pin's kind lands on; UART lines cross over, and a
\* 1-wire bus is one line.
BusLine(kind) ==
    CASE kind = "i2c_sda" -> "sda" [] kind = "i2c_scl" -> "scl"
      [] kind = "spi_clk" -> "clk" [] kind = "spi_miso" -> "miso"
      [] kind = "spi_mosi" -> "mosi" [] kind = "spi_cs" -> "cs"
      [] kind = "uart_tx" -> "rx" [] kind = "uart_rx" -> "tx"
      [] kind = "i2s_lrclk" -> "lrclk" [] kind = "i2s_bclk" -> "bclk"
      [] OTHER -> ""

\* is_bound: an expander pin or a parent that is open counts as bound.
IsBound(t) ==
    /\ t.kind \in {"gpio", "bus", "net"} => t.to # None
    /\ t.kind = "net" => t.number # 0

Unconnected == <<"UNCONNECTED">>
Local(id, node) == <<"LOCAL", id, node>>
BusNet(id, line) == <<"BUS", id, IF line = "pin" THEN "" ELSE line>>

\* What a net target leads on to: the first connection of the role it names.
RoleConns(d, t) ==
    {i \in DOMAIN d.conns : d.conns[i].comp = t.to /\ d.conns[i].role = NetNames[t.number]}
Leads(d, t) == t.kind = "net" /\ IsBound(t) /\ t.to \in Ids(d.comps) /\ RoleConns(d, t) # {}

\* connection_net_name, of a target that is no net.
PlainName(d, c) ==
    LET t == c.target IN
    CASE t.kind = "rail" -> <<"RAIL", t.to>>
      [] t.kind = "gpio" -> <<"GPIO", t.to>>
      [] t.kind = "bus" -> BusNet(t.to, IF HasPin(d, c) THEN BusLine(PinOf(d, c).kind) ELSE "")
      [] t.kind = "expander_pin" -> <<"EXP", t.to, t.number>>
      [] t.kind = "component" -> <<"HUB", t.to>>

\* resolve_net_target: net targets are followed to the net of the role, else of
\* the node, they lead to.  A chain longer than there are connections is a circle.
Resolve(d, t) ==
    LET after[n \in 0..Len(d.conns)] ==
          IF n = 0 THEN [target |-> t]
          ELSE IF Leads(d, after[n - 1].target)
               THEN d.conns[Least(RoleConns(d, after[n - 1].target))] ELSE after[n - 1]
        last == after[Len(d.conns)]
        end == last.target
    IN IF ~IsBound(end) \/ Leads(d, end) THEN None
       ELSE IF end.kind # "net" THEN PlainName(d, last)
       ELSE IF end.to \in Ids(d.comps) /\ NetNames[end.number] \in SubNodes(d, end.to)
            THEN Local(end.to, NetNames[end.number]) ELSE None

\* net_name.
Name(d, c) ==
    IF c.target.kind # "net" THEN PlainName(d, c)
    ELSE LET net == Resolve(d, c.target) IN IF net = None THEN Unconnected ELSE net

-----------------------------------------------------------------------------
(* build_netlist: landings, [net, key, pin].                               *)

Lands(net, key, pin) == [net |-> net, key |-> key, pin |-> pin]

OwnConns(d) == {i \in DOMAIN d.conns : /\ d.conns[i].comp \in Ids(d.comps)
                                       /\ ~HasSub(d, d.conns[i].comp)}
\* A pin that passes nothing on lands nowhere.
Passes(d, c) == c.target.kind = "net" => Resolve(d, c.target) # None
OwnLandings(d) ==
    {Lands(Name(d, d.conns[i]), <<d.conns[i].comp, "">>, d.conns[i].role) :
       i \in {e \in OwnConns(d) : Passes(d, d.conns[e])}}

\* A subcircuit's node is on the net of the role of that name, the last bound
\* connection of it, or is local to the instance.
BoundRoles(d, id, node) ==
    {i \in DOMAIN d.conns : /\ d.conns[i].comp = id /\ d.conns[i].role = node
                            /\ IsBound(d.conns[i].target)}
LastOf(S) == CHOOSE x \in S : \A y \in S : y <= x
NodeNet(d, id, node) ==
    LET bound == BoundRoles(d, id, node)
    IN IF bound = {} THEN Local(id, node) ELSE Name(d, d.conns[LastOf(bound)])
SubIds(d) == {id \in Ids(d.comps) : HasSub(d, id)}
SubLandings(d) ==
    UNION {UNION {{Lands(NodeNet(d, id, part.pins[pin]), <<id, part.id>>, pin) :
                     pin \in DOMAIN part.pins} :
                  part \in ToSet(CardIn(d, id).parts)} : id \in SubIds(d)}

\* expander_pads: the expander's own end of a pin something is on.
BanksOf(d, id) ==
    IF id \notin Ids(d.comps) \/ HasSub(d, id) \/ CardIn(d, id).kicad = None THEN <<>>
    ELSE CardIn(d, id).kicad.banks
ExpanderLandings(d) ==
    {LET t == d.conns[i].target
     IN Lands(Name(d, d.conns[i]), <<t.to, "">>, BanksOf(d, t.to)[t.number + 1]) :
       i \in {e \in OwnConns(d) :
                /\ d.conns[e].target.kind = "expander_pin"
                /\ d.conns[e].target.number < Len(BanksOf(d, d.conns[e].target.to))}}

\* board_bindings: which net each of the board's pins is wanted on; the first
\* to want it wins.  Of a bus without a pin for a line the board's default
\* counts.
BusOrder == <<"sda", "scl", "clk", "miso", "mosi", "cs", "rx", "tx", "lrclk", "bclk", "pin">>
BusWants(d, bus) ==
    LET defaults == IF bus.type \in DOMAIN Board(d).defaults
                    THEN Board(d).defaults[bus.type] ELSE <<>>
        pins == bus.pins @@ defaults
    IN FoldLeft(LAMBDA wanted, slot :
                  IF slot \notin DOMAIN pins THEN wanted
                  ELSE wanted @@ (pins[slot] :> BusNet(bus.id, slot)), <<>>, BusOrder)
Wants(d, c) ==
    LET t == c.target
    IN IF t.kind \in {"gpio", "rail"} /\ t.to # None THEN t.to :> Name(d, c)
       ELSE IF t.kind = "bus" /\ t.to \in Ids(d.buses) THEN BusWants(d, Named(d.buses, t.to))
       ELSE <<>>
Wanted(d) == FoldLeft(LAMBDA wanted, c : wanted @@ Wants(d, c), <<>>, d.conns)
BoardCard(d) == IF d.board \in DOMAIN BoardCards THEN BoardCards[d.board] ELSE None
BoardLandings(d) ==
    LET bound(wanted, map) ==
          {Lands(wanted[role], BoardKey, map[role]) : role \in DOMAIN wanted \cap DOMAIN map}
    IN IF BoardCard(d) = None THEN {} ELSE bound(Wanted(d), BoardCard(d).map)

Landings(d) == OwnLandings(d) \cup SubLandings(d) \cup ExpanderLandings(d) \cup BoardLandings(d)

-----------------------------------------------------------------------------
(* What each artifact makes of a landing.  A pad is [key, number].         *)

Pad(key, number) == [key |-> key, number |-> number]

SymbolOf(d, key) ==
    IF key = BoardKey THEN BoardCard(d).symbol
    ELSE LET card == CardIn(d, key[1]) IN
         IF key[2] # "" THEN SubPart(card, key[2]).symbol
         ELSE IF card.kicad = None THEN Header ELSE card.kicad.symbol

\* The pins a label means: all of that name, else the one of that number.
Meant(symbol, label) ==
    LET pins == Symbols[symbol]
        named == {k \in DOMAIN pins : pins[k].name = label}
    IN IF named # {} THEN named ELSE {k \in DOMAIN pins : pins[k].number = label}

\* A component's role as its symbol calls it; the pins of a header, which have
\* no names, are taken in the order of the roles.
Position(lib, role) ==
    LET pins == Parts[lib].pins
        those == {k \in DOMAIN pins : pins[k].role = role}
    IN IF those = {} THEN role ELSE Digits[Least(those)]
Mapped(kicad, role) == IF role \in DOMAIN kicad.map THEN kicad.map[role] ELSE role
LabelOf(d, l, placeholder) ==
    IF l.key = BoardKey \/ l.key[2] # "" THEN l.pin
    ELSE LET comp == Named(d.comps, l.key[1])
             kicad == CardOf(comp.lib).kicad
         IN CASE kicad = None -> IF placeholder THEN Position(comp.lib, l.pin) ELSE l.pin
              [] kicad # None /\ kicad.symbol = Header -> Position(comp.lib, l.pin)
              [] OTHER -> Mapped(kicad, l.pin)

Numbers(symbol, those) == {Symbols[symbol][k].number : k \in those}

\* The sheet: every pin of the name; a placeholder's are positional.
SheetPads(d, l) ==
    LET symbol == SymbolOf(d, l.key)
    IN {Pad(l.key, n) : n \in Numbers(symbol, Meant(symbol, LabelOf(d, l, TRUE)))}

\* The board: the first pin of the name alone, on a footprint.
HasFootprint(d, key) ==
    key = BoardKey \/ key[2] # "" \/
    LET kicad == CardIn(d, key[1]).kicad IN kicad # None /\ kicad.footprint
BoardPads(d, l) ==
    LET symbol == SymbolOf(d, l.key)
        those == Meant(symbol, LabelOf(d, l, FALSE))
    IN IF ~HasFootprint(d, l.key) \/ those = {} THEN {}
       ELSE {Pad(l.key, Symbols[symbol][Least(those)].number)}

\* The script: what it joins to what, as [landing, made], made being where in
\* the script the net was created.  Nets of a rail, a bus line and a GPIO are
\* declared at its head; any other Net("...") is a new one, whatever its name,
\* and Net.fetch finds the first of the name (SKiDL).  A subcircuit's node is on
\* a net of the head only when its role is wired to a rail, a bus or a GPIO
\* itself: a role that leads to such a net through another part's gets its own.
Declared(net) == net[1] \in {"RAIL", "BUS", "GPIO"}
AtHead == <<0, "">>
AtConn(i) == <<i, "">>
AtNode(d, id, node) ==   \* one handle for each node, after the connections
    <<Len(d.conns) + Least({c \in DOMAIN d.comps : d.comps[c].id = id}), node>>
OnHead(d, id, node) ==
    LET bound == BoundRoles(d, id, node)
    IN bound # {} /\ d.conns[LastOf(bound)].target.kind \in {"bus", "rail", "gpio"}
MadeForNode(d, id, node) == IF OnHead(d, id, node) THEN AtHead ELSE AtNode(d, id, node)
Inline == {"expander_pin", "component"}
Created(d) ==
    {<<Name(d, d.conns[i]), AtConn(i)>> :
       i \in {e \in OwnConns(d) : d.conns[e].target.kind \in Inline}}
    \cup UNION {{<<NodeNet(d, id, node), AtNode(d, id, node)>> :
                    node \in {n \in SubNodes(d, id) : ~OnHead(d, id, n)}} : id \in SubIds(d)}

\* Mutant: what fetches a net gets one of its own.
Fetch_New(net, created) == IF Declared(net) THEN AtHead ELSE <<0, "new">>
Fetch(net, created) ==
    LET those == {made \in created : made[1] = net}
        first == Least({made[2][1] : made \in those})
    IN IF Declared(net) \/ those = {} THEN AtHead
       ELSE CHOOSE at \in {made[2] : made \in those} : at[1] = first

Join(l, made) == [landing |-> l, made |-> made]
MadeAt(d, i, net, created) ==
    CASE d.conns[i].target.kind \in Inline -> AtConn(i)
      [] d.conns[i].target.kind = "net" -> Fetch(net, created)
      [] OTHER -> AtHead
OwnJoin(d, i, created) ==
    LET At(net, c) == Join(Lands(net, <<c.comp, "">>, c.role), MadeAt(d, i, net, created))
    IN At(Name(d, d.conns[i]), d.conns[i])
SubJoin(d, l) ==
    Join(l, MadeForNode(d, l.key[1], SubPart(CardIn(d, l.key[1]), l.key[2]).pins[l.pin]))
JoinsWith(d, created) ==
    {OwnJoin(d, i, created) : i \in {e \in OwnConns(d) : /\ IsBound(d.conns[e].target)
                                                        /\ Passes(d, d.conns[e])}}
    \cup {SubJoin(d, l) : l \in SubLandings(d)}
    \cup {Join(l, Fetch(l.net, created)) : l \in ExpanderLandings(d)}
    \cup {Join(l, AtHead) : l \in BoardLandings(d)}
ScriptJoins(d) == JoinsWith(d, Created(d))
ScriptPads(d, join) ==
    LET l == join.landing
        symbol == SymbolOf(d, l.key)
    IN {Pad(l.key, n) : n \in Numbers(symbol, Meant(symbol, LabelOf(d, l, FALSE)))}

\* It names no bus the design does not have.
ScriptRuns(d) ==
    \A join \in ScriptJoins(d) :
       join.landing.net[1] = "BUS" /\ join.made = AtHead => join.landing.net[2] \in Ids(d.buses)
=============================================================================
