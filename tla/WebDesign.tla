----------------------------- MODULE WebDesign -----------------------------
(***************************************************************************)
(* The edits a browser tab makes to the design it shows (lib/design.ts,    *)
(* with the bus list, the inspector and the connection form that call it), *)
(* each as an operator from a design to the design it leaves.  They are    *)
(* written apart from the tools of DesignTools and differ from them.  ctx  *)
(* is the library board the tab has fetched: another one than the design's *)
(* while a fetch is under way, and NoBoard before the first.               *)
(***************************************************************************)
EXTENDS DesignTools

NoBoard == [caps |-> <<>>, defaults |-> <<>>, rails |-> <<>>]

\* The first of several pins, in the order the board lists them.
FirstPin(pins) == CHOOSE p \in pins : \A q \in pins : Number(p) <= Number(q)

UsedPins(d) == BoundPins(d.conns) \cup PinsOnBuses(d.buses)

-----------------------------------------------------------------------------
(* Buses.                                                                  *)

\* pinCaveat: a pin is clean when every tag is known to be harmless; a strap
\* by its boot tag alone, and a pin that cannot do I2C, are let through.
SafeTags == {"gpio", "pwm", "adc", "adc1", "adc2", "touch", "dac",
             "i2c_sda", "i2c_scl", "spi_clk", "spi_mosi", "spi_miso",
             "uart_tx", "uart_rx", "no_pull_internal",
             "no_pwm", "no_i2c", "no_interrupt", "no_fast_gpio"}
Clean(tags) == tags \subseteq SafeTags \cup StrapTags

SuggestSlots == [i2c |-> <<"sda", "scl">>, spi |-> <<"clk", "miso", "mosi">>,
                 uart |-> <<"tx", "rx">>, i2s |-> <<"lrclk", "bclk">>] @@ ("1wire" :> <<"pin">>)
SlotPrefTag == [sda |-> "i2c_sda", scl |-> "i2c_scl", clk |-> "spi_clk",
                miso |-> "spi_miso", mosi |-> "spi_mosi", tx |-> "uart_tx", rx |-> "uart_rx"]

Free(caps, used) == {p \in DOMAIN caps : p \notin used /\ Clean(caps[p])}

\* suggestBusPins: slot by slot, a free pin with the slot's tag before any
\* other; no pin at all when there are not enough.
SuggestBusPins(type, caps, used) ==
    LET free == Free(caps, used)
        liked(slot, open) == IF slot \in DOMAIN SlotPrefTag
                             THEN {p \in open : SlotPrefTag[slot] \in caps[p]} ELSE {}
        pick(slot, open) == FirstPin(IF liked(slot, open) # {} THEN liked(slot, open) ELSE open)
    IN IF Cardinality(free) < Len(SuggestSlots[type]) THEN <<>>
       ELSE FoldLeft(LAMBDA pins, slot :
                       slot :> pick(slot, free \ {pins[s] : s \in DOMAIN pins}) @@ pins,
                     <<>>, SuggestSlots[type])

NextBusId(d, type) == FreeBusId(type, Ids(d.buses))

AddBus(d, type, pins) ==
    [d EXCEPT !.buses = Append(@, [id |-> NextBusId(d, type), type |-> type, pins |-> pins])]

\* "+ add bus": on the board's default pins of the type, whoever is on them, and
\* on suggested ones where the board has no default.
AddBusFor(d, type, ctx) ==
    AddBus(d, type, IF type \in DOMAIN ctx.defaults THEN ctx.defaults[type]
                    ELSE SuggestBusPins(type, ctx.caps, UsedPins(d)))

UpdateBus(d, id, slot, pin) ==
    [d EXCEPT !.buses = [b \in DOMAIN @ |->
        IF @[b].id # id THEN @[b]
        ELSE [@[b] EXCEPT !.pins = IF pin = None THEN [s \in DOMAIN @ \ {slot} |-> @[s]]
                                   ELSE slot :> pin @@ @]]]

\* Mutant: the connections keep the old id.
RenameBus_BusAlone(d, old, new) ==
    [d EXCEPT !.buses = [b \in DOMAIN @ |->
        IF @[b].id = old THEN [@[b] EXCEPT !.id = new] ELSE @[b]]]
RenameBus(d, old, new) ==
    LET on(c) == c.target.kind = "bus" /\ c.target.to = old
    IN IF old = new \/ old \notin Ids(d.buses) \/ new \in Ids(d.buses) THEN d
       ELSE [d EXCEPT
               !.buses = [b \in DOMAIN @ |-> IF @[b].id = old THEN [@[b] EXCEPT !.id = new] ELSE @[b]],
               !.conns = [i \in DOMAIN @ |-> IF on(@[i]) THEN [@[i] EXCEPT !.target.to = new]
                                             ELSE @[i]]]

\* What was on the bus stays on its id.
RemoveBus(d, id) == [d EXCEPT !.buses = Picked(@, {b \in DOMAIN @ : @[b].id # id})]

-----------------------------------------------------------------------------
(* Components.                                                             *)

\* defaultTargetForPin: unlike the tools' it makes a placeholder of a
\* passthrough pin.
WebTarget(buses, rails, part, libPin) ==
    IF libPin.kind = "passthrough" THEN Target("gpio", None)
    ELSE DefaultTarget(buses, rails, part, libPin)

\* prepareBusesForLib: a bus of every type the part needs and the design lacks.
PrepareBusesForLib(d, part, ctx) ==
    LET lacking == NeededBusTypes(part) \ {d.buses[b].type : b \in DOMAIN d.buses}
        new == SetToSeq(lacking)
        bus(type) == [id |-> NextBusId(d, type), type |-> type,
                      pins |-> IF type \in DOMAIN ctx.defaults THEN ctx.defaults[type] ELSE <<>>]
    IN [d EXCEPT !.buses = @ \o [k \in DOMAIN new |-> bus(new[k])]]

NextInstanceId(d, lib) == NextId(lib, Ids(d.comps), 1)

\* What the "add" of a part leaves: its buses, then itself with a connection
\* for each of its pins.
WebAddComponent(d, lib, ctx) ==
    LET ready == PrepareBusesForLib(d, Parts[lib], ctx)
        id == NextInstanceId(d, lib)
        pins == Parts[lib].pins
    IN [ready EXCEPT
          !.comps = Append(@, [id |-> id, lib |-> lib, locks |-> <<>>, params |-> {}, show |-> <<>>]),
          !.conns = @ \o [k \in DOMAIN pins |->
              [comp |-> id, role |-> pins[k].role,
               target |-> WebTarget(ready.buses, ctx.rails, Parts[lib], pins[k])]]]

UpdateComponentParam(d, id, key, present) ==
    [d EXCEPT !.comps = [c \in DOMAIN @ |->
        IF @[c].id # id THEN @[c]
        ELSE [@[c] EXCEPT !.params = IF present THEN @ \cup {key} ELSE @ \ {key}]]]

SetLockedPin(d, id, role, pin) ==
    [d EXCEPT !.comps = [c \in DOMAIN @ |->
        IF @[c].id # id THEN @[c]
        ELSE [@[c] EXCEPT !.locks = IF pin = None THEN [r \in DOMAIN @ \ {role} |-> @[r]]
                                    ELSE role :> pin @@ @]]]

UpdateConnectionTarget(d, index, target) == [d EXCEPT !.conns[index].target = target]

\* The connection form's kind select: the first thing of the kind there is,
\* whoever uses it, be it the part itself.
DefaultTargetForKind(d, kind, ctx) ==
    LET first(S) == IF S = {} THEN None ELSE d.comps[Least(S)].id
    IN CASE kind = "rail" -> Target("rail", IF ctx.rails = <<>> THEN <<"GND", 0>>
                                            ELSE <<ctx.rails[1].name, 0>>)
         [] kind = "gpio" -> Target("gpio", IF DOMAIN ctx.caps = {} THEN None
                                            ELSE FirstPin(DOMAIN ctx.caps))
         [] kind = "bus" -> Target("bus", IF d.buses = <<>> THEN None ELSE d.buses[1].id)
         [] kind = "expander_pin" ->
              ExpanderTarget(first({c \in DOMAIN d.comps : Parts[d.comps[c].lib].expander > 0}), 0)
         [] kind = "component" -> Target("component", first(DOMAIN d.comps))
         [] kind = "net" -> Target("net", None)

-----------------------------------------------------------------------------
(* The rest of the document.                                               *)

\* A flash size measured on the old board, and a revision of it, are dropped.
SetBoardLibraryId(d, board) == SetBoard(d, board, None)
SetBoardRevision(d, revision) == [d EXCEPT !.revision = revision]
SetBoardFlashSize(d, size) == [d EXCEPT !.flash = size]

\* Requirements are numbered from how many there are, past the ids in use.
AddRequirement(d) ==
    LET used == {d.reqs[k] : k \in DOMAIN d.reqs}
        n == Least({m \in (Len(d.reqs) + 1)..(2 * Len(d.reqs) + 1) : m \notin used})
    IN [d EXCEPT !.reqs = Append(@, n)]
RemoveRequirement(d, index) == [d EXCEPT !.reqs = RemoveAt(@, index)]
=============================================================================
