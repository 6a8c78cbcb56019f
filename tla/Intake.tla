------------------------------- MODULE Intake -------------------------------
(***************************************************************************)
(* What the studio takes in, and what it says of it: the peripherals       *)
(* soldered onto a board (seed.py), documents of older versions            *)
(* (migrate.py), parts and boards drafted for the library                  *)
(* (library/check.py, library/board_check.py), and the checks validation   *)
(* runs on a design (validate.py).                                         *)
(***************************************************************************)
EXTENDS DesignTools, Netlist, Firmware

CONSTANTS
    Onboard,      \* board id -> its peripherals in order, as [key, pins]
    CheckBoard,   \* the board drafted parts are tried on
    Radios        \* board id -> its radio, and what each revision changes of it

\* A peripheral's key is cut to what a handler goes by ("led_" for led_ws2812);
\* its pins are those it names, under its own labels.  Their handlers name the
\* parts of a new design, so no board may have two the handlers call the same.
HandledAs(key) ==
    IF key = "boot_button" THEN "button" ELSE IF key = "led_" THEN "led"
    ELSE IF key = "echo_i2s" THEN "pdm_mic" ELSE key
ASSUME OnboardAssumption ==
    \A b \in DOMAIN Onboard : \A j, k \in DOMAIN Onboard[b] :
       HandledAs(Onboard[b][j].key) = HandledAs(Onboard[b][k].key) => j = k

\* Revisions are of the radio: a board that lists one has it.
ASSUME RadioAssumption ==
    \A b \in DOMAIN Boards :
       Boards[b].revisions = IF b \in DOMAIN Radios THEN DOMAIN Radios[b].of ELSE {}

Wire(id, role, kind, to) == [comp |-> id, role |-> role, target |-> Target(kind, to)]
Bare(id, lib) == [id |-> id, lib |-> lib, locks |-> <<>>, params |-> {}, show |-> <<>>]

-----------------------------------------------------------------------------
(* seed.py.  A handler: the part a peripheral becomes, the rail it runs    *)
(* on, the pins it cannot do without, the type of its bus with the roles   *)
(* there, and the roles that take a pin of their own, as <<role, label>>.  *)

Handler(id, lib, supply, needs, bus, lines, pins) ==
    [id |-> <<id, 0>>, lib |-> lib, supply |-> supply, needs |-> needs, bus |-> bus,
     lines |-> lines, pins |-> pins]
OnPin(id, lib, role) == Handler(id, lib, None, {"pin"}, None, <<>>, <<<<role, "pin">>>>)

Handlers ==
    [button |-> OnPin("onboard_button", "gpio_input", "IN"),
     boot_button |-> OnPin("onboard_button", "gpio_input", "IN"),
     led |-> OnPin("onboard_led", "gpio_output", "OUT"),
     led_ |-> [OnPin("onboard_led", "esp32_rmt_led_strip", "DIN") EXCEPT !.supply = "5V"],
     ir_tx |-> OnPin("onboard_ir", "remote_transmitter", "IR"),
     battery_adc |-> OnPin("onboard_battery", "adc", "IN"),
     oled_ssd1306 |-> Handler("onboard_oled", "ssd1306", "3V3", {}, "i2c", <<"SDA", "SCL">>,
                              <<<<"RESET", "reset">>>>),
     imu_mpu6886 |-> Handler("onboard_imu", "mpu6886", "3V3", {}, "i2c", <<"SDA", "SCL">>, <<>>),
     lora_sx1276 |-> Handler("onboard_lora", "sx127x", "3V3", {}, "spi", <<"SCK", "MISO", "MOSI">>,
                             <<<<"CS", "cs">>, <<"RST", "rst">>, <<"DIO0", "dio0">>>>),
     display_st7789 |-> Handler("onboard_display", "st7789", "3V3", {}, "spi", <<"SCK", "MOSI">>,
                                <<<<"CS", "cs">>, <<"DC", "dc">>, <<"RESET", "reset">>,
                                  <<"BACKLIGHT", "backlight">>>>),
     gps_ |-> Handler("onboard_gps", "uart_gps", "3V3", {"tx", "rx"}, "uart", <<"TX", "RX">>, <<>>)]

\* A microphone is a PDM one when it has a data pin, whatever its key says.
Microphone(pins) ==
    IF "data" \in DOMAIN pins
    THEN Handler("onboard_mic", "i2s_microphone", None, {"clk", "data"}, None, <<>>,
                 <<<<"WS", "clk">>, <<"DIN", "data">>>>)
    ELSE Handler("onboard_mic", "i2s_microphone", None, {"lrclk", "din"}, None, <<>>,
                 <<<<"WS", "lrclk">>, <<"DIN", "din">>, <<"BCLK", "bclk">>>>)
Microphones == {"pdm_mic", "echo_i2s"}
IsHandled(p) == p.key \in DOMAIN Handlers \cup Microphones
HandlerOf(p) == IF p.key \in Microphones THEN Microphone(p.pins) ELSE Handlers[p.key]

\* A GPS and an IMU with pins of its own have a bus of their own, another part
\* is on the board's default one.  A GPS's tx is on the bus's rx.
PeripheralBus(board, p, type) ==
    IF p.key = "gps_"
    THEN [id |-> <<"gps_uart", 0>>, type |-> "uart", pins |-> [tx |-> p.pins.rx, rx |-> p.pins.tx]]
    ELSE IF p.key = "imu_mpu6886" /\ {"sda", "scl"} \subseteq DOMAIN p.pins
    THEN [id |-> <<"i2c_imu", 0>>, type |-> "i2c", pins |-> [sda |-> p.pins.sda, scl |-> p.pins.scl]]
    ELSE [id |-> <<BusStem[type], 0>>, type |-> type, pins |-> DefaultPins(board, type)]

HandlerWires(h, bus, pins) ==
    LET there == Picked(h.pins, {k \in DOMAIN h.pins : h.pins[k][2] \in DOMAIN pins})
    IN (IF h.supply = None THEN <<>>
        ELSE <<Wire(h.id, "VCC", "rail", <<h.supply, 0>>), Wire(h.id, "GND", "rail", <<"GND", 0>>)>>)
       \o [k \in DOMAIN h.lines |-> Wire(h.id, h.lines[k], "bus", bus.id)]
       \o [k \in DOMAIN there |-> Wire(h.id, there[k][1], "gpio", pins[there[k][2]])]

\* One peripheral: left out with a warning where nothing handles it, a pin or the
\* bus it needs is missing, or the library lacks the part; the bus stays then.
Unmappable(key) == Warning("info", "onboard_unmapped", <<key, 0>>, "")
SeedPeripheral(d, p) ==
    LET h == HandlerOf(p)
        bus == PeripheralBus(Board(d), p, h.bus)
        told(s) == [s EXCEPT !.warnings = @ \cup {Unmappable(p.key)}]
        bused == IF h.bus = None \/ bus.id \in Ids(d.buses) THEN d
                 ELSE [d EXCEPT !.buses = Append(@, bus)]
    IN IF ~IsHandled(p) THEN told(d)
       ELSE IF ~(h.needs \subseteq DOMAIN p.pins) THEN told(d)
       ELSE IF h.bus # None /\ bus.pins = <<>> THEN told(d)
       ELSE IF h.lib \notin DOMAIN Parts THEN told(bused)
       ELSE [bused EXCEPT !.comps = Append(@, Bare(h.id, h.lib)),
                          !.conns = @ \o HandlerWires(h, bus, p.pins)]

\* seed_onboard_components, appended to a new design.
Peripherals(board) == IF board \in DOMAIN Onboard THEN Onboard[board] ELSE <<>>
SeedOnboard(d) ==
    LET those == Peripherals(d.board)
        runs[n \in 0..Len(those)] == IF n = 0 THEN d ELSE SeedPeripheral(runs[n - 1], those[n])
    IN runs[Len(those)]

-----------------------------------------------------------------------------
(* migrate.py: a document [version, design, lorawan], lorawan giving the   *)
(* fields of that block that are set.  Up to 0.3 it could stand for parts: *)
(* gps as [rx_pin, tx_pin], dht22 as [pin], oled as [enabled].             *)

SugarFields == {"gps", "dht22", "oled"}
UnreadTop == {"created_at", "updated_at", "agent"}
UnreadLorawan == {"chirpstack_application_id", "device_profile_id", "provisioning", "dev_eui"}
Without(r, fields) == [f \in DOMAIN r \ fields |-> r[f]]

DropUnread(l) ==
    [l EXCEPT !.design = Without(@, UnreadTop), !.lorawan = Without(@, UnreadLorawan)]

\* An id no component and no bus has: "gps", "gps2", "gps3", ...
Unique(id, again, d) ==
    LET ids == Ids(d.comps) \cup Ids(d.buses)
    IN IF id \notin ids THEN id
       ELSE <<again, Least({n \in 2..(2 + Cardinality(ids)) : <<again, n>> \notin ids})>>

\* The part, on the board's rails if it has them.
BoardRails(d) ==
    IF d.board \in DOMAIN Boards
    THEN {Board(d).rails[r].name : r \in DOMAIN Board(d).rails} ELSE {}
PowerWires(d, id) ==
    (IF "3V3" \in BoardRails(d) THEN <<Wire(id, "VCC", "rail", <<"3V3", 0>>)>> ELSE <<>>)
    \o (IF "GND" \in BoardRails(d) THEN <<Wire(id, "GND", "rail", <<"GND", 0>>)>> ELSE <<>>)
WithPart(d, id, lib, wires) ==
    [d EXCEPT !.comps = Append(@, Bare(id, lib)), !.conns = @ \o PowerWires(d, id) \o wires]
WithBus(d, id, type, pins) ==
    [d EXCEPT !.buses = Append(@, [id |-> id, type |-> type, pins |-> pins])]

LowerGps(d, gps) ==
    LET busId == Unique(<<"gps_uart", 0>>, "gps_uart#", d)
        bused == WithBus(d, busId, "uart", [rx |-> gps.rx_pin, tx |-> gps.tx_pin])
        id == Unique(<<"gps", 0>>, "gps#", bused)
    IN WithPart(bused, id, "uart_gps", <<Wire(id, "TX", "bus", busId), Wire(id, "RX", "bus", busId)>>)

LowerDht(d, dht) ==
    LET id == Unique(<<"dht#", 1>>, "dht1#", d)
    IN WithPart(d, id, "dht", <<Wire(id, "DATA", "gpio", dht.pin)>>)

\* The OLED is on the first I2C bus there is, else on the board's default pins,
\* else on none.
OnboardOled(d) ==
    LET those == Peripherals(d.board)
        oled == {k \in DOMAIN those : those[k].key = "oled_ssd1306"}
    IN IF oled = {} THEN <<>> ELSE those[Least(oled)].pins
LowerOled(d) ==
    LET there == {b \in DOMAIN d.buses : d.buses[b].type = "i2c"}
        pins == IF d.board \in DOMAIN Boards THEN DefaultPins(Board(d), "i2c") ELSE <<>>
        newId == Unique(<<"i2c#", 0>>, "i2c0#", d)
        makes == there = {} /\ {"sda", "scl"} \subseteq DOMAIN pins
        busId == IF there # {} THEN d.buses[Least(there)].id ELSE IF makes THEN newId ELSE None
        bused == IF makes THEN WithBus(d, newId, "i2c", [sda |-> pins.sda, scl |-> pins.scl]) ELSE d
        id == Unique(<<"oled", 0>>, "oled#", bused)
        onBus == IF busId = None THEN <<>>
                 ELSE <<Wire(id, "SDA", "bus", busId), Wire(id, "SCL", "bus", busId)>>
        reset == IF "reset" \in DOMAIN OnboardOled(d)
                 THEN <<Wire(id, "RESET", "gpio", OnboardOled(d).reset)>> ELSE <<>>
    IN WithPart(bused, id, "ssd1306", onBus \o reset)

\* _lower_lorawan_sugar: a block whose part the design has is dropped.
LowerSugar(l) ==
    LET present == {l.design.comps[c].lib : c \in DOMAIN l.design.comps}
        there(f) == f \in DOMAIN l.lorawan /\ l.lorawan[f] # None
        set(f, lib) == there(f) /\ lib \notin present
        gps(d) == IF set("gps", "uart_gps") THEN LowerGps(d, l.lorawan.gps) ELSE d
        dht(d) == IF set("dht22", "dht") THEN LowerDht(d, l.lorawan.dht22) ELSE d
        oled(d) == IF set("oled", "ssd1306") /\ l.lorawan.oled.enabled THEN LowerOled(d) ELSE d
    IN IF \E f \in SugarFields : there(f)
       THEN [l EXCEPT !.design = oled(dht(gps(@))), !.lorawan = Without(@, SugarFields)] ELSE l

\* migrate: the steps from the document's version on.
Versions == <<"0.1", "0.2", "0.3", "1.0">>
Step(l) ==
    LET at == {k \in 1..3 : Versions[k] = l.version} IN
    IF at = {} THEN l
    ELSE [(IF l.version = "0.2" THEN DropUnread(l) ELSE LowerSugar(l))
            EXCEPT !.version = Versions[Least(at) + 1]]
Migrated(l) == Step(Step(Step(l)))

-----------------------------------------------------------------------------
(* library/check.py: a part drafted for the library is tried as the one    *)
(* component of a design, its pins wired the way their kinds say.          *)

DraftDesign(board, comps, buses, conns) ==
    [board |-> board, flash |-> None, revision |-> None, comps |-> comps, buses |-> buses,
     conns |-> conns, warnings |-> {}, strict |-> FALSE, overrides |-> <<>>, automations |-> {}]

\* A signal has a GPIO of its own, and so has a bus's line when the part is not
\* tried on buses.
SignalKinds == {"digital_in", "digital_out", "analog_in", "analog_out", "pwm", "adc", "spi_cs",
                "i2s_dout", "i2s_din"}
TriedOnPin(pin, onBuses) == pin.kind \in SignalKinds \/ (BusTypeOf(pin.kind) # None /\ ~onBuses)
PlainPins(board) ==
    SetToSeq({p \in DOMAIN board.caps : /\ "gpio" \in board.caps[p]
                                        /\ board.caps[p] \cap {"strap", "input_only"} = {}})
TriedTarget(part, k, onBuses) ==
    LET pin == part.pins[k]
        rank == Cardinality({e \in 1..k : TriedOnPin(part.pins[e], onBuses)})
    IN CASE TriedOnPin(pin, onBuses) -> Target("gpio", PlainPins(Boards[CheckBoard])[rank])
         [] pin.kind = "power" -> Target("rail", <<"3V3", 0>>)
         [] pin.kind = "ground" -> Target("rail", <<"GND", 0>>)
         [] OTHER -> Target("bus", <<BusStem[BusTypeOf(pin.kind)], 0>>)
IsTried(pin) ==
    pin.kind \in SignalKinds \cup {"power", "ground"} \/ BusTypeOf(pin.kind) # None

\* synthetic_design; which pins its buses run on is left out.
Dut == <<"dut", 0>>
SyntheticDesign(lib, onBuses) ==
    LET part == Parts[lib]
        tried == Picked([k \in DOMAIN part.pins |->
                           [comp |-> Dut, role |-> part.pins[k].role,
                            target |-> TriedTarget(part, k, onBuses)]],
                        {k \in DOMAIN part.pins : IsTried(part.pins[k])})
        types == SetToSeq(NeededBusTypes(part))
        buses == [b \in DOMAIN types |-> [id |-> <<BusStem[types[b]], 0>>, type |-> types[b],
                                          pins |-> <<>>]]
    IN DraftDesign(CheckBoard, <<Bare(Dut, lib)>>, IF onBuses THEN buses ELSE <<>>, tried)
DraftRenders(lib, onBuses) ==
    LET d == SyntheticDesign(lib, onBuses) IN ComponentRenders(d, d.comps[1])

\* A part that hangs off a hub, or has no template, is not tried.
HangsOff(part) == \E k \in DOMAIN part.pins : part.pins[k].kind = "hub_ref"
IsRendered(part) == part.template /\ ~HangsOff(part)

\* The pins a symbol must have: a subcircuit's part names its own.
SymbolOfPart(card, k) ==
    [symbol |-> card.parts[k].symbol, labels |-> DOMAIN card.parts[k].pins]
SymbolsMeant(card) ==
    {SymbolOfPart(card, k) : k \in DOMAIN card.parts}
    \cup IF card.kicad = None THEN {}
         ELSE {[symbol |-> card.kicad.symbol, labels |-> ToSet(card.kicad.banks)
                    \cup {card.kicad.map[role] : role \in DOMAIN card.kicad.map}]}
LacksPins(meant) == \E label \in meant.labels : Meant(meant.symbol, label) = {}

\* check_component_yaml: the errors it finds; a draft with none may be saved.
ComponentErrors(lib) ==
    LET part == Parts[lib]
        card == CardOf(lib)
    IN {e \in {"part_twice", "part_without_pins", "driven_is_no_input", "template_fails",
               "symbol_lacks_pin"} :
          CASE e = "part_twice" ->
                 \E j, k \in DOMAIN card.parts : card.parts[j].id = card.parts[k].id /\ j # k
            [] e = "part_without_pins" ->
                 \E k \in DOMAIN card.parts : DOMAIN card.parts[k].pins = {}
            [] e = "driven_is_no_input" ->
                 \E k \in DOMAIN part.pins : part.pins[k].driven /\ part.pins[k].kind # "digital_in"
            [] e = "template_fails" ->
                 IsRendered(part) /\ ~\E onBuses \in BOOLEAN : DraftRenders(lib, onBuses)
            [] e = "symbol_lacks_pin" -> \E meant \in SymbolsMeant(card) : LacksPins(meant)}

\* What it only warns of, or says it could not check.
Touching(card, net) ==
    {at \in UNION {{k} \X DOMAIN card.parts[k].pins : k \in DOMAIN card.parts} :
        card.parts[at[1]].pins[at[2]] = net}
ComponentNotes(lib) ==
    LET part == Parts[lib]
        card == CardOf(lib)
        nets == UNION {Nodes(card.parts[k]) : k \in DOMAIN card.parts}
    IN {n \in {"net_dangles", "role_untouched", "emits_nothing", "hangs_off_a_hub", "no_kicad"} :
          CASE n = "net_dangles" ->
                 \E net \in nets \ Roles(part) : Cardinality(Touching(card, net)) < 2
            [] n = "role_untouched" -> card.parts # <<>> /\ ~(Roles(part) \subseteq nets)
            [] n = "emits_nothing" -> ~part.template
            [] n = "hangs_off_a_hub" -> part.template /\ HangsOff(part)
            [] n = "no_kicad" -> card.parts = <<>> /\ card.kicad = None}

-----------------------------------------------------------------------------
(* library/board_check.py: a board drafted for the library.                *)

Esp32Variants == {"esp32", "esp32s2", "esp32s3", "esp32c2", "esp32c3", "esp32c5", "esp32c6",
                  "esp32c61", "esp32h2", "esp32p4"}
OtherPlatforms == {"esp8266", "rp2040", "bk72xx", "rtl87xx", "ln882x", "nrf52"}

\* The lines of each bus a board may have a default of, and those it drives.
BusLines == [i2c |-> {"sda", "scl"}, spi |-> {"clk", "mosi", "miso"}, uart |-> {"tx", "rx"},
             i2s |-> {"bclk", "lrclk"}]
DrivenLines == {"sda", "scl", "clk", "mosi", "tx", "bclk", "lrclk"}
Optional == [spi |-> {"miso"}]

DefaultBusErrors(board, type) ==
    LET pins == board.defaults[type]
        optional == IF type \in DOMAIN Optional THEN Optional[type] ELSE {}
    IN IF type \notin DOMAIN BusLines THEN {"bus_type_unknown"}
       ELSE (IF BusLines[type] \ optional \subseteq DOMAIN pins THEN {} ELSE {"bus_lacks_line"})
            \cup {IF pins[line] \notin DOMAIN board.caps THEN "pin_unknown" ELSE "pin_input_only" :
                    line \in {l \in BusLines[type] \cap DOMAIN pins :
                       \/ pins[l] \notin DOMAIN board.caps
                       \/ l \in DrivenLines /\ "input_only" \in board.caps[pins[l]]}}

PeripheralPins(b) ==
    UNION {{Peripherals(b)[j].pins[label] : label \in DOMAIN Peripherals(b)[j].pins} :
           j \in DOMAIN Peripherals(b)}
RailErrors(board) ==
    LET rails == board.rails
    IN (IF \E j, k \in DOMAIN rails : rails[j].name = rails[k].name /\ j # k
        THEN {"rail_twice"} ELSE {})
       \cup (IF \E j \in DOMAIN rails : rails[j].name = "GND" THEN {} ELSE {"no_ground"})
       \cup (IF \E j \in DOMAIN rails : rails[j].volts > 0 THEN {} ELSE {"no_supply"})

\* A radio: its pins by name, those driven before it starts, and the two that are
\* switched with each transfer.
RadioFor(board, revision) ==
    IF board \notin DOMAIN Radios THEN None
    ELSE IF revision = None THEN Radios[board].base ELSE Radios[board].of[revision] @@ Radios[board].base
RadioPins(radio) ==
    ({radio.pins[name] : name \in DOMAIN radio.pins} \cup radio.high \cup radio.low
     \cup {radio.txen, radio.rxen}) \ {None}
RevisionPins(b) ==
    IF b \notin DOMAIN Radios THEN {}
    ELSE UNION {RadioPins(RadioFor(b, rev)) : rev \in DOMAIN Radios[b].of \cup {None}}

\* The pins of the symbol: each is there, and no two of the board's are the same.
BoardSymbolErrors(b) ==
    LET card == IF b \in DOMAIN BoardCards THEN BoardCards[b] ELSE None
        map == card.map
    IN IF card = None THEN {}
       ELSE (IF \E role \in DOMAIN map : Meant(card.symbol, map[role]) = {}
             THEN {"symbol_lacks_pin"} ELSE {})
            \cup IF \E p, q \in DOMAIN map : map[p] = map[q] /\ p # q THEN {"pins_shorted"} ELSE {}

\* seeded_design: its peripherals on a design of nothing else.
SeededDesign(b) == SeedOnboard(DraftDesign(b, <<>>, <<>>, <<>>))

RenderErrorsOf(d) ==
    IF ~Renders(d) THEN {"does_not_render"}
    ELSE {w.code : w \in {q \in CheckPins(d) : q.severity = "error"}}
RenderErrors(b) == RenderErrorsOf(SeededDesign(b))

\* A board with no pins has none of its wiring looked at.
PlatformErrors(b) ==
    IF Chips[b] \in Esp32Variants \cup OtherPlatforms THEN {} ELSE {"chip_unknown"}
WiringErrors(b) ==
    LET board == Boards[b] IN
    IF DOMAIN board.caps = {} THEN {"no_pins"}
    ELSE UNION {DefaultBusErrors(board, type) : type \in DOMAIN board.defaults}
         \cup IF PeripheralPins(b) \cup RevisionPins(b) \subseteq DOMAIN board.caps
              THEN {} ELSE {"pin_unknown"}

\* check_board_yaml.
BoardErrors(b) ==
    PlatformErrors(b) \cup RailErrors(Boards[b]) \cup WiringErrors(b) \cup BoardSymbolErrors(b)
    \cup RenderErrors(b)

-----------------------------------------------------------------------------
(* The LoRaWAN side of a design: the block the ESPHome generator writes    *)
(* for a payload, and what the lorawan target says of a design.            *)

\* _emit_lorawan_blocks: the radio's pins, with the lines of the board's default
\* SPI bus; without a radio the block is left out, for an unlisted revision the
\* render fails.
LorawanRenders(d, payload) ==
    payload # <<>> => d.revision \in Board(d).revisions \cup {None} \/ d.board \notin DOMAIN Radios
BlockPins(radio, board) ==
    LET spi == IF "spi" \in DOMAIN board.defaults THEN board.defaults.spi ELSE <<>>
    IN RadioPins(radio) \cup {spi[line] : line \in {"clk", "miso", "mosi"} \cap DOMAIN spi}
LorawanBlock(d, payload) ==
    LET radio == RadioFor(d.board, d.revision) IN
    IF payload = <<>> \/ radio = None THEN None
    ELSE [radio |-> BlockPins(radio, Board(d)), sensors |-> payload]

\* LorawanTarget.validate; the console of a classic ESP32 is on two pins.
ConsolePins(d) == IF ChipOf(d) = "esp32" THEN {<<"GPIO", 1>>, <<"GPIO", 3>>} ELSE {}
GpsBuses(d) ==
    {d.conns[i].target.to : i \in {j \in DOMAIN d.conns :
        /\ d.conns[j].target.kind = "bus"
        /\ \E c \in DOMAIN d.comps : d.comps[c].id = d.conns[j].comp /\ d.comps[c].lib = "uart_gps"}}
SerialPins(bus) == {bus.pins[line] : line \in {"rx", "tx"} \cap DOMAIN bus.pins}
LorawanWarnings(d, lorawan) ==
    IF d.board \notin DOMAIN Boards THEN {}
    ELSE (IF d.board \in DOMAIN Radios THEN {} ELSE {"lorawan_board_no_radio"})
         \cup (IF lorawan = None THEN {"lorawan_unconfigured"} ELSE {})
         \cup IF \E b \in DOMAIN d.buses :
                    d.buses[b].id \in GpsBuses(d) /\ SerialPins(d.buses[b]) \cap ConsolePins(d) # {}
              THEN {"lorawan_gps_on_console_uart"} ELSE {}

-----------------------------------------------------------------------------
(* validate.py: what validation says of a design beside its pins and what  *)
(* its target says.                                                        *)

FlashWarnings(d) ==
    IF d.flash = None \/ d.board \notin DOMAIN Boards THEN {}
    ELSE IF ChipOf(d) \notin Esp32Variants THEN {"flash_size_override_ignored"}
    ELSE IF Board(d).flash # None /\ d.flash > Board(d).flash
         THEN {"flash_size_override_above_board"} ELSE {}

RevisionWarnings(d) ==
    IF d.board \notin DOMAIN Boards THEN {}
    ELSE IF d.revision = None
         THEN IF Board(d).revisions = {} THEN {} ELSE {"board_revision_unset"}
    ELSE IF d.revision \notin Board(d).revisions THEN {"board_revision_unknown"} ELSE {}

\* check_esphome_ids: a design that does not render is left to the render.
IdWarnings(d) == IF Renders(d) THEN IdConflicts(d) \cap Integrations ELSE {}

\* check_part_overrides: what it says of a substitution.
OverrideWarning(d, key) ==
    LET theirs == IF Known(d, key[1]) THEN CardIn(d, key[1]).parts ELSE <<>>
        those == {k \in DOMAIN theirs : theirs[k].id = key[2]}
    IN IF those = {} THEN "part_override_unknown"
       ELSE IF d.overrides[key] = theirs[LastOf(those)].value THEN "" ELSE "part_substituted"

\* check_net_targets: what it says of a connection to a net.
NetWarnings(d, c) ==
    (IF HasPin(d, c) /\ PinOf(d, c).kind # "passthrough" THEN {"net_target_on_signal_pin"} ELSE {})
    \cup (IF ~IsBound(c.target) THEN {"net_unassigned"}
          ELSE IF Resolve(d, c.target) = None THEN {"net_unresolved"} ELSE {})

\* What is said whoever asks, and by the agent's validate tool, which renders the
\* design first.
BoardValidation(d) ==
    FlashWarnings(d) \cup RevisionWarnings(d)
    \cup ({OverrideWarning(d, key) : key \in DOMAIN d.overrides} \ {""})
    \cup (IF IdWarnings(d) = {} THEN {} ELSE {"id_is_integration_name"})
    \cup UNION {NetWarnings(d, d.conns[i]) :
                   i \in {j \in DOMAIN d.conns : d.conns[j].target.kind = "net"}}
ValidateTool(d) ==
    IF ~Renders(d) THEN [ok |-> FALSE, said |-> {}]
    ELSE [ok |-> d.strict => StrictBlockers(d) = {}, said |-> BoardValidation(d)]

\* The codes POST /design/validate answers with, under target esphome, which adds
\* none of its own.
Validation(d) ==
    BoardValidation(d)
    \cup (UNION {AutomationWarnings(d, a) : a \in d.automations})
    \cup UNION {ShowWarnings(d, c) : c \in Shows(d)}
=============================================================================
