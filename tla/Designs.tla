------------------------------ MODULE Designs ------------------------------
(***************************************************************************)
(* The design document (model.py) and the library records it refers to,    *)
(* as far as the pin solver, the checkers, the seeding helpers and the     *)
(* design tools read them.  An id, or a pin's name, is a pair of a stem    *)
(* and a number: "bme280_1" is <<"bme280", 1>>, "GPIO5" <<"GPIO", 5>>, and *)
(* a name without a suffix has number 0.                                   *)
(***************************************************************************)
EXTENDS Naturals, Sequences, FiniteSets, SequencesExt, TLC

CONSTANTS
    Boards,   \* board id -> [caps, classic, defaults, rails, revisions]
    Parts,    \* library id -> [pins, expander, supply, template, ...]
    None      \* an empty field

\* A board: the capabilities of each pin by name, whether it is a classic
\* ESP32, the pins its default bus of a type runs on, its rails and revisions.
\* A part: its pins in order, each a role, a kind, the pin functions it
\* requires, whether the part drives the line, and the part a hub-relative role
\* belongs to; how many pins it expands a design by (0: it is no expander), the
\* supplies it takes, what its template needs and loads (see Generation), its
\* capability, its display's dialect, and its subcircuit's parts.
Stem(id) == id[1]
Number(id) == id[2]

\* The first of several, by position or by number.
Least(S) == CHOOSE x \in S : \A y \in S : x <= y

\* What of a sequence stands at the given places, in its order.
Picked(s, at) ==
    [k \in 1..Cardinality(at) |-> s[CHOOSE i \in at : Cardinality({j \in at : j < i}) = k - 1]]

\* A function that gives one more thing a value.
Put(f, key, value) == [k \in {key} \cup DOMAIN f |-> IF k = key THEN value ELSE f[k]]

\* generated_bus_id: types whose plain names ESPHome reserves get another stem.
BusStem == [type \in {"i2c", "spi", "uart", "1wire", "i2s"} |->
              CASE type = "uart" -> "uart_bus" [] type = "spi" -> "spi_bus"
                [] type = "i2c" -> "i2c#" [] type = "1wire" -> "1wire#" [] type = "i2s" -> "i2s#"]
ReservedBusIds == {"uart#"} \X (0..2) \cup {"spi#"} \X (0..1)

BusPinGroups ==
    [type \in DOMAIN BusStem |->
       CASE type = "i2c" -> {{"sda"}, {"scl"}}
         [] type = "spi" -> {{"clk"}, {"miso", "mosi"}}
         [] type = "uart" -> {{"rx", "tx"}}
         [] type = "1wire" -> {{"pin"}}
         [] type = "i2s" -> {{"lrclk"}, {"bclk"}}]

BusPinSlots == (UNION UNION {BusPinGroups[type] : type \in DOMAIN BusStem}) \cup {"cs"}

\* A bus: [id, type, pins], pins giving the slots that are filled.
MissingPins(bus) ==
    {group \in BusPinGroups[bus.type] : group \cap DOMAIN bus.pins = {}}

BusPins(bus) == {bus.pins[slot] : slot \in DOMAIN bus.pins \cap BusPinSlots}
PinsOnBuses(buses) == UNION {BusPins(buses[b]) : b \in DOMAIN buses}

-----------------------------------------------------------------------------
(* Connections: [comp, role, target].                                      *)

\* GpioTarget, BusTarget, ExpanderPinTarget, ComponentTarget, NetTarget and
\* RailTarget: what it names, and for an expander pin which.
TargetKinds == {"gpio", "bus", "expander_pin", "component", "net", "rail"}
Target(kind, name) == [kind |-> kind, to |-> name, number |-> 0]
ExpanderTarget(name, n) == [kind |-> "expander_pin", to |-> name, number |-> n]

Unbound(target) ==
    target.kind \in {"gpio", "bus", "expander_pin", "component"} /\ target.to = None

\* The component an id names (the last of several, as a dict is filled), and
\* whether the library knows it.
Ids(things) == {things[c].id : c \in DOMAIN things}
Named(things, id) == things[CHOOSE c \in DOMAIN things :
                              /\ things[c].id = id
                              /\ \A e \in DOMAIN things : things[e].id = id => e <= c]
Known(d, id) == id \in Ids(d.comps) /\ Named(d.comps, id).lib \in DOMAIN Parts
PartOf(d, id) == Parts[Named(d.comps, id).lib]

Roles(part) == {part.pins[k].role : k \in DOMAIN part.pins}
LibPin(part, role) == part.pins[CHOOSE k \in DOMAIN part.pins :
                          /\ part.pins[k].role = role
                          /\ \A e \in 1..(k - 1) : part.pins[e].role # role]

\* The connection's library pin, where there is one.
HasPin(d, c) == Known(d, c.comp) /\ c.role \in Roles(PartOf(d, c.comp))
PinOf(d, c) == LibPin(PartOf(d, c.comp), c.role)

Board(d) == Boards[d.board]
Caps(board, p) == IF p \in DOMAIN board.caps THEN board.caps[p] ELSE {}
StrapTags == {"boot_high", "boot_low"}
SerialTags == {"serial_tx", "serial_rx"}

\* What a pin lacks when it cannot serve a function a part requires.
Lacks == [pwm |-> "no_pwm", interrupt |-> "no_interrupt",
          fast_gpio |-> "no_fast_gpio"]
Unserved(libPin, caps) == {f \in libPin.needs : Lacks[f] \in caps}

RequiredCaps(kind) == IF kind = "analog_in" THEN {"adc"} ELSE {"gpio"}

BusTypeOf(kind) ==
    CASE kind \in {"i2c_sda", "i2c_scl"} -> "i2c"
      [] kind \in {"spi_clk", "spi_miso", "spi_mosi"} -> "spi"
      [] kind \in {"i2s_lrclk", "i2s_bclk"} -> "i2s"
      [] kind \in {"uart_rx", "uart_tx"} -> "uart"
      [] kind = "onewire_data" -> "1wire"
      [] OTHER -> None
=============================================================================
