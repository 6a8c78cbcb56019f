------------------------------ MODULE Payloads ------------------------------
(***************************************************************************)
(* What a LoRaWAN design becomes: the parts of its firmware, the layout of *)
(* its uplink, the codec the network server decodes it with and the name   *)
(* of the device profile that holds the codec (targets/lorawan/codec.py,   *)
(* firmware_gen.py).  Firmware and codec are generated from one list of    *)
(* fields; the profile is found by its name alone.                         *)
(*                                                                         *)
(* A design is [board, parts], parts a sequence of [id, lib, bus].         *)
(***************************************************************************)
EXTENDS Integers, Sequences, FiniteSets, SequencesExt, FiniteSetsExt

CONSTANTS
    LoraParts,    \* library id -> [fields, serial, early, late]
    Base,         \* values of a byte: 256, fewer in a small instance
    LoraBoards    \* board id -> [radio, onboard, uarts]

\* One row of the payload: a field named once, or once per instance.
Field(name, each, bytes, signed) ==
    [name |-> name, each |-> each, bytes |-> bytes, signed |-> signed]

Builtin == << Field("uptime_s", FALSE, 4, FALSE), Field("boot_count", FALSE, 2, FALSE) >>

\* What a board may carry, in the order of the payload: the part it stands
\* for, the id it gets and the tag it gives the profile's name.
Onboard == <<
    [lib |-> "uart_gps",    id |-> "gps",      tag |-> "gps"],
    [lib |-> "axp192",      id |-> "axp192",   tag |-> "batt"],
    [lib |-> "battery_adc", id |-> "batt_adc", tag |-> "batt"],
    [lib |-> "dht",         id |-> "dht1",     tag |-> "dht"],
    [lib |-> "ssd1306",     id |-> "oled",     tag |-> "none"] >>

\* A divider beside a power chip would report the same field twice.
Carried(board, lib) ==
    /\ lib \in LoraBoards[board].onboard
    /\ lib = "battery_adc" => "axp192" \notin LoraBoards[board].onboard

\* The design's parts, then what the board carries and nobody placed.
ResolveComponents(d) ==
    LET placed == {d.parts[i].lib : i \in DOMAIN d.parts}
        ids == {d.parts[i].id : i \in DOMAIN d.parts}
    IN d.parts \o SelectSeq([i \in DOMAIN Onboard |->
                               [id |-> Onboard[i].id, lib |-> Onboard[i].lib, bus |-> Onboard[i].id]],
                            LAMBDA c : /\ Carried(d.board, c.lib)
                                       /\ c.lib \notin placed /\ c.id \notin ids)

Named(c, f) == [name |-> IF f.each THEN <<c.id, f.name>> ELSE <<f.name>>,
                bytes |-> f.bytes, signed |-> f.signed]

FieldsFor(d) ==
    [i \in DOMAIN Builtin |-> Named([id |-> ""], Builtin[i])] \o
    FlattenSeq([i \in DOMAIN ResolveComponents(d) |->
        LET c == ResolveComponents(d)[i] fs == LoraParts[c.lib].fields
        IN [j \in DOMAIN fs |-> Named(c, fs[j])]])

\* A field's name twice is an error, not a layout.
Collides(d) == LET fs == FieldsFor(d) IN
    \E i, j \in DOMAIN fs : i # j /\ fs[i].name = fs[j].name

\* Where the n-th field starts, counting bytes from 0.
Offset(fs, n) == MapThenSumSet(LAMBDA i : fs[i].bytes, 1 .. (n - 1))
PayloadSize(fs) == Offset(fs, Len(fs) + 1)

\* The longest range whose frame still holds the payload.
MinDatarate(fs) ==
    CASE PayloadSize(fs) <= 11 -> 0
      [] PayloadSize(fs) \in 12 .. 53 -> 1
      [] OTHER -> 3

\* Big-endian packing of one value per field, each cut to its width.
Digit(v, n, k) == ((v % Base^n) \div Base^(n - k)) % Base
PackCpp(fs, value) ==
    FlattenSeq([i \in DOMAIN fs |-> [k \in 1 .. fs[i].bytes |-> Digit(value[i], fs[i].bytes, k)]])

\* decodeUplink: each field's bytes read as one number, its sign extended
\* where the field is signed; a frame that is too short decodes to nothing.
ReadAt(b, at, n) == MapThenSumSet(LAMBDA k : b[at + k] * Base^(n - k), 1 .. n)
Extend_Never(raw, f) == raw
Extend(raw, f) ==
    IF f.signed /\ 2 * raw >= Base^f.bytes THEN raw - Base^f.bytes ELSE raw
DecodeJs(fs, b) ==
    IF Len(b) < PayloadSize(fs) THEN <<>>
    ELSE [i \in DOMAIN fs |-> Extend(ReadAt(b, Offset(fs, i), fs[i].bytes), fs[i])]

\* The profile's name: the board and the tags of the parts.
ProfileName(d) ==
    [board |-> d.board,
     tags |-> {Onboard[i].tag : i \in {j \in DOMAIN Onboard :
                   /\ Onboard[j].tag # "none"
                   /\ \E k \in DOMAIN ResolveComponents(d) :
                         ResolveComponents(d)[k].lib = Onboard[j].lib}}]

-----------------------------------------------------------------------------
\* The firmware: parts in the order of the hardware's needs, and each bus
\* that asks for a serial port gets one of the chip's, UART0 aside.
EmitOrder(d) ==
    LET cs == ResolveComponents(d)
        Rank(r) == SelectSeq(cs, LAMBDA c : r = CASE LoraParts[c.lib].early -> 0
                                                  [] LoraParts[c.lib].late -> 2
                                                  [] OTHER -> 1)
    IN Rank(0) \o Rank(1) \o Rank(2)

\* The buses that ask for one, in the order in which they are first met: a
\* bus's number here is its hardware UART.
SerialBuses(d) ==
    LET cs == SelectSeq(EmitOrder(d), LAMBDA c : LoraParts[c.lib].serial)
    IN FoldLeft(LAMBDA seen, c : IF c.bus \in Range(seen) THEN seen ELSE Append(seen, c.bus),
                <<>>, cs)

\* What generate_firmware refuses.
Buildable(d) ==
    /\ LoraBoards[d.board].radio
    /\ ~Collides(d)
    /\ Len(SerialBuses(d)) <= LoraBoards[d.board].uarts
=============================================================================
