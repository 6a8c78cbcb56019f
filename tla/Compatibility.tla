--------------------------- MODULE Compatibility ---------------------------
(***************************************************************************)
(* csp/compatibility.py: what check_pin_compatibility reports of a         *)
(* design, as the set of its warnings, and which of them block generation  *)
(* under strict mode.  The pin solver knows nothing of this module.        *)
(***************************************************************************)
EXTENDS Designs

Warning(severity, code, where, role) ==
    [severity |-> severity, code |-> code, where |-> where, role |-> role]

OutputKinds == {"digital_out", "i2s_dout", "uart_tx", "spi_cs", "spi_clk",
                "spi_mosi", "i2s_lrclk", "i2s_bclk"}
InputKinds == {"digital_in", "analog_in", "uart_rx", "spi_miso"}

\* The connections the checker looks at: bound to a pin the board has, by a
\* role of a known part.
Checked(d) ==
    {i \in DOMAIN d.conns :
        LET c == d.conns[i] IN
          /\ c.target.kind = "gpio" /\ c.target.to # None
          /\ HasPin(d, c)
          /\ Caps(Board(d), c.target.to) # {}}

PinCodes(libPin, caps, classic) ==
    LET out == libPin.kind \in OutputKinds
        in == libPin.kind \in InputKinds
        analog == libPin.kind = "analog_in"
    IN {code \in {<<"error", "input_only_as_output">>, <<"warn", "boot_strap_output">>,
                  <<"warn", "boot_strap_driven">>, <<"warn", "serial_console">>,
                  <<"info", "voltage_limit">>, <<"warn", "adc2_wifi_conflict">>,
                  <<"error", "function_unsupported">>} :
          CASE code[2] = "input_only_as_output" -> out /\ "input_only" \in caps
            [] code[2] = "boot_strap_output" -> out /\ caps \cap StrapTags # {}
            [] code[2] = "boot_strap_driven" ->
                  in /\ libPin.driven /\ caps \cap StrapTags # {}
            [] code[2] = "serial_console" -> caps \cap SerialTags # {}
            [] code[2] = "voltage_limit" -> analog /\ "adc_max_1v" \in caps
            [] code[2] = "adc2_wifi_conflict" -> analog /\ "adc2" \in caps /\ classic
            [] code[2] = "function_unsupported" -> Unserved(libPin, caps) # {}}

ConnectionWarnings(d) ==
    UNION {{Warning(code[1], code[2], d.conns[i].comp, d.conns[i].role) :
              code \in PinCodes(PinOf(d, d.conns[i]),
                                Caps(Board(d), d.conns[i].target.to), Board(d).classic)} :
           i \in Checked(d)}

-----------------------------------------------------------------------------
(* The pins of buses, locks and the rest of the document.                  *)

BusOut == [i2c |-> {"scl"}, spi |-> {"clk", "mosi", "cs"}, uart |-> {"tx"},
           i2s |-> {"lrclk", "bclk"}]
BusRoles(type) == (UNION BusPinGroups[type]) \cup (IF type = "spi" THEN {"cs"} ELSE {})

\* A pin that cannot do I2C is reported for that alone.
BusPinCodes(type, slot, caps) ==
    IF type = "i2c" /\ "no_i2c" \in caps THEN {<<"warn", "function_unsupported">>}
    ELSE LET out == type \in DOMAIN BusOut /\ slot \in BusOut[type] IN
         {code \in {<<"error", "input_only_as_output">>, <<"warn", "boot_strap_output">>,
                    <<"warn", "serial_console">>} :
            CASE code[2] = "input_only_as_output" -> out /\ "input_only" \in caps
              [] code[2] = "boot_strap_output" -> out /\ caps \cap StrapTags # {}
              [] code[2] = "serial_console" -> caps \cap SerialTags # {}}

BusWarnings(d) ==
    UNION {UNION {{Warning(code[1], code[2], d.buses[b].id, slot) :
                     code \in BusPinCodes(d.buses[b].type, slot,
                                          Caps(Board(d), d.buses[b].pins[slot]))} :
                  slot \in {s \in DOMAIN d.buses[b].pins \cap BusRoles(d.buses[b].type) :
                               Caps(Board(d), d.buses[b].pins[s]) # {}}} :
           b \in DOMAIN d.buses}

\* Kinds the lock check has no entry for require nothing.
LockRequires(kind) ==
    IF kind \in {"analog_in", "digital_in", "digital_out", "spi_cs", "i2s_dout"}
    THEN RequiredCaps(kind) ELSE {}

LockWarnings(d) ==
    UNION {LET comp == Named(d.comps, id) IN
           {Warning("error", "locked_pin_invalid", id, role) :
              role \in {r \in DOMAIN comp.locks \cap Roles(PartOf(d, id)) :
                 LET caps == Caps(Board(d), comp.locks[r])
                 IN caps # {} /\ ~(LockRequires(LibPin(PartOf(d, id), r).kind) \subseteq caps)}} :
           id \in {e \in Ids(d.comps) : Known(d, e)}}

ReservedIds(d) ==
    {Warning("error", "reserved_id", id, "id") : id \in Ids(d.buses) \cap ReservedBusIds}

\* A third receiver that sets no rmt_symbols is out of symbol memory.
Receivers(d) == Picked(d.comps, {c \in DOMAIN d.comps :
    d.comps[c].lib = "remote_receiver" /\ "rmt_symbols" \notin d.comps[c].params})
RmtWarnings(d) ==
    IF Board(d).classic /\ Len(Receivers(d)) > 2
    THEN {Warning("warn", "rmt_memory", Receivers(d)[3].id, "")} ELSE {}

CheckPins(d) ==
    ReservedIds(d) \cup
    IF d.board \notin DOMAIN Boards THEN {}
    ELSE ConnectionWarnings(d) \cup BusWarnings(d) \cup LockWarnings(d) \cup RmtWarnings(d)

\* strict_blockers: what the design's own warnings hold counts too.
StrictBlockers(d) ==
    {w \in CheckPins(d) : w.severity \in {"warn", "error"}}
    \cup {w \in d.warnings : w.severity \in {"warn", "error"}}
=============================================================================
