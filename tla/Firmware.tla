------------------------------ MODULE Firmware ------------------------------
(***************************************************************************)
(* What the targets besides ESPHome make of a design: Tasmota's device     *)
(* template (targets/tasmota.py), WLED's cfg.json and the build of its     *)
(* usermods (targets/wled.py), and the MicroPython and CircuitPython       *)
(* programs (generate/micropython_gen.py, circuitpython_gen.py), each with *)
(* what it says of the parts it leaves out.                                *)
(***************************************************************************)
EXTENDS Designs

CONSTANTS
    Chips,    \* board id -> its chip_variant
    Blocks    \* library id -> its blocks: [i2c, tasmota, wled, ...]

\* i2c says whether ESPHome has it on an I2C bus.  A block is None where the
\* library file has none.  Of a tasmota block, pins
\* gives the function of a role, bus the functions of a bus's slots in order,
\* variants the functions a param puts in their place.  Of a wled block, pins is
\* the sequence of roles, um the name its settings go by in cfg.json, or None,
\* define the flag that compiles it in, defines the roles the flags name the pin
\* of.  Of the two others, reads is what the fragments cannot do without ("bus",
\* pin roles), declines the params they have no driver for.
NoBlocks == [i2c |-> FALSE, tasmota |-> None, wled |-> None, micropython |-> None,
             circuitpython |-> None]
BlocksOf(c) == IF c.lib \in DOMAIN Blocks THEN Blocks[c.lib] ELSE NoBlocks

\* The kinds a library file's wled block may be of (library/__init__.py).
ASSUME BlocksAssumption ==
    \A lib \in DOMAIN Blocks :
       \/ Blocks[lib].wled = None
       \/ Blocks[lib].wled.kind \in {"led", "button", "ir", "relay", "usermod"}

ChipOf(d) == Chips[d.board]

\* The sequences one after the other.
Joined(seqs) ==
    LET upTo[n \in 0..Len(seqs)] == IF n = 0 THEN <<>> ELSE upTo[n - 1] \o seqs[n]
    IN upTo[Len(seqs)]

\* pin_number: labels of ESP8266 boards are not GPIO numbers.
LabelPins == ("D" :> (0 :> 16 @@ 1 :> 5 @@ 2 :> 4 @@ 3 :> 0 @@ 4 :> 2 @@ 5 :> 14 @@ 6 :> 12
                      @@ 7 :> 13 @@ 8 :> 15))
             @@ ("RX" :> (0 :> 3)) @@ ("TX" :> (0 :> 1)) @@ ("A" :> (0 :> 17))
IsLabel(pin) == Stem(pin) \in DOMAIN LabelPins /\ Number(pin) \in DOMAIN LabelPins[Stem(pin)]
PinNumber(pin) == IF IsLabel(pin) THEN LabelPins[Stem(pin)][Number(pin)]
                  ELSE IF Stem(pin) = "GPIO" \/ Number(pin) # 0 THEN Number(pin) ELSE None

-----------------------------------------------------------------------------
(* Tasmota.                                                                *)

\* The values of the ESP32 build's functions.
FUNC ==
    [Button |-> 32, Switch |-> 160, Relay |-> 224, Led |-> 288, Counter |-> 352, PWM |-> 416,
     Buzzer |-> 480, LedLink |-> 544, I2C_SCL |-> 608, I2C_SDA |-> 640, IRsend |-> 1056,
     IRrecv |-> 1088, DHT11 |-> 1184, DHT22 |-> 1216, SI7021 |-> 1248, DS18x20 |-> 1312,
     WS2812 |-> 1376, SR04_Trig |-> 1856, SR04_Echo |-> 1888, TM1638_CLK |-> 2048,
     TM1638_DIO |-> 2080, TM1638_STB |-> 2112, HX711_SCK |-> 2176, HX711_DAT |-> 2208,
     NRG_SEL |-> 2592, NRG_CF1 |-> 2656, HLW_CF |-> 2688, CSE7766_TX |-> 3072,
     CSE7766_RX |-> 3104, Rotary_A |-> 3264, Rotary_B |-> 3296, MHZ_TXD |-> 1408,
     MHZ_RXD |-> 1440, PMS5003_TX |-> 1664, PMS5003_RX |-> 1696, ADC_Input |-> 4704,
     ADC_CT_POWER |-> 4896, Wiegand_D0 |-> 6912, Wiegand_D1 |-> 6944, TM1637_CLK |-> 7104,
     TM1637_DIO |-> 7136, MAX7219_CLK |-> 7392, MAX7219_DIN |-> 7424, MAX7219_CS |-> 7456,
     Shift595_SRCLK |-> 8288, Shift595_RCLK |-> 8320, Shift595_OE |-> 8352,
     Shift595_SER |-> 8384, LD2410_TX |-> 9888, LD2410_RX |-> 9920, SPI_MISO |-> 672,
     SPI_MOSI |-> 704, SPI_CLK |-> 736, PZEM0XX_TX |-> 1472, PZEM016_RX |-> 1536,
     SDM120_TX |-> 1920, SDM120_RX |-> 1952, SDM630_TX |-> 1984, SDM630_RX |-> 2016,
     TuyaMCU_TX |-> 2272, TuyaMCU_RX |-> 2304, MAX31855_CS |-> 2496, MAX31855_CLK |-> 2528,
     MAX31855_DO |-> 2560, RDM6300_RX |-> 3616, GPS_RX |-> 4352, GPS_TX |-> 4384,
     WEBCAM_PWDN |-> 4928, WEBCAM_RESET |-> 4960, WEBCAM_XCLK |-> 4992, WEBCAM_SIOD |-> 5024,
     WEBCAM_SIOC |-> 5056, WEBCAM_DATA1 |-> 5088, WEBCAM_DATA2 |-> 5089, WEBCAM_DATA3 |-> 5090,
     WEBCAM_DATA4 |-> 5091, WEBCAM_DATA5 |-> 5092, WEBCAM_DATA6 |-> 5093, WEBCAM_DATA7 |-> 5094,
     WEBCAM_DATA8 |-> 5095, WEBCAM_VSYNC |-> 5120, WEBCAM_HREF |-> 5152, WEBCAM_PCLK |-> 5184,
     RC522_RST |-> 6112, RC522_CS |-> 6272, XPT2046_CS |-> 7264, I2S_DOUT |-> 7776,
     I2S_BCLK |-> 7808, I2S_WS |-> 7840, I2S_DIN |-> 7872, MCP23SXX_CS |-> 10272,
     CC1101_GDO0 |-> 4544, CC1101_GDO2 |-> 4576, CC1101_CS |-> 12544, LORA_CS |-> 10656,
     LORA_RST |-> 10688, LORA_DI0 |-> 10752]

\* The families a template numbers, and how far.
UnitMax == [Button |-> 4, Switch |-> 8, Relay |-> 8, Led |-> 4, Counter |-> 4, PWM |-> 5]

\* The functions only the ESP32 build has, by their index, as <<from, past>>.
Esp32Only == {<<154, 166>>, <<173, 176>>, <<237, 239>>, <<240, 243>>, <<373, 380>>, <<389, 392>>}
Within(ranges) == UNION {r[1]..(r[2] - 1) : r \in ranges}
IsEsp82(chip) == chip \in {"esp8266", "esp8285"}

\* Mutant: a range that ends where the function is does not count yet.
FuncValue_Early(name, chip) ==
    LET index == FUNC[name] \div 32
        gone == Within({r \in Esp32Only : r[2] < index})
    IN IF ~IsEsp82(chip) THEN FUNC[name]
       ELSE IF index \in Within(Esp32Only) THEN None
       ELSE (index - Cardinality(gone)) * 32 + (FUNC[name] % 32)
\* func_value: on the ESP8266 a function is numbered without those before it.
FuncValue(name, chip) ==
    LET index == FUNC[name] \div 32
        gone == Within({r \in Esp32Only : r[2] <= index})
    IN IF ~IsEsp82(chip) THEN FUNC[name]
       ELSE IF index \in Within(Esp32Only) THEN None
       ELSE (index - Cardinality(gone)) * 32 + (FUNC[name] % 32)

\* The pins a template has a slot for.
Slots ==
    LET small == 0..5 \cup {9, 10} \cup 12..17
    IN [esp8266 |-> small, esp8285 |-> small, esp32 |-> (0..27) \cup (32..39),
        esp32s2 |-> (0..21) \cup (33..46), esp32s3 |-> (0..21) \cup (33..48),
        esp32c3 |-> 0..21, esp32c6 |-> 0..30]

\* A request for a function on a pin: [pin, func, owner].  A template in the
\* making: on, what stands in the slots; used, how many units of each family are
\* given out; said, the owners of what was left out.
NewTemplate == [on |-> <<>>, used |-> [f \in DOMAIN UnitMax |-> 0], said |-> {}]

\* assign: a unit is given out before its pin is looked at.
Assign(chip, t, ask) ==
    LET slot == PinNumber(ask.pin)
        base == FuncValue(ask.func, chip)
        numbered == ask.func \in DOMAIN UnitMax
        unit == IF numbered THEN t.used[ask.func] ELSE 0
        counted == IF numbered THEN [t EXCEPT !.used[ask.func] = @ + 1] ELSE t
        Told(s) == [s EXCEPT !.said = @ \cup {ask.owner}]
    IN IF slot \notin Slots[chip] THEN Told(t)
       ELSE IF base = None THEN Told(t)
       ELSE IF numbered /\ unit >= UnitMax[ask.func] THEN Told(t)
       ELSE IF slot \notin DOMAIN t.on
            THEN [counted EXCEPT !.on = Put(@, slot, base + unit)]
       ELSE IF t.on[slot] # base + unit THEN Told(counted) ELSE counted

AssignAll(chip, asks) ==
    LET runs[n \in 0..Len(asks)] ==
          IF n = 0 THEN NewTemplate ELSE Assign(chip, runs[n - 1], asks[n])
    IN runs

\* The functions of a bus's lines, those that have a pin.
BusAsks(bus, lines, owner) ==
    LET there == Picked(lines, {k \in DOMAIN lines : lines[k][1] \in DOMAIN bus.pins})
    IN [k \in DOMAIN there |-> [pin |-> bus.pins[there[k][1]], func |-> there[k][2],
                                owner |-> owner]]
I2cLines == <<<<"sda", "I2C_SDA">>, <<"scl", "I2C_SCL">>>>
I2cAsks(bus) ==
    IF bus.type = "i2c" THEN BusAsks(bus, I2cLines, <<"bus", bus.id>>) ELSE <<>>

\* A param puts another function in the place of the block's.
Variant(c, block, func) ==
    LET keys == {key \in c.params \cap DOMAIN block.variants :
                    func \in DOMAIN block.variants[key]}
    IN IF keys = {} THEN func ELSE block.variants[CHOOSE key \in keys : TRUE][func]

\* The buses a connection leads to: a part on a hub takes its pins from the
\* hub's.
Hops(d, target) ==
    IF target.kind = "bus" THEN <<target.to>>
    ELSE LET hub == Picked(d.conns, {j \in DOMAIN d.conns : d.conns[j].comp = target.to
                                                            /\ d.conns[j].target.kind = "bus"})
         IN [k \in DOMAIN hub |-> hub[k].target.to]

IsDirect(block, conn) == conn.role \in DOMAIN block.pins
Bound(conn) == conn.target.kind = "gpio" /\ conn.target.to # None

FuncLines(c, block) ==
    [k \in DOMAIN block.bus |-> <<block.bus[k][1], Variant(c, block, block.bus[k][2])>>]

\* What one connection asks for.  A bus may be asked for twice, which changes
\* nothing: the second time its pins hold what they are asked to.
ConnAsks(d, c, block, conn) ==
    LET Of(id) == IF id \in Ids(d.buses)
                  THEN BusAsks(Named(d.buses, id), FuncLines(c, block), c.id) ELSE <<>>
        hops == Hops(d, conn.target)
    IN IF IsDirect(block, conn)
       THEN IF Bound(conn) THEN <<[pin |-> conn.target.to, owner |-> c.id,
                                   func |-> Variant(c, block, block.pins[conn.role])]>>
            ELSE <<>>
       ELSE IF conn.target.kind \in {"bus", "component"}
            THEN Joined([k \in DOMAIN hops |-> Of(hops[k])])
       ELSE <<>>
PartAsks(d, c) ==
    LET block == BlocksOf(c).tasmota
        Of(conn) == IF conn.comp = c.id THEN ConnAsks(d, c, block, conn) ELSE <<>>
    IN IF block = None THEN <<>> ELSE Joined([i \in DOMAIN d.conns |-> Of(d.conns[i])])

\* build_template: the buses first, then the parts, each with its connections.
Asks(d) == Joined([b \in DOMAIN d.buses |-> I2cAsks(d.buses[b])])
           \o Joined([c \in DOMAIN d.comps |-> PartAsks(d, d.comps[c])])
Template(d) == LET asks == Asks(d) IN AssignAll(ChipOf(d), asks)[Len(asks)]

\* Parts without a block, but for those Tasmota finds on an I2C bus by itself,
\* and parts with a role that is not on a pin.
WithoutTasmota(d) ==
    {d.comps[c].id : c \in {e \in DOMAIN d.comps : BlocksOf(d.comps[e]).tasmota = None
                                                   /\ ~BlocksOf(d.comps[e]).i2c}}
Indirect(d) ==
    {d.comps[c].id : c \in {e \in DOMAIN d.comps :
        LET block == BlocksOf(d.comps[e]).tasmota IN
        block # None /\ \E i \in DOMAIN d.conns : /\ d.conns[i].comp = d.comps[e].id
                                                  /\ IsDirect(block, d.conns[i])
                                                  /\ ~Bound(d.conns[i])}}

\* TasmotaTarget.validate: on a chip without a layout there is nothing to say.
HasLayout(d) == ChipOf(d) \in DOMAIN Slots
TasmotaWarnings(d, t) ==
    IF HasLayout(d) THEN t.said \cup WithoutTasmota(d) \cup Indirect(d) ELSE {}

-----------------------------------------------------------------------------
(* WLED.                                                                   *)

WledChips == {"esp8266", "esp8285", "esp32", "esp32s2", "esp32s3", "esp32c3"}
MaxButtons(chip) == IF IsEsp82(chip) THEN 2 ELSE 10
MaxOutputs == [esp8266 |-> 3, esp8285 |-> 3, esp32 |-> 8, esp32s2 |-> 4, esp32s3 |-> 4,
               esp32c3 |-> 2]

\* A part's line on a bus as the bus names the pin: its TX is on the other's RX.
PartLine == [i2c_sda |-> "sda", i2c_scl |-> "scl", spi_clk |-> "clk", spi_mosi |-> "mosi",
            spi_miso |-> "miso", uart_tx |-> "rx", uart_rx |-> "tx"]

\* _gpio: the pin a role lands on, by its first connection to a pin or a bus.
RolePin(d, c, role) ==
    LET those == {i \in DOMAIN d.conns : /\ d.conns[i].comp = c.id /\ d.conns[i].role = role
                                         /\ d.conns[i].target.kind \in {"gpio", "bus"}}
        target == d.conns[Least(those)].target
        kind == IF role \in Roles(Parts[c.lib]) THEN LibPin(Parts[c.lib], role).kind ELSE ""
        slot(bus) == IF bus.type = "1wire" THEN "pin"
                     ELSE IF kind \in DOMAIN PartLine THEN PartLine[kind] ELSE ""
        On(bus) == IF slot(bus) \in DOMAIN bus.pins THEN bus.pins[slot(bus)] ELSE None
    IN IF those = {} THEN None
       ELSE IF target.kind = "gpio" THEN target.to
       ELSE IF target.to \in Ids(d.buses) THEN On(Named(d.buses, target.to)) ELSE None
IsWired(d, c, roles) ==
    \A role \in roles : RolePin(d, c, role) # None /\ PinNumber(RolePin(d, c, role)) # None

\* cfg.json in the making: the parts its outputs, buttons, receiver and relay are,
\* and the one each usermod has its settings from; said, what is left out or
\* wants a hand.  What chipset and colour order do to an entry is left out.
NewCfg == [led |-> <<>>, btn |-> <<>>, ir |-> None, relay |-> None, um |-> <<>>, said |-> {}]
PlaceInCfg(d, cfg, c) ==
    LET block == BlocksOf(c).wled
        chip == ChipOf(d)
        told == [cfg EXCEPT !.said = @ \cup {c.id}]
    IN IF block = None THEN told
       ELSE IF ~IsWired(d, c, ToSet(block.pins)) THEN told
       ELSE CASE block.kind = "led" ->
                   IF Len(cfg.led) >= MaxOutputs[chip] THEN told
                   ELSE [cfg EXCEPT !.led = Append(@, c.id)]
              [] block.kind = "button" ->
                   IF Len(cfg.btn) >= MaxButtons(chip) THEN told
                   ELSE [cfg EXCEPT !.btn = Append(@, c.id)]
              [] block.kind = "ir" ->
                   IF cfg.ir # None THEN told ELSE [told EXCEPT !.ir = c.id]
              [] block.kind = "relay" ->
                   IF cfg.relay # None THEN told ELSE [cfg EXCEPT !.relay = c.id]
              [] block.kind = "usermod" /\ block.um # None ->
                   IF block.um \in DOMAIN cfg.um THEN told
                   ELSE [cfg EXCEPT !.um = Put(@, block.um, c.id)]
              [] OTHER -> cfg
CfgRuns(d) ==
    LET runs[n \in 0..Len(d.comps)] ==
          IF n = 0 THEN NewCfg ELSE PlaceInCfg(d, runs[n - 1], d.comps[n])
    IN runs
Cfg(d) == CfgRuns(d)[Len(d.comps)]

\* build_platformio_override: a usermod is compiled in once, with the pins of the
\* first part of it.
CompileIn(d, build, c) ==
    LET block == BlocksOf(c).wled
        told == [build EXCEPT !.said = @ \cup {c.id}]
        flagged(b) == [b EXCEPT !.flags = Put(@, block.define, c.id)]
    IN IF block = None \/ block.kind # "usermod" THEN build
       ELSE IF block.define \in DOMAIN build.flags THEN told
       ELSE IF IsWired(d, c, block.defines) THEN flagged(build) ELSE flagged(told)
OverrideRuns(d) ==
    LET runs[n \in 0..Len(d.comps)] ==
          IF n = 0 THEN [flags |-> <<>>, said |-> {}]
          ELSE CompileIn(d, runs[n - 1], d.comps[n])
    IN runs
Override(d) == OverrideRuns(d)[Len(d.comps)]

\* WledTarget: validate says what both say, and without flags the release image
\* serves as it is and a build is refused.
HasImage(d) == ChipOf(d) \in WledChips
WledWarnings(d) == IF HasImage(d) THEN Cfg(d).said \cup Override(d).said ELSE {}
WledBuilds(d) == HasImage(d) /\ DOMAIN Override(d).flags # {}

-----------------------------------------------------------------------------
(* The two Python programs.  lang names the block a part is written from.  *)

\* _pin_num: only a GPIO's name gives a number.
IsGpio(pin) == pin # None /\ Stem(pin) = "GPIO"
OnGpio(bus, slot) == slot \in DOMAIN bus.pins /\ IsGpio(bus.pins[slot])

\* The buses there is an object for; an I2S bus has none, each part on it opens
\* the peripheral on the bus's clocks.
HasObject(bus) ==
    CASE bus.type = "i2c" -> OnGpio(bus, "sda") /\ OnGpio(bus, "scl")
      [] bus.type = "spi" -> OnGpio(bus, "clk")
      [] bus.type = "uart" -> OnGpio(bus, "tx") \/ OnGpio(bus, "rx")
      [] bus.type = "1wire" -> OnGpio(bus, "pin")
      [] OTHER -> FALSE
Objects(d) == {d.buses[b].id : b \in {e \in DOMAIN d.buses : HasObject(d.buses[e])}}
I2sClocks == [LRCLK |-> "lrclk", WS |-> "lrclk", BCLK |-> "bclk"]
OnI2s(d, target) ==
    target.to \in Ids(d.buses) /\ Named(d.buses, target.to).type = "i2s"

\* The connections a component has to buses with an object of their own, and to
\* a hub; the last of several is the one that counts.
BusConns(d, c) == {i \in DOMAIN d.conns : /\ d.conns[i].comp = c.id
                                          /\ d.conns[i].target.kind = "bus"
                                          /\ ~OnI2s(d, d.conns[i].target)}
HubConns(d, c) == {i \in DOMAIN d.conns : /\ d.conns[i].comp = c.id
                                          /\ d.conns[i].target.kind = "component"}
Final(at) == CHOOSE i \in at : \A j \in at : j <= i
BusOf(d, c) == IF BusConns(d, c) = {} THEN None ELSE d.conns[Final(BusConns(d, c))].target.to
HubOf(d, c) == IF HubConns(d, c) = {} THEN None ELSE d.conns[Final(HubConns(d, c))].target.to

\* What keeps a part out of the program: a pin that is no GPIO, a bus line an I2S
\* bus does not give, a pin of an expander.
Unusable(d, conn) ==
    \/ conn.target.kind = "gpio" /\ conn.target.to # None /\ ~IsGpio(conn.target.to)
    \/ /\ conn.target.kind = "bus" /\ OnI2s(d, conn.target)
       /\ \/ conn.role \notin DOMAIN I2sClocks
          \/ ~OnGpio(Named(d.buses, conn.target.to), I2sClocks[conn.role])
    \/ conn.target.kind = "expander_pin"

\* The roles a fragment finds a number for.
NumberedRoles(d, c) ==
    {d.conns[i].role : i \in {j \in DOMAIN d.conns :
        /\ d.conns[j].comp = c.id
        /\ \/ d.conns[j].target.kind = "gpio" /\ IsGpio(d.conns[j].target.to)
           \/ d.conns[j].target.kind = "bus" /\ OnI2s(d, d.conns[j].target)}}
FragmentRenders(d, c, block) ==
    /\ block.declines \cap c.params = {}
    /\ "bus" \in block.reads =>
          \E i \in BusConns(d, c) : d.conns[i].target.to \in Ids(d.buses)
    /\ block.reads \ {"bus"} \subseteq NumberedRoles(d, c)

\* A hub's helpers are there before a part on it calls them.
HubStands(d, c, done) ==
    LET hung == \E k \in DOMAIN Parts[c.lib].pins : Parts[c.lib].pins[k].kind = "hub_ref"
    IN IF HubOf(d, c) = None THEN ~hung ELSE HubOf(d, c) \in done

\* generate_code: what is done, and what is said to be skipped.
Enters(d, lang, c, done) ==
    LET block == BlocksOf(c)[lang] IN
    /\ block # None
    /\ \A i \in DOMAIN d.conns : d.conns[i].comp = c.id => ~Unusable(d, d.conns[i])
    /\ HubStands(d, c, done)
    /\ FragmentRenders(d, c, block)
WriteIn(d, lang, code, c) ==
    IF Enters(d, lang, c, ToSet(code.done)) THEN [code EXCEPT !.done = Append(@, c.id)]
    ELSE [code EXCEPT !.said = @ \cup {c.id}]

\* The parts that hang on others come last.
Hung(d) == {d.conns[i].comp : i \in {j \in DOMAIN d.conns : d.conns[j].target.kind = "component"}}
InOrder(d) == Picked(d.comps, {c \in DOMAIN d.comps : d.comps[c].id \notin Hung(d)})
              \o Picked(d.comps, {c \in DOMAIN d.comps : d.comps[c].id \in Hung(d)})
CodeRuns(d, lang) ==
    LET order == InOrder(d)
        runs[n \in 0..Len(order)] ==
          IF n = 0 THEN [done |-> <<>>, said |-> {}]
          ELSE WriteIn(d, lang, runs[n - 1], order[n])
    IN runs
Code(d, lang) == CodeRuns(d, lang)[Len(InOrder(d))]

\* The bus objects the program makes: those a part in it is on.
UsedBuses(d, code) ==
    UNION {{d.conns[i].target.to : i \in BusConns(d, d.comps[c])} :
           c \in {e \in DOMAIN d.comps : d.comps[e].id \in ToSet(code.done)}}
Made(d, code) == Objects(d) \cap UsedBuses(d, code)

MicroCode(d) == Code(d, "micropython")
MicroBuses(d, code) == Made(d, code)
\* The twin says and skips the same, part by part and bus by bus.
CircuitCode(d) == Code(d, "circuitpython")
CircuitBuses(d, code) == Made(d, code)
=============================================================================
