-------------------------- MODULE MCDesignSession --------------------------
(* Two boards and five parts to pick from: a part of each kind of pin the    *)
(* tools treat apart, and loaded documents with the ids and automations      *)
(* repairs meet; three boards for the library's gate, and the parts that are *)
(* seeded and migrated to.                                                   *)
EXTENDS DesignSession

G(n) == <<"GPIO", n>>
MCPins == {G(n) : n \in 1..5}

Rails == <<[name |-> "GND", volts |-> 0], [name |-> "5V", volts |-> 5], [name |-> "3V3", volts |-> 3]>>
TheBoards ==
    [devkit |-> [caps |-> [p \in {G(1), G(2), G(3)} |-> {"gpio"}], classic |-> TRUE,
                 defaults |-> [i2c |-> [sda |-> G(1), scl |-> G(4)]], rails |-> Rails,
                 revisions |-> {"v2"}, flash |-> 4],
     bare |-> [caps |-> [p \in {G(2), G(5)} |-> {"gpio"}], classic |-> FALSE,
               defaults |-> [uart |-> [rx |-> G(5)]], rails |-> <<>>, revisions |-> {},
               flash |-> None],
     draft |-> [caps |-> [p \in MCPins |-> {"gpio"}], classic |-> FALSE,
                defaults |-> [i2c |-> [sda |-> G(1), scl |-> G(4)], spi |-> [clk |-> G(2), mosi |-> G(3)]],
                rails |-> Rails, revisions |-> {"v1"}, flash |-> 2],
     sketch |-> [caps |-> [p \in MCPins |-> {"gpio"}], classic |-> FALSE,
                 defaults |-> [i2c |-> [sda |-> G(1)]], rails |-> Rails, revisions |-> {}, flash |-> 2],
     mast |-> [caps |-> [p \in {G(1), G(2)} |-> {"gpio"}], classic |-> FALSE, defaults |-> <<>>,
               rails |-> Rails, revisions |-> {"v1"}, flash |-> 2]]

\* A peripheral of each sort: on pins, on a bus of its own, on the board's, with
\* pins or a bus missing, of a part the library lacks, and of no handler.
On(key, pins) == [key |-> key, pins |-> pins]
TheOnboard ==
    [devkit |-> <<On("gps_", [tx |-> G(2), rx |-> G(3)]), On("oled_ssd1306", [reset |-> G(1)]),
                  On("lora_sx1262", [cs |-> G(2)])>>,
     bare |-> <<On("oled_ssd1306", <<>>), On("imu_mpu6886", [sda |-> G(2), scl |-> G(5)]), On("button", <<>>)>>,
     draft |-> <<On("lora_sx1276", [cs |-> G(5)]), On("imu_mpu6886", [sda |-> G(2)]), On("pdm_mic", [din |-> G(3)]),
                 On("button", [pin |-> G(3)])>>]
\* A radio on the devkit, on the draft, and one with a revision the mast has no pin for.
Radio(pins, high) == [pins |-> pins, high |-> high, low |-> {}, txen |-> None, rxen |-> None]
TheRadios ==
    [devkit |-> [base |-> Radio([cs |-> G(2), rst |-> G(3)], {}), of |-> [v2 |-> [txen |-> G(1)]]],
     draft |-> [base |-> Radio([cs |-> G(5), rst |-> G(4)], {G(1)}),
                of |-> [v1 |-> [high |-> {}, txen |-> G(1)]]],
     mast |-> [base |-> Radio([cs |-> G(1), rst |-> G(2)], {}), of |-> [v1 |-> [rxen |-> G(3)]]]]
MCStocked == {"devkit", "bare"}

Pin(role, kind, parent) ==
    [role |-> role, kind |-> kind, needs |-> {}, driven |-> FALSE, parent |-> parent]
Part(pins, size, reads, loads, cap) ==
    [pins |-> pins, expander |-> size, supply |-> {3}, template |-> TRUE, emits |-> TRUE,
     reads |-> reads, loads |-> loads, cap |-> cap, dialect |-> None, subparts |-> {}]
Cap(provides, accepts, values) ==
    [provides |-> provides, accepts |-> accepts, checks |-> {"is_on"}, values |-> values]

TheParts ==
    [bh |-> Part(<<Pin("VCC", "power", None), Pin("SDA", "i2c_sda", None)>>, 0, {"bus"},
                 {<<"bh", 0>>}, Cap({"on_value"}, {}, {None})),
     led |-> [Part(<<Pin("OUT", "digital_out", None)>>, 0, {"OUT"}, {<<"led", 0>>},
                   Cap({}, {"turn_on"}, {})) EXCEPT !.subparts = {"r1"}],
     mux |-> Part(<<Pin("SCL", "i2c_scl", None)>>, 1, {"bus"}, {<<"mux", 0>>}, None),
     chan |-> Part(<<Pin("HUB", "hub_ref", "mux")>>, 0, {"parent"}, {}, None),
     gps |-> Part(<<Pin("RX", "uart_rx", None)>>, 0, {"bus"}, {<<"gps", 0>>}, None),
     uart_gps |-> Part(<<Pin("VCC", "power", None), Pin("TX", "uart_tx", None), Pin("RX", "uart_rx", None)>>,
                       0, {"bus"}, {<<"gps", 0>>}, None),
     ssd1306 |-> Part(<<Pin("SDA", "i2c_sda", None), Pin("SCL", "i2c_scl", None), Pin("RESET", "digital_out", None)>>,
                      0, {"bus"}, {}, None),
     mpu6886 |-> Part(<<Pin("SDA", "i2c_sda", None), Pin("SCL", "i2c_scl", None)>>, 0, {"bus"}, {}, None),
     dht |-> Part(<<Pin("DATA", "digital_in", None)>>, 0, {"DATA"}, {}, None),
     gpio_input |-> Part(<<Pin("IN", "digital_in", None)>>, 0, {"IN"}, {}, None),
     cam |-> Part(<<Pin("SDA", "i2c_sda", None)>>, 0, {"SDA"}, {}, None)]
MCOffered == {"bh", "led", "mux", "chan", "gps"}

MCIntegrations == {<<n, 0>> : n \in {"bh", "led", "mux", "gps", "i2c", "uart"}}
MCHints == {<<"bh", 0>>, <<"i2c", 0>>}
Follows == [kind |-> "net", to |-> <<"lamp", 0>>, number |-> 1]
MCAims == {Target("gpio", G(2)), Target("gpio", None), Target("bus", <<"i2c", 1>>),
           Target("expander_pin", None), Follows}
MCGivenPins == {<<>>, [sda |-> G(5), scl |-> G(4)]}
MCModules == {<<[lib |-> "led", hint |-> <<"led", 0>>], [lib |-> "chan", hint |-> None]>>}
MCStrays == {[comp |-> <<"led", 1>>, role |-> "OUT", target |-> Target("gpio", G(2))]}

Symbol(names) == [k \in DOMAIN names |-> [name |-> names[k], number |-> Digits[k]]]
TheSymbols ==
    ("esp" :> Symbol(<<"IO1", "GND", "GND", "3V3", "IO2">>)) @@ ("light" :> Symbol(<<"VDD", "SDA", "TAP">>))
    @@ ("mux" :> Symbol(<<"SCL", "P0", "P1">>)) @@ ("R" :> Symbol(<<"~", "~">>))
    @@ ("D" :> Symbol(<<"K", "A">>)) @@ (Header :> Symbol(<<"Pin_1", "Pin_2", "Pin_3", "Pin_4">>))
Kicad(symbol, map, banks) == [symbol |-> symbol, map |-> map, banks |-> banks, footprint |-> TRUE]
Card(prefix, kicad) == [prefix |-> prefix, kicad |-> kicad, parts |-> <<>>]
TheCards ==
    [bh |-> Card("U", Kicad("light", [VCC |-> "VDD"], <<>>)),
     led |-> [prefix |-> "D", kicad |-> None, parts |->
                <<[id |-> "r1", prefix |-> "R", symbol |-> "R", value |-> "220R",
                   pins |-> ("1" :> "OUT" @@ "2" :> "mid")],
                  [id |-> "d1", prefix |-> "D", symbol |-> "D", value |-> "red",
                   pins |-> [A |-> "mid", K |-> "GND"]]>>],
     mux |-> Card("U", Kicad("mux", <<>>, <<"P0", "P1">>)),
     chan |-> Card("J", Kicad(Header, <<>>, <<>>)),
     gps |-> Card("U", None)]
TheBoardCards ==
    [devkit |-> [symbol |-> "esp", map |-> (G(1) :> "IO1" @@ G(2) :> "IO2" @@ <<"GND", 0>> :> "GND"
                                            @@ <<"3V3", 0>> :> "3V3")],
     bare |-> None, draft |-> None]
MCNetNames == <<"OUT", "mid">>

TheChips == [devkit |-> "esp32", bare |-> "esp8266", draft |-> "esp32c3",
            sketch |-> "rp2040", mast |-> "esp32s3"]
Usermod(pins, um, define, defines) ==
    [kind |-> "usermod", pins |-> pins, um |-> um, define |-> define, defines |-> defines]
Tasmota(pins, bus, variants) == [pins |-> pins, bus |-> bus, variants |-> variants]
Fragments(reads, declines) == [reads |-> reads, declines |-> declines]
TheBlocks ==
    [bh |-> [i2c |-> TRUE, tasmota |-> None, wled |-> Usermod(<<>>, "BH1750", "USERMOD_BH1750", {}),
             micropython |-> Fragments({"bus"}, {}), circuitpython |-> Fragments({"bus"}, {})],
     led |-> [i2c |-> FALSE, tasmota |-> Tasmota([OUT |-> "Counter"], <<>>, [lambda |-> [Counter |-> "PWM"]]),
              wled |-> [kind |-> "relay", pins |-> <<"OUT">>], micropython |-> Fragments({"OUT"}, {}),
              circuitpython |-> Fragments({"OUT"}, {"lambda"})],
     mux |-> [i2c |-> TRUE, tasmota |-> None, wled |-> None, micropython |-> Fragments({"bus"}, {}),
              circuitpython |-> None],
     chan |-> [i2c |-> FALSE, tasmota |-> Tasmota(<<>>, <<<<"scl", "SDM120_RX">>>>, <<>>),
               wled |-> None, micropython |-> Fragments({}, {}), circuitpython |-> Fragments({}, {})],
     gps |-> [i2c |-> FALSE, tasmota |-> Tasmota(<<>>, <<<<"rx", "GPS_RX">>, <<"tx", "GPS_TX">>>>, <<>>),
              wled |-> Usermod(<<"RX">>, None, "USERMOD_GPS", {"RX"}),
              micropython |-> None, circuitpython |-> Fragments({"bus"}, {})]]

Comp(id, lib, locks, show) == [id |-> id, lib |-> lib, locks |-> locks, params |-> {}, show |-> show]
Conn(comp, role, target) == [comp |-> comp, role |-> role, target |-> target]
Doc(comps, buses, conns, automations, overrides) ==
    [board |-> "devkit", flash |-> 4, revision |-> None, comps |-> comps, buses |-> buses,
     conns |-> conns, warnings |-> {}, strict |-> FALSE, overrides |-> overrides,
     automations |-> automations]

Auto(id, comp, event, bounds, cond, act, song) ==
    [id |-> id, trigger |-> [comp |-> comp, event |-> event, bounds |-> bounds],
     conditions |-> IF cond = None THEN <<>> ELSE <<[comp |-> cond, predicate |-> "is_on"]>>,
     actions |-> <<[comp |-> act, action |-> "turn_on", song |-> song]>>]

\* A new document; one with a lock that is not applied yet; one with ids ESPHome
\* refuses, which components, buses and automations share; one with a part
\* before its hub; and one with a subcircuit that follows another's pin.
TheDocuments ==
    {Doc(<<>>, <<>>, <<>>, {}, <<>>),
     Doc(<<Comp(<<"lamp", 0>>, "led", [OUT |-> G(2)], <<>>)>>, <<>>,
         <<Conn(<<"lamp", 0>>, "OUT", Target("gpio", None))>>, {}, <<>>),
     Doc(<<Comp(<<"bh", 0>>, "bh", <<>>,
                <<[kind |-> "value", source |-> <<"bh", 0>>, channel |-> None]>>),
           Comp(<<"i2c", 0>>, "led", <<>>, <<>>)>>,
         <<[id |-> <<"i2c", 0>>, type |-> "i2c", pins |-> [sda |-> G(1), scl |-> G(4)]],
           [id |-> <<"uart#", 0>>, type |-> "uart", pins |-> [rx |-> G(5)]]>>,
         <<Conn(<<"bh", 0>>, "SDA", Target("bus", <<"i2c", 0>>)),
           Conn(<<"i2c", 0>>, "OUT", Target("gpio", G(3))),
           Conn(<<"bh", 0>>, "TAP", [kind |-> "net", to |-> <<"i2c", 0>>, number |-> 2])>>,
         {Auto("dim", <<"bh", 0>>, "on_value", FALSE, <<"bh", 0>>, <<"i2c", 0>>, None),
          Auto("loud", <<"bh", 0>>, "on_value", TRUE, None, <<"i2c", 0>>, "unknown"),
          Auto("lost", <<"gone", 0>>, "on_value", FALSE, None, <<"bh", 0>>, None)},
         (<<<<"i2c", 0>>, "r1">> :> "mpn")),
     Doc(<<Comp(<<"chan", 1>>, "chan", <<>>, <<>>), Comp(<<"mux", 1>>, "mux", <<>>, <<>>)>>,
         <<[id |-> <<"i2c#", 0>>, type |-> "i2c", pins |-> [sda |-> G(1), scl |-> G(4)]]>>,
         <<Conn(<<"chan", 1>>, "HUB", Target("component", <<"mux", 1>>)),
           Conn(<<"mux", 1>>, "SCL", Target("bus", <<"i2c#", 0>>))>>, {}, <<>>),
     Doc(<<Comp(<<"lamp", 0>>, "led", <<>>, <<>>), Comp(<<"tail", 0>>, "led", <<>>, <<>>)>>, <<>>,
         <<Conn(<<"lamp", 0>>, "OUT", Target("gpio", G(2))), Conn(<<"tail", 0>>, "OUT", Follows)>>, {}, <<>>)}

\* Documents of the first versions: with blocks and nothing else; with the ids and
\* the parts of the blocks taken; on a board that has none of what they need; and
\* with more pins for a role than Tasmota has counters.
Legacy(version, doc, lorawan) == [version |-> version, design |-> doc, lorawan |-> lorawan]
TheLegacies ==
    {Legacy("0.1", [agent |-> "s1"] @@ Doc(<<>>, <<>>, <<>>, {}, <<>>),
            [gps |-> [rx_pin |-> G(2), tx_pin |-> G(3)], oled |-> [enabled |-> TRUE], dht22 |-> None,
             dev_eui |-> "eui"]),
     Legacy("0.2", Doc(<<Comp(<<"gps", 0>>, "led", <<>>, <<>>), Comp(<<"oled", 0>>, "ssd1306", <<>>, <<>>)>>,
                       <<[id |-> <<"gps_uart", 0>>, type |-> "i2c", pins |-> [sda |-> G(1), scl |-> G(4)]]>>,
                       <<>>, {}, <<>>),
            [gps |-> [rx_pin |-> G(2), tx_pin |-> G(3)], oled |-> [enabled |-> TRUE], dht22 |-> [pin |-> G(5)]]),
     Legacy("0.3", [Doc(<<Comp(<<"dht#", 1>>, "led", <<>>, <<>>)>>, <<>>, <<>>, {}, <<>>) EXCEPT !.board = "bare"],
            [oled |-> [enabled |-> TRUE], dht22 |-> [pin |-> G(5)]]),
     Legacy("0.3", Doc(<<Comp(<<"lamp", 0>>, "led", <<>>, <<>>)>>, <<>>,
                       [n \in 1..5 |-> Conn(<<"lamp", 0>>, "OUT", Target("gpio", G(n)))], {}, <<>>), <<>>)}

\* TLC evaluates a definition once, but what a .cfg puts in the place of a constant
\* at every use: the tables have a name of their own.
MCBoards == TheBoards
MCOnboard == TheOnboard
MCRadios == TheRadios
MCParts == TheParts
MCSymbols == TheSymbols
MCCards == TheCards
MCBoardCards == TheBoardCards
MCChips == TheChips
MCBlocks == TheBlocks
MCDocuments == TheDocuments
MCLegacies == TheLegacies
=============================================================================
