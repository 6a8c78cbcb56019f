--------------------------- MODULE MCProvisioning ---------------------------
(* One bench, two uses of it: provisioning calls and the nightly gate.  They *)
(* are models of their own; a behaviour is of the one or of the other.       *)
(* Provisioning: boards of one kind, which carries a GPS; designs with a     *)
(* sensor that has no tag, with one that has, and with two GPS, whose fields *)
(* collide.  Gate: rosters of one or two entries, good and bad.              *)
EXTENDS Provisioning, BenchGate

MCParts ==
    [uart_gps |-> [fields |-> <<Field("lat", FALSE, 2, TRUE)>>, serial |-> TRUE, early |-> FALSE, late |-> FALSE],
     dht      |-> [fields |-> <<Field("t", TRUE, 1, TRUE)>>, serial |-> FALSE, early |-> FALSE, late |-> FALSE],
     bme280   |-> [fields |-> <<Field("t", TRUE, 2, TRUE), Field("p", TRUE, 3, FALSE)>>,
                   serial |-> FALSE, early |-> FALSE, late |-> FALSE]]
MCLoraBoards == [tbeam |-> [radio |-> TRUE, onboard |-> {"uart_gps"}, uarts |-> 2]]

MCPart(id, lib) == [id |-> id, lib |-> lib, bus |-> id]
MCDesigns ==
    [bme  |-> [board |-> "tbeam", parts |-> <<MCPart("bme_1", "bme280")>>],
     dht  |-> [board |-> "tbeam", parts |-> <<MCPart("dht_1", "dht")>>],
     gps  |-> [board |-> "tbeam", parts |-> <<MCPart("gps_1", "uart_gps"), MCPart("gps_2", "uart_gps")>>]]
MCDesignsOfOneName ==
    [bare |-> [board |-> "tbeam", parts |-> <<>>]] @@ MCDesigns

MCLibBoards ==
    [tbeam  |-> [radio |-> TRUE, gpios |-> {"GPIO4"}, free |-> TRUE],
     devkit |-> [radio |-> FALSE, gpios |-> {"GPIO0"}, free |-> FALSE]]
MCEntry(slotOf, board_, flash, functional) ==
    [name |-> slotOf, onBench |-> TRUE, slot |-> slotOf, board |-> board_, eui |-> FALSE,
     flashes |-> flash # <<>>, flash |-> flash, functional |-> functional, pin |-> "none", host |-> FALSE]
MCRosters ==
    {<<[MCEntry("s1", "none", <<>>, FALSE) EXCEPT !.eui = TRUE], MCEntry("s2", "tbeam", <<"esphome">>, TRUE)>>,
     <<MCEntry("s2", "devkit", <<"esphome", "micropython">>, TRUE)>>,
     <<[MCEntry("none", "none", <<>>, FALSE) EXCEPT !.name = "garden", !.onBench = FALSE, !.eui = TRUE],
       MCEntry("s1", "tbeam", <<"lorawan", "circuitpython">>, FALSE)>>,
     <<MCEntry("s1", "devkit", <<"lorawan">>, FALSE)>>}

MCPlugged == [s \in {"s1", "s2"} |-> IF s = "s1" THEN "u1" ELSE "u2"]

\* With the gate on, the calls' own bench is of no interest: one is enough.
BenchInit ==
    /\ ProvisionInit /\ GateInit
    /\ gate.pc # "off" => slot[CHOOSE s \in Slots : TRUE].board # None
BenchNext ==
    \/ gate.pc = "off" /\ ProvisionNext /\ UNCHANGED gateVars
    \/ GateNext /\ UNCHANGED provisionVars
BenchSpec == BenchInit /\ [][BenchNext]_<<provisionVars, gateVars>> /\ ProvisionFairness /\ GateFairness

\* Every call of the bench's clients ends, and so does the gate.
BenchAnswers == CallEnds /\ GateEnds
=============================================================================
