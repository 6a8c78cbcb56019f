------------------------------ MODULE BenchGate ------------------------------
(***************************************************************************)
(* The nightly hardware gate: workbench/gate.py, with the boot markers of  *)
(* workbench/boot.py, the images of workbench/images.py, the round trip of *)
(* workbench/functional.py and the LoRaWAN run of workbench/lorawan_gate   *)
(* (whose steps Provisioning has, as calls of the kind "gate").  The bench *)
(* goes on living while the gate works through its roster: boards are      *)
(* moved, links flap, others flash.  Bench, boards and servers are         *)
(* external: here as the code uses them.                                   *)
(***************************************************************************)
EXTENDS Naturals, Sequences, FiniteSets

CONSTANTS
    Rosters,      \* files the gate may be given: sequences of entries
    LibBoards,    \* the library's boards: id -> [radio, gpios, free]
    Places,       \* the bench's slots
    Units,        \* boards somebody owns
    Plugged,      \* which unit is in which slot at first
    MaxUpsets,    \* bound: what happens to the bench while the gate runs
    MaxMisses     \* bound: requests, downloads, writes and joins that fail

Nobody == "nobody"

\* An entry of a roster; "flashes" says that it has a key "flash".
Entries ==
    [name : STRING, onBench : BOOLEAN, slot : STRING, board : STRING, eui : BOOLEAN,
     flashes : BOOLEAN, flash : Seq(STRING), functional : BOOLEAN, pin : STRING, host : BOOLEAN]

ASSUME GateBounds == MaxUpsets \in Nat /\ MaxMisses \in Nat
ASSUME RosterAssumption ==
    \A r \in Rosters :
        r \in Seq(Entries) /\ \A i \in DOMAIN r : r[i].flash # <<>> => r[i].flashes
\* A board is in one slot, and a slot is one board's.
ASSUME BenchAssumption ==
    /\ Nobody \notin Units
    /\ Plugged \in [Places -> Units \union {Nobody}]
    /\ \A s, t \in Places : Plugged[s] = Plugged[t] /\ Plugged[s] # Nobody => s = t

FRAMEWORKS == {"esphome", "circuitpython", "micropython", "meshtastic", "lorawan"}

VARIABLES
    gate,      \* the gate's process
    rows,      \* its report: [stage, at, fw, ok]
    seat,      \* the bench's slots: [unit, busy, flaps]
    fw,        \* what each unit runs: [image, task, up, ran], the task that wrote
               \* it, whether it is up and whether it ever came up since
    heard,     \* what the recorder has of each slot: markers, and whether
               \* they came since the gate last found the slot idle
    upsets, misses

gateVars == <<gate, rows, seat, fw, heard, upsets, misses>>

\* A task is one framework on one entry's board, by their places in the roster.
NoTask == [entry |-> 0, nth |-> 0]
AtRest == [pc |-> "load", roster |-> <<>>, listing |-> {}, at |-> 1, task |-> NoTask, left |-> {},
           chirp |-> FALSE, pin |-> FALSE, unit |-> Nobody, touched |-> {}]

GateInit ==
    /\ gate \in {AtRest, [AtRest EXCEPT !.pc = "off"]}
    /\ rows = {}
    /\ seat = [s \in Places |-> [unit |-> Plugged[s], busy |-> FALSE, flaps |-> FALSE]]
    /\ fw \in [Units -> [image : {"esphome"}, task : {NoTask}, up : {TRUE}, ran : {TRUE}]]
    /\ heard = [s \in Places |-> {[says |-> "esphome", new |-> FALSE]}]
    /\ upsets = 0 /\ misses = 0

-----------------------------------------------------------------------------
(* The roster.                                                             *)

Flashed(e) == {e.flash[i] : i \in DOMAIN e.flash}

BadFlash(e) ==
    \/ e.flash = <<>> \/ ~(Flashed(e) \subseteq FRAMEWORKS)
    \/ ~e.onBench \/ e.board \notin DOMAIN LibBoards
    \/ "lorawan" \in Flashed(e) /\ ~LibBoards[e.board].radio
    \/ e.functional /\ "esphome" \notin Flashed(e)
    \/ e.pin # "none" /\ e.pin \notin LibBoards[e.board].gpios

BadEntry(e) ==
    \/ e.onBench /\ e.slot = "none"
    \/ ~e.onBench /\ ~e.eui
    \/ e.flashes /\ BadFlash(e)

LoadConfig(r, chirp) ==
    /\ gate.pc = "load"
    /\ gate' = [gate EXCEPT !.roster = r, !.chirp = chirp,
                  !.pc = IF r = <<>> \/ \E i \in DOMAIN r : BadEntry(r[i]) THEN "exit2" ELSE "info"]
    /\ UNCHANGED <<rows, seat, fw, heard, upsets, misses>>

-----------------------------------------------------------------------------
(* The bench, as others see and disturb it.                                *)

CanFlash(s) == seat[s].unit # Nobody /\ ~seat[s].flaps /\ ~seat[s].busy

Running == gate.pc \notin {"off", "load", "exit", "exit2"}

Disturbed(touched) ==
    /\ Running
    /\ upsets < MaxUpsets /\ upsets' = upsets + 1
    /\ gate' = [gate EXCEPT !.touched = @ \union touched]
    /\ UNCHANGED <<rows, misses>>

\* A board is unplugged, or plugged in somewhere else.
Replug(u, s) ==
    LET from == {t \in Places : seat[t].unit = u} IN
    /\ seat[s].unit = Nobody \/ seat[s].unit = u
    /\ Disturbed(from \union {s})
    /\ seat' = [t \in Places |->
                  IF t = s /\ s \notin from THEN [unit |-> u, busy |-> FALSE, flaps |-> FALSE]
                  ELSE IF t \in from THEN [unit |-> Nobody, busy |-> FALSE, flaps |-> FALSE]
                  ELSE seat[t]]
    /\ fw' = [fw EXCEPT ![u].up = FALSE]
    /\ UNCHANGED heard

Flaps(s) ==
    /\ seat[s].unit # Nobody
    /\ Disturbed({s})
    /\ seat' = [seat EXCEPT ![s].flaps = ~@]
    /\ UNCHANGED <<fw, heard>>

\* Another client of the bench flashes the board, with an image of its own.
OthersFlash(s, image) ==
    /\ CanFlash(s)
    /\ Disturbed({s})
    /\ fw' = [fw EXCEPT ![seat[s].unit] = [image |-> image, task |-> NoTask, up |-> FALSE, ran |-> FALSE]]
    /\ seat' = [seat EXCEPT ![s].busy = TRUE]
    /\ UNCHANGED heard

\* A board that was reset comes up and prints its marker, once.  While the
\* slot is busy nothing records it: the boot after a flash is lost.
BootsUp(s) ==
    LET u == seat[s].unit IN
    /\ Running /\ u # Nobody /\ ~fw[u].up /\ fw[u].image # "torn"
    /\ fw' = [fw EXCEPT ![u].up = TRUE, ![u].ran = TRUE]
    /\ heard' = IF seat[s].busy THEN heard
                ELSE [heard EXCEPT ![s] = @ \union {[says |-> fw[u].image, new |-> TRUE]}]
    /\ UNCHANGED <<gate, rows, seat, upsets, misses>>

\* After a flash the slot is busy until the bench records again.
Settles(s) ==
    /\ Running /\ seat[s].busy /\ fw[seat[s].unit].image # "torn"
    /\ seat' = [seat EXCEPT ![s].busy = FALSE]
    /\ UNCHANGED <<gate, rows, fw, heard, upsets, misses>>

-----------------------------------------------------------------------------
(* The stages that only look.                                              *)

Misses(ok) == /\ ok \/ misses < MaxMisses
              /\ misses' = IF ok THEN misses ELSE misses + 1
Row(stage, at, framework, ok) == [stage |-> stage, at |-> at, fw |-> framework, ok |-> ok]
Adds(new) == rows' = rows \union new
Goes(pc) == gate' = [gate EXCEPT !.pc = pc, !.at = 1]
Exits == Goes("exit")

Info(ok) ==
    /\ gate.pc = "info" /\ Misses(ok)
    /\ Adds({Row("bench", "portal", "none", ok)})
    /\ IF ok THEN Goes("slots") ELSE Exits
    /\ UNCHANGED <<seat, fw, heard, upsets>>

OnBench(r) == {i \in DOMAIN r : r[i].onBench}

\* The slots stage, from one listing: every entry's slot must be flashable,
\* and a board in a slot no entry claims is one that should not be there.
SlotRows(r) ==
    {Row("slots", r[i].slot, "none", r[i].slot \in Places /\ CanFlash(r[i].slot)) : i \in OnBench(r)}
    \union
    {Row("slots", s, "none", FALSE) :
        s \in {s \in Places : seat[s].unit # Nobody /\ \A i \in OnBench(r) : r[i].slot # s}}

\* What the later stages go by: where a board was, and where it was ready.
Listing == {[at |-> s, ready |-> CanFlash(s)] : s \in {s \in Places : seat[s].unit # Nobody}}
Present(s) == \E l \in gate.listing : l.at = s
ReadyThen(s) == [at |-> s, ready |-> TRUE] \in gate.listing

\* What the flash stage will do: the boards in working order at the listing.
Flashers(r, listing) ==
    {i \in OnBench(r) : r[i].flashes /\ [at |-> r[i].slot, ready |-> TRUE] \in listing}
TasksOf(r, listing) ==
    UNION {{[entry |-> i, nth |-> k] : k \in DOMAIN r[i].flash} : i \in Flashers(r, listing)}

ListSlots(ok) ==
    /\ gate.pc = "slots" /\ Misses(ok)
    /\ IF ok
       THEN /\ Adds(SlotRows(gate.roster))
            /\ gate' = [gate EXCEPT !.pc = "serial", !.listing = Listing, !.touched = {},
                                    !.left = TasksOf(gate.roster, Listing)]
       ELSE Adds({Row("slots", "listing", "none", FALSE)}) /\ Exits
    /\ UNCHANGED <<seat, fw, heard, upsets>>

Entry == gate.roster[gate.at]
LastEntry == gate.at = Len(gate.roster)
NextEntry == gate' = [gate EXCEPT !.at = @ + 1]

\* Whether the recorder has captured anything of late.
Serial(ok) ==
    /\ gate.pc = "serial"
    /\ IF Entry.onBench /\ ~Entry.flashes /\ Present(Entry.slot)
       THEN Misses(ok) /\ Adds({Row("serial", Entry.slot, "none", ok)})
       ELSE ok /\ UNCHANGED <<rows, misses>>
    /\ IF LastEntry THEN Goes("uplinks") ELSE NextEntry
    /\ UNCHANGED <<seat, fw, heard, upsets>>

Subject(e) == IF e.slot # "none" THEN e.slot ELSE e.name

\* for dev in flashers, for framework in dev["flash"]: the first task left.
Precedes(s, t) == s.entry < t.entry \/ (s.entry = t.entry /\ s.nth < t.nth)
Framework(t) == gate.roster[t.entry].flash[t.nth]
NextTask ==
    IF gate.left = {}
    THEN gate' = [gate EXCEPT !.pc = "exit", !.task = NoTask, !.pin = FALSE, !.unit = Nobody]
    ELSE \E t \in gate.left :
            /\ \A s \in gate.left \ {t} : Precedes(t, s)
            /\ gate' = [gate EXCEPT !.pc = IF Framework(t) = "lorawan" THEN "lora" ELSE "image",
                                    !.task = t, !.left = @ \ {t}, !.pin = FALSE, !.unit = Nobody]

\* Whether the server heard each device of late.
Uplinks(ok) ==
    /\ gate.pc = "uplinks"
    /\ IF Entry.eui /\ gate.chirp
       THEN Misses(ok) /\ Adds({Row("uplinks", Subject(Entry), "none", ok)})
       ELSE /\ ok /\ UNCHANGED misses
            /\ Adds(IF Entry.eui THEN {Row("uplinks", "chirpstack", "none", FALSE)} ELSE {})
    /\ IF LastEntry THEN NextTask ELSE NextEntry
    /\ UNCHANGED <<seat, fw, heard, upsets>>

-----------------------------------------------------------------------------
(* One framework on one board.                                             *)

TaskEntry == gate.roster[gate.task.entry]
TaskSlot == TaskEntry.slot
TaskFw == Framework(gate.task)
TaskRow(stage, ok) == Row(stage, TaskSlot, TaskFw, ok)
TaskFails(stage) == Adds({TaskRow(stage, FALSE)}) /\ NextTask

\* The image is compiled, or downloaded; with the gate's switch in it when
\* the entry asks for the functional check and a pin is free.
GetImage(ok) ==
    LET asked == TaskFw = "esphome" /\ TaskEntry.functional
        pin == asked /\ (TaskEntry.pin # "none" \/ LibBoards[TaskEntry.board].free)
        noPin == IF asked /\ ~pin THEN {TaskRow("functional", FALSE)} ELSE {}
    IN
    /\ gate.pc = "image" /\ Misses(ok)
    /\ IF ok THEN Adds(noPin) /\ gate' = [gate EXCEPT !.pc = "write", !.pin = pin]
       ELSE Adds(noPin \union {TaskRow("flash", FALSE)}) /\ NextTask
    /\ UNCHANGED <<seat, fw, heard, upsets>>

\* The client asks the bench once more whether the slot can be flashed.
Write ==
    /\ gate.pc = "write"
    /\ IF CanFlash(TaskSlot)
       THEN LET u == seat[TaskSlot].unit IN
            /\ gate' = [gate EXCEPT !.pc = "writing", !.unit = u]
            /\ seat' = [seat EXCEPT ![TaskSlot].busy = TRUE]
            /\ fw' = [fw EXCEPT ![u] = [image |-> "torn", task |-> gate.task, up |-> FALSE, ran |-> FALSE]]
            /\ UNCHANGED rows
       ELSE TaskFails("flash") /\ UNCHANGED <<seat, fw>>
    /\ UNCHANGED <<heard, upsets, misses>>

\* The bench's one answer: it may be lost although the image was written.
WriteEnds(ok, written) ==
    LET there == seat[TaskSlot].unit = gate.unit /\ seat[TaskSlot].busy IN
    /\ gate.pc = "writing"
    /\ (ok => written) /\ (written => there)
    /\ IF there THEN Misses(ok) ELSE UNCHANGED misses
    /\ fw' = IF written THEN [fw EXCEPT ![gate.unit].image = TaskFw] ELSE fw
    /\ seat' = IF there /\ ~written THEN [seat EXCEPT ![TaskSlot].busy = FALSE] ELSE seat
    /\ IF ok THEN Adds({TaskRow("flash", TRUE)}) /\ gate' = [gate EXCEPT !.pc = "settle"]
       ELSE TaskFails("flash")
    /\ UNCHANGED <<heard, upsets>>

-----------------------------------------------------------------------------
(* Did it boot?  The boot after the flash went by unrecorded, so the gate  *)
(* waits for the slot to be idle and resets the board once more.           *)

SlotIsIdle ==
    /\ gate.pc = "settle" /\ CanFlash(TaskSlot)
    /\ heard' = [heard EXCEPT ![TaskSlot] = {[m EXCEPT !.new = FALSE] : m \in @}]
    /\ gate' = [gate EXCEPT !.pc = "reset"]
    /\ UNCHANGED <<rows, seat, fw, upsets, misses>>

\* The bench resets the board that is in the slot when the request comes.  What
\* was printed since the slot was idle counts as new, the reset or not.
ResetForBoot ==
    /\ gate.pc = "reset" /\ seat[TaskSlot].unit # Nobody
    /\ fw' = [fw EXCEPT ![seat[TaskSlot].unit].up = FALSE]
    /\ gate' = [gate EXCEPT !.pc = "buffer"]
    /\ UNCHANGED <<rows, seat, heard, upsets, misses>>

\* Deadlines; where the board is only slow, one of the misses.
SettleTimesOut ==
    LET slow == seat[TaskSlot].unit # Nobody /\ ~seat[TaskSlot].flaps IN
    /\ gate.pc = "settle" /\ ~CanFlash(TaskSlot)
    /\ IF slow THEN Misses(FALSE) ELSE UNCHANGED misses
    /\ TaskFails("boot")
    /\ UNCHANGED <<seat, fw, heard, upsets>>

Marked_AnyAge == \E m \in heard[TaskSlot] : m.says = TaskFw

Marked == [says |-> TaskFw, new |-> TRUE] \in heard[TaskSlot]

Boots ==
    /\ Adds({TaskRow("boot", TRUE)})
    /\ IF gate.pin THEN gate' = [gate EXCEPT !.pc = "ip"] ELSE NextTask
    /\ UNCHANGED <<seat, fw, heard, upsets, misses>>

\* What was already captured, then what comes, then once more what was
\* captured: the bench's own match may miss a line it did record.
FromBuffer ==
    /\ gate.pc = "buffer"
    /\ IF Marked THEN Boots
       ELSE gate' = [gate EXCEPT !.pc = "monitor"] /\ UNCHANGED <<rows, seat, fw, heard, upsets, misses>>

Monitor == gate.pc = "monitor" /\ Marked /\ Boots

MonitorMisses ==
    LET u == seat[TaskSlot].unit
        coming == ~Marked /\ u # Nobody /\ ~fw[u].up /\ fw[u].image = TaskFw IN
    /\ gate.pc = "monitor"
    /\ IF coming THEN Misses(FALSE) ELSE UNCHANGED misses
    /\ gate' = [gate EXCEPT !.pc = "again"]
    /\ UNCHANGED <<rows, seat, fw, heard, upsets>>

FromBufferAgain ==
    /\ gate.pc = "again"
    /\ IF Marked THEN Boots
       ELSE TaskFails("boot") /\ UNCHANGED <<seat, fw, heard, upsets, misses>>

\* The bench does not answer one of the requests of the check, or refuses to
\* reset a slot that is no longer in order.
BootCheckRaises ==
    /\ gate.pc \in {"settle", "reset", "buffer", "monitor", "again"}
    /\ IF gate.pc = "reset" /\ ~CanFlash(TaskSlot) THEN UNCHANGED misses ELSE Misses(FALSE)
    /\ TaskFails("boot")
    /\ UNCHANGED <<seat, fw, heard, upsets>>

\* The address it logged (or the roster's), and its switch, over its API.
FindHost(ok) ==
    /\ gate.pc = "ip"
    /\ IF TaskEntry.host THEN ok /\ UNCHANGED misses ELSE Misses(ok)
    /\ IF ok THEN gate' = [gate EXCEPT !.pc = "verify"] /\ UNCHANGED rows ELSE TaskFails("functional")
    /\ UNCHANGED <<seat, fw, heard, upsets>>

VerifyApi(ok) ==
    /\ gate.pc = "verify" /\ Misses(ok)
    /\ Adds({TaskRow("functional", ok)}) /\ NextTask
    /\ UNCHANGED <<seat, fw, heard, upsets>>

-----------------------------------------------------------------------------
(* The LoRaWAN run, in one step: how far it got.                           *)

LoraStages == <<"flash", "register", "join", "uplink">>
LoraRows(far) ==
    {TaskRow(s, TRUE) : s \in {LoraStages[k] : k \in 1 .. far} \ {"register"}}
    \union (IF far = 4 THEN {} ELSE {TaskRow(LoraStages[far + 1], FALSE)})

FlashLorawan(far) ==
    /\ gate.pc = "lora"
    /\ (~gate.chirp \/ ~CanFlash(TaskSlot)) => far = 0
    /\ IF gate.chirp /\ CanFlash(TaskSlot) THEN Misses(far = 4) ELSE UNCHANGED misses
    /\ Adds(LoraRows(far)) /\ NextTask
    /\ fw' = IF far = 0 THEN fw
             ELSE [fw EXCEPT ![seat[TaskSlot].unit] =
                     [image |-> "lorawan", task |-> gate.task, up |-> TRUE, ran |-> TRUE]]
    /\ UNCHANGED <<seat, heard, upsets>>

-----------------------------------------------------------------------------
Bench ==
    \/ \E s \in Places : Flaps(s) \/ BootsUp(s) \/ Settles(s)
    \/ \E s \in Places, u \in Units : Replug(u, s)
    \/ \E s \in Places : OthersFlash(s, "esphome")

GateStep ==
    \/ \E r \in Rosters, chirp \in BOOLEAN : LoadConfig(r, chirp)
    \/ \E ok \in BOOLEAN :
          \/ Info(ok) \/ ListSlots(ok) \/ Serial(ok) \/ Uplinks(ok)
          \/ GetImage(ok) \/ FindHost(ok) \/ VerifyApi(ok)
    \/ Write \/ \E ok, written \in BOOLEAN : WriteEnds(ok, written)
    \/ SlotIsIdle \/ ResetForBoot \/ SettleTimesOut
    \/ FromBuffer \/ Monitor \/ MonitorMisses \/ FromBufferAgain \/ BootCheckRaises
    \/ \E far \in 0 .. 4 : FlashLorawan(far)

GateNext == GateStep \/ Bench

GateSpec == GateInit /\ [][GateNext]_gateVars

\* Where the gate waits for an answer without a deadline: ChirpStack's, the
\* dashboard's, and the native API's once it is connected.
NoDeadline ==
    \/ gate.pc = "uplinks" /\ Entry.eui /\ gate.chirp
    \/ gate.pc = "image" /\ TaskFw = "esphome"
    \/ gate.pc = "lora" /\ gate.chirp
    \/ gate.pc = "verify"

\* The gate is a program, and its other waits have deadlines; boards come up
\* and slots settle (each only so often, so that one condition is enough).
GateFairness ==
    /\ WF_gateVars(GateStep /\ ~NoDeadline)
    /\ WF_gateVars(\E s \in Places : BootsUp(s) \/ Settles(s))

-----------------------------------------------------------------------------
GateTypeOK ==
    /\ gate.pc \in {"off", "load", "exit2", "info", "slots", "serial", "uplinks", "image", "write", "writing",
                     "settle", "reset", "buffer", "monitor", "again", "ip", "verify", "lora", "exit"}
    /\ \A r \in rows : r.ok \in BOOLEAN
    /\ \A s \in Places : seat[s].unit \in Units \union {Nobody}
    /\ upsets \in 0 .. MaxUpsets /\ misses \in 0 .. MaxMisses

Failed == {r \in rows : ~r.ok}
ExitCode == IF gate.pc = "exit2" THEN 2 ELSE IF Failed # {} THEN 1 ELSE 0

\* The checks a roster enables, each of which needs a row of its own.
Enabled(r) ==
    LET Stages(e, f) == IF f = "lorawan" THEN {"flash", "join", "uplink"}
                        ELSE {"flash", "boot"} \union
                             (IF f = "esphome" /\ e.functional THEN {"functional"} ELSE {})
        Of(e) == (IF e.onBench THEN {Row("slots", e.slot, "none", TRUE)} ELSE {})
                 \union (IF e.onBench /\ ~e.flashes THEN {Row("serial", e.slot, "none", TRUE)} ELSE {})
                 \union (IF e.eui THEN {Row("uplinks", Subject(e), "none", TRUE)} ELSE {})
                 \union UNION {{Row(s, e.slot, f, TRUE) : s \in Stages(e, f)} : f \in Flashed(e)}
    IN UNION {Of(r[i]) : i \in DOMAIN r}

\* The process's exit code is 0 only when every check the roster enables was
\* made and passed: no stage skips a device without a row that fails
\* (gate.py:40, the `continue`s and early returns of run and _flash_one).
CleanIsComplete == gate.pc = "exit" /\ ExitCode = 0 => Enabled(gate.roster) \subseteq rows

\* On a bench nobody touches, where nothing fails, no boot check fails: the
\* boot that goes by unrecorded after the flash, and a monitor that misses
\* the line, are made up for (boot.py:120-174).
NoFalseAlarm ==
    gate.pc = "exit" /\ upsets = 0 /\ misses = 0 => \A r \in Failed : r.stage # "boot"

\* A boot row is about the image this task wrote: it is on the board in the
\* slot and has come up since it was written, unless somebody has touched the
\* slot since the listing.
BootIsOfTheImage ==
    gate'.pc # gate.pc /\ Running /\ gate.task # NoTask /\ TaskRow("boot", TRUE) \in rows' \ rows
      => \/ TaskSlot \in gate.touched
         \/ LET u == seat[TaskSlot].unit IN
            u # Nobody /\ fw[u].image = TaskFw /\ fw[u].task = gate.task /\ fw[u].ran

\* A nightly verdict can be trusted: the report is complete when it says OK,
\* raises no alarm on a healthy bench, and never passes a board on the marker
\* of an image that was there before.
GateSound ==
    /\ [](GateTypeOK /\ CleanIsComplete /\ NoFalseAlarm)
    /\ [][BootIsOfTheImage]_gateVars

\* The gate ends, whatever the bench does, unless it hangs for good in one of
\* the waits that have no deadline.
GateEnds == <>(gate.pc \in {"off", "exit", "exit2"}) \/ <>[]NoDeadline

-----------------------------------------------------------------------------
\* What the code's words promise and TLC refutes; see the README.

\* A good boot row means that the board came up from the gate's own reset
\* (boot.py:120-128).  A slow boot of the flash may print its marker between
\* the time stamp and the reset: the row is written while the board is down.
BootIsOfTheReset ==
    gate'.pc # gate.pc /\ Running /\ gate.task # NoTask /\ TaskRow("boot", TRUE) \in rows' \ rows
      => TaskSlot \in gate.touched \/ fw[seat[TaskSlot].unit].up

\* The gate ends (gate.py:129-140): not when the dashboard, ChirpStack or a
\* device's API never answers.
GateAlwaysEnds == <>(gate.pc \in {"off", "exit", "exit2"})
=============================================================================
