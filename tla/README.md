# A TLA+ model of WireStudio

WireStudio designs ESPHome (and LoRaWAN, WLED, Tasmota...) devices: a FastAPI
server holds the designs, a component library and a parts drawer; a browser
application and MCP clients (language models) edit the same designs through it;
generators turn a design into firmware sources, schematics and boards; and
build, flash and provisioning jobs run against external tools and benches.

Each function of the program is well tested. What tests hardly reach is what
several of them do to each other: FastAPI runs each plain `def` handler on a
thread of its pool, the MCP tools run beside them, several replicas may share a
SQLite file, nearly nothing takes a lock, the browser applies answers to
whatever state it has by then, boards are moved while jobs run on them, and the
same rules (which pins a part can use, which net a pad is on) are written in two
or three places that must agree. That is what these modules model.

Contents: [components](#components) · [modules](#the-modules) ·
[runs and bounds](#runs-and-bounds) · [fairness](#fairness) ·
[proofs](#proofs) · [refuted claims](#refuted-claims) ·
[observations](#observations) · [modelling decisions](#modelling-decisions) ·
[not modelled](#not-modelled) · [plan](#plan)

## Components

| component (source) | state | operations | hard part | correct when |
|---|---|---|---|---|
| job registry (`mcp/jobs.py`) | jobs in insertion order, each with a log and a state | `start`, worker append/finish, `job_events` | the eviction scan reads states without the jobs' locks | running jobs stay, pages of a log neither repeat nor skip, polling ends |
| design store (`designs/store.py`) and its tools | one JSON file, or one row, per design | `save`, `load`, `exists`, `delete` | load-change-save and check-then-act with no lock; `write_text` is not atomic | documents stay under their id, a lone save repairs the file |
| event wrapper (`designs/events.py`) | none | publishes after each write | write and publish are two steps | every write is followed by an event |
| active design (`designs/active.py`) | one slot | `get`, `set`, `clear` | compare-and-clear, check-and-set | names a stored design |
| event bus and stream (`designs/events.py`, `api/app.py` 1338-1389) | a queue per open stream | `subscribe`, `publish`, the stream's coroutine | `asyncio.Queue` used from threads, timeouts, disconnects | each event once, streams leave the bus |
| browser tab (`web/src/App.tsx`) | design on screen, reset target, selection | edit, save, reset, refresh on events | answers arrive late, out of order, after a deletion | a clean tab shows the store |
| web editor (`web/src/lib/design.ts`, `App.tsx`, `AgentSidebar.tsx`) | the design, what is being waited for | edits, selection, insertion, solving, the agent's turns, debounced rendering | an answer lands on a design it was not asked for | what was asked for before never stays on screen |
| flash dialog (`FlashDialog.tsx`, `lib/flash.ts`) | the panel, the serial port | connect, fetch, write, read, push a configuration | the dialog closes at any `await` | a port is open only for somebody who can close it |
| LoRaWAN dialogs (`LorawanFlashDialog.tsx`, `LorawanProvisionEsphomeDialog.tsx`) | a session, what it heard, its registrations | build, flash, register, answer the prompts, wipe | registrations answered late; closing stops no request | nobody's keys are replaced by themselves |
| parts drawer (`inventory/`) | one JSON file | `set`, `remove`, import, check, substitute | whole-file read, change, rewrite; merged requirements | the drawer is what the calls add up to; a substitute fits |
| SQLite migration (`sqlite_store.py`) | `user_version`, tables | `migrate` | concurrent migrations, kills, older releases | each step once, in order, never back |
| library cache (`library/__init__.py`, `_refresh` of `api/app.py`) | user files, parsed entries, `version`, the listing and its stamp | `save`, `delete`, `component`, listing | fills race with writes, the stamp with the build | cache and listing are those of the tree |
| pin solver and compatibility (`csp/`) | none | `solve_pins`, checks | two rule tables; a greedy pass run after every edit | no pin twice, what it chooses passes the checker |
| documents (`agent/tools.py`, `designs/seed.py`, `seed.py`, `migrate.py`, `generate/`, `kicad/netlist.py`, `validate.py`) | one design | eleven editing tools, load with migration and repairs, rendering, net lists, validation | long sequences of legal calls; the same rule written for each artefact | references hold, loads settle, artefacts agree |
| other targets (`targets/tasmota.py`, `targets/wled.py`, `generate/micropython_gen.py`, `circuitpython_gen.py`) | none | a template, cfg.json, code, warnings | what one part takes another wanted; units, slots and orders | nothing of a design is lost without a word |
| library gates (`library/check.py`, `library/board_check.py`) | none | try a drafted part or board | the trial is not the use | what passes serves the tools |
| routing, LoRaWAN and WLED builds (`kicad/route.py`, `targets/`) | cache directory, shared checkout | run a tool under a watchdog, cache the result | timer against exit, two-step cache writes, shared directories | a slot holds its own key's artefact |
| provisioning (`targets/lorawan/`, `mcp/hardware.py`) | device, server and profile | flash, register, type keys, verify | failures and other calls between any two requests | done is true |
| bench gate (`workbench/gate.py`) | a roster and its report | flash, boot markers, functional checks, LoRaWAN run | boards moved meanwhile, old boot markers in the log, waits without a deadline | OK is complete and no false alarm |
| fleet and dashboard (`fleet/`, `esphome_dashboard/`, `PushToFleetDialog.tsx`) | job table, tails | push, compile, follow | pushes cross between write and compile; streams break | nothing older than its push is built |
| agent (`agent/`) | session log | a turn: model, tools, two appends | interleaved turns, failures | history is that of the completed turns |
| enclosures, community, JLCPCB, PrintWarden, authentication, Meshtastic, other views | | | | not modelled, see below |

`PROJECT.json` lists the components with what is modelled of each, and under
`hazards` what is hard to test in them, at the line where it bites.

How they meet: a handler or tool calls the wrapped design store; the wrapper
publishes to the bus; the bus's queues feed the streams; a stream's event makes
a tab fetch the design. `DesignStudio`, `DesignEvents` and `BrowserSync` are
three consecutive stretches of that path and meet at its interfaces: the
`saved`/`deleted` events `DesignStudio` publishes are what `DesignEvents`
carries, and what `BrowserSync` hears, with the losses and the order the first
two allow. What a call does to the document is abstract there (the set of
changes it carries) and concrete in `DesignSession`, where calls do not overlap.

## The modules

| module | models | state ↔ code | actions ↔ code |
|---|---|---|---|
| `EventStream` | what a log reader is promised (abstract) | | append, close, take, conclude |
| `JobRegistry` | `mcp/jobs.py` | `registry`, `rank` = the `OrderedDict`; `holder`, `scan` = the thread in `with self._lock` and where its `for` is; `state`, `log` = `_Job`; `since`, `seen` = a client's cursor | `Insert`, `EvictStep`, `Release` = `start`; `Produce`, `Emit`, `Finish`, `Vanish` = `_run`; `Lookup`, `ReadSlice` = `_get`, `slice` |
| `DesignStudio` | store, wrapper, active pointer, HTTP and MCP calls | `stored`, `active`, per call `pc`, `doc`; `backend` = the store configured | one action per store, bus or pointer access of a handler |
| `DesignEvents` | the bus and `GET /designs/{id}/events` | `subs`, `queue`, `getter` (the queue's future), `at` | `publish` in three steps, the coroutine between its awaits |
| `BrowserSync` | `App.tsx`: one saved design and its events | `design`, `original`, `selected`, requests in flight | event listeners, request answers, user gestures |
| `FlashDialog` | the flash dialog, `lib/flash.ts` | `panel`, `flash` (each run of the flash), `push`, `port`, and the board, slot and bench outside | one action per stretch between awaits; `PickFramework` also unmounts |
| `LorawanDialogs` | the two LoRaWAN dialogs, `lib/provision.ts` | `dlg` (state and refs), `write` (runs of `flashFirmware`), `post` (registrations), `serial`, and board, server and build outside | handlers, callbacks of the session, answers |
| `Designs`, `PinSolver`, `Compatibility` | the document, the library records, `solve_pins`, `check_pin_compatibility` | operators | |
| `SolverRun` | `solve_pins` one connection a step, and the checker on its result | `phase`, `at` = the pass and its connection, `run` = bindings and `used_pins`, `again` = the second run, over the result | one action per loop, and `SolveAgain` |
| `Generation` | what `yaml_gen.py` resolves, refuses, adds and drops, and the warnings of `intent.py` | operators | |
| `Netlist` | `kicad/netlist.py`, and the pads of sheet, board and SKiDL script | operators | |
| `DesignTools` | the editing tools, seeding, and the repairs of a load | operators from a design to a design | |
| `Firmware` | Tasmota's template, WLED's `cfg.json` and override, the MicroPython and CircuitPython generators, with what each warns of | operators | |
| `Intake` | `seed.py`, the migration of older documents, `library/check.py`, `library/board_check.py`, `validate.py`, the LoRaWAN block and the lorawan target's warnings | operators | |
| `DesignSession` | one design under a sequence of tool calls and loads | `design`; `hand` = what was set by hand, `call`, `calls` | one action per tool |
| `WebDesign` | the edits of `lib/design.ts` and the forms that call them | operators | |
| `AgentTurn` | a turn: model, tools, compaction, appends | `turns`, `history` | the loop's steps |
| `Editor` | `App.tsx` as an editor, `AgentSidebar.tsx` | `tab` = the design on screen and its rendering, `asks` = what is waited for | gestures and answers |
| `InventoryStore` | the file drawer and its import | `file`, `readable`, per call `entries` | `ReadRow`, `OpenFile`, `WriteFile` |
| `PartsCheck` | `inventory/check.py`, `match.py`, `buy.py`, the recommender's boost | `overrides` | `ApplySubstitutions` over the drawer's actions |
| `SchemaMigration` | `migrate` | `version`, `log` (committed steps), `draft` (the open transaction), `lock` | `BeginImmediate`, `Busy`, `ReadVersion`, `Apply`, `Commit`, `Kill` |
| `LibraryCache` | user tree, entry cache, listing | `file`, `cache`, `version`, `listed`, `stamp` | `_save`, `_delete`, `component`, `_refresh`, step by step |
| `BuildCache` | `kicad/route.py`, `targets/lorawan/compile.py`, `targets/wled_build.py` | `slot` (log and artefact), `tool`, `dir`, `lock`, per caller `run` | the generators between their reads and writes, the tool, the timer |
| `Payloads` | payload layout, packing in C++, decoding in JavaScript, profile names | operators on bytes of base `Base` | |
| `Provisioning` | the four calls that bring LoRaWAN boards up | `slot`, `board`; `sdev`, `sprof`, `sapps` = the server; per caller `call` | one action per request |
| `BenchGate` | `workbench/gate.py`, `boot.py`, `images.py`, `functional.py` | `gate`, `rows` = the report; `seat`, `fw`, `heard` = boards and boot logs | one action per request or wait |
| `FleetPush`, `PushDialog` | the fleet and dashboard clients and routes; the dialog | `push`, `file`, `pending`, `job`, `image`, `djob`; `stream`, `text`, `shown`, `verdict` | one action per request, chunk, verdict |
| `…Proofs` | theorems, see [proofs](#proofs) | | |
| `MC…` | instances for TLC | | |

An operator named `X_Something` directly before an operator `X` is `X` with a
plausible bug in it (a dropped guard, a missing reset, an off-by-one). It is
used nowhere in the specification: the entries of `mutants` in `PROJECT.json`
put it in the place of `X` to see that the property named there notices.

### What each module says

**`JobRegistry`.** The registry's lock is held from `Insert` to `Release`, and
a job's own lock makes `Emit`, `Finish` and `ReadSlice` atomic; the scan of
`_evict_locked` looks at one job per step because it reads `job.state` with no
job lock. `OldestFirst` compares the jobs that had finished when `start()` was
called; a job finishing ahead of the scan may be dropped before an older one
finishing behind it, which the code accepts. `EveryLogIsAStream` is the
refinement: for each client and job, log and cursor behave as an `EventStream`.
`Vanish` is a producer that raises a `BaseException`: the job stays `running`
for ever, and `PollingEnds` excepts its clients.

**`DesignStudio`.** A document is the set of changes it carries, so that a lost
or misplaced edit is visible. The file store's save is three steps (truncate,
write, stat), SQLite's is one; a crash may fall anywhere. `StoreSound` says no
document is ever stored under another design's id, whatever pointer moves while
a tool works. `LastSaveStands` says what is left of "write the design to disk"
without locks: from a save that had the file to itself on, the file holds what
was last written or is being written. `NoSilentWrite` says no interleaving
leaves a write without its event, not even one whose file is deleted before its
`stat` (the deletion's own event is then on its way).

**`DesignEvents`.** `put_nowait` from a worker thread appends, then resolves
the getter; from a thread this wakes no selector and may fall between the
coroutine's `empty()` and its registration, so `Resume` has no fairness. The
15-second timeout around `get()`, written for keep-alive pings, is what gets
such an event delivered: `EventDelivered` fails without it.

**`BrowserSync`.** Every version of the design is a document of its own. The
server answers a GET at one moment and the tab applies it at another. With
`InOrder`, overlapping refreshes are served and answered in the order they were
asked; then a clean tab that missed no event ends up showing the store
(`ShowsTheStore`). With `InOrder = FALSE` it does not. `unheard` is the history
of what the tab missed: events published while it was disconnected, skipped
while it was dirty, or overtaken by its own save.
The server stores `_migrate` of what is posted (`app.py:1285`), which may be a
copy with other ids, a version of its own; `kept` says what became of each
version the store was given, and `migrate()` makes the same of it every time
(`LoadSettles`, of the documents' run, is why a repaired copy is its own). The
tab takes what it posted for its reset target, so that target is a version
that was saved (`TabSound`) and not always one the store has held
(`ResetTargetWasStored`, refuted); the tab and the store then differ until the
event of the save has been heard, and for longer when it was skipped.

**`FlashDialog`.** One panel per framework; picking another or closing the
dialog unmounts the panel, but nothing it has under way. `PortAccounted` lists
who can still close an open port, and the three ways the code has to let it
slip; `SessionIsLive` says a session on screen is of the board on the port, which
nothing else has flashed since;
`OneFlashAtATime` says a panel, Meshtastic's
apart, has one image under way. WebSerial's `open`
rejects on an open port; a push is one at a time.

**`LorawanDialogs`.** Two dialogs one after the other, on one board, one port and
one device of the server. A prompt may land before `flashFirmware` has returned,
a registration's answer after the dialog was closed. `PromptServed`: a board
that asks for keys while its session is on screen is being served, or the dialog
was told why not. `NeverRekeys`: a registration the flash dialog starts by
itself never replaces keys the board lives by, unless two registrations were in
flight at once. `FlashedHasItsKeys`: the image an ESPHome dialog flashed carries
the keys of its own registration, when no other dialog's push crossed it.
Assumed: the six prompts are answered in one step, the codec request is served
at once, the pickers' values are chosen when they are read, and a write that
fails leaves the port open.

**`InventoryStore`, `PartsCheck`.** `ledger` is the drawer had every call been
one step. `SerialCallsAddUp`: as long as no read-to-write overlapped another and
no crash tore the file, file and ledger agree. `CheckAddsUp`: what is picked,
assumed and bought is what the design is made of. `SubstitutesFit`: a substitute
is in the drawer and has the ratings that *each* part of the line asks for,
although parts of one value are merged into one line. Its family and polarity
are those the first part declares (`_merge_requirements`): they are the part's
own only where the parts of one value agree (`OfOneKind`), which the library's
declarations do and nothing checks. `PartsAssumption` is what `InventoryEntry`
checks of its numbers, and that a part's key is its MPN.

**`SchemaMigration`.** Steps are numbers; `log` is what has been committed.
`BEGIN IMMEDIATE` is the lock; the version is read again under it in every
round, which is what makes `MigratedOnce` true for two processes.

**`LibraryCache`.** A creation writes its number into the file. `planted` and
`stale` are histories: an entry cached, or a listing built, by a thread that a
write has overtaken. `CacheFresh` and `ListingFresh` say that this is the *only*
way either differs from the tree once no write is at work.

**`PinSolver`, `SolverRun`, `Compatibility`.** The solver and the checker are
written apart from each other in the code and here. `SolverPinsExclusive`: what
the solver binds, nobody else is on. `ChosenPinsPass`: the two
agree on every pin it chooses, outputs the solver does not know for ones (a chip
select) apart, and a warning means that what is left is no better. `SolvedIsKept`:
its choice is as good as it could be, and solving the result (`SolveAgain`; the
tools solve after every edit) changes nothing.

**`DesignSession`** (with `DesignTools`, `Generation`, `Netlist`, `Firmware`,
`Intake`). `DocumentSound`: no pin is double-booked and no reference dangles but
by an explicit edit (`SharedOnlyByHand`, `ReferencesHold`), of designs whose
references held at first (`DocumentsAssumption`); a new design gets each
peripheral of its board, on the pins the board names for it, or a warning
(`BoardSeeded`); and what passes the library's checks serves the tools
(`GatesHold`): a checked part brings all its template reads, on a checked board
every part finds its bus and the LoRaWAN block of each revision names pins of the
board. `ToolsKeepTheDesign`: adding a part moves nothing else and keeps a design
that rendered rendering, with an id ESPHome takes. `LoadSettles`: the repairs of a
load have nothing to do the second time, and a document of an older version comes
out with each of its blocks as one part, once, on the pins it gave, whichever
version it started from (`Keeps`). `DroppedIsWarned`: what the generator
leaves out of automations and displays has a warning. `ArtifactsAgree` is about the
other artefacts of one design. `NetsAgree`: sheet, board and script put the same
pads together, as far as a net is a rail, a board pin, a line of a bus the design
has or a node of a subcircuit; in the script these pads are on one net, unless a
subcircuit is on it by a role that leads there through another part's. `FirmwareTells`: of Tasmota's template, WLED's
configuration and the Python generators, none loses a part without naming it; no
unit of a Tasmota family stands in two slots, the ESP8266's function numbers are
those of its build, a part's hub is written before it. `ValidationTells`: what
validation says of a substitution is what the parts list shows, a net target it
accepts joins something, and what the validate tool calls ok is rendered.

`Firmware` and `Intake` have no state: what they say of a design is asked of every
state of the session (`FirmwareTells`, `ValidationTells`), of every older document
once migrated (`Legacies`), and of every board and part of the constants in the
initial states (`BoardSeeded`, `GatesHold`, `NumbersAgree`). `BlocksAssumption` names
the kinds a library file's `wled` block may be of (`library/__init__.py:221`).

**`Editor`** (with `WebDesign`, `AgentTurn`). `EditorSound` is about what comes
late: with nothing under way the rendering is of the design on screen or an error
says it is not (`ShowsTheDesign`), no spinner outlives what it stands for
(`WaitsEnd`: whatever is waited for has something under way that will end it),
the model is sent the last of every call's results whole (`LatestStays`), a
session's history is that of its completed turns (`HistoryOfTurns`).
`EditsSound` is about what each edit and answer does to the design: ids are
unique (and one that ESPHome reserves is one the user typed: the rename accepts
it, `BusList.tsx:168-177`), parts land beside what there is, renames keep the wiring, suggestions are
free, answers keep bindings.

**`BuildCache`.** One machine for the three generators; `tool` picks which.
`SlotHoldsItsKey`: a slot never holds another design's artefact.
`QuietSlotWhole`, `QuietSlotAgrees`: one that no crash and no overlapping run of
its key disturbed is whole and agrees with its log. `GoodAnswerIsThere`: whoever was
told that a build is good finds its artefact. `BuildsEnd`: the watchdog
ends a hung tool as long as somebody reads it, and a waiter for WLED's checkout
gets it, but behind a caller that left.

**`Provisioning`, `Payloads`, `BenchGate`.** `DoneIsTrue`: a bring-up that met
nobody tells the truth about board, server and slot; `NoReplay`: the join of a
board it erased is not refused as a replay; `CodecReadsPayload`: a codec reads what the firmware of its
design packs, field by field, at the edges of every width. `GateSound`: the
gate's OK is complete, raises no false alarm, and on slots nobody touched a good
boot row is of the image the task wrote, come up since it was written: not always
up again after the gate's own reset, for a slow boot of the flash may print its
marker between the time stamp and the reset (`boot.py:138-140`;
`BootIsOfTheReset` is refuted). `GateEnds`: it ends, or hangs for good in one of
the waits that have no deadline.

**`FleetPush`, `PushDialog`.** `NeverOlder`: no run builds, and nothing hands
out, something older than its push wrote. `ScreenSound`: the log on the screen
of the shown run is its beginning without gap or repeat, and "passed" is true.
`StreamEnds`: a stream whose run has ended is read to its end and closed.

## Runs and bounds

| run | module | instance | properties |
|---|---|---|---|
| `jobs` | `MCJobRegistry` | 3 jobs, a registry cap of 1, one job yielding 3 events into a log of 2, one that may vanish, 1 client, page sizes 0 and 2 | `LogsSound`, `RunningNeverEvicted`, `EvictionKeepsTheCap`, `EveryLogIsAStream`, `CallersAreServed` |
| `studio` | `MCDesignStudio` | 2 designs, 2 callers, 4 calls of all 8 kinds, both stores, 1 crash | `StoreSound`, `NoSilentWrite`, `LastSaveStands` |
| `events` | `DesignEvents` | 1 stream, 2 publishing threads, 3 events | `StreamsSound`, `StreamsServe` |
| `browser_sync` | `MCBrowserSync` | the tab: 2 refreshes in flight, 3 versions, 2 events due; the flash dialog: 2 runs, 2 panels, 2 pushes, 1 fault; the LoRaWAN dialogs: 2 dialogs, 2 writes, 2 registrations, 1 failure | `TabSound`, `ShowsTheStore`, `FlashSound`, `DialogsSound`, `NeverRekeys` |
| `inventory_serial` | `MCInventoryStore` | 5 drawer entries, 2 callers, 3 calls, 1 crash, and any application of substitutes | `DrawerSound`, `SubstitutesFit` |
| `schema_migration` | `MCSchemaMigration` | 2 processes of a new release and 1 of an old one, 2 kills | `MigratedOnce`, `OpensOwnSchema`, `MigrateReturns` |
| `library_cache` | `LibraryCache` | 2 entries, 2 threads, 2 writes of content, 1 crash | `CacheFresh`, `ListingFresh` |
| `documents` | `MCDesignSession` | 2 boards to pick from and 3 for the gates, 5 pins, 11 parts of which 5 are offered, 5 documents and 4 of older versions, 3 calls, 3 parts | `DocumentSound`, `LoadSettles`, `DroppedIsWarned`, `ToolsKeepTheDesign`, `ArtifactsAgree` |
| `pin_solver` | `MCPinSolver` | the solver: 3 parts' pins given, locked or open on a board with a pin of each sort; the editor: 2 gestures, a free and a reserved id to rename to, 2 messages to the agent, 2 model calls a turn | `SolverPinsExclusive`, `SolverSound`, `EditorSound`, `EditsSound` |
| `toolchain` | `BuildCache` | 2 callers, 2 keys, 2 starts, 1 crash, each of 3 toolchains | `SlotsSound`, `BuildsEnd` |
| `bench` | `MCProvisioning` | provisioning: 2 calls, 2 slots, 1 board, bytes of base 4, 2 join nonces, 1 fault; the gate: 4 rosters, 1 upset, 1 failed request | `BenchSound`, `AloneIsServed`, `GateSound`, `BenchAnswers` |
| `fleet` | `PushDialog` | 2 of 4 pushes, 3 workers, a log of 1 line, 1 fault, 1 line on the wire | `ScreenSound`, `NeverOlder`, `StreamEnds` |

`PROJECT.json` says of each run what it shows. `browser_sync`, `pin_solver` and
`bench` hold models that share no state in the code they are about; each
behaviour is of one of them, chosen at the start, so their state spaces add up
and do not multiply.

The bounds are constants: `MaxCalls`, `MaxWrites`, `MaxDocs`, `MaxDue`,
`MaxFlashes`, `MaxMounts`, `MaxPushes`, `MaxDialogs`, `MaxPosts`, `MaxActs`,
`MaxSends`, `MaxIterations`, `MaxParts`, `MaxPin`, `MaxStarts`, `MaxNonce`,
`MaxWire`, `LogSize`, `Base`, `MaxYield`, `MaxEvents` (of `DesignEvents`), and
for failures `MaxCrashes`, `MaxKills`, `MaxFaults`, `MaxTroubles`, `MaxUpsets`
and `MaxMisses`; of `LibraryCache` `MaxRestarts`. `MaxJobs` and `MaxEvents` of `JobRegistry` are the program's
own caps, made small. They are enough for what they bound:

- Two callers give every pairwise race, and no step of one looks at two others.
  A third call (a fourth, in `studio`) runs over what a race has left.
- One crash or failure leaves something torn, and calls to find it; two kills
  interrupt a migration and its repetition.
- A cap of one with three jobs makes the scan pass over a running job, evict,
  restart and give up. A job yielding one event more than its log holds reaches
  the cap.
- Three versions of a design let a tab hold one, the store another and an answer
  a third. Two flashes, dialogs, panels or pushes let an answer of the first
  arrive in the second; none of them keeps anything longer than that.
- The document's constants give each kind of pin, bus, expander, hub and board
  pin that a rule in the code tells apart, and three calls make, break and
  repair a binding. The four documents are a new one, one with a lock not applied
  yet, one with ids ESPHome refuses, shared by components, buses and automations,
  and one with a part before its hub; the four older ones have blocks alone, the
  ids and parts of the blocks taken, a board that has nothing they need, and more
  pins for a role than Tasmota has counters. A peripheral of each sort is on some
  board: on pins, on a bus of its own, on the board's, with a pin or the bus
  missing, of a part the library lacks, and of no handler. Of the boards one passes
  the check, one fails it for lack of a line of its bus, one for a revision's radio
  pin. Bytes of base 4 reach the edges of every width.

What the theorems below prove holds without these bounds.

Identical threads, designs, entries and refreshes are symmetric; symmetry is
used in runs of invariants and of action properties only, never with liveness.
No run checks deadlock: every model stops when its bounded calls are used up.
That everything ends that should is stated as liveness instead.

## Fairness

- `JobRegistry`: weak fairness of a thread inside `start()`, of a worker with a
  finite producer, and of a client that polls on. Python threads are
  preempted, so each keeps running; nothing starts jobs or clients. A worker
  that vanishes and one that goes on are both allowed.
- `DesignEvents`: a publishing thread finishes its loop, and the event loop runs
  what is ready and its timers (`LoopStep` includes `Timeout`). Not assumed:
  that a future resolved by a thread is noticed before the timer, that the
  server cancels a response, that a browser connects or leaves.
- `SchemaMigration`: `migrate` runs on. SQLite's busy timeout makes `BeginImmediate` or
  `Busy` possible at every moment. Kills are bounded.
- `BuildCache`: a caller's generator runs on while it is read, and its timer
  fires. Not assumed: that a tool exits, or that a caller reads to the end.
- `Provisioning`: requests are answered or fail, deadlines pass, and `esptool`
  ends. Not that a board joins or answers its prompt. That ChirpStack answers or
  breaks the connection is an assumption about the server: the gRPC calls carry no
  deadline (`chirpstack.py:148-482`).
- `BenchGate`: each step with a deadline is taken, and a board that was flashed
  boots. Not assumed where the code waits without one (`NoDeadline`): the
  dashboard's push, compile and download (`images.py:76-86`), ChirpStack's
  answers (`gate.py:233-239` and the LoRaWAN run), and the native API's once it is
  connected (`functional.py:108-111`).
- `PushDialog`: a stream's relay sends what there is or notices the error, and
  the browser receives on its own streams. Not that a worker builds or a server
  answers.

The other specifications state no fairness and no liveness.

## Proofs

TLAPS checks the theorems for every value of the constants that satisfies the
assumptions named in the modules.

| theorem | states | what it establishes |
|---|---|---|
| `HardwareProofs!Invariance` |  | The inductive invariant IInv holds in every reachable state, for any sets of jobs and clients, any cap, any page sizes and any interleaving of workers, scans and polls. |
| `HardwareProofs!LogsCorrect` | `LogsSound` | No job's log exceeds MAX_EVENTS_PER_JOB; the pages a client has concatenated are a prefix of what the producer yielded, whatever was appended between polls; a client told done has read the whole log and the job never changes after it. |
| `HardwareProofs!RunningKept` | `RunningNeverEvicted` | No step of any start() removes a running job from the registry, though the scan reads the state without the job's lock. |
| `HardwareProofs!CapKept` | `EvictionKeepsTheCap` | start() evicts finished jobs oldest-first and returns with the registry within MAX_JOBS or with none of the jobs finished before it, though jobs finish ahead of and behind its scan. |
| `HardwareProofs!StreamRefinement` | `EveryLogIsAStream` | For every client and job, the registry's slice/append/finish implement the abstract EventStream. |
| `DesignStudioProofs!StoreCorrect` | `StoreSound` | For any callers, designs, operations, either store and any number of crashes: no document is ever stored, or about to be stored, under another design than the one it was edited for, whatever happens to the active pointer between a tool's load and its save. |
| `DesignStudioProofs!EveryWriteIsPublished` | `NoSilentWrite` | A design written or deleted since its last event has a call on its way to publish; the invariant it needs says which saves will still find the file they wrote. |
| `DesignStudioProofs!TheLastSaveStands` | `LastSaveStands` | While the saves of a design do not overlap, the store holds what the last completed save or delete left, or one writer has the file open and it is torn. |
| `StreamProofs!StreamsCorrect` | `StreamsSound` | For any streams, threads and number of events, each event is in exactly one place between its publication and the browser: queued, carried by a getter or a finished task, or sent; no lost wakeup, timeout or cancellation drops or doubles one. |
| `StreamProofs!NothingOlder` | `NeverOlder` | For any pushes, device names, log lengths and faults, whichever pushes of a device overlap and whichever requests are refused, lost or cut: no build read, and no image that would be fetched for it was built from, anything older than its own push wrote. |
| `StreamProofs!ScreenCorrect` | `ScreenSound` | For any of them that are the dialog's, and any interleaving of its streams, answers, switches and restarts: what the screen shows of its run's log is the log's beginning without a gap or a repetition, and 'passed' is shown only of a build that succeeded. |
| `WebProofs!FlashCorrect` | `FlashSound` | For any number of flashes, panels, pushes and faults, the flash dialog's serial port is open only while somebody can still close it or one of the three named ways has let it slip, a session on screen is live, and a panel flashes one image at a time. |
| `WebProofs!TabCorrect` | `TabSound` | For any number of refreshes, documents and events in flight, and in whatever order the refreshes are answered, while a saved design is selected Reset goes back to a document that was saved: one the store has held, or was given and kept with its references repaired. |
| `WebProofs!TabShowsTheStore` | `ShowsTheStore` | When refreshes are served and answered in the order asked, a clean tab that missed no event shows what the store holds once nothing is on its way. |
| `WebProofs!DialogsCorrect` | `DialogsSound` | For any number of dialogs, flashes, registrations and failures, a board that asks for keys while its session is on screen is being served or was told why not, and the image an ESPHome dialog flashed carries the keys of its own registration when no other dialog's push crossed it. |
| `WebProofs!NothingRekeyed` | `NeverRekeys` | For any number of dialogs, flashes, registrations and failures, a registration the flash dialog starts by itself, and that met no other, never replaces keys the board lives by. |
| `PartsCheckProofs!SerialCallsKeepTheDrawer` |  | For any keys, callers and imports, with crashes: as long as no call's read-to-write overlaps another's and none dies there, the file is what the completed calls add up to; what parts were replaced by, some call put into the drawer. The types are kept. |
| `PartsCheckProofs!ReplacementsFit` | `SubstitutesFit` | For any design and drawer: a part is replaced only by one that the drawer holds, with the ratings this part asks for, although its line asks for the most of all its parts, and of its family and polarity if the parts of its value agree on these. |
| `DesignStudioProofs!SchemaTypeCorrect` |  | Every variable keeps its type, for any processes, releases, file version and kills. |
| `DesignStudioProofs!Once` | `MigratedOnce` | The committed steps are exactly those of the committed version, in order and once each, whoever ran them and whoever was killed. |
| `DesignStudioProofs!Forward` |  | No step of any release takes the file to an older schema. |
| `DesignStudioProofs!OwnSchema` | `OpensOwnSchema` | migrate() returns only on a store at its own release's schema and refuses only a newer one. |
| `CacheProofs!CacheTypeCorrect` |  | Every variable keeps its type, for any entries and threads: nothing but content that validated is ever cached or listed. |
| `CacheProofs!Fresh` | `CacheFresh` | A cached entry differs from the file only while a write is at work on it, or when a write overtook the reader that cached it; the invariant it needs says the same of what readers are about to cache. |
| `CacheProofs!ListingCorrect` | `ListingFresh` | A listing stored under the present version is the tree's, but while a write is at work or when one overtook its listing; the invariant it needs follows every listing under way, entry by entry. |
| `DesignSessionProofs!DocumentStaysRead` |  | Whatever tools are called on a document of the model, and however often it is loaded or its board's peripherals are seeded, it stays one: its parts, buses, connections and automations are sequences and records the model reads. |
| `DesignSessionProofs!CheckedParts` |  | A part that renders where library/check.py tries it on buses, with roles that are all its own, brings everything its template reads: what passes the library's gate is what ToolsKeep asks of a part that is added. |
| `DesignSessionProofs!ToolsKeep` | `ToolsKeepTheDesign` | For any boards, library, designs, modules and calls: no tool moves a connection it was not asked to, adding a part whose template asks for no more than its pins bring leaves a design that renders one that does, and its id is none that ESPHome refuses. It rests on lemmas about the whole solver, the seeding of a part and the trimming of its buses. |
| `DesignSessionProofs!ReferencesKept` |  | In every state of a session, for any library, boards, modules and calls: no two parts and no two buses share an id, and every connection that was not set by hand has its component and, on a bus, its bus, whatever is dropped, removed, renamed by a repair or seeded from a board. This is the conjunct ReferencesHold of DocumentSound. |
| `DesignSessionProofs!DroppedWarned` | `DroppedIsWarned` | In a design that renders, what the generator leaves out of an automation that does anything, or of a display, has a warning, for any automations and library. |
| `DesignSessionProofs!ToolsTold` |  | In every state of a session, what the validate tool finds ok the API renders, with its LoRaWAN block unless the revision is one the tool speaks of; and setting a board leaves no warning about the one before: the part of ArtifactsAgree that is about the tools' answers. |
| `DesignSessionProofs!ProgramsTell` |  | Of any document and library, the MicroPython and CircuitPython programs write every part or say it is skipped, no part before its hub or without the object of its bus, and skip none whose hub is written. |
| `DesignSessionProofs!WledTold` |  | Of any document and library, WLED's configuration or build has every part or its warnings name it, and with nothing to compile in the configuration alone does. |
| `SolverRunProofs!TypeCorrect` |  | The run keeps its type on any board, library and designs: what the solver binds is a target of the kind the connection had, on a pin. |
| `SolverRunProofs!PinsExclusive` | `SolverPinsExclusive` | A pin the solver chooses is no other connection's and no bus slot's, however many connections, locks and pins there are; it rests on every claimed pin being known to be in use throughout the run. |
| `SolverRunProofs!ResultSound` | `SolverSound` | On any board, with any library and for any design: a connection is left open only when nothing fits it, no special pin is taken while a plain one is free, a second run over the result changes nothing, the checker calls no chosen pin impossible but for an output the solver does not know, and warns of one only where every pin left is special or warned of too. |
| `SolverRunProofs!EditorCatchesUp` | `EditorSound` | Whatever the user does while answers are under way, for any designs, library and answers of the model: with nothing under way the screen shows the design or an error says that it does not; no spinner stands for what will not come; the model is sent the last of every call's results whole and no other long one of a reading tool; and while no tab goes away during a turn a session's history is its turns, message and answer side by side in the order they were sent. |
| `SolverRunProofs!NothingMoves` |  | A connection that is bound keeps its target to the end of the run, a lock that disagrees included. |
| `CacheProofs!SlotsCorrect` | `SlotsSound` | For any callers, keys, builds and restarts and each toolchain: no slot ever holds another key's artefact, and one whose builds were not forced, overlapped or interrupted is whole, of one run, and there for whoever was told so. |
| `HardwareProofs!ServedAlone` | `AloneIsServed` | A bring-up with erase that met no other call on its slot or board answers done only when board, server and slot agree on its key, design and session, and is never refused its join: for any slots, boards, calls, designs, faults and half-done registrations. |
| `HardwareProofs!GateTrusted` | `GateSound` | The nightly gate's exit code 0 means that every check the roster enables left a good row, no boot check fails on a bench nobody touched and where no request failed, and a good boot row is one of the image the task itself wrote, which has come up since it was written: for any rosters, library, slots and boards, and any number of disturbances and failures. |

The statements that the properties abbreviate are conjunctions (`TabSound`,
`FlashSound`, `StoreSound`...) whose parts are described under
[what each module says](#what-each-module-says).

*The job registry.* Of `LogsSound`, `PagesArePrefix` is not inductive: what a client has
collected is a prefix of the production only because it is the part of the
log before its cursor, and the log is the production cut at the cap.
The inductive invariant adds both, that an unborn job has no log and no
worker, and that a finished job's worker is gone, so that nothing is
appended after a client was told `done`. The refinement follows step by step:
`Emit` appends or stutters (at the cap), `Finish` closes, `ReadSlice` takes and
possibly concludes, everything else stutters, evictions and vanishing included.
Of eviction, `ScanInv` says that a job the scan has passed over was not finished
when `start()` was called; with the ranks, which number the jobs in the order
they came (`RankInv`), it makes every eviction that of the oldest, and a scan
that runs out of jobs one that left none of those that had finished.

*The design store.* `HomeInv` says of every document *on its way* (loaded,
edited, about to be written) what `DocStaysHome` says of the stored ones: a tool
resolves the active pointer once, and the id it loaded is the id it saves.
`SpokenInv` is what `NoSilentWrite` needs: of a design that was written since
its last event, some call is between its write and its publish, and if its
`stat` will fail then because another call's `unlink` came between, which has
its own publish ahead. `WriterInv` gives the writers of a file their history:
the file is torn exactly while one has it open, as long as no two overlapped.

*The event bus.* Each event is, from its publication to the browser, in one
place: a queue, the hands of a `get`, a finished task, the browser (`CarryInv`);
the history of what was sent is what was taken (`PastInv`); only an open stream
has a queue on the bus (`OpenInv`). Counting lemmas relate the number of times an
event occurs in a queue before and after `Append` and `Tail`.

*The flash dialog.* `FInv` says at each of the ten `await`s of a flash what the
run owns: whether its port is the dialog's, whose panel it is of, what a closed
dialog has already done about it (`OwnInv`, `PhaseInv`, `PortInv`); two runs of
one panel are never both past the point at which the first has the port.

*The tab.* `TabSound` needs no order of answers: every refresh in flight carries
a document the store has held, and what a save in flight makes the reset target
the store has been given by the time it is answered (`KeptInv`). `TabShowsTheStore` assumes `InOrder`,
and needs to know of every refresh asked and not answered which version it will
bring, that a later one will not bring an older one (`LatestInv`), that one asked
before a deletion is followed by the event that tells of it (`DeletedInv`), and
that what is on the screen came from the last one answered (`ScreenInv`). That
the assumption is needed is one of the [refuted claims](#refuted-claims).

*The LoRaWAN dialogs.* `LInv` follows the keys: those on the server are those of
the last registration served; those a board lives by are the throw-away ones of
its image, or those a registration gave it (`SerialInv`, `HeardInv`). A dialog
that has heard the board ask has a registration in flight, or was told that it
failed (`PostsInv`, `ServedInv`); an image that a push flashed carries the keys
of the registration it waited for (`PushInv`, `FlashedHasItsKeys`).
`NeverRekeys` follows because a dialog registers by itself only a board that has
no keys to lose, or one whose registration crossed another (`RekeyInv`).

*The drawer.* `SerialCallsAddUp` becomes inductive as `AloneInv`: while no two
calls overlap there is either no writer, and a file that is JSON and the ledger,
or one, with the ledger in hand, who has truncated the file if it has opened it.
What another call reads in between is not the ledger, but then the two overlap.
*Substitutes.* `Best` is a `CHOOSE`: that a best one exists is proved from the
order of ranks, transitive and, as no two keys have one place, total, on
finitely many entries (`BestIsOne`). It meets what its line asks, and the
greatest of the ratings declared is no less than each (`MostDemanding`).

*The migration.* `MigratedOnce` needs to know what a transaction in progress is
about to commit: whoever has read the version holds the lock, the version it
read is still the committed one, and its draft is empty before `Apply` and the
one next step after. At most one process is past `BeginImmediate`, since the lock has
one holder.

*The library.* `CacheFresh` alone breaks at `Fill`: a thread caches what it read
some steps ago. `FillInv` says of the entry a thread is about to cache what
`CacheFresh` says of the cached one: it is the file's, unless a write is at work
on the file or has overtaken the thread. `OpenFile` and `Unlink` make the file
differ and are themselves the writes at work; `Pop` ends that and empties the
cache, and marks the threads it overtakes. `CreateInv` supplies the type of what
`WriteFile` writes. `ListInv` says the same of every listing under way, entry by
entry: those walked already are the tree's (`WalkInv`), the list built from them
is (`DraftInv`), and a listing is stored under the version that was read before
its walk or, when that has moved on, is marked `stale` (`StampInv`).

*The pin solver.* `UsedCovers`: every claimed pin, by a lock, a binding of the
given design or of the run, or a bus slot, is in `used_pins` when the pass
begins and ever after; `NotYet`: what the pass has not come to is as it was
given. A pin taken from the free ones is then nobody's. `Settles` is what
`SolverSound` needs: nothing is in use but what a connection, a bus slot or a
lock claims (`Accounts`), so what the first run found nothing for (`LeftOpen`)
the second, which knows only the design, finds nothing for either; a locked
connection has its pin, so the second run's locks bind nothing (`HoldsLock`); a
pin chosen has the lowest penalty of those still free (`Choice`), which orders
what the checker, with tables of its own, would warn of.

*Documents.* The invariant is `DocumentRead`: what a session works on stays a
document the model reads, its parts, buses, connections and automations sequences
and records of their fields (`IsDocument`). Without it nothing could be said of the
tools, which are folds over those sequences; none of them is proved by induction
over data. What a fold does is got from its prefixes instead: a lemma says of a
run, numbered by how far it is, that its next step is a step of the tool, and that
what such a step keeps is kept up to any number (`Climbs`, over the least number
that would fail). In that way `SolveFollows` goes through the passes of the solver,
`DefaultSeeds` and `SeedPartSeeds` through the wires of a new part and its buses,
`DropGrows` through the trimming of buses nobody is on, `InsertRunsAre` through the
members of a module, `OnboardUnmoved` through the peripherals of a board,
`RenamesAre` through the ids a repair gives. The four
stages of an addition (seed, rename, drop, solve) compose to `AddGrows`: the old
parts, connections and buses stand where they stood, and what is behind them is the
new part's. `ToolsKeepTheDesign` is read off that: nothing moves but what an action
may move; a template renders on the new design because the connections it reads are
the old ones (`OldStillRenders`) or, for the new part, because each role it reads
has a connection which the premise says is bound (`NewRenders`); and the id is one
the solver's and seeder's numbering cannot have made an integration's
(`AddAccepts`, with the assumption on the numbers in `Integrations`).
`CheckedParts` says that the premise of `AddKeepsRendering` is what the library
asks: what `check.py` tries on buses is one component, whose connections are its
pins, one each, so a template that renders there reads no more than they bring.
`ReferencesKept` is the part `ReferencesHold` of `DocumentSound`. Its invariant,
`RefsKept`, adds what the next call relies on: ids are apart as they stand in the
lists (`IdsApart`), buses are of a type there is, and none has a name ESPHome
reserves (`Whole`). Each tool is shown to leave a whole design, in which what
referred to something still does and what is new refers (`Linked`); that composes
(`LinkedTwice`), so it reaches through the stages of an addition, the members of a
module and the peripherals of a board. A repair is the hard case: every new id is
none of those taken, the old ones included, so one map for parts, buses and
references cannot bring two of them together (`Sound`, `NamesApart`,
`RenamedWhole`). It rests on `DocumentsAssumption`: sessions start from designs
whose ids and references are in order, and no part shares the reserved name of a
bus, which the first repair would rename for both. What a connection set by hand
names is nobody's promise, and `hand` follows it under the name its part gets.
`DroppedIsWarned` needs no history: in a design that renders, every part is known,
so an action that got no warning is served, and one that is served is lowered.
Of `ArtifactsAgree`, three parts are proved, of every document and library.
`ToolsTold`: the blocks of an ok validation are those of the rendering
(`BlocksTell`), and the warnings about a board are read off the board of the
design (`BoardIsTheDesigns`). `ProgramsTell`: up to each line of the order, hubs
first, every part so far is written or said, and none is written before its hub
(`Upto`, `UptoGrows`). `WledTold`: up to each part, the parts so far are in the
configuration or its warnings (`CfgUpto`), the usermods in the build or its
warnings (`OverrideUpto`).

*The editor.* `ShowsTheDesign` is not inductive: a rendering on its way must be
of the design on the screen, as it is while the debounce rests
(`RendersTheDesign`), since every change of the design starts the debounce and
its end makes the renderings before void. Of the turns: a result is only ever
trimmed for a later one of the same call (`Earned`), which more results do not
undo. A session's messages lie side by side because, while nobody goes away,
there is one turn at a time (`OneAtATime`: the drawer waits for the turn it
sent), a turn has stored nothing before its end (`StoredLate`), and between its
two messages its own is the last in its session and the only one it has there
(`AsksLast`). What the edits do to the design is in no premise.

*The build cache.* `ShapeInv` and `CallInv` say at each point of a generator
what it has written and holds; `LockInv` that the lock of the checkout has the
one holder who entered it; `DirInv` what is in a build directory, and since
whose build. `QuietInv` is the invariant of a slot that nothing disturbed: of its
writers at most one is between its log and its artefact, and either both are of
one run or the slot says so.

*The fleet.* `FleetInv` ties the servers' state to the calls: a call that is
not begun has no build; a build that was taken up read a file at least as new
as its push wrote and no newer than the file is now; a device's dashboard
builds run one after the other, each having read at least what the device's
image was made from; a record that says "ok" is of a build that succeeded and
whose push is not newer than the image. The last two are what `NeverOlder`
lacks to be inductive: the dashboard keeps one image per configuration, and the
image of an old run may since have been replaced, but only by a newer one.
`DialogInv` is about the screen. Every stream carries consecutive pieces of its
own run's log; the stream of the run on the screen goes on exactly where the
screen stops (`Fits`), the first frame on the way, or the handler's offset when
none is, being the last line shown of that run; streams of older runs write to
the same screen and move no other run's place (`ReadToAppend`). A verdict asked
for is of the run shown, so an answer that comes is never put under another
run. What both rest on, and no step may undo, is `Keeps`: a push that is over
stays over, and a build that succeeded stays so.

*The bench.* Both halves of `AloneIsServed` are about a step, and the step is
right only if the calls before it did their part, so the invariant is a ladder.
`Reached` says, of a bring-up with erase that met no other call, what each of
its steps has left: from the flash to the prompt its board is blank but for its
design; from the creation of the device to the end the server's device has its
slot and profile; from the keys on its key; after the flush no used nonce; after
the join one session, of its key, on both sides. It holds although the call
shares the server, its applications and profiles with all the others, half-done
ones among them; the ladder also needs that no two calls that work share a slot
or a board unless they have noted it, that a board is in one slot (`SeatInv`),
and that a job on a slot is the one its call waits for or one whose caller has
given up (`JobInv`): such a job may still erase a board, but only one in a slot
that nobody can have begun on.

*The gate.* `CompleteInv` says, as long as no row is bad, that what the gate has
behind it has its rows: the listing, each entry it has looked at, each task of
the listing that is neither left nor in hand; of the task in hand it says which
rows must be there at which step (a functional check is skipped only after a bad
row). It needs `RosterInv`, that the roster was found good, and `TaskInv`, that
tasks come from the listing and their slots are places. `MarkInv` is about a
slot that nobody has touched since the listing: while the gate writes, its board
is the torn one; afterwards it carries this task's image; and once the slot was
found idle a marker that is new was printed by that image, which has come up since
it was written: that is what makes a good boot row one of that image. It rests on a board being in one slot (`UnitsApart`):
nothing done to another slot reaches this one's board. `QuietInv` adds that on a
bench without disturbance or failure the slot is not busy between the poll that
finds it idle and the reset, and that after the reset the marker has come or its
boot is still ahead with the recorder back, so that no boot check fails. The constants' assumptions are
that the rosters are entries whose frameworks stand under a key `flash`, and that
at first no board is in two slots.

Only model-checked: all liveness (TLAPS has no fairness or `ENABLED` rules that
reach it); `CheckAddsUp` of `DrawerSound` (the rest of it is proved); of `DesignSession`,
`LoadSettles`, what `DocumentSound` says but for `ReferencesHold`, and, of
`ArtifactsAgree`, `NetsAgree`,
`ValidationTells`, `TemplateTells` and `NumbersAgree`; the `EditsSound` of `Editor`; and
`BenchSound` (its types apart, that a codec reads what the firmware packs). What a fold or a recursive function computes for every
input would need induction over data, which is out of the provers' reach here;
that keeps what `Netlist`, `Intake`, `WebDesign`, `Payloads`, Tasmota's template
and the sums of `PartsCheck` compute with TLC, but for what the lemmas on prefixes
above reach.

## Refuted claims

Claims that the code does not keep: of its documentation, and of expectations a
reader would have of it. Each is a formula of the module named, beside the
properties that hold. To see TLC's counterexample, put the formula in the place
of the properties in the configuration of the module's run. None is needed by a
property or a theorem.

| module | formula | behaviour TLC finds |
|---|---|---|
| `DesignStudio` | `CreateNeverReplaces` | two creations pass `exists` (`server.py:310`) together; the later save replaces the earlier, which `:296` rules out |
| | `ActiveIsStored` | a deletion between `set_active_design`'s test and its set (`server.py:962`); `app.py:1331` clears such pointers |
| | `ClearsOnlyItsOwn` | another design made active between a deletion's compare and its clear (`active.py:13`) |
| | `DeletedMeansGone` | save and deletion publish in the opposite order of their writes (`App.tsx:306`) |
| | `AppliedIsStored` | `apply_substitutions` calls `save` with its arguments swapped (`server.py:913`) and raises: a plain bug, no interleaving needed; its docstring (`:891`) says what it should do |
| `DesignEvents` | `QueueFreedOnDisconnect` | a generator that never started never unsubscribes (`events.py:45`) |
| `BrowserSync` | `ShowsTheStore` with `InOrder = FALSE` | two refreshes (`App.tsx:325`) answered out of order leave the older on the screen (`events.py:4`) |
| | `ResetTargetWasStored` | a save of a document whose references `migrate()` repairs: the store keeps the copy, Reset goes back to what was posted (`App.tsx:595`, `app.py:1285`) |
| | `RefreshKeepsEdits` | edits made while a refresh is in flight are overwritten (`App.tsx:305`) |
| | `DeletedWins` | a refresh in flight puts a deleted design back (`App.tsx:306`) |
| | `LateTabReconciles` | a write between the tab's load and its subscription; `hello` is only logged (`app.py:1357`) |
| `InventoryStore` | `EveryRowLands` | an import and a set read the drawer together (`inventory/store.py:142`); the import says nothing of the lost row (`app.py:1525`) |
| `PartsCheck` | `ApplySettles` | applying substitutes twice changes more than once (`check.py:499`) |
| | `ApplyHelps` | applying substitutes leaves more to buy |
| | `ExportKeeps` | exporting and importing the drawer loses what its CSV has no column for (`csv_io.py:3`) |
| `LibraryCache` | `DeletedStopsRendering` | a reader caches an entry after its deletion dropped it (`library/__init__.py:783`); `server.py:211` says designs stop rendering |
| | `ListingRebuilt` | a write lands while a listing is built, and the listing gets the new version (`app.py:284`) |
| `DesignSession` | `HubBinds` | a hub connection is not bound to the hub, as `ads1115_channel.yaml:95` promises; seeding (`seed.py:91`) does not know `hub_ref` |
| | `BusesApart` | `add_component` seeds the second bus of a kind on one pair of pins that `add_bus` refuses (`tools.py:765`) |
| | `SeededBusFree` | a bus is seeded on pins parts are on, and nobody warns (`pin_solver.py:10`) |
| | `RenamesFollow` | substitutions and widget sources keep a renamed part's old id (`migrate.py:198`) |
| | `StrictBlocksErrors` | ids ESPHome refuses pass strict mode (`docs/design-schema.md:133`) |
| | `UnboundApart` | all pins without a GPIO are on one net (`kicad/generator.py:345`, `netlist.py:251`) |
| | `EveryNetAgrees` | the script makes one net per connection of an expander pin or hub, the board one for all |
| | `FollowersAgree` | a subcircuit's role that leads to a rail, bus line or GPIO through another part's gets a net of its own in the script (`kicad/generator.py:424-426`) |
| | `ScriptAlwaysRuns` | the script names lines of a bus the design does not have (`kicad/generator.py:17`) |
| `SolverRun` | `AssignsLegalPins` | a chip select is put on a pin that cannot drive it (`README.md:14`) |
| | `SparesWarnings` | straps, console pins and LED pins are one class, in the order of their names: an output may go to a strap, and be warned of, while a pin whose only mark is the board's LED is free |
| `BuildCache` | `HungBuildIsKilled` | a caller that leaves cancels the watchdog and then waits for a tool nobody ends (`compile.py:265`) |
| | `OneBuildAtATime` | two LoRaWAN builds run side by side (`build_local.py:29`) |
| | `VerdictOfTheBoard` | two routings of one board: one's board, the other's summary (`route.py:222`) |
| | `KilledNeverCached` | a killed router's half session is imported and cached |
| `Provisioning` | `CodecsStayApart` | distinct payloads share a profile's name (`codec.py:328-330`) |
| | `ProvisionsAgain` | a name comes to stand for two applications, and a board of the second cannot be provisioned again |
| | `DoneKeysAgree` | without the erase, done although the server's key is not the board's |
| `BenchGate` | `BootIsOfTheReset` | the marker of a slow boot of the flash lands between the time stamp and the reset, and the row is written while the board is down (`boot.py:138-140`, against `:120-128`) |
| | `GateAlwaysEnds` | the dashboard, ChirpStack or a device's API never answers (`images.py:76-86`, `gate.py:233-239`, `functional.py:108-111`) |
| `PushDialog` | `NeverStranded` | a stream that ended without a verdict leaves the dialog tailing (`PushToFleetDialog.tsx:185-187`) |
| | `OneLog` | a line of the run shown before lands in the log of the run shown now |
| | `FinishedIsTrue` | finished is said of a run whose log goes on |
| | `ImageOfTheRun` | the image handed out for a run is a later one's (`api/app.py:1719`) |
| | `CompilesThePushed` | a push between another's write and compile is what gets built (`fleet/client.py:164`) |
| `FlashDialog` | `PortFreedWithTheDialog` | the dialog closes while the port is being opened (`FlashDialog.tsx:317`, `flash.ts:97-129`) |
| | `VerdictOfTheLastFlash` | an earlier flash's verdict replaces a later one's (`flash.ts:243-247`) |
| | `OneFlashEver` | Meshtastic's button is not disabled, and two panels may each flash (`FlashDialog.tsx:377`, `:464`) |
| `LorawanDialogs` | `WipeReprovisions` | a wiped board asks for keys, and its prompt, heard once already, is not answered again (`LorawanFlashDialog.tsx:297-300`, `:332`) |
| | `ThrowawayReplaced` | an app-only write keeps the throw-away keys (`:431`) |
| | `CodecOfTheFirmware` | the picker has moved on before the codec is asked for (needs two `Choices`) |
| | `JoinedWithTheKeys` | "joined" is of a session with keys replaced since |
| | `TakenKeysAreTheServers` | another registration has replaced the keys a board took |

The claims of a module that another module's run extends are in reach of that
run's configuration: `DesignTools`' by `MCDesignSession`, `FlashDialog`'s and
`LorawanDialogs`' by `MCBrowserSync`, `PartsCheck`'s by `MCInventoryStore`,
`SolverRun`'s by `MCPinSolver`, `BenchGate`'s by `MCProvisioning`.

## Observations

What modelling met that no formula above is about.

*Editor.* An edit made while an agent's turn, a solve or an insertion is under
way is lost (`App.tsx:466`, `:612`, `:620`), although the sidebar says edits go
directly into the live design; an answer landing after another design was
selected puts the old one under the new selection; the last click does not win
in `handleSelectSaved` (`:562`). "New" before `session_start` is undone
(`AgentSidebar.tsx:75`, `:144`), and a stream that ends with neither
`turn_complete` nor `error` leaves its bubble streaming. A part added while the
board is being fetched gets the previous board's rails, for good when the fetch
fails (`App.tsx:356`). The rendering chip stays on when a design is deleted
during its rendering (`:361`, `:391`). Renaming a bus refuses ids that are empty or taken but not those
ESPHome reserves (`BusList.tsx:168-177`, `design.ts:564`), which `add_bus` refuses
(`agent/tools.py:732`); the next load or rendering repairs them, the tab keeps
them. `pinCaveat` (`design.ts:443-462`) calls
boot-strapping and I2C-less pins safe. Adding a bus on the board's defaults
doubles pins in use; removing a bus and adding one reuses its id, so that
dangling connections silently attach. The web's addition of a part differs from
the agent's for passthrough pins and bus ids. A lost connection lets two turns of
one session interleave, and a store failing between a turn's two appends leaves
the user's message alone (`agent.py:339`).

*Seeding and the library's checks.* `board_check.py` does not compare a
peripheral's pins with those of the default buses, and a board with both `button`
and `boot_button` (or `led` and `led_*`) passes it but seeds two parts of one id.
`seed_onboard` on a design that has parts would give ids twice; the dialogs send it
for new designs only. An IMU with one of `sda` and `scl`, and an OLED's own `sda`
and `scl`, are ignored. A part that renders only where `check.py` tries it off the
buses (a camera) passes, and breaks rendering when it is added. `check.py` does not
look for two pins of one role, and a part with more signal pins than the trial board
has plain GPIOs runs its `next()` dry (`check.py:270`). One pad named twice in a
`pin_map`, by name and by number, is not seen as shared. A payload on a board
without a radio loses its `lorawan:` block in silence under target `esphome`,
although `yaml_gen.py:461` leaves the warning to "the validator": only the lorawan
target's has one. A radio board without a default SPI bus passes the check, and its
block has no `sck_pin`.

*Other targets.* Tasmota drops parts on a bus the design does not have without a
word. The Python generators write `None` for the bus of a part whose bus makes no
object, and skip a part whose hub hangs on another hub and is listed after it. Of
two parts for one usermod, `cfg.json` and the override may take settings and pins
from different ones when the first is not wired.

*Solver and documents.* The "deterministic backtracking" of `pin_solver.py:8` is
a greedy pass. A `mcp23s17` is given 8 pins, not 16 (`pin_solver.py:491-497`).
`intent.py:62-65` says bounds are dropped that `yaml_gen.py:286-293` emits. A
part removed and added again meets its old `part_overrides`. Bound targets of a
subcircuit's host that cannot be resolved land together on `UNCONNECTED`.

*Bench.* `mcp/hardware.py:472` imports `wirestudio.targets.lorawan.firmware`,
which does not exist, so `lorawan_compile` always fails. A roster entry with
`functional: true` and no `flash:` is silently not checked (`gate.py:81`,
`:108`, against `:40`). The gate goes by a listing taken minutes before, so that
a board moved into a slot is reflashed with another entry's image; two entries
may claim one slot. `requestPort` after a long `await` has lost the user's
gesture (`flash.ts:77`).

*Parts.* Of two drawer entries of one magnitude and part number the last counts;
merged requirements take the family, polarity and footprint of their first part.
`InventoryDialog` saves entries with an empty `library_id`.

*Fleet.* `httpx` errors other than `FleetUnavailable` are not caught; dashboard
jobs are lost at a restart; the dashboard's commands have no timeout.

## Modelling decisions

- *Threads.* FastAPI runs `def` handlers on a thread pool, and the MCP server
  runs synchronous tools on worker threads.
- *Atomic steps.* A step is one file-system call, one SQLite transaction, one
  dict operation, one request or one access to a shared attribute.
  `self.version += 1` and `self._components[id] = ...` are single steps: CPython
  switches threads between bytecodes only at loop ends and calls, and there is
  none inside.
- *`Path.write_text`* opens with truncation and writes on close. Two overlapping
  writers may leave the longer one's tail behind; the result is then unreadable
  (`Mangled`, or `Torn` in the library). A file unlinked while open is written
  to no path. Running out of disk is left out.
- *SQLite* is serialised transactions that roll back when their process dies.
- *The event loop* runs one coroutine at a time between awaits; worker threads
  run beside it.
- *React.* A state setter and the ref that mirrors it take effect together; the
  few milliseconds between a render and its effect are left out.
- *History variables* (marked so where they are declared) are read by
  properties and never by a guard.
- *Outside the repository* (entries marked external in `PROJECT.json`): a build
  server builds one configuration at a time and reads the file when the worker
  starts; ChirpStack's get and update are one step; the bench's and the gate's
  clocks agree; `esptool` and WebSerial fail or finish; SKiDL's `Net.fetch`
  finds a net by its name. Images come from the caller in the bench API.
- *Repairs.* Every request repairs the ids of the document it is sent
  (`design_input.py`). Where the answer is only whether the design renders
  (`RenderAnswers`) this is left out: `LoadSettles` checks that repairing breaks no
  render. Where the document is kept (loading, saving, `migrate`) it is modelled.
- *Data.* Pins named `GPIOn`, `Dn`, `An` are ordered by number. A subcircuit
  component has one instance where `CoveredBy` is checked against the buy list.

## Not modelled

Enclosures (geometry), Meshtastic's installer (a proxy of release files),
the community, JLCPCB and PrintWarden clients (no state of their own),
authentication (a comparison, and a token file rotated in place) and the web
views without a protocol of their own. Of the components modelled in part are
left out: listing designs; the drawer's SQLite store; bundled and draft library
entries; the electrical budget and voltage rules; the text of the generators
other than what `Generation`, `Firmware` and `Intake` say; placement, drawing, ERC and DRC of the KiCad
export; captures and the proxy routes of the bench; the recommender's text
scores. A hazard that no property covers has a `note` in `PROJECT.json` saying
why: three overlaps the code does not guard against (`server.py:310`,
`server.py:428`, `App.tsx:322`), where the refuted claims above say what happens.

## Plan

Next proofs: of `DocumentSound`, that no tool double-books a pin (the solver's
exclusiveness, proved of `SolverRun`, carried over to `Solve`); of `LoadSettles`,
that the repairs have nothing to do the second time. What remains of `BenchSound`
and `DrawerSound` is about folds over the data and stays with TLC. Next models: the
electrical checks of `library/electrical.py`, and the SQLite store of the drawer.
