---------------------------- MODULE FlashDialog ----------------------------
(***************************************************************************)
(* web/src/components/FlashDialog.tsx and web/src/lib/flash.ts: the dialog *)
(* that flashes a board, on this machine's USB through WebSerial or on a   *)
(* slot of the bench, and then pushes a configuration over the same port.  *)
(* One panel per framework; picking another framework, or closing the      *)
(* dialog, unmounts the panel, but not what it has under way.  The board,  *)
(* the browser's serial port, the bench and the releases' servers are      *)
(* external: here as the code uses them.                                   *)
(***************************************************************************)
EXTENDS Naturals

CONSTANTS
    MaxFlashes,   \* bound: flashes begun
    MaxMounts,    \* bound: panels mounted, one after the other
    MaxPushes,    \* bound: configurations pushed
    MaxFaults     \* bound: downloads, writes and pushes that fail

ASSUME FlashBounds ==
    /\ {MaxFlashes, MaxMounts, MaxPushes} \subseteq Nat \ {0}
    /\ MaxFaults \in Nat

Frameworks == {"tasmota", "meshtastic", "circuitpython", "micropython"}
Targets == {"usb", "slot"}
Flashes == 1 .. MaxFlashes

VARIABLES
    panel,    \* the panel on screen, and its refs; number 0: none
    flash,    \* the runs of handleFlash
    push,     \* the run of pushConfig, push or handlePush in flight
    port,     \* who has the serial port open: [user, n]
    usb,      \* the board on the port: [image, file]
    bench,    \* the board in the slot: [image, job]
    boots,    \* verify-boot requests in flight: of these flashes
    spent     \* [pushes, faults] used up

flashVars == <<panel, flash, push, port, usb, bench, boots, spent>>

NoPanel == [number |-> 0, kind |-> "none", ready |-> FALSE, phase |-> "idle",
            target |-> "usb", session |-> 0, boot |-> 0]
Unborn == [by |-> 0, kind |-> "none", target |-> "usb", pc |-> "unused"]
NoPush == [by |-> 0, kind |-> "none", via |-> "none", session |-> 0, pc |-> "none"]
Free == [user |-> "none", n |-> 0]
HeldBy(user, n) == [user |-> user, n |-> n]

FlashInit ==
    /\ panel = NoPanel
    /\ flash = [n \in Flashes |-> Unborn]
    /\ push = NoPush
    /\ port = Free
    /\ usb = [image |-> 0, file |-> "none"]
    /\ bench = [image |-> 0, job |-> 0]
    /\ boots = {}
    /\ spent = [pushes |-> 0, mounts |-> 0, faults |-> 0]

UnderWay(n) == flash[n].pc \in {"fetch", "ask", "write", "boot", "send", "sent"}
Faulty(ok) ==
    /\ ok \/ spent.faults < MaxFaults
    /\ spent' = IF ok THEN spent ELSE [spent EXCEPT !.faults = @ + 1]

\* setPhase and the like, of a panel that may have been unmounted since: then
\* nothing changes on the screen.
Sets(by, new) == panel' = IF panel.number = by THEN new ELSE panel
Shows(by, phase) == Sets(by, [panel EXCEPT !.phase = phase])

-----------------------------------------------------------------------------
(* The panel.                                                              *)

\* The session's close() disconnects the port, if it is the session's.
PortWithout(session) ==
    IF session # 0 /\ port = HeldBy("flash", session) THEN Free ELSE port

\* The effect's cleanup: what the refs hold is closed.
Unmounted_KeepsPort(session) == port
Unmounted(session) == PortWithout(session)

\* The framework buttons are never disabled; "esphome" leaves no panel.
PickFramework(kind) ==
    /\ kind # panel.kind
    /\ kind \in Frameworks => spent.mounts < MaxMounts
    /\ port' = Unmounted(panel.session)
    /\ IF kind \in Frameworks
       THEN /\ spent' = [spent EXCEPT !.mounts = @ + 1]
            /\ panel' = [NoPanel EXCEPT !.number = spent.mounts + 1, !.kind = kind]
       ELSE panel' = NoPanel /\ UNCHANGED spent
    /\ UNCHANGED <<flash, push, usb, bench, boots>>

\* The probe of the firmware's status, unless it was cancelled.
ProbeAnswered ==
    /\ panel.number # 0 /\ ~panel.ready
    /\ panel' = [panel EXCEPT !.ready = TRUE]
    /\ UNCHANGED <<flash, push, port, usb, bench, boots, spent>>

Busy_NotFetching ==
    panel.phase \in {"flashing"} \union
        (IF panel.kind \in {"tasmota", "micropython"} THEN {"pushing"} ELSE {})
Busy ==
    panel.phase \in {"fetching", "flashing"} \union
        (IF panel.kind \in {"tasmota", "micropython"} THEN {"pushing"} ELSE {})

PickTarget(t) ==
    /\ panel.number # 0 /\ ~Busy /\ t # panel.target
    /\ panel' = [panel EXCEPT !.target = t]
    /\ UNCHANGED <<flash, push, port, usb, bench, boots, spent>>

-----------------------------------------------------------------------------
(* handleFlash.                                                            *)

HandleFlash(n) ==
    /\ panel.ready /\ ~Busy
    /\ flash[n] = Unborn /\ \A m \in Flashes : m < n => flash[m] # Unborn
    /\ flash' = [flash EXCEPT ![n] = [by |-> panel.number, kind |-> panel.kind,
                                      target |-> panel.target, pc |-> "fetch"]]
    /\ panel' = [panel EXCEPT !.phase = "fetching", !.boot = 0]
    /\ UNCHANGED <<push, port, usb, bench, boots, spent>>

FlashAt(n, pc) == flash' = [flash EXCEPT ![n].pc = pc]
FlashFails(n) == FlashAt(n, "failed") /\ Shows(flash[n].by, "idle")

\* The image is there, and flashToTarget goes one way or the other.
Fetched(n, ok) ==
    /\ flash[n].pc = "fetch" /\ Faulty(ok)
    /\ IF ok
       THEN /\ FlashAt(n, IF flash[n].target = "usb" THEN "ask" ELSE "send")
            /\ Shows(flash[n].by, "flashing")
       ELSE FlashFails(n)
    /\ UNCHANGED <<push, port, usb, bench, boots>>

\* requestPort, and the loader opens the port: it cannot while it is open.
AskPort(n, picked) ==
    /\ flash[n].pc = "ask" /\ Faulty(picked)
    /\ IF picked /\ port = Free
       THEN /\ FlashAt(n, "write") /\ port' = HeldBy("flash", n) /\ UNCHANGED panel
       ELSE FlashFails(n) /\ UNCHANGED port
    /\ UNCHANGED <<push, usb, bench, boots>>

\* A full erase and the write.  When it fails nothing closes the port.
WriteFlash(n, ok) ==
    /\ flash[n].pc = "write" /\ Faulty(ok)
    /\ usb' = [image |-> IF ok THEN n ELSE 0, file |-> "none"]
    /\ IF ok THEN FlashAt(n, "boot") /\ UNCHANGED panel
             ELSE FlashFails(n)
    /\ UNCHANGED <<push, port, bench, boots>>

\* flashToTarget returns: the session, or null from the bench, is the
\* panel's, whatever its ref held.  The ref of a panel that is gone holds it
\* for nobody.
Returns(n, session) ==
    /\ FlashAt(n, IF flash[n].by = panel.number THEN "done" ELSE "orphan")
    /\ Sets(flash[n].by, [panel EXCEPT !.session = session, !.phase = "flashed"])

SessionReturned(n) ==
    /\ flash[n].pc = "boot"
    /\ Returns(n, n)
    /\ UNCHANGED <<push, port, usb, bench, boots, spent>>

\* POST /workbench/flash, which the bench refuses while it has a job.
SendFlash(n) ==
    /\ flash[n].pc = "send"
    /\ IF bench.job = 0
       THEN bench' = [bench EXCEPT !.job = n] /\ FlashAt(n, "sent") /\ UNCHANGED panel
       ELSE FlashFails(n) /\ UNCHANGED bench
    /\ UNCHANGED <<push, port, usb, boots, spent>>

\* The stream ends; watchSlot asks for the boot's verdict, which resets the
\* board and may take a minute.
BenchAnswers(n, ok) ==
    /\ flash[n].pc = "sent" /\ Faulty(ok)
    /\ bench' = [image |-> IF ok THEN n ELSE 0, job |-> 0]
    /\ IF ok THEN Returns(n, 0) /\ boots' = boots \union {n}
             ELSE FlashFails(n) /\ UNCHANGED boots
    /\ UNCHANGED <<push, port, usb>>

BootVerdict(n) ==
    /\ n \in boots /\ bench.job = 0
    /\ boots' = boots \ {n}
    /\ Sets(flash[n].by, [panel EXCEPT !.boot = n])
    /\ UNCHANGED <<flash, push, port, usb, bench, spent>>

-----------------------------------------------------------------------------
(* The push that follows: Meshtastic's settings and MicroPython's main.py  *)
(* over the port the session hands back, or that of a board picked for it; *)
(* Tasmota's commands through the session.                                 *)

Pushing == IF panel.kind = "meshtastic" THEN "configuring" ELSE "pushing"
Pushed(kind) == IF kind = "meshtastic" THEN "configured" ELSE "pushed"

Begins(via, session, kept) ==
    /\ push = NoPush /\ spent.pushes < MaxPushes
    /\ spent' = [spent EXCEPT !.pushes = @ + 1]
    /\ push' = [by |-> panel.number, kind |-> panel.kind, via |-> via,
                session |-> session, pc |-> IF via = "session" THEN "run" ELSE "open"]
    /\ panel' = [panel EXCEPT !.phase = Pushing, !.session = kept]
    /\ UNCHANGED <<flash, usb, bench, boots>>

\* pushToFlashed: release closes the session before anything is opened.
PushToFlashed ==
    /\ panel.phase = "flashed" /\ panel.session # 0
    /\ \/ panel.kind = "meshtastic" /\ panel.target = "usb"
       \/ panel.kind = "micropython"
    /\ port' = PortWithout(panel.session)
    /\ Begins("release", panel.session, 0)

PushToConnected ==
    /\ \/ panel.kind = "meshtastic" /\ panel.phase \notin {"flashing", "fetching", "configuring"}
       \/ panel.kind = "micropython" /\ ~Busy /\ panel.phase # "flashed" /\ panel.target = "usb"
    /\ UNCHANGED port
    /\ Begins("pick", 0, panel.session)

HandlePush ==
    /\ panel.kind = "tasmota" /\ panel.phase \in {"flashed", "pushed"} /\ panel.session # 0
    /\ UNCHANGED port
    /\ Begins("session", panel.session, panel.session)

PushFails ==
    /\ push' = NoPush
    /\ Shows(push.by, IF push.kind = "tasmota" \/ panel.session # 0 THEN "flashed" ELSE "idle")

OpenForPush(picked) ==
    /\ push.pc = "open"
    /\ push.via = "release" => picked
    /\ Faulty(picked)
    /\ IF picked /\ port = Free
       THEN /\ port' = HeldBy("push", 0) /\ push' = [push EXCEPT !.pc = "run"]
            /\ UNCHANGED panel
       ELSE PushFails /\ UNCHANGED port
    /\ UNCHANGED <<flash, usb, bench, boots>>

\* Whether the board on the port understands: its framework's, and the port
\* is still the one the push was given.
Understood ==
    /\ usb.image # 0 /\ flash[usb.image].kind = push.kind
    /\ push.via = "session" => port = HeldBy("flash", push.session)

\* main.py is truncated by its open, and whole when it is closed.
PushEnds(ok) ==
    /\ push.pc = "run"
    /\ ok => Understood
    /\ IF Understood THEN Faulty(ok) ELSE UNCHANGED spent
    /\ usb' = IF push.kind = "micropython" /\ Understood
              THEN [usb EXCEPT !.file = IF ok THEN "whole" ELSE "torn"] ELSE usb
    /\ port' = IF push.via = "session" THEN port ELSE Free
    /\ IF ok THEN push' = NoPush /\ Shows(push.by, Pushed(push.kind)) ELSE PushFails
    /\ UNCHANGED <<flash, bench, boots>>

FlashNext ==
    \/ \E k \in Frameworks \union {"none"} : PickFramework(k)
    \/ ProbeAnswered
    \/ \E t \in Targets : PickTarget(t)
    \/ \E n \in Flashes : HandleFlash(n) \/ SessionReturned(n) \/ SendFlash(n) \/ BootVerdict(n)
    \/ \E n \in Flashes, ok \in BOOLEAN :
          Fetched(n, ok) \/ AskPort(n, ok) \/ WriteFlash(n, ok) \/ BenchAnswers(n, ok)
    \/ PushToFlashed \/ PushToConnected \/ HandlePush
    \/ \E ok \in BOOLEAN : OpenForPush(ok) \/ PushEnds(ok)

FlashSpec == FlashInit /\ [][FlashNext]_flashVars

-----------------------------------------------------------------------------
\* The port is open only while somebody can still close it: a flash or a push
\* under way, or the session of the panel on screen.  What the code lets slip
\* is exactly this: a flash that failed while it wrote, one whose panel was
\* gone when it returned, and a session the panel dropped when it flashed a
\* slot instead (FlashDialog.tsx:290-292, flash.ts:97-129).
Slipped(n) ==
    \/ flash[n].pc \in {"failed", "orphan"}
    \/ \E m \in Flashes : m # n /\ flash[m].by = flash[n].by
                             /\ flash[m].target = "slot" /\ flash[m].pc = "done"
PortAccounted ==
    /\ port.user = "flash" => UnderWay(port.n) \/ panel.session = port.n \/ Slipped(port.n)
    /\ port.user = "push" => push.pc = "run"

\* A session on screen is of the board on the port, which nothing else has
\* flashed since: commands go to the board they were made for.
SessionIsLive ==
    panel.session # 0 => /\ port = HeldBy("flash", panel.session)
                         /\ usb.image = panel.session

\* A panel flashes one image at a time, on the bench too: the button waits
\* (all but Meshtastic's, see OneFlashEver).
OneFlashAtATime ==
    \A m, n \in Flashes :
        UnderWay(m) /\ UnderWay(n) /\ flash[m].by = flash[n].by /\ m # n =>
            flash[m].kind = "meshtastic"

FlashTypeOK ==
    /\ panel.kind \in Frameworks \union {"none"} /\ panel.target \in Targets
    /\ panel.session \in Flashes \union {0} /\ boots \subseteq Flashes
    /\ port.user \in {"none", "flash", "push"}
    /\ usb.file \in {"none", "torn", "whole"} /\ bench.job \in Flashes \union {0}

FlashSound == FlashTypeOK /\ PortAccounted /\ SessionIsLive /\ OneFlashAtATime

-----------------------------------------------------------------------------
\* What the code's words promise and TLC refutes; see the README.

\* "Release the WebSerial port when the dialog unmounts".
PortFreedWithTheDialog ==
    panel.number = 0 /\ push = NoPush /\ ~(\E n \in Flashes : UnderWay(n)) => port = Free

\* The verdict on screen is of the panel's last flash.
VerdictOfTheLastFlash ==
    \A n \in Flashes : panel.boot = n => \A m \in Flashes : flash[m].by = panel.number => m <= n

OneFlashEver ==
    \A m, n \in Flashes : UnderWay(m) /\ UnderWay(n) /\ flash[m].by = flash[n].by => m = n
=============================================================================
