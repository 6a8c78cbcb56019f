----------------------------- MODULE WebProofs -----------------------------
(***************************************************************************)
(* Proofs about the browser's parts, for every bound.  First the flash     *)
(* dialog's port (FlashDialog), then the tab on its design (BrowserSync),  *)
(* then the dialogs that bring a LoRaWAN board up (LorawanDialogs).        *)
(***************************************************************************)
EXTENDS BrowserSync, FlashDialog, LorawanDialogs, SequenceTheorems, TLAPS

-----------------------------------------------------------------------------
(* FlashDialog: the inductive invariant.                                   *)

Phases == {"idle", "fetching", "flashing", "flashed", "pushing", "pushed",
           "configuring", "configured"}
Panels == [number : Nat, kind : Frameworks \union {"none"}, ready : BOOLEAN, phase : Phases,
           target : Targets, session : Flashes \union {0}, boot : Flashes \union {0}]
FlashRuns == [by : Nat, kind : Frameworks \union {"none"}, target : Targets,
              pc : {"unused", "fetch", "ask", "write", "boot", "send", "sent", "failed",
                    "done", "orphan"}]
PushRuns == [by : Nat, kind : Frameworks \union {"none"},
             via : {"none", "session", "release", "pick"}, session : Flashes \union {0},
             pc : {"none", "open", "run"}]

FlashShape ==
    /\ panel \in Panels
    /\ flash \in [Flashes -> FlashRuns]
    /\ push \in PushRuns
    /\ port \in [user : {"none", "flash", "push"}, n : Flashes \union {0}]
    /\ usb \in [image : Flashes \union {0}, file : {"none", "torn", "whole"}]
    /\ bench \in [image : Flashes \union {0}, job : Flashes \union {0}]
    /\ boots \subseteq Flashes
    /\ spent \in [pushes : Nat, mounts : Nat, faults : Nat]

\* Panels are numbered in their order: what a flash or a push sets on the
\* screen it sets on its own panel, of its own kind, or nowhere.
OwnInv ==
    /\ panel.number <= spent.mounts
    /\ panel.number = 0 => panel.kind = "none" /\ ~panel.ready /\ panel.session = 0
    /\ \A n \in Flashes : flash[n].pc # "unused" =>
          /\ flash[n].by \in 1 .. spent.mounts
          /\ flash[n].by = panel.number => flash[n].kind = panel.kind
    /\ \A n \in boots : flash[n].pc # "unused"
    /\ push.pc # "none" =>
          /\ push.by \in 1 .. spent.mounts
          /\ push.kind \in {"tasmota", "micropython", "meshtastic"}
          /\ push.by = panel.number => push.kind = panel.kind

\* The phase on screen is that of the one flash or push of the panel.
PhaseInv ==
    /\ \A n \in Flashes : UnderWay(n) /\ flash[n].by = panel.number /\ flash[n].kind # "meshtastic"
          => panel.phase = IF flash[n].pc = "fetch" THEN "fetching" ELSE "flashing"
    /\ push.pc # "none" /\ push.by = panel.number /\ push.kind # "meshtastic"
          => panel.phase = "pushing"

\* The port is of the flash that writes or has written, or of the push that
\* opened it; a session on screen is of a flash that is done.
PortInv ==
    /\ \A n \in Flashes :
          /\ flash[n].pc \in {"write", "boot"} => port = HeldBy("flash", n)
          /\ flash[n].pc = "boot" => usb.image = n
          /\ flash[n].pc \in {"send", "sent"} => flash[n].target = "slot"
    /\ push.pc = "run" /\ push.via # "session" => port = HeldBy("push", 0)
    /\ push.pc = "open" => push.via # "session"
    /\ port.user = "push" => push.pc = "run" /\ push.via # "session"
    /\ port.user = "flash" =>
          /\ port.n \in Flashes
          /\ flash[port.n].pc \in {"write", "boot", "failed", "done", "orphan"}
    /\ panel.session # 0 =>
          flash[panel.session].pc = "done" /\ flash[panel.session].by = panel.number

FInv == FlashShape /\ OwnInv /\ PhaseInv /\ PortInv /\ PortAccounted /\ SessionIsLive /\ OneFlashAtATime
-----------------------------------------------------------------------------
(* Records.                                                                *)

LEMMA PortRecords ==
    /\ Free.user = "none" /\ Free.n = 0
    /\ \A user, n : HeldBy(user, n).user = user /\ HeldBy(user, n).n = n
  BY DEF Free, HeldBy

LEMMA FlashTypes ==
    ASSUME FInv
    PROVE  /\ panel.session \in Flashes \union {0} /\ panel.number \in Nat
           /\ spent.mounts \in Nat
           /\ port.user = "flash" => port.n \in Flashes
  BY DEF FInv, FlashShape, Panels, PortInv

\* What setPhase does, to the panel that asked or to none.
LEMMA ScreenPhase ==
    ASSUME panel \in Panels, NEW by, NEW phase \in Phases, Shows(by, phase)
    PROVE  /\ panel' \in Panels
           /\ panel'.number = panel.number /\ panel'.kind = panel.kind
           /\ panel'.ready = panel.ready /\ panel'.target = panel.target
           /\ panel'.session = panel.session /\ panel'.boot = panel.boot
           /\ panel'.phase = IF panel.number = by THEN phase ELSE panel.phase
  BY DEF Shows, Sets, Panels

\* What a step of one flash leaves of the others.
LEMMA FlashStepAt ==
    ASSUME flash \in [Flashes -> FlashRuns], NEW n \in Flashes,
           NEW pc \in {"unused", "fetch", "ask", "write", "boot", "send", "sent", "failed",
                       "done", "orphan"},
           FlashAt(n, pc)
    PROVE  /\ flash' \in [Flashes -> FlashRuns]
           /\ \A m \in Flashes : /\ flash'[m].by = flash[m].by /\ flash'[m].kind = flash[m].kind
                                 /\ flash'[m].target = flash[m].target
                                 /\ flash'[m].pc = IF m = n THEN pc ELSE flash[m].pc
  BY DEF FlashAt, FlashRuns

-----------------------------------------------------------------------------
(* FlashDialog: the panel.                                                 *)

LEMMA FlashInitInv == ASSUME FlashInit PROVE FInv
  <1>1. FlashShape
    BY FlashBounds DEF FlashInit, FlashShape, Panels, FlashRuns, PushRuns, NoPanel, Unborn,
       NoPush, Free, Phases, Targets, Frameworks
  <1>2. OwnInv /\ PhaseInv /\ PortInv /\ PortAccounted /\ SessionIsLive /\ OneFlashAtATime
    BY DEF FlashInit, OwnInv, PhaseInv, PortInv, PortAccounted, SessionIsLive, OneFlashAtATime,
       NoPanel, Unborn, NoPush, Free, UnderWay
  <1> QED BY <1>1, <1>2 DEF FInv

\* A panel replaced or removed: nothing under way is the new one's.
LEMMA PickFrameworkStep ==
    ASSUME FInv, NEW kind \in Frameworks \union {"none"}, PickFramework(kind)
    PROVE  FInv'
  <1> USE DEF FInv
  <1>1. /\ UNCHANGED <<flash, push, usb, bench, boots>>
        /\ port' = IF panel.session # 0 /\ port = HeldBy("flash", panel.session)
                   THEN Free ELSE port
    BY DEF PickFramework, Unmounted, PortWithout
  <1>2. /\ panel' \in Panels /\ panel'.session = 0 /\ panel'.phase = "idle" /\ ~panel'.ready
        /\ spent' \in [pushes : Nat, mounts : Nat, faults : Nat]
        /\ \/ panel'.number = spent.mounts + 1 /\ spent'.mounts = spent.mounts + 1
           \/ panel'.number = 0 /\ panel'.kind = "none" /\ spent'.mounts = spent.mounts
    <2>1. CASE kind \in Frameworks
      <3>1. /\ spent' = [spent EXCEPT !.mounts = @ + 1]
            /\ panel' = [NoPanel EXCEPT !.number = spent.mounts + 1, !.kind = kind]
        BY <2>1 DEF PickFramework
      <3>2. /\ spent' \in [pushes : Nat, mounts : Nat, faults : Nat]
            /\ spent'.mounts = spent.mounts + 1 /\ spent.mounts + 1 \in Nat
        BY <3>1 DEF FlashShape
      <3>3. /\ panel' \in Panels /\ panel'.session = 0 /\ panel'.phase = "idle"
            /\ ~panel'.ready /\ panel'.number = spent.mounts + 1
        BY <2>1, <3>1, <3>2 DEF Panels, NoPanel, Phases, Targets
      <3> QED BY <3>2, <3>3
    <2>2. CASE kind \notin Frameworks
      <3>1. panel' = NoPanel /\ UNCHANGED spent
        BY <2>2 DEF PickFramework
      <3> QED BY <3>1 DEF FlashShape, Panels, NoPanel, Phases, Targets
    <2> QED BY <2>1, <2>2
  <1>3. spent.mounts \in Nat /\ panel.number \in Nat
    BY DEF FlashShape, Panels
  <1>4. FlashShape'
    BY <1>1, <1>2 DEF FlashShape, Free
  <1>5. OwnInv'
    BY <1>1, <1>2, <1>3 DEF OwnInv, FlashShape, FlashRuns, PushRuns
  <1>6. \A n \in Flashes : flash[n].pc # "unused" => flash[n].by # panel'.number
    BY <1>2, <1>3 DEF OwnInv
  <1>7. push.pc # "none" => push.by # panel'.number
    BY <1>2, <1>3 DEF OwnInv
  <1>8. PhaseInv'
    BY <1>1, <1>6, <1>7 DEF PhaseInv, UnderWay
  <1>9. port = HeldBy("flash", panel.session) \/ port' = port
    BY <1>1
  <1>10. PortInv'
    BY <1>1, <1>2, PortRecords DEF PortInv
  <1>11. PortAccounted' /\ SessionIsLive' /\ OneFlashAtATime'
    BY <1>1, <1>2, PortRecords
       DEF PortAccounted, SessionIsLive, OneFlashAtATime, UnderWay, Slipped
  <1> QED BY <1>4, <1>5, <1>8, <1>10, <1>11

\* What sets on the screen neither phase nor session.
LEMMA QuietPanelSteps ==
    ASSUME FInv,
           \/ ProbeAnswered
           \/ \E t \in Targets : PickTarget(t)
           \/ \E n \in Flashes : BootVerdict(n)
    PROVE  FInv'
  <1> USE DEF FInv
  <1> DEFINE Same == /\ panel' \in Panels /\ panel'.number = panel.number
                     /\ panel'.kind = panel.kind /\ panel'.phase = panel.phase
                     /\ panel'.session = panel.session
                     /\ panel.number = 0 => panel'.ready = panel.ready
  <1>1. Same
    <2>1. CASE ProbeAnswered
      BY <2>1 DEF ProbeAnswered, FlashShape, Panels
    <2>2. CASE \E t \in Targets : PickTarget(t)
      BY <2>2 DEF PickTarget, FlashShape, Panels
    <2>3. ASSUME NEW n \in Flashes, BootVerdict(n) PROVE  Same
      BY <2>3 DEF BootVerdict, Sets, FlashShape, Panels
    <2> QED BY <2>1, <2>2, <2>3
  <1>2. UNCHANGED <<flash, push, port, usb, bench, spent>> /\ boots' \subseteq boots
    BY DEF ProbeAnswered, PickTarget, BootVerdict
  <1>3. FlashShape' /\ OwnInv'
    BY <1>1, <1>2 DEF FlashShape, OwnInv
  <1>4. PhaseInv' /\ PortInv'
    BY <1>1, <1>2 DEF PhaseInv, PortInv, UnderWay
  <1>5. PortAccounted' /\ SessionIsLive' /\ OneFlashAtATime'
    BY <1>1, <1>2 DEF PortAccounted, SessionIsLive, OneFlashAtATime, UnderWay, Slipped
  <1> QED BY <1>3, <1>4, <1>5

\* The button: no other flash or push of the panel is under way.
LEMMA HandleFlashStep == ASSUME FInv, NEW n \in Flashes, HandleFlash(n) PROVE FInv'
  <1> USE DEF FInv
  <1> DEFINE f == [by |-> panel.number, kind |-> panel.kind, target |-> panel.target,
                   pc |-> "fetch"]
  <1>1. /\ panel' \in Panels /\ panel'.number = panel.number /\ panel'.kind = panel.kind
        /\ panel'.phase = "fetching" /\ panel'.session = panel.session
        /\ panel'.ready = panel.ready
    BY DEF HandleFlash, FlashShape, Panels, Phases
  <1>2. /\ UNCHANGED <<push, port, usb, bench, boots, spent>> /\ panel.ready /\ ~Busy
        /\ flash[n].pc = "unused" /\ flash' = [flash EXCEPT ![n] = f]
    BY DEF HandleFlash, Unborn
  <1>3. f \in FlashRuns /\ flash' \in [Flashes -> FlashRuns]
        /\ \A m \in Flashes : flash'[m] = IF m = n THEN f ELSE flash[m]
    BY <1>2 DEF FlashShape, FlashRuns, Panels
  <1>4. panel.number \in 1 .. spent.mounts
    BY <1>2 DEF OwnInv, FlashShape, Panels
  <1>5. \A m \in Flashes : UnderWay(m) /\ flash[m].by = panel.number => flash[m].kind = "meshtastic"
    BY <1>2 DEF PhaseInv, Busy
  <1>6. push.pc # "none" /\ push.by = panel.number => push.kind = "meshtastic"
    BY <1>2 DEF PhaseInv, Busy, OwnInv
  <1>7. FlashShape' /\ OwnInv'
    BY <1>1, <1>2, <1>3, <1>4 DEF FlashShape, OwnInv
  <1>8. PhaseInv'
    BY <1>1, <1>2, <1>3, <1>5, <1>6 DEF PhaseInv, UnderWay
  <1>9. PortInv'
    BY <1>1, <1>2, <1>3 DEF PortInv
  <1>10. PortAccounted'
    BY <1>1, <1>2, <1>3 DEF PortAccounted, UnderWay, Slipped, PortInv
  <1>11. SessionIsLive'
    BY <1>1, <1>2 DEF SessionIsLive
  <1>12. OneFlashAtATime'
    <2>1. ASSUME NEW m \in Flashes, m # n, UnderWay(m), flash[m].by = panel.number
          PROVE  panel.kind = "meshtastic" /\ flash[m].kind = "meshtastic"
      BY <1>5, <2>1 DEF OwnInv, UnderWay
    <2> QED BY <1>3, <2>1 DEF OneFlashAtATime, UnderWay
  <1> QED BY <1>7, <1>8, <1>9, <1>10, <1>11, <1>12

-----------------------------------------------------------------------------
(* FlashDialog: a flash goes on.                                           *)

\* Two flashes or a flash and a push of one panel are not under way at once,
\* so what one sets on the screen is not what another has set there.
LEMMA FlashMoves ==
    ASSUME FInv, NEW n \in Flashes, UnderWay(n),
           NEW pc \in {"ask", "write", "boot", "send", "sent", "failed", "done", "orphan"},
           FlashAt(n, pc), UNCHANGED push, boots' \subseteq boots \union {n},
           spent'.mounts = spent.mounts,
           panel' \in Panels, panel'.number = panel.number, panel'.kind = panel.kind,
           panel'.ready = panel.ready, panel'.session # panel.session => panel.number # 0,
           panel'.phase # panel.phase => flash[n].by = panel.number,
           pc \in {"ask", "write", "boot", "send", "sent"} /\ flash[n].by = panel.number
               => panel'.phase = "flashing"
                  \/ (panel'.phase = panel.phase /\ flash[n].pc # "fetch")
    PROVE  OwnInv' /\ PhaseInv' /\ OneFlashAtATime'
  <1> USE DEF FInv
  <1>1. /\ flash' \in [Flashes -> FlashRuns]
        /\ \A m \in Flashes : /\ flash'[m].by = flash[m].by /\ flash'[m].kind = flash[m].kind
                              /\ flash'[m].target = flash[m].target
                              /\ flash'[m].pc = IF m = n THEN pc ELSE flash[m].pc
    BY FlashStepAt DEF FlashShape
  <1>2. flash[n].pc # "unused"
    BY DEF UnderWay
  <1>3. OwnInv'
    <2>1. panel'.number = 0 => panel'.session = 0
      BY DEF OwnInv
    <2>2. \A m \in boots' : flash[m].pc # "unused" /\ m \in Flashes
      BY <1>2 DEF OwnInv, FlashShape
    <2> QED BY <1>1, <1>2, <2>1, <2>2, FlashTypes DEF OwnInv
  <1>4. OneFlashAtATime'
    <2>1. \A m \in Flashes : UnderWay(m)' => UnderWay(m)
      BY <1>1 DEF UnderWay
    <2> QED BY <1>1, <2>1 DEF OneFlashAtATime
  <1>5. ASSUME NEW m \in Flashes, UnderWay(m)', flash[m].by = panel.number,
               flash[m].kind # "meshtastic"
        PROVE  panel'.phase = IF flash'[m].pc = "fetch" THEN "fetching" ELSE "flashing"
    <2>1. CASE m = n
      <3>1. pc \in {"ask", "write", "boot", "send", "sent"}
        BY <1>1, <1>5, <2>1 DEF UnderWay
      <3> QED BY <1>1, <1>5, <2>1, <3>1 DEF PhaseInv
    <2>2. CASE m # n
      <3>1. UnderWay(m) /\ flash[n].by # panel.number
        BY <1>1, <1>5, <2>2 DEF UnderWay, OneFlashAtATime
      <3> QED BY <1>1, <1>5, <2>2, <3>1 DEF PhaseInv
    <2> QED BY <2>1, <2>2
  <1>6. ASSUME push.pc # "none", push.by = panel.number, push.kind # "meshtastic"
        PROVE  panel'.phase = "pushing"
    <2>1. panel.phase = "pushing"
      BY <1>6 DEF PhaseInv
    <2>2. flash[n].by # panel.number
      BY <1>2, <1>6, <2>1 DEF PhaseInv, OwnInv
    <2> QED BY <2>1, <2>2
  <1> QED BY <1>1, <1>3, <1>4, <1>5, <1>6 DEF PhaseInv

\* The image is there, or a step failed before the port was open.
LEMMA FetchedStep ==
    ASSUME FInv, NEW n \in Flashes, NEW ok \in BOOLEAN, Fetched(n, ok) PROVE FInv'
  <1> USE DEF FInv
  <1>0. /\ flash[n].pc = "fetch" /\ UNCHANGED <<push, port, usb, bench, boots>>
        /\ spent' \in [pushes : Nat, mounts : Nat, faults : Nat] /\ spent'.mounts = spent.mounts
    BY DEF Fetched, Faulty, FlashShape
  <1>1. PICK pc \in {"ask", "send", "failed"}, phase \in {"flashing", "idle"} :
           /\ FlashAt(n, pc) /\ Shows(flash[n].by, phase)
           /\ pc # "failed" => phase = "flashing"
           /\ pc = "send" => flash[n].target = "slot"
    BY DEF Fetched, FlashFails, FlashShape, FlashRuns, Targets
  <1>2. /\ panel' \in Panels
        /\ panel'.number = panel.number /\ panel'.kind = panel.kind
        /\ panel'.ready = panel.ready /\ panel'.session = panel.session
        /\ panel'.phase = IF panel.number = flash[n].by THEN phase ELSE panel.phase
    BY <1>1, ScreenPhase DEF FlashShape, Phases
  <1>3. /\ flash' \in [Flashes -> FlashRuns]
        /\ \A m \in Flashes : /\ flash'[m].by = flash[m].by /\ flash'[m].kind = flash[m].kind
                              /\ flash'[m].target = flash[m].target
                              /\ flash'[m].pc = IF m = n THEN pc ELSE flash[m].pc
    BY <1>1, FlashStepAt DEF FlashShape
  <1>4. FlashShape'
    BY <1>0, <1>2, <1>3 DEF FlashShape
  <1>5. OwnInv' /\ PhaseInv' /\ OneFlashAtATime'
    BY <1>0, <1>1, <1>2, FlashMoves DEF UnderWay
  <1>6. PortInv' /\ PortAccounted' /\ SessionIsLive'
    BY <1>0, <1>1, <1>2, <1>3, FlashTypes DEF PortInv, PortAccounted, SessionIsLive, UnderWay, Slipped
  <1> QED BY <1>4, <1>5, <1>6

LEMMA AskPortStep ==
    ASSUME FInv, NEW n \in Flashes, NEW picked \in BOOLEAN, AskPort(n, picked) PROVE FInv'
  <1> USE DEF FInv
  <1>0. /\ flash[n].pc = "ask" /\ UNCHANGED <<push, usb, bench, boots>>
        /\ spent' \in [pushes : Nat, mounts : Nat, faults : Nat] /\ spent'.mounts = spent.mounts
    BY DEF AskPort, Faulty, FlashShape
  <1>1. PICK pc \in {"write", "failed"} :
           /\ FlashAt(n, pc)
           /\ pc = "write" => port = Free /\ port' = HeldBy("flash", n) /\ UNCHANGED panel
           /\ pc = "failed" => port' = port /\ Shows(flash[n].by, "idle")
    BY DEF AskPort, FlashFails
  <1>2. /\ panel' \in Panels
        /\ panel'.number = panel.number /\ panel'.kind = panel.kind
        /\ panel'.ready = panel.ready /\ panel'.session = panel.session
        /\ panel'.phase # panel.phase => flash[n].by = panel.number /\ pc = "failed"
    BY <1>1, ScreenPhase DEF FlashShape, Phases
  <1>3. /\ flash' \in [Flashes -> FlashRuns]
        /\ \A m \in Flashes : /\ flash'[m].by = flash[m].by /\ flash'[m].kind = flash[m].kind
                              /\ flash'[m].target = flash[m].target
                              /\ flash'[m].pc = IF m = n THEN pc ELSE flash[m].pc
    BY <1>1, FlashStepAt DEF FlashShape
  <1>4. FlashShape'
    BY <1>0, <1>1, <1>2, <1>3 DEF FlashShape, HeldBy
  <1>5. OwnInv' /\ PhaseInv' /\ OneFlashAtATime'
    BY <1>0, <1>1, <1>2, FlashMoves DEF UnderWay
  <1>6. CASE pc = "write"
    BY <1>0, <1>1, <1>2, <1>3, <1>4, <1>5, <1>6, PortRecords, FlashTypes
       DEF PortInv, PortAccounted, SessionIsLive, UnderWay, Slipped
  <1>7. CASE pc = "failed"
    BY <1>0, <1>1, <1>2, <1>3, <1>4, <1>5, <1>7, FlashTypes
       DEF PortInv, PortAccounted, SessionIsLive, UnderWay, Slipped
  <1> QED BY <1>6, <1>7

LEMMA WriteFlashStep ==
    ASSUME FInv, NEW n \in Flashes, NEW ok \in BOOLEAN, WriteFlash(n, ok) PROVE FInv'
  <1> USE DEF FInv
  <1>0. /\ flash[n].pc = "write" /\ UNCHANGED <<push, port, bench, boots>>
        /\ spent' \in [pushes : Nat, mounts : Nat, faults : Nat] /\ spent'.mounts = spent.mounts
        /\ port = HeldBy("flash", n)
    BY DEF WriteFlash, Faulty, FlashShape, PortInv
  <1>1. PICK pc \in {"boot", "failed"} :
           /\ FlashAt(n, pc)
           /\ pc = "boot" => UNCHANGED panel /\ usb'.image = n
           /\ pc = "failed" => Shows(flash[n].by, "idle")
           /\ usb' \in [image : Flashes \union {0}, file : {"none", "torn", "whole"}]
    BY DEF WriteFlash, FlashFails
  <1>2. /\ panel' \in Panels
        /\ panel'.number = panel.number /\ panel'.kind = panel.kind
        /\ panel'.ready = panel.ready /\ panel'.session = panel.session
        /\ panel'.phase # panel.phase => flash[n].by = panel.number /\ pc = "failed"
    BY <1>1, ScreenPhase DEF FlashShape, Phases
  <1>3. /\ flash' \in [Flashes -> FlashRuns]
        /\ \A m \in Flashes : /\ flash'[m].by = flash[m].by /\ flash'[m].kind = flash[m].kind
                              /\ flash'[m].target = flash[m].target
                              /\ flash'[m].pc = IF m = n THEN pc ELSE flash[m].pc
    BY <1>1, FlashStepAt DEF FlashShape
  <1>4. FlashShape'
    BY <1>0, <1>1, <1>2, <1>3 DEF FlashShape
  <1>5. OwnInv' /\ PhaseInv' /\ OneFlashAtATime'
    BY <1>0, <1>1, <1>2, FlashMoves DEF UnderWay
  <1>6. \A m \in Flashes : m # n => flash[m].pc \notin {"write", "boot"}
    BY <1>0, PortRecords DEF PortInv
  <1>7. panel.session = 0
    BY <1>0, PortRecords DEF SessionIsLive, PortInv
  <1>8. PortInv'
    BY <1>0, <1>1, <1>2, <1>3, <1>6, <1>7 DEF PortInv
  <1>9. PortAccounted' /\ SessionIsLive'
    BY <1>0, <1>1, <1>2, <1>3, <1>7, PortRecords
       DEF PortInv, PortAccounted, SessionIsLive, UnderWay, Slipped
  <1> QED BY <1>4, <1>5, <1>8, <1>9

\* What flashToTarget's return sets, on the panel that asked or on none.
LEMMA ReturnsScreen ==
    ASSUME FInv, NEW n \in Flashes, NEW session \in Flashes \union {0}, Returns(n, session)
    PROVE  /\ panel' \in Panels
           /\ panel'.number = panel.number /\ panel'.kind = panel.kind
           /\ panel'.ready = panel.ready
           /\ flash[n].by # panel.number => UNCHANGED panel
           /\ flash[n].by = panel.number => panel'.session = session
           /\ FlashAt(n, IF flash[n].by = panel.number THEN "done" ELSE "orphan")
  BY DEF Returns, Sets, FInv, FlashShape, Panels, Phases

LEMMA SessionReturnedStep ==
    ASSUME FInv, NEW n \in Flashes, SessionReturned(n) PROVE FInv'
  <1> USE DEF FInv
  <1> DEFINE pc == IF flash[n].by = panel.number THEN "done" ELSE "orphan"
  <1>0. /\ flash[n].pc = "boot" /\ UNCHANGED <<push, port, usb, bench, boots, spent>>
        /\ Returns(n, n) /\ port = HeldBy("flash", n) /\ usb.image = n
    BY DEF SessionReturned, PortInv
  <1>1. /\ panel' \in Panels
        /\ panel'.number = panel.number /\ panel'.kind = panel.kind
        /\ panel'.ready = panel.ready
        /\ flash[n].by # panel.number => UNCHANGED panel
        /\ flash[n].by = panel.number => panel'.session = n
        /\ FlashAt(n, pc)
    BY <1>0, ReturnsScreen
  <1>2. pc \in {"done", "orphan"}
    OBVIOUS
  <1>3. /\ flash' \in [Flashes -> FlashRuns]
        /\ \A m \in Flashes : /\ flash'[m].by = flash[m].by /\ flash'[m].kind = flash[m].kind
                              /\ flash'[m].target = flash[m].target
                              /\ flash'[m].pc = IF m = n THEN pc ELSE flash[m].pc
    BY <1>1, <1>2, FlashStepAt DEF FlashShape
  <1>4. FlashShape'
    BY <1>0, <1>1, <1>3 DEF FlashShape
  <1>5. flash[n].by # 0
    BY <1>0 DEF OwnInv
  <1>6. OwnInv' /\ PhaseInv' /\ OneFlashAtATime'
    <2>1. panel'.session # panel.session => panel.number # 0
      BY <1>1, <1>5
    <2> HIDE DEF pc
    <2> QED BY <1>0, <1>1, <1>2, <2>1, FlashMoves DEF UnderWay
  <1>7. panel.session = 0
    BY <1>0, PortRecords DEF SessionIsLive, PortInv
  <1>8. PortInv'
    BY <1>0, <1>1, <1>3, <1>7 DEF PortInv
  <1>9. PortAccounted' /\ SessionIsLive'
    BY <1>0, <1>1, <1>3, <1>7, PortRecords
       DEF PortInv, PortAccounted, SessionIsLive, UnderWay, Slipped
  <1> QED BY <1>4, <1>6, <1>8, <1>9

LEMMA SendFlashStep == ASSUME FInv, NEW n \in Flashes, SendFlash(n) PROVE FInv'
  <1> USE DEF FInv
  <1>0. /\ flash[n].pc = "send" /\ UNCHANGED <<push, port, usb, boots, spent>>
        /\ bench' \in [image : Flashes \union {0}, job : Flashes \union {0}]
    BY DEF SendFlash, FlashShape
  <1>1. PICK pc \in {"sent", "failed"} :
           /\ FlashAt(n, pc)
           /\ pc = "sent" => UNCHANGED panel
           /\ pc = "failed" => Shows(flash[n].by, "idle")
    BY DEF SendFlash, FlashFails
  <1>2. /\ panel' \in Panels
        /\ panel'.number = panel.number /\ panel'.kind = panel.kind
        /\ panel'.ready = panel.ready /\ panel'.session = panel.session
        /\ panel'.phase # panel.phase => flash[n].by = panel.number /\ pc = "failed"
    BY <1>1, ScreenPhase DEF FlashShape, Phases
  <1>3. /\ flash' \in [Flashes -> FlashRuns]
        /\ \A m \in Flashes : /\ flash'[m].by = flash[m].by /\ flash'[m].kind = flash[m].kind
                              /\ flash'[m].target = flash[m].target
                              /\ flash'[m].pc = IF m = n THEN pc ELSE flash[m].pc
    BY <1>1, FlashStepAt DEF FlashShape
  <1>4. FlashShape'
    BY <1>0, <1>2, <1>3 DEF FlashShape
  <1>5. OwnInv' /\ PhaseInv' /\ OneFlashAtATime'
    BY <1>0, <1>1, <1>2, FlashMoves DEF UnderWay
  <1>6. PortInv' /\ PortAccounted' /\ SessionIsLive'
    BY <1>0, <1>1, <1>2, <1>3, FlashTypes DEF PortInv, PortAccounted, SessionIsLive, UnderWay, Slipped
  <1> QED BY <1>4, <1>5, <1>6

\* The bench's answer takes the panel's older session off the screen: its
\* port has slipped.
LEMMA BenchAnswersStep ==
    ASSUME FInv, NEW n \in Flashes, NEW ok \in BOOLEAN, BenchAnswers(n, ok) PROVE FInv'
  <1> USE DEF FInv
  <1>0. /\ flash[n].pc = "sent" /\ UNCHANGED <<push, port, usb>> /\ flash[n].target = "slot"
        /\ bench' \in [image : Flashes \union {0}, job : Flashes \union {0}]
        /\ boots' \subseteq boots \union {n}
        /\ spent' \in [pushes : Nat, mounts : Nat, faults : Nat] /\ spent'.mounts = spent.mounts
    BY DEF BenchAnswers, Faulty, FlashShape, PortInv
  <1>1. PICK pc \in {"done", "orphan", "failed"} :
           /\ FlashAt(n, pc)
           /\ panel' \in Panels
           /\ panel'.number = panel.number /\ panel'.kind = panel.kind
           /\ panel'.ready = panel.ready
           /\ flash[n].by # panel.number => UNCHANGED panel
           /\ panel'.session # panel.session => panel'.session = 0 /\ pc = "done"
    <2>1. CASE ok
      BY <2>1, ReturnsScreen DEF BenchAnswers
    <2>2. CASE ~ok
      <3>1. FlashAt(n, "failed") /\ Shows(flash[n].by, "idle")
        BY <2>2 DEF BenchAnswers, FlashFails
      <3> QED BY <3>1, ScreenPhase DEF Shows, Sets, FlashShape, Phases
    <2> QED BY <2>1, <2>2
  <1>2. /\ flash' \in [Flashes -> FlashRuns]
        /\ \A m \in Flashes : /\ flash'[m].by = flash[m].by /\ flash'[m].kind = flash[m].kind
                              /\ flash'[m].target = flash[m].target
                              /\ flash'[m].pc = IF m = n THEN pc ELSE flash[m].pc
    BY <1>1, FlashStepAt DEF FlashShape
  <1>3. FlashShape'
    BY <1>0, <1>1, <1>2 DEF FlashShape
  <1>4. flash[n].by # 0
    BY <1>0 DEF OwnInv
  <1>5. OwnInv' /\ PhaseInv' /\ OneFlashAtATime'
    BY <1>0, <1>1, <1>4, FlashMoves DEF UnderWay
  <1>6. PortInv'
    BY <1>0, <1>1, <1>2, FlashTypes DEF PortInv
  <1>7. SessionIsLive'
    BY <1>0, <1>1 DEF SessionIsLive
  <1>8. PortAccounted'
    <2>1. ASSUME port.user = "flash"
          PROVE  UnderWay(port.n)' \/ panel'.session = port.n \/ Slipped(port.n)'
      <3>0. port.n \in Flashes
        BY <2>1 DEF PortInv
      <3>1. CASE UnderWay(port.n)
        BY <1>0, <1>1, <1>2, <3>0, <3>1, <2>1 DEF UnderWay, PortInv, Slipped
      <3>2. CASE panel.session = port.n
        <4>1. flash[port.n].pc = "done" /\ flash[port.n].by = panel.number /\ port.n # n
          BY <1>0, <3>0, <3>2, FlashTypes, FlashBounds DEF PortInv, Flashes
        <4> QED BY <1>0, <1>1, <1>2, <3>0, <3>2, <4>1 DEF Slipped
      <3>3. CASE Slipped(port.n)
        BY <1>0, <1>2, <3>0, <3>3 DEF Slipped
      <3> QED BY <2>1, <3>1, <3>2, <3>3 DEF PortAccounted
    <2> QED BY <1>0, <2>1 DEF PortAccounted
  <1> QED BY <1>3, <1>5, <1>6, <1>7, <1>8

-----------------------------------------------------------------------------
(* FlashDialog: a push.                                                    *)

\* What a step of the push needs that sets the panel's phase: no flash of the
\* panel is under way, but one of Meshtastic's.
NoFlashOf(by) ==
    \A n \in Flashes : UnderWay(n) /\ flash[n].by = by => flash[n].kind = "meshtastic"

LEMMA BeginStep ==
    ASSUME FInv, NEW via \in {"session", "release", "pick"},
           NEW session \in Flashes \union {0}, NEW on \in {0, panel.session},
           Begins(via, session, on), NoFlashOf(panel.number),
           panel.kind \in {"tasmota", "micropython", "meshtastic"},
           port' = IF on = 0 THEN PortWithout(panel.session) ELSE port
    PROVE  FInv'
  <1> USE DEF FInv
  <1>0. /\ UNCHANGED <<flash, usb, bench, boots>> /\ push = NoPush
        /\ spent' \in [pushes : Nat, mounts : Nat, faults : Nat] /\ spent'.mounts = spent.mounts
    BY DEF Begins, FlashShape
  <1>1. /\ push' \in PushRuns /\ push'.by = panel.number /\ push'.kind = panel.kind
        /\ push'.via = via /\ push'.pc = IF via = "session" THEN "run" ELSE "open"
    BY DEF Begins, PushRuns, FlashShape, Panels
  <1>2. panel.session \in Flashes \union {0} /\ panel.number \in 1 .. spent.mounts
    BY FlashTypes DEF OwnInv
  <1>3. /\ panel' \in Panels /\ panel'.number = panel.number /\ panel'.kind = panel.kind
        /\ panel'.ready = panel.ready /\ panel'.session = on
        /\ panel.kind # "meshtastic" => panel'.phase = "pushing"
    BY <1>2 DEF Begins, FlashShape, Panels, Pushing, Phases
  <1>4. port' = (IF on = 0 /\ panel.session # 0 THEN Free ELSE port)
    BY <1>2 DEF PortWithout, SessionIsLive
  <1>5. port.user # "push"
    BY <1>0 DEF PortInv, NoPush
  <1>6. FlashShape'
    BY <1>0, <1>1, <1>3, <1>4 DEF FlashShape, Free
  <1>7. OwnInv'
    BY <1>0, <1>1, <1>2, <1>3, FlashTypes DEF OwnInv
  <1>8. PhaseInv'
    <2>1. \A n \in Flashes : UnderWay(n)' => UnderWay(n)
      BY <1>0 DEF UnderWay
    <2> QED BY <1>0, <1>1, <1>3, <2>1 DEF PhaseInv, NoFlashOf
  <1>9. PortInv'
    <2>1. CASE on = 0 /\ panel.session # 0
      <3>1. \A n \in Flashes : flash[n].pc \notin {"write", "boot"}
        BY <2>1, FlashTypes, PortRecords DEF SessionIsLive, PortInv
      <3> QED BY <1>0, <1>1, <1>3, <1>4, <2>1, <3>1, PortRecords DEF PortInv
    <2>2. CASE ~(on = 0 /\ panel.session # 0)
      BY <1>0, <1>1, <1>3, <1>4, <1>5, <2>2 DEF PortInv
    <2> QED BY <2>1, <2>2
  <1>10. PortAccounted' /\ SessionIsLive' /\ OneFlashAtATime'
    BY <1>0, <1>2, <1>3, <1>4, <1>5, PortRecords
       DEF PortAccounted, SessionIsLive, OneFlashAtATime, UnderWay, Slipped
  <1> QED BY <1>6, <1>7, <1>8, <1>9, <1>10

LEMMA PushBegins ==
    ASSUME FInv, PushToFlashed \/ PushToConnected \/ HandlePush PROVE FInv'
  <1>0. panel.session \in Flashes \union {0}
    BY FlashTypes
  <1>1. ASSUME panel.kind = "meshtastic" \/ panel.phase \notin {"fetching", "flashing"}
        PROVE  NoFlashOf(panel.number)
    BY <1>1 DEF FInv, NoFlashOf, PhaseInv, OwnInv, UnderWay
  <1>2. CASE PushToFlashed
    <2>1. /\ panel.phase = "flashed" /\ panel.kind \in {"meshtastic", "micropython"}
          /\ port' = PortWithout(panel.session) /\ Begins("release", panel.session, 0)
      BY <1>2 DEF PushToFlashed
    <2> QED BY <1>0, <1>1, <2>1, BeginStep
  <1>3. CASE PushToConnected
    <2>1. /\ panel.kind \in {"meshtastic", "micropython"}
          /\ panel.kind = "meshtastic" \/ panel.phase \notin {"fetching", "flashing"}
          /\ port' = port /\ Begins("pick", 0, panel.session)
      BY <1>3 DEF PushToConnected, Busy
    <2>2. port' = IF panel.session = 0 THEN PortWithout(panel.session) ELSE port
      BY <2>1 DEF PortWithout
    <2> QED BY <1>0, <1>1, <2>1, <2>2, BeginStep
  <1>4. CASE HandlePush
    <2>1. /\ panel.kind = "tasmota" /\ panel.phase \in {"flashed", "pushed"}
          /\ panel.session # 0
          /\ port' = port /\ Begins("session", panel.session, panel.session)
      BY <1>4 DEF HandlePush
    <2> QED BY <1>0, <1>1, <2>1, BeginStep
  <1> QED BY <1>2, <1>3, <1>4

\* The push opens its port, or ends.
LEMMA PushSteps ==
    ASSUME FInv, NEW ok \in BOOLEAN, OpenForPush(ok) \/ PushEnds(ok) PROVE FInv'
  <1> USE DEF FInv
  <1>0. /\ UNCHANGED <<flash, bench, boots>> /\ push.pc \in {"open", "run"}
        /\ spent' \in [pushes : Nat, mounts : Nat, faults : Nat] /\ spent'.mounts = spent.mounts
        /\ usb' \in [image : Flashes \union {0}, file : {"none", "torn", "whole"}]
        /\ usb'.image = usb.image
    BY DEF OpenForPush, PushEnds, Faulty, FlashShape
  <1> DEFINE Opens == /\ push.pc = "open" /\ port = Free /\ port' = HeldBy("push", 0)
                      /\ push' = [push EXCEPT !.pc = "run"] /\ UNCHANGED panel
             Ends == /\ push' = NoPush /\ \E phase \in Phases : Shows(push.by, phase)
                     /\ port' = IF push.pc = "open" \/ push.via = "session" THEN port ELSE Free
  <1>1. Opens \/ Ends
    <2>1. {"flashed", "idle", "configured", "pushed"} \subseteq Phases
      BY DEF Phases
    <2>2. CASE OpenForPush(ok)
      BY <2>1, <2>2 DEF OpenForPush, PushFails
    <2>3. CASE PushEnds(ok)
      BY <2>1, <2>3 DEF PushEnds, PushFails, Pushed
    <2> QED BY <2>2, <2>3
  <1>2. /\ panel' \in Panels
        /\ panel'.number = panel.number /\ panel'.kind = panel.kind
        /\ panel'.ready = panel.ready /\ panel'.session = panel.session
        /\ panel'.phase # panel.phase => push.by = panel.number
    BY <1>1, ScreenPhase DEF FlashShape
  <1>3. /\ push' \in PushRuns
        /\ push'.pc # "none" => /\ push'.pc = "run" /\ Opens /\ push'.by = push.by
                                /\ push'.kind = push.kind /\ push'.via = push.via
    BY <1>1 DEF FlashShape, PushRuns, NoPush, Frameworks
  <1>4. FlashShape'
    BY <1>0, <1>1, <1>2, <1>3 DEF FlashShape, Free, HeldBy
  <1>5. OwnInv'
    BY <1>0, <1>2, <1>3, FlashTypes DEF OwnInv
  <1>6. PhaseInv'
    <2>1. ASSUME NEW n \in Flashes, UnderWay(n), flash[n].by = panel.number,
                 flash[n].kind # "meshtastic"
          PROVE  panel'.phase = panel.phase
      <3>1. push.by # panel.number
        BY <1>0, <2>1 DEF PhaseInv, OwnInv, UnderWay
      <3> QED BY <1>2, <3>1
    <2>2. push'.pc # "none" => panel'.phase = panel.phase
      BY <1>3
    <2> QED BY <1>0, <1>2, <1>3, <2>1, <2>2 DEF PhaseInv, UnderWay
  <1>7. CASE port' = port
    <2>1. push'.pc = "none" /\ port.user # "push"
      <3>1. CASE Opens
        BY <1>7, <3>1, PortRecords
      <3>2. CASE Ends
        BY <1>0, <1>7, <3>2, PortRecords DEF NoPush, PortInv
      <3> QED BY <1>1, <3>1, <3>2
    <2> QED BY <1>0, <1>2, <1>3, <1>4, <1>5, <1>6, <1>7, <2>1, FlashTypes
            DEF PortInv, PortAccounted, SessionIsLive, OneFlashAtATime, UnderWay, Slipped
  <1>8. CASE port' # port
    <2>1. /\ \A n \in Flashes : port # HeldBy("flash", n)
          /\ port'.user # "flash"
          /\ port'.user = "push" => push'.pc = "run" /\ push'.via # "session"
          /\ push'.pc # "none" => port' = HeldBy("push", 0)
      <3>1. CASE Opens
        <4>1. push'.pc = "run"
          BY <3>1 DEF FlashShape, PushRuns
        <4> QED BY <1>3, <3>1, <4>1, PortRecords DEF PortInv
      <3>2. CASE Ends
        BY <1>0, <1>8, <3>2, PortRecords DEF PortInv, NoPush
      <3> QED BY <1>1, <3>1, <3>2
    <2>2. panel.session = 0
      BY <2>1, FlashTypes DEF SessionIsLive
    <2> QED BY <1>0, <1>2, <1>3, <1>4, <1>5, <1>6, <2>1, <2>2
            DEF PortInv, PortAccounted, SessionIsLive, OneFlashAtATime, UnderWay, Slipped
  <1> QED BY <1>7, <1>8

LEMMA FlashNextInv == ASSUME FInv, [FlashNext]_flashVars PROVE FInv'
  <1>1. CASE FlashNext
    BY <1>1, PickFrameworkStep, QuietPanelSteps, HandleFlashStep, FetchedStep, AskPortStep,
       WriteFlashStep, SessionReturnedStep, SendFlashStep, BenchAnswersStep, PushBegins, PushSteps
       DEF FlashNext
  <1>2. CASE UNCHANGED flashVars
    BY <1>2 DEF flashVars, FInv, FlashShape, OwnInv, PhaseInv, PortInv, PortAccounted,
       SessionIsLive, OneFlashAtATime, UnderWay, Slipped
  <1> QED BY <1>1, <1>2

\* The serial port is open only while somebody can still close it or one of
\* the three named ways has let it slip; a session on screen is live; and a
\* panel flashes one image at a time (FlashDialog.tsx, flash.ts), however
\* many panels are mounted, flashes begun and pushes made.
THEOREM FlashCorrect == FlashSpec => []FlashSound
  <1>1. FlashInit => FInv
    BY FlashInitInv
  <1>2. FInv /\ [FlashNext]_flashVars => FInv'
    BY FlashNextInv
  <1>3. FInv => FlashSound
    BY DEF FInv, FlashShape, Panels, FlashTypeOK, FlashSound
  <1> QED BY <1>1, <1>2, <1>3, PTL DEF FlashSpec

-----------------------------------------------------------------------------
(* BrowserSync: the inductive invariant.                                   *)

\* What the tab may take for its reset target the store was given or has held.
KeptInv ==
    /\ stored # None => kept[stored] # None
    /\ \A f \in Slots : refresh[f].body # None => kept[refresh[f].body] # None
    /\ posted => posting # None /\ kept[posting] # None
    /\ ResetTargetWasSaved

\* The refreshes in flight are those of the turn, each once.
TurnInv ==
    /\ \A f \in Slots : refresh[f].state = "idle" <=> \A i \in 1..Len(turn) : turn[i] # f
    /\ \A i, j \in 1..Len(turn) : turn[i] = turn[j] => i = j
    /\ InOrder => \A i, j \in 1..Len(turn) :
          i < j /\ refresh[turn[j]].state = "answered" => refresh[turn[i]].state = "answered"

\* Of a deletion the tab will hear.
DeletedInv ==
    selected /\ ~unheard /\ stored = None =>
        due["deleted"] > 0 \/ \E i \in 1..Len(channel) : channel[i] = "deleted"

\* A design is on the screen, or comes with an answer.
ScreenInv ==
    selected /\ ~unheard =>
        \/ design # None
        \/ \E f \in Slots : refresh[f].state = "answered" /\ refresh[f].body # None

\* With no event on its way the store's document is the reset target, or the
\* last refresh brings it.
Pending == torn \/ (\E kind \in Kinds : due[kind] > 0) \/ channel # <<>>
LatestInv ==
    InOrder /\ selected /\ ~unheard /\ ~Pending =>
        IF turn = <<>> THEN original = stored
        ELSE LET last == refresh[turn[Len(turn)]] IN
             last.state = "answered" => last.body = stored

TInv == TypeOK /\ KeptInv /\ TurnInv /\ DeletedInv /\ ScreenInv /\ LatestInv

-----------------------------------------------------------------------------
(* BrowserSync: sequences.                                                 *)

\* Where the element after the gap comes from.
LEMMA Gap ==
    ASSUME NEW n \in Nat, NEW i \in 1..n
    PROVE  /\ (i - 1) + (n - i) = n - 1
           /\ \A j \in 1..(n - 1) :
                 IF j < i THEN j \in 1..(i - 1) /\ j <= i - 1
                 ELSE /\ j - (i - 1) \in 1..(n - i) /\ i + (j - (i - 1)) = j + 1
                      /\ ~(j <= i - 1)
  OBVIOUS

\* One element taken out of a sequence.
LEMMA TakenOut ==
    ASSUME NEW S, NEW s \in Seq(S), NEW i \in 1..Len(s)
    PROVE  LET r == SubSeq(s, 1, i - 1) \o SubSeq(s, i + 1, Len(s)) IN
           /\ r \in Seq(S) /\ Len(r) = Len(s) - 1
           /\ \A j \in 1..Len(r) : r[j] = IF j < i THEN s[j] ELSE s[j + 1]
  <1> DEFINE left == SubSeq(s, 1, i - 1)
             right == SubSeq(s, i + 1, Len(s))
             r == left \o right
  <1>1. /\ left \in Seq(S) /\ Len(left) = i - 1
        /\ \A j \in 1..(i - 1) : left[j] = s[j]
    BY SubSeqProperties
  <1>2. /\ right \in Seq(S) /\ Len(right) = Len(s) - i
        /\ \A j \in 1..(Len(s) - i) : right[j] = s[i + j]
    BY SubSeqProperties
  <1>3. /\ r \in Seq(S) /\ Len(r) = Len(left) + Len(right)
        /\ \A j \in 1..Len(r) : r[j] = IF j <= Len(left) THEN left[j] ELSE right[j - Len(left)]
    <2> HIDE DEF left, right
    <2>1. left \in Seq(S) /\ right \in Seq(S)
      BY <1>1, <1>2
    <2>2. /\ r \in Seq(S) /\ Len(r) = Len(left) + Len(right)
          /\ \A j \in 1..Len(left) + Len(right) :
                r[j] = IF j <= Len(left) THEN left[j] ELSE right[j - Len(left)]
      BY <2>1, ConcatProperties
    <2> QED BY <2>2
  <1>n. Len(s) \in Nat
    OBVIOUS
  <1> HIDE DEF left, right, r
  <1>4. Len(r) = Len(s) - 1
    BY <1>n, <1>1, <1>2, <1>3, Gap
  <1>5. ASSUME NEW j \in 1..Len(r) PROVE r[j] = IF j < i THEN s[j] ELSE s[j + 1]
    <2>1. j \in 1..(Len(s) - 1)
      BY <1>4
    <2>2. CASE j < i
      <3>1. j \in 1..(i - 1) /\ j <= i - 1
        BY <1>n, <2>1, <2>2, Gap
      <3> QED BY <1>1, <1>3, <2>2, <3>1
    <2>3. CASE ~(j < i)
      <3>1. /\ j - (i - 1) \in 1..(Len(s) - i) /\ i + (j - (i - 1)) = j + 1
            /\ ~(j <= i - 1)
        BY <1>n, <2>1, <2>3, Gap
      <3>2. r[j] = right[j - (i - 1)]
        BY <1>1, <1>3, <3>1
      <3>3. right[j - (i - 1)] = s[i + (j - (i - 1))]
        BY <1>2, <3>1
      <3> QED BY <2>3, <3>1, <3>2, <3>3
    <2> QED BY <2>2, <2>3
  <1> QED BY <1>3, <1>4, <1>5 DEF left, right, r

-----------------------------------------------------------------------------
(* BrowserSync: the server and the stream of events.                       *)

LEMMA TabInit == ASSUME Init PROVE TInv
  <1>1. 1 \in Docs
    BY TabAssumption DEF Docs
  <1>2. TypeOK
    <2>1. /\ channel \in Seq(Kinds) /\ channel = <<>> /\ turn \in Seq(Slots)
          /\ ~connected /\ selected = TRUE
      BY EmptySeq DEF Init
    <2>2. refresh \in [Slots -> [state : {"idle", "asked", "answered"}, body : NoneOf(Docs)]]
      BY DEF Init, Idle, NoneOf
    <2>3. due \in [Kinds -> Nat]
      BY DEF Init
    <2> QED BY <1>1, <2>1, <2>2, <2>3 DEF Init, TypeOK, NoneOf
  <1>3. 1 # None
    BY <1>1, NoneAssumption
  <1>k. kept[1] = 1
    <2>1. kept = [doc \in Docs |-> IF doc = 1 THEN 1 ELSE None]
      BY DEF Init
    <2> QED BY <1>1, <2>1
  <1>4. KeptInv /\ TurnInv
    <2>1. stored = 1 /\ original = 1 /\ ~posted /\ \A f \in Slots : refresh[f].body = None
      BY DEF Init, Idle
    <2>2. KeptInv
      BY <1>3, <1>k, <2>1 DEF KeptInv, ResetTargetWasSaved
    <2>3. TurnInv
      BY <1>2 DEF Init, TurnInv, Idle
    <2> QED BY <2>2, <2>3
  <1>5. DeletedInv /\ ScreenInv /\ LatestInv
    BY <1>3 DEF Init, DeletedInv, ScreenInv, LatestInv
  <1> QED BY <1>2, <1>4, <1>5 DEF TInv

\* What a write owes.
LEMMA Owed ==
    ASSUME TypeOK, NEW kind \in Kinds, Owes(kind)
    PROVE  /\ due' \in [Kinds -> Nat] /\ due'[kind] > 0
           /\ \A k \in Kinds : due'[k] >= due[k]
  BY DEF TypeOK, Owes

\* What the store was given stays given.
Given(doc, copy) ==
    /\ kept' \in [Docs -> NoneOf(Docs)]
    /\ kept'[doc] # None /\ kept'[copy] # None
    /\ \A d \in Docs : kept[d] # None => kept'[d] # None

LEMMA StoresSteps ==
    ASSUME TypeOK, NEW doc \in Docs, NEW copy \in Docs, Stores(doc, copy)
    PROVE  Given(doc, copy)
  <1>1. /\ kept \in [Docs -> NoneOf(Docs)] /\ doc # None /\ copy # None
        /\ kept' = [kept EXCEPT ![doc] = copy, ![copy] = copy] /\ copy \in NoneOf(Docs)
    BY NoneAssumption DEF TypeOK, Stores, NoneOf
  <1> QED BY <1>1 DEF Given

\* A write makes an event pending; a deletion, a deletion.
LEMMA WriteSteps ==
    ASSUME TInv, Truncate \/ ElsewhereSaves \/ ElsewhereDeletes \/ PostArrives
    PROVE  TInv'
  <1> USE DEF TInv, tabVars, streamVars, refreshVars, postVars
  <1>1. UNCHANGED <<selected, design, original, connected, channel, refresh, turn, posting, unheard>>
    BY DEF Truncate, ElsewhereSaves, ElsewhereDeletes, PostArrives
  <1>2. /\ docs' \in Docs /\ torn' \in BOOLEAN /\ stored' \in NoneOf(Docs) /\ due' \in [Kinds -> Nat]
        /\ kept' \in [Docs -> NoneOf(Docs)] /\ posted' \in BOOLEAN
        /\ \A doc \in Docs : kept[doc] # None => kept'[doc] # None
        /\ \A k \in Kinds : due'[k] >= due[k]
        /\ stored' # None => kept'[stored'] # None
        /\ posted' => posting # None /\ kept'[posting] # None
        /\ stored' = None => due'["deleted"] > 0 \/ stored = None
        /\ torn' \/ \E k \in Kinds : due'[k] > 0
    <2>1. CASE Truncate
      BY <2>1 DEF Truncate, TypeOK, KeptInv
    <2>2. CASE ElsewhereSaves
      <3>1. docs + 1 \in Docs
        BY <2>2, TabAssumption DEF ElsewhereSaves, TypeOK, Docs
      <3>2. "saved" \in Kinds /\ Owes("saved")
        BY <2>2 DEF ElsewhereSaves, Stores, Kinds
      <3>3. Given(docs + 1, docs + 1)
        BY <2>2, <3>1, StoresSteps DEF ElsewhereSaves
      <3> QED BY <2>2, <3>1, <3>2, <3>3, Owed, NoneAssumption
              DEF ElsewhereSaves, Stores, Given, TypeOK, KeptInv, NoneOf
    <2>3. CASE ElsewhereDeletes
      <3>1. "deleted" \in Kinds /\ Owes("deleted")
        BY <2>3 DEF ElsewhereDeletes, Kinds
      <3> QED BY <2>3, <3>1, Owed DEF ElsewhereDeletes, TypeOK, KeptInv, NoneOf
    <2>4. CASE PostArrives
      <3>1. posting \in Docs /\ posting # None /\ posted' = TRUE
        BY <2>4 DEF PostArrives, TypeOK, NoneOf
      <3>2. PICK copy \in Docs : Stores(posting, copy) /\ docs' \in Docs
        <4>1. CASE docs' = docs /\ Stores(posting, kept[posting]) /\ kept[posting] # None
          BY <3>1, <4>1 DEF TypeOK, NoneOf
        <4>2. CASE docs' = docs /\ Stores(posting, posting)
          BY <3>1, <4>2 DEF TypeOK
        <4>3. CASE docs < MaxDocs /\ docs' = docs + 1 /\ Stores(posting, docs + 1)
          BY <4>3, TabAssumption DEF TypeOK, Docs
        <4> QED BY <2>4, <4>1, <4>2, <4>3 DEF PostArrives
      <3>3. "saved" \in Kinds /\ Owes("saved")
        BY <3>2 DEF Stores, Kinds
      <3>4. Given(posting, copy)
        BY <3>1, <3>2, StoresSteps
      <3> QED BY <3>1, <3>2, <3>3, <3>4, Owed DEF Stores, Given, TypeOK, NoneOf
    <2> QED BY <2>1, <2>2, <2>3, <2>4
  <1>3. TypeOK'
    BY <1>1, <1>2 DEF TypeOK
  <1>4. KeptInv' /\ TurnInv'
    <2>1. \A doc \in Docs : kept[doc] # None => kept'[doc] # None
      BY <1>2
    <2>2. \A f \in Slots : refresh[f].body \in NoneOf(Docs)
      BY DEF TypeOK
    <2>3. \A f \in Slots : refresh'[f].body # None => kept'[refresh'[f].body] # None
      BY <1>1, <2>1, <2>2 DEF KeptInv, NoneOf
    <2>4. selected' => original' # None /\ kept'[original'] # None
      BY <1>1, <2>1 DEF KeptInv, ResetTargetWasSaved, TypeOK, NoneOf
    <2>5. KeptInv'
      BY <1>1, <1>2, <2>3, <2>4 DEF KeptInv, ResetTargetWasSaved
    <2>6. TurnInv'
      BY <1>1 DEF TurnInv
    <2> QED BY <2>5, <2>6
  <1>5. DeletedInv'
    <2>1. "deleted" \in Kinds /\ due["deleted"] \in Nat /\ due'["deleted"] \in Nat
      BY <1>2 DEF Kinds, TypeOK
    <2> QED BY <1>1, <1>2, <2>1 DEF DeletedInv
  <1>6. ScreenInv' /\ LatestInv'
    BY <1>1, <1>2 DEF ScreenInv, LatestInv, Pending
  <1> QED BY <1>3, <1>4, <1>5, <1>6

\* An event goes into the channel, or is missed.
LEMMA PublishStep == ASSUME TInv, NEW kind \in Kinds, Publish(kind) PROVE TInv'
  <1> USE DEF TInv, tabVars, refreshVars, postVars
  <1>1. /\ UNCHANGED <<stored, torn, kept, docs, selected, design, original, connected, refresh,
                       turn, posting, posted>>
        /\ due[kind] > 0 /\ due' = [due EXCEPT ![kind] = @ - 1]
        /\ connected => channel' = Append(channel, kind) /\ unheard' = unheard
        /\ ~connected => channel' = channel /\ unheard' = TRUE
    BY DEF Publish, TypeOK
  <1>2. due' \in [Kinds -> Nat] /\ \A k \in Kinds \ {kind} : due'[k] = due[k]
    BY <1>1 DEF TypeOK
  <1>3. /\ channel' \in Seq(Kinds) /\ channel \in Seq(Kinds)
        /\ connected => channel' # <<>> /\ Len(channel') = Len(channel) + 1
                        /\ channel'[Len(channel) + 1] = kind
                        /\ \A i \in 1..Len(channel) : channel'[i] = channel[i]
    <2>1. channel \in Seq(Kinds) /\ Len(channel) \in Nat
      BY DEF TypeOK
    <2>2. /\ Append(channel, kind) \in Seq(Kinds) /\ Append(channel, kind) # <<>>
          /\ Len(Append(channel, kind)) = Len(channel) + 1
          /\ \A i \in 1..Len(channel) : Append(channel, kind)[i] = channel[i]
          /\ Append(channel, kind)[Len(channel) + 1] = kind
      BY <2>1, AppendProperties
    <2> QED BY <1>1, <2>1, <2>2 DEF TypeOK
  <1>4. TypeOK'
    BY <1>1, <1>2, <1>3 DEF TypeOK
  <1>5. KeptInv' /\ TurnInv'
    BY <1>1 DEF KeptInv, TurnInv, ResetTargetWasSaved
  <1>6. DeletedInv'
    <2>1. SUFFICES ASSUME selected, ~unheard', stored = None, connected, ~unheard
                   PROVE  due'["deleted"] > 0 \/ \E i \in 1..Len(channel') : channel'[i] = "deleted"
      BY <1>1 DEF DeletedInv
    <2>2. CASE kind = "deleted"
      BY <1>3, <2>1, <2>2
    <2>3. CASE kind # "deleted"
      <3>1. due'["deleted"] = due["deleted"]
        BY <1>2, <2>3 DEF Kinds
      <3> QED BY <1>3, <2>1, <3>1 DEF DeletedInv
    <2> QED BY <2>2, <2>3
  <1>7. ScreenInv' /\ LatestInv'
    BY <1>1, <1>3 DEF ScreenInv, LatestInv, Pending
  <1> QED BY <1>4, <1>5, <1>6, <1>7

\* The stream opens, or drops and takes what it carried with it.
LEMMA StreamSteps == ASSUME TInv, Connect \/ Drop PROVE TInv'
  <1> USE DEF TInv, serverVars, tabVars, refreshVars, postVars
  <1>1. /\ UNCHANGED <<stored, torn, due, kept, docs, selected, design, original, refresh, turn,
                       posting, posted>>
        /\ connected' \in BOOLEAN /\ channel' \in Seq(Kinds)
        /\ connected' => selected
        /\ channel' # <<>> => connected'
        /\ \/ unheard' = unheard /\ channel' = channel
           \/ unheard' = TRUE
           \/ channel = <<>> /\ channel' = <<>> /\ unheard' = unheard
    BY EmptySeq DEF Connect, Drop, TypeOK
  <1>2. unheard' \in BOOLEAN
    BY DEF Connect, Drop, TypeOK
  <1>3. TypeOK'
    BY <1>1, <1>2 DEF TypeOK
  <1>4. KeptInv' /\ TurnInv'
    BY <1>1 DEF KeptInv, TurnInv, ResetTargetWasSaved
  <1>5. DeletedInv' /\ ScreenInv' /\ LatestInv'
    BY <1>1 DEF DeletedInv, ScreenInv, LatestInv, Pending
  <1> QED BY <1>3, <1>4, <1>5

\* An event taken off the channel.
LEMMA Heard ==
    ASSUME TypeOK, NEW kind \in Kinds, Hears(kind), channel' = Tail(channel)
    PROVE  /\ channel' \in Seq(Kinds) /\ Len(channel') = Len(channel) - 1 /\ connected /\ selected
           /\ \A i \in 1..Len(channel) : i > 1 => channel'[i - 1] = channel[i]
           /\ channel[1] = kind
  BY DEF TypeOK, Hears

LEMMA SkipSavedStep == ASSUME TInv, SkipSaved PROVE TInv'
  <1> USE DEF TInv, serverVars, tabVars, refreshVars, postVars
  <1>1. /\ UNCHANGED <<stored, torn, due, kept, docs, selected, design, original, connected,
                       refresh, turn, posting, posted>>
        /\ unheard' = TRUE /\ Hears("saved") /\ channel' = Tail(channel)
    BY DEF SkipSaved, Skips, TypeOK
  <1>2. channel' \in Seq(Kinds) /\ connected
    BY <1>1, Heard DEF Kinds
  <1>3. TypeOK'
    BY <1>1, <1>2 DEF TypeOK
  <1>4. KeptInv' /\ TurnInv'
    BY <1>1 DEF KeptInv, TurnInv, ResetTargetWasSaved
  <1>5. DeletedInv' /\ ScreenInv' /\ LatestInv'
    BY <1>1 DEF DeletedInv, ScreenInv, LatestInv
  <1> QED BY <1>3, <1>4, <1>5

\* The refresh asked last is not answered yet.
LEMMA RefreshOnSavedStep == ASSUME TInv, NEW f \in Slots, RefreshOnSaved(f) PROVE TInv'
  <1> USE DEF TInv, serverVars, tabVars, postVars
  <1>1. /\ UNCHANGED <<stored, torn, due, kept, docs, selected, design, original, connected,
                       posting, posted, unheard>>
        /\ Hears("saved") /\ channel' = Tail(channel) /\ refresh[f] = Idle
        /\ refresh' = [refresh EXCEPT ![f].state = "asked"] /\ turn' = Append(turn, f)
    BY DEF RefreshOnSaved, AskRefresh
  <1>2. /\ channel' \in Seq(Kinds) /\ connected /\ selected /\ channel[1] = "saved"
        /\ Len(channel') = Len(channel) - 1
        /\ \A i \in 1..Len(channel) : i > 1 => channel'[i - 1] = channel[i]
    BY <1>1, Heard DEF Kinds
  <1>3. /\ refresh[f].state = "idle" /\ refresh[f].body = None
        /\ refresh' \in [Slots -> [state : {"idle", "asked", "answered"}, body : NoneOf(Docs)]]
        /\ \A g \in Slots : /\ refresh'[g].body = refresh[g].body
                            /\ refresh'[g].state = IF g = f THEN "asked" ELSE refresh[g].state
    BY <1>1 DEF TypeOK, Idle, NoneOf
  <1>4. /\ turn \in Seq(Slots) /\ turn' \in Seq(Slots) /\ Len(turn) \in Nat
        /\ Len(turn') = Len(turn) + 1 /\ turn'[Len(turn) + 1] = f
        /\ \A i \in 1..Len(turn) : turn'[i] = turn[i] /\ turn[i] \in Slots /\ turn[i] # f
    BY <1>1, <1>3 DEF TypeOK, TurnInv
  <1>5. TypeOK'
    BY <1>1, <1>2, <1>3, <1>4 DEF TypeOK
  <1>6. KeptInv'
    BY <1>1, <1>3 DEF KeptInv, ResetTargetWasSaved
  <1>7. TurnInv'
    <2>1. \A g \in Slots : refresh'[g].state = "idle" <=> \A i \in 1..Len(turn') : turn'[i] # g
      BY <1>3, <1>4 DEF TurnInv
    <2>2. \A i, j \in 1..Len(turn') : turn'[i] = turn'[j] => i = j
      BY <1>4 DEF TurnInv
    <2>3. ASSUME InOrder, NEW i \in 1..Len(turn'), NEW j \in 1..Len(turn'), i < j,
                 refresh'[turn'[j]].state = "answered"
          PROVE  refresh'[turn'[i]].state = "answered"
      <3>1. j # Len(turn) + 1
        BY <1>3, <1>4, <2>3
      <3>2. i \in 1..Len(turn) /\ j \in 1..Len(turn)
        BY <1>4, <2>3, <3>1
      <3>3. /\ refresh'[turn'[i]].state = refresh[turn[i]].state
            /\ refresh'[turn'[j]].state = refresh[turn[j]].state
        BY <1>3, <1>4, <3>2
      <3> QED BY <2>3, <3>2, <3>3 DEF TurnInv
    <2> QED BY <2>1, <2>2, <2>3 DEF TurnInv
  <1>8. DeletedInv'
    <2>1. ASSUME NEW i \in 1..Len(channel), channel[i] = "deleted"
          PROVE  i - 1 \in 1..Len(channel') /\ channel'[i - 1] = "deleted"
      BY <1>2, <2>1
    <2> QED BY <1>1, <2>1 DEF DeletedInv
  <1>9. ScreenInv'
    BY <1>1, <1>3 DEF ScreenInv
  <1>10. LatestInv'
    BY <1>3, <1>4 DEF LatestInv
  <1> QED BY <1>5, <1>6, <1>7, <1>8, <1>9, <1>10

LEMMA OnDeletedStep == ASSUME TInv, OnDeleted PROVE TInv'
  <1> USE DEF TInv, serverVars, refreshVars, postVars
  <1>1. /\ UNCHANGED <<stored, torn, due, kept, docs, refresh, turn, posting, posted, unheard>>
        /\ selected' = FALSE /\ original' = None /\ design' = None /\ connected' = FALSE
        /\ channel' = <<>>
    BY DEF OnDeleted
  <1>2. TypeOK'
    BY <1>1, EmptySeq DEF TypeOK, NoneOf
  <1>3. KeptInv' /\ TurnInv'
    BY <1>1 DEF KeptInv, TurnInv, ResetTargetWasSaved
  <1>4. DeletedInv' /\ ScreenInv' /\ LatestInv'
    BY <1>1 DEF DeletedInv, ScreenInv, LatestInv
  <1> QED BY <1>2, <1>3, <1>4


-----------------------------------------------------------------------------
(* BrowserSync: refreshes.                                                 *)

\* In order, nothing asked before the refresh now answered is still asked.
LEMMA AnswerStep == ASSUME TInv, NEW f \in Slots, Answer(f) PROVE TInv'
  <1> USE DEF TInv, serverVars, tabVars, streamVars, postVars
  <1>1. /\ UNCHANGED <<stored, torn, due, kept, docs, selected, design, original, connected,
                       channel, turn, posting, posted>>
        /\ refresh[f].state = "asked"
        /\ unheard' = (unheard /\ (torn \/ stored = None))
    BY DEF Answer
  <1>2. /\ refresh' \in [Slots -> [state : {"idle", "asked", "answered"}, body : NoneOf(Docs)]]
        /\ refresh'[f].state = "answered" /\ refresh'[f].body = IF torn THEN None ELSE stored
        /\ \A g \in Slots : g # f => refresh'[g] = refresh[g]
    BY DEF Answer, TypeOK, NoneOf
  <1>3. TypeOK'
    BY <1>1, <1>2 DEF TypeOK
  <1>4. KeptInv'
    BY <1>1, <1>2 DEF KeptInv, ResetTargetWasSaved
  <1>5. /\ turn \in Seq(Slots) /\ Len(turn) \in Nat
        /\ \A i \in 1..Len(turn) : turn[i] \in Slots
    BY DEF TypeOK
  <1>6. PICK k \in 1..Len(turn) : turn[k] = f
    BY <1>1 DEF TurnInv
  <1>7. TurnInv'
    <2>1. \A g \in Slots : refresh'[g].state = "idle" <=> \A i \in 1..Len(turn) : turn[i] # g
      BY <1>1, <1>2 DEF TurnInv
    <2>2. ASSUME InOrder, NEW i \in 1..Len(turn), NEW j \in 1..Len(turn), i < j,
                 refresh'[turn[j]].state = "answered", turn[i] # f
          PROVE  refresh[turn[i]].state = "answered"
      <3>1. CASE turn[j] = f
        <4>1. refresh[turn[i]].state # "asked"
          <5>1. PICK l \in 1..Len(turn) :
                   turn[l] = f /\ \A m \in 1..(l - 1) : refresh[turn[m]].state # "asked"
            BY <2>2 DEF Answer, FirstAsked
          <5>2. l = j
            BY <3>1, <5>1 DEF TurnInv
          <5> QED BY <1>5, <2>2, <5>1, <5>2
        <4>2. refresh[turn[i]].state # "idle"
          BY <1>5 DEF TurnInv
        <4> QED BY <1>5, <4>1, <4>2 DEF TypeOK
      <3>2. CASE turn[j] # f
        <4>1. refresh[turn[j]].state = "answered"
          BY <1>2, <1>5, <2>2, <3>2
        <4> QED BY <2>2, <4>1 DEF TurnInv
      <3> QED BY <3>1, <3>2
    <2>3. ASSUME InOrder, NEW i \in 1..Len(turn), NEW j \in 1..Len(turn), i < j,
                 refresh'[turn[j]].state = "answered"
          PROVE  refresh'[turn[i]].state = "answered"
      BY <1>2, <1>5, <2>2, <2>3
    <2> QED BY <1>1, <2>1, <2>3 DEF TurnInv
  <1>8. DeletedInv'
    BY <1>1 DEF DeletedInv
  <1>9. ScreenInv'
    BY <1>1, <1>2 DEF ScreenInv
  <1>10. LatestInv'
    <2>1. SUFFICES ASSUME InOrder, selected, ~unheard', ~Pending,
                          refresh'[turn[Len(turn)]].state = "answered"
                   PROVE  turn # <<>> /\ refresh'[turn[Len(turn)]].body = stored
      BY <1>1 DEF LatestInv, Pending
    <2>2. turn # <<>> /\ Len(turn) \in 1..Len(turn)
      BY <1>5, <1>6
    <2>3. CASE turn[Len(turn)] = f
      BY <1>2, <2>1, <2>2, <2>3 DEF Pending
    <2>4. CASE turn[Len(turn)] # f
      <3>1. refresh[turn[Len(turn)]].state = "answered" /\ k < Len(turn)
        BY <1>2, <1>5, <1>6, <2>1, <2>2, <2>4
      <3>2. refresh[turn[k]].state = "answered"
        BY <1>6, <2>1, <2>2, <3>1 DEF TurnInv
      <3> QED BY <1>1, <1>6, <3>2
    <2> QED BY <2>2, <2>3, <2>4
  <1> QED BY <1>3, <1>4, <1>7, <1>8, <1>9, <1>10

\* In order, the refresh that lands is the first of the turn.
LEMMA LandsStep == ASSUME TInv, NEW f \in Slots, RefreshLands(f) PROVE TInv'
  <1> USE DEF TInv, serverVars, streamVars, postVars
  <1>1. /\ UNCHANGED <<stored, torn, due, kept, docs, selected, connected, channel, posting,
                       posted, unheard>>
        /\ refresh[f].state = "answered" /\ refresh' = [refresh EXCEPT ![f] = Idle]
        /\ design' = IF refresh[f].body = None THEN design ELSE refresh[f].body
        /\ original' = IF refresh[f].body = None THEN original ELSE refresh[f].body
    BY DEF RefreshLands
  <1>2. PICK i \in 1..Len(turn) :
           /\ turn[i] = f /\ (InOrder => i = 1)
           /\ turn' = SubSeq(turn, 1, i - 1) \o SubSeq(turn, i + 1, Len(turn))
    BY DEF RefreshLands
  <1>3. /\ refresh' \in [Slots -> [state : {"idle", "asked", "answered"}, body : NoneOf(Docs)]]
        /\ refresh'[f].state = "idle" /\ refresh'[f].body = None
        /\ \A g \in Slots : g # f => refresh'[g] = refresh[g]
        /\ refresh[f].body \in NoneOf(Docs)
    BY <1>1 DEF TypeOK, Idle, NoneOf
  <1>4. /\ turn \in Seq(Slots) /\ Len(turn) \in Nat /\ turn' \in Seq(Slots)
        /\ Len(turn') = Len(turn) - 1
        /\ \A j \in 1..Len(turn') : turn'[j] = IF j < i THEN turn[j] ELSE turn[j + 1]
    <2>1. turn \in Seq(Slots) /\ Len(turn) \in Nat
      BY DEF TypeOK
    <2> DEFINE r == SubSeq(turn, 1, i - 1) \o SubSeq(turn, i + 1, Len(turn))
    <2>2. /\ r \in Seq(Slots) /\ Len(r) = Len(turn) - 1
          /\ \A j \in 1..Len(r) : r[j] = IF j < i THEN turn[j] ELSE turn[j + 1]
      BY <2>1, TakenOut
    <2>3. turn' = r
      BY <1>2
    <2> HIDE DEF r
    <2> QED BY <2>1, <2>2, <2>3
  <1>5. /\ \A j \in 1..Len(turn) : turn[j] \in Slots
        /\ \A j \in 1..Len(turn) : j # i => turn[j] # f
    <2>1. \A j \in 1..Len(turn) : turn[j] \in Slots
      BY DEF TypeOK
    <2>2. \A j \in 1..Len(turn) : j # i => turn[j] # f
      BY <1>2 DEF TurnInv
    <2> QED BY <2>1, <2>2
  <1>6. TypeOK'
    BY <1>1, <1>3, <1>4 DEF TypeOK
  <1>7. KeptInv'
    BY <1>1, <1>3 DEF KeptInv, ResetTargetWasSaved
  <1>8. TurnInv'
    <2>1. ASSUME NEW g \in Slots
          PROVE  refresh'[g].state = "idle" <=> \A j \in 1..Len(turn') : turn'[j] # g
      <3>1. CASE g = f
        <4>1. ASSUME NEW j \in 1..Len(turn') PROVE turn'[j] # f
          <5>1. CASE j < i
            BY <1>4, <1>5, <5>1
          <5>2. CASE ~(j < i)
            BY <1>4, <1>5, <5>2
          <5> QED BY <5>1, <5>2
        <4> QED BY <1>3, <3>1, <4>1
      <3>2. CASE g # f
        <4>1. ASSUME NEW j \in 1..Len(turn), turn[j] = g
              PROVE  \E l \in 1..Len(turn') : turn'[l] = g
          <5>1. CASE j < i
            <6>1. j \in 1..Len(turn')
              BY <1>4, <5>1
            <6> QED BY <1>4, <4>1, <5>1, <6>1
          <5>2. CASE j > i
            <6>1. j - 1 \in 1..Len(turn') /\ ~(j - 1 < i) /\ (j - 1) + 1 = j
              BY <1>4, <5>2
            <6> QED BY <1>4, <4>1, <6>1
          <5>3. j # i
            BY <1>2, <3>2, <4>1
          <5>4. j < i \/ j > i
            BY <1>4, <5>3
          <5> QED BY <5>1, <5>2, <5>4
        <4>2. ASSUME NEW j \in 1..Len(turn'), turn'[j] = g
              PROVE  \E l \in 1..Len(turn) : turn[l] = g
          <5>1. j \in 1..Len(turn) /\ j + 1 \in 1..Len(turn)
            BY <1>4
          <5> QED BY <1>4, <4>2, <5>1
        <4>3. refresh'[g].state = refresh[g].state
          BY <1>3, <3>2
        <4> QED BY <4>1, <4>2, <4>3 DEF TurnInv
      <3> QED BY <3>1, <3>2
    <2>2. ASSUME NEW j \in 1..Len(turn'), NEW l \in 1..Len(turn'), turn'[j] = turn'[l]
          PROVE  j = l
      <3> DEFINE at(m) == IF m < i THEN m ELSE m + 1
      <3>1. at(j) \in 1..Len(turn) /\ at(l) \in 1..Len(turn)
        BY <1>4
      <3>2. turn[at(j)] = turn[at(l)]
        BY <1>4, <2>2
      <3>3. at(j) = at(l)
        <4> HIDE DEF at
        <4> QED BY <3>1, <3>2 DEF TurnInv
      <3> QED BY <1>4, <3>3
    <2>3. ASSUME InOrder, NEW j \in 1..Len(turn'), NEW l \in 1..Len(turn'), j < l,
                 refresh'[turn'[l]].state = "answered"
          PROVE  refresh'[turn'[j]].state = "answered"
      <3>1. /\ i = 1 /\ turn'[j] = turn[j + 1] /\ turn'[l] = turn[l + 1]
            /\ j + 1 \in 1..Len(turn) /\ l + 1 \in 1..Len(turn) /\ j + 1 < l + 1
            /\ j + 1 # i /\ l + 1 # i
        BY <1>2, <1>4, <2>3
      <3>2. /\ refresh'[turn[j + 1]] = refresh[turn[j + 1]]
            /\ refresh'[turn[l + 1]] = refresh[turn[l + 1]]
        BY <1>3, <1>5, <3>1
      <3> QED BY <2>3, <3>1, <3>2 DEF TurnInv
    <2> QED BY <2>1, <2>2, <2>3 DEF TurnInv
  <1>9. DeletedInv'
    BY <1>1 DEF DeletedInv
  <1>10. ScreenInv'
    BY <1>1, <1>3 DEF ScreenInv
  <1>11. LatestInv'
    <2>1. SUFFICES ASSUME InOrder, selected, ~unheard, ~Pending
                   PROVE  IF turn' = <<>> THEN original' = stored
                          ELSE LET last == refresh'[turn'[Len(turn')]] IN
                               last.state = "answered" => last.body = stored
      BY <1>1 DEF LatestInv, Pending
    <2>2. /\ i = 1 /\ turn # <<>> /\ Len(turn) \in 1..Len(turn)
          /\ refresh[turn[Len(turn)]].state = "answered" =>
                refresh[turn[Len(turn)]].body = stored
      BY <1>2, <1>4, <2>1 DEF LatestInv
    <2>3. CASE turn' = <<>>
      <3>1. Len(turn) = 1
        BY <1>4, <2>3
      <3>2. refresh[f].body = stored
        BY <1>1, <1>2, <2>2, <3>1
      <3>3. stored # None
        BY <2>1, EmptySeq DEF DeletedInv, Pending, Kinds
      <3> QED BY <1>1, <2>3, <3>2, <3>3
    <2>4. CASE turn' # <<>>
      <3>1. Len(turn') \in 1..Len(turn') /\ Len(turn') + 1 = Len(turn) /\ Len(turn) # i
        BY <1>4, <2>2, <2>4, EmptySeq
      <3>2. turn'[Len(turn')] = turn[Len(turn)] /\ turn[Len(turn)] # f
        BY <1>4, <1>5, <2>2, <3>1
      <3>3. refresh'[turn'[Len(turn')]] = refresh[turn[Len(turn)]]
        BY <1>3, <1>5, <2>2, <3>2
      <3> QED BY <2>2, <2>4, <3>3
    <2> QED BY <2>3, <2>4
  <1> QED BY <1>6, <1>7, <1>8, <1>9, <1>10, <1>11

-----------------------------------------------------------------------------
(* BrowserSync: the user.                                                  *)

LEMMA UserSteps == ASSUME TInv, Edit \/ Reset \/ ClickSave PROVE TInv'
  <1> USE DEF TInv, serverVars, streamVars, refreshVars, postVars
  <1>1. /\ UNCHANGED <<stored, torn, due, kept, selected, original, connected, channel, refresh,
                       turn, posted, unheard>>
        /\ design # None /\ design' # None
        /\ posting' = posting \/ (posting = None /\ posting' = design)
        /\ docs' \in Docs /\ design' \in NoneOf(Docs)
    <2>1. CASE Edit
      <3>1. docs + 1 \in Docs
        BY <2>1, TabAssumption DEF Edit, TypeOK, Docs
      <3> QED BY <2>1, <3>1, NoneAssumption DEF Edit, NoneOf
    <2>2. CASE Reset
      BY <2>2 DEF Reset, Dirty, TypeOK
    <2>3. CASE ClickSave
      BY <2>3 DEF ClickSave, TypeOK, tabVars
    <2> QED BY <2>1, <2>2, <2>3
  <1>2. TypeOK'
    BY <1>1 DEF TypeOK
  <1>3. KeptInv' /\ TurnInv'
    BY <1>1 DEF KeptInv, TurnInv, ResetTargetWasSaved
  <1>4. DeletedInv' /\ ScreenInv' /\ LatestInv'
    BY <1>1 DEF DeletedInv, ScreenInv, LatestInv, Pending
  <1> QED BY <1>2, <1>3, <1>4

LEMMA PostLandsStep == ASSUME TInv, PostLands PROVE TInv'
  <1> USE DEF TInv, serverVars, streamVars, refreshVars
  <1>1. /\ UNCHANGED <<stored, torn, due, kept, docs, design, connected, channel, refresh, turn>>
        /\ posting # None /\ kept[posting] # None /\ selected' = TRUE /\ original' = posting
        /\ unheard' = (unheard \/ ~selected \/ stored # posting)
        /\ posting' = None /\ posted' = FALSE
    BY DEF PostLands, NewOriginal, KeptInv
  <1>2. TypeOK'
    BY <1>1 DEF TypeOK, NoneOf
  <1>3. KeptInv' /\ TurnInv'
    BY <1>1 DEF KeptInv, TurnInv, ResetTargetWasSaved
  <1>4. DeletedInv' /\ ScreenInv' /\ LatestInv'
    BY <1>1 DEF DeletedInv, ScreenInv, LatestInv, Pending
  <1> QED BY <1>2, <1>3, <1>4

-----------------------------------------------------------------------------
(* BrowserSync: the theorems.                                              *)

LEMMA TabStep == TInv /\ [Next]_vars => TInv'
  <1> SUFFICES ASSUME TInv, [Next]_vars PROVE TInv'
    OBVIOUS
  <1>1. CASE Next
    BY <1>1, WriteSteps, PublishStep, StreamSteps, SkipSavedStep, RefreshOnSavedStep,
       OnDeletedStep, AnswerStep, LandsStep, UserSteps, PostLandsStep DEF Next
  <1>2. CASE UNCHANGED vars
    BY <1>2 DEF vars, TInv, TypeOK, KeptInv, TurnInv, ResetTargetWasSaved, DeletedInv,
                ScreenInv, LatestInv, Pending
  <1> QED BY <1>1, <1>2

LEMMA TabInvariant == Spec => []TInv
  BY TabInit, TabStep, PTL DEF Spec

\* Reset goes back to a document that was saved, in whatever order the
\* answers of the overlapping refreshes come (App.tsx:595).
THEOREM TabCorrect == Spec => []TabSound
  <1>1. TInv => TabSound
    BY DEF TInv, KeptInv, TabSound
  <1> QED BY <1>1, TabInvariant, PTL

\* When the refreshes are answered in the order asked, a clean tab that has
\* missed no event shows what the store holds once nothing is on its way
\* (events.py:4, App.tsx:325).
THEOREM TabShowsTheStore == ASSUME InOrder PROVE Spec => []ShowsTheStore
  <1>1. TInv => ShowsTheStore
    <2> SUFFICES ASSUME TInv, Quiet, selected, ~Dirty, ~unheard PROVE InStep
      BY DEF ShowsTheStore
    <2> USE DEF TInv
    <2>1. ~Pending /\ turn = <<>>
      BY DEF Quiet, Pending, TypeOK
    <2>2. original = stored
      BY <2>1 DEF LatestInv
    <2>3. stored # None
      BY <2>1, EmptySeq DEF DeletedInv, Pending, Kinds
    <2>4. design # None
      BY <2>1, EmptySeq DEF ScreenInv, TurnInv
    <2> QED BY <2>2, <2>3, <2>4 DEF Dirty, InStep
  <1> QED BY <1>1, TabInvariant, PTL

-----------------------------------------------------------------------------
(* LorawanDialogs: the inductive invariant.                                *)

\* What the records hold.
LoraPhases == {"loading", "idle", "building", "built", "flashing", "monitoring", "waiting",
               "flashed", "error"}
DriverRecords == [key : Keys, to : Writes \union {0}, done : BOOLEAN]
DialogRecords ==
    [kind : DialogKinds \union {"none"}, on : BOOLEAN, phase : LoraPhases,
     choice : Choices \union {"none"}, offline : BOOLEAN, built : Choices \union {"none"},
     session : Writes \union {0}, heard : SUBSET {"asks", "joined"}, asked : BOOLEAN,
     driver : DriverRecords, wiped : BOOLEAN, result : Posts \union {0},
     pushed : {"idle", "pushing", "pushed", "error"}]
WriteRecords ==
    [by : Dialogs \union {0}, image : Choices \union {"none", "torn", "esphome"}, full : BOOLEAN,
     pc : {"unused", "ask", "write", "boot", "done", "failed"}]
PostRecords ==
    [by : Dialogs \union {0}, to : Writes \union {0}, of : Choices \union {"none"},
     pc : {"unused", "sent", "served", "done", "failed"}, met : BOOLEAN]
LoraShape ==
    /\ dlg \in [Dialogs -> DialogRecords]
    /\ write \in [Writes -> WriteRecords]
    /\ post \in [Posts -> PostRecords]
    /\ serial \in Writes \union {0}
    /\ dev \in [image : Choices \union {"none", "torn", "esphome"}, keys : Keys,
                says : {"silent", "asks", "joined"}, mac : BOOLEAN]
    /\ srv \in [key : Posts \union {0}, session : Keys, codec : Choices \union {"none"}]
    /\ build \in [job : {"none", "running", "passed", "failed"}, key : Posts \union {0}]
    /\ trouble \in 0 .. MaxTroubles

\* What a dialog of each kind does and keeps.
KindInv ==
    \A i \in Dialogs :
        /\ dlg[i].kind = "none" => dlg[i] = Closed
        /\ dlg[i].kind # "none" => dlg[i].choice \in Choices
        /\ dlg[i].kind = "flash" =>
              /\ dlg[i].phase \notin {"waiting", "flashed"}
              /\ dlg[i].result = 0 /\ dlg[i].pushed = "idle"
        /\ dlg[i].kind = "esphome" =>
              /\ dlg[i].phase \in {"idle", "waiting", "flashing", "flashed", "error"}
              /\ dlg[i].heard = {} /\ ~dlg[i].asked /\ dlg[i].driver = NoDriver

\* The port is open for the write that opened it, until its session is left.
WriteUnderWay(n) == write[n].pc \in {"ask", "write", "boot"}
SerialInv ==
    /\ \A n \in Writes : write[n].pc # "unused" =>
          /\ write[n].by \in Dialogs /\ dlg[write[n].by].kind # "none"
          /\ write[n].image = "esphome" <=> dlg[write[n].by].kind = "esphome"
          /\ WriteUnderWay(n) => dlg[write[n].by].phase = "flashing"
          /\ write[n].pc \in {"write", "boot"} => serial = n
          /\ write[n].pc = "done" /\ serial = n => dlg[write[n].by].session = n
          /\ write[n].pc = "ask" => serial # n
    /\ serial # 0 => write[serial].pc # "unused"
    /\ \A m, n \in Writes : WriteUnderWay(m) /\ WriteUnderWay(n) /\ write[m].by = write[n].by => m = n
    /\ \A i \in Dialogs :
          /\ dlg[i].session # 0 =>
                /\ write[dlg[i].session].by = i /\ write[dlg[i].session].pc = "done"
                /\ dlg[i].phase \in {"monitoring", "flashed"}
          /\ dlg[i].phase = "monitoring" => dlg[i].session # 0

\* What a session has heard, until it is asked.
HeardInv ==
    /\ dev.says = "asks" => dev.keys = 0
    /\ \A n \in Writes :
          /\ write[n].pc \in {"ask", "write"} =>
                dlg[write[n].by].heard = {} /\ ~dlg[write[n].by].asked
          /\ write[n].pc = "boot" =>
                dlg[write[n].by].heard \subseteq {dev.says} /\ ~dlg[write[n].by].asked
    /\ \A i \in Dialogs : dlg[i].session # 0 /\ ~dlg[i].asked => dlg[i].heard = {}

\* What was sent for a session, and the driver its answer made.
Used(p) == post[p].pc # "unused"
PostsInv ==
    /\ \A p \in Posts : Used(p) =>
          /\ post[p].by \in Dialogs /\ dlg[post[p].by].kind # "none" /\ post[p].of \in Choices
          /\ post[p].to = 0 <=> dlg[post[p].by].kind = "esphome"
          /\ post[p].to # 0 =>
                /\ write[post[p].to].by = post[p].by /\ write[post[p].to].pc = "done"
                /\ post[p].to = serial => dlg[post[p].by].asked
    /\ \A p, q \in Posts :
          /\ InFlight(p) /\ InFlight(q) /\ p # q => post[p].met
          /\ InFlight(p) /\ ~post[p].met /\ post[p].to # 0 /\ Used(q) /\ p # q =>
                post[q].to = 0 \/ post[q].to # serial
    /\ \A i \in Dialogs : LET d == dlg[i].driver IN
          /\ d.to = 0 <=> d.key = 0
          /\ d.to # 0 =>
                /\ write[d.to].by = i /\ write[d.to].pc = "done"
                /\ d.to = serial => dlg[i].asked
          /\ d.key \in Posts => post[d.key].to = d.to /\ post[d.key].pc = "done"

\* An ESPHome dialog registers once, and pushes what it got.
PushInv ==
    /\ \A p, q \in Posts :
          InFlight(p) /\ InFlight(q) /\ post[p].by = post[q].by /\ post[p].to = 0 => p = q
    /\ \A p \in Posts : InFlight(p) /\ post[p].to = 0 => dlg[post[p].by].result = 0
    /\ \A i \in Dialogs :
          /\ dlg[i].result # 0 => post[dlg[i].result].pc = "done"
          /\ dlg[i].pushed # "idle" => dlg[i].result # 0
          /\ dlg[i].phase = "waiting" => dlg[i].pushed = "pushed"
          /\ dlg[i].pushed = "pushed" /\ (\A j \in Dialogs \ {i} : dlg[j].pushed = "idle") =>
                build.key = dlg[i].result
    /\ \A n \in Writes :
          write[n].pc # "unused" /\ dlg[write[n].by].kind = "esphome" =>
              /\ dlg[write[n].by].pushed = "pushed"
              /\ write[n].pc \in {"boot", "done"} /\ dlg[write[n].by].on => serial = n

\* A session that was asked is served while the board asks.
ServedInv ==
    \A i \in Dialogs : LET d == dlg[i] IN
        (/\ d.phase = "monitoring" /\ serial = d.session /\ d.asked
         /\ dev.says = "asks" /\ dev.mac /\ ~d.wiped) =>
            \/ d.driver.to = d.session /\ ~d.driver.done
            \/ \E p \in Posts : post[p].to = d.session /\ (InFlight(p) \/ post[p].pc = "failed")
            \/ d.driver.to \notin {0, d.session}

RekeyInv ==
    \A p \in Posts : post[p].pc = "sent" /\ post[p].to # 0 /\ ~post[p].met =>
        dev.keys \in {0, Throwaway} \/ dev.keys # srv.key

LInv ==
    /\ LoraShape /\ KindInv /\ SerialInv /\ HeardInv /\ PostsInv /\ PushInv
    /\ ServedInv /\ RekeyInv /\ FlashedHasItsKeys

-----------------------------------------------------------------------------
(* LorawanDialogs: the dialogs.                                            *)

LEMMA Numbers ==
    /\ 0 \notin Writes /\ 0 \notin Posts /\ 0 \notin Dialogs
    /\ 0 \in Keys /\ Throwaway \in Keys /\ Throwaway \notin Posts /\ Throwaway # 0
    /\ Posts \subseteq Keys
    /\ "none" \notin Choices /\ "torn" \notin Choices /\ "esphome" \notin Choices
  BY LorawanBounds DEF Writes, Posts, Dialogs, Keys, Throwaway

LEMMA ClosedShape == Closed \in DialogRecords /\ NoDriver \in DriverRecords
  BY Numbers DEF Closed, NoDriver, DialogRecords, DriverRecords, LoraPhases

LEMMA LoraInit == ASSUME LorawanInit PROVE LInv
  <1>1. LoraShape
    BY ClosedShape, Numbers, LorawanBounds
       DEF LorawanInit, LoraShape, WriteRecords, PostRecords
  <1>2. \A i \in Dialogs : /\ dlg[i] = Closed /\ dlg[i].phase = "idle" /\ dlg[i].session = 0
                           /\ dlg[i].driver.key = 0 /\ dlg[i].driver.to = 0
                           /\ dlg[i].kind = "none" /\ dlg[i].result = 0
                           /\ dlg[i].pushed = "idle"
    BY DEF LorawanInit, Closed
  <1>3. /\ \A n \in Writes : write[n].pc = "unused"
        /\ \A p \in Posts : post[p].pc = "unused"
        /\ serial = 0 /\ dev.says = "silent" /\ dev.keys = 0
    BY DEF LorawanInit
  <1>4. KindInv /\ SerialInv /\ HeardInv /\ PostsInv /\ PushInv /\ ServedInv
    BY <1>2, <1>3, Numbers DEF KindInv, SerialInv, HeardInv, PostsInv, PushInv, ServedInv, WriteUnderWay,
       Used, InFlight
  <1>5. RekeyInv /\ FlashedHasItsKeys
    BY <1>3 DEF RekeyInv, FlashedHasItsKeys
  <1> QED BY <1>1, <1>4, <1>5 DEF LInv

LEMMA DialogAt ==
    ASSUME dlg \in [Dialogs -> DialogRecords], NEW i \in Dialogs, NEW new \in DialogRecords,
           Alters(i, new)
    PROVE  /\ dlg' \in [Dialogs -> DialogRecords] /\ dlg'[i] = new
           /\ \A j \in Dialogs : j # i => dlg'[j] = dlg[j]
  BY DEF Alters

\* setPhase.
LEMMA PhaseSet ==
    ASSUME dlg \in [Dialogs -> DialogRecords], NEW i \in Dialogs, NEW p \in LoraPhases,
           Phase(i, p)
    PROVE  /\ dlg' \in [Dialogs -> DialogRecords]
           /\ \A j \in Dialogs : j # i => dlg'[j] = dlg[j]
           /\ dlg'[i].kind = dlg[i].kind /\ dlg'[i].on = dlg[i].on /\ dlg'[i].phase = p
           /\ dlg'[i].session = dlg[i].session /\ dlg'[i].heard = dlg[i].heard
           /\ dlg'[i].asked = dlg[i].asked /\ dlg'[i].driver = dlg[i].driver
           /\ dlg'[i].wiped = dlg[i].wiped /\ dlg'[i].result = dlg[i].result
           /\ dlg'[i].pushed = dlg[i].pushed /\ dlg'[i].choice = dlg[i].choice
  <1> DEFINE new == [dlg[i] EXCEPT !.phase = p]
  <1>1. /\ new \in DialogRecords
        /\ new.kind = dlg[i].kind /\ new.on = dlg[i].on /\ new.phase = p
        /\ new.session = dlg[i].session /\ new.heard = dlg[i].heard
        /\ new.asked = dlg[i].asked /\ new.driver = dlg[i].driver
        /\ new.wiped = dlg[i].wiped /\ new.result = dlg[i].result
        /\ new.pushed = dlg[i].pushed /\ new.choice = dlg[i].choice
    <2>1. dlg[i] \in DialogRecords
      OBVIOUS
    <2> QED BY <2>1 DEF DialogRecords
  <1>2. Alters(i, new)
    BY DEF Phase, Alters
  <1> HIDE DEF new
  <1>3. dlg' \in [Dialogs -> DialogRecords] /\ dlg'[i] = new /\ \A j \in Dialogs : j # i => dlg'[j] = dlg[j]
    BY <1>1, <1>2, DialogAt
  <1> QED BY <1>1, <1>3

\* What a dialog does by itself, between its writes and its sessions.
LEMMA QuietDialog ==
    ASSUME LInv, UNCHANGED <<write, post, serial, dev, srv>>, NEW i \in Dialogs,
           dlg' \in [Dialogs -> DialogRecords], \A j \in Dialogs : j # i => dlg'[j] = dlg[j],
           dlg'[i].kind = dlg[i].kind, dlg'[i].session = dlg[i].session,
           dlg'[i].heard = dlg[i].heard, dlg'[i].asked = dlg[i].asked,
           dlg'[i].driver = dlg[i].driver, dlg'[i].wiped = dlg[i].wiped,
           \/ dlg'[i].phase = dlg[i].phase
           \/ /\ dlg[i].phase \notin {"flashing", "monitoring", "flashed"}
              /\ dlg'[i].phase # "monitoring"
    PROVE  SerialInv' /\ HeardInv' /\ PostsInv' /\ ServedInv' /\ RekeyInv'
  <1> USE DEF LInv
  <1>1. \A j \in Dialogs : /\ dlg'[j].kind = dlg[j].kind /\ dlg'[j].session = dlg[j].session
                           /\ dlg'[j].heard = dlg[j].heard /\ dlg'[j].asked = dlg[j].asked
                           /\ dlg'[j].driver = dlg[j].driver /\ dlg'[j].wiped = dlg[j].wiped
                           /\ dlg[j].phase \in {"flashing", "monitoring", "flashed"} => dlg'[j].phase = dlg[j].phase
                           /\ dlg'[j].phase = "monitoring" => dlg[j].phase = "monitoring"
    OBVIOUS
  <1>2. SerialInv'
    BY <1>1 DEF SerialInv, WriteUnderWay
  <1>3. HeardInv'
    <2>1. \A n \in Writes : write[n].pc \in {"ask", "write", "boot"} => write[n].by \in Dialogs
      BY DEF SerialInv
    <2> QED BY <1>1, <2>1 DEF HeardInv
  <1>4. PostsInv'
    BY <1>1 DEF PostsInv, Used, InFlight
  <1>5. ServedInv'
    BY <1>1 DEF ServedInv, InFlight
  <1>6. RekeyInv'
    BY DEF RekeyInv
  <1> QED BY <1>2, <1>3, <1>4, <1>5, <1>6

\* The same of a dialog that does not push: what it has pushed is as it was.
LEMMA QuietPush ==
    ASSUME LInv, UNCHANGED <<write, post, serial, dev, srv, build>>, NEW i \in Dialogs,
           dlg' \in [Dialogs -> DialogRecords], \A j \in Dialogs : j # i => dlg'[j] = dlg[j],
           dlg'[i].kind = dlg[i].kind, dlg'[i].result = dlg[i].result,
           dlg'[i].pushed = dlg[i].pushed, dlg'[i].on => dlg[i].on,
           dlg'[i].phase = "waiting" => dlg[i].pushed = "pushed"
    PROVE  PushInv' /\ FlashedHasItsKeys'
  <1> USE DEF LInv
  <1>1. \A j \in Dialogs : /\ dlg'[j].kind = dlg[j].kind /\ dlg'[j].result = dlg[j].result
                           /\ dlg'[j].pushed = dlg[j].pushed /\ dlg'[j].on => dlg[j].on
                           /\ dlg'[j].phase = "waiting" => dlg[j].pushed = "pushed"
    BY DEF PushInv
  <1>2. PushInv'
    <2>1. \A p \in Posts : InFlight(p) => post[p].by \in Dialogs
      BY DEF PostsInv, InFlight, Used
    <2>2. \A n \in Writes : write[n].pc # "unused" => write[n].by \in Dialogs
      BY DEF SerialInv
    <2> QED BY <1>1, <2>1, <2>2 DEF PushInv, InFlight
  <1>3. FlashedHasItsKeys'
    BY <1>1 DEF FlashedHasItsKeys, PushedAlone
  <1> QED BY <1>2, <1>3

LEMMA OpenStep ==
    ASSUME LInv, NEW i \in Dialogs, NEW k \in DialogKinds, OpenDialog(i, k) PROVE LInv'
  <1> USE DEF LInv
  <1>1. PICK c \in Choices :
           Alters(i, [Closed EXCEPT !.kind = k, !.on = TRUE, !.choice = c,
                                    !.phase = IF k = "flash" THEN "loading" ELSE "idle"])
    BY DEF OpenDialog
  <1>2. UNCHANGED <<write, post, serial, dev, srv, build, trouble>> /\ dlg[i] = Closed
    BY DEF OpenDialog
  <1> DEFINE new == [Closed EXCEPT !.kind = k, !.on = TRUE, !.choice = c,
                                   !.phase = IF k = "flash" THEN "loading" ELSE "idle"]
  <1>3. /\ new \in DialogRecords /\ new.kind = k /\ new.kind # "none" /\ new.choice = c
        /\ new.session = 0 /\ new.heard = {} /\ ~new.asked /\ new.driver = NoDriver
        /\ new.wiped = FALSE /\ new.result = 0 /\ new.pushed = "idle"
        /\ new.phase = IF k = "flash" THEN "loading" ELSE "idle"
    BY ClosedShape, Numbers DEF Closed, NoDriver, DialogRecords, DriverRecords, LoraPhases, DialogKinds
  <1>4. /\ dlg[i].kind = "none" /\ dlg[i].session = 0 /\ dlg[i].heard = {} /\ ~dlg[i].asked
        /\ dlg[i].driver = NoDriver /\ dlg[i].result = 0 /\ dlg[i].pushed = "idle"
        /\ dlg[i].phase = "idle" /\ NoDriver.to = 0 /\ NoDriver.key = 0
    BY <1>2 DEF Closed, NoDriver
  <1> HIDE DEF new
  <1>5. /\ dlg' \in [Dialogs -> DialogRecords] /\ dlg'[i] = new
        /\ \A j \in Dialogs : j # i => dlg'[j] = dlg[j]
    BY <1>1, <1>3, DialogAt DEF LoraShape, new
  <1>6. /\ \A n \in Writes : write[n].pc # "unused" => write[n].by \in Dialogs \ {i}
        /\ \A p \in Posts : Used(p) => post[p].by \in Dialogs \ {i}
        /\ \A p \in Posts : InFlight(p) => Used(p)
    BY <1>4 DEF SerialInv, PostsInv, InFlight, Used
  <1>7. LoraShape'
    BY <1>2, <1>5 DEF LoraShape
  <1>8. KindInv'
    BY <1>3, <1>5 DEF KindInv, DialogKinds
  <1>9. SerialInv'
    BY <1>2, <1>3, <1>4, <1>5, <1>6 DEF SerialInv, WriteUnderWay
  <1>10. HeardInv'
    BY <1>2, <1>3, <1>5, <1>6 DEF HeardInv
  <1>11. PostsInv'
    BY <1>2, <1>3, <1>4, <1>5, <1>6, Numbers DEF PostsInv, Used, InFlight
  <1>12. PushInv'
    BY <1>2, <1>3, <1>4, <1>5, <1>6 DEF PushInv, InFlight
  <1>13. ServedInv' /\ RekeyInv'
    BY <1>2, <1>3, <1>5 DEF ServedInv, RekeyInv, InFlight
  <1>14. FlashedHasItsKeys'
    BY <1>2, <1>3, <1>4, <1>5, <1>6 DEF FlashedHasItsKeys, PushedAlone
  <1> QED BY <1>7, <1>8, <1>9, <1>10, <1>11, <1>12, <1>13, <1>14

\* The port let go by its own session: no write has it.
LEMMA LetGo ==
    ASSUME LInv, NEW i \in Dialogs, dlg[i].session # 0,
           serial' = IF serial = dlg[i].session THEN 0 ELSE serial
    PROVE  /\ serial' \in {0, serial}
           /\ \A n \in Writes : write[n].pc \in {"write", "boot"} => serial' = n
           /\ \A n \in Writes : write[n].pc # "unused" /\ write[n].by # i /\ serial = n => serial' = n
  <1>1. dlg[i].session \in Writes /\ write[dlg[i].session].by = i /\ write[dlg[i].session].pc = "done"
    BY DEF LInv, SerialInv, LoraShape, DialogRecords
  <1>2. \A n \in Writes : write[n].pc \in {"write", "boot"} => serial = n
    BY DEF LInv, SerialInv
  <1> QED BY <1>1, <1>2

LEMMA CloseStep == ASSUME LInv, NEW i \in Dialogs, CloseDialog(i) PROVE LInv'
  <1> USE DEF LInv
  <1>1. /\ UNCHANGED <<write, post, dev, srv, build, trouble>> /\ dlg[i].on
        /\ dlg' = [dlg EXCEPT ![i].on = FALSE]
        /\ serial' = IF dlg[i].session # 0 /\ serial = dlg[i].session THEN 0 ELSE serial
    BY DEF CloseDialog
  <1>2. /\ dlg' \in [Dialogs -> DialogRecords] /\ ~dlg'[i].on
        /\ \A j \in Dialogs :
              /\ dlg'[j].kind = dlg[j].kind /\ dlg'[j].phase = dlg[j].phase
              /\ dlg'[j].choice = dlg[j].choice /\ dlg'[j].session = dlg[j].session
              /\ dlg'[j].heard = dlg[j].heard /\ dlg'[j].asked = dlg[j].asked
              /\ dlg'[j].driver = dlg[j].driver /\ dlg'[j].wiped = dlg[j].wiped
              /\ dlg'[j].result = dlg[j].result /\ dlg'[j].pushed = dlg[j].pushed
              /\ j # i => dlg'[j].on = dlg[j].on
    <2> DEFINE new == [dlg[i] EXCEPT !.on = FALSE]
    <2>1. /\ new \in DialogRecords /\ ~new.on
          /\ new.kind = dlg[i].kind /\ new.phase = dlg[i].phase /\ new.choice = dlg[i].choice
          /\ new.session = dlg[i].session /\ new.heard = dlg[i].heard
          /\ new.asked = dlg[i].asked /\ new.driver = dlg[i].driver
          /\ new.wiped = dlg[i].wiped /\ new.result = dlg[i].result
          /\ new.pushed = dlg[i].pushed
      <3>1. dlg[i] \in DialogRecords
        BY DEF LoraShape
      <3> QED BY <3>1 DEF DialogRecords
    <2>2. Alters(i, new)
      BY <1>1 DEF Alters
    <2> HIDE DEF new
    <2>3. /\ dlg' \in [Dialogs -> DialogRecords] /\ dlg'[i] = new
          /\ \A j \in Dialogs : j # i => dlg'[j] = dlg[j]
      BY <2>1, <2>2, DialogAt DEF LoraShape
    <2> QED BY <2>1, <2>3
  <1>3. /\ serial' \in {0, serial}
        /\ \A n \in Writes : write[n].pc \in {"write", "boot"} => serial' = n
        /\ \A n \in Writes : write[n].pc # "unused" /\ write[n].by # i /\ serial = n => serial' = n
    <2>1. CASE dlg[i].session # 0
      BY <1>1, <2>1, LetGo
    <2>2. CASE dlg[i].session = 0
      BY <1>1, <2>2 DEF SerialInv
    <2> QED BY <2>1, <2>2
  <1>4. LoraShape'
    BY <1>1, <1>2, <1>3 DEF LoraShape
  <1>5. KindInv'
    <2>1. dlg[i].kind # "none"
      BY <1>1 DEF KindInv, Closed
    <2>2. \A j \in Dialogs : j # i => dlg'[j] = dlg[j]
      BY <1>1 DEF LoraShape
    <2> QED BY <1>2, <2>1, <2>2 DEF KindInv
  <1>6. SerialInv'
    BY <1>1, <1>2, <1>3, Numbers DEF SerialInv, WriteUnderWay
  <1>7. HeardInv'
    <2>1. \A n \in Writes : write[n].pc # "unused" => write[n].by \in Dialogs
      BY DEF SerialInv
    <2> QED BY <1>1, <1>2, <2>1 DEF HeardInv
  <1>8. PostsInv'
    BY <1>1, <1>2, <1>3 DEF PostsInv, Used, InFlight
  <1>9. PushInv'
    <2>1. \A p \in Posts : InFlight(p) => post[p].by \in Dialogs
      BY DEF PostsInv, InFlight, Used
    <2>2. \A n \in Writes : write[n].pc # "unused" => write[n].by \in Dialogs
      BY DEF SerialInv
    <2>3. ASSUME NEW n \in Writes, write[n].pc \in {"boot", "done"}, dlg[write[n].by].kind = "esphome",
                 dlg'[write[n].by].on
          PROVE  serial' = n
      <3>1. write[n].by # i /\ dlg[write[n].by].on
        BY <1>2, <2>2, <2>3
      <3> QED BY <1>3, <2>3, <3>1 DEF PushInv
    <2> QED BY <1>1, <1>2, <2>1, <2>2, <2>3 DEF PushInv, InFlight
  <1>10. ServedInv'
    BY <1>1, <1>2, <1>3, Numbers DEF ServedInv, InFlight, SerialInv
  <1>11. RekeyInv' /\ FlashedHasItsKeys'
    <2>1. \A j \in Dialogs : dlg'[j].on => dlg[j].on
      BY <1>1, <1>2
    <2> QED BY <1>1, <1>2, <2>1 DEF RekeyInv, FlashedHasItsKeys, PushedAlone
  <1> QED BY <1>4, <1>5, <1>6, <1>7, <1>8, <1>9, <1>10, <1>11

\* The steps of a dialog that only set its phase, and what was picked.
LEMMA PhaseSteps ==
    ASSUME LInv, NEW i \in Dialogs, NEW ok \in BOOLEAN, NEW c \in Choices,
           BoardsListed(i, ok) \/ HandleBuild(i, c) \/ BuildAnswered(i, ok) \/ WaitForBuild(i)
    PROVE  LInv'
  <1> USE DEF LInv
  <1>1. /\ UNCHANGED <<write, post, serial, dev, srv, build>> /\ trouble' \in 0 .. MaxTroubles
        /\ dlg[i].phase \in {"loading", "building", "idle", "built", "error"}
    BY LorawanBounds
       DEF BoardsListed, HandleBuild, BuildAnswered, WaitForBuild, Troubles, LoraShape
  <1>2. /\ dlg' \in [Dialogs -> DialogRecords]
        /\ \A j \in Dialogs : j # i => dlg'[j] = dlg[j]
        /\ dlg'[i].kind = dlg[i].kind /\ dlg'[i].on = dlg[i].on
        /\ dlg'[i].session = dlg[i].session /\ dlg'[i].heard = dlg[i].heard
        /\ dlg'[i].asked = dlg[i].asked /\ dlg'[i].driver = dlg[i].driver
        /\ dlg'[i].wiped = dlg[i].wiped /\ dlg'[i].result = dlg[i].result
        /\ dlg'[i].pushed = dlg[i].pushed /\ dlg'[i].choice \in {dlg[i].choice} \union Choices
        /\ \/ dlg[i].kind = "flash" /\ dlg'[i].phase \in {"idle", "building", "built", "error"}
           \/ dlg[i].kind = "esphome" /\ dlg'[i].phase = "waiting" /\ dlg[i].pushed = "pushed"
    <2>1. CASE BoardsListed(i, ok)
      <3>1. PICK p \in {"idle", "error"} : Phase(i, p)
        BY <2>1 DEF BoardsListed
      <3>2. dlg[i].kind = "flash"
        BY <2>1 DEF BoardsListed, LoraShape, DialogRecords, KindInv, Closed, DialogKinds
      <3> QED BY <3>1, <3>2, PhaseSet DEF LoraShape, LoraPhases
    <2>2. CASE HandleBuild(i, c)
      <3> DEFINE new == [dlg[i] EXCEPT !.phase = "building", !.choice = c, !.built = c]
      <3>1. /\ new \in DialogRecords
            /\ new.kind = dlg[i].kind /\ new.on = dlg[i].on /\ new.phase = "building"
            /\ new.session = dlg[i].session /\ new.heard = dlg[i].heard
            /\ new.asked = dlg[i].asked /\ new.driver = dlg[i].driver
            /\ new.wiped = dlg[i].wiped /\ new.result = dlg[i].result
            /\ new.pushed = dlg[i].pushed /\ new.choice = c
        <4>1. dlg[i] \in DialogRecords
          BY DEF LoraShape
        <4> QED BY <4>1 DEF DialogRecords, LoraPhases
      <3>2. Alters(i, new) /\ dlg[i].kind = "flash"
        BY <2>2 DEF HandleBuild
      <3> HIDE DEF new
      <3>3. /\ dlg' \in [Dialogs -> DialogRecords] /\ dlg'[i] = new
            /\ \A j \in Dialogs : j # i => dlg'[j] = dlg[j]
        BY <3>1, <3>2, DialogAt DEF LoraShape
      <3> QED BY <3>1, <3>2, <3>3
    <2>3. CASE BuildAnswered(i, ok)
      <3>1. PICK p \in {"built", "error"} : Phase(i, p)
        BY <2>3 DEF BuildAnswered
      <3>2. dlg[i].kind = "flash"
        BY <2>3 DEF BuildAnswered, LoraShape, DialogRecords, KindInv, Closed, DialogKinds
      <3> QED BY <3>1, <3>2, PhaseSet DEF LoraShape, LoraPhases
    <2>4. CASE WaitForBuild(i)
      <3>1. Phase(i, "waiting") /\ dlg[i].kind = "esphome" /\ dlg[i].pushed = "pushed"
        BY <2>4 DEF WaitForBuild
      <3> QED BY <3>1, PhaseSet DEF LoraShape, LoraPhases
    <2> QED BY <2>1, <2>2, <2>3, <2>4
  <1>3. LoraShape'
    BY <1>1, <1>2 DEF LoraShape
  <1>4. KindInv'
    BY <1>2 DEF KindInv
  <1>5. SerialInv' /\ HeardInv' /\ PostsInv' /\ ServedInv' /\ RekeyInv'
    BY <1>1, <1>2, QuietDialog
  <1>6. PushInv' /\ FlashedHasItsKeys'
    BY <1>1, <1>2, QuietPush
  <1> QED BY <1>3, <1>4, <1>5, <1>6

\* The push, whose build carries the keys of its result.
LEMMA PushKeysSteps ==
    ASSUME LInv, NEW i \in Dialogs, NEW ok \in BOOLEAN, PushKeys(i) \/ PushServed(i, ok)
    PROVE  LInv'
  <1> USE DEF LInv
  <1>1. /\ UNCHANGED <<write, post, serial, dev, srv>> /\ trouble' \in 0 .. MaxTroubles
        /\ dlg[i].pushed # "pushed"
        /\ dlg[i].pushed # "idle" \/ (dlg[i].on /\ dlg[i].result # 0)
    BY LorawanBounds DEF PushKeys, PushServed, Troubles, LoraShape
  <1>2. /\ dlg' \in [Dialogs -> DialogRecords]
        /\ \A j \in Dialogs : j # i => dlg'[j] = dlg[j]
        /\ dlg'[i].kind = dlg[i].kind /\ dlg'[i].on = dlg[i].on
        /\ dlg'[i].session = dlg[i].session /\ dlg'[i].heard = dlg[i].heard
        /\ dlg'[i].asked = dlg[i].asked /\ dlg'[i].driver = dlg[i].driver
        /\ dlg'[i].wiped = dlg[i].wiped /\ dlg'[i].result = dlg[i].result
        /\ dlg'[i].phase = dlg[i].phase /\ dlg'[i].choice = dlg[i].choice
        /\ dlg'[i].pushed \in {"pushing", "pushed", "error"}
    BY DEF PushKeys, PushServed, LoraShape, DialogRecords
  <1>3. /\ build' \in [job : {"none", "running", "passed", "failed"}, key : Posts \union {0}]
        /\ dlg'[i].pushed = "pushed" => build'.key = dlg[i].result
        /\ build' # build => dlg'[i].pushed = "pushed"
    BY DEF PushKeys, PushServed, LoraShape, DialogRecords
  <1>4. dlg[i].result # 0 /\ dlg[i].kind = "esphome"
    <2>1. dlg[i].result # 0
      BY <1>1 DEF PushInv
    <2> QED BY <2>1 DEF KindInv, Closed, LoraShape, DialogRecords, DialogKinds
  <1>5. LoraShape'
    BY <1>1, <1>2, <1>3 DEF LoraShape
  <1>6. KindInv'
    BY <1>2, <1>4 DEF KindInv
  <1>7. SerialInv' /\ HeardInv' /\ PostsInv' /\ ServedInv' /\ RekeyInv'
    BY <1>1, <1>2, QuietDialog
  <1>8. PushInv'
    <2>1. \A p \in Posts : InFlight(p) => post[p].by \in Dialogs
      BY DEF PostsInv, InFlight, Used
    <2>2. \A n \in Writes : write[n].pc # "unused" => write[n].by \in Dialogs
      BY DEF SerialInv
    <2>3. \A n \in Writes : write[n].pc # "unused" => write[n].by # i
      BY <1>1, <1>4 DEF PushInv
    <2>4. \A j \in Dialogs : /\ dlg'[j].result = dlg[j].result /\ dlg'[j].kind = dlg[j].kind
                             /\ dlg'[j].phase = dlg[j].phase /\ dlg'[j].on = dlg[j].on
      BY <1>2
    <2>5. /\ \A j \in Dialogs : dlg'[j].pushed # "idle" => dlg'[j].result # 0
          /\ \A j \in Dialogs : dlg'[j].phase = "waiting" => dlg'[j].pushed = "pushed"
      BY <1>1, <1>2, <1>4 DEF PushInv
    <2>6. ASSUME NEW j \in Dialogs, dlg'[j].pushed = "pushed",
                 \A k \in Dialogs \ {j} : dlg'[k].pushed = "idle"
          PROVE  build'.key = dlg'[j].result
      <3>1. j = i
        BY <1>2, <2>6
      <3> QED BY <1>2, <1>3, <2>6, <3>1
    <2>7. \A n \in Writes : write[n].pc # "unused" /\ dlg[write[n].by].kind = "esphome" =>
              dlg'[write[n].by].pushed = "pushed"
      BY <1>2, <2>2, <2>3 DEF PushInv
    <2> QED BY <1>1, <2>1, <2>2, <2>4, <2>5, <2>6, <2>7 DEF PushInv, InFlight
  <1>9. FlashedHasItsKeys'
    <2>1. \A n \in Writes : write[n].pc # "unused" => write[n].by # i /\ write[n].by \in Dialogs
      BY <1>1, <1>4 DEF PushInv, SerialInv
    <2> QED BY <1>1, <1>2, <2>1 DEF FlashedHasItsKeys, PushedAlone
  <1> QED BY <1>5, <1>6, <1>7, <1>8, <1>9

LEMMA BuildEndsStep == ASSUME LInv, NEW ok \in BOOLEAN, BuildEnds(ok) PROVE LInv'
  <1> USE DEF LInv
  <1>1. /\ UNCHANGED <<dlg, write, post, serial, dev, srv>> /\ trouble' \in 0 .. MaxTroubles
        /\ build' \in [job : {"none", "running", "passed", "failed"}, key : Posts \union {0}]
        /\ build'.key = build.key
    BY LorawanBounds DEF BuildEnds, Troubles, LoraShape
  <1>2. LoraShape'
    BY <1>1 DEF LoraShape
  <1>3. KindInv' /\ SerialInv' /\ HeardInv' /\ PostsInv'
    BY <1>1 DEF KindInv, SerialInv, HeardInv, PostsInv, WriteUnderWay, Used, InFlight
  <1>4. PushInv' /\ ServedInv' /\ RekeyInv' /\ FlashedHasItsKeys'
    BY <1>1 DEF PushInv, ServedInv, RekeyInv, FlashedHasItsKeys, PushedAlone, InFlight
  <1> QED BY <1>2, <1>3, <1>4

-----------------------------------------------------------------------------
(* LorawanDialogs: the writes.                                             *)

\* A write begun by a dialog that has none under way and no session.
LEMMA WriteBegins ==
    ASSUME LInv, UNCHANGED <<post, serial, dev, srv, build, trouble>>,
           NEW i \in Dialogs, NEW n \in Writes, NextWrite(n),
           NEW image \in Choices \union {"none", "esphome"}, NEW full \in BOOLEAN,
           write' = [write EXCEPT ![n] = [by |-> i, image |-> image, full |-> full, pc |-> "ask"]],
           dlg[i].kind # "none", image = "esphome" <=> dlg[i].kind = "esphome",
           dlg[i].kind = "esphome" => dlg[i].pushed = "pushed",
           dlg[i].phase \notin {"flashing", "monitoring", "flashed"},
           dlg' \in [Dialogs -> DialogRecords], \A j \in Dialogs : j # i => dlg'[j] = dlg[j],
           dlg'[i].kind = dlg[i].kind, dlg'[i].on = dlg[i].on, dlg'[i].phase = "flashing",
           dlg'[i].session = dlg[i].session, dlg'[i].heard = {}, ~dlg'[i].asked,
           dlg'[i].driver = NoDriver, dlg'[i].result = dlg[i].result,
           dlg'[i].pushed = dlg[i].pushed, dlg'[i].choice \in Choices
    PROVE  LInv'
  <1> USE DEF LInv
  <1>1. /\ write' \in [Writes -> WriteRecords] /\ write[n].pc = "unused"
        /\ write'[n].by = i /\ write'[n].image = image /\ write'[n].pc = "ask"
        /\ \A m \in Writes : m # n => write'[m] = write[m]
    BY DEF LoraShape, WriteRecords, NextWrite
  <1>2. /\ dlg[i].session = 0 /\ NoDriver.key = 0 /\ NoDriver.to = 0
        /\ \A m \in Writes : write[m].by = i => ~WriteUnderWay(m)
        /\ \A m \in Writes : write[m].by = i /\ write[m].pc = "done" => serial # m
    <2>1. dlg[i].session = 0
      BY DEF SerialInv
    <2>2. \A m \in Writes : write[m].by = i => ~WriteUnderWay(m)
      BY DEF SerialInv, WriteUnderWay
    <2>3. \A m \in Writes : write[m].by = i /\ write[m].pc = "done" => serial # m
      BY <2>1, Numbers DEF SerialInv
    <2> QED BY <2>1, <2>2, <2>3 DEF NoDriver, Closed
  <1>3. LoraShape'
    BY <1>1 DEF LoraShape
  <1>4. KindInv'
    BY DEF KindInv, DialogKinds, LoraShape, DialogRecords
  <1>5. SerialInv'
    <2>1. ASSUME NEW m \in Writes, write'[m].pc # "unused"
          PROVE  /\ write'[m].by \in Dialogs /\ dlg'[write'[m].by].kind # "none"
                 /\ write'[m].image = "esphome" <=> dlg'[write'[m].by].kind = "esphome"
                 /\ WriteUnderWay(m)' => dlg'[write'[m].by].phase = "flashing"
                 /\ write'[m].pc \in {"write", "boot"} => serial' = m
                 /\ write'[m].pc = "done" /\ serial' = m => dlg'[write'[m].by].session = m
                 /\ write'[m].pc = "ask" => serial' # m
      <3>1. CASE m = n
        <4>1. serial # n
          BY <1>1, Numbers DEF SerialInv
        <4> QED BY <1>1, <3>1, <4>1
      <3>2. CASE m # n
        <4>1. write'[m] = write[m] /\ write[m].by \in Dialogs
          BY <1>1, <2>1, <3>2 DEF SerialInv
        <4> QED BY <1>1, <1>2, <2>1, <3>2, <4>1 DEF SerialInv, WriteUnderWay
      <3> QED BY <3>1, <3>2
    <2>2. serial' # 0 => write'[serial'].pc # "unused"
      BY <1>1 DEF SerialInv, LoraShape
    <2>3. \A m, k \in Writes : WriteUnderWay(m)' /\ WriteUnderWay(k)' /\ write'[m].by = write'[k].by => m = k
      BY <1>1, <1>2 DEF SerialInv, WriteUnderWay
    <2>4. \A j \in Dialogs :
            /\ dlg'[j].session # 0 =>
                  /\ write'[dlg'[j].session].by = j /\ write'[dlg'[j].session].pc = "done"
                  /\ dlg'[j].phase \in {"monitoring", "flashed"}
            /\ dlg'[j].phase = "monitoring" => dlg'[j].session # 0
      BY <1>1, <1>2 DEF SerialInv, LoraShape, DialogRecords
    <2> QED BY <2>1, <2>2, <2>3, <2>4 DEF SerialInv
  <1>6. HeardInv'
    <2>1. \A m \in Writes : write[m].pc # "unused" => write[m].by \in Dialogs
      BY DEF SerialInv
    <2> QED BY <1>1, <1>2, <2>1 DEF HeardInv, WriteUnderWay
  <1>7. PostsInv'
    <2>1. ASSUME NEW p \in Posts, Used(p)
          PROVE  /\ post[p].by \in Dialogs /\ dlg'[post[p].by].kind # "none" /\ post[p].of \in Choices
                 /\ post[p].to = 0 <=> dlg'[post[p].by].kind = "esphome"
                 /\ post[p].to # 0 =>
                       /\ write'[post[p].to].by = post[p].by /\ write'[post[p].to].pc = "done"
                       /\ post[p].to = serial => dlg'[post[p].by].asked
      <3>1. post[p].by \in Dialogs /\ (post[p].to # 0 => post[p].to \in Writes)
        BY <2>1 DEF PostsInv, LoraShape, PostRecords
      <3>2. post[p].to # 0 /\ post[p].by = i => post[p].to # serial
        BY <1>2, <2>1, <3>1 DEF PostsInv
      <3> QED BY <1>1, <2>1, <3>1, <3>2 DEF PostsInv
    <2>2. ASSUME NEW j \in Dialogs
          PROVE  LET d == dlg'[j].driver IN
                 /\ d.to = 0 <=> d.key = 0
                 /\ d.to # 0 =>
                       /\ write'[d.to].by = j /\ write'[d.to].pc = "done"
                       /\ d.to = serial => dlg'[j].asked
                 /\ d.key \in Posts => post[d.key].to = d.to /\ post[d.key].pc = "done"
      <3>1. CASE j = i
        BY <1>2, <3>1, Numbers
      <3>2. CASE j # i
        <4>1. dlg'[j] = dlg[j] /\ dlg[j].driver.to \in Writes \union {0}
          BY <3>2 DEF LoraShape, DialogRecords, DriverRecords
        <4> QED BY <1>1, <3>2, <4>1 DEF PostsInv
      <3> QED BY <3>1, <3>2
    <2> QED BY <2>1, <2>2 DEF PostsInv, Used, InFlight
  <1>8. PushInv'
    <2>1. \A p \in Posts : InFlight(p) => post[p].by \in Dialogs
      BY DEF PostsInv, InFlight, Used
    <2>2. \A m \in Writes : write[m].pc # "unused" => write[m].by \in Dialogs
      BY DEF SerialInv
    <2>3. \A j \in Dialogs : /\ dlg'[j].result = dlg[j].result /\ dlg'[j].kind = dlg[j].kind
                             /\ dlg'[j].pushed = dlg[j].pushed /\ dlg'[j].on = dlg[j].on
                             /\ dlg'[j].phase = "waiting" => dlg[j].phase = "waiting"
      OBVIOUS
    <2> QED BY <1>1, <2>1, <2>2, <2>3 DEF PushInv, InFlight
  <1>9. ServedInv' /\ RekeyInv'
    BY DEF ServedInv, RekeyInv, InFlight
  <1>10. FlashedHasItsKeys'
    <2>1. \A j \in Dialogs : /\ dlg'[j].result = dlg[j].result /\ dlg'[j].kind = dlg[j].kind
                             /\ dlg'[j].pushed = dlg[j].pushed /\ dlg'[j].on = dlg[j].on
      OBVIOUS
    <2> QED BY <1>1, <2>1 DEF FlashedHasItsKeys, PushedAlone
  <1> QED BY <1>3, <1>4, <1>5, <1>6, <1>7, <1>8, <1>9, <1>10

LEMMA FlashBuiltStep ==
    ASSUME LInv, NEW i \in Dialogs, NEW n \in Writes, NEW c \in Choices,
           NEW full \in BOOLEAN, NEW offline \in BOOLEAN, FlashBuilt(i, n, c, full, offline)
    PROVE  LInv'
  <1> DEFINE new == [Cleared(dlg[i]) EXCEPT !.phase = "flashing", !.wiped = FALSE,
                                            !.choice = c, !.offline = offline]
  <1>1. /\ UNCHANGED <<post, serial, dev, srv, build, trouble>> /\ NextWrite(n)
        /\ dlg[i].kind = "flash" /\ dlg[i].phase = "built"
        /\ write' = [write EXCEPT ![n] = [by |-> i, image |-> dlg[i].built,
                                          full |-> full, pc |-> "ask"]]
        /\ Alters(i, new)
    BY DEF FlashBuilt
  <1>2. dlg \in [Dialogs -> DialogRecords] /\ dlg[i] \in DialogRecords
    BY DEF LInv, LoraShape
  <1>3. /\ new \in DialogRecords /\ new.kind = dlg[i].kind /\ new.on = dlg[i].on
        /\ new.phase = "flashing" /\ new.session = dlg[i].session /\ new.heard = {}
        /\ ~new.asked /\ new.driver = NoDriver /\ new.result = dlg[i].result
        /\ new.pushed = dlg[i].pushed /\ new.choice = c
    <2> DEFINE old == Cleared(dlg[i])
    <2>1. NoDriver \in DriverRecords
      BY ClosedShape
    <2>2. /\ old \in DialogRecords /\ old.kind = dlg[i].kind /\ old.on = dlg[i].on
          /\ old.session = dlg[i].session /\ old.heard = {} /\ ~old.asked
          /\ old.driver = NoDriver /\ old.result = dlg[i].result
          /\ old.pushed = dlg[i].pushed
      BY <1>2, <2>1 DEF Cleared, DialogRecords
    <2> HIDE DEF old
    <2>3. new = [old EXCEPT !.phase = "flashing", !.wiped = FALSE, !.choice = c, !.offline = offline]
      BY DEF old
    <2> HIDE DEF new
    <2> QED BY <2>2, <2>3 DEF DialogRecords, LoraPhases
  <1> HIDE DEF new
  <1>4. /\ dlg' \in [Dialogs -> DialogRecords] /\ dlg'[i] = new
        /\ \A j \in Dialogs : j # i => dlg'[j] = dlg[j]
    BY <1>1, <1>2, <1>3, DialogAt
  <1>5. dlg[i].built \in Choices \union {"none"} /\ dlg[i].built # "esphome"
    BY <1>2, Numbers DEF DialogRecords
  <1> QED BY <1>1, <1>3, <1>4, <1>5, WriteBegins

LEMMA BuildSeenStep ==
    ASSUME LInv, NEW i \in Dialogs, NEW n \in Writes, BuildSeen(i, n) PROVE LInv'
  <1>1. dlg[i].phase = "waiting" /\ UNCHANGED <<post, serial, dev, srv, build, trouble>>
    BY DEF BuildSeen
  <1>2. /\ dlg \in [Dialogs -> DialogRecords] /\ dlg[i].kind = "esphome"
        /\ dlg[i].pushed = "pushed" /\ dlg[i].choice \in Choices
        /\ dlg[i].heard = {} /\ ~dlg[i].asked /\ dlg[i].driver = NoDriver
    BY <1>1 DEF LInv, LoraShape, DialogRecords, DialogKinds, KindInv, Closed, PushInv
  <1>3. CASE UNCHANGED write /\ Phase(i, "error")
    <2>1. /\ dlg' \in [Dialogs -> DialogRecords]
          /\ \A j \in Dialogs : j # i => dlg'[j] = dlg[j]
          /\ dlg'[i].kind = dlg[i].kind /\ dlg'[i].on = dlg[i].on /\ dlg'[i].phase = "error"
          /\ dlg'[i].session = dlg[i].session /\ dlg'[i].heard = dlg[i].heard
          /\ dlg'[i].asked = dlg[i].asked /\ dlg'[i].driver = dlg[i].driver
          /\ dlg'[i].wiped = dlg[i].wiped /\ dlg'[i].result = dlg[i].result
          /\ dlg'[i].pushed = dlg[i].pushed /\ dlg'[i].choice = dlg[i].choice
      BY <1>2, <1>3, PhaseSet DEF LoraPhases
    <2>2. LoraShape'
      BY <1>1, <1>3, <2>1 DEF LInv, LoraShape
    <2>3. KindInv'
      BY <1>2, <2>1 DEF LInv, KindInv
    <2>4. SerialInv' /\ HeardInv' /\ PostsInv' /\ ServedInv' /\ RekeyInv'
      BY <1>1, <1>3, <2>1, QuietDialog
    <2>5. PushInv' /\ FlashedHasItsKeys'
      BY <1>1, <1>3, <2>1, QuietPush
    <2> QED BY <2>2, <2>3, <2>4, <2>5 DEF LInv
  <1>4. CASE /\ NextWrite(n) /\ Phase(i, "flashing")
             /\ write' = [write EXCEPT ![n] = [by |-> i, image |-> "esphome",
                                               full |-> TRUE, pc |-> "ask"]]
    <2>1. /\ dlg' \in [Dialogs -> DialogRecords]
          /\ \A j \in Dialogs : j # i => dlg'[j] = dlg[j]
          /\ dlg'[i].kind = dlg[i].kind /\ dlg'[i].on = dlg[i].on /\ dlg'[i].phase = "flashing"
          /\ dlg'[i].session = dlg[i].session /\ dlg'[i].heard = dlg[i].heard
          /\ dlg'[i].asked = dlg[i].asked /\ dlg'[i].driver = dlg[i].driver
          /\ dlg'[i].result = dlg[i].result
          /\ dlg'[i].pushed = dlg[i].pushed /\ dlg'[i].choice = dlg[i].choice
      BY <1>2, <1>4, PhaseSet DEF LoraPhases
    <2> QED BY <1>1, <1>2, <1>4, <2>1, WriteBegins
  <1> QED BY <1>1, <1>3, <1>4 DEF BuildSeen

\* What a step of one write leaves of the others.
LEMMA WriteMoves ==
    ASSUME write \in [Writes -> WriteRecords], NEW n \in Writes,
           NEW pc \in {"write", "boot", "done", "failed"}, WriteAt(n, pc)
    PROVE  /\ write' \in [Writes -> WriteRecords]
           /\ \A m \in Writes : /\ write'[m].by = write[m].by /\ write'[m].image = write[m].image
                                /\ write'[m].full = write[m].full
                                /\ write'[m].pc = IF m = n THEN pc ELSE write[m].pc
  BY DEF WriteAt, WriteRecords

\* What the invariant says of a write under way.
LEMMA OfTheWrite ==
    ASSUME LInv, NEW n \in Writes, WriteUnderWay(n)
    PROVE  /\ write[n].by \in Dialogs /\ dlg[write[n].by].kind # "none"
           /\ dlg[write[n].by].phase = "flashing" /\ dlg[write[n].by].session = 0
           /\ \A i \in Dialogs : dlg[i].session # n
           /\ \A p \in Posts : Used(p) => post[p].to # n
           /\ \A i \in Dialogs : dlg[i].driver.to # n
           /\ \A m \in Writes : m # n /\ WriteUnderWay(m) => write[m].by # write[n].by
           /\ n # 0
  BY Numbers DEF LInv, SerialInv, PostsInv, WriteUnderWay

LEMMA WriteFails ==
    ASSUME LInv, NEW n \in Writes, write[n].pc \in {"ask", "write"}, WriteAt(n, "failed"),
           Phase(write[n].by, "error"), UNCHANGED <<serial, srv, build>>,
           trouble' \in 0 .. MaxTroubles,
           dev' \in [image : Choices \union {"none", "torn", "esphome"}, keys : Keys,
                     says : {"silent", "asks", "joined"}, mac : BOOLEAN],
           dev'.keys = dev.keys, dev'.mac = dev.mac,
           dev'.says = dev.says \/ (dev'.says = "silent" /\ write[n].pc = "write"),
           post' \in [Posts -> PostRecords],
           \A p \in Posts : /\ post'[p].by = post[p].by /\ post'[p].to = post[p].to
                            /\ post'[p].of = post[p].of /\ post'[p].pc = post[p].pc
                            /\ post[p].met => post'[p].met
    PROVE  LInv'
  <1> USE DEF LInv
  <1> DEFINE i == write[n].by
  <1>1. WriteUnderWay(n) /\ i \in Dialogs /\ dlg[i].phase = "flashing" /\ dlg[i].kind # "none"
    BY OfTheWrite DEF WriteUnderWay
  <1> HIDE DEF i
  <1>2. /\ write' \in [Writes -> WriteRecords]
        /\ \A m \in Writes : /\ write'[m].by = write[m].by /\ write'[m].image = write[m].image
                             /\ write'[m].pc = IF m = n THEN "failed" ELSE write[m].pc
    BY WriteMoves DEF LoraShape
  <1>3. /\ dlg' \in [Dialogs -> DialogRecords]
        /\ \A j \in Dialogs : j # i => dlg'[j] = dlg[j]
        /\ \A j \in Dialogs :
              /\ dlg'[j].kind = dlg[j].kind /\ dlg'[j].on = dlg[j].on
              /\ dlg'[j].session = dlg[j].session /\ dlg'[j].heard = dlg[j].heard
              /\ dlg'[j].asked = dlg[j].asked /\ dlg'[j].driver = dlg[j].driver
              /\ dlg'[j].wiped = dlg[j].wiped /\ dlg'[j].result = dlg[j].result
              /\ dlg'[j].pushed = dlg[j].pushed /\ dlg'[j].choice = dlg[j].choice
              /\ dlg'[j].phase = IF j = i THEN "error" ELSE dlg[j].phase
    BY <1>1, PhaseSet DEF LoraShape, LoraPhases, i
  <1>4. LoraShape'
    BY <1>2, <1>3 DEF LoraShape
  <1>5. KindInv'
    BY <1>1, <1>3 DEF KindInv, DialogKinds, LoraShape, DialogRecords
  <1>6. \A m \in Writes : write[m].pc # "unused" => write[m].by \in Dialogs
    BY DEF SerialInv
  <1>7. \A m \in Writes : WriteUnderWay(m)' => m # n /\ WriteUnderWay(m) /\ write[m].by # i
    BY <1>1, <1>2, OfTheWrite DEF WriteUnderWay, i
  <1>8. SerialInv'
    <2>1. ASSUME NEW m \in Writes, write'[m].pc # "unused"
          PROVE  /\ write'[m].by \in Dialogs /\ dlg'[write'[m].by].kind # "none"
                 /\ write'[m].image = "esphome" <=> dlg'[write'[m].by].kind = "esphome"
                 /\ WriteUnderWay(m)' => dlg'[write'[m].by].phase = "flashing"
                 /\ write'[m].pc \in {"write", "boot"} => serial' = m
                 /\ write'[m].pc = "done" /\ serial' = m => dlg'[write'[m].by].session = m
                 /\ write'[m].pc = "ask" => serial' # m
      <3>1. write[m].pc # "unused" /\ write[m].by \in Dialogs
        BY <1>1, <1>2, <1>6, <2>1 DEF WriteUnderWay
      <3> QED BY <1>2, <1>3, <1>7, <3>1 DEF SerialInv
    <2>2. serial' # 0 => write'[serial'].pc # "unused"
      BY <1>2 DEF SerialInv, LoraShape
    <2>3. \A m, k \in Writes : WriteUnderWay(m)' /\ WriteUnderWay(k)' /\ write'[m].by = write'[k].by => m = k
      BY <1>2, <1>7 DEF SerialInv
    <2>4. ASSUME NEW j \in Dialogs
          PROVE  /\ dlg'[j].session # 0 =>
                       /\ write'[dlg'[j].session].by = j /\ write'[dlg'[j].session].pc = "done"
                       /\ dlg'[j].phase \in {"monitoring", "flashed"}
                 /\ dlg'[j].phase = "monitoring" => dlg'[j].session # 0
      <3>1. dlg[j].session \in Writes \union {0} /\ dlg[j].session # n
        BY <1>1, OfTheWrite DEF LoraShape, DialogRecords
      <3>2. j = i => dlg[j].session = 0
        BY <1>1 DEF SerialInv
      <3> QED BY <1>2, <1>3, <3>1, <3>2 DEF SerialInv
    <2> QED BY <2>1, <2>2, <2>3, <2>4 DEF SerialInv
  <1>9. HeardInv'
    <2>1. dev'.says = "asks" => dev'.keys = 0
      BY DEF HeardInv
    <2>2. ASSUME NEW m \in Writes, write'[m].pc = "boot"
          PROVE  /\ dlg'[write'[m].by].heard \subseteq {dev'.says}
                 /\ ~dlg'[write'[m].by].asked
      <3>1. /\ dev'.says = dev.says /\ write[m].pc = "boot" /\ write[m].by \in Dialogs
            /\ write'[m].by = write[m].by
        BY <1>2, <1>6, <2>2 DEF SerialInv
      <3>2. /\ dlg'[write[m].by].heard = dlg[write[m].by].heard
            /\ dlg'[write[m].by].asked = dlg[write[m].by].asked
        BY <1>3, <3>1
      <3> QED BY <3>1, <3>2 DEF HeardInv
    <2>3. ASSUME NEW m \in Writes, write'[m].pc \in {"ask", "write"}
          PROVE  dlg'[write'[m].by].heard = {} /\ ~dlg'[write'[m].by].asked
      <3>1. /\ write[m].pc \in {"ask", "write"} /\ write[m].by \in Dialogs
            /\ write'[m].by = write[m].by
        BY <1>2, <1>6, <2>3
      <3>2. /\ dlg'[write[m].by].heard = dlg[write[m].by].heard
            /\ dlg'[write[m].by].asked = dlg[write[m].by].asked
        BY <1>3, <3>1
      <3> QED BY <3>1, <3>2 DEF HeardInv
    <2>4. \A j \in Dialogs : dlg'[j].session # 0 /\ ~dlg'[j].asked => dlg'[j].heard = {}
      BY <1>3 DEF HeardInv
    <2> QED BY <2>1, <2>2, <2>3, <2>4 DEF HeardInv
  <1>10. PostsInv'
    <2>1. \A p \in Posts : Used(p) => /\ post[p].by \in Dialogs /\ post[p].to # n
                                      /\ post[p].to \in Writes \union {0}
      BY <1>1, OfTheWrite DEF PostsInv, LoraShape, PostRecords
    <2>2. \A j \in Dialogs : dlg[j].driver.to # n /\ dlg[j].driver.to \in Writes \union {0}
      BY <1>1, OfTheWrite DEF LoraShape, DialogRecords, DriverRecords
    <2>3. \A p \in Posts : /\ post'[p].by = post[p].by /\ post'[p].to = post[p].to
                           /\ post'[p].of = post[p].of /\ post'[p].pc = post[p].pc
                           /\ ~post'[p].met => ~post[p].met
      OBVIOUS
    <2> QED BY <1>2, <1>3, <2>1, <2>2, <2>3 DEF PostsInv, Used, InFlight
  <1>11. PushInv'
    <2>1. \A p \in Posts : InFlight(p) => post[p].by \in Dialogs
      BY DEF PostsInv, InFlight, Used
    <2>2. \A j \in Dialogs : dlg'[j].phase = "waiting" => dlg[j].phase = "waiting"
      BY <1>3
    <2>3. \A j \in Dialogs : dlg[j].result # 0 => dlg[j].result \in Posts
      BY DEF LoraShape, DialogRecords
    <2>4. write[n].pc # "unused"
      OBVIOUS
    <2> QED BY <1>2, <1>3, <1>6, <2>1, <2>2, <2>3, <2>4 DEF PushInv, InFlight
  <1>12. ServedInv'
    BY <1>3 DEF ServedInv, InFlight
  <1>13. RekeyInv'
    BY DEF RekeyInv
  <1>14. FlashedHasItsKeys'
    BY <1>2, <1>3 DEF FlashedHasItsKeys, PushedAlone
  <1> QED BY <1>4, <1>5, <1>8, <1>9, <1>10, <1>11, <1>12, <1>13, <1>14

LEMMA PickPortStep ==
    ASSUME LInv, NEW n \in Writes, NEW ok \in BOOLEAN, PickPort(n, ok) PROVE LInv'
  <1>1. /\ write[n].pc = "ask" /\ UNCHANGED <<post, dev, srv, build>>
        /\ trouble' \in 0 .. MaxTroubles
    BY LorawanBounds DEF PickPort, Troubles, LInv, LoraShape
  <1>2. CASE WriteAt(n, "failed") /\ Phase(write[n].by, "error") /\ UNCHANGED serial
    BY <1>1, <1>2, WriteFails DEF LInv, LoraShape
  <1>3. CASE serial = 0 /\ WriteAt(n, "write") /\ serial' = n /\ UNCHANGED dlg
    <2> USE DEF LInv
    <2>1. /\ write' \in [Writes -> WriteRecords]
          /\ \A m \in Writes : /\ write'[m].by = write[m].by /\ write'[m].image = write[m].image
                               /\ write'[m].pc = IF m = n THEN "write" ELSE write[m].pc
      BY <1>3, WriteMoves DEF LoraShape
    <2>2. /\ write[n].by \in Dialogs /\ \A i \in Dialogs : dlg[i].session # n
          /\ \A p \in Posts : Used(p) => post[p].to # n
          /\ \A i \in Dialogs : dlg[i].driver.to # n
      BY <1>1, OfTheWrite DEF WriteUnderWay
    <2>3. /\ \A m \in Writes : WriteUnderWay(m)' <=> WriteUnderWay(m)
          /\ \A m \in Writes : write[m].pc \notin {"write", "boot"}
          /\ \A m \in Writes : write'[m].pc # "unused" => write[m].pc # "unused"
      BY <1>1, <1>3, <2>1, Numbers DEF WriteUnderWay, SerialInv
    <2>4. LoraShape' /\ KindInv'
      BY <1>1, <1>3, <2>1 DEF LoraShape, KindInv
    <2>5. SerialInv'
      <3>1. \A j \in Dialogs : dlg[j].session # 0 => dlg[j].session \in Writes
        BY DEF LoraShape, DialogRecords
      <3> QED BY <1>1, <1>3, <2>1, <2>2, <2>3, <3>1 DEF SerialInv
    <2>6. HeardInv'
      BY <1>1, <1>3, <2>1, <2>3 DEF HeardInv
    <2>7. PostsInv'
      <3>1. \A p \in Posts : Used(p) => post[p].by \in Dialogs /\ post[p].to \in Writes \union {0}
        BY DEF PostsInv, LoraShape, PostRecords
      <3>2. \A j \in Dialogs : dlg[j].driver.to \in Writes \union {0}
        BY DEF LoraShape, DialogRecords, DriverRecords
      <3> QED BY <1>1, <1>3, <2>1, <2>2, <3>1, <3>2 DEF PostsInv, Used, InFlight
    <2>8. PushInv'
      <3>1. \A m \in Writes : write[m].pc \in {"boot", "done"} /\ dlg[write[m].by].kind = "esphome"
                                => ~dlg[write[m].by].on
        BY <1>3, Numbers DEF PushInv
      <3> QED BY <1>1, <1>3, <2>1, <2>3, <3>1 DEF PushInv, InFlight
    <2>9. ServedInv' /\ RekeyInv' /\ FlashedHasItsKeys'
      BY <1>1, <1>3, <2>1, <2>2 DEF ServedInv, RekeyInv, FlashedHasItsKeys, PushedAlone, InFlight
    <2> QED BY <2>4, <2>5, <2>6, <2>7, <2>8, <2>9
  <1> QED BY <1>2, <1>3 DEF PickPort

\* What a write, or its failure, is to the registrations in flight.
LEMMA MetByWrite ==
    ASSUME post \in [Posts -> PostRecords], NEW who,
           post' = [p \in Posts |-> [post[p] EXCEPT !.met = @ \/ (InFlight(p) /\ post[p].by # who)]]
    PROVE  /\ post' \in [Posts -> PostRecords]
           /\ \A p \in Posts : /\ post'[p].by = post[p].by /\ post'[p].to = post[p].to
                               /\ post'[p].of = post[p].of /\ post'[p].pc = post[p].pc
                               /\ post'[p].met <=> post[p].met \/ (InFlight(p) /\ post[p].by # who)
  <1> DEFINE b(p) == post[p].met \/ (InFlight(p) /\ post[p].by # who)
  <1>1. \A p \in Posts : post'[p] = [post[p] EXCEPT !.met = b(p)] /\ b(p) \in BOOLEAN
    OBVIOUS
  <1>2. \A p \in Posts : b(p) <=> post[p].met \/ (InFlight(p) /\ post[p].by # who)
    OBVIOUS
  <1>3. DOMAIN post' = Posts /\ post' = [p \in Posts |-> post'[p]]
    OBVIOUS
  <1> HIDE DEF b
  <1>4. \A p \in Posts : /\ post'[p] \in PostRecords
                         /\ post'[p].by = post[p].by /\ post'[p].to = post[p].to
                         /\ post'[p].of = post[p].of /\ post'[p].pc = post[p].pc
                         /\ post'[p].met = b(p)
    BY <1>1 DEF PostRecords
  <1> QED BY <1>2, <1>3, <1>4

\* The image is on the board: one with keys of its own, or one that leaves
\* the board its keys or none.
LEMMA WriteDone ==
    ASSUME LInv, NEW n \in Writes, WriteImage(n, TRUE) PROVE LInv'
  <1> USE DEF LInv
  <1> DEFINE w == write[n]
             keys == IF w.image = "esphome" THEN build.key ELSE IF w.full THEN 0 ELSE dev.keys
  <1>1. /\ w.pc = "write" /\ UNCHANGED <<dlg, serial, build>> /\ trouble' = trouble
        /\ dev' = [dev EXCEPT !.image = w.image, !.keys = keys, !.says = Booted(keys)]
        /\ srv' = Joining(keys) /\ WriteAt(n, "boot")
        /\ post' = [p \in Posts |-> [post[p] EXCEPT !.met = @ \/ (InFlight(p) /\ post[p].by # w.by)]]
    BY DEF WriteImage, Troubles
  <1>2. /\ write' \in [Writes -> WriteRecords]
        /\ \A m \in Writes : /\ write'[m].by = write[m].by /\ write'[m].image = write[m].image
                             /\ write'[m].pc = IF m = n THEN "boot" ELSE write[m].pc
    BY <1>1, WriteMoves DEF LoraShape
  <1>3. /\ w.by \in Dialogs /\ \A i \in Dialogs : dlg[i].session # n
        /\ \A p \in Posts : Used(p) => post[p].to # n
        /\ \A i \in Dialogs : dlg[i].driver.to # n
        /\ serial = n
    BY <1>1, OfTheWrite DEF WriteUnderWay, SerialInv
  <1>4. \A m \in Writes : m # n => write[m].pc \notin {"write", "boot"}
    BY <1>3 DEF SerialInv
  <1>5. keys \in Keys /\ (keys = 0 => Booted(keys) = "asks") /\ (keys # 0 => Booted(keys) # "asks")
        /\ Booted(keys) \in {"asks", "joined", "silent"}
    <2>1. build.key \in Keys /\ dev.keys \in Keys
      BY Numbers DEF LoraShape
    <2> HIDE DEF w
    <2> QED BY <2>1, Numbers DEF Booted
  <1>6. w.image \in Choices \union {"none", "torn", "esphome"} /\ w.full \in BOOLEAN
    BY DEF LoraShape, WriteRecords
  <1> HIDE DEF keys
  <1>7. /\ dev' \in [image : Choices \union {"none", "torn", "esphome"}, keys : Keys,
                     says : {"silent", "asks", "joined"}, mac : BOOLEAN]
        /\ dev'.keys = keys /\ dev'.says = Booted(keys) /\ dev'.mac = dev.mac
    BY <1>1, <1>5, <1>6 DEF LoraShape
  <1>8. /\ srv' \in [key : Posts \union {0}, session : Keys, codec : Choices \union {"none"}]
        /\ srv'.key = srv.key /\ (keys # 0 /\ keys = srv.key => srv'.session = keys)
    BY <1>1, <1>5 DEF LoraShape, Joining
  <1>9. /\ post' \in [Posts -> PostRecords]
        /\ \A p \in Posts : /\ post'[p].by = post[p].by /\ post'[p].to = post[p].to
                            /\ post'[p].of = post[p].of /\ post'[p].pc = post[p].pc
                            /\ post'[p].met <=> post[p].met \/ (InFlight(p) /\ post[p].by # w.by)
    BY <1>1, MetByWrite DEF LoraShape
  <1>10. LoraShape' /\ KindInv'
    BY <1>1, <1>2, <1>7, <1>8, <1>9 DEF LoraShape, KindInv
  <1>11. SerialInv'
    <2>1. \A m \in Writes : WriteUnderWay(m)' <=> WriteUnderWay(m)
      BY <1>1, <1>2 DEF WriteUnderWay
    <2>2. \A j \in Dialogs : dlg[j].session # 0 => dlg[j].session \in Writes
      BY DEF LoraShape, DialogRecords
    <2>3. \A m \in Writes : write'[m].pc # "unused" => write[m].pc # "unused"
      BY <1>1, <1>2
    <2> QED BY <1>1, <1>2, <1>3, <2>1, <2>2, <2>3 DEF SerialInv
  <1>12. HeardInv'
    BY <1>1, <1>2, <1>4, <1>5, <1>7 DEF HeardInv
  <1>13. PostsInv'
    <2>1. \A p \in Posts : Used(p) => post[p].by \in Dialogs /\ post[p].to \in Writes \union {0}
      BY DEF PostsInv, LoraShape, PostRecords
    <2>2. \A j \in Dialogs : dlg[j].driver.to \in Writes \union {0}
      BY DEF LoraShape, DialogRecords, DriverRecords
    <2>3. \A p \in Posts : /\ post'[p].by = post[p].by /\ post'[p].to = post[p].to
                           /\ post'[p].of = post[p].of /\ post'[p].pc = post[p].pc
                           /\ post[p].met => post'[p].met
      BY <1>9
    <2>4. \A m \in Writes : m # n => write'[m].by = write[m].by /\ write'[m].pc = write[m].pc
      BY <1>2
    <2>5. \A p \in Posts : Used(p)' =>
            /\ post'[p].by \in Dialogs /\ dlg[post'[p].by].kind # "none" /\ post'[p].of \in Choices
            /\ post'[p].to = 0 <=> dlg[post'[p].by].kind = "esphome"
            /\ post'[p].to # 0 =>
                  /\ write'[post'[p].to].by = post'[p].by /\ write'[post'[p].to].pc = "done"
                  /\ post'[p].to = serial => dlg[post'[p].by].asked
      BY <1>3, <2>1, <2>3, <2>4 DEF PostsInv, Used
    <2>6. \A p, q \in Posts :
            /\ InFlight(p)' /\ InFlight(q)' /\ p # q => post'[p].met
            /\ InFlight(p)' /\ ~post'[p].met /\ post'[p].to # 0 /\ Used(q)' /\ p # q =>
                  post'[q].to = 0 \/ post'[q].to # serial
      BY <2>3 DEF PostsInv, Used, InFlight
    <2>7. \A i \in Dialogs : LET d == dlg[i].driver IN
            /\ d.to = 0 <=> d.key = 0
            /\ d.to # 0 =>
                  /\ write'[d.to].by = i /\ write'[d.to].pc = "done"
                  /\ d.to = serial => dlg[i].asked
            /\ d.key \in Posts => post'[d.key].to = d.to /\ post'[d.key].pc = "done"
      BY <1>3, <2>2, <2>3, <2>4 DEF PostsInv
    <2> QED BY <1>1, <2>5, <2>6, <2>7 DEF PostsInv
  <1>14. PushInv'
    <2>1. \A p \in Posts : /\ post'[p].by = post[p].by /\ post'[p].to = post[p].to
                           /\ post'[p].pc = post[p].pc
      BY <1>9
    <2>2. \A j \in Dialogs : dlg[j].result # 0 => dlg[j].result \in Posts
      BY DEF LoraShape, DialogRecords
    <2>3. \A m \in Writes :
            write'[m].pc # "unused" /\ dlg[write'[m].by].kind = "esphome" =>
                /\ dlg[write'[m].by].pushed = "pushed"
                /\ write'[m].pc \in {"boot", "done"} /\ dlg[write'[m].by].on => serial = m
      BY <1>1, <1>2, <1>3 DEF PushInv
    <2>4. UNCHANGED <<dlg, serial, build>>
      BY <1>1
    <2> QED BY <2>1, <2>2, <2>3, <2>4 DEF PushInv, InFlight
  <1>15. ServedInv'
    BY <1>1, <1>3 DEF ServedInv, SerialInv
  <1>16. RekeyInv'
    <2>1. SUFFICES ASSUME NEW p \in Posts, post[p].pc = "sent", post[p].to # 0, ~post'[p].met
                   PROVE  keys \in {0, Throwaway} \/ keys # srv.key
      BY <1>7, <1>8, <1>9 DEF RekeyInv
    <2>2. InFlight(p) /\ Used(p) /\ ~post[p].met /\ post[p].by = w.by
      BY <1>9, <2>1 DEF InFlight, Used
    <2>3. w.image # "esphome"
      BY <1>1, <2>1, <2>2 DEF PostsInv, SerialInv
    <2>4. keys = 0 \/ keys = dev.keys
      BY <2>3 DEF keys
    <2> QED BY <2>1, <2>2, <2>4 DEF RekeyInv
  <1>17. FlashedHasItsKeys'
    <2>1. SUFFICES ASSUME NEW i \in Dialogs, NEW m \in Writes, write[m].by = i,
                          write'[m].pc \in {"boot", "done"}, PushedAlone(i)
                   PROVE  keys = dlg[i].result /\ (srv.key = keys => srv'.session = keys)
      BY <1>1, <1>2, <1>7, <1>8 DEF FlashedHasItsKeys, PushedAlone
    <2>2. m = n
      BY <1>2, <1>3, <2>1 DEF PushInv, PushedAlone
    <2>3. w.image = "esphome" /\ dlg[i].pushed = "pushed"
      BY <1>1, <2>1, <2>2 DEF SerialInv, PushInv, PushedAlone
    <2>4. keys = dlg[i].result /\ keys # 0
      BY <2>1, <2>3 DEF PushInv, PushedAlone, keys
    <2> QED BY <1>8, <2>4
  <1> QED BY <1>10, <1>11, <1>12, <1>13, <1>14, <1>15, <1>16, <1>17

LEMMA WriteImageStep ==
    ASSUME LInv, NEW n \in Writes, NEW ok \in BOOLEAN, WriteImage(n, ok) PROVE LInv'
  <1>1. CASE ok = TRUE
    BY <1>1, WriteDone
  <1>2. CASE ok = FALSE
    <2>1. /\ write[n].pc = "write" /\ UNCHANGED <<serial, srv, build>>
          /\ trouble' \in 0 .. MaxTroubles
          /\ WriteAt(n, "failed") /\ Phase(write[n].by, "error")
          /\ dev' = [dev EXCEPT !.image = "torn", !.says = "silent"]
          /\ post' = [p \in Posts |->
                        [post[p] EXCEPT !.met = @ \/ (InFlight(p) /\ post[p].by # write[n].by)]]
      BY <1>2, LorawanBounds DEF WriteImage, Troubles, LInv, LoraShape
    <2>2. /\ dev' \in [image : Choices \union {"none", "torn", "esphome"}, keys : Keys,
                       says : {"silent", "asks", "joined"}, mac : BOOLEAN]
          /\ dev'.keys = dev.keys /\ dev'.says = "silent" /\ dev'.mac = dev.mac
      BY <2>1 DEF LInv, LoraShape
    <2>3. /\ post' \in [Posts -> PostRecords]
          /\ \A p \in Posts : /\ post'[p].by = post[p].by /\ post'[p].to = post[p].to
                              /\ post'[p].of = post[p].of /\ post'[p].pc = post[p].pc
                              /\ post[p].met => post'[p].met
      <3>1. post \in [Posts -> PostRecords]
        BY DEF LInv, LoraShape
      <3>2. post' = [p \in Posts |->
                      [post[p] EXCEPT !.met = @ \/ (InFlight(p) /\ post[p].by # write[n].by)]]
        BY <2>1
      <3> QED BY <3>1, <3>2, MetByWrite
    <2> QED BY <2>1, <2>2, <2>3, WriteFails
  <1> QED BY <1>1, <1>2

-----------------------------------------------------------------------------
(* LorawanDialogs: registrations and the monitor.                          *)

\* A registration sent: it and those in flight have met.
LEMMA SendsPost ==
    ASSUME post \in [Posts -> PostRecords], NEW p \in Posts, NextPost(p), NEW i \in Dialogs,
           NEW to \in Writes \union {0}, NEW of \in Choices, Sends(p, i, to, of)
    PROVE  /\ post' \in [Posts -> PostRecords] /\ post[p].pc = "unused"
           /\ post'[p].by = i /\ post'[p].to = to /\ post'[p].of = of /\ post'[p].pc = "sent"
           /\ ~post'[p].met => \A r \in Posts : ~InFlight(r)
           /\ \A q \in Posts : q # p =>
                 /\ post'[q].by = post[q].by /\ post'[q].to = post[q].to
                 /\ post'[q].of = post[q].of /\ post'[q].pc = post[q].pc
                 /\ post'[q].met <=> post[q].met \/ InFlight(q)
  <1> DEFINE b == \E r \in Posts : InFlight(r)
             new == [by |-> i, to |-> to, of |-> of, pc |-> "sent", met |-> b]
             rest(q) == IF InFlight(q) THEN [post[q] EXCEPT !.met = TRUE] ELSE post[q]
  <1>1. post' = [q \in Posts |-> IF q = p THEN new ELSE rest(q)] /\ b \in BOOLEAN
    BY DEF Sends
  <1>2. ~b => \A r \in Posts : ~InFlight(r)
    OBVIOUS
  <1> HIDE DEF b
  <1>3. new \in PostRecords
    BY <1>1 DEF PostRecords
  <1>4. new.by = i /\ new.to = to /\ new.of = of /\ new.pc = "sent" /\ new.met = b
    OBVIOUS
  <1>5. \A q \in Posts : /\ rest(q) \in PostRecords
                         /\ rest(q).by = post[q].by /\ rest(q).to = post[q].to
                         /\ rest(q).of = post[q].of /\ rest(q).pc = post[q].pc
                         /\ rest(q).met <=> post[q].met \/ InFlight(q)
    BY DEF PostRecords
  <1> HIDE DEF new, rest
  <1>6. post[p].pc = "unused"
    BY DEF NextPost
  <1>7. post'[p] = new /\ \A q \in Posts : q # p => post'[q] = rest(q)
    BY <1>1
  <1>8. post' \in [Posts -> PostRecords]
    BY <1>1, <1>3, <1>5
  <1> QED BY <1>2, <1>4, <1>5, <1>6, <1>7, <1>8

\* What maybeTriggerProvision does, by its outcome.
LEMMA TriggerDoes ==
    ASSUME LInv, NEW i \in Dialogs, NEW d \in DialogRecords, d.choice \in Choices, Trigger(i, d)
    PROVE  /\ dlg' \in [Dialogs -> DialogRecords]
           /\ \A j \in Dialogs : j # i => dlg'[j] = dlg[j]
           /\ dlg'[i].kind = d.kind /\ dlg'[i].on = d.on /\ dlg'[i].phase = d.phase
           /\ dlg'[i].session = d.session /\ dlg'[i].heard = d.heard
           /\ dlg'[i].wiped = d.wiped /\ dlg'[i].result = d.result
           /\ dlg'[i].pushed = d.pushed /\ dlg'[i].choice = d.choice
           /\ dlg'[i].asked <=> d.asked \/ Prompted(d) \/ Syncs(d)
           /\ \/ /\ Prompted(d) /\ UNCHANGED srv /\ dlg'[i].driver = d.driver
                 /\ \E p \in Posts : NextPost(p) /\ Sends(p, i, d.session, d.choice)
              \/ /\ Prompted(d) /\ UNCHANGED <<post, srv>>
                 /\ dlg'[i].driver = [key |-> Throwaway, to |-> d.session, done |-> FALSE]
              \/ /\ Syncs(d) \/ (Prompted(d) /\ ~dev.mac) \/ (~Prompted(d) /\ ~Syncs(d))
                 /\ UNCHANGED post /\ dlg'[i].driver = d.driver
                 /\ srv' \in [key : Posts \union {0}, session : Keys, codec : Choices \union {"none"}]
                 /\ srv'.key = srv.key /\ srv'.session = srv.session
  <1>1. dlg \in [Dialogs -> DialogRecords]
    BY DEF LInv, LoraShape
  <1> DEFINE asks == [d EXCEPT !.asked = TRUE]
             test == [d EXCEPT !.asked = TRUE,
                               !.driver = [key |-> Throwaway, to |-> d.session, done |-> FALSE]]
  <1>2. /\ asks \in DialogRecords
        /\ asks.kind = d.kind /\ asks.on = d.on /\ asks.phase = d.phase
        /\ asks.session = d.session /\ asks.heard = d.heard /\ asks.asked
        /\ asks.driver = d.driver /\ asks.wiped = d.wiped /\ asks.result = d.result
        /\ asks.pushed = d.pushed /\ asks.choice = d.choice
    BY DEF DialogRecords
  <1>3. /\ test \in DialogRecords
        /\ test.kind = d.kind /\ test.on = d.on /\ test.phase = d.phase
        /\ test.session = d.session /\ test.heard = d.heard /\ test.asked
        /\ test.driver = [key |-> Throwaway, to |-> d.session, done |-> FALSE]
        /\ test.wiped = d.wiped /\ test.result = d.result
        /\ test.pushed = d.pushed /\ test.choice = d.choice
    <2>1. [key |-> Throwaway, to |-> d.session, done |-> FALSE] \in DriverRecords
      BY Numbers DEF DialogRecords, DriverRecords
    <2> QED BY <2>1 DEF DialogRecords
  <1>4. d.asked \in BOOLEAN
    BY DEF DialogRecords
  <1> HIDE DEF asks, test
  <1>5. CASE /\ Prompted(d) /\ Alters(i, asks) /\ UNCHANGED srv
             /\ \E p \in Posts : NextPost(p) /\ Sends(p, i, d.session, d.choice)
    BY <1>1, <1>2, <1>5, DialogAt
  <1>6. CASE Prompted(d) /\ Alters(i, test) /\ UNCHANGED <<post, srv>>
    BY <1>1, <1>3, <1>6, DialogAt
  <1>7. CASE Syncs(d) /\ Alters(i, asks) /\ srv' = [srv EXCEPT !.codec = d.choice] /\ UNCHANGED post
    <2>1. /\ srv' \in [key : Posts \union {0}, session : Keys, codec : Choices \union {"none"}]
          /\ srv'.key = srv.key /\ srv'.session = srv.session
      BY <1>7 DEF LInv, LoraShape
    <2> QED BY <1>1, <1>2, <1>7, <2>1, DialogAt
  <1>8. srv \in [key : Posts \union {0}, session : Keys, codec : Choices \union {"none"}]
    BY DEF LInv, LoraShape
  <1>9. CASE /\ Prompted(d) \/ Syncs(d)
             /\ ~dev.mac /\ Alters(i, asks) /\ UNCHANGED <<post, srv>>
    BY <1>1, <1>2, <1>8, <1>9, DialogAt
  <1>10. CASE ~Prompted(d) /\ ~Syncs(d) /\ Alters(i, d) /\ UNCHANGED <<post, srv>>
    BY <1>1, <1>4, <1>8, <1>10, DialogAt
  <1> QED BY <1>5, <1>6, <1>7, <1>9, <1>10 DEF Trigger, asks, test

\* Asked or not, the session of the port's write goes on.
LEMMA TriggerKeeps ==
    ASSUME LInv, NEW n \in Writes, serial = n, write[n].pc \in {"boot", "done"},
           NEW i \in Dialogs, write[n].by = i, dlg[i].kind = "flash",
           write' \in [Writes -> WriteRecords],
           \A m \in Writes : /\ write'[m].by = write[m].by /\ write'[m].image = write[m].image
                             /\ m # n => write'[m].pc = write[m].pc,
           write'[n].pc \in {write[n].pc, "done"},
           NEW d \in DialogRecords, d.kind = "flash", d.on = dlg[i].on, d.asked = dlg[i].asked,
           d.driver = dlg[i].driver, d.wiped = dlg[i].wiped, d.result = dlg[i].result,
           d.pushed = dlg[i].pushed, d.choice = dlg[i].choice,
           d.session = IF write'[n].pc = "done" THEN n ELSE 0,
           d.phase = IF write'[n].pc = "done" THEN "monitoring" ELSE "flashing",
           ~d.asked => d.heard \subseteq {dev.says},
           Trigger(i, d), UNCHANGED <<serial, dev, build, trouble>>
    PROVE  LInv'
  <1> USE DEF LInv
  <1>1. d.choice \in Choices /\ d.result = 0 /\ d.pushed = "idle" /\ n # 0
    BY Numbers DEF KindInv
  <1> DEFINE e == dlg'[i]
  <1>2. /\ dlg' \in [Dialogs -> DialogRecords]
        /\ \A j \in Dialogs : j # i => dlg'[j] = dlg[j]
        /\ e.kind = "flash" /\ e.on = dlg[i].on /\ e.phase = d.phase
        /\ e.session = d.session /\ e.heard = d.heard /\ e.wiped = dlg[i].wiped
        /\ e.result = 0 /\ e.pushed = "idle" /\ e.choice \in Choices
        /\ e.asked <=> d.asked \/ Prompted(d) \/ Syncs(d)
    BY <1>1, TriggerDoes
  <1> DEFINE Sent == /\ Prompted(d) /\ UNCHANGED srv /\ e.driver = d.driver
                     /\ \E p \in Posts : NextPost(p) /\ Sends(p, i, d.session, d.choice)
             Tests == /\ Prompted(d) /\ UNCHANGED <<post, srv>>
                      /\ e.driver = [key |-> Throwaway, to |-> d.session, done |-> FALSE]
             Rests == /\ Syncs(d) \/ (Prompted(d) /\ ~dev.mac) \/ (~Prompted(d) /\ ~Syncs(d))
                      /\ UNCHANGED post /\ e.driver = d.driver
                      /\ srv' \in [key : Posts \union {0}, session : Keys, codec : Choices \union {"none"}]
                      /\ srv'.key = srv.key /\ srv'.session = srv.session
  <1>3. Sent \/ Tests \/ Rests
    BY <1>1, TriggerDoes
  <1>4. /\ Prompted(d) \/ Syncs(d) => d.session = n /\ write'[n].pc = "done" /\ ~dlg[i].asked
        /\ Prompted(d) => "asks" \in d.heard /\ dev.says = "asks" /\ dev.keys = 0
        /\ Syncs(d) => dev.says = "joined"
        /\ d.session # 0 /\ ~e.asked => d.heard = {}
        /\ dlg[i].asked => e.asked
    <2>1. d.heard \in SUBSET {"asks", "joined"} /\ d.asked \in BOOLEAN
      BY DEF DialogRecords
    <2>2. dev.says = "asks" => dev.keys = 0
      BY DEF HeardInv
    <2>3. Prompted(d) => ~d.asked /\ d.session # 0 /\ "asks" \in d.heard
      BY DEF Prompted
    <2>4. Syncs(d) => ~d.asked /\ d.session # 0 /\ "joined" \in d.heard
      BY DEF Syncs
    <2>5. ~d.asked /\ d.session # 0 /\ ~Prompted(d) /\ ~Syncs(d) =>
             "asks" \notin d.heard /\ d.heard # {"joined"}
      BY DEF Prompted, Syncs
    <2>6. ~d.asked /\ d.session # 0 /\ ~Prompted(d) /\ ~Syncs(d) => d.heard = {}
      BY <2>1, <2>5
    <2> QED BY <1>1, <1>2, <2>2, <2>3, <2>4, <2>6
  <1>5. write[n].pc = "boot" => dlg[i].session = 0 /\ ~dlg[i].asked /\ dlg[i].phase = "flashing"
    BY DEF SerialInv, HeardInv, WriteUnderWay
  <1>6. write[n].pc = "done" => dlg[i].session = n /\ dlg[i].phase = "monitoring" /\ write'[n].pc = "done"
    BY <1>1 DEF SerialInv, KindInv
  <1>7. \A m \in Writes : write[m].pc # "unused" => write[m].by \in Dialogs
    BY DEF SerialInv
  <1>8. \A m \in Writes : m # n => write[m].pc \notin {"write", "boot"}
    BY DEF SerialInv
  <1>9. UNCHANGED <<serial, dev, build, trouble>>
    OBVIOUS
  \* The registrations, S of them, one or none, now sent.
  <1> DEFINE Adds(S) ==
              /\ S # {} => Prompted(d)
              /\ \A p, q \in S : p = q
              /\ \A p \in S :
                    /\ post[p].pc = "unused" /\ post'[p].by = i /\ post'[p].to = n
                    /\ post'[p].of = d.choice /\ post'[p].pc = "sent"
                    /\ ~post'[p].met => \A r \in Posts : ~InFlight(r)
              /\ \A q \in Posts \ S :
                    /\ post'[q].by = post[q].by /\ post'[q].to = post[q].to
                    /\ post'[q].of = post[q].of /\ post'[q].pc = post[q].pc
                    /\ post'[q].met <=> post[q].met \/ (S # {} /\ InFlight(q))
              /\ Sent => S # {}
  <1>10. /\ post' \in [Posts -> PostRecords]
         /\ srv' \in [key : Posts \union {0}, session : Keys, codec : Choices \union {"none"}]
         /\ srv'.key = srv.key /\ srv'.session = srv.session
         /\ \E S \in SUBSET Posts : Adds(S)
    <2>1. CASE Sent
      <3>1. PICK p \in Posts : NextPost(p) /\ Sends(p, i, d.session, d.choice)
        BY <2>1
      <3>2. d.session = n /\ post \in [Posts -> PostRecords]
        BY <1>4, <2>1 DEF LoraShape
      <3>3. /\ post' \in [Posts -> PostRecords] /\ post[p].pc = "unused"
            /\ post'[p].by = i /\ post'[p].to = n /\ post'[p].of = d.choice /\ post'[p].pc = "sent"
            /\ ~post'[p].met => \A r \in Posts : ~InFlight(r)
            /\ \A q \in Posts : q # p =>
                  /\ post'[q].by = post[q].by /\ post'[q].to = post[q].to
                  /\ post'[q].of = post[q].of /\ post'[q].pc = post[q].pc
                  /\ post'[q].met <=> post[q].met \/ InFlight(q)
        BY <1>1, <3>1, <3>2, SendsPost
      <3>4. /\ {p} \in SUBSET Posts /\ Prompted(d)
            /\ UNCHANGED srv
        BY <2>1
      <3> HIDE DEF Sent
      <3>5. Adds({p})
        BY <3>3, <3>4
      <3> HIDE DEF Adds
      <3> QED BY <3>3, <3>4, <3>5 DEF LoraShape
    <2>2. CASE Tests \/ Rests
      <3>1. UNCHANGED post /\ srv'.key = srv.key /\ srv'.session = srv.session
        BY <2>2
      <3>2. srv' \in [key : Posts \union {0}, session : Keys, codec : Choices \union {"none"}]
        BY <2>2 DEF LoraShape
      <3>3. CASE ~Sent
        <4> HIDE DEF Sent, Tests, Rests
        <4>1. {} \in SUBSET Posts /\ Adds({})
          BY <3>1, <3>3
        <4> HIDE DEF Adds
        <4> QED BY <3>1, <3>2, <3>3, <4>1 DEF LoraShape
      <3> QED BY <2>1, <3>3
    <2> QED BY <1>3, <2>1, <2>2
  <1>11. PICK S \in SUBSET Posts : Adds(S)
    BY <1>10
  <1>12. \/ e.driver = dlg[i].driver
         \/ /\ e.driver.key = Throwaway /\ e.driver.to = n /\ ~e.driver.done
            /\ Prompted(d)
    BY <1>3, <1>4
  <1>13. \/ Sent \/ (e.driver.to = n /\ ~e.driver.done) \/ Syncs(d) \/ ~dev.mac
         \/ ~(Prompted(d) \/ Syncs(d))
    <2>1. Tests => e.driver.to = n /\ ~e.driver.done
      BY <1>4
    <2>2. Rests => Syncs(d) \/ ~dev.mac \/ ~(Prompted(d) \/ Syncs(d))
      OBVIOUS
    <2> HIDE DEF Sent, Tests, Rests
    <2> QED BY <1>3, <2>1, <2>2
  <1> HIDE DEF Sent, Tests, Rests
  <1>14. LoraShape'
    BY <1>2, <1>9, <1>10 DEF LoraShape
  <1>15. KindInv'
    BY <1>2 DEF KindInv
  <1>16. SerialInv'
    <2>1. ASSUME NEW m \in Writes, write'[m].pc # "unused"
          PROVE  /\ write'[m].by \in Dialogs /\ dlg'[write'[m].by].kind # "none"
                 /\ write'[m].image = "esphome" <=> dlg'[write'[m].by].kind = "esphome"
                 /\ WriteUnderWay(m)' => dlg'[write'[m].by].phase = "flashing"
                 /\ write'[m].pc \in {"write", "boot"} => serial' = m
                 /\ write'[m].pc = "done" /\ serial' = m => dlg'[write'[m].by].session = m
                 /\ write'[m].pc = "ask" => serial' # m
      <3>1. CASE m = n
        <4>1. write'[n].by = i /\ write'[n].image = write[n].image /\ write[n].pc # "unused"
          OBVIOUS
        <4>2. write[n].image # "esphome"
          BY DEF SerialInv
        <4>3. write'[n].pc \in {"boot", "done"}
          OBVIOUS
        <4> QED BY <1>2, <1>9, <3>1, <4>1, <4>2, <4>3 DEF WriteUnderWay
      <3>2. CASE m # n
        <4>1. /\ write'[m].by = write[m].by /\ write'[m].pc = write[m].pc
              /\ write'[m].image = write[m].image /\ write[m].by \in Dialogs
          BY <1>7, <2>1, <3>2
        <4>2. /\ dlg'[write[m].by].kind = dlg[write[m].by].kind
              /\ WriteUnderWay(m) => write[m].by # i
          BY <1>2, <1>5, <1>6, <3>2, <4>1 DEF SerialInv, WriteUnderWay
        <4> QED BY <1>2, <1>9, <2>1, <3>2, <4>1, <4>2 DEF SerialInv, WriteUnderWay
      <3> QED BY <3>1, <3>2
    <2>2. serial' # 0 => write'[serial'].pc # "unused"
      BY <1>9
    <2>3. \A m, k \in Writes : WriteUnderWay(m)' /\ WriteUnderWay(k)' /\ write'[m].by = write'[k].by => m = k
      <3>1. \A m \in Writes : WriteUnderWay(m)' => WriteUnderWay(m)
        BY DEF WriteUnderWay
      <3> QED BY <3>1 DEF SerialInv
    <2>4. ASSUME NEW j \in Dialogs
          PROVE  /\ dlg'[j].session # 0 =>
                       /\ write'[dlg'[j].session].by = j /\ write'[dlg'[j].session].pc = "done"
                       /\ dlg'[j].phase \in {"monitoring", "flashed"}
                 /\ dlg'[j].phase = "monitoring" => dlg'[j].session # 0
      <3>1. CASE j = i
        BY <1>1, <1>2, <3>1
      <3>2. CASE j # i
        <4>1. dlg'[j] = dlg[j] /\ dlg[j].session \in Writes \union {0}
          BY <1>2, <3>2 DEF LoraShape, DialogRecords
        <4>2. dlg[j].session # 0 => dlg[j].session # n
          BY <3>2 DEF SerialInv
        <4> QED BY <4>1, <4>2 DEF SerialInv
      <3> QED BY <3>1, <3>2
    <2> QED BY <2>1, <2>2, <2>3, <2>4 DEF SerialInv
  <1>17. HeardInv'
    <2>1. ASSUME NEW m \in Writes, write'[m].pc = "boot"
          PROVE  dlg'[write'[m].by].heard \subseteq {dev.says} /\ ~dlg'[write'[m].by].asked
      <3>1. m = n /\ write[n].pc = "boot"
        BY <1>6, <1>8, <2>1
      <3>2. ~d.asked /\ d.session = 0
        BY <1>1, <1>5, <2>1, <3>1
      <3> QED BY <1>1, <1>2, <1>4, <3>1, <3>2
    <2>2. ASSUME NEW m \in Writes, write'[m].pc \in {"ask", "write"}
          PROVE  dlg'[write'[m].by].heard = {} /\ ~dlg'[write'[m].by].asked
      <3>1. m # n /\ write[m].pc \in {"ask", "write"} /\ write[m].by \in Dialogs
        BY <1>7, <2>2
      <3>2. write[m].by # i /\ write'[m].by = write[m].by
        BY <1>5, <1>6, <3>1 DEF SerialInv, WriteUnderWay
      <3>3. dlg'[write[m].by] = dlg[write[m].by]
        BY <1>2, <3>1, <3>2
      <3> QED BY <3>1, <3>2, <3>3 DEF HeardInv
    <2>3. \A j \in Dialogs : dlg'[j].session # 0 /\ ~dlg'[j].asked => dlg'[j].heard = {}
      BY <1>2, <1>4 DEF HeardInv
    <2> QED BY <1>9, <2>1, <2>2, <2>3 DEF HeardInv
  <1>18. PostsInv'
    <2>1. ASSUME NEW p \in Posts, Used(p)'
          PROVE  /\ post'[p].by \in Dialogs /\ dlg'[post'[p].by].kind # "none" /\ post'[p].of \in Choices
                 /\ post'[p].to = 0 <=> dlg'[post'[p].by].kind = "esphome"
                 /\ post'[p].to # 0 =>
                       /\ write'[post'[p].to].by = post'[p].by /\ write'[post'[p].to].pc = "done"
                       /\ post'[p].to = serial' => dlg'[post'[p].by].asked
      <3>1. CASE p \in S
        BY <1>1, <1>2, <1>4, <1>9, <1>11, <3>1
      <3>2. CASE p \notin S
        <4>1. /\ Used(p) /\ post'[p].by = post[p].by /\ post'[p].to = post[p].to
              /\ post'[p].of = post[p].of /\ post[p].by \in Dialogs
              /\ post[p].to # 0 => post[p].to \in Writes
          BY <1>11, <2>1, <3>2 DEF Used, PostsInv, LoraShape, PostRecords
        <4>2. post[p].to # 0 => write'[post[p].to].pc = "done"
          BY <4>1 DEF PostsInv
        <4>3. /\ dlg'[post[p].by].kind = dlg[post[p].by].kind
              /\ dlg[post[p].by].asked => dlg'[post[p].by].asked
          BY <1>2, <1>4, <4>1
        <4> QED BY <1>9, <4>1, <4>2, <4>3 DEF PostsInv
      <3> QED BY <3>1, <3>2
    <2>2. ASSUME NEW p \in Posts, NEW q \in Posts, InFlight(p)', InFlight(q)', p # q
          PROVE  post'[p].met
      <3>1. CASE p \in S
        <4>1. q \notin S /\ InFlight(q)
          BY <1>11, <2>2, <3>1 DEF InFlight
        <4> QED BY <1>11, <3>1, <4>1
      <3>2. CASE p \notin S /\ q \in S
        BY <1>11, <2>2, <3>2 DEF InFlight
      <3>3. CASE p \notin S /\ q \notin S
        BY <1>11, <2>2, <3>3 DEF InFlight, PostsInv
      <3> QED BY <3>1, <3>2, <3>3
    <2>3. ASSUME NEW p \in Posts, NEW q \in Posts, InFlight(p)', ~post'[p].met, post'[p].to # 0,
                 Used(q)', p # q
          PROVE  post'[q].to = 0 \/ post'[q].to # serial
      <3>1. CASE p \in S
        <4>1. q \notin S /\ Used(q) /\ post'[q].to = post[q].to /\ ~dlg[i].asked
          BY <1>4, <1>11, <2>3, <3>1 DEF Used
        <4> QED BY <4>1 DEF PostsInv
      <3>2. CASE p \notin S
        <4>1. InFlight(p) /\ ~post[p].met /\ post[p].to # 0 /\ S = {}
          BY <1>11, <2>3, <3>2 DEF InFlight
        <4>2. Used(q) /\ post'[q].to = post[q].to
          BY <1>11, <2>3, <4>1 DEF Used
        <4> QED BY <2>3, <4>1, <4>2 DEF PostsInv
      <3> QED BY <3>1, <3>2
    <2>4. ASSUME NEW j \in Dialogs
          PROVE  LET v == dlg'[j].driver IN
                 /\ v.to = 0 <=> v.key = 0
                 /\ v.to # 0 =>
                       /\ write'[v.to].by = j /\ write'[v.to].pc = "done"
                       /\ v.to = serial' => dlg'[j].asked
                 /\ v.key \in Posts => post'[v.key].to = v.to /\ post'[v.key].pc = "done"
      <3>1. CASE j = i /\ e.driver # dlg[i].driver
        BY <1>1, <1>2, <1>4, <1>9, <1>12, <3>1, Numbers
      <3>2. CASE dlg'[j].driver = dlg[j].driver
        <4> DEFINE v == dlg[j].driver
        <4>1. v.to \in Writes \union {0}
          BY DEF LoraShape, DialogRecords, DriverRecords
        <4>2. dlg[j].asked => dlg'[j].asked
          BY <1>2, <1>4
        <4>3. v.key \in Posts => post[v.key].pc = "done" /\ v.key \notin S
          BY <1>11 DEF PostsInv
        <4>4. v.to # 0 => write'[v.to].by = j /\ write'[v.to].pc = "done"
          BY <4>1 DEF PostsInv
        <4>5. v.key \in Posts => post'[v.key].to = v.to /\ post'[v.key].pc = "done"
          BY <1>11, <4>3 DEF PostsInv
        <4> QED BY <1>9, <3>2, <4>2, <4>4, <4>5 DEF PostsInv
      <3> QED BY <1>2, <3>1, <3>2
    <2> QED BY <1>9, <2>1, <2>2, <2>3, <2>4 DEF PostsInv
  <1>19. PushInv'
    <2>1. \A p \in Posts : InFlight(p)' /\ post'[p].to = 0 => p \notin S /\ InFlight(p) /\ post[p].to = 0
      BY <1>1, <1>11 DEF InFlight
    <2>2. \A p \in Posts : InFlight(p) /\ post[p].to = 0 => post[p].by \in Dialogs \ {i}
      BY DEF PostsInv, InFlight, Used
    <2>3. \A p, q \in Posts :
             InFlight(p)' /\ InFlight(q)' /\ post'[p].by = post'[q].by /\ post'[p].to = 0 => p = q
      <3>1. SUFFICES ASSUME NEW p \in Posts, NEW q \in Posts, InFlight(p)', InFlight(q)',
                            post'[p].by = post'[q].by, post'[p].to = 0
                     PROVE  p = q
        OBVIOUS
      <3>2. p \notin S /\ InFlight(p) /\ post[p].to = 0 /\ post'[p].by = post[p].by /\ post[p].by # i
        BY <1>11, <2>1, <2>2, <3>1
      <3>3. q \notin S
        BY <1>11, <3>1, <3>2
      <3>4. InFlight(q) /\ post'[q].by = post[q].by
        BY <1>11, <3>1, <3>3 DEF InFlight
      <3> QED BY <3>1, <3>2, <3>4 DEF PushInv
    <2>4. \A p \in Posts : InFlight(p)' /\ post'[p].to = 0 => dlg'[post'[p].by].result = 0
      BY <1>2, <1>11, <2>1, <2>2 DEF PushInv
    <2>5. \A j \in Dialogs : /\ dlg'[j].result = dlg[j].result /\ dlg'[j].pushed = dlg[j].pushed
                             /\ dlg'[j].kind = dlg[j].kind /\ dlg'[j].on = dlg[j].on
                             /\ dlg'[j].phase = "waiting" => dlg[j].phase = "waiting"
      <3>1. /\ e.result = dlg[i].result /\ e.pushed = dlg[i].pushed /\ e.kind = dlg[i].kind
            /\ e.on = dlg[i].on /\ e.phase # "waiting"
        BY <1>1, <1>2
      <3>2. \A j \in Dialogs : j # i => dlg'[j] = dlg[j]
        BY <1>2
      <3> QED BY <3>1, <3>2
    <2>6. \A j \in Dialogs : dlg[j].result # 0 => post'[dlg[j].result].pc = "done"
      <3>1. \A j \in Dialogs : dlg[j].result # 0 => dlg[j].result \in Posts /\ dlg[j].result \notin S
        BY <1>11 DEF PushInv, LoraShape, DialogRecords
      <3> QED BY <1>11, <3>1 DEF PushInv
    <2>7. \A m \in Writes :
            write'[m].pc # "unused" /\ dlg'[write'[m].by].kind = "esphome" =>
                /\ dlg'[write'[m].by].pushed = "pushed"
                /\ write'[m].pc \in {"boot", "done"} /\ dlg'[write'[m].by].on => serial' = m
      BY <1>2, <1>7, <1>9, <2>5 DEF PushInv
    <2> QED BY <1>9, <2>3, <2>4, <2>5, <2>6, <2>7 DEF PushInv
  <1>20. ServedInv'
    <2>1. SUFFICES ASSUME NEW j \in Dialogs, dlg'[j].phase = "monitoring", serial = dlg'[j].session,
                          dlg'[j].asked, dev.says = "asks", dev.mac, ~dlg'[j].wiped
                   PROVE  LET v == dlg'[j] IN
                          \/ v.driver.to = v.session /\ ~v.driver.done
                          \/ \E p \in Posts : post'[p].to = v.session /\ (InFlight(p)' \/ post'[p].pc = "failed")
                          \/ v.driver.to \notin {0, v.session}
      BY <1>9 DEF ServedInv
    <2>2. j = i
      BY <1>1, <1>2, <2>1 DEF SerialInv
    <2>3. e.session = n
      BY <2>1, <2>2
    <2>4. CASE Sent
      <3>1. PICK p \in S : TRUE
        BY <1>11, <2>4
      <3>2. post'[p].to = n /\ InFlight(p)'
        BY <1>11, <3>1 DEF InFlight
      <3> QED BY <2>2, <2>3, <3>1, <3>2
    <2>5. CASE e.driver.to = n /\ ~e.driver.done
      BY <2>2, <2>3, <2>5
    <2>6. CASE ~(Prompted(d) \/ Syncs(d))
      <3>1. dlg[i].asked /\ write[n].pc = "done"
        BY <1>2, <1>5, <2>1, <2>2, <2>6
      <3>2. /\ dlg[i].phase = "monitoring" /\ dlg[i].session = n /\ ~dlg[i].wiped
            /\ e.driver = dlg[i].driver
        BY <1>2, <1>6, <1>12, <2>1, <2>2, <2>6, <3>1
      <3>3. S = {}
        BY <1>11, <2>6
      <3> QED BY <1>11, <2>1, <2>2, <2>3, <3>1, <3>2, <3>3 DEF ServedInv, InFlight
    <2> QED BY <1>4, <1>13, <2>1, <2>4, <2>5, <2>6
  <1>21. RekeyInv'
    <2>1. SUFFICES ASSUME NEW p \in Posts, post'[p].pc = "sent", post'[p].to # 0, ~post'[p].met
                   PROVE  dev.keys \in {0, Throwaway} \/ dev.keys # srv.key
      BY <1>9, <1>10 DEF RekeyInv
    <2>2. CASE p \in S
      BY <1>4, <1>11, <2>2
    <2>3. CASE p \notin S
      BY <1>11, <2>1, <2>3 DEF RekeyInv
    <2> QED BY <2>2, <2>3
  <1>22. FlashedHasItsKeys'
    <2>1. \A j \in Dialogs : /\ dlg'[j].result = dlg[j].result /\ dlg'[j].pushed = dlg[j].pushed
                             /\ dlg'[j].kind = dlg[j].kind /\ dlg'[j].on = dlg[j].on
      <3>1. /\ e.result = dlg[i].result /\ e.pushed = dlg[i].pushed /\ e.kind = dlg[i].kind
            /\ e.on = dlg[i].on
        BY <1>1, <1>2
      <3>2. \A j \in Dialogs : j # i => dlg'[j] = dlg[j]
        BY <1>2
      <3> QED BY <3>1, <3>2
    <2>2. \A m \in Writes : write'[m].pc \in {"boot", "done"} => write[m].pc \in {"boot", "done"}
      OBVIOUS
    <2> QED BY <1>9, <1>10, <2>1, <2>2 DEF FlashedHasItsKeys, PushedAlone
  <1> QED BY <1>14, <1>15, <1>16, <1>17, <1>18, <1>19, <1>20, <1>21, <1>22


LEMMA ChunkStep == ASSUME LInv, NEW n \in Writes, Chunk(n) PROVE LInv'
  <1> USE DEF LInv
  <1> DEFINE i == write[n].by
             d == [dlg[i] EXCEPT !.heard = @ \union {dev.says}]
  <1>1. /\ serial = n /\ write[n].pc \in {"boot", "done"} /\ dlg[i].kind = "flash"
        /\ dev.says # "silent" /\ Trigger(i, d)
        /\ UNCHANGED <<write, serial, dev, build, trouble>>
    BY DEF Chunk
  <1>2. i \in Dialogs /\ dlg[i] \in DialogRecords
    BY <1>1 DEF SerialInv, LoraShape
  <1>3. dev.says \in {"asks", "joined"}
    BY <1>1 DEF LoraShape
  <1>4. /\ d \in DialogRecords /\ d.kind = dlg[i].kind /\ d.on = dlg[i].on
        /\ d.asked = dlg[i].asked /\ d.driver = dlg[i].driver /\ d.wiped = dlg[i].wiped
        /\ d.result = dlg[i].result /\ d.pushed = dlg[i].pushed /\ d.choice = dlg[i].choice
        /\ d.session = dlg[i].session /\ d.phase = dlg[i].phase
        /\ d.heard = dlg[i].heard \union {dev.says}
    BY <1>2, <1>3 DEF DialogRecords
  <1>5. CASE write[n].pc = "boot"
    <2>1. dlg[i].phase = "flashing" /\ dlg[i].session = 0
      BY <1>5, OfTheWrite DEF WriteUnderWay
    <2>2. dlg[i].heard \subseteq {dev.says}
      BY <1>5 DEF HeardInv
    <2> HIDE DEF d
    <2>3. d.heard \subseteq {dev.says}
      BY <1>4, <2>2
    <2> HIDE DEF i, LInv
    <2>4. i = write[n].by /\ write \in [Writes -> WriteRecords]
      BY DEF i, LInv, LoraShape
    <2> QED BY <1>1, <1>2, <1>4, <1>5, <2>1, <2>3, <2>4, TriggerKeeps
  <1>6. CASE write[n].pc = "done"
    <2>1. dlg[i].session = n /\ n # 0
      BY <1>1, <1>6, Numbers DEF SerialInv
    <2>2. dlg[i].phase = "monitoring"
      BY <1>1, <1>2, <2>1 DEF SerialInv, KindInv
    <2>3. ~dlg[i].asked => dlg[i].heard = {}
      BY <1>2, <2>1 DEF HeardInv
    <2> HIDE DEF d
    <2>4. ~d.asked => d.heard \subseteq {dev.says}
      BY <1>4, <2>3
    <2> HIDE DEF i, LInv
    <2>5. i = write[n].by /\ write \in [Writes -> WriteRecords]
      BY DEF i, LInv, LoraShape
    <2> QED BY <1>1, <1>2, <1>4, <1>6, <2>1, <2>2, <2>4, <2>5, TriggerKeeps
  <1> QED BY <1>1, <1>5, <1>6

\* flashFirmware returns to the dialog of an ESPHome image.
LEMMA EsphomeReturns ==
    ASSUME LInv, NEW n \in Writes, WriteReturns(n), dlg[write[n].by].kind # "flash"
    PROVE  LInv'
  <1> USE DEF LInv
  <1> DEFINE i == write[n].by
             d == [dlg[i] EXCEPT !.session = n, !.phase = "flashed"]
  <1>1. /\ write[n].pc = "boot" /\ WriteAt(n, "done") /\ Alters(i, d)
        /\ UNCHANGED <<post, srv, serial, dev, build, trouble>>
    BY DEF WriteReturns
  <1>2. /\ i \in Dialogs /\ dlg[i].kind = "esphome" /\ dlg[i].phase = "flashing"
        /\ dlg[i].session = 0 /\ n # 0 /\ serial = n
        /\ \A j \in Dialogs : dlg[j].session # n
        /\ \A p \in Posts : Used(p) => post[p].to # n
        /\ \A j \in Dialogs : dlg[j].driver.to # n
        /\ \A m \in Writes : m # n /\ WriteUnderWay(m) => write[m].by # i
    <2>1. serial = n
      BY <1>1 DEF SerialInv
    <2>2. dlg[i].kind \in {"flash", "esphome", "none"} /\ dlg[i].kind # "none" /\ i \in Dialogs
      BY <1>1, OfTheWrite DEF WriteUnderWay, LoraShape, DialogRecords, DialogKinds
    <2> QED BY <1>1, <2>1, <2>2, OfTheWrite DEF WriteUnderWay
  <1>3. /\ d \in DialogRecords /\ d.kind = dlg[i].kind /\ d.on = dlg[i].on
        /\ d.asked = dlg[i].asked /\ d.driver = dlg[i].driver /\ d.wiped = dlg[i].wiped
        /\ d.result = dlg[i].result /\ d.pushed = dlg[i].pushed /\ d.choice = dlg[i].choice
        /\ d.session = n /\ d.phase = "flashed" /\ d.heard = dlg[i].heard
    <2>1. dlg[i] \in DialogRecords
      BY <1>2 DEF LoraShape
    <2> QED BY <2>1 DEF DialogRecords, LoraPhases
  <1> HIDE DEF d
  <1>4. /\ dlg' \in [Dialogs -> DialogRecords] /\ dlg'[i] = d
        /\ \A j \in Dialogs : j # i => dlg'[j] = dlg[j]
    BY <1>1, <1>2, <1>3, DialogAt DEF LoraShape
  <1>5. /\ write' \in [Writes -> WriteRecords]
        /\ \A m \in Writes : /\ write'[m].by = write[m].by /\ write'[m].image = write[m].image
                             /\ write'[m].full = write[m].full
                             /\ write'[m].pc = IF m = n THEN "done" ELSE write[m].pc
    BY <1>1, WriteMoves DEF LoraShape
  <1>6. dlg[i].heard = {} /\ ~dlg[i].asked /\ dlg[i].driver = NoDriver /\ NoDriver.to = 0
    BY <1>2 DEF KindInv, NoDriver, Closed
  <1>7. \A m \in Writes : write[m].pc # "unused" => write[m].by \in Dialogs
    BY DEF SerialInv
  <1> HIDE DEF i
  <1>8. /\ LoraShape'
    BY <1>1, <1>4, <1>5 DEF LoraShape
  <1>9. KindInv'
    BY <1>2, <1>3, <1>4, <1>6 DEF KindInv
  <1>10. i = write[n].by
    BY DEF i
  <1>11. \A j \in Dialogs : /\ dlg'[j].kind = dlg[j].kind /\ dlg'[j].on = dlg[j].on
                            /\ dlg'[j].asked = dlg[j].asked /\ dlg'[j].driver = dlg[j].driver
                            /\ dlg'[j].wiped = dlg[j].wiped /\ dlg'[j].heard = dlg[j].heard
                            /\ dlg'[j].result = dlg[j].result /\ dlg'[j].pushed = dlg[j].pushed
                            /\ j # i => dlg'[j].phase = dlg[j].phase /\ dlg'[j].session = dlg[j].session
    BY <1>3, <1>4
  <1>12. SerialInv'
    <2>1. ASSUME NEW m \in Writes, write'[m].pc # "unused"
          PROVE  /\ write'[m].by \in Dialogs /\ dlg'[write'[m].by].kind # "none"
                 /\ write'[m].image = "esphome" <=> dlg'[write'[m].by].kind = "esphome"
                 /\ WriteUnderWay(m)' => dlg'[write'[m].by].phase = "flashing"
                 /\ write'[m].pc \in {"write", "boot"} => serial' = m
                 /\ write'[m].pc = "done" /\ serial' = m => dlg'[write'[m].by].session = m
                 /\ write'[m].pc = "ask" => serial' # m
      <3>1. CASE m = n
        <4>1. write[n].image = "esphome"
          BY <1>1, <1>2, <1>10 DEF SerialInv
        <4> QED BY <1>1, <1>2, <1>3, <1>4, <1>5, <1>10, <3>1, <4>1 DEF WriteUnderWay
      <3>2. CASE m # n
        <4>1. /\ write'[m].by = write[m].by /\ write'[m].pc = write[m].pc
              /\ write'[m].image = write[m].image /\ write[m].by \in Dialogs
          BY <1>5, <1>7, <2>1, <3>2
        <4>2. WriteUnderWay(m) => write[m].by # i
          BY <1>2, <3>2
        <4> QED BY <1>1, <1>2, <1>11, <2>1, <3>2, <4>1, <4>2 DEF SerialInv, WriteUnderWay
      <3> QED BY <3>1, <3>2
    <2>2. serial' # 0 => write'[serial'].pc # "unused"
      BY <1>1, <1>2, <1>5
    <2>3. \A m, k \in Writes : WriteUnderWay(m)' /\ WriteUnderWay(k)' /\ write'[m].by = write'[k].by => m = k
      <3>1. \A m \in Writes : WriteUnderWay(m)' => WriteUnderWay(m)
        BY <1>5 DEF WriteUnderWay
      <3> QED BY <1>5, <3>1 DEF SerialInv
    <2>4. ASSUME NEW j \in Dialogs
          PROVE  /\ dlg'[j].session # 0 =>
                       /\ write'[dlg'[j].session].by = j /\ write'[dlg'[j].session].pc = "done"
                       /\ dlg'[j].phase \in {"monitoring", "flashed"}
                 /\ dlg'[j].phase = "monitoring" => dlg'[j].session # 0
      <3>1. CASE j = i
        BY <1>2, <1>3, <1>4, <1>5, <1>10, <3>1
      <3>2. CASE j # i
        <4>1. dlg'[j] = dlg[j] /\ dlg[j].session \in Writes \union {0} /\ dlg[j].session # n
          BY <1>2, <1>4, <3>2 DEF LoraShape, DialogRecords
        <4> QED BY <1>5, <4>1 DEF SerialInv
      <3> QED BY <3>1, <3>2
    <2> QED BY <2>1, <2>2, <2>3, <2>4 DEF SerialInv
  <1>13. HeardInv'
    <2>1. \A m \in Writes : write'[m].pc \in {"ask", "write", "boot"} =>
             m # n /\ write'[m].pc = write[m].pc /\ write'[m].by = write[m].by /\ write[m].by \in Dialogs
      BY <1>5, <1>7
    <2>2. ASSUME NEW j \in Dialogs, dlg'[j].session # 0, ~dlg'[j].asked PROVE dlg'[j].heard = {}
      BY <1>6, <1>11, <2>2 DEF HeardInv
    <2>3. dev.says = "asks" => dev.keys = 0
      BY DEF HeardInv
    <2>4. \A m \in Writes : write'[m].pc \in {"ask", "write"} =>
             dlg'[write'[m].by].heard = {} /\ ~dlg'[write'[m].by].asked
      BY <1>11, <2>1 DEF HeardInv
    <2>5. \A m \in Writes : write'[m].pc = "boot" =>
             dlg'[write'[m].by].heard \subseteq {dev.says} /\ ~dlg'[write'[m].by].asked
      BY <1>11, <2>1 DEF HeardInv
    <2>6. UNCHANGED dev
      BY <1>1
    <2> QED BY <2>2, <2>3, <2>4, <2>5, <2>6 DEF HeardInv
  <1>14. PostsInv'
    <2>1. ASSUME NEW p \in Posts, Used(p)
          PROVE  /\ post[p].by \in Dialogs /\ dlg'[post[p].by].kind # "none" /\ post[p].of \in Choices
                 /\ post[p].to = 0 <=> dlg'[post[p].by].kind = "esphome"
                 /\ post[p].to # 0 =>
                       /\ write'[post[p].to].by = post[p].by /\ write'[post[p].to].pc = "done"
                       /\ post[p].to = serial => dlg'[post[p].by].asked
      <3>1. post[p].by \in Dialogs /\ (post[p].to # 0 => post[p].to \in Writes)
        BY <2>1 DEF PostsInv, LoraShape, PostRecords
      <3> QED BY <1>5, <1>11, <2>1, <3>1 DEF PostsInv
    <2>2. ASSUME NEW j \in Dialogs
          PROVE  LET v == dlg'[j].driver IN
                 /\ v.to = 0 <=> v.key = 0
                 /\ v.to # 0 =>
                       /\ write'[v.to].by = j /\ write'[v.to].pc = "done"
                       /\ v.to = serial => dlg'[j].asked
                 /\ v.key \in Posts => post[v.key].to = v.to /\ post[v.key].pc = "done"
      <3>1. dlg[j].driver.to \in Writes \union {0}
        BY DEF LoraShape, DialogRecords, DriverRecords
      <3> QED BY <1>5, <1>11, <3>1 DEF PostsInv
    <2> QED BY <1>1, <2>1, <2>2 DEF PostsInv, Used, InFlight
  <1>15. PushInv'
    <2>1. \A p \in Posts : InFlight(p) => post[p].by \in Dialogs
      BY DEF PostsInv, InFlight, Used
    <2>2. \A j \in Dialogs : dlg'[j].phase = "waiting" => dlg[j].phase = "waiting"
      BY <1>3, <1>4
    <2>3. \A m \in Writes :
            write'[m].pc # "unused" /\ dlg'[write'[m].by].kind = "esphome" =>
                /\ dlg'[write'[m].by].pushed = "pushed"
                /\ write'[m].pc \in {"boot", "done"} /\ dlg'[write'[m].by].on => serial' = m
      BY <1>1, <1>5, <1>7, <1>11 DEF PushInv
    <2> QED BY <1>1, <1>11, <2>1, <2>2, <2>3 DEF PushInv, InFlight
  <1>16. ServedInv'
    <2>1. \A j \in Dialogs : dlg'[j].phase = "monitoring" => j # i
      BY <1>3, <1>4
    <2> QED BY <1>1, <1>4, <2>1 DEF ServedInv, InFlight
  <1>17. RekeyInv'
    BY <1>1 DEF RekeyInv
  <1>18. FlashedHasItsKeys'
    BY <1>1, <1>5, <1>11 DEF FlashedHasItsKeys, PushedAlone
  <1> QED BY <1>8, <1>9, <1>12, <1>13, <1>14, <1>15, <1>16, <1>17, <1>18

LEMMA WriteReturnsStep == ASSUME LInv, NEW n \in Writes, WriteReturns(n) PROVE LInv'
  <1> DEFINE i == write[n].by
             d == [dlg[i] EXCEPT !.session = n, !.phase = "monitoring"]
  <1>1. CASE dlg[i].kind # "flash"
    BY <1>1, EsphomeReturns
  <1>2. CASE dlg[i].kind = "flash"
    <2>1. /\ write[n].pc = "boot" /\ WriteAt(n, "done") /\ Trigger(i, d)
          /\ UNCHANGED <<serial, dev, build, trouble>>
      BY <1>2 DEF WriteReturns
    <2>2. /\ i \in Dialogs /\ dlg[i] \in DialogRecords /\ serial = n
          /\ dlg[i].heard \subseteq {dev.says}
      BY <2>1 DEF LInv, SerialInv, LoraShape, HeardInv
    <2>3. /\ d \in DialogRecords /\ d.kind = dlg[i].kind /\ d.on = dlg[i].on
          /\ d.asked = dlg[i].asked /\ d.driver = dlg[i].driver /\ d.wiped = dlg[i].wiped
          /\ d.result = dlg[i].result /\ d.pushed = dlg[i].pushed /\ d.choice = dlg[i].choice
          /\ d.session = n /\ d.phase = "monitoring" /\ d.heard = dlg[i].heard
      BY <2>2 DEF DialogRecords, LoraPhases
    <2> HIDE DEF d
    <2>4. /\ write' \in [Writes -> WriteRecords]
          /\ \A m \in Writes : /\ write'[m].by = write[m].by /\ write'[m].image = write[m].image
                               /\ write'[m].full = write[m].full
                               /\ write'[m].pc = IF m = n THEN "done" ELSE write[m].pc
      BY <2>1, WriteMoves DEF LInv, LoraShape
    <2>5. i = write[n].by
      OBVIOUS
    <2> HIDE DEF i
    <2> QED BY <1>2, <2>1, <2>2, <2>3, <2>4, <2>5, TriggerKeeps
  <1> QED BY <1>1, <1>2


\* The server serves a registration, and its key is the device's.
LEMMA PostServedStep ==
    ASSUME LInv, NEW p \in Posts, NEW ok \in BOOLEAN, PostServed(p, ok) PROVE LInv'
  <1> USE DEF LInv
  <1>1. /\ post[p].pc = "sent" /\ UNCHANGED <<dlg, write, serial, dev, build>>
        /\ trouble' \in 0 .. MaxTroubles
        /\ post' = [post EXCEPT ![p].pc = IF ok THEN "served" ELSE "failed"]
        /\ srv' = IF ~ok THEN srv
                   ELSE [srv EXCEPT !.key = p, !.codec = IF post[p].to = 0 THEN @ ELSE post[p].of]
    BY LorawanBounds DEF PostServed, Troubles, LoraShape
  <1>2. post[p].of \in Choices
    BY <1>1 DEF PostsInv, Used
  <1>3. /\ srv' \in [key : Posts \union {0}, session : Keys, codec : Choices \union {"none"}]
        /\ srv'.session = srv.session /\ srv'.key = IF ok THEN p ELSE srv.key
    BY <1>1, <1>2 DEF LoraShape
  <1>4. /\ post' \in [Posts -> PostRecords]
        /\ \A q \in Posts : /\ post'[q].by = post[q].by /\ post'[q].to = post[q].to
                            /\ post'[q].of = post[q].of /\ post'[q].met = post[q].met
                            /\ q # p => post'[q].pc = post[q].pc
        /\ post'[p].pc = IF ok THEN "served" ELSE "failed"
    BY <1>1 DEF LoraShape, PostRecords
  <1>5. \A q \in Posts : /\ InFlight(q)' => InFlight(q)
                         /\ Used(q)' <=> Used(q)
                         /\ post[q].pc = "done" <=> post'[q].pc = "done"
    <2>1. ASSUME NEW q \in Posts, q # p PROVE post'[q].pc = post[q].pc
      BY <1>4, <2>1
    <2>2. post'[p].pc \in {"served", "failed"}
      BY <1>4
    <2> QED BY <1>1, <2>1, <2>2 DEF InFlight, Used
  <1>6. LoraShape'
    BY <1>1, <1>3, <1>4 DEF LoraShape
  <1>7. KindInv' /\ SerialInv' /\ HeardInv'
    BY <1>1 DEF KindInv, SerialInv, HeardInv, WriteUnderWay
  <1>8. PostsInv'
    <2>1. \A q \in Posts : Used(q) => post[q].by \in Dialogs
      BY DEF PostsInv
    <2>2. ASSUME NEW j \in Dialogs
          PROVE  LET x == dlg[j].driver IN
                 /\ x.to = 0 <=> x.key = 0
                 /\ x.to # 0 =>
                       /\ write[x.to].by = j /\ write[x.to].pc = "done"
                       /\ x.to = serial => dlg[j].asked
                 /\ x.key \in Posts => post'[x.key].to = x.to /\ post'[x.key].pc = "done"
      BY <1>4, <1>5 DEF PostsInv
    <2>3. ASSUME NEW q \in Posts, Used(q)'
          PROVE  /\ post'[q].by \in Dialogs /\ dlg[post'[q].by].kind # "none" /\ post'[q].of \in Choices
                 /\ post'[q].to = 0 <=> dlg[post'[q].by].kind = "esphome"
                 /\ post'[q].to # 0 =>
                       /\ write[post'[q].to].by = post'[q].by /\ write[post'[q].to].pc = "done"
                       /\ post'[q].to = serial => dlg[post'[q].by].asked
      BY <1>4, <1>5, <2>3 DEF PostsInv
    <2>4. ASSUME NEW q \in Posts, NEW r \in Posts
          PROVE  /\ InFlight(q)' /\ InFlight(r)' /\ q # r => post'[q].met
                 /\ InFlight(q)' /\ ~post'[q].met /\ post'[q].to # 0 /\ Used(r)' /\ q # r =>
                       post'[r].to = 0 \/ post'[r].to # serial
      BY <1>4, <1>5 DEF PostsInv
    <2> QED BY <1>1, <2>2, <2>3, <2>4 DEF PostsInv
  <1>9. PushInv'
    <2>1. \A j \in Dialogs : dlg[j].result \in Posts \union {0}
      BY DEF LoraShape, DialogRecords
    <2>2. \A q, r \in Posts :
             InFlight(q)' /\ InFlight(r)' /\ post'[q].by = post'[r].by /\ post'[q].to = 0 => q = r
      BY <1>4, <1>5 DEF PushInv
    <2>3. \A q \in Posts : InFlight(q)' /\ post'[q].to = 0 => dlg[post'[q].by].result = 0
      BY <1>4, <1>5 DEF PushInv
    <2>4. \A j \in Dialogs : dlg[j].result # 0 => post'[dlg[j].result].pc = "done"
      BY <1>5, <2>1 DEF PushInv
    <2> QED BY <1>1, <2>2, <2>3, <2>4 DEF PushInv
  <1>10. ServedInv'
    <2>1. \A q \in Posts : InFlight(q) \/ post[q].pc = "failed" =>
                             InFlight(q)' \/ post'[q].pc = "failed"
      BY <1>4 DEF InFlight
    <2> QED BY <1>1, <1>4, <2>1 DEF ServedInv
  <1>11. RekeyInv'
    <2>1. SUFFICES ASSUME NEW q \in Posts, post'[q].pc = "sent", post'[q].to # 0, ~post'[q].met
                   PROVE  dev.keys \in {0, Throwaway} \/ dev.keys # srv'.key
      BY <1>1 DEF RekeyInv
    <2>2. q # p /\ post[q].pc = "sent" /\ post[q].to # 0 /\ ~post[q].met
      BY <1>4, <2>1
    <2>3. ~(InFlight(p) /\ InFlight(q))
      BY <2>2 DEF PostsInv
    <2> QED BY <1>1, <2>2, <2>3 DEF InFlight
  <1>12. FlashedHasItsKeys'
    <2>1. SUFFICES ASSUME NEW i \in Dialogs, NEW n \in Writes, write[n].by = i,
                          write[n].pc \in {"boot", "done"}, PushedAlone(i)
                   PROVE  dev.keys = dlg[i].result /\ (srv'.key = dev.keys => srv'.session = dev.keys)
      BY <1>1 DEF FlashedHasItsKeys, PushedAlone
    <2>2. dev.keys = dlg[i].result /\ (srv.key = dev.keys => srv.session = dev.keys)
      BY <2>1 DEF FlashedHasItsKeys
    <2>3. dlg[i].result # p
      BY <1>1, Numbers DEF PushInv
    <2> QED BY <1>3, <2>2, <2>3
  <1> QED BY <1>6, <1>7, <1>8, <1>9, <1>10, <1>11, <1>12

\* The answer of a registration of the flash dialog: its driver.
LEMMA FlashAnswered ==
    ASSUME LInv, NEW p \in Posts, PostAnswered(p), dlg[post[p].by].kind = "flash"
    PROVE  LInv'
  <1> USE DEF LInv
  <1> DEFINE i == post[p].by
             v == [key |-> p, to |-> post[p].to, done |-> FALSE]
             d == [dlg[i] EXCEPT !.driver = v]
  <1>1. /\ post[p].pc = "served" /\ post' = [post EXCEPT ![p].pc = "done"]
        /\ Alters(i, d) /\ UNCHANGED <<write, serial, dev, build, trouble>>
    BY DEF PostAnswered
  <1>2. PICK c \in Picks(i) : srv' = [srv EXCEPT !.codec = c]
    BY DEF PostAnswered
  <1>3. /\ i \in Dialogs /\ dlg[i].kind = "flash" /\ dlg[i] \in DialogRecords
        /\ post[p].to \in Writes /\ post[p].to # 0 /\ p # 0
        /\ write[post[p].to].by = i /\ write[post[p].to].pc = "done"
        /\ post[p].to = serial => dlg[i].asked
    <2>1. /\ i \in Dialogs /\ post[p].to # 0 /\ post[p].to \in Writes \union {0}
      BY <1>1 DEF PostsInv, Used, LoraShape, PostRecords
    <2> QED BY <1>1, <2>1, Numbers DEF PostsInv, Used, LoraShape
  <1>4. c \in Choices
    BY <1>2, <1>3 DEF Picks, KindInv
  <1>5. /\ srv' \in [key : Posts \union {0}, session : Keys, codec : Choices \union {"none"}]
        /\ srv'.session = srv.session /\ srv'.key = srv.key
    BY <1>2, <1>4 DEF LoraShape
  <1>6. /\ post' \in [Posts -> PostRecords]
        /\ \A q \in Posts : /\ post'[q].by = post[q].by /\ post'[q].to = post[q].to
                            /\ post'[q].of = post[q].of /\ post'[q].met = post[q].met
                            /\ q # p => post'[q].pc = post[q].pc
        /\ post'[p].pc = "done"
    BY <1>1 DEF LoraShape, PostRecords
  <1>7. \A q \in Posts : /\ InFlight(q)' => InFlight(q) /\ q # p
                         /\ Used(q)' <=> Used(q)
                         /\ post[q].pc = "done" => post'[q].pc = "done"
    <2>1. ASSUME NEW q \in Posts, q # p PROVE post'[q].pc = post[q].pc
      BY <1>6, <2>1
    <2> QED BY <1>1, <1>6, <2>1 DEF InFlight, Used
  <1>8. /\ d \in DialogRecords /\ d.kind = dlg[i].kind /\ d.on = dlg[i].on
        /\ d.asked = dlg[i].asked /\ d.driver = v /\ d.wiped = dlg[i].wiped
        /\ d.result = dlg[i].result /\ d.pushed = dlg[i].pushed /\ d.choice = dlg[i].choice
        /\ d.session = dlg[i].session /\ d.phase = dlg[i].phase /\ d.heard = dlg[i].heard
    <2>1. v \in DriverRecords
      BY <1>3, Numbers DEF DriverRecords
    <2> HIDE DEF v
    <2> QED BY <1>3, <2>1 DEF DialogRecords
  <1>9. v.key = p /\ v.to = post[p].to /\ v.done = FALSE
    OBVIOUS
  <1> HIDE DEF d, v
  <1>10. /\ dlg' \in [Dialogs -> DialogRecords] /\ dlg'[i] = d
         /\ \A j \in Dialogs : j # i => dlg'[j] = dlg[j]
    BY <1>1, <1>3, <1>8, DialogAt DEF LoraShape
  <1>11. i = post[p].by
    OBVIOUS
  <1> HIDE DEF i
  <1>12. \A j \in Dialogs :
           /\ dlg'[j].kind = dlg[j].kind /\ dlg'[j].on = dlg[j].on
           /\ dlg'[j].asked = dlg[j].asked /\ dlg'[j].wiped = dlg[j].wiped
           /\ dlg'[j].result = dlg[j].result /\ dlg'[j].pushed = dlg[j].pushed
           /\ dlg'[j].session = dlg[j].session /\ dlg'[j].phase = dlg[j].phase
           /\ dlg'[j].heard = dlg[j].heard
           /\ j # i => dlg'[j].driver = dlg[j].driver
    BY <1>8, <1>10
  <1>13. LoraShape'
    BY <1>1, <1>5, <1>6, <1>10 DEF LoraShape
  <1>14. KindInv'
    BY <1>3, <1>8, <1>10 DEF KindInv
  <1>15. SerialInv'
    BY <1>1, <1>12 DEF SerialInv, WriteUnderWay
  <1>16. HeardInv'
    <2>1. \A m \in Writes : write[m].pc \in {"ask", "write", "boot"} => write[m].by \in Dialogs
      BY DEF SerialInv
    <2> QED BY <1>1, <1>12, <2>1 DEF HeardInv
  <1>17. PostsInv'
    <2>1. \A q \in Posts : Used(q) => post[q].by \in Dialogs
      BY DEF PostsInv
    <2>2. ASSUME NEW j \in Dialogs
          PROVE  LET x == dlg'[j].driver IN
                 /\ x.to = 0 <=> x.key = 0
                 /\ x.to # 0 =>
                       /\ write[x.to].by = j /\ write[x.to].pc = "done"
                       /\ x.to = serial => dlg'[j].asked
                 /\ x.key \in Posts => post'[x.key].to = x.to /\ post'[x.key].pc = "done"
      <3>1. CASE j = i
        BY <1>3, <1>6, <1>8, <1>9, <1>10, <1>11, <3>1
      <3>2. CASE j # i
        BY <1>6, <1>7, <1>12, <3>2 DEF PostsInv
      <3> QED BY <3>1, <3>2
    <2>3. ASSUME NEW q \in Posts, Used(q)'
          PROVE  /\ post'[q].by \in Dialogs /\ dlg'[post'[q].by].kind # "none" /\ post'[q].of \in Choices
                 /\ post'[q].to = 0 <=> dlg'[post'[q].by].kind = "esphome"
                 /\ post'[q].to # 0 =>
                       /\ write[post'[q].to].by = post'[q].by /\ write[post'[q].to].pc = "done"
                       /\ post'[q].to = serial => dlg'[post'[q].by].asked
      BY <1>6, <1>7, <1>12, <2>1, <2>3 DEF PostsInv
    <2>4. ASSUME NEW q \in Posts, NEW r \in Posts
          PROVE  /\ InFlight(q)' /\ InFlight(r)' /\ q # r => post'[q].met
                 /\ InFlight(q)' /\ ~post'[q].met /\ post'[q].to # 0 /\ Used(r)' /\ q # r =>
                       post'[r].to = 0 \/ post'[r].to # serial
      BY <1>6, <1>7 DEF PostsInv
    <2> QED BY <1>1, <2>2, <2>3, <2>4 DEF PostsInv
  <1>18. PushInv'
    <2>1. \A q \in Posts : InFlight(q) => post[q].by \in Dialogs
      BY DEF PostsInv, InFlight, Used
    <2>2. \A m \in Writes : write[m].pc # "unused" => write[m].by \in Dialogs
      BY DEF SerialInv
    <2>3. \A j \in Dialogs : dlg[j].result \in Posts \union {0}
      BY DEF LoraShape, DialogRecords
    <2>4. \A q, r \in Posts :
             InFlight(q)' /\ InFlight(r)' /\ post'[q].by = post'[r].by /\ post'[q].to = 0 => q = r
      BY <1>6, <1>7 DEF PushInv
    <2>5. \A q \in Posts : InFlight(q)' /\ post'[q].to = 0 => dlg'[post'[q].by].result = 0
      BY <1>6, <1>7, <1>12, <2>1 DEF PushInv
    <2>6. \A j \in Dialogs : dlg[j].result # 0 => post'[dlg[j].result].pc = "done"
      BY <1>7, <2>3 DEF PushInv
    <2> QED BY <1>1, <1>12, <2>2, <2>4, <2>5, <2>6 DEF PushInv
  <1>19. ServedInv'
    <2>1. SUFFICES ASSUME NEW j \in Dialogs, dlg[j].phase = "monitoring", serial = dlg[j].session,
                          dlg[j].asked, dev.says = "asks", dev.mac, ~dlg[j].wiped
                   PROVE  LET x == dlg'[j] IN
                          \/ x.driver.to = x.session /\ ~x.driver.done
                          \/ \E q \in Posts : post'[q].to = x.session /\ (InFlight(q)' \/ post'[q].pc = "failed")
                          \/ x.driver.to \notin {0, x.session}
      BY <1>1, <1>12 DEF ServedInv
    <2>2. CASE j = i
      BY <1>3, <1>8, <1>9, <1>10, <2>2
    <2>3. CASE j # i
      <3>1. write[dlg[j].session].by = j
        BY <2>1 DEF SerialInv
      <3>2. post[p].to # dlg[j].session
        BY <1>3, <2>3, <3>1
      <3>3. \A q \in Posts : q # p /\ (InFlight(q) \/ post[q].pc = "failed") =>
                              InFlight(q)' \/ post'[q].pc = "failed"
        BY <1>6 DEF InFlight
      <3> QED BY <1>6, <1>12, <2>1, <2>3, <3>2, <3>3 DEF ServedInv
    <2> QED BY <2>2, <2>3
  <1>20. RekeyInv'
    BY <1>1, <1>5, <1>6 DEF RekeyInv
  <1>21. FlashedHasItsKeys'
    BY <1>1, <1>5, <1>12 DEF FlashedHasItsKeys, PushedAlone
  <1> QED BY <1>13, <1>14, <1>15, <1>16, <1>17, <1>18, <1>19, <1>20, <1>21

\* The answer of a registration of the other dialog: its keys.
LEMMA EsphomeAnswered ==
    ASSUME LInv, NEW p \in Posts, PostAnswered(p), dlg[post[p].by].kind # "flash"
    PROVE  LInv'
  <1> USE DEF LInv
  <1> DEFINE i == post[p].by
             d == [dlg[i] EXCEPT !.result = p]
  <1>1. /\ post[p].pc = "served" /\ post' = [post EXCEPT ![p].pc = "done"]
        /\ Alters(i, d) /\ UNCHANGED <<write, serial, dev, srv, build, trouble>>
    BY DEF PostAnswered
  <1>2. /\ i \in Dialogs /\ dlg[i].kind = "esphome" /\ dlg[i] \in DialogRecords
        /\ post[p].to = 0 /\ p # 0 /\ dlg[i].result = 0 /\ dlg[i].pushed = "idle"
        /\ dlg[i].phase \in {"idle", "waiting", "flashing", "flashed", "error"}
    <2>1. i \in Dialogs /\ dlg[i].kind # "none"
      BY <1>1 DEF PostsInv, Used
    <2>2. dlg[i].kind = "esphome" /\ dlg[i] \in DialogRecords
      BY <2>1 DEF LoraShape, DialogRecords, DialogKinds
    <2>3. post[p].to = 0
      BY <1>1, <2>2 DEF PostsInv, Used
    <2>4. dlg[i].result = 0
      BY <1>1, <2>3 DEF PushInv, InFlight
    <2> QED BY <2>1, <2>2, <2>3, <2>4, Numbers DEF PushInv, KindInv
  <1>3. /\ post' \in [Posts -> PostRecords]
        /\ \A q \in Posts : /\ post'[q].by = post[q].by /\ post'[q].to = post[q].to
                            /\ post'[q].of = post[q].of /\ post'[q].met = post[q].met
                            /\ q # p => post'[q].pc = post[q].pc
        /\ post'[p].pc = "done"
    BY <1>1 DEF LoraShape, PostRecords
  <1>4. \A q \in Posts : /\ InFlight(q)' => InFlight(q) /\ q # p
                         /\ Used(q)' <=> Used(q)
                         /\ post[q].pc = "done" => post'[q].pc = "done"
    <2>1. ASSUME NEW q \in Posts, q # p PROVE post'[q].pc = post[q].pc
      BY <1>3, <2>1
    <2> QED BY <1>1, <1>3, <2>1 DEF InFlight, Used
  <1>5. /\ d \in DialogRecords /\ d.kind = dlg[i].kind /\ d.on = dlg[i].on
        /\ d.asked = dlg[i].asked /\ d.driver = dlg[i].driver /\ d.wiped = dlg[i].wiped
        /\ d.result = p /\ d.pushed = dlg[i].pushed /\ d.choice = dlg[i].choice
        /\ d.session = dlg[i].session /\ d.phase = dlg[i].phase /\ d.heard = dlg[i].heard
    BY <1>2 DEF DialogRecords
  <1> HIDE DEF d
  <1>6. /\ dlg' \in [Dialogs -> DialogRecords] /\ dlg'[i] = d
        /\ \A j \in Dialogs : j # i => dlg'[j] = dlg[j]
    BY <1>1, <1>2, <1>5, DialogAt DEF LoraShape
  <1>7. i = post[p].by
    OBVIOUS
  <1> HIDE DEF i
  <1>8. \A j \in Dialogs :
           /\ dlg'[j].kind = dlg[j].kind /\ dlg'[j].on = dlg[j].on
           /\ dlg'[j].asked = dlg[j].asked /\ dlg'[j].wiped = dlg[j].wiped
           /\ dlg'[j].driver = dlg[j].driver /\ dlg'[j].pushed = dlg[j].pushed
           /\ dlg'[j].session = dlg[j].session /\ dlg'[j].phase = dlg[j].phase
           /\ dlg'[j].heard = dlg[j].heard
           /\ dlg'[j].result = IF j = i THEN p ELSE dlg[j].result
    BY <1>5, <1>6
  <1>9. LoraShape'
    BY <1>1, <1>3, <1>6 DEF LoraShape
  <1>10. KindInv'
    BY <1>2, <1>5, <1>6 DEF KindInv
  <1>11. SerialInv'
    BY <1>1, <1>8 DEF SerialInv, WriteUnderWay
  <1>12. HeardInv'
    <2>1. \A m \in Writes : write[m].pc \in {"ask", "write", "boot"} => write[m].by \in Dialogs
      BY DEF SerialInv
    <2> QED BY <1>1, <1>8, <2>1 DEF HeardInv
  <1>13. PostsInv'
    <2>1. \A q \in Posts : Used(q) => post[q].by \in Dialogs
      BY DEF PostsInv
    <2>2. ASSUME NEW j \in Dialogs
          PROVE  LET x == dlg'[j].driver IN
                 /\ x.to = 0 <=> x.key = 0
                 /\ x.to # 0 =>
                       /\ write[x.to].by = j /\ write[x.to].pc = "done"
                       /\ x.to = serial => dlg'[j].asked
                 /\ x.key \in Posts => post'[x.key].to = x.to /\ post'[x.key].pc = "done"
      BY <1>3, <1>4, <1>8 DEF PostsInv
    <2>3. ASSUME NEW q \in Posts, Used(q)'
          PROVE  /\ post'[q].by \in Dialogs /\ dlg'[post'[q].by].kind # "none" /\ post'[q].of \in Choices
                 /\ post'[q].to = 0 <=> dlg'[post'[q].by].kind = "esphome"
                 /\ post'[q].to # 0 =>
                       /\ write[post'[q].to].by = post'[q].by /\ write[post'[q].to].pc = "done"
                       /\ post'[q].to = serial => dlg'[post'[q].by].asked
      BY <1>3, <1>4, <1>8, <2>1, <2>3 DEF PostsInv
    <2>4. ASSUME NEW q \in Posts, NEW r \in Posts
          PROVE  /\ InFlight(q)' /\ InFlight(r)' /\ q # r => post'[q].met
                 /\ InFlight(q)' /\ ~post'[q].met /\ post'[q].to # 0 /\ Used(r)' /\ q # r =>
                       post'[r].to = 0 \/ post'[r].to # serial
      BY <1>3, <1>4 DEF PostsInv
    <2> QED BY <1>1, <2>2, <2>3, <2>4 DEF PostsInv
  <1>14. PushInv'
    <2>1. \A q \in Posts : InFlight(q) => post[q].by \in Dialogs
      BY DEF PostsInv, InFlight, Used
    <2>2. \A m \in Writes : write[m].pc # "unused" => write[m].by \in Dialogs
      BY DEF SerialInv
    <2>3. \A j \in Dialogs : dlg[j].result \in Posts \union {0}
      BY DEF LoraShape, DialogRecords
    <2>4. \A q, r \in Posts :
             InFlight(q)' /\ InFlight(r)' /\ post'[q].by = post'[r].by /\ post'[q].to = 0 => q = r
      BY <1>3, <1>4 DEF PushInv
    <2>5. ASSUME NEW q \in Posts, InFlight(q)', post'[q].to = 0 PROVE dlg'[post'[q].by].result = 0
      <3>1. InFlight(q) /\ q # p /\ post[q].to = 0 /\ post'[q].by = post[q].by /\ InFlight(p)
        BY <1>1, <1>3, <1>4, <2>5 DEF InFlight
      <3>2. post[q].by # i
        BY <1>7, <3>1 DEF PushInv
      <3> QED BY <1>8, <2>1, <3>1, <3>2 DEF PushInv
    <2>6. \A j \in Dialogs : dlg'[j].result # 0 => post'[dlg'[j].result].pc = "done"
      BY <1>3, <1>4, <1>8, <2>3 DEF PushInv
    <2>7. \A j \in Dialogs :
          /\ dlg'[j].pushed # "idle" => dlg'[j].result # 0
          /\ dlg'[j].phase = "waiting" => dlg'[j].pushed = "pushed"
          /\ dlg'[j].pushed = "pushed" /\ (\A k \in Dialogs \ {j} : dlg'[k].pushed = "idle") =>
                build.key = dlg'[j].result
      BY <1>2, <1>8 DEF PushInv
    <2>8. \A m \in Writes :
            write[m].pc # "unused" /\ dlg'[write[m].by].kind = "esphome" =>
                /\ dlg'[write[m].by].pushed = "pushed"
                /\ write[m].pc \in {"boot", "done"} /\ dlg'[write[m].by].on => serial = m
      BY <1>8, <2>2 DEF PushInv
    <2> QED BY <1>1, <2>4, <2>5, <2>6, <2>7, <2>8 DEF PushInv
  <1>15. ServedInv'
    <2>1. SUFFICES ASSUME NEW j \in Dialogs, dlg[j].phase = "monitoring", serial = dlg[j].session,
                          dlg[j].asked, dev.says = "asks", dev.mac, ~dlg[j].wiped
                   PROVE  LET x == dlg[j] IN
                          \/ x.driver.to = x.session /\ ~x.driver.done
                          \/ \E q \in Posts : post'[q].to = x.session /\ (InFlight(q)' \/ post'[q].pc = "failed")
                          \/ x.driver.to \notin {0, x.session}
      BY <1>1, <1>8 DEF ServedInv
    <2>2. dlg[j].session # 0
      BY <2>1 DEF SerialInv
    <2>3. \A q \in Posts : q # p /\ (InFlight(q) \/ post[q].pc = "failed") =>
                            InFlight(q)' \/ post'[q].pc = "failed"
      BY <1>3 DEF InFlight
    <2> QED BY <1>2, <1>3, <2>1, <2>2, <2>3 DEF ServedInv
  <1>16. RekeyInv'
    BY <1>1, <1>3 DEF RekeyInv
  <1>17. FlashedHasItsKeys'
    <2>1. \A m \in Writes : write[m].pc # "unused" => write[m].by # i
      BY <1>2 DEF PushInv
    <2> QED BY <1>1, <1>8, <2>1 DEF FlashedHasItsKeys, PushedAlone
  <1> QED BY <1>9, <1>10, <1>11, <1>12, <1>13, <1>14, <1>15, <1>16, <1>17

LEMMA PostAnsweredStep == ASSUME LInv, NEW p \in Posts, PostAnswered(p) PROVE LInv'
  BY FlashAnswered, EsphomeAnswered

\* The driver answers, and the board has the keys of its registration.
LEMMA DriverAnswersStep == ASSUME LInv, NEW i \in Dialogs, DriverAnswers(i) PROVE LInv'
  <1> USE DEF LInv
  <1> DEFINE v == dlg[i].driver
             d == [dlg[i] EXCEPT !.driver.done = TRUE]
  <1>1. /\ v.key # 0 /\ ~v.done /\ serial = v.to /\ Alters(i, d)
        /\ dev.says = "asks"
        /\ dev' = [dev EXCEPT !.keys = v.key, !.says = Booted(v.key)]
        /\ srv' = Joining(v.key)
        /\ UNCHANGED <<write, post, serial, build, trouble>>
    BY DEF DriverAnswers, Alters
  <1>2. /\ dlg[i] \in DialogRecords /\ v \in DriverRecords
        /\ v.key \in Keys /\ v.to \in Writes \union {0}
    BY DEF LoraShape, DialogRecords, DriverRecords
  <1>3. /\ v.to # 0 /\ v.to \in Writes /\ write[v.to].by = i /\ write[v.to].pc = "done"
        /\ v.key \in Posts => post[v.key].to = v.to /\ post[v.key].pc = "done"
    BY <1>1, <1>2 DEF PostsInv
  <1>4. dlg[i].kind # "esphome" /\ v.key \in Posts \union {Throwaway}
    <2>1. dlg[i].kind # "esphome"
      BY <1>1 DEF KindInv, NoDriver, Closed
    <2>2. v.key \in Posts \union {Throwaway}
      BY <1>1, <1>2, LorawanBounds DEF Keys, Posts, Throwaway
    <2> QED BY <2>1, <2>2
  <1>5. /\ d \in DialogRecords /\ d.kind = dlg[i].kind /\ d.on = dlg[i].on
        /\ d.asked = dlg[i].asked /\ d.wiped = dlg[i].wiped
        /\ d.driver.key = v.key /\ d.driver.to = v.to
        /\ d.result = dlg[i].result /\ d.pushed = dlg[i].pushed /\ d.choice = dlg[i].choice
        /\ d.session = dlg[i].session /\ d.phase = dlg[i].phase /\ d.heard = dlg[i].heard
    BY <1>2 DEF DialogRecords, DriverRecords
  <1> HIDE DEF d
  <1>6. /\ dlg' \in [Dialogs -> DialogRecords] /\ dlg'[i] = d
        /\ \A j \in Dialogs : j # i => dlg'[j] = dlg[j]
    BY <1>1, <1>5, DialogAt DEF LoraShape
  <1>7. \A j \in Dialogs :
           /\ dlg'[j].kind = dlg[j].kind /\ dlg'[j].on = dlg[j].on
           /\ dlg'[j].asked = dlg[j].asked /\ dlg'[j].wiped = dlg[j].wiped
           /\ dlg'[j].result = dlg[j].result /\ dlg'[j].pushed = dlg[j].pushed
           /\ dlg'[j].session = dlg[j].session /\ dlg'[j].phase = dlg[j].phase
           /\ dlg'[j].heard = dlg[j].heard /\ dlg'[j].choice = dlg[j].choice
           /\ dlg'[j].driver.key = dlg[j].driver.key /\ dlg'[j].driver.to = dlg[j].driver.to
    BY <1>5, <1>6
  <1>8. /\ dev' \in [image : Choices \union {"none", "torn", "esphome"}, keys : Keys,
                     says : {"silent", "asks", "joined"}, mac : BOOLEAN]
        /\ dev'.keys = v.key /\ dev'.says # "asks" /\ dev'.mac = dev.mac
    <2>1. Booted(v.key) \in {"joined", "silent"}
      BY <1>1 DEF Booted
    <2> QED BY <1>1, <1>2, <2>1 DEF LoraShape
  <1>9. /\ srv' \in [key : Posts \union {0}, session : Keys, codec : Choices \union {"none"}]
        /\ srv'.key = srv.key
    BY <1>1, <1>2 DEF Joining, LoraShape
  <1>10. LoraShape'
    BY <1>1, <1>6, <1>8, <1>9 DEF LoraShape
  <1>11. KindInv'
    <2>1. dlg[i].kind # "none"
      BY <1>1 DEF KindInv, Closed
    <2>2. ASSUME NEW j \in Dialogs
          PROVE  /\ dlg'[j].kind = "none" => dlg'[j] = Closed
                 /\ dlg'[j].kind # "none" => dlg'[j].choice \in Choices
                 /\ dlg'[j].kind = "flash" =>
                       /\ dlg'[j].phase \notin {"waiting", "flashed"}
                       /\ dlg'[j].result = 0 /\ dlg'[j].pushed = "idle"
                 /\ dlg'[j].kind = "esphome" =>
                       /\ dlg'[j].phase \in {"idle", "waiting", "flashing", "flashed", "error"}
                       /\ dlg'[j].heard = {} /\ ~dlg'[j].asked /\ dlg'[j].driver = NoDriver
      <3>1. CASE j = i
        BY <1>4, <1>7, <2>1, <3>1 DEF KindInv
      <3>2. CASE j # i
        BY <1>6, <3>2 DEF KindInv
      <3> QED BY <3>1, <3>2
    <2> QED BY <2>2 DEF KindInv
  <1>12. SerialInv'
    BY <1>1, <1>7 DEF SerialInv, WriteUnderWay
  <1>13. HeardInv'
    <2>1. \A m \in Writes : write[m].pc # "boot"
      BY <1>1, <1>3 DEF SerialInv
    <2>2. \A m \in Writes : write[m].pc # "unused" => write[m].by \in Dialogs
      BY DEF SerialInv
    <2>3. \A m \in Writes : write[m].pc \in {"ask", "write"} =>
             dlg'[write[m].by].heard = {} /\ ~dlg'[write[m].by].asked
      BY <1>7, <2>2 DEF HeardInv
    <2>4. \A j \in Dialogs : dlg'[j].session # 0 /\ ~dlg'[j].asked => dlg'[j].heard = {}
      BY <1>7 DEF HeardInv
    <2> QED BY <1>1, <1>8, <2>1, <2>3, <2>4 DEF HeardInv
  <1>14. PostsInv'
    <2>1. \A q \in Posts : Used(q) => post[q].by \in Dialogs
      BY DEF PostsInv
    <2> QED BY <1>1, <1>7, <2>1 DEF PostsInv, Used, InFlight
  <1>15. PushInv'
    <2>1. \A q \in Posts : InFlight(q) => post[q].by \in Dialogs
      BY DEF PostsInv, InFlight, Used
    <2>2. \A m \in Writes : write[m].pc # "unused" => write[m].by \in Dialogs
      BY DEF SerialInv
    <2> QED BY <1>1, <1>7, <2>1, <2>2 DEF PushInv, InFlight
  <1>16. ServedInv'
    BY <1>8 DEF ServedInv
  <1>17. RekeyInv'
    <2>1. SUFFICES ASSUME NEW q \in Posts, post[q].pc = "sent", post[q].to # 0, ~post[q].met
                   PROVE  v.key \in {0, Throwaway} \/ v.key # srv.key
      BY <1>1, <1>8, <1>9 DEF RekeyInv
    <2>2. CASE v.key \in Posts
      <3>1. q # v.key
        BY <1>3, <2>1, <2>2
      <3>2. post[v.key].to = 0 \/ post[v.key].to # serial
        BY <1>3, <2>1, <2>2, <3>1 DEF PostsInv, InFlight, Used
      <3> QED BY <1>1, <1>3, <2>2, <3>2
    <2> QED BY <1>4, <2>2
  <1>18. FlashedHasItsKeys'
    <2>1. \A m \in Writes : write[m].pc \in {"boot", "done"} /\ dlg[write[m].by].kind = "esphome" =>
              ~dlg[write[m].by].on
      BY <1>1, <1>3, <1>4 DEF PushInv
    <2> QED BY <1>1, <1>7, <2>1 DEF FlashedHasItsKeys, PushedAlone
  <1> QED BY <1>10, <1>11, <1>12, <1>13, <1>14, <1>15, <1>16, <1>17, <1>18

\* The monitor's buttons: the session is left, or its board wiped.
LEMMA HandleStopStep == ASSUME LInv, NEW i \in Dialogs, HandleStop(i) PROVE LInv'
  <1> USE DEF LInv
  <1> DEFINE d == [dlg[i] EXCEPT !.session = 0, !.phase = "built", !.offline = FALSE]
  <1>1. /\ dlg[i].phase = "monitoring" /\ Alters(i, d)
        /\ serial' = IF serial = dlg[i].session THEN 0 ELSE serial
        /\ UNCHANGED <<write, post, dev, srv, build, trouble>>
    BY DEF HandleStop
  <1>2. /\ dlg[i].session # 0 /\ dlg[i] \in DialogRecords
        /\ dlg[i].kind = "flash"
    <2>1. dlg[i] \in DialogRecords
      BY DEF LoraShape
    <2>2. dlg[i].kind = "flash"
      BY <1>1, <2>1 DEF KindInv, Closed, DialogRecords, DialogKinds
    <2> QED BY <1>1, <2>1, <2>2 DEF SerialInv
  <1>3. /\ serial' \in {0, serial}
        /\ \A n \in Writes : write[n].pc \in {"write", "boot"} => serial' = n
        /\ \A n \in Writes : write[n].pc # "unused" /\ write[n].by # i /\ serial = n => serial' = n
    BY <1>1, <1>2, LetGo
  <1>4. /\ d \in DialogRecords /\ d.kind = dlg[i].kind /\ d.on = dlg[i].on
        /\ d.asked = dlg[i].asked /\ d.driver = dlg[i].driver /\ d.wiped = dlg[i].wiped
        /\ d.result = dlg[i].result /\ d.pushed = dlg[i].pushed /\ d.choice = dlg[i].choice
        /\ d.session = 0 /\ d.phase = "built" /\ d.heard = dlg[i].heard
    BY <1>2 DEF DialogRecords, LoraPhases
  <1> HIDE DEF d
  <1>5. /\ dlg' \in [Dialogs -> DialogRecords] /\ dlg'[i] = d
        /\ \A j \in Dialogs : j # i => dlg'[j] = dlg[j]
    BY <1>1, <1>4, DialogAt DEF LoraShape
  <1>6. \A j \in Dialogs :
           /\ dlg'[j].kind = dlg[j].kind /\ dlg'[j].on = dlg[j].on
           /\ dlg'[j].asked = dlg[j].asked /\ dlg'[j].wiped = dlg[j].wiped
           /\ dlg'[j].result = dlg[j].result /\ dlg'[j].pushed = dlg[j].pushed
           /\ dlg'[j].driver = dlg[j].driver /\ dlg'[j].heard = dlg[j].heard
           /\ j # i => dlg'[j].session = dlg[j].session
           /\ j # i => dlg'[j].phase = dlg[j].phase
    BY <1>4, <1>5
  <1>7. LoraShape'
    BY <1>1, <1>3, <1>5 DEF LoraShape
  <1>8. KindInv'
    BY <1>2, <1>4, <1>5 DEF KindInv
  <1>9. SerialInv'
    <2>1. \A m \in Writes : write[m].pc = "done" /\ write[m].by = i => serial' # m
      <3>1. \A m \in Writes : write[m].pc = "done" /\ write[m].by = i /\ serial = m => dlg[i].session = m
        BY DEF SerialInv
      <3> QED BY <1>1, <3>1, Numbers
    <2>2. \A m \in Writes : write[m].by = i => ~WriteUnderWay(m)
      BY <1>1 DEF SerialInv, WriteUnderWay
    <2>3. ASSUME NEW m \in Writes, write[m].pc # "unused"
          PROVE  /\ write[m].by \in Dialogs /\ dlg'[write[m].by].kind # "none"
                 /\ write[m].image = "esphome" <=> dlg'[write[m].by].kind = "esphome"
                 /\ WriteUnderWay(m) => dlg'[write[m].by].phase = "flashing"
                 /\ write[m].pc \in {"write", "boot"} => serial' = m
                 /\ write[m].pc = "done" /\ serial' = m => dlg'[write[m].by].session = m
                 /\ write[m].pc = "ask" => serial' # m
      <3>1. write[m].by \in Dialogs /\ serial # m => serial' # m
        BY <1>3, <2>3, Numbers DEF SerialInv
      <3> QED BY <1>3, <1>6, <2>1, <2>2, <2>3, <3>1 DEF SerialInv
    <2>4. serial' # 0 => write[serial'].pc # "unused"
      BY <1>3 DEF SerialInv
    <2>5. \A j \in Dialogs :
          /\ dlg'[j].session # 0 =>
                /\ write[dlg'[j].session].by = j /\ write[dlg'[j].session].pc = "done"
                /\ dlg'[j].phase \in {"monitoring", "flashed"}
          /\ dlg'[j].phase = "monitoring" => dlg'[j].session # 0
      BY <1>4, <1>5 DEF SerialInv
    <2> QED BY <1>1, <2>3, <2>4, <2>5 DEF SerialInv, WriteUnderWay
  <1>10. HeardInv'
    <2>1. \A m \in Writes : write[m].pc # "unused" => write[m].by \in Dialogs
      BY DEF SerialInv
    <2>2. \A j \in Dialogs : dlg'[j].session # 0 /\ ~dlg'[j].asked => dlg'[j].heard = {}
      BY <1>4, <1>5 DEF HeardInv
    <2> QED BY <1>1, <1>6, <2>1, <2>2 DEF HeardInv
  <1>11. PostsInv'
    <2>1. \A q \in Posts : Used(q) => post[q].by \in Dialogs
      BY DEF PostsInv
    <2> QED BY <1>1, <1>3, <1>6, <2>1 DEF PostsInv, Used, InFlight
  <1>12. PushInv'
    <2>1. \A q \in Posts : InFlight(q) => post[q].by \in Dialogs
      BY DEF PostsInv, InFlight, Used
    <2>2. \A j \in Dialogs : dlg'[j].phase = "waiting" => dlg[j].phase = "waiting"
      BY <1>4, <1>5
    <2>3. ASSUME NEW m \in Writes, write[m].pc # "unused", dlg'[write[m].by].kind = "esphome"
          PROVE  /\ dlg'[write[m].by].pushed = "pushed"
                 /\ write[m].pc \in {"boot", "done"} /\ dlg'[write[m].by].on => serial' = m
      <3>1. write[m].by \in Dialogs
        BY <2>3 DEF SerialInv
      <3>2. write[m].by # i
        BY <1>2, <1>6, <2>3
      <3> QED BY <1>3, <1>6, <2>3, <3>1, <3>2 DEF PushInv
    <2> QED BY <1>1, <1>6, <2>1, <2>2, <2>3 DEF PushInv, InFlight
  <1>13. ServedInv'
    <2>1. ASSUME NEW j \in Dialogs, dlg'[j].phase = "monitoring", serial' = dlg'[j].session
          PROVE  dlg'[j] = dlg[j] /\ serial = dlg[j].session
      <3>1. dlg'[j] = dlg[j]
        BY <1>4, <1>5, <2>1
      <3>2. dlg[j].session # 0
        BY <2>1, <3>1 DEF SerialInv
      <3> QED BY <1>3, <2>1, <3>1, <3>2
    <2> QED BY <1>1, <2>1 DEF ServedInv, InFlight
  <1>14. RekeyInv' /\ FlashedHasItsKeys'
    BY <1>1, <1>6 DEF RekeyInv, FlashedHasItsKeys, PushedAlone
  <1> QED BY <1>7, <1>8, <1>9, <1>10, <1>11, <1>12, <1>13, <1>14

LEMMA HandleWipeStep == ASSUME LInv, NEW i \in Dialogs, HandleWipe(i) PROVE LInv'
  <1> USE DEF LInv
  <1> DEFINE d == [dlg[i] EXCEPT !.wiped = TRUE]
  <1>1. /\ dlg[i].phase = "monitoring" /\ serial = dlg[i].session /\ Alters(i, d)
        /\ dev' = [dev EXCEPT !.keys = 0, !.says = "asks"]
        /\ UNCHANGED <<write, post, serial, srv, build, trouble>>
    BY DEF HandleWipe
  <1>2. /\ dlg[i].session # 0 /\ dlg[i] \in DialogRecords /\ dlg[i].kind = "flash"
        /\ dlg[i].session \in Writes
        /\ write[dlg[i].session].by = i /\ write[dlg[i].session].pc = "done"
    <2>1. dlg[i] \in DialogRecords
      BY DEF LoraShape
    <2>2. dlg[i].kind = "flash"
      BY <1>1, <2>1 DEF KindInv, Closed, DialogRecords, DialogKinds
    <2> QED BY <1>1, <2>1, <2>2 DEF SerialInv, DialogRecords
  <1>3. /\ d \in DialogRecords /\ d.kind = dlg[i].kind /\ d.on = dlg[i].on
        /\ d.asked = dlg[i].asked /\ d.driver = dlg[i].driver /\ d.wiped
        /\ d.result = dlg[i].result /\ d.pushed = dlg[i].pushed /\ d.choice = dlg[i].choice
        /\ d.session = dlg[i].session /\ d.phase = dlg[i].phase /\ d.heard = dlg[i].heard
    BY <1>2 DEF DialogRecords
  <1> HIDE DEF d
  <1>4. /\ dlg' \in [Dialogs -> DialogRecords] /\ dlg'[i] = d
        /\ \A j \in Dialogs : j # i => dlg'[j] = dlg[j]
    BY <1>1, <1>3, DialogAt DEF LoraShape
  <1>5. \A j \in Dialogs :
           /\ dlg'[j].kind = dlg[j].kind /\ dlg'[j].on = dlg[j].on
           /\ dlg'[j].asked = dlg[j].asked /\ dlg'[j].session = dlg[j].session
           /\ dlg'[j].result = dlg[j].result /\ dlg'[j].pushed = dlg[j].pushed
           /\ dlg'[j].driver = dlg[j].driver /\ dlg'[j].heard = dlg[j].heard
           /\ dlg'[j].phase = dlg[j].phase
    BY <1>3, <1>4
  <1>6. /\ dev' \in [image : Choices \union {"none", "torn", "esphome"}, keys : Keys,
                     says : {"silent", "asks", "joined"}, mac : BOOLEAN]
        /\ dev'.keys = 0
    BY <1>1, Numbers DEF LoraShape
  <1>7. LoraShape'
    BY <1>1, <1>4, <1>6 DEF LoraShape
  <1>8. KindInv'
    BY <1>2, <1>3, <1>4 DEF KindInv
  <1>9. SerialInv'
    BY <1>1, <1>5 DEF SerialInv, WriteUnderWay
  <1>10. HeardInv'
    <2>1. \A m \in Writes : write[m].pc # "boot"
      BY <1>1, <1>2 DEF SerialInv
    <2>2. \A m \in Writes : write[m].pc # "unused" => write[m].by \in Dialogs
      BY DEF SerialInv
    <2> QED BY <1>1, <1>5, <1>6, <2>1, <2>2 DEF HeardInv
  <1>11. PostsInv'
    <2>1. \A q \in Posts : Used(q) => post[q].by \in Dialogs
      BY DEF PostsInv
    <2> QED BY <1>1, <1>5, <2>1 DEF PostsInv, Used, InFlight
  <1>12. PushInv'
    <2>1. \A q \in Posts : InFlight(q) => post[q].by \in Dialogs
      BY DEF PostsInv, InFlight, Used
    <2>2. \A m \in Writes : write[m].pc # "unused" => write[m].by \in Dialogs
      BY DEF SerialInv
    <2> QED BY <1>1, <1>5, <2>1, <2>2 DEF PushInv, InFlight
  <1>13. ServedInv'
    <2>1. SUFFICES ASSUME NEW j \in Dialogs, dlg'[j].phase = "monitoring", serial = dlg'[j].session,
                          ~dlg'[j].wiped
                   PROVE  FALSE
      BY <1>1 DEF ServedInv
    <2>2. dlg[j].session # 0 /\ dlg[j].session = dlg[i].session
      BY <1>1, <1>5, <2>1 DEF SerialInv
    <2>3. j = i
      BY <1>2, <2>2 DEF SerialInv
    <2> QED BY <1>3, <1>4, <2>1, <2>3
  <1>14. RekeyInv'
    BY <1>6 DEF RekeyInv
  <1>15. FlashedHasItsKeys'
    <2>1. \A m \in Writes : write[m].pc \in {"boot", "done"} /\ dlg[write[m].by].kind = "esphome" =>
              ~dlg[write[m].by].on
      BY <1>1, <1>2 DEF PushInv
    <2> QED BY <1>1, <1>5, <2>1 DEF FlashedHasItsKeys, PushedAlone
  <1> QED BY <1>7, <1>8, <1>9, <1>10, <1>11, <1>12, <1>13, <1>14, <1>15

LEMMA HandleProvisionStep ==
    ASSUME LInv, NEW i \in Dialogs, NEW p \in Posts, HandleProvision(i, p) PROVE LInv'
  <1> USE DEF LInv
  <1>1. /\ dlg[i].kind = "esphome" /\ dlg[i].result = 0
        /\ ~\E q \in Posts : InFlight(q) /\ post[q].by = i
        /\ NextPost(p) /\ Sends(p, i, 0, dlg[i].choice)
        /\ UNCHANGED <<dlg, write, serial, dev, srv, build, trouble>>
    BY DEF HandleProvision
  <1>2. dlg[i].choice \in Choices /\ post \in [Posts -> PostRecords] /\ dlg[i].kind # "none"
    BY <1>1 DEF KindInv, LoraShape
  <1>3. /\ post' \in [Posts -> PostRecords] /\ post[p].pc = "unused"
        /\ post'[p].by = i /\ post'[p].to = 0 /\ post'[p].of = dlg[i].choice /\ post'[p].pc = "sent"
        /\ ~post'[p].met => \A r \in Posts : ~InFlight(r)
        /\ \A q \in Posts : q # p =>
              /\ post'[q].by = post[q].by /\ post'[q].to = post[q].to
              /\ post'[q].of = post[q].of /\ post'[q].pc = post[q].pc
              /\ post'[q].met <=> post[q].met \/ InFlight(q)
    <2> HIDE DEF LInv
    <2>1. 0 \in Writes \union {0}
      OBVIOUS
    <2> QED BY <1>1, <1>2, <2>1, SendsPost
  <1>4. /\ InFlight(p)' /\ Used(p)' /\ ~InFlight(p) /\ ~Used(p)
        /\ \A q \in Posts : q # p => /\ InFlight(q)' <=> InFlight(q)
                                     /\ Used(q)' <=> Used(q)
    BY <1>3 DEF InFlight, Used
  <1>5. LoraShape'
    BY <1>1, <1>3 DEF LoraShape
  <1>6. KindInv' /\ SerialInv' /\ HeardInv'
    BY <1>1 DEF KindInv, SerialInv, HeardInv, WriteUnderWay
  <1>7. PostsInv'
    <2>1. ASSUME NEW q \in Posts, Used(q)'
          PROVE  /\ post'[q].by \in Dialogs /\ dlg[post'[q].by].kind # "none" /\ post'[q].of \in Choices
                 /\ post'[q].to = 0 <=> dlg[post'[q].by].kind = "esphome"
                 /\ post'[q].to # 0 =>
                       /\ write[post'[q].to].by = post'[q].by /\ write[post'[q].to].pc = "done"
                       /\ post'[q].to = serial => dlg[post'[q].by].asked
      BY <1>1, <1>2, <1>3, <1>4, <2>1 DEF PostsInv
    <2>2. ASSUME NEW q \in Posts, NEW r \in Posts
          PROVE  /\ InFlight(q)' /\ InFlight(r)' /\ q # r => post'[q].met
                 /\ InFlight(q)' /\ ~post'[q].met /\ post'[q].to # 0 /\ Used(r)' /\ q # r =>
                       post'[r].to = 0 \/ post'[r].to # serial
      BY <1>3, <1>4 DEF PostsInv
    <2>3. ASSUME NEW j \in Dialogs
          PROVE  LET x == dlg[j].driver IN
                 /\ x.to = 0 <=> x.key = 0
                 /\ x.to # 0 =>
                       /\ write[x.to].by = j /\ write[x.to].pc = "done"
                       /\ x.to = serial => dlg[j].asked
                 /\ x.key \in Posts => post'[x.key].to = x.to /\ post'[x.key].pc = "done"
      BY <1>3 DEF PostsInv
    <2> QED BY <1>1, <2>1, <2>2, <2>3 DEF PostsInv
  <1>8. PushInv'
    <2>1. \A q, r \in Posts :
             InFlight(q)' /\ InFlight(r)' /\ post'[q].by = post'[r].by /\ post'[q].to = 0 => q = r
      BY <1>1, <1>3, <1>4 DEF PushInv
    <2>2. \A q \in Posts : InFlight(q)' /\ post'[q].to = 0 => dlg[post'[q].by].result = 0
      BY <1>1, <1>3, <1>4 DEF PushInv
    <2>3. \A j \in Dialogs : dlg[j].result # 0 => post'[dlg[j].result].pc = "done"
      <3>1. \A j \in Dialogs : dlg[j].result \in Posts \union {0}
        BY DEF LoraShape, DialogRecords
      <3> QED BY <1>3, <3>1 DEF PushInv
    <2> QED BY <1>1, <2>1, <2>2, <2>3 DEF PushInv
  <1>9. ServedInv'
    <2>1. \A q \in Posts : InFlight(q) \/ post[q].pc = "failed" =>
             post'[q].to = post[q].to /\ (InFlight(q)' \/ post'[q].pc = "failed")
      BY <1>3, <1>4
    <2> QED BY <1>1, <2>1 DEF ServedInv
  <1>10. RekeyInv' /\ FlashedHasItsKeys'
    BY <1>1, <1>3 DEF RekeyInv, FlashedHasItsKeys, PushedAlone
  <1> QED BY <1>5, <1>6, <1>7, <1>8, <1>9, <1>10

-----------------------------------------------------------------------------
(* LorawanDialogs: the theorems.                                           *)

LEMMA LoraStep == ASSUME LInv, [LorawanNext]_lorawanVars PROVE LInv'
  <1>1. CASE \E i \in Dialogs, k \in DialogKinds : OpenDialog(i, k)
    BY <1>1, OpenStep
  <1>2. CASE \E i \in Dialogs : CloseDialog(i)
    BY <1>2, CloseStep
  <1>3. CASE \E i \in Dialogs : DriverAnswers(i) \/ HandleStop(i) \/ HandleWipe(i)
    BY <1>3, DriverAnswersStep, HandleStopStep, HandleWipeStep
  <1>4. CASE \E i \in Dialogs, ok \in BOOLEAN : PushKeys(i) \/ PushServed(i, ok)
    BY <1>4, PushKeysSteps
  <1>5. CASE \E i \in Dialogs, ok \in BOOLEAN, c \in Choices :
                BoardsListed(i, ok) \/ HandleBuild(i, c) \/ BuildAnswered(i, ok) \/ WaitForBuild(i)
    BY <1>5, PhaseSteps
  <1>6. CASE \E i \in Dialogs, n \in Writes, c \in Choices, full, offline \in BOOLEAN :
                FlashBuilt(i, n, c, full, offline)
    BY <1>6, FlashBuiltStep
  <1>7. CASE \E i \in Dialogs, n \in Writes : BuildSeen(i, n)
    BY <1>7, BuildSeenStep
  <1>8. CASE \E n \in Writes, ok \in BOOLEAN : PickPort(n, ok) \/ WriteImage(n, ok)
    BY <1>8, PickPortStep, WriteImageStep
  <1>9. CASE \E n \in Writes : Chunk(n) \/ WriteReturns(n)
    BY <1>9, ChunkStep, WriteReturnsStep
  <1>10. CASE \E i \in Dialogs, p \in Posts : HandleProvision(i, p)
    BY <1>10, HandleProvisionStep
  <1>11. CASE \E p \in Posts : PostAnswered(p)
    BY <1>11, PostAnsweredStep
  <1>12. CASE \E p \in Posts, ok \in BOOLEAN : PostServed(p, ok)
    BY <1>12, PostServedStep
  <1>13. CASE \E ok \in BOOLEAN : BuildEnds(ok)
    BY <1>13, BuildEndsStep
  <1>14. CASE UNCHANGED lorawanVars
    BY <1>14 DEF lorawanVars, LInv, LoraShape, KindInv, SerialInv, HeardInv, PostsInv, PushInv,
       ServedInv, RekeyInv, FlashedHasItsKeys, PushedAlone, WriteUnderWay, Used, InFlight
  <1>15. \A i \in Dialogs : dlg[i].choice \in Choices \/ dlg[i] = Closed
    BY DEF LInv, KindInv
  <1>16. CASE \E i \in Dialogs : WaitForBuild(i)
    <2>1. PICK i \in Dialogs : WaitForBuild(i)
      BY <1>16
    <2>2. dlg[i].choice \in Choices
      BY <2>1 DEF WaitForBuild, LInv, KindInv
    <2> QED BY <1>5, <2>1, <2>2
  <1>17. CASE \E i \in Dialogs, ok \in BOOLEAN : BoardsListed(i, ok) \/ BuildAnswered(i, ok)
    <2>1. PICK i \in Dialogs, ok \in BOOLEAN : BoardsListed(i, ok) \/ BuildAnswered(i, ok)
      BY <1>17
    <2>2. dlg[i].choice \in Choices
      BY <1>15, <2>1 DEF BoardsListed, BuildAnswered, Closed
    <2> QED BY <1>5, <2>1, <2>2
  <1>18. CASE \E i \in Dialogs : PushKeys(i)
    BY <1>4, <1>18
  <1>19. CASE \E i \in Dialogs, ok \in BOOLEAN : PushServed(i, ok)
    BY <1>4, <1>19
  <1>20. CASE \E i \in Dialogs, c \in Choices : HandleBuild(i, c)
    BY <1>5, <1>20
  <1> QED
    BY <1>1, <1>2, <1>3, <1>6, <1>7, <1>8, <1>9, <1>10, <1>11, <1>12, <1>13, <1>14, <1>16, <1>17,
       <1>18, <1>19, <1>20 DEF LorawanNext

\* What the run checks of the dialogs, of any number of them: types, a board
\* that asks is being served, and a flashed image carries the keys of the
\* registration its dialog made.
THEOREM DialogsCorrect == LorawanSpec => []DialogsSound
  <1>1. LorawanInit => LInv
    BY LoraInit
  <1>2. LInv /\ [LorawanNext]_lorawanVars => LInv'
    BY LoraStep
  <1>3. LInv => DialogsSound
    <2> SUFFICES ASSUME LInv PROVE DialogsSound
      OBVIOUS
    <2>1. LorawanTypeOK
      BY LorawanBounds DEF LInv, LoraShape, LorawanTypeOK, DialogRecords
    <2>2. PromptServed
      <3>1. \A i \in Dialogs : dlg[i].phase = "monitoring" => dlg[i].session # 0
        BY DEF LInv, SerialInv
      <3>2. \A i \in Dialogs : Asking(i) => dlg[i].asked
        BY <3>1 DEF LInv, HeardInv, Asking
      <3> QED BY <3>2 DEF LInv, ServedInv, PromptServed, Asking
    <2> QED BY <2>1, <2>2 DEF LInv, DialogsSound
  <1> QED BY <1>1, <1>2, <1>3, PTL DEF LorawanSpec

\* A registration that met no other never replaces keys the board lives by.
THEOREM NothingRekeyed == LorawanSpec => NeverRekeys
  <1>1. LorawanInit => LInv
    BY LoraInit
  <1>2. LInv /\ [LorawanNext]_lorawanVars => LInv'
    BY LoraStep
  <1>3. LInv => \A p \in Posts :
           post[p].pc = "sent" /\ post'[p].pc = "served" /\ post[p].to # 0 /\ ~post[p].met =>
               dev.keys \in {0, Throwaway} \/ dev.keys # srv.key
    BY DEF LInv, RekeyInv
  <1> QED BY <1>1, <1>2, <1>3, PTL DEF LorawanSpec, NeverRekeys
=============================================================================
