--------------------------- MODULE LorawanDialogs ---------------------------
(***************************************************************************)
(* The two dialogs that bring a LoRaWAN board up over WebSerial:           *)
(* web/src/components/LorawanFlashDialog.tsx builds firmware, flashes it   *)
(* and answers the prompts of a board without keys (lib/provision.ts);     *)
(* web/src/components/LorawanProvisionEsphomeDialog.tsx registers a board, *)
(* pushes its design with the keys in it and flashes the build.  Both work *)
(* on one board, one port and one device of the server, which are external *)
(* and here as the code uses them.  Closing a dialog stops none of the     *)
(* requests it has in flight.                                              *)
(***************************************************************************)
EXTENDS Naturals

CONSTANTS
    Choices,      \* what the pickers may say: boards and sensors, as designs
    MaxDialogs,   \* bound: dialogs opened, one after the other
    MaxWrites,    \* bound: flashes begun
    MaxPosts,     \* bound: registrations asked for
    MaxTroubles   \* bound: requests, picks and writes that fail; all spent
                  \* on a board whose MAC is not read

ASSUME LorawanBounds ==
    /\ {MaxDialogs, MaxWrites, MaxPosts} \subseteq Nat \ {0}
    /\ MaxTroubles \in Nat
    /\ {"none", "torn", "esphome"} \cap Choices = {}

DialogKinds == {"flash", "esphome"}
Dialogs == 1 .. MaxDialogs
Writes == 1 .. MaxWrites
Posts == 1 .. MaxPosts
Throwaway == MaxPosts + 1     \* the keys of an offline test
Keys == 0 .. Throwaway        \* 0: none; a registration mints the key of its number

VARIABLES
    dlg,      \* the dialogs, with their refs, which outlive them
    write,    \* the runs of flashFirmware
    post,     \* POST /lorawan/provision and /provision-esphome; "met" is history:
              \* another registration, or another dialog's write, came meanwhile
    serial,   \* the write whose session has the port open; 0: closed
    dev,      \* the board: [image, keys, says, mac]
    srv,      \* the server's device: [key, session, codec]
    build,    \* the build server's: [job, key], of the last push
    trouble

lorawanVars == <<dlg, write, post, serial, dev, srv, build, trouble>>

Closed == [kind |-> "none", on |-> FALSE, phase |-> "idle", choice |-> "none",
           offline |-> FALSE, built |-> "none", session |-> 0,
           heard |-> {}, asked |-> FALSE, driver |-> [key |-> 0, to |-> 0, done |-> FALSE],
           wiped |-> FALSE, result |-> 0, pushed |-> "idle"]
NoDriver == Closed.driver

LorawanInit ==
    /\ dlg = [i \in Dialogs |-> Closed]
    /\ write = [n \in Writes |-> [by |-> 0, image |-> "none", full |-> FALSE, pc |-> "unused"]]
    /\ post = [p \in Posts |-> [by |-> 0, to |-> 0, of |-> "none", pc |-> "unused", met |-> FALSE]]
    /\ serial = 0
    /\ dev \in [image : {"none"}, keys : {0}, says : {"silent"}, mac : BOOLEAN]
    /\ srv = [key |-> 0, session |-> 0, codec |-> "none"]
    /\ build = [job |-> "none", key |-> 0]
    /\ trouble = IF dev.mac THEN 0 ELSE MaxTroubles

Troubles(ok) ==
    /\ ok \/ trouble < MaxTroubles
    /\ trouble' = IF ok THEN trouble ELSE trouble + 1
Alters(i, new) == dlg' = [dlg EXCEPT ![i] = new]
Phase(i, p) == dlg' = [dlg EXCEPT ![i].phase = p]

-----------------------------------------------------------------------------
(* Opening and closing.                                                    *)

OpenDialog(i, kind) ==
    /\ dlg[i] = Closed /\ \A j \in Dialogs : ~dlg[j].on /\ (j < i => dlg[j] # Closed)
    /\ \E c \in Choices :
          Alters(i, [Closed EXCEPT !.kind = kind, !.on = TRUE, !.choice = c,
                                   !.phase = IF kind = "flash" THEN "loading" ELSE "idle"])
    /\ UNCHANGED <<write, post, serial, dev, srv, build, trouble>>

\* The effects' cleanups: the session's port is released.
CloseDialog(i) ==
    /\ dlg[i].on
    /\ dlg' = [dlg EXCEPT ![i].on = FALSE]
    /\ serial' = IF dlg[i].session # 0 /\ serial = dlg[i].session THEN 0 ELSE serial
    /\ UNCHANGED <<write, post, dev, srv, build, trouble>>

BoardsListed(i, ok) ==
    /\ dlg[i].on /\ dlg[i].phase = "loading"
    /\ Troubles(ok)
    /\ Phase(i, IF ok THEN "idle" ELSE "error")
    /\ UNCHANGED <<write, post, serial, dev, srv, build>>

\* The pickers are there before and after a build, and disabled during it:
\* what they say is chosen when it is read.
Picks(i) == IF dlg[i].on /\ dlg[i].phase \in {"idle", "built"}
            THEN Choices ELSE {dlg[i].choice}

-----------------------------------------------------------------------------
(* LorawanFlashDialog: build and flash.                                    *)

\* handleBuild, to the end of its stream: the key of what was picked.
HandleBuild(i, c) ==
    /\ dlg[i].on /\ dlg[i].kind = "flash" /\ dlg[i].phase \in {"idle", "built", "error"}
    /\ c \in Picks(i)
    /\ Alters(i, [dlg[i] EXCEPT !.phase = "building", !.choice = c, !.built = c])
    /\ UNCHANGED <<write, post, serial, dev, srv, build, trouble>>

BuildAnswered(i, ok) ==
    /\ dlg[i].phase = "building" /\ Troubles(ok)
    /\ Phase(i, IF ok THEN "built" ELSE "error")
    /\ UNCHANGED <<write, post, serial, dev, srv, build>>

\* handleFlash clears what the last session left.
Cleared_KeepsAsked(d) == [d EXCEPT !.heard = {}, !.driver = NoDriver]
Cleared(d) == [d EXCEPT !.heard = {}, !.driver = NoDriver, !.asked = FALSE]

NextWrite(n) == write[n].pc = "unused" /\ \A m \in Writes : m < n => write[m].pc # "unused"

FlashBuilt(i, n, c, full, offline) ==
    /\ dlg[i].on /\ dlg[i].kind = "flash" /\ dlg[i].phase = "built" /\ NextWrite(n)
    /\ write' = [write EXCEPT ![n] = [by |-> i, image |-> dlg[i].built,
                                      full |-> full, pc |-> "ask"]]
    /\ c \in Picks(i)
    /\ Alters(i, [Cleared(dlg[i]) EXCEPT !.phase = "flashing", !.wiped = FALSE,
                                         !.choice = c, !.offline = offline])
    /\ UNCHANGED <<post, serial, dev, srv, build, trouble>>

WriteAt(n, pc) == write' = [write EXCEPT ![n].pc = pc]

\* The download and requestPort: refused, or the port is open already.
PickPort(n, ok) ==
    /\ write[n].pc = "ask" /\ Troubles(ok)
    /\ IF ok /\ serial = 0
       THEN WriteAt(n, "write") /\ serial' = n /\ UNCHANGED dlg
       ELSE WriteAt(n, "failed") /\ Phase(write[n].by, "error") /\ UNCHANGED serial
    /\ UNCHANGED <<post, dev, srv, build>>

\* A board without keys asks for them; one with keys joins if they are the
\* server's.  An ESPHome image brings its own.
Booted(keys) ==
    IF keys = 0 THEN "asks" ELSE IF keys = srv.key THEN "joined" ELSE "silent"
Joining(keys) ==
    IF keys # 0 /\ keys = srv.key THEN [srv EXCEPT !.session = keys] ELSE srv

InFlight(p) == post[p].pc \in {"sent", "served"}

\* The write and the reset.  An app-only write leaves NVS, and its keys.
WriteImage(n, ok) ==
    LET w == write[n]
        keys == IF w.image = "esphome" THEN build.key ELSE IF w.full THEN 0 ELSE dev.keys IN
    /\ w.pc = "write" /\ Troubles(ok)
    /\ IF ok
       THEN /\ dev' = [dev EXCEPT !.image = w.image, !.keys = keys, !.says = Booted(keys)]
            /\ srv' = Joining(keys) /\ WriteAt(n, "boot") /\ UNCHANGED dlg
       ELSE /\ dev' = [dev EXCEPT !.image = "torn", !.says = "silent"]
            /\ WriteAt(n, "failed") /\ Phase(write[n].by, "error") /\ UNCHANGED srv
    /\ post' = [p \in Posts |-> [post[p] EXCEPT !.met = @ \/ (InFlight(p) /\ post[p].by # w.by)]]
    /\ UNCHANGED <<serial, build>>

-----------------------------------------------------------------------------
(* The serial monitor and the provisioning it starts.                      *)

\* maybeTriggerProvision, once a session, and only when the session is there:
\* what the dialog d becomes, and the registration or codec it sends.
Prompted_Joined(d) == ~d.asked /\ d.session # 0 /\ d.heard # {}
Prompted(d) == ~d.asked /\ d.session # 0 /\ "asks" \in d.heard
Syncs(d) == ~d.asked /\ d.session # 0 /\ d.heard = {"joined"}
NextPost(p) == post[p].pc = "unused" /\ \A q \in Posts : q < p => post[q].pc # "unused"
Sends(p, i, to, of) ==
    post' = [q \in Posts |->
               IF q = p THEN [by |-> i, to |-> to, of |-> of, pc |-> "sent",
                              met |-> \E r \in Posts : InFlight(r)]
               ELSE IF InFlight(q) THEN [post[q] EXCEPT !.met = TRUE] ELSE post[q]]

Trigger(i, d) ==
    \/ /\ Prompted(d) /\ dev.mac /\ ~d.offline         \* autoProvision
       /\ \E p \in Posts : NextPost(p) /\ Sends(p, i, d.session, d.choice)
       /\ Alters(i, [d EXCEPT !.asked = TRUE]) /\ UNCHANGED srv
    \/ /\ Prompted(d) /\ dev.mac /\ d.offline
       /\ Alters(i, [d EXCEPT !.asked = TRUE,
                              !.driver = [key |-> Throwaway, to |-> d.session, done |-> FALSE]])
       /\ UNCHANGED <<post, srv>>
    \/ /\ Syncs(d) /\ dev.mac                         \* syncCodec
       /\ Alters(i, [d EXCEPT !.asked = TRUE])
       /\ srv' = [srv EXCEPT !.codec = d.choice] /\ UNCHANGED post
    \/ /\ Prompted(d) \/ Syncs(d)
       /\ ~dev.mac                                    \* answered by hand
       /\ Alters(i, [d EXCEPT !.asked = TRUE]) /\ UNCHANGED <<post, srv>>
    \/ /\ ~Prompted(d) /\ ~Syncs(d)
       /\ Alters(i, d) /\ UNCHANGED <<post, srv>>

\* A chunk of the board's output reaches the session's callback, which may
\* run before flashFirmware has returned.
Chunk(n) ==
    LET i == write[n].by IN
    /\ serial = n /\ write[n].pc \in {"boot", "done"} /\ dlg[i].kind = "flash"
    /\ dev.says # "silent" /\ dev.says \notin dlg[i].heard
    /\ Trigger(i, [dlg[i] EXCEPT !.heard = @ \union {dev.says}])
    /\ UNCHANGED <<write, serial, dev, build, trouble>>

\* flashFirmware returns; the prompt may have landed already.
WriteReturns(n) ==
    LET i == write[n].by IN
    /\ write[n].pc = "boot" /\ WriteAt(n, "done")
    /\ IF dlg[i].kind = "flash"
       THEN Trigger(i, [dlg[i] EXCEPT !.session = n, !.phase = "monitoring"])
       ELSE Alters(i, [dlg[i] EXCEPT !.session = n, !.phase = "flashed"]) /\ UNCHANGED <<post, srv>>
    /\ UNCHANGED <<serial, dev, build, trouble>>

\* provision_device: a fresh key replaces the device's, and for the flash
\* dialog the design's codec the profile's.
PostServed(p, ok) ==
    /\ post[p].pc = "sent" /\ Troubles(ok)
    /\ post' = [post EXCEPT ![p].pc = IF ok THEN "served" ELSE "failed"]
    /\ srv' = IF ~ok THEN srv
              ELSE [srv EXCEPT !.key = p, !.codec = IF post[p].to = 0 THEN @ ELSE post[p].of]
    /\ UNCHANGED <<dlg, write, serial, dev, build>>

\* The answer makes the driver, fed with all that was heard; then the codec
\* is set, of the design picked by now.
PostAnswered(p) ==
    LET i == post[p].by IN
    /\ post[p].pc = "served" /\ post' = [post EXCEPT ![p].pc = "done"]
    /\ IF dlg[i].kind = "flash"
       THEN /\ Alters(i, [dlg[i] EXCEPT !.driver = [key |-> p, to |-> post[p].to, done |-> FALSE]])
            /\ \E c \in Picks(i) : srv' = [srv EXCEPT !.codec = c]
       ELSE Alters(i, [dlg[i] EXCEPT !.result = p]) /\ UNCHANGED srv
    /\ UNCHANGED <<write, serial, dev, build, trouble>>

\* The driver answers the prompts over its session, and the board joins.
DriverAnswers(i) ==
    LET d == dlg[i].driver IN
    /\ d.key # 0 /\ ~d.done /\ serial = d.to
    /\ dev.says = "asks" /\ "asks" \in dlg[i].heard
    /\ dlg' = [dlg EXCEPT ![i].driver.done = TRUE]
    /\ dev' = [dev EXCEPT !.keys = d.key, !.says = Booted(d.key)]
    /\ srv' = Joining(d.key)
    /\ UNCHANGED <<write, post, serial, build, trouble>>

HandleStop(i) ==
    /\ dlg[i].on /\ dlg[i].phase = "monitoring"
    /\ serial' = IF serial = dlg[i].session THEN 0 ELSE serial
    /\ Alters(i, [dlg[i] EXCEPT !.session = 0, !.phase = "built", !.offline = FALSE])
    /\ UNCHANGED <<write, post, dev, srv, build, trouble>>

\* "wipe" reaches a firmware that is past its prompts: it clears and reboots.
HandleWipe(i) ==
    /\ dlg[i].on /\ dlg[i].phase = "monitoring" /\ serial = dlg[i].session
    /\ dev.keys # 0 /\ ~dlg[i].wiped
    /\ dev' = [dev EXCEPT !.keys = 0, !.says = "asks"]
    /\ Alters(i, [dlg[i] EXCEPT !.wiped = TRUE])
    /\ UNCHANGED <<write, post, serial, srv, build, trouble>>

-----------------------------------------------------------------------------
(* LorawanProvisionEsphomeDialog.                                          *)

HandleProvision(i, p) ==
    /\ dlg[i].on /\ dlg[i].kind = "esphome" /\ dlg[i].result = 0
    /\ ~\E q \in Posts : InFlight(q) /\ post[q].by = i
    /\ NextPost(p) /\ Sends(p, i, 0, dlg[i].choice)
    /\ UNCHANGED <<dlg, write, serial, dev, srv, build, trouble>>

\* handlePushToFleet, with the result's keys in the YAML; it starts a build.
PushKeys(i) ==
    /\ dlg[i].on /\ dlg[i].result # 0 /\ dlg[i].pushed \in {"idle", "error"}
    /\ dlg' = [dlg EXCEPT ![i].pushed = "pushing"]
    /\ UNCHANGED <<write, post, serial, dev, srv, build, trouble>>

PushServed(i, ok) ==
    /\ dlg[i].pushed = "pushing" /\ Troubles(ok)
    /\ dlg' = [dlg EXCEPT ![i].pushed = IF ok THEN "pushed" ELSE "error"]
    /\ build' = IF ok THEN [job |-> "running", key |-> dlg[i].result] ELSE build
    /\ UNCHANGED <<write, post, serial, dev, srv>>

BuildEnds(ok) ==
    /\ build.job = "running" /\ Troubles(ok)
    /\ build' = [build EXCEPT !.job = IF ok THEN "passed" ELSE "failed"]
    /\ UNCHANGED <<dlg, write, post, serial, dev, srv>>

\* handleFlash waits for the build's verdict, whether or not the dialog is
\* still open, then flashes what the build server has.
WaitForBuild(i) ==
    /\ dlg[i].on /\ dlg[i].kind = "esphome" /\ dlg[i].pushed = "pushed"
    /\ dlg[i].phase \in {"idle", "error"}
    /\ Phase(i, "waiting")
    /\ UNCHANGED <<write, post, serial, dev, srv, build, trouble>>

BuildSeen(i, n) ==
    /\ dlg[i].phase = "waiting" /\ build.job \in {"passed", "failed"}
    /\ IF build.job = "failed" THEN Phase(i, "error") /\ UNCHANGED write
       ELSE /\ NextWrite(n) /\ Phase(i, "flashing")
            /\ write' = [write EXCEPT ![n] = [by |-> i, image |-> "esphome",
                                              full |-> TRUE, pc |-> "ask"]]
    /\ UNCHANGED <<post, serial, dev, srv, build, trouble>>

\* What the poll of /lorawan/activation shows, and where it stops: any
\* session the server has for the device.
Joined(i) == dlg[i].on /\ dlg[i].result # 0 /\ srv.session # 0

LorawanNext ==
    \/ \E i \in Dialogs, k \in DialogKinds : OpenDialog(i, k)
    \/ \E i \in Dialogs : CloseDialog(i) \/ DriverAnswers(i) \/ HandleStop(i)
                            \/ HandleWipe(i) \/ PushKeys(i) \/ WaitForBuild(i)
    \/ \E i \in Dialogs, c \in Choices : HandleBuild(i, c)
    \/ \E i \in Dialogs, ok \in BOOLEAN :
          BoardsListed(i, ok) \/ BuildAnswered(i, ok) \/ PushServed(i, ok)
    \/ \E i \in Dialogs, n \in Writes, c \in Choices, full, offline \in BOOLEAN :
          FlashBuilt(i, n, c, full, offline)
    \/ \E i \in Dialogs, n \in Writes : BuildSeen(i, n)
    \/ \E n \in Writes, ok \in BOOLEAN : PickPort(n, ok) \/ WriteImage(n, ok)
    \/ \E n \in Writes : Chunk(n) \/ WriteReturns(n)
    \/ \E i \in Dialogs, p \in Posts : HandleProvision(i, p)
    \/ \E p \in Posts : PostAnswered(p)
    \/ \E p \in Posts, ok \in BOOLEAN : PostServed(p, ok)
    \/ \E ok \in BOOLEAN : BuildEnds(ok)

LorawanSpec == LorawanInit /\ [][LorawanNext]_lorawanVars

-----------------------------------------------------------------------------
\* A registration the flash dialog starts by itself never replaces keys the
\* board lives by: it registers only a board that asked, and the server has
\* it before the board can have got others.  Unless two registrations were in
\* flight at once ("re-provisioning then would re-key ChirpStack and break
\* that join", LorawanFlashDialog.tsx:222-225).
NeverRekeys ==
    [][\A p \in Posts :
         post[p].pc = "sent" /\ post'[p].pc = "served" /\ post[p].to # 0 /\ ~post[p].met =>
             dev.keys \in {0, Throwaway} \/ dev.keys # srv.key]_lorawanVars

\* A board that asks for keys while its session is on screen is being served:
\* its registration is in flight, its driver is about to answer, or the dialog
\* was told why not: no MAC, a failure, a wipe after the one prompt it answers,
\* or the late answer of an earlier session.
Asking(i) ==
    /\ dlg[i].on /\ dlg[i].phase = "monitoring" /\ serial = dlg[i].session
    /\ dev.says = "asks" /\ "asks" \in dlg[i].heard /\ dev.mac /\ ~dlg[i].wiped
PromptServed ==
    \A i \in Dialogs :
        Asking(i) =>
            \/ dlg[i].driver.to = dlg[i].session /\ ~dlg[i].driver.done
            \/ \E p \in Posts : post[p].to = dlg[i].session /\ (InFlight(p) \/ post[p].pc = "failed")
            \/ dlg[i].driver.to \notin {0, dlg[i].session}

\* The image a dialog flashed after its push carries the keys of its own
\* registration, and joins with them if they are still the server's: when no
\* other dialog's push crosses it.
PushedAlone(i) ==
    /\ dlg[i].kind = "esphome" /\ dlg[i].on
    /\ \A j \in Dialogs \ {i} : dlg[j].pushed = "idle"
FlashedHasItsKeys ==
    \A i \in Dialogs, n \in Writes :
        write[n].by = i /\ write[n].pc \in {"boot", "done"} /\ PushedAlone(i) =>
            dev.keys = dlg[i].result /\ (srv.key = dev.keys => srv.session = dev.keys)

LorawanTypeOK ==
    /\ \A i \in Dialogs : dlg[i].kind \in DialogKinds \union {"none"} /\ dlg[i].session \in Writes \union {0}
    /\ serial \in Writes \union {0} /\ dev.keys \in Keys /\ srv.key \in Posts \union {0}
    /\ srv.codec \in Choices \union {"none"} /\ trouble <= MaxTroubles

DialogsSound == LorawanTypeOK /\ PromptServed /\ FlashedHasItsKeys

-----------------------------------------------------------------------------
\* What the dialogs' words promise and TLC refutes; see the README.

\* "Clear stored LoRaWAN keys and reboot to re-provision".
WipeReprovisions ==
    [][\A i \in Dialogs : dlg[i].wiped /\ dlg[i].phase = "monitoring" /\ dlg'[i].phase = "built" =>
         dev.says # "asks" \/ "asks" \notin dlg[i].heard]_lorawanVars

\* "Re-flash without this for real use": the app-only write keeps the keys.
ThrowawayReplaced ==
    \A i \in Dialogs : dlg[i].phase = "monitoring" /\ ~dlg[i].offline => dev.keys # Throwaway

\* Uplinks decode in ChirpStack: the codec is that of the firmware flashed.
CodecOfTheFirmware ==
    \A p \in Posts : post[p].pc = "done" /\ post[p].to # 0 /\ ~post[p].met /\ srv.key = p /\ dev.keys = p
        => srv.codec = dev.image

\* "joined": with the keys of now.
JoinedWithTheKeys == \A i \in Dialogs : Joined(i) => srv.session = dlg[i].result

\* A board that took a registration's keys has the server's.
TakenKeysAreTheServers == dev.keys \in Posts /\ dev.keys # srv.key => FALSE
=============================================================================
