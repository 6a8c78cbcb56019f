---------------------------- MODULE Provisioning ----------------------------
(***************************************************************************)
(* Bringing up LoRaWAN boards on a workbench: the calls that flash a slot, *)
(* register the board with ChirpStack, type its keys into its serial       *)
(* prompt and verify that it joined (targets/lorawan/workbench_provision,  *)
(* targets/lorawan/chirpstack, workbench/client, workbench/serial), the    *)
(* nightly gate that follows with an uplink (workbench/lorawan_gate) and   *)
(* the calls that only register (mcp/hardware, targets/lorawan/api).       *)
(* The bench, the boards and the server are outside src/: they are here as *)
(* the code uses them.                                                     *)
(***************************************************************************)
EXTENDS Payloads

CONSTANTS
    Slots, Boards, Calls,
    Designs,      \* id -> design: see Payloads
    None,
    MaxFaults,    \* bound: failed requests, flashes and joins
    MaxNonce      \* bound: joins a board attempts before it is erased

Kinds == {"bench", "gate", "typed", "esphome"}

VARIABLES
    slot,       \* the bench: [board, job, reader]
    board,      \* the hardware: [image, key, session, nonce]
    sdev,       \* the server's devices, by DevEUI, which is the board's
    sprof,      \* the server's profiles: name -> [codec]
    sapps,      \* the server's applications, in the order it lists them
    call,       \* the calls; "met" is history: another call worked on the
                \* same slot or board meanwhile
    faults

provisionVars == <<slot, board, sdev, sprof, sapps, call, faults>>

\* An image: of a design, torn by a flash that failed, or none.
Torn == "torn"
Blank == [image |-> None, key |-> None, session |-> None, nonce |-> 0]
FreeSlot(b) == [board |-> b, job |-> None, reader |-> None]

EsphomeProfile == [board |-> "esphome", tags |-> {}]
ProfileOf == [d \in DOMAIN Designs |-> ProfileName(Designs[d])]
ProfileFor(kind, d) == IF kind = "esphome" THEN EsphomeProfile ELSE ProfileOf[d]
AppFor(kind) == IF kind = "esphome" THEN "wirestudio-esphome" ELSE "wirestudio"
Profiles == {ProfileFor(k, d) : k \in Kinds, d \in DOMAIN Designs}
LayoutOf == [d \in DOMAIN Designs |-> FieldsFor(Designs[d])]
\* The designs firmware is built from, and those a codec is generated from.
Firmwares == {d \in DOMAIN Designs : Buildable(Designs[d])}
Layouts == {d \in DOMAIN Designs : ~Collides(Designs[d])}
CodecOf(d) == [of |-> d, fields |-> LayoutOf[d]]

\* A device of the server's: its nonces used, its session and that one's uplinks.
Sessions == [key : Calls, up : {0, 1}]
Devices == [app : Nat, profile : Profiles, slot : Slots \union {None},
            key : Calls \union {None}, used : SUBSET Nat, session : Sessions \union {None}]

ASSUME ProvisionAssumption ==
    /\ None \notin Slots \union Boards \union Calls \union DOMAIN Designs \union Devices
    /\ None # "refused" /\ "torn" \notin DOMAIN Designs

Resting == [pc |-> "idle", kind |-> None, slot |-> None, board |-> None, design |-> None,
            erase |-> TRUE, app |-> 0, met |-> FALSE, why |-> None]

ProvisionInit ==
    /\ \E seat \in [Slots -> Boards \union {None}] :
          /\ \A b \in Boards : \E s \in Slots : seat[s] = b
          /\ \A s, t \in Slots : seat[s] = seat[t] => s = t \/ seat[s] = None
          /\ slot = [s \in Slots |-> FreeSlot(seat[s])]
    /\ board = [b \in Boards |-> Blank]
    /\ sdev = [b \in Boards |-> None]
    /\ sprof = [p \in Profiles |-> None]
    /\ sapps = <<>>
    /\ call = [c \in Calls |-> Resting]
    /\ faults = 0

Ended == {"idle", "done", "failed", "handed"}
Working(c) == call[c].pc \notin Ended
Go(c, pc) == call' = [call EXCEPT ![c].pc = pc]
Fails(c, why) == call' = [call EXCEPT ![c] = [Resting EXCEPT !.pc = "failed", !.why = why]]
Finishes(c) == call' = [call EXCEPT ![c] = [Resting EXCEPT !.pc = "done"]]

-----------------------------------------------------------------------------
(* The bench and the boards.                                               *)

\* Slot.flashable: a board is there and nothing is going on.
Flashable(s) == slot[s].board # None /\ slot[s].job = None /\ slot[s].reader = None

\* The operator moves a board to another slot, or swaps two: of slots
\* nobody uses.
Swap(s, t) ==
    /\ s # t /\ slot[s].board # None
    /\ \A u \in {s, t} : slot[u].job = None /\ slot[u].reader = None
    /\ \A c \in Calls : Working(c) => call[c].slot \notin {s, t}
    /\ faults < MaxFaults /\ faults' = faults + 1
    /\ slot' = [slot EXCEPT ![s].board = slot[t].board, ![t].board = slot[s].board]
    /\ UNCHANGED <<board, sdev, sprof, sapps, call>>

\* A join request: heard or not, answered when the key is the server's and
\* the nonce has not been used.
Heard(b, key) ==
    /\ sdev[b] # None /\ sdev[b].key = key
    /\ board[b].nonce \notin sdev[b].used

Joins(b, key) ==
    /\ board' = [board EXCEPT ![b].key = key, ![b].session = key, ![b].nonce = @ + 1]
    /\ sdev' = [sdev EXCEPT ![b].used = @ \union {board[b].nonce},
                            ![b].session = [key |-> key, up |-> 0]]

\* A joined board counts its uplinks; one that is not tries again.
Uplink(b) ==
    /\ board[b].session # None /\ sdev[b] # None /\ sdev[b].session # None
    /\ sdev[b].session.key = board[b].session /\ sdev[b].session.up = 0
    /\ sdev' = [sdev EXCEPT ![b].session.up = 1]
    /\ UNCHANGED <<slot, board, sprof, sapps, call, faults>>

Rejoin(b) ==
    /\ board[b].image \in DOMAIN Designs /\ board[b].key # None /\ board[b].session = None
    /\ board[b].nonce < MaxNonce
    /\ \/ Heard(b, board[b].key) /\ Joins(b, board[b].key)
       \/ board' = [board EXCEPT ![b].nonce = @ + 1] /\ UNCHANGED sdev
    /\ UNCHANGED <<slot, sprof, sapps, call, faults>>

-----------------------------------------------------------------------------
(* A call that brings up a slot: flash, register, provision, verify.       *)

\* Starts c with its slot and board, noting the calls it meets there.
Starts(c, new) ==
    LET others == {e \in Calls \ {c} : /\ Working(e)
                                       /\ \/ call[e].board = new.board
                                          \/ new.slot # None /\ call[e].slot = new.slot}
    IN call' = [e \in Calls |->
                  CASE e = c -> [new EXCEPT !.met = others # {}]
                    [] e \in others -> [call[e] EXCEPT !.met = TRUE]
                    [] OTHER -> call[e]]

\* The checks before the stream opens or the job starts: 409 on a busy slot.
Begin(c, kind, s, d, erase) ==
    /\ call[c].pc = "idle" /\ kind \in {"bench", "gate"}
    /\ kind = "gate" => erase
    /\ Flashable(s)
    /\ Starts(c, [Resting EXCEPT !.pc = "flash", !.kind = kind, !.slot = s,
                                 !.board = slot[s].board, !.design = d, !.erase = erase])
    /\ UNCHANGED <<slot, board, sdev, sprof, sapps, faults>>

\* flash asks again, then posts the images: the bench takes one job a slot.
Flash(c) ==
    /\ call[c].pc = "flash"
    /\ LET s == call[c].slot IN
         IF Flashable(s)
         THEN /\ slot' = [slot EXCEPT ![s].job = [design |-> call[c].design,
                                                  erase |-> call[c].erase, by |-> c]]
              /\ Go(c, "flashing")
         ELSE /\ Fails(c, "busy") /\ UNCHANGED slot
    /\ UNCHANGED <<board, sdev, sprof, sapps, faults>>

\* A full erase empties NVS, keys, session and nonce counter with it.
Written(b, image, erase) ==
    board' = [board EXCEPT ![b] = IF erase THEN [Blank EXCEPT !.image = image]
                                  ELSE [@ EXCEPT !.image = image]]

\* esptool ends, whether or not its caller still waits.  Its log names the
\* MAC, and so the DevEUI: the board that is in the slot.
BenchEnds(s, good) ==
    /\ slot[s].job # None
    /\ good \/ faults < MaxFaults
    /\ faults' = IF good THEN faults ELSE faults + 1
    /\ LET job == slot[s].job IN
         /\ Written(slot[s].board, IF good THEN job.design ELSE Torn, job.erase)
         /\ IF call[job.by].pc # "flashing" THEN UNCHANGED call
            ELSE IF good THEN Go(job.by, "app") ELSE Fails(job.by, "flash")
    /\ slot' = [slot EXCEPT ![s].job = None]
    /\ UNCHANGED <<sdev, sprof, sapps>>

-----------------------------------------------------------------------------
(* provision_device: six requests to the server, each of which may fail.   *)

\* Calls that only register a board's DevEUI, and hand out its key.
Register(c, kind, b, d) ==
    /\ call[c].pc = "idle" /\ kind \in {"typed", "esphome"}
    /\ Starts(c, [Resting EXCEPT !.pc = "app", !.kind = kind, !.board = b, !.design = d])
    /\ UNCHANGED <<slot, board, sdev, sprof, sapps, faults>>

\* ensure_application: the first of that name in the list, or a new one.
\* The list and the creation are two requests, and names are not unique.
ListApps(c) ==
    /\ call[c].pc = "app"
    /\ LET at == {i \in DOMAIN sapps : sapps[i] = AppFor(call[c].kind)} IN
         \/ at = {} /\ Go(c, "newapp")
         \/ \E i \in at : /\ \A j \in at : i <= j
                         /\ call' = [call EXCEPT ![c].pc = "profile", ![c].app = i]
    /\ UNCHANGED <<slot, board, sdev, sprof, sapps, faults>>

CreateApp(c) ==
    /\ call[c].pc = "newapp"
    /\ sapps' = Append(sapps, AppFor(call[c].kind))
    /\ call' = [call EXCEPT ![c].pc = "profile", ![c].app = Len(sapps) + 1]
    /\ UNCHANGED <<slot, board, sdev, sprof, faults>>

\* ensure_device_profile: find it by name, or create it; a codec that is
\* given replaces the one it had.  The ESPHome path gives none.
EnsureProfile(c) ==
    /\ call[c].pc = "profile"
    /\ LET p == ProfileFor(call[c].kind, call[c].design)
           codec == IF call[c].kind = "esphome" THEN None ELSE CodecOf(call[c].design) IN
         sprof' = [sprof EXCEPT ![p] = IF @ # None /\ codec = None THEN @
                                       ELSE [codec |-> codec]]
    /\ Go(c, "device")
    /\ UNCHANGED <<slot, board, sdev, sapps, faults>>

\* create_device: a new device, or the one there is, if it is of the same
\* application: pointed at the profile of now, its other tags kept.
Repointed_TagsOnly(dev, p, s) == [dev EXCEPT !.slot = IF s = None THEN @ ELSE s]
Repointed(dev, p, s) == [dev EXCEPT !.profile = p, !.slot = IF s = None THEN @ ELSE s]

CreateDevice(c) ==
    LET b == call[c].board
        p == ProfileFor(call[c].kind, call[c].design) IN
    /\ call[c].pc = "device"
    /\ \/ /\ sdev[b] = None
          /\ sdev' = [sdev EXCEPT ![b] = [app |-> call[c].app, profile |-> p,
                          slot |-> call[c].slot, key |-> None,
                          used |-> {}, session |-> None]]
          /\ Go(c, "keys")
       \/ /\ sdev[b] # None /\ sdev[b].app = call[c].app
          /\ sdev' = [sdev EXCEPT ![b] = Repointed(@, p, call[c].slot)]
          /\ Go(c, "keys")
       \/ /\ sdev[b] # None /\ sdev[b].app # call[c].app
          /\ Fails(c, "elsewhere")
          /\ UNCHANGED sdev
    /\ UNCHANGED <<slot, board, sprof, sapps, faults>>

\* set_device_keys creates the key or replaces it.  A call has one fresh key,
\* so a key is named by its call.
SetKeys(c) ==
    /\ call[c].pc = "keys"
    /\ sdev' = [sdev EXCEPT ![call[c].board].key = c]
    /\ Go(c, "nonces")
    /\ UNCHANGED <<slot, board, sprof, sapps, faults>>

UsedAfterFlush(used) == {}
FlushNonces(c) ==
    /\ call[c].pc = "nonces"
    /\ sdev' = [sdev EXCEPT ![call[c].board].used = UsedAfterFlush(@)]
    /\ Go(c, IF call[c].kind \in {"bench", "gate"} THEN "serial" ELSE "handed")
    /\ UNCHANGED <<slot, board, sprof, sapps, faults>>

\* A request that fails, or is not answered, ends the call where it stands.
RequestFails(c) ==
    /\ call[c].pc \in {"app", "newapp", "profile", "device", "keys", "nonces", "verify"}
    /\ faults < MaxFaults /\ faults' = faults + 1
    /\ Fails(c, "server")
    /\ UNCHANGED <<slot, board, sdev, sprof, sapps>>

\* The client's flash timeout: the call ends, the bench goes on.
FlashTimesOut(c) ==
    /\ call[c].pc = "flashing"
    /\ faults < MaxFaults /\ faults' = faults + 1
    /\ Fails(c, "timeout")
    /\ UNCHANGED <<slot, board, sdev, sprof, sapps>>

-----------------------------------------------------------------------------
(* The serial prompt and the verdict.                                      *)

\* The port has one reader, and none while the slot is being flashed.
OpenSerial(c) ==
    /\ call[c].pc = "serial"
    /\ LET s == call[c].slot IN
         IF slot[s].reader = None
         THEN /\ slot' = [slot EXCEPT ![s].reader = c] /\ Go(c, "dialogue")
         ELSE /\ Fails(c, "port") /\ UNCHANGED slot
    /\ UNCHANGED <<board, sdev, sprof, sapps, faults>>

Closed(c) == slot' = [slot EXCEPT ![call[c].slot].reader = None]

\* A board without keys asks for them, takes the call's and joins: it says
\* whether it did.  One that has keys joins with those, or restores its session.
Prompting(b) == board[b].image \in DOMAIN Designs /\ board[b].key = None
Verdict(joined) == joined

Dialogue(c) ==
    LET b == slot[call[c].slot].board
        key == IF Prompting(b) THEN c ELSE board[b].key IN
    /\ call[c].pc = "dialogue" /\ slot[call[c].slot].job = None
    /\ board[b].image \in DOMAIN Designs
    /\ \/ /\ board[b].session # None           \* restored: nothing is sent
          /\ Go(c, "verify") /\ UNCHANGED <<board, sdev, faults>>
       \/ /\ board[b].session = None /\ Heard(b, key)
          /\ Joins(b, key) /\ Go(c, "verify") /\ UNCHANGED faults
       \/ /\ board[b].session = None /\ ~Heard(b, key) /\ board[b].nonce < MaxNonce
          /\ board' = [board EXCEPT ![b].key = key, ![b].nonce = @ + 1]
          /\ IF Verdict(FALSE) THEN Go(c, "verify") ELSE Fails(c, "refused")
          /\ UNCHANGED <<sdev, faults>>
       \/ /\ board[b].session = None /\ faults < MaxFaults   \* no gateway in range
          /\ faults' = faults + 1
          /\ board' = [board EXCEPT ![b].key = key]
          /\ IF Verdict(FALSE) THEN Go(c, "verify") ELSE Fails(c, "unheard")
          /\ UNCHANGED sdev
    /\ Closed(c)
    /\ UNCHANGED <<sprof, sapps>>

\* The dialogue's deadline: a board that says nothing, or is being flashed.
SerialTimesOut_Never(c) == FALSE
SerialTimesOut(c) ==
    /\ call[c].pc = "dialogue"
    /\ Closed(c) /\ Fails(c, "silent")
    /\ UNCHANGED <<board, sdev, sprof, sapps, faults>>

\* JOINED is the board's word; the server's activation has to agree.
Verify(c) ==
    /\ call[c].pc = "verify"
    /\ IF sdev[call[c].board] # None /\ sdev[call[c].board].session # None
       THEN IF call[c].kind = "gate" THEN Go(c, "uplink") ELSE Finishes(c)
       ELSE Fails(c, "inactive")
    /\ UNCHANGED <<slot, board, sdev, sprof, sapps, faults>>

\* The gate waits for the server to count a frame of the session.
CountUplinks(c) ==
    /\ call[c].pc = "uplink"
    /\ \/ sdev[call[c].board].session.up >= 1 /\ Finishes(c)
       \/ sdev[call[c].board].session.up = 0 /\ Fails(c, "no uplink")
    /\ UNCHANGED <<slot, board, sdev, sprof, sapps, faults>>

\* Keys a registering call handed out, typed into a board that asks.
TypeKeys(c) ==
    LET b == call[c].board IN
    /\ call[c].pc = "handed" /\ call[c].kind = "typed" /\ Prompting(b)
    /\ \/ Heard(b, c) /\ Joins(b, c)
       \/ ~Heard(b, c) /\ board' = [board EXCEPT ![b].key = c, ![b].nonce = 1] /\ UNCHANGED sdev
    /\ call' = [e \in Calls |->
                  CASE e = c -> [Resting EXCEPT !.pc = "done"]
                    [] e # c /\ Working(e) /\ call[e].board = b -> [call[e] EXCEPT !.met = TRUE]
                    [] OTHER -> call[e]]
    /\ UNCHANGED <<slot, sprof, sapps, faults>>

\* POST /codec: a design's codec on the profile the device is on.
SetCodec(b, d) ==
    /\ sdev[b] # None /\ sprof[sdev[b].profile] # None
    /\ faults < MaxFaults /\ faults' = faults + 1
    /\ sprof' = [sprof EXCEPT ![sdev[b].profile] = [codec |-> CodecOf(d)]]
    /\ UNCHANGED <<slot, board, sdev, sapps, call>>

Provision(c) == ListApps(c) \/ CreateApp(c) \/ EnsureProfile(c) \/ CreateDevice(c)
                  \/ SetKeys(c) \/ FlushNonces(c)
CallStep(c) == Flash(c) \/ Provision(c) \/ OpenSerial(c) \/ Dialogue(c) \/ SerialTimesOut(c)
                 \/ Verify(c) \/ CountUplinks(c)

ProvisionNext ==
    \/ \E c \in Calls, k \in Kinds, s \in Slots, d \in Firmwares, e \in BOOLEAN :
          Begin(c, k, s, d, e)
    \/ \E c \in Calls, k \in Kinds, b \in Boards, d \in Layouts : Register(c, k, b, d)
    \/ \E c \in Calls : CallStep(c) \/ RequestFails(c) \/ FlashTimesOut(c) \/ TypeKeys(c)
    \/ \E s \in Slots, good \in BOOLEAN : BenchEnds(s, good)
    \/ \E s, t \in Slots : Swap(s, t)
    \/ \E b \in Boards : Uplink(b) \/ Rejoin(b)
    \/ \E b \in Boards, d \in Layouts : SetCodec(b, d)

\* Requests are answered, deadlines pass and esptool ends.
ProvisionFairness ==
    /\ \A c \in Calls : WF_provisionVars(CallStep(c))
    /\ \A s \in Slots : WF_provisionVars(BenchEnds(s, TRUE))

ProvisionSpec == ProvisionInit /\ [][ProvisionNext]_provisionVars /\ ProvisionFairness

-----------------------------------------------------------------------------
ProvisionTypeOK ==
    /\ \A s \in Slots : slot[s].board \in Boards \union {None} /\ slot[s].reader \in Calls \union {None}
    /\ \A s \in Slots : slot[s].reader # None => call[slot[s].reader].pc = "dialogue"
    /\ \A b \in Boards : board[b].image \in DOMAIN Designs \union {None, Torn}
    /\ \A b \in Boards : sdev[b] # None => sdev[b].key \in Calls \union {None}
    /\ \A c \in Calls : call[c].pc \notin Ended => call[c].kind \in Kinds

\* A bring-up with erase that met no other call on its way ends with the
\* truth: the board in its slot runs its design, board and server have the
\* call's key, the session is of that key, and the server's device carries
\* the slot and the profile of the call, whatever half-done call came before.
Consistent(c) ==
    LET b == call[c].board IN
    /\ slot[call[c].slot].board = b
    /\ board[b].image = call[c].design
    /\ board[b].key = c /\ sdev[b].key = c /\ sdev[b].session.key = c
    /\ sdev[b].slot = call[c].slot
    /\ sdev[b].profile = ProfileOf[call[c].design]
Alone(c) == call[c].erase /\ ~call[c].met
DoneIsTrue ==
    [][\A c \in Calls :
         call[c].pc \in {"verify", "uplink"} /\ call'[c].pc = "done" /\ Alone(c) =>
             Consistent(c)]_provisionVars

\* A board that was erased starts its nonces anew; the flush that follows the
\* flash makes the server forget the old ones.  Such a call may fail for want
\* of a gateway, but its join is never refused (workbench_provision.py:16-20).
NoReplay ==
    [][\A c \in Calls :
         call[c].pc = "dialogue" /\ call'[c].why = "refused" => ~Alone(c)]_provisionVars

\* A call that has the board to itself answers truly and is let in.
AloneIsServed == DoneIsTrue /\ NoReplay

\* A device's codec, generated from the design its board runs, reads back
\* what the firmware of that design packs, field by field.
Samples(fs) ==
    { [i \in DOMAIN fs |-> pick[IF fs[i].signed THEN "s" ELSE "u"][fs[i].bytes]] :
        pick \in { [s |-> [n \in 1 .. 4 |-> 0],             u |-> [n \in 1 .. 4 |-> 0]],
                   [s |-> [n \in 1 .. 4 |-> 0 - 1],         u |-> [n \in 1 .. 4 |-> Base^n - 1]],
                   [s |-> [n \in 1 .. 4 |-> 0 - Base^n \div 2], u |-> [n \in 1 .. 4 |-> Base^n \div 2]],
                   [s |-> [n \in 1 .. 4 |-> Base^n \div 2 - 1], u |-> [n \in 1 .. 4 |-> 1]] } }
CodecReadsPayload ==
    \A b \in Boards :
        sdev[b] # None /\ board[b].image \in DOMAIN Designs =>
            LET p == sprof[sdev[b].profile] IN
            p # None /\ p.codec # None /\ p.codec.of = board[b].image =>
                LET fs == LayoutOf[board[b].image] IN
                \A v \in Samples(fs) : DecodeJs(p.codec.fields, PackCpp(fs, v)) = v

\* The type invariant, and every codec reads its own firmware's uplinks.
BenchSound == ProvisionTypeOK /\ CodecReadsPayload

\* Every call ends: with its verdict, or because a deadline passed.
CallEnds == \A c \in Calls : Working(c) ~> ~Working(c)

-----------------------------------------------------------------------------
\* What the code's words promise and TLC refutes; see the README.

\* "Distinct payloads get distinct profiles, so each carries its own codec
\* without clobbering another device type's" (codec.py:328-330).
CodecsStayApart ==
    [][\A c \in Calls, p \in Profiles :
         EnsureProfile(c) /\ sprof[p] # None /\ sprof'[p] # sprof[p] =>
             sprof'[p].codec.fields = sprof[p].codec.fields]_provisionVars

\* "tags are merged ... reprovisioning a board onto another slot moves the
\* tag with it" holds; but a name may come to stand for two applications, and
\* then a board of the second cannot be provisioned again ("Full (re)provision").
ProvisionsAgain ==
    \A c \in Calls : call[c].why = "elsewhere" => "wirestudio-esphome" \in Range(sapps)

\* Without the erase: done although the server's key is not the board's.
DoneKeysAgree ==
    [][\A c \in Calls :
         call[c].pc = "verify" /\ call'[c].pc = "done" /\ ~call[c].met =>
             sdev[call[c].board].key = board[call[c].board].key]_provisionVars

=============================================================================
