----------------------------- MODULE BuildCache -----------------------------
(***************************************************************************)
(* The three toolchains the studio runs as a subprocess, each with a cache *)
(* addressed by what it builds: Freerouting (kicad/route.py), PlatformIO   *)
(* for the LoRaWAN firmware (targets/lorawan/compile.py) and PlatformIO    *)
(* for WLED (targets/wled_build.py).  The three generators share their     *)
(* shape: look in the slot, prepare a directory, run the tool under a      *)
(* watchdog while the caller drains its output, then keep the log and, if  *)
(* the build is good, the artefact.                                        *)
(***************************************************************************)
EXTENDS Naturals, FiniteSets

CONSTANTS
    Builders,    \* calls of the generator: threads, processes
    Keys,        \* what is built (the slots' names)
    None,
    MaxStarts,   \* bound: builds begun
    MaxCrashes   \* bound: restarts of the pod

ASSUME CacheAssumption ==
    /\ None \notin Keys \union Builders \union Nat
    /\ {None, "torn", "partial"} \intersect Keys = {}
    /\ None \notin {"torn", "partial", "running", "writing", "zero", "failed", "killed"}
    /\ MaxStarts \in Nat /\ MaxCrashes \in Nat

Tools == {"route", "lorawan", "wled"}
Checkout == "checkout"

\* What a file can hold: nothing, a torn write, part of the tracks of a board
\* (a router killed while it saved), or the whole artefact of a key.
Content == {None, "torn", "partial"} \union Keys

VARIABLES
    tool,        \* the toolchain of this behaviour
    slot,        \* the cache: artefact, and whose run the log and the verdict are of
    dir,         \* the directories the tools work in: source and output
    lock,        \* flock on WLED's checkout: its holder
    run,         \* the calls
    starts, crashes,
    disturbed    \* keys two builds overlapped on, one was forced or a crash hit (history)

vars == <<tool, slot, dir, lock, run, starts, crashes, disturbed>>

\* Where a call's tool works: a temporary directory, the slot's project, or
\* the one checkout of the release.
DirOf(b, k) == CASE tool = "route" -> b
                 [] tool = "lorawan" -> k
                 [] tool = "wled" -> Checkout

EmptySlot == [bin |-> None, log |-> None, verdict |-> None, writer |-> None]
EmptyDir == [src |-> None, out |-> None]
Resting == [pc |-> "idle", key |-> None, proc |-> None, quiet |-> TRUE, timer |-> "off",
            killed |-> FALSE, got |-> None, id |-> 0, answer |-> None]

Init ==
    /\ tool \in Tools
    /\ slot = [k \in Keys |-> EmptySlot]
    /\ dir = [d \in Keys \union Builders \union {Checkout} |-> EmptyDir]
    /\ lock = None
    /\ run = [b \in Builders |-> Resting]
    /\ starts = 0 /\ crashes = 0
    /\ disturbed = {}

Working(b) == run[b].pc \notin {"idle", "done", "left"}
Set(b, r) == run' = [run EXCEPT ![b] = r]
Answer(ok, hit, bin) == [ok |-> ok, hit |-> hit, bin |-> bin]

-----------------------------------------------------------------------------
\* A warm slot answers at once: only that the artefact's file exists counts.
HitAt(k) == slot[k].bin # None

Misses_Always(k, forced) == TRUE
Misses(k, forced) == forced \/ ~HitAt(k)

\* A call for key k.  Only the LoRaWAN command line forces a rebuild.
Start(b, k, forced) ==
    /\ run[b].pc \in {"idle", "done", "left"} /\ starts < MaxStarts
    /\ forced => tool = "lorawan"
    /\ starts' = starts + 1
    /\ disturbed' = disturbed \union
           {j \in {k} : forced \/ \E c \in Builders \ {b} : Working(c) /\ run[c].key = k}
    /\ \/ /\ Misses(k, forced)
          /\ Set(b, [Resting EXCEPT !.pc = "prepare", !.key = k, !.id = starts + 1])
       \/ /\ ~Misses(k, forced)
          /\ Set(b, [Resting EXCEPT !.pc = "done", !.key = k,
                                    !.answer = Answer(TRUE, TRUE, slot[k].bin)])
    /\ UNCHANGED <<tool, slot, dir, lock, crashes>>

\* No toolchain, no clone of the release, or a board the bridge cannot export.
Refuse(b) ==
    /\ run[b].pc = "prepare"
    /\ Set(b, [Resting EXCEPT !.pc = "done", !.key = run[b].key,
                 !.answer = Answer(FALSE, FALSE, None)])
    /\ UNCHANGED <<tool, slot, dir, lock, starts, crashes, disturbed>>

Prepare(b) ==
    /\ run[b].pc = "prepare"
    /\ Set(b, [run[b] EXCEPT !.pc = "locking"])
    /\ UNCHANGED <<tool, slot, dir, lock, starts, crashes, disturbed>>

\* WLED's builds share a checkout, and wait for its lock.
MayBuild_NoLock(b) == TRUE
MayBuild(b) == tool = "wled" => lock = None

\* Write the source, start the tool and its watchdog.  A tool that prints
\* more than a pipe holds is not quiet: it waits for its reader.
Launch(b) ==
    /\ run[b].pc = "locking" /\ MayBuild(b)
    /\ lock' = IF tool = "wled" THEN b ELSE lock
    /\ LET d == DirOf(b, run[b].key) IN
         dir' = [dir EXCEPT ![d].src = run[b].key,
                            ![d].out = IF tool = "route" THEN None ELSE @]
    /\ \E quiet \in BOOLEAN :
         Set(b, [run[b] EXCEPT !.pc = "read", !.proc = "running", !.quiet = quiet,
                               !.timer = "armed"])
    /\ UNCHANGED <<tool, slot, starts, crashes, disturbed>>

-----------------------------------------------------------------------------
\* The tool, a process of its own.
Alive(b) == run[b].proc \in {"running", "writing"}
MayPrint(b) == run[b].quiet \/ run[b].pc = "read"

ProcWrites(b) ==
    /\ run[b].proc = "running" /\ MayPrint(b)
    /\ dir' = [dir EXCEPT ![DirOf(b, run[b].key)].out = "torn"]
    /\ Set(b, [run[b] EXCEPT !.proc = "writing"])
    /\ UNCHANGED <<tool, slot, lock, starts, crashes, disturbed>>

\* The output is that of the source as it is in the directory now.
ProcExits(b) ==
    /\ run[b].proc = "writing"
    /\ LET d == DirOf(b, run[b].key) IN dir' = [dir EXCEPT ![d].out = dir[d].src]
    /\ Set(b, [run[b] EXCEPT !.proc = "zero"])
    /\ UNCHANGED <<tool, slot, lock, starts, crashes, disturbed>>

ProcFails(b) ==
    /\ Alive(b) /\ MayPrint(b)
    /\ Set(b, [run[b] EXCEPT !.proc = "failed"])
    /\ UNCHANGED <<tool, slot, dir, lock, starts, crashes, disturbed>>

\* The watchdog kills what still runs; it may also fire after the tool has
\* exited by itself, as long as nobody has cancelled it.
FireAt_Never(b) == FALSE
FireAt(b) == run[b].timer = "armed"
TimerFires(b) ==
    /\ FireAt(b)
    /\ Set(b, [run[b] EXCEPT !.timer = "fired", !.killed = TRUE,
                             !.proc = IF Alive(b) THEN "killed" ELSE @])
    /\ UNCHANGED <<tool, slot, dir, lock, starts, crashes, disturbed>>

-----------------------------------------------------------------------------
\* The end of the output: the watchdog is cancelled and the process reaped.
Drained(b) ==
    /\ run[b].pc = "read" /\ ~Alive(b)
    /\ Set(b, [run[b] EXCEPT !.pc = "judge", !.timer = IF @ = "armed" THEN "cancelled" ELSE @])
    /\ UNCHANGED <<tool, slot, dir, lock, starts, crashes, disturbed>>

\* The caller goes away at a yield: the generator is closed, its finally
\* cancels the watchdog and waits for a tool nobody reads any more.
ReaderLeaves(b) ==
    /\ \/ run[b].pc = "read"
       \/ run[b].pc = "judge" /\ run[b].killed
    /\ Set(b, [run[b] EXCEPT !.pc = "leaving", !.timer = IF @ = "armed" THEN "cancelled" ELSE @])
    /\ UNCHANGED <<tool, slot, dir, lock, starts, crashes, disturbed>>

Release(b) == lock' = IF lock = b THEN None ELSE lock

Reaped(b) ==
    /\ run[b].pc = "leaving" /\ ~Alive(b)
    /\ Set(b, [Resting EXCEPT !.pc = "left"])
    /\ Release(b)
    /\ UNCHANGED <<tool, slot, dir, starts, crashes, disturbed>>

\* What a finished tool left: a router's session is taken even from a killed
\* router, a firmware only from a build that returned zero.
Kept(b) == LET out == dir[DirOf(b, run[b].key)].out IN
    CASE tool = "route" /\ out = "torn" -> {None, "partial"}
      [] tool = "route" /\ out # "torn" -> {out}
      [] tool # "route" -> {IF run[b].proc = "zero" THEN out ELSE None}

SaveLog(b) ==
    /\ run[b].pc = "judge"
    /\ slot' = [slot EXCEPT ![run[b].key].log = run[b].id]
    /\ \E got \in Kept(b) :
         Set(b, [run[b] EXCEPT !.pc = IF got = None THEN "end" ELSE "copy", !.got = got])
    /\ UNCHANGED <<tool, dir, lock, starts, crashes, disturbed>>

\* write_text and copy2 truncate first.  The firmware is read where it was
\* built, as it is by then; the routed board comes from memory.
CopyStart(b) ==
    /\ run[b].pc = "copy"
    /\ slot' = [slot EXCEPT ![run[b].key].bin = "torn"]
    /\ Set(b, [run[b] EXCEPT !.pc = "copying"])
    /\ UNCHANGED <<tool, dir, lock, starts, crashes, disturbed>>

CopyEnd(b) ==
    /\ run[b].pc = "copying"
    /\ slot' = [slot EXCEPT
          ![run[b].key].bin = IF tool = "route" THEN run[b].got
                              ELSE dir[DirOf(b, run[b].key)].out,
          ![run[b].key].writer = run[b].id]
    /\ Set(b, [run[b] EXCEPT !.pc = "verdict"])
    /\ UNCHANGED <<tool, dir, lock, starts, crashes, disturbed>>

\* The design-rule check of the routed board, kept unless one is there; or
\* the factory image, merged anew and dropped silently when a part is missing.
Verdict(b) ==
    LET old == slot[run[b].key].verdict IN
    /\ run[b].pc = "verdict"
    /\ \E new \in {old} \union (IF tool = "route" /\ old # None THEN {}
                                ELSE {slot[run[b].key].writer}) :
          slot' = [slot EXCEPT ![run[b].key].verdict = new]
    /\ Set(b, [run[b] EXCEPT !.pc = "end"])
    /\ UNCHANGED <<tool, dir, lock, starts, crashes, disturbed>>

Done(b) ==
    /\ run[b].pc = "end"
    /\ Set(b, [Resting EXCEPT !.pc = "done", !.key = run[b].key,
                 !.answer = Answer(run[b].got # None, FALSE, run[b].got)])
    /\ Release(b)
    /\ UNCHANGED <<tool, slot, dir, starts, crashes, disturbed>>

\* The pod restarts: calls, tools and locks are gone, the files stay as they are.
Crash ==
    /\ crashes < MaxCrashes
    /\ \E b \in Builders : Working(b)
    /\ crashes' = crashes + 1
    /\ disturbed' = disturbed \union {run[b].key : b \in {c \in Builders : Working(c)}}
    /\ run' = [b \in Builders |-> Resting]
    /\ lock' = None
    /\ UNCHANGED <<tool, slot, dir, starts>>

ProcStep(b) == ProcWrites(b) \/ ProcExits(b) \/ ProcFails(b)
CallStep(b) == Refuse(b) \/ Prepare(b) \/ Launch(b) \/ Drained(b) \/ Reaped(b) \/ SaveLog(b)
                 \/ CopyStart(b) \/ CopyEnd(b) \/ Verdict(b) \/ Done(b)

Next ==
    \/ \E b \in Builders, k \in Keys, forced \in BOOLEAN : Start(b, k, forced)
    \/ \E b \in Builders : CallStep(b) \/ ProcStep(b) \/ TimerFires(b) \/ ReaderLeaves(b)
    \/ Crash

\* Calls go on and timers expire; nothing is asked of the tools, which may
\* hang for ever, nor of the callers.
Fairness == \A b \in Builders : WF_vars(CallStep(b)) /\ WF_vars(TimerFires(b))

Spec == Init /\ [][Next]_vars /\ Fairness

-----------------------------------------------------------------------------
TypeOK ==
    /\ tool \in Tools
    /\ \A k \in Keys : slot[k].bin \in Content
    /\ lock # None => tool = "wled" /\ Working(lock) /\ run[lock].proc # None
    /\ disturbed \subseteq Keys
    /\ starts \in 0 .. MaxStarts

\* Designs share WLED's checkout and its override file, and the directory of
\* a LoRaWAN key is shared by its builds: no slot may ever hold the firmware
\* of another design (wled_build.py:119-124).
SlotHoldsItsKey ==
    \A k \in Keys : slot[k].bin \in {None, "torn", "partial", k}

\* A slot whose builds never overlapped, were never forced and never crashed
\* is torn only while its one build copies: in particular a build that was
\* killed or failed leaves nothing behind that a later call takes for good.
QuietSlotWhole ==
    \A k \in Keys \ disturbed :
        slot[k].bin = "torn" => \E b \in Builders : run[b].pc = "copying" /\ run[b].key = k

\* In such a slot the log a warm call replays, the design-rule check and the
\* artefact are of one run.
QuietSlotAgrees ==
    \A k \in Keys \ disturbed :
        slot[k].bin \notin {None, "torn"} =>
            /\ slot[k].log = slot[k].writer
            /\ slot[k].verdict \in {None, slot[k].writer}

\* Whoever was told a key's build is good finds its artefact in the slot.
GoodAnswerIsThere ==
    \A b \in Builders :
        run[b].pc = "done" /\ run[b].answer.ok /\ run[b].key \notin disturbed =>
            slot[run[b].key].bin \notin {None, "torn"}

\* The type invariant; no slot holds another key's artefact, and one nothing
\* disturbed is whole, of one run, and there for whoever was told so.
SlotsSound ==
    TypeOK /\ SlotHoldsItsKey /\ QuietSlotWhole /\ QuietSlotAgrees /\ GoodAnswerIsThere

\* A tool that hangs is killed as long as somebody reads it, and a design
\* that waits for WLED's checkout gets it, unless its holder's reader has
\* left: then the holder may wait for ever (see HungBuildIsKilled).
WatchdogEnds == \A b \in Builders : run[b].pc = "read" ~> run[b].pc # "read"
WaiterServed ==
    \A b \in Builders :
        run[b].pc = "locking" ~>
            (run[b].pc # "locking" \/ \E c \in Builders : run[c].pc = "leaving")

\* Every build ends or is waiting behind one whose reader has left.
BuildsEnd == WatchdogEnds /\ WaiterServed

-----------------------------------------------------------------------------
\* What the code's words promise and TLC refutes; see the README.

\* "a hung build (no output, never exits) still gets killed" (compile.py:265).
HungBuildIsKilled == \A b \in Builders : run[b].pc = "leaving" ~> run[b].pc # "leaving"

\* "One build at a time" (build_local.py:29).
OneBuildAtATime ==
    tool = "lorawan" =>
        \A b, c \in Builders : Alive(b) /\ Alive(c) => b = c

\* "the DRC summary of the routed board under key" (route.py:222).
VerdictOfTheBoard ==
    tool = "route" =>
        \A k \in Keys : slot[k].bin \in Keys \union {"partial"} =>
            slot[k].verdict \in {None, slot[k].writer}

\* A router that was killed, or timed out, never becomes the cached board.
KilledNeverCached == \A k \in Keys : slot[k].bin # "partial"

=============================================================================
