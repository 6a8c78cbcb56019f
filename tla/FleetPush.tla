------------------------------ MODULE FleetPush ------------------------------
(***************************************************************************)
(* Pushing a rendered design to a build server and following the compile.  *)
(* Two servers stand outside the program: the fleet add-on, an HTTP API    *)
(* with a staged create and a job queue (fleet/client.py), and the ESPHome *)
(* dashboard, a WebSocket API whose jobs the studio relays in memory       *)
(* (esphome_dashboard/__init__.py).  The pushes are the routes of          *)
(* api/app.py and the tools of mcp/hardware.py; the browser's side is      *)
(* PushDialog.                                                             *)
(***************************************************************************)
EXTENDS Naturals, Sequences, FiniteSets

CONSTANTS
    Pushes,      \* calls of a push; a compile's run id is its push
    Builders,    \* the pushes that ask for a compile
    Names,       \* device names
    None,
    LogSize,     \* lines a build prints
    Outcomes,    \* how a build can end
    MaxPushes,   \* bound: pushes begun
    MaxFaults    \* bound: requests refused or lost, links cut, restarts

ASSUME FleetAssumption ==
    /\ Builders \subseteq Pushes
    /\ Outcomes \subseteq {"success", "failed", "timed_out", "cancelled"}
    /\ {LogSize, MaxPushes, MaxFaults} \subseteq Nat
    /\ None \notin Pushes
    /\ None \notin {"pending", "working", "blocked", "success", "failed", "timed_out",
                    "cancelled", "passed"}

Backends == {"fleet", "dashboard"}
InFlight == {"pending", "working", "blocked"}
Failing == {"failed", "timed_out"}

VARIABLES
    push,        \* the calls: created is kept until the write, at the version written
    file,        \* per server and name: how many times its YAML was written
    pending,     \* names the add-on holds a ".pending" placeholder for
    job,         \* the servers' builds
    image,       \* the dashboard's artefact of each name: the version it was built from
    djob,        \* DashboardJobs: the studio's record of a dashboard build
    faults

serverVars == <<push, file, pending, job, image, djob>>

NoPush == [pc |-> "idle", backend |-> None, name |-> None, created |-> FALSE, at |-> 0]
NoJob == [state |-> None, at |-> 0, lines |-> 0, kept |-> TRUE]
NoRecord == [log |-> 0, finished |-> FALSE, ok |-> FALSE]

FleetInit ==
    /\ push = [p \in Pushes |-> NoPush]
    /\ file = [b \in Backends |-> [n \in Names |-> 0]]
    /\ pending = {}
    /\ job = [p \in Pushes |-> NoJob]
    /\ image = [n \in Names |-> 0]
    /\ djob = [p \in Pushes |-> None]
    /\ faults = 0

NameOf(p) == push[p].name
FileOf(p) == file[push[p].backend][push[p].name]
Busy(p) == push[p].pc \notin {"idle", "done", "failed"}
Failed(p) == [push[p] EXCEPT !.pc = "failed", !.created = FALSE]
Fault == faults < MaxFaults /\ faults' = faults + 1

\* The answer of a request is lost, or it arrives and the call goes on at pc.
Step(p, r, pc) ==
    \/ push' = [push EXCEPT ![p] = [r EXCEPT !.pc = pc]] /\ UNCHANGED faults
    \/ push' = [push EXCEPT ![p] = Failed(p)] /\ Fault

-----------------------------------------------------------------------------
(* The push                                                                *)

\* The handler renders the design and may refuse: a design that does not
\* render, strict mode, a name that is no slug, a server that is not set up.
Begin(p, b, n) ==
    /\ push[p].pc = "idle" /\ Cardinality({q \in Pushes : push[q].pc # "idle"}) < MaxPushes
    /\ \E pc \in {"list", "failed"} :
           push' = [push EXCEPT ![p] = [NoPush EXCEPT !.pc = pc, !.backend = b, !.name = n]]
    /\ UNCHANGED <<file, pending, job, image, djob, faults>>

\* The names the server has.  The add-on stages a new one; the dashboard
\* creates and overwrites with the same command.
List(p) ==
    /\ push[p].pc = "list"
    /\ LET new == FileOf(p) = 0
       IN Step(p, [push[p] EXCEPT !.created = new],
               IF new /\ push[p].backend = "fleet" THEN "create" ELSE "write")
    /\ UNCHANGED <<file, pending, job, image, djob>>

\* The add-on refuses a name it has; a placeholder left there it may refuse or
\* hand out again.
Create(p) ==
    /\ push[p].pc = "create" /\ FileOf(p) = 0
    /\ pending' = pending \union {NameOf(p)}
    /\ Step(p, push[p], "write")
    /\ UNCHANGED <<file, job, image, djob>>

CreateRefused(p) ==
    /\ push[p].pc = "create" /\ (FileOf(p) > 0 \/ NameOf(p) \in pending)
    /\ push' = [push EXCEPT ![p] = Failed(p)]
    /\ UNCHANGED <<file, pending, job, image, djob, faults>>

AfterWrite(p) == IF p \in Builders THEN "compile" ELSE "done"

\* The content; the add-on renames the placeholder as it stores the first one.
Write(p) ==
    /\ push[p].pc = "write"
    /\ file' = [file EXCEPT ![push[p].backend][NameOf(p)] = @ + 1]
    /\ pending' = IF push[p].created /\ push[p].backend = "fleet"
                  THEN pending \ {NameOf(p)} ELSE pending
    /\ Step(p, [push[p] EXCEPT !.at = FileOf(p) + 1, !.created = FALSE], AfterWrite(p))
    /\ UNCHANGED <<job, image, djob>>

\* Another push took the placeholder first: the add-on may have none to write.
WriteRefused(p) ==
    /\ push[p].pc = "write" /\ push[p].backend = "fleet" /\ push[p].created
    /\ NameOf(p) \notin pending
    /\ push' = [push EXCEPT ![p] = Failed(p)]
    /\ UNCHANGED <<file, pending, job, image, djob, faults>>

\* The build asked for before the content is written.
Compile_First(p) ==
    /\ \/ push[p].pc = "write" /\ job[p].state = None
       \/ push[p].pc = "compile" /\ job[p].state # None
    /\ job' = IF push[p].pc = "write" THEN [job EXCEPT ![p].state = "pending"] ELSE job
    /\ push' = IF push[p].pc = "write" THEN push ELSE [push EXCEPT ![p].pc = "done"]
    /\ UNCHANGED <<file, pending, image, djob, faults>>

\* The build is queued: by a request of the push to the add-on, by a task of
\* the studio at the dashboard, whose record is there at once.
Compile(p) ==
    /\ push[p].pc = "compile"
    /\ \/ /\ push[p].backend = "fleet"
          /\ job' = [job EXCEPT ![p].state = "pending"]
          /\ Step(p, push[p], "done")
          /\ UNCHANGED djob
       \/ /\ push[p].backend = "dashboard"
          /\ djob' = [djob EXCEPT ![p] = NoRecord]
          /\ push' = [push EXCEPT ![p].pc = "done"]
          /\ UNCHANGED <<job, faults>>
    /\ UNCHANGED <<file, pending, image>>

\* A request the add-on refuses or never answers (30 s); the dashboard's
\* commands have no timeout, a closed socket alone ends one.
TimesOut(p) ==
    /\ Busy(p) /\ push[p].backend = "fleet"
    /\ Fault
    /\ push' = [push EXCEPT ![p] = Failed(p)]
    /\ UNCHANGED <<file, pending, job, image, djob>>

HangUp(p) ==
    /\ Busy(p) /\ push[p].pc # "compile" /\ push[p].backend = "dashboard"
    /\ Fault
    /\ push' = [push EXCEPT ![p] = Failed(p)]
    /\ UNCHANGED <<file, pending, job, image, djob>>

HasRun(p) == push[p].pc = "done" /\ p \in Builders

-----------------------------------------------------------------------------
(* The builds                                                              *)

Ended(p) == job[p].state \notin {None} \union InFlight

\* The relay's firmware/compile command: a job of the dashboard.
Follow(p) ==
    /\ djob[p] # None /\ ~djob[p].finished /\ job[p].state = None
    /\ job' = [job EXCEPT ![p].state = "pending"]
    /\ UNCHANGED <<push, file, pending, image, djob, faults>>

\* A worker takes the job and reads the file as it is now.  A server builds
\* one configuration at a time.
Work(p) ==
    /\ job[p].state = "pending"
    /\ \A q \in Pushes : job[q].state = "working" =>
           <<push[q].backend, NameOf(q)>> # <<push[p].backend, NameOf(p)>>
    /\ job' = [job EXCEPT ![p] = [@ EXCEPT !.state = "working", !.at = FileOf(p)]]
    /\ UNCHANGED <<push, file, pending, image, djob, faults>>

\* A line of output; the relay appends what the dashboard sends.
Relayed(p) == djob[p] # None /\ ~djob[p].finished
PrintLine(p) ==
    /\ job[p].state = "working" /\ job[p].lines < LogSize
    /\ job' = [job EXCEPT ![p].lines = @ + 1]
    /\ djob' = IF Relayed(p) THEN [djob EXCEPT ![p].log = @ + 1] ELSE djob
    /\ UNCHANGED <<push, file, pending, image, faults>>

\* The build ends; the dashboard's result frame closes the record.
Finish(p, st) ==
    /\ st \in Outcomes
    /\ \/ job[p].state = "working"
       \/ job[p].state = "pending" /\ st \in {"cancelled", "timed_out"}
    /\ job' = [job EXCEPT ![p].state = st]
    /\ image' = IF st = "success" /\ push[p].backend = "dashboard"
                THEN [image EXCEPT ![NameOf(p)] = job[p].at] ELSE image
    /\ djob' = IF Relayed(p) THEN [djob EXCEPT ![p] = [@ EXCEPT !.finished = TRUE, !.ok = st = "success"]]
               ELSE djob
    /\ UNCHANGED <<push, file, pending, faults>>

\* The socket closes while a job is followed: the record fails, the dashboard
\* builds on.
RelayBreaks(p) ==
    /\ Relayed(p) /\ Fault
    /\ djob' = [djob EXCEPT ![p] = [@ EXCEPT !.finished = TRUE]]
    /\ UNCHANGED <<push, file, pending, job, image>>

\* The add-on clears terminal jobs from its queue.
Clear(p) ==
    /\ push[p].backend = "fleet" /\ Ended(p) /\ job[p].kept
    /\ job' = [job EXCEPT ![p].kept = FALSE]
    /\ UNCHANGED <<push, file, pending, image, djob, faults>>

\* The studio restarts: calls die, the records of the dashboard's builds are
\* gone, the servers' files and jobs stay.
FleetRestart ==
    /\ Fault
    /\ push' = [p \in Pushes |-> IF Busy(p) THEN Failed(p) ELSE push[p]]
    /\ djob' = [p \in Pushes |-> None]
    /\ UNCHANGED <<file, pending, job, image>>

-----------------------------------------------------------------------------
(* What is asked of a run                                                  *)

\* A failure beats a cancellation, which beats success, once all have ended.
Verdict(states) ==
    CASE states = {} -> "unknown"
      [] states \intersect InFlight # {} -> "running"
      [] states \intersect InFlight = {} /\ states \intersect Failing # {} -> "failed"
      [] states \intersect (InFlight \union Failing) = {} /\ "cancelled" \in states -> "cancelled"
      [] states = {"success"} -> "passed"
      [] OTHER -> "unknown"

Queued(p) == {job[q].state : q \in {r \in Pushes : r = p /\ job[r].kept /\ job[r].state # None}}

\* The verdict of run p, asked of backend b; None is an error.
VerdictAt(p, b) ==
    IF b = "fleet"
    THEN Verdict(IF push[p].backend = "fleet" THEN Queued(p) ELSE {})
    ELSE CASE djob[p] = None -> None
           [] djob[p] # None /\ ~djob[p].finished -> "running"
           [] djob[p] # None /\ djob[p].finished -> IF djob[p].ok THEN "passed" ELSE "failed"

\* What the log of run p holds: text so far and whether it is all; None is a 404.
LogOf(p) ==
    IF push[p].backend = "fleet"
    THEN IF job[p].kept THEN [size |-> job[p].lines, finished |-> Ended(p)] ELSE None
    ELSE IF djob[p] = None THEN None ELSE [size |-> djob[p].log, finished |-> djob[p].finished]

\* The image of a run: the add-on keeps one per job; the dashboard is asked
\* for the configuration's, once the record says the build passed.
Image(p) ==
    IF push[p].backend = "fleet"
    THEN IF job[p].state = "success" /\ job[p].kept THEN job[p].at ELSE 0
    ELSE IF djob[p] # None /\ djob[p].ok THEN image[NameOf(p)] ELSE 0
=============================================================================
