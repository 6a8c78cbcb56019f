----------------------------- MODULE PushDialog -----------------------------
(***************************************************************************)
(* The "Push to fleet" dialog (web/src/components/PushToFleetDialog.tsx)   *)
(* over FleetPush: one tab that pushes, tails the build's log over a       *)
(* Server-Sent-Events stream of the API, and asks for the verdict when the *)
(* log ends; and an agent that pushes with the MCP tools and polls.  The   *)
(* dialog may push again, or change server, while it tails an older run.   *)
(***************************************************************************)
EXTENDS FleetPush

CONSTANTS
    Own,         \* the dialog's pushes, in their order; the others are the agent's
    MaxWire      \* bound: frames on the way in one stream

ASSUME OwnAssumption == Own \subseteq Pushes /\ Own \subseteq Nat

VARIABLES
    shown,       \* the run whose result the dialog shows
    choice,      \* the server the dialog is set to
    pushing,     \* the push it waits for
    text,        \* the log on the screen: the chunks, each of some run's log
    finished,    \* logFinished
    failed,      \* logError
    verdict,     \* the verdict shown
    ask,         \* the verdict request in flight: its run and the answer
    stream       \* the EventSource of each run and the handler behind it

dialogVars == <<shown, choice, pushing, text, finished, failed, verdict, ask, stream>>
fleetVars == <<serverVars, faults, dialogVars>>

Closed == [open |-> FALSE, at |-> 0, wire |-> <<>>, serving |-> FALSE]
Quiet == [run |-> None, value |-> None]
Taken == "taken"

DialogInit ==
    /\ FleetInit
    /\ shown = None /\ choice \in Backends /\ pushing = None
    /\ text = <<>> /\ finished = FALSE /\ failed = FALSE
    /\ verdict = None /\ ask = Quiet
    /\ stream = [p \in Own |-> Closed]

-----------------------------------------------------------------------------
(* Pushing                                                                 *)

\* Push: the older result goes, and with it a verdict request in flight (the
\* effect's cleanup).  The stream of the older run is left open.
DropAsk == ask' = Quiet

HandlePush(p, n) ==
    /\ p \in Own /\ \A q \in Own : q < p => push[q].pc # "idle"
    /\ pushing = None
    /\ Begin(p, choice, n)
    /\ pushing' = p /\ shown' = None /\ verdict' = None
    /\ DropAsk
    /\ UNCHANGED <<choice, text, finished, failed, stream>>

\* The answer.  With a run the screen is cleared and the tail begins.
PushAnswered ==
    /\ pushing # None /\ ~Busy(pushing)
    /\ pushing' = None
    /\ \/ /\ HasRun(pushing)
          /\ shown' = pushing
          /\ text' = <<>> /\ finished' = FALSE /\ failed' = FALSE
          /\ stream' = [stream EXCEPT ![pushing] = [Closed EXCEPT !.open = TRUE, !.serving = TRUE]]
       \/ /\ ~HasRun(pushing)
          /\ UNCHANGED <<shown, text, finished, failed, stream>>
    /\ UNCHANGED <<serverVars, faults, choice, verdict, ask>>

SwitchBackend ==
    /\ choice' \in Backends \ {choice}
    /\ shown' = None /\ verdict' = None /\ text' = <<>>
    /\ DropAsk
    /\ UNCHANGED <<serverVars, faults, pushing, finished, failed, stream>>

-----------------------------------------------------------------------------
(* Tailing                                                                 *)

Chunk(p, from, to) == [run |-> p, from |-> from, to |-> to]
Frame(kind, chunk, last) == [kind |-> kind, chunk |-> chunk, finished |-> last]

\* The handler reads the log from its offset and sends what is new; the empty
\* chunks the fleet's handler sends change nothing.
Advance_Never(s, log) == s.at
Advance(s, log) == log.size

Relay(p) ==
    /\ stream[p].serving /\ LogOf(p) # None /\ Len(stream[p].wire) < MaxWire
    /\ LET s == stream[p]
           log == LogOf(p)
           sent == IF log.size > s.at \/ log.finished
                   THEN <<Frame("data", Chunk(p, s.at, log.size), log.finished)>> ELSE <<>>
       IN /\ sent # <<>>
          /\ stream' = [stream EXCEPT ![p] = [s EXCEPT !.wire = s.wire \o sent, !.at = Advance(s, log),
                                                       !.serving = ~log.finished]]
    /\ UNCHANGED <<serverVars, faults, shown, choice, pushing, text, finished, failed, verdict, ask>>

\* A handler that went on polling a run nobody knows.
RelayError_Ignored(p) == FALSE

\* The run is not known (any more): an "error" frame, and the handler returns.
RelayError(p) ==
    /\ stream[p].serving /\ LogOf(p) = None /\ Len(stream[p].wire) < MaxWire
    /\ stream' = [stream EXCEPT ![p] = [stream[p] EXCEPT !.wire = Append(@, Frame("error", Chunk(p, 0, 0), FALSE)),
                                                         !.serving = FALSE]]
    /\ UNCHANGED <<serverVars, faults, shown, choice, pushing, text, finished, failed, verdict, ask>>

\* onmessage, and the listener of the named "error" frame.
Append1(t, c) == IF c.to > c.from THEN Append(t, c) ELSE t
Receive(p) ==
    /\ stream[p].open /\ stream[p].wire # <<>>
    /\ LET f == Head(stream[p].wire)
       IN /\ text' = IF f.kind = "data" THEN Append1(text, f.chunk) ELSE text
          /\ finished' = (finished \/ f.finished)
          /\ failed' = (failed \/ f.kind = "error")
          /\ stream' = [stream EXCEPT ![p] =
                 IF f.finished \/ f.kind = "error" THEN Closed ELSE [stream[p] EXCEPT !.wire = Tail(@)]]
    /\ UNCHANGED <<serverVars, faults, shown, choice, pushing, verdict, ask>>

\* The link is cut.  The listener of "error" runs first and closes the source;
\* onerror finds it closed and does not fall back to polling.
StreamBreaks(p) ==
    /\ stream[p].open /\ Fault
    /\ stream' = [stream EXCEPT ![p] = Closed]
    /\ UNCHANGED <<serverVars, shown, choice, pushing, text, finished, failed, verdict, ask>>

-----------------------------------------------------------------------------
(* The verdict                                                             *)

\* The effect on [logFinished, run_id].
AskVerdict ==
    /\ finished /\ shown # None /\ ask.run # shown
    /\ ask' = [run |-> shown, value |-> None]
    /\ UNCHANGED <<serverVars, faults, shown, choice, pushing, text, finished, failed, verdict, stream>>

\* The route answers: an error leaves the verdict unset.
ServeVerdict ==
    /\ ask.run # None /\ ask.value = None
    /\ VerdictAt(ask.run, choice) # None
    /\ ask' = [ask EXCEPT !.value = VerdictAt(ask.run, choice)]
    /\ UNCHANGED <<serverVars, faults, shown, choice, pushing, text, finished, failed, verdict, stream>>

ReceiveVerdict ==
    /\ ask.value \notin {None, Taken}
    /\ verdict' = ask.value
    /\ ask' = [ask EXCEPT !.value = Taken]
    /\ UNCHANGED <<serverVars, faults, shown, choice, pushing, text, finished, failed, stream>>

\* fleet_push, esphome_dashboard_push: an agent of the MCP server.
AgentPush(p, b, n) ==
    /\ p \notin Own
    /\ Begin(p, b, n)
    /\ UNCHANGED dialogVars

-----------------------------------------------------------------------------
(* The whole                                                               *)

Restart ==
    /\ FleetRestart
    /\ stream' = [p \in Own |-> Closed]
    /\ UNCHANGED <<shown, choice, pushing, text, finished, failed, verdict, ask>>

Server(p) ==
    \/ List(p) \/ Create(p) \/ CreateRefused(p) \/ Write(p) \/ WriteRefused(p) \/ Compile(p)
    \/ TimesOut(p) \/ HangUp(p)
    \/ Follow(p) \/ Work(p) \/ PrintLine(p)
    \/ \E st \in Outcomes : Finish(p, st)
    \/ RelayBreaks(p) \/ Clear(p)

DialogNext ==
    \/ \E p \in Pushes : Server(p) /\ UNCHANGED dialogVars
    \/ \E p \in Own, n \in Names : HandlePush(p, n)
    \/ PushAnswered \/ SwitchBackend
    \/ \E p \in Own : Relay(p) \/ RelayError(p) \/ Receive(p) \/ StreamBreaks(p)
    \/ AskVerdict \/ ServeVerdict \/ ReceiveVerdict
    \/ \E p \in Pushes, b \in Backends, n \in Names : AgentPush(p, b, n)
    \/ Restart

\* The API's event loop runs its handlers, the browser its own.
\* Nothing makes a worker build or a server answer.
DialogSpec ==
    /\ DialogInit /\ [][DialogNext]_fleetVars
    /\ \A p \in Own : WF_fleetVars(Relay(p) \/ RelayError(p))
    /\ \A p \in Own : WF_fleetVars(Receive(p))

-----------------------------------------------------------------------------
(* Properties                                                              *)

States == {None, "success", "cancelled"} \union InFlight \union Failing
Verdicts == {"unknown", "running", "failed", "cancelled", "passed"}

DialogTypeOK ==
    /\ \A p \in Pushes :
        /\ push[p].pc \in {"idle", "list", "create", "write", "compile", "done", "failed"}
        /\ push[p].pc # "idle" => push[p].backend \in Backends /\ push[p].name \in Names
        /\ job[p].state \in States /\ job[p].lines \in 0..LogSize
        /\ djob[p] # None => push[p].backend = "dashboard" /\ djob[p].log <= job[p].lines
    /\ pending \subseteq Names
    /\ shown # None => push[shown].pc = "done" /\ shown \in Own
    /\ verdict \in {None} \union Verdicts
    /\ \A p \in Own : stream[p].wire # <<>> => stream[p].open

\* A run is never of something older than what its own push wrote, neither in
\* the content its build read nor in the image that would be fetched for it,
\* whichever pushes of the device overlap and whichever of their requests fail
\* (push_device writes before it compiles).
NeverOlder ==
    \A p \in Pushes :
        /\ job[p].at > 0 => job[p].at >= push[p].at
        /\ Image(p) > 0 => Image(p) >= push[p].at

\* The first j chunks of a screen t hold the log of run p up to n.
ReadTo(t, j, p, n) ==
    \/ n = 0 /\ \A i \in 1..j : t[i].run # p
    \/ \E i \in 1..j :
           /\ t[i].run = p /\ t[i].to = n
           /\ \A k \in (i + 1)..j : t[k].run # p

\* What is on the screen of the shown run's log is its beginning, without a
\* gap, a repetition or a line out of its place (offset, lastOffset).
LogOfTheRun ==
    shown # None =>
        \A j \in 1..Len(text) :
            text[j].run = shown => ReadTo(text, j - 1, shown, text[j].from)

\* "Passed" is shown only of a run whose build succeeded, though the request
\* for the verdict may be overtaken by another push, a switch of server or a
\* restart.
PassedIsTrue ==
    (verdict = "passed" /\ shown # None) => job[shown].state = "success"

\* The type invariant, and the dialog shows the log and the verdict of its run.
ScreenSound == DialogTypeOK /\ LogOfTheRun /\ PassedIsTrue

\* A stream whose run has ended, or is not known, is read to its end and closed.
StreamEnds ==
    \A p \in Own :
        (stream[p].open /\ (LogOf(p) = None \/ LogOf(p).finished)) ~> ~stream[p].open

-----------------------------------------------------------------------------
(* Claims that do not hold                                                 *)

\* "so a flaky proxy never strands the UI in tailing forever"
\* (PushToFleetDialog.tsx:185-187).
Tailing == shown # None /\ ~finished /\ ~failed
NeverStranded == Tailing => stream[shown].open

\* The log shown is of the run shown.
OneLog ==
    shown # None => \A i \in 1..Len(text) : text[i].run = shown

\* "Finished" means the run's log has ended.
FinishedIsTrue ==
    (shown # None /\ finished) => Ended(shown) \/ ~Relayed(shown)

\* "The compiled image from the dashboard for a finished run" (api/app.py:1719).
ImageOfTheRun == \A p \in Pushes : Image(p) > 0 => Image(p) = job[p].at

\* "enqueue an OTA build for the just-pushed device" (fleet/client.py:164).
CompilesThePushed == \A p \in Pushes : job[p].at > 0 => job[p].at = push[p].at
=============================================================================
