----------------------------- MODULE AgentTurn -----------------------------
(***************************************************************************)
(* The agent's turns on the server (agent/agent.py, agent/session.py, the  *)
(* streaming endpoint of api/app.py): a turn loads its session's history,  *)
(* asks the model, runs the tools it calls on a copy of the design, asks   *)
(* again, and at its end appends the user's message and the answer.        *)
(* The model is outside src/: it stops, calls tools, or fails.             *)
(***************************************************************************)
EXTENDS WebDesign

CONSTANTS
    Answers,         \* sequences of calls, [tool, lib], the model answers with
    MaxIterations    \* how often a turn asks the model

ASSUME IterationsAssumption == MaxIterations \in Nat \ {0}

\* Every call the model may make; an answer without one is a stop.
Called == UNION {{calls[i] : i \in DOMAIN calls} : calls \in Answers}
ASSUME AnswersAssumption == \A calls \in Answers : calls \in Seq(Called) /\ calls # <<>>

VARIABLES
    turns,     \* the turns, in the order they were sent
    history    \* session -> its messages, <<role, turn>>
turnVars == <<turns, history>>

\* A turn is "sent", then waits to ask ("asking") or for the answer ("asked"),
\* stores ("user", "assistant"), and has "complete" or "error" to report.
\* known is set once the tab has seen its session_start, heard while the tab
\* listens; torn is set when only one of its two messages was stored.
TurnStates == {"sent", "asking", "asked", "user", "assistant", "complete", "error", "over"}
Sent(session, d) ==
    [pc |-> "sent", session |-> session, doc |-> d, iters |-> 0, results |-> <<>>,
     known |-> FALSE, heard |-> TRUE, torn |-> FALSE]

TurnsInit == turns = <<>> /\ history = <<>>

\* What the turn has gathered is dropped when it asks no more.
Ended(t, pc) == [t EXCEPT !.pc = pc, !.iters = 0, !.results = <<>>]
Going(k, from, to) == turns[k].pc = from /\ turns' = [turns EXCEPT ![k].pc = to]

\* _initialize_turn: a session that is not known starts without history.
Begin(k) ==
    LET session == IF turns[k].session = None THEN k ELSE turns[k].session IN
    /\ turns[k].pc = "sent"
    /\ turns' = [turns EXCEPT ![k].pc = "asking", ![k].session = session]
    /\ history' = [s \in DOMAIN history \cup {session} |->
                      IF s \in DOMAIN history THEN history[s] ELSE <<>>]

\* compact_tool_results: a long result of a tool that only reads gives way to a
\* later call's of the same tool with the same input.
Supersedable == {"render", "validate", "kicad_schematic", "kicad_pcb", "fab_bom", "fab_cpl",
                 "fab_status", "list_boards", "search_components", "recommend",
                 "library_detail", "component_check", "board_check"}
Superseded(results, i) ==
    /\ results[i].call.tool \in Supersedable /\ results[i].long
    /\ \E j \in (i + 1)..Len(results) : results[j].call = results[i].call
Compacted(results) ==
    [i \in DOMAIN results |-> [results[i] EXCEPT !.trimmed = @ \/ Superseded(results, i)]]

\* After the last iteration the turn ends with what it has.
Ask(k) ==
    /\ turns[k].pc = "asking"
    /\ turns' = IF turns[k].iters = MaxIterations THEN [turns EXCEPT ![k] = Ended(@, "user")]
                ELSE [turns EXCEPT ![k].pc = "asked", ![k].iters = @ + 1,
                                   ![k].results = Compacted(@)]
    /\ UNCHANGED history

Stops(k) ==
    /\ turns[k].pc = "asked"
    /\ turns' = [turns EXCEPT ![k] = Ended(@, "user")]
    /\ UNCHANGED history

\* execute_tool: what a tool does to the working copy; one that fails for a
\* reason it knows leaves a short error for the model to read.
Worked(d, call) ==
    CASE call.tool = "add_component" -> AddComponent(d, call.lib, None).design
      [] call.tool = "solve_pins" -> [d EXCEPT !.conns = Solve(d).conns]
      [] OTHER -> d
CallsTools(k, calls, failed) ==
    /\ turns[k].pc = "asked"
    /\ turns' = [turns EXCEPT
           ![k].pc = "asking",
           ![k].doc = FoldLeft(Worked, @, IF failed THEN Tail(calls) ELSE calls),
           ![k].results = @ \o [i \in DOMAIN calls |->
               [call |-> calls[i], long |-> ~failed \/ i > 1, trimmed |-> FALSE]]]
    /\ UNCHANGED history

\* The agent is off or the request is refused; the model's API fails; or a tool
\* or a store raises what nobody catches: the endpoint reports it and the turn
\* is lost.
Raises(k) ==
    /\ turns[k].pc \in {"sent", "asked", "user", "assistant"}
    /\ turns' = [turns EXCEPT ![k] = [Ended(@, "error") EXCEPT !.torn = turns[k].pc = "assistant"]]
    /\ UNCHANGED history

\* The two messages are stored one after the other.
StoresUser(k) ==
    /\ Going(k, "user", "assistant")
    /\ history' = [history EXCEPT ![turns[k].session] = Append(@, <<"user", k>>)]
StoresAnswer(k) ==
    /\ Going(k, "assistant", "complete")
    /\ history' = [history EXCEPT ![turns[k].session] = Append(@, <<"assistant", k>>)]

\* Nobody listens: the generator is dropped at its next event, or runs on to
\* the one that reports the turn complete.
Abandon(k) ==
    /\ ~turns[k].heard /\ turns[k].pc \in {"sent", "asking", "asked", "complete", "error"}
    /\ turns' = [turns EXCEPT ![k] = Ended(@, "over")]
    /\ UNCHANGED history

TurnStep(k) ==
    \/ Begin(k) \/ Ask(k) \/ Stops(k) \/ Raises(k)
    \/ \E calls \in Answers, failed \in BOOLEAN : CallsTools(k, calls, failed)
    \/ StoresUser(k) \/ StoresAnswer(k) \/ Abandon(k)

TurnsTypeOK ==
    /\ \A k \in DOMAIN turns : turns[k].pc \in TurnStates /\ turns[k].iters <= MaxIterations
    /\ \A s \in DOMAIN history : history[s] \in Seq({"user", "assistant"} \X DOMAIN turns)

\* What the model is sent: of every call's results the last one whole, and of
\* the long ones of a reading tool no other.
LatestStays ==
    \A k \in DOMAIN turns : turns[k].pc = "asked" =>
       LET results == turns[k].results IN
       \A i \in DOMAIN results :
          LET later == \E j \in (i + 1)..Len(results) : results[j].call = results[i].call IN
          results[i].trimmed <=> /\ later /\ results[i].long
                                 /\ results[i].call.tool \in Supersedable

\* As long as no tab went away during a turn: a session's history holds the
\* completed turns, each its message and its answer side by side, in the order
\* they were sent; a turn that failed has left nothing, unless it failed
\* between the two.
HistoryOfTurns ==
    (\A k \in DOMAIN turns : turns[k].heard) =>
       \A s \in DOMAIN history :
          LET h == history[s] IN
          \A i \in DOMAIN h :
             LET k == h[i][2] IN
             /\ turns[k].session = s
             /\ \A j \in DOMAIN h : i < j => k <= h[j][2]
             /\ h[i][1] = "assistant" => i > 1 /\ h[i - 1] = <<"user", k>>
             /\ h[i][1] = "user" => \/ i < Len(h) /\ h[i + 1] = <<"assistant", k>>
                                    \/ turns[k].pc = "assistant" \/ turns[k].torn
=============================================================================
