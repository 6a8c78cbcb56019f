------------------------------- MODULE Editor -------------------------------
(***************************************************************************)
(* The browser tab as an editor (App.tsx, AgentSidebar.tsx): edits are     *)
(* applied at once; a design, a part, the solver's or the agent's answer   *)
(* comes later, and what was asked for before may arrive after; the        *)
(* rendering on the screen follows the design behind a debounce.           *)
(* Saving, and what the store's events do, is BrowserSync's subject.       *)
(***************************************************************************)
EXTENDS AgentTurn

CONSTANTS
    Examples, Stored,   \* id -> design, as the server has them
    Fresh,              \* designs the dialogs make
    Addable, Bundles,   \* library ids, and modules, the user picks
    Retargets,          \* connection kinds the user switches to
    NewNames,           \* ids the user types for a bus
    BusTypes,           \* types of buses the user adds
    MaxActs,            \* bound: what the user does
    MaxSends            \* bound: turns

VARIABLES
    tab,    \* see Empty
    asks    \* the requests under way
editorVars == <<tab, asks, turns, history>>

\* A request: what it asks for, the design or board it was made with, when, and
\* whether its answer will still be looked at.
Request(op, what, with) ==
    [op |-> op, what |-> what, with |-> with, at |-> tab.acts, live |-> TRUE]

\* The tab before a design is opened, and one in which a design was adopted a
\* while ago.
Empty ==
    [doc |-> None, original |-> None, by |-> "none",
     example |-> None, saved |-> None, board |-> None,
     timer |-> FALSE, shown |-> None, error |-> FALSE,
     rendering |-> FALSE, solving |-> FALSE,
     pending |-> FALSE, session |-> None, acts |-> MaxActs]
Settled(d) ==
    [Empty EXCEPT !.doc = d, !.original = d, !.by = "load", !.board = d.board,
                  !.shown = IF RenderAnswers(d) THEN d ELSE None, !.error = ~RenderAnswers(d)]

EditorInit ==
    /\ tab \in {Empty} \cup {Settled(d) : d \in Fresh}
    /\ asks = {}
    /\ TurnsInit

MayAct == tab.doc # None /\ tab.acts > 0
Acted(t) == [t EXCEPT !.acts = @ - 1]

\* The board the tab has in hand.
Ctx(board) == IF board = None THEN NoBoard ELSE Boards[board]

\* An effect that runs again first makes the answers it waits for void.
\* Mutant: it does not.
Voided_Not(those, op) == those
Voided(those, op) ==
    {IF a.op = op THEN [a EXCEPT !.live = FALSE] ELSE a : a \in those}

\* The tab shows another design, or another copy of the same: the debounce
\* starts over, and the board is fetched if it is another one.
Showing(t, d, by) ==
    [t EXCEPT !.doc = d, !.by = by, !.timer = @ \/ by # "reset" \/ d # t.doc,
              !.board = IF d = None THEN None ELSE @]
Fetching(those, d) ==
    IF tab.doc # None /\ d # None /\ d.board = tab.doc.board THEN those
    ELSE Voided(those, "board") \cup (IF d = None THEN {} ELSE {Request("board", d.board, None)})
Puts(t, those, d, by) ==
    /\ tab' = Showing(t, d, by)
    /\ asks' = Fetching(those, d)

-----------------------------------------------------------------------------
(* Edits.                                                                  *)

WebEdits(d) ==
    {AddBusFor(d, type, Ctx(tab.board)) : type \in BusTypes}
    \cup (UNION {{RenameBus(d, id, new) : new \in NewNames \ Ids(d.buses)}
                 \cup {RemoveBus(d, id)} : id \in Ids(d.buses)})
    \cup UNION {{UpdateBus(d, d.buses[b].id, slot, None) : slot \in DOMAIN d.buses[b].pins} :
                b \in DOMAIN d.buses}
    \cup UNION {{RemoveComponent(d, id), UpdateComponentParam(d, id, "p", TRUE)} : id \in Ids(d.comps)}
    \cup {SetLockedPin(d, d.conns[i].comp, d.conns[i].role, d.conns[i].target.to) :
            i \in {j \in DOMAIN d.conns : d.conns[j].target.kind = "gpio"}}
    \cup {UpdateConnectionTarget(d, i, DefaultTargetForKind(d, kind, Ctx(tab.board))) :
            i \in DOMAIN d.conns, kind \in Retargets}
    \cup {SetBoardLibraryId(d, board) : board \in DOMAIN Boards}
    \cup {SetBoardRevision(d, revision) :
            revision \in {None} \cup (IF d.board \in DOMAIN Boards THEN Board(d).revisions ELSE {})}
    \cup {SetBoardFlashSize(d, 16), AddRequirement(d)}
    \cup {RemoveRequirement(d, k) : k \in DOMAIN d.reqs}

Edit ==
    /\ MayAct
    /\ \E d \in WebEdits(tab.doc) : Puts(Acted(tab), asks, d, "edit")
    /\ UNCHANGED turnVars

Reset ==
    /\ MayAct /\ tab.original # None
    /\ Puts(Acted(tab), asks, tab.original, "reset")
    /\ UNCHANGED turnVars

-----------------------------------------------------------------------------
(* Another design.                                                         *)

\* An example is fetched whenever another one is selected; the answer for the
\* one before is void.
SelectExample(id) ==
    /\ tab.acts > 0
    /\ tab' = [Acted(tab) EXCEPT !.saved = None, !.example = id,
                                 !.error = @ /\ tab.example = id]
    /\ asks' = IF tab.example = id THEN asks
               ELSE Voided(asks, "example") \cup {Request("example", id, None)}
    /\ UNCHANGED turnVars

Opens(t, those, d) == Puts([t EXCEPT !.original = d], those, d, "load")

ExampleArrives(a) ==
    /\ a.op = "example"
    /\ IF a.live THEN Opens(tab, asks \ {a}, Examples[a.what])
       ELSE asks' = asks \ {a} /\ UNCHANGED tab
    /\ UNCHANGED turnVars

\* A stored design is fetched first and selected when it is there, whatever was
\* selected meanwhile.
SelectSaved(id) ==
    /\ tab.acts > 0
    /\ tab' = Acted(tab)
    /\ asks' = asks \cup {Request("saved", id, None)}
    /\ UNCHANGED turnVars
SavedArrives(a) ==
    /\ a.op = "saved"
    /\ Opens([tab EXCEPT !.example = None, !.saved = a.what],
             Voided(asks \ {a}, "example"), Stored[a.what])
    /\ UNCHANGED turnVars

\* A design made by a dialog is adopted at once.
Adopt(d) ==
    /\ tab.acts > 0
    /\ Opens([Acted(tab) EXCEPT !.example = None, !.saved = None], Voided(asks, "example"), d)
    /\ UNCHANGED turnVars

\* The stored design the tab is on is deleted.
Deleted ==
    /\ tab.saved # None
    /\ Puts([tab EXCEPT !.original = None, !.saved = None], asks, None, "load")
    /\ UNCHANGED turnVars

-----------------------------------------------------------------------------
(* Parts, modules and the solver.                                          *)

\* The part is fetched; it lands in the design there is then, with the board
\* in hand at the click.
ClickAdd(lib) ==
    /\ MayAct
    /\ tab' = Acted(tab)
    /\ asks' = asks \cup {Request("part", lib, tab.board)}
    /\ UNCHANGED turnVars
PartArrives(a) ==
    /\ a.op = "part"
    /\ IF tab.doc = None THEN asks' = asks \ {a} /\ UNCHANGED tab
       ELSE Puts(tab, asks \ {a}, WebAddComponent(tab.doc, a.what, Ctx(a.with)), "part")
    /\ UNCHANGED turnVars

\* A module is inserted, and pins are solved, by the server: in the design it
\* was sent, which then takes the place of whatever is there.
ClickInsert(members) ==
    /\ MayAct
    /\ tab' = Acted(tab)
    /\ asks' = asks \cup {Request("insert", members, tab.doc)}
    /\ UNCHANGED turnVars
InsertArrives(a) ==
    /\ a.op = "insert"
    /\ Puts(tab, asks \ {a}, InsertModule(a.with, a.what), "answer")
    /\ UNCHANGED turnVars

ClickSolve ==
    /\ MayAct /\ ~tab.solving
    /\ tab' = [Acted(tab) EXCEPT !.solving = TRUE]
    /\ asks' = asks \cup {Request("solve", None, tab.doc)}
    /\ UNCHANGED turnVars
SolveArrives(a) ==
    /\ a.op = "solve"
    /\ Puts([tab EXCEPT !.solving = FALSE], asks \ {a},
             [a.with EXCEPT !.conns = Solve(a.with).conns], "answer")
    /\ UNCHANGED turnVars

-----------------------------------------------------------------------------
(* What follows the design.                                                *)

BoardArrives(a) ==
    /\ a.op = "board"
    /\ asks' = asks \ {a}
    /\ tab' = IF a.live THEN [tab EXCEPT !.board = a.what] ELSE tab
    /\ UNCHANGED turnVars

\* The debounce is over: the rendering before is void and the next is asked
\* for, if there is a design.
Debounced ==
    /\ tab.timer
    /\ tab' = [tab EXCEPT !.timer = FALSE, !.rendering = @ \/ tab.doc # None]
    /\ asks' = Voided(asks, "render") \cup
               (IF tab.doc = None THEN {} ELSE {Request("render", None, tab.doc)})
    /\ UNCHANGED turnVars

RenderArrives(a) ==
    /\ a.op = "render"
    /\ asks' = asks \ {a}
    /\ tab' = IF ~a.live THEN tab
              ELSE IF RenderAnswers(a.with)
              THEN [tab EXCEPT !.rendering = FALSE, !.error = FALSE, !.shown = a.with]
              ELSE [tab EXCEPT !.rendering = FALSE, !.error = TRUE]
    /\ UNCHANGED turnVars

\* A request fails.  An error stays on the screen until a rendering succeeds or
\* an example is selected; a board's, and what nobody waits for, is dropped.
AskFails(a) ==
    /\ asks' = asks \ {a}
    /\ tab' = IF ~a.live \/ a.op = "board" THEN tab
              ELSE [tab EXCEPT !.error = TRUE,
                               !.rendering = @ /\ a.op # "render",
                               !.solving = @ /\ a.op # "solve"]
    /\ UNCHANGED turnVars

-----------------------------------------------------------------------------
(* The agent's drawer.                                                     *)

Send ==
    /\ MayAct /\ ~tab.pending /\ Len(turns) < MaxSends
    /\ tab' = [Acted(tab) EXCEPT !.pending = TRUE]
    /\ turns' = Append(turns, Sent(tab.session, tab.doc))
    /\ UNCHANGED <<asks, history>>

\* "New", which does not wait for the turn.
NewSession ==
    /\ tab.acts > 0 /\ Len(turns) > 0
    /\ tab' = [Acted(tab) EXCEPT !.session = None]
    /\ UNCHANGED <<asks, turns, history>>

\* The stream's events come in order, session_start first.
Hears(k) ==
    /\ turns[k].heard /\ ~turns[k].known /\ turns[k].pc \notin {"sent", "over"}
    /\ turns[k].session # None
    /\ turns' = [turns EXCEPT ![k].known = TRUE]
    /\ tab' = [tab EXCEPT !.session = turns[k].session]
    /\ UNCHANGED <<asks, history>>

Completes(k) ==
    /\ turns[k].heard /\ turns[k].known /\ Going(k, "complete", "over")
    /\ Puts([tab EXCEPT !.pending = FALSE], asks, turns[k].doc, "answer")
    /\ UNCHANGED history

Reported(t) == [t EXCEPT !.pending = FALSE]
Fails(k) ==
    /\ turns[k].heard /\ (turns[k].known \/ turns[k].session = None)
    /\ Going(k, "error", "over")
    /\ tab' = Reported(tab)
    /\ UNCHANGED <<asks, history>>

\* The connection is lost, and with it what the turn still has to say.
Lost(k) ==
    /\ turns[k].heard /\ turns[k].pc # "over"
    /\ turns' = [turns EXCEPT ![k].heard = FALSE]
    /\ tab' = Reported(tab)
    /\ UNCHANGED <<asks, history>>

-----------------------------------------------------------------------------
User ==
    \/ Edit \/ Reset \/ ClickSolve \/ Send \/ NewSession
    \/ \E id \in DOMAIN Examples : SelectExample(id)
    \/ \E id \in DOMAIN Stored : SelectSaved(id)
    \/ \E d \in Fresh : Adopt(d)
    \/ \E lib \in Addable : ClickAdd(lib)
    \/ \E members \in Bundles : ClickInsert(members)
Arrives(a) ==
    \/ ExampleArrives(a) \/ SavedArrives(a) \/ PartArrives(a) \/ InsertArrives(a)
    \/ SolveArrives(a) \/ BoardArrives(a) \/ RenderArrives(a) \/ AskFails(a)
Drawer(k) == Hears(k) \/ Completes(k) \/ Fails(k)
Server(k) == TurnStep(k) /\ UNCHANGED <<tab, asks>>

EditorNext ==
    \/ User \/ Deleted \/ Debounced
    \/ \E a \in asks : Arrives(a)
    \/ \E k \in DOMAIN turns : Server(k) \/ Drawer(k) \/ Lost(k)

EditorSpec == EditorInit /\ [][EditorNext]_editorVars

-----------------------------------------------------------------------------
(* Properties.                                                             *)

EditorTypeOK ==
    /\ tab.by \in {"none", "load", "edit", "reset", "part", "answer"}
    /\ tab.board \in DOMAIN Boards \cup {None}
    /\ \A a \in asks : a.op \in {"example", "saved", "part", "insert", "solve", "board", "render"}
    /\ {"timer", "error", "rendering", "solving", "pending"} \subseteq DOMAIN tab

Waits(op) == \E a \in asks : a.op = op /\ a.live

\* With nothing under way, the rendering on the screen is of the design on the
\* screen, or an error says that it is not: an answer that comes late never
\* stays.
ShowsTheDesign ==
    ~tab.timer /\ ~Waits("render") /\ ~Waits("example") /\ tab.doc # None
       => tab.shown = tab.doc \/ tab.error

\* What the tab waits for is under way: no spinner outlives the turn or the
\* solver's answer it stands for.
WaitsEnd ==
    /\ tab.pending => \E k \in DOMAIN turns : turns[k].heard /\ turns[k].pc # "over"
    /\ tab.solving => Waits("solve")

Distinct(things) == \A i, j \in DOMAIN things : things[i].id = things[j].id => i = j

\* Whatever is added, renamed, removed and added again: no two components, and
\* no two buses, have one id, and a bus has an id that ESPHome reserves only if
\* the user typed it: a rename refuses ids that are empty or taken, no others
\* (BusList.tsx:168-177).
IdsAreUnique ==
    tab.doc # None =>
       /\ Distinct(tab.doc.comps) /\ Distinct(tab.doc.buses)
       /\ Ids(tab.doc.buses) \cap ReservedBusIds \subseteq NewNames
       /\ \A i, j \in DOMAIN tab.doc.reqs : tab.doc.reqs[i] = tab.doc.reqs[j] => i = j

\* The buses a connection leads to, by their place.
LeadsOn(d, i) == {b \in DOMAIN d.buses : d.conns[i].target.kind = "bus"
                                         /\ d.buses[b].id = d.conns[i].target.to}
New(i) == i > Len(tab.doc.conns)

\* A part lands beside everything there is at that moment, whatever was edited
\* since the click, and each of its bus pins on a bus of its type.
PartsLandBeside ==
    tab'.by = "part" /\ tab'.doc # tab.doc =>
       /\ IsPrefix(tab.doc.comps, tab'.doc.comps)
       /\ IsPrefix(tab.doc.buses, tab'.doc.buses)
       /\ IsPrefix(tab.doc.conns, tab'.doc.conns)
       /\ \A i \in DOMAIN tab'.doc.conns :
             (New(i) /\ BusTypeOf(PinOf(tab'.doc, tab'.doc.conns[i]).kind) # None) =>
                \E b \in LeadsOn(tab'.doc, i) :
                   tab'.doc.buses[b].type = BusTypeOf(PinOf(tab'.doc, tab'.doc.conns[i]).kind)

\* A bus keeps what is on it when it is renamed, and takes nothing from another.
RenamesKeepTheWiring ==
    (/\ tab'.by = "edit" /\ tab.doc # None
     /\ Len(tab'.doc.buses) = Len(tab.doc.buses) /\ Ids(tab'.doc.buses) # Ids(tab.doc.buses))
    => \A i \in DOMAIN tab.doc.conns :
          LeadsOn(tab.doc, i) # {} => LeadsOn(tab'.doc, i) = LeadsOn(tab.doc, i)

\* A bus added without a default of the board is on pins of its own, none of
\* which the checker calls impossible or the console's.
SuggestionsAreFree ==
    LET bus == tab'.doc.buses[Len(tab'.doc.buses)] IN
    (/\ tab'.by = "edit" /\ tab.doc # None /\ Len(tab'.doc.buses) > Len(tab.doc.buses)
     /\ bus.type \notin DOMAIN Ctx(tab.board).defaults)
    =>    /\ BusPins(bus) \cap UsedPins(tab.doc) = {}
          /\ Cardinality(BusPins(bus)) = Cardinality(DOMAIN bus.pins)
          /\ tab.board = tab.doc.board =>
                \A w \in BusWarnings(tab'.doc) :
                   w.where = bus.id => w.code \notin {"input_only_as_output", "serial_console"}

\* An answer to a design nobody has touched since keeps every binding there is.
AnswersKeepBindings ==
    \A a \in asks \ asks' :
       a.op \in {"solve", "insert"} /\ tab'.by = "answer" /\ a.with = tab.doc =>
          /\ IsPrefix(tab.doc.comps, tab'.doc.comps)
          /\ \A i \in DOMAIN tab.doc.conns :
                ~Unbound(tab.doc.conns[i].target) => tab'.doc.conns[i] = tab.doc.conns[i]

\* Whatever comes late, the screen and the sessions agree with what was done.
EditorSound == TurnsTypeOK /\ ShowsTheDesign /\ WaitsEnd /\ LatestStays /\ HistoryOfTurns

\* The edits and the answers, step by step: what each does to the design.
EditsSound ==
    /\ [](EditorTypeOK /\ IdsAreUnique)
    /\ [][/\ PartsLandBeside /\ RenamesKeepTheWiring
          /\ SuggestionsAreFree /\ AnswersKeepBindings]_editorVars
=============================================================================
