---------------------------- MODULE BrowserSync ----------------------------
(***************************************************************************)
(* web/src/App.tsx: a browser tab's stay on one saved design, from the     *)
(* moment handleSelectSaved has loaded it, while MCP tools and other tabs  *)
(* write to it.  The tab edits it, saves it, and re-fetches it on the      *)
(* events of its EventSource.  Its requests are asynchronous: the server   *)
(* answers at one moment, and the tab applies the answer at a later one,   *)
(* to whatever state it has by then.                                       *)
(***************************************************************************)
EXTENDS Naturals, Sequences

CONSTANTS
    None,        \* null
    Slots,       \* bound: refreshes in flight
    InOrder,     \* TRUE: refreshes are served and answered in the order asked
    MaxDocs,     \* bound: versions of the design ever made
    MaxDue       \* bound: events awaiting publication, or the tab

ASSUME TabAssumption ==
    InOrder \in BOOLEAN /\ MaxDocs \in Nat \ {0} /\ MaxDue \in Nat

\* Every version of the design anybody makes is a document of its own.
Docs == 1..MaxDocs
ASSUME NoneAssumption == None \notin Docs

VARIABLES
    stored,      \* what a load of the store gives
    torn,        \* a save has truncated the design's file
    due,         \* events of writes done, not yet published
    docs,        \* documents made so far
    selected,    \* selectedSaved is this design
    design,      \* the working copy on screen
    original,    \* originalDesign, what Reset goes back to
    connected,   \* the server has subscribed this tab's EventSource
    channel,     \* events on their way to the tab
    refresh,     \* the GETs in flight
    turn,        \* the order they were asked in
    posting,     \* the document of the POST in flight
    posted,      \* whether the server has carried it out
    kept,        \* what migrate() made of each document the store was given
    unheard      \* history: an event was missed while disconnected, or skipped
                 \* while dirty, or overtaken by the answer to the tab's own
                 \* save, and no refresh has been answered since

serverVars == <<stored, torn, due, kept>>
tabVars == <<selected, design, original>>
streamVars == <<connected, channel>>
refreshVars == <<refresh, turn>>
postVars == <<posting, posted>>
vars == <<stored, torn, due, docs, selected, design, original, connected,
          channel, refresh, turn, posting, posted, kept, unheard>>

Kinds == {"saved", "deleted"}
Idle == [state |-> "idle", body |-> None]
NoneOf(S) == S \cup {None}

TypeOK ==
    /\ stored \in NoneOf(Docs)
    /\ torn \in BOOLEAN
    /\ due \in [Kinds -> Nat]
    /\ docs \in Docs
    /\ selected \in BOOLEAN
    /\ design \in NoneOf(Docs)
    /\ original \in NoneOf(Docs)
    /\ connected \in BOOLEAN
    /\ channel \in Seq(Kinds)
    /\ channel # <<>> => connected
    /\ connected => selected
    /\ refresh \in [Slots -> [state : {"idle", "asked", "answered"},
                              body : NoneOf(Docs)]]
    /\ turn \in Seq(Slots)
    /\ posting \in NoneOf(Docs)
    /\ posted \in BOOLEAN
    /\ kept \in [Docs -> NoneOf(Docs)]
    /\ unheard \in BOOLEAN

\* handleSelectSaved has set the three states to the answer of its GET.
Init ==
    /\ stored = 1 /\ torn = FALSE /\ docs = 1
    /\ kept = [doc \in Docs |-> IF doc = 1 THEN 1 ELSE None]
    /\ due = [k \in Kinds |-> 0]
    /\ selected = TRUE /\ design = 1 /\ original = 1
    /\ connected = FALSE /\ channel = <<>>
    /\ refresh = [f \in Slots |-> Idle]
    /\ turn = <<>>
    /\ posting = None /\ posted = FALSE
    /\ unheard = FALSE

-----------------------------------------------------------------------------
(* The server: writes by MCP tools and other tabs, and publication.        *)

\* A write owes an event, published after it.
Owes(kind) ==
    /\ due["saved"] + due["deleted"] < MaxDue
    /\ due' = [due EXCEPT ![kind] = @ + 1]

\* A document is given to the store, which keeps `copy`: migrate() has no
\* more to repair in what it has repaired.
Stores(doc, copy) ==
    /\ stored' = copy
    /\ torn' = FALSE
    /\ kept' = [kept EXCEPT ![doc] = copy, ![copy] = copy]
    /\ Owes("saved")

\* The file store truncates first: until it has written, a GET fails.
Truncate ==
    /\ ~torn
    /\ docs < MaxDocs \/ (posting # None /\ ~posted)
    /\ torn' = TRUE
    /\ UNCHANGED <<stored, due, kept, docs, tabVars, streamVars, refreshVars,
                   postVars, unheard>>

ElsewhereSaves ==
    /\ docs < MaxDocs
    /\ docs' = docs + 1
    /\ Stores(docs + 1, docs + 1)
    /\ UNCHANGED <<tabVars, streamVars, refreshVars, postVars, unheard>>

ElsewhereDeletes ==
    /\ stored # None
    /\ stored' = None
    /\ torn' = FALSE
    /\ Owes("deleted")
    /\ UNCHANGED <<kept, docs, tabVars, streamVars, refreshVars, postVars,
                   unheard>>

Publish(kind) ==
    /\ due[kind] > 0 /\ Len(channel) < MaxDue
    /\ due' = [due EXCEPT ![kind] = @ - 1]
    /\ channel' = IF connected THEN Append(channel, kind) ELSE channel
    /\ unheard' = (unheard \/ ~connected)
    /\ UNCHANGED <<stored, torn, kept, docs, tabVars, connected, refreshVars,
                   postVars>>

-----------------------------------------------------------------------------
(* The EventSource.                                                        *)

\* The stream opens or reopens; its hello event is only logged.
Connect ==
    /\ selected /\ ~connected
    /\ connected' = TRUE
    /\ UNCHANGED <<serverVars, docs, tabVars, channel, refreshVars, postVars,
                   unheard>>

\* The connection drops; EventSource reconnects and nothing is replayed.
Drop ==
    /\ connected
    /\ connected' = FALSE /\ channel' = <<>>
    /\ unheard' = (unheard \/ channel # <<>>)
    /\ UNCHANGED <<serverVars, docs, tabVars, refreshVars, postVars>>

\* isDirty compares the two documents, and is false when either is null.
Dirty == original # None /\ design # None /\ original # design

AskRefresh(f) ==
    /\ refresh[f] = Idle
    /\ refresh' = [refresh EXCEPT ![f].state = "asked"]
    /\ turn' = Append(turn, f)

\* es.addEventListener("saved"): skipped while the tab is dirty.
Skips_AlsoWhileRefreshing == Dirty \/ turn # <<>>
Skips == Dirty

Hears(kind) == channel # <<>> /\ Head(channel) = kind

SkipSaved ==
    /\ Hears("saved") /\ Skips
    /\ channel' = Tail(channel)
    /\ unheard' = (unheard \/ Dirty)
    /\ UNCHANGED <<serverVars, docs, tabVars, connected, refreshVars, postVars>>

RefreshOnSaved(f) ==
    /\ Hears("saved") /\ ~Skips
    /\ channel' = Tail(channel)
    /\ AskRefresh(f)
    /\ UNCHANGED <<serverVars, docs, tabVars, connected, postVars, unheard>>

\* es.addEventListener("deleted"): deselecting closes the EventSource.
OnDeleted ==
    /\ Hears("deleted")
    /\ selected' = FALSE /\ original' = None /\ design' = None
    /\ connected' = FALSE /\ channel' = <<>>
    /\ UNCHANGED <<serverVars, docs, refreshVars, postVars, unheard>>

-----------------------------------------------------------------------------
(* Refreshes.                                                              *)

FirstAsked(f) ==
    \E i \in 1..Len(turn) :
        turn[i] = f /\ \A j \in 1..(i - 1) : refresh[turn[j]].state # "asked"

\* GET /designs/{id}: a missing or torn design is an error, body None.
Answer(f) ==
    /\ refresh[f].state = "asked"
    /\ InOrder => FirstAsked(f)
    /\ refresh' = [refresh EXCEPT ![f] =
                     [state |-> "answered",
                      body |-> IF torn THEN None ELSE stored]]
    /\ unheard' = (unheard /\ (torn \/ stored = None))
    /\ UNCHANGED <<serverVars, docs, tabVars, streamVars, turn, postVars>>

\* setOriginalDesign(d), setDesign(d), whatever the tab shows by now; an
\* error leaves the tab as it is.
RefreshLands(f) ==
    /\ refresh[f].state = "answered"
    /\ LET body == refresh[f].body
       IN  /\ design' = IF body = None THEN design ELSE body
           /\ original' = IF body = None THEN original ELSE body
    /\ refresh' = [refresh EXCEPT ![f] = Idle]
    /\ \E i \in 1..Len(turn) :
          /\ turn[i] = f /\ (InOrder => i = 1)
          /\ turn' = SubSeq(turn, 1, i - 1) \o SubSeq(turn, i + 1, Len(turn))
    /\ UNCHANGED <<serverVars, docs, selected, streamVars, postVars, unheard>>

-----------------------------------------------------------------------------
(* The user.                                                               *)

Edit ==
    /\ design # None
    /\ docs < MaxDocs
    /\ docs' = docs + 1
    /\ design' = docs + 1
    /\ UNCHANGED <<serverVars, selected, original, streamVars, refreshVars,
                   postVars, unheard>>

\* handleReset
Reset ==
    /\ Dirty
    /\ design' = original
    /\ UNCHANGED <<serverVars, docs, selected, original, streamVars,
                   refreshVars, postVars, unheard>>

\* handleSave posts the working copy ...
ClickSave ==
    /\ design # None /\ posting = None
    /\ posting' = design
    /\ UNCHANGED <<serverVars, docs, tabVars, streamVars, refreshVars, posted,
                   unheard>>

\* ... the server stores what migrate() makes of it: the document itself, or,
\* of one it has not seen, a copy with other ids ...
PostArrives ==
    /\ posting # None /\ ~posted
    /\ posted' = TRUE
    /\ \/ /\ kept[posting] # None
          /\ Stores(posting, kept[posting])
          /\ UNCHANGED docs
       \/ /\ kept[posting] = None
          /\ Stores(posting, posting)
          /\ UNCHANGED docs
       \/ /\ kept[posting] = None /\ docs < MaxDocs
          /\ docs' = docs + 1
          /\ Stores(posting, docs + 1)
    /\ UNCHANGED <<tabVars, streamVars, refreshVars, posting, unheard>>

\* ... and the tab takes what it posted, not what is on screen by now, as the
\* new reset target.
NewOriginal_OnScreen == design
NewOriginal == posting

\* A tab deselected meanwhile is on the design again, without having heard
\* what happened to it in between; what the store holds instead, a repaired
\* copy or a later write, may have been shown already.
PostLands ==
    /\ posted
    /\ selected' = TRUE
    /\ original' = NewOriginal
    /\ unheard' = (unheard \/ ~selected \/ stored # posting)
    /\ posting' = None /\ posted' = FALSE
    /\ UNCHANGED <<serverVars, docs, design, streamVars, refreshVars>>

-----------------------------------------------------------------------------
Next ==
    \/ Truncate \/ ElsewhereSaves \/ ElsewhereDeletes
    \/ \E kind \in Kinds : Publish(kind)
    \/ Connect \/ Drop \/ SkipSaved \/ OnDeleted
    \/ \E f \in Slots : RefreshOnSaved(f) \/ Answer(f) \/ RefreshLands(f)
    \/ Edit \/ Reset \/ ClickSave \/ PostArrives \/ PostLands

Spec == Init /\ [][Next]_vars

-----------------------------------------------------------------------------
(* Properties *)

\* Nothing is on its way in either direction.
Quiet ==
    /\ ~torn /\ \A kind \in Kinds : due[kind] = 0
    /\ channel = <<>> /\ turn = <<>> /\ posting = None
InStep == design = stored

\* events.py:4 "A browser tab showing the same design needs to see those
\* writes": once nothing is on its way, a clean tab that missed and skipped no
\* event since its last refresh shows what the store holds, although its
\* refreshes overlap writes and saves, hit a truncated file, or answer an
\* event that is no longer the latest.
ShowsTheStore == Quiet /\ selected /\ ~Dirty /\ ~unheard => InStep

\* App.tsx:595 "saved state is the new reset target": while a saved design is
\* selected, Reset goes back to a document that was saved, that is one the
\* store has held or was given and kept with its references repaired, although
\* the user may type while the save is in flight.
ResetTargetWasSaved == selected => original # None /\ kept[original] # None

\* The type invariant, and Reset goes back to what was saved.
TabSound == TypeOK /\ ResetTargetWasSaved

-----------------------------------------------------------------------------
(* What the documentation says and the code does not keep: TLC finds a      *)
(* behaviour against each (README.md, "Refuted claims").                    *)

\* App.tsx:595 "saved state is the new reset target": Reset goes back to a
\* document the store has held.  save_design stores _migrate(req.design), and
\* the tab keeps what it posted.
ResetTargetWasStored == selected => original # None /\ kept[original] = original

\* App.tsx:305 "silently overwriting them would be hostile": no refresh
\* discards unsaved local edits.
RefreshKeepsEdits ==
    [][\A f \in Slots :
         refresh[f].state = "answered" /\ refresh'[f] = Idle /\ Dirty
         => design' = design]_vars

\* App.tsx:306 "`deleted` always wins because the design is gone": a refresh
\* asked before the deletion does not bring the design back on the screen.
DeletedWins ==
    [][\A f \in Slots :
         refresh[f].state = "answered" /\ refresh'[f] = Idle /\ ~selected
         => design' = design]_vars

\* app.py:1357 "so a late-joining tab can reconcile against its own state": a
\* tab that has connected, with no unsaved edits, shows what the store holds.
LateTabReconciles == Quiet /\ connected /\ ~Dirty => InStep
=============================================================================
