---------------------------- MODULE DesignStudio ----------------------------
(***************************************************************************)
(* The design store and the three kinds of caller that share it: HTTP      *)
(* requests (api/app.py, one thread each), MCP tools (mcp/server.py) and   *)
(* the active-design pointer both read and write.  No lock is taken        *)
(* anywhere: a call is the sequence of its file-system or SQLite           *)
(* operations, of publish() and of pointer accesses, and calls interleave  *)
(* between any two of them.  A process crash may stop every call midway.   *)
(***************************************************************************)
EXTENDS Naturals, FiniteSets

CONSTANTS
    Ids,         \* design ids
    Callers,     \* threads serving requests, one call each at a time
    NoId,        \* None: no id, no active design
    EmptyId,     \* the empty string a client may send for an id
    Backends,    \* the stores deployments are configured with
    Ops,         \* the requests clients make
    MaxCalls,    \* bound: calls made in a behaviour
    MaxCrashes   \* bound: crashes of the process

AllOps == {"post", "edit", "apply", "create", "overwrite", "delete", "put",
           "setactive"}

ASSUME StudioAssumption ==
    /\ NoId \notin Ids /\ EmptyId \notin Ids /\ NoId # EmptyId
    /\ Backends \subseteq {"file", "sqlite"} /\ Backends # {}
    /\ Ops \subseteq AllOps
    /\ MaxCalls \in Nat /\ MaxCrashes \in Nat

\* What a stored design is.  A document is the set of the changes it carries,
\* each made for one design by one call; Torn is a file truncated and not yet
\* written, Mangled one that two overlapping writers left unreadable.
Change == Ids \X (1..MaxCalls)
Document == [kind : {"doc"}, changes : SUBSET Change]
Doc(changes) == [kind |-> "doc", changes |-> changes]
Absent == [kind |-> "absent"]
Torn == [kind |-> "torn"]
Mangled == [kind |-> "mangled"]

VARIABLES
    backend,     \* the store this process was started with
    stored,      \* what the store holds under each id
    active,      \* ActiveDesignTracker._id
    lastEvent,   \* history: the kind of the last event published for an id
    unsaid,      \* history: the id was written since that event
    intended,    \* history: what the last completed write or delete left
    clean,       \* history: the last save opened found no other one open, and
                 \* no crash interrupted it
    pc,          \* where each call is
    req,         \* its request
    doc,         \* the document it holds in memory
    linked,      \* its open file handle still is the file at the path
    calls, crashes

storeVars == <<stored, intended, clean>>
busVars == <<lastEvent, unsaid>>
bounds == <<calls, crashes>>
vars == <<backend, stored, active, lastEvent, unsaid, intended, clean, pc, req, doc,
          linked, calls, crashes>>

Steps == {"idle", "load", "exists", "save", "write", "stat", "unlink",
          "publish", "activate", "compare", "clear"}
Requests == [op : AllOps, asked : Ids \cup {NoId, EmptyId},
             target : Ids \cup {NoId, EmptyId}, mark : 0..MaxCalls]
Readable(content) == content.kind = "doc"

TypeOK ==
    /\ backend \in Backends
    /\ stored \in [Ids -> Document \cup {Absent, Torn, Mangled}]
    /\ active \in Ids \cup {NoId}
    /\ lastEvent \in [Ids -> {"none", "saved", "deleted"}]
    /\ unsaid \in [Ids -> BOOLEAN]
    /\ intended \in [Ids -> Document \cup {Absent}]
    /\ clean \in [Ids -> BOOLEAN]
    /\ pc \in [Callers -> Steps]
    /\ req \in [Callers -> Requests]
    /\ \A c \in Callers : req[c].target \in Ids
                          \/ pc[c] \in {"idle", "activate"}
    /\ doc \in [Callers -> SUBSET Change]
    /\ linked \in [Callers -> BOOLEAN]
    /\ calls \in 0..MaxCalls /\ crashes \in 0..MaxCrashes

Init ==
    /\ backend \in Backends
    /\ stored = [i \in Ids |-> Absent]
    /\ active = NoId
    /\ lastEvent = [i \in Ids |-> "none"]
    /\ unsaid = [i \in Ids |-> FALSE]
    /\ intended = [i \in Ids |-> Absent]
    /\ clean = [i \in Ids |-> TRUE]
    /\ pc = [c \in Callers |-> "idle"]
    /\ req = [c \in Callers |-> [op |-> "put", asked |-> NoId,
                                 target |-> NoId, mark |-> 0]]
    /\ doc = [c \in Callers |-> {}]
    /\ linked = [c \in Callers |-> FALSE]
    /\ calls = 0 /\ crashes = 0

-----------------------------------------------------------------------------
(* Requests arriving.                                                      *)

\* design_id or active.get(), evaluated once, when the tool starts.
Resolve(asked) == IF asked = NoId THEN active ELSE asked

\* The handler's first access to shared state.
FirstStep(op) ==
    CASE op \in {"edit", "apply"} -> "load"
      [] op \in {"post", "overwrite"} -> "save"
      [] op = "create" -> "exists"
      [] op = "delete" -> IF backend = "sqlite" THEN "unlink" ELSE "exists"
      [] op = "setactive" -> "exists"
      [] op = "put" -> "activate"

\* The ids a request may name: PUT /designs/active takes null and any string;
\* the tools fall back on the active design; the rest name a design.
Askable(op) ==
    CASE op = "put" -> Ids \cup {NoId, EmptyId}
      [] op \in {"edit", "apply"} -> Ids \cup {NoId}
      [] OTHER -> Ids

Begin(c, op, asked) ==
    /\ pc[c] = "idle"
    /\ calls < MaxCalls
    /\ asked \in Askable(op)
    /\ op \in {"edit", "apply"} => Resolve(asked) # NoId
    /\ LET target == IF op = "put" THEN asked ELSE Resolve(asked)
       IN  /\ req' = [req EXCEPT ![c] = [op |-> op, asked |-> asked,
                                         target |-> target,
                                         mark |-> calls + 1]]
           /\ doc' = [doc EXCEPT ![c] =
                        IF op \in {"post", "create", "overwrite"}
                        THEN {<<target, calls + 1>>} ELSE {}]
    /\ pc' = [pc EXCEPT ![c] = FirstStep(op)]
    /\ calls' = calls + 1
    /\ UNCHANGED <<storeVars, busVars, active, linked, crashes>>

\* The caller's thread goes on to the next step, touching nothing shared.
Goto(c, step) == pc' = [pc EXCEPT ![c] = step]
Untouched == UNCHANGED <<storeVars, busVars, active, req, linked, bounds>>

-----------------------------------------------------------------------------
(* Reading the store.                                                      *)

\* designs.load: a missing or unreadable design raises and ends the call.
LoadFails(c) ==
    /\ pc[c] = "load"
    /\ ~Readable(stored[req[c].target])
    /\ Goto(c, "idle")
    /\ UNCHANGED doc
    /\ Untouched

\* An edit tool changes the loaded document, or is refused and saves it
\* back as it was, or raises before its save.
LoadForEdit(c) ==
    LET content == stored[req[c].target]
    IN  /\ pc[c] = "load" /\ req[c].op = "edit"
        /\ Readable(content)
        /\ \/ /\ \E made \in {{}, {<<req[c].target, req[c].mark>>}} :
                    doc' = [doc EXCEPT ![c] = content.changes \cup made]
              /\ Goto(c, "save")
           \/ Goto(c, "idle") /\ UNCHANGED doc
        /\ Untouched

\* apply_substitutions calls designs.save(resolved, document): the document
\* arrives as design_id, sanitize_id raises ValueError, and nothing is saved.
\* Without a proposal the tool returns without saving.
AfterApply == "idle"

LoadForApply(c) ==
    LET content == stored[req[c].target]
    IN  /\ pc[c] = "load" /\ req[c].op = "apply"
        /\ Readable(content)
        /\ \/ /\ doc' = [doc EXCEPT ![c] =
                  content.changes \cup {<<req[c].target, req[c].mark>>}]
              /\ Goto(c, AfterApply)
           \/ Goto(c, "idle") /\ UNCHANGED doc
        /\ Untouched

\* designs.exists: create_design goes on only for a new id, delete (file
\* store) and set_active_design only for a stored one.
CheckExists(c) ==
    LET here == stored[req[c].target] # Absent
        op == req[c].op
    IN  /\ pc[c] = "exists"
        /\ \/ op = "create" /\ Goto(c, IF here THEN "idle" ELSE "save")
           \/ op = "delete" /\ Goto(c, IF here THEN "unlink" ELSE "idle")
           \/ op = "setactive" /\ Goto(c, IF here THEN "activate" ELSE "idle")
        /\ UNCHANGED doc
        /\ Untouched

-----------------------------------------------------------------------------
(* Writing the store.                                                      *)

\* The id a save writes to: the one resolved when the tool started.
SaveTarget_Reresolved(c) ==
    IF Resolve(req[c].asked) \in Ids THEN Resolve(req[c].asked)
    ELSE req[c].target
SaveTarget(c) == req[c].target

\* The calls with the file of id i open for writing.
Writers(i) == {c \in Callers : pc[c] = "write" /\ linked[c]
                               /\ SaveTarget(c) = i}

\* EventEmittingDesignStore.save and .delete publish once the inner store
\* has reported success; HTTP and MCP share the wrapped store.
AfterStore_Unwrapped(op) == IF op = "edit" THEN "idle" ELSE "publish"
AfterStore(op) == "publish"

\* SqliteDesignStore.save: one upsert in one transaction.
Upsert(c) ==
    LET i == SaveTarget(c)
    IN  /\ backend = "sqlite"
        /\ pc[c] = "save"
        /\ stored' = [stored EXCEPT ![i] = Doc(doc[c])]
        /\ intended' = [intended EXCEPT ![i] = Doc(doc[c])]
        /\ unsaid' = [unsaid EXCEPT ![i] = TRUE]
        /\ Goto(c, AfterStore(req[c].op))
        /\ UNCHANGED <<active, lastEvent, clean, req, doc, linked, bounds>>

\* Path.write_text opens the file, which truncates or creates it ...
Opened_InPlace(content) == IF content = Absent THEN Torn ELSE content
Opened(content) == Torn

OpenFile(c) ==
    LET i == SaveTarget(c)
    IN  /\ backend = "file"
        /\ pc[c] = "save"
        /\ stored' = [stored EXCEPT ![i] = Opened(@)]
        /\ linked' = [linked EXCEPT ![c] = TRUE]
        /\ clean' = [clean EXCEPT ![i] = Writers(i) = {}]
        /\ Goto(c, "write")
        /\ UNCHANGED <<busVars, active, intended, req, doc, bounds>>

\* ... then writes from the start.  Over what another writer put there since,
\* a shorter document leaves that one's tail; a handle whose file was
\* unlinked meanwhile writes to no path.
WriteFile(c) ==
    LET i == SaveTarget(c)
    IN  /\ pc[c] = "write"
        /\ \/ /\ linked[c]
              /\ \E content \in IF stored[i] = Torn THEN {Doc(doc[c])}
                                ELSE {Doc(doc[c]), Mangled} :
                    stored' = [stored EXCEPT ![i] = content]
              /\ intended' = [intended EXCEPT ![i] = Doc(doc[c])]
              /\ unsaid' = [unsaid EXCEPT ![i] = TRUE]
           \/ ~linked[c] /\ UNCHANGED <<stored, intended, unsaid>>
        /\ linked' = [linked EXCEPT ![c] = FALSE]
        /\ Goto(c, "stat")
        /\ UNCHANGED <<active, lastEvent, clean, req, doc, bounds>>

\* path.stat() for saved_at raises when the file is gone again: the save
\* fails and publishes nothing.
StatFile(c) ==
    /\ pc[c] = "stat"
    /\ Goto(c, IF stored[SaveTarget(c)] = Absent THEN "idle"
               ELSE AfterStore(req[c].op))
    /\ UNCHANGED doc
    /\ Untouched

\* path.unlink(), or DELETE ... WHERE id = ?: a design deleted by another
\* call meanwhile raises (file) or removes no row (SQLite).
Unlink(c) ==
    LET i == req[c].target
    IN  /\ pc[c] = "unlink"
        /\ \/ /\ stored[i] # Absent
              /\ stored' = [stored EXCEPT ![i] = Absent]
              /\ intended' = [intended EXCEPT ![i] = Absent]
              /\ unsaid' = [unsaid EXCEPT ![i] = TRUE]
              /\ linked' = [w \in Callers |-> linked[w] /\ w \notin Writers(i)]
              /\ Goto(c, AfterStore("delete"))
           \/ /\ stored[i] = Absent
              /\ Goto(c, "idle")
              /\ UNCHANGED <<stored, intended, unsaid, linked>>
        /\ UNCHANGED <<active, lastEvent, clean, req, doc, bounds>>

Publish(c) ==
    LET i == SaveTarget(c)
        op == req[c].op
    IN  /\ pc[c] = "publish"
        /\ lastEvent' = [lastEvent EXCEPT ![i] =
                           IF op = "delete" THEN "deleted" ELSE "saved"]
        /\ unsaid' = [unsaid EXCEPT ![i] = FALSE]
        /\ \/ op = "delete" /\ Goto(c, "compare")
           \/ op \in {"create", "overwrite"} /\ Goto(c, "activate")
           \/ op # "delete" /\ Goto(c, "idle")    \* activate=false included
        /\ UNCHANGED <<storeVars, active, req, doc, linked, bounds>>

-----------------------------------------------------------------------------
(* The active-design pointer.                                              *)

\* ActiveDesignTracker.set: the empty string is None.
Normalized(i) == IF i = EmptyId THEN NoId ELSE i

Activate(c) ==
    /\ pc[c] = "activate"
    /\ active' = Normalized(req[c].target)
    /\ Goto(c, "idle")
    /\ UNCHANGED <<storeVars, busVars, req, doc, linked, bounds>>

\* delete_saved_design: if active.get() == design_id: active.clear().
Compare(c) ==
    /\ pc[c] = "compare"
    /\ Goto(c, IF active = req[c].target THEN "clear" ELSE "idle")
    /\ UNCHANGED doc
    /\ Untouched

Clear(c) ==
    /\ pc[c] = "clear"
    /\ active' = NoId
    /\ Goto(c, "idle")
    /\ UNCHANGED <<storeVars, busVars, req, doc, linked, bounds>>

-----------------------------------------------------------------------------
\* The process dies and restarts: calls, the tracker and the event streams
\* are gone, the files (or the database's committed rows) remain.
Crash ==
    /\ crashes < MaxCrashes
    /\ crashes' = crashes + 1
    /\ clean' = [i \in Ids |-> clean[i] /\ Writers(i) = {}]
    /\ active' = NoId
    /\ lastEvent' = [i \in Ids |-> "none"]
    /\ unsaid' = [i \in Ids |-> FALSE]
    /\ pc' = [c \in Callers |-> "idle"]
    /\ linked' = [c \in Callers |-> FALSE]
    /\ doc' = [c \in Callers |-> {}]
    /\ UNCHANGED <<stored, intended, req, calls>>

Step(c) ==
    \/ LoadFails(c) \/ LoadForEdit(c) \/ LoadForApply(c) \/ CheckExists(c)
    \/ Upsert(c) \/ OpenFile(c) \/ WriteFile(c) \/ StatFile(c)
    \/ Unlink(c) \/ Publish(c) \/ Activate(c) \/ Compare(c) \/ Clear(c)

Next ==
    /\ \/ \E c \in Callers :
             \/ \E op \in Ops : \E asked \in Askable(op) : Begin(c, op, asked)
             \/ Step(c)
       \/ Crash
    /\ UNCHANGED backend

Spec == Init /\ [][Next]_vars

-----------------------------------------------------------------------------
(* Properties *)

\* events.py:85 "publishes a DesignEvent after each write": a design written
\* or deleted since its last event has a call still on its way to publish,
\* even when deletions make saves fail after they have written.
NoSilentWrite ==
    \A i \in Ids : unsaid[i] =>
        \E c \in Callers : pc[c] \in {"stat", "publish"} /\ SaveTarget(c) = i

\* store.py:123 "Write the design to disk": a save that opens the file while no
\* other save of that design is open repairs whatever crashes and overlapping
\* saves did before; from then on the store holds exactly what the last
\* completed save or delete left, or a writer is at work on it.
LastSaveStands ==
    \A i \in Ids : clean[i] =>
        stored[i] = intended[i] \/ (stored[i] = Torn /\ Writers(i) # {})

\* A document edited for one design is never stored under another, although
\* the active design the tools default to may change between their load and
\* their save.
DocStaysHome ==
    \A i \in Ids : Readable(stored[i]) =>
        \A change \in stored[i].changes : change[1] = i

\* The type invariant, and every document is at home.
StoreSound == TypeOK /\ DocStaysHome

-----------------------------------------------------------------------------
(* What the documentation says and the code does not keep: TLC finds a      *)
(* behaviour against each (README.md, "Refuted claims").                    *)

Quiet == \A c \in Callers : pc[c] = "idle"

\* server.py:296 "Refuses an id that already exists unless overwrite is
\* true": no create_design call without it replaces a stored design.
CreateNeverReplaces ==
    [][\A c \in Callers :
         pc[c] = "save" /\ req[c].op = "create" /\ pc'[c] # "save"
           /\ crashes' = crashes
         => stored[req[c].target] = Absent]_vars

\* app.py:1331 "Clear the active design pointer if it was just deleted":
\* once every call has returned, the active design is a stored one.
ActiveIsStored == Quiet /\ active # NoId => stored[active] # Absent

\* active.py:13 "Concurrency-safe because the underlying assignment is
\* atomic": deleting a design clears the pointer only from that design.
ClearsOnlyItsOwn ==
    [][\A c \in Callers : pc[c] = "clear" /\ pc'[c] = "idle"
                          /\ crashes' = crashes
                          => active = req[c].target]_vars

\* App.tsx:306 "`deleted` always wins because the design is gone": once every
\* call has returned, a design whose last event says "deleted" is gone.
DeletedMeansGone ==
    \A i \in Ids : Quiet /\ lastEvent[i] = "deleted" => stored[i] = Absent

\* server.py:892 "setting part_overrides for each affected part key": an
\* apply_substitutions call that found substitutes has them stored by the time
\* it returns.
AppliedIsStored ==
    [][\A c \in Callers :
         LET made == <<req[c].target, req[c].mark>> IN
         req[c].op = "apply" /\ pc[c] # "idle" /\ pc'[c] = "idle"
           /\ crashes' = crashes /\ made \in doc'[c]
         => /\ Readable(stored'[req[c].target])
            /\ made \in stored'[req[c].target].changes]_vars
=============================================================================
