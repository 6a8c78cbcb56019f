---------------------------- MODULE LibraryCache ----------------------------
(***************************************************************************)
(* wirestudio/library/__init__.py and the summaries of api/app.py: the     *)
(* user tree of component (or board) files, the dict of parsed entries in  *)
(* front of it, and the listing the API serves until Library.version says  *)
(* the tree has changed.  HTTP requests and MCP tools share one Library    *)
(* from threads of their own, without a lock.  Bundled files never change  *)
(* and are left out.                                                       *)
(***************************************************************************)
EXTENDS Naturals

CONSTANTS
    Ids,         \* ids of user entries
    Threads,
    Torn,        \* a file truncated and not yet written: it does not validate
    NoEntry,     \* no listing built, no entry named
    Ops,         \* the requests clients make
    MaxWrites,   \* bound: creations
    MaxRestarts  \* bound: restarts of the process

ASSUME LibraryAssumption ==
    /\ Ops \subseteq {"create", "overwrite", "delete", "get", "list"}
    /\ MaxWrites \in Nat /\ MaxRestarts \in Nat
    /\ Torn \notin Nat /\ NoEntry \notin Nat /\ NoEntry \notin Ids

\* What a creation writes is its number; 0 is no file, or no entry.
Entry == 1..MaxWrites
Absent == 0

VARIABLES
    file,        \* the user tree
    cache,       \* Library._components
    version,     \* Library.version
    listed,      \* _summaries: the entries ...
    stamp,       \* ... and their version
    pc,          \* each thread's step
    call,        \* and what it holds
    linked,      \* the threads whose open file is still the one at its path
    planted,     \* history: the cached entry is by a thread that read the file
                 \* before the entry was last dropped
    stale,       \* history: the listing is by a thread that is late
    writes, restarts

listVars == <<listed, stamp, stale>>
bounds == <<writes, restarts>>
cacheVars == <<file, cache, version, listed, stamp, pc, call, linked, planted,
          stale, writes, restarts>>

\* A thread's request; the entry it has written or parsed; for a listing, the
\* ids to take and the entries taken.  History: the entry was dropped since
\* the thread read its file; a listing was overtaken by a write, or took a
\* planted entry.
Calls == [op : {"none", "create", "overwrite", "delete", "get", "list"},
          id : Ids \cup {NoEntry},
          held : Entry \cup {Absent},
          todo : SUBSET Ids,
          draft : [Ids -> Entry \cup {Absent}],
          overtaken : BOOLEAN,
          late : BOOLEAN]

Nothing == [i \in Ids |-> Absent]
NoCall == [op |-> "none", id |-> NoEntry, held |-> Absent, todo |-> {},
           draft |-> Nothing, overtaken |-> FALSE, late |-> FALSE]

CacheTypeOK ==
    /\ file \in [Ids -> Entry \cup {Absent, Torn}]
    /\ cache \in [Ids -> Entry \cup {Absent}]
    /\ version \in Nat
    /\ listed \in [Ids -> Entry \cup {Absent}]
    /\ stamp \in Nat \cup {NoEntry}
    /\ pc \in [Threads -> {"idle", "check", "open", "write", "unlink", "pop",
                           "bump", "look", "read", "fill", "take", "ids",
                           "walk", "list", "stamp"}]
    /\ call \in [Threads -> Calls]
    /\ \A t \in Threads :
          /\ pc[t] \in {"open", "write", "fill"} => call[t].held \in Entry
          /\ pc[t] \in {"idle", "ids", "walk", "list", "stamp"}
             \/ call[t].id \in Ids
    /\ linked \subseteq Threads
    /\ planted \in [Ids -> BOOLEAN]
    /\ stale \in BOOLEAN
    /\ writes \in 0..MaxWrites /\ restarts \in 0..MaxRestarts

CacheInit ==
    /\ file = Nothing /\ cache = Nothing
    /\ version = 0
    /\ listed = Nothing /\ stamp = NoEntry /\ stale = FALSE
    /\ pc = [t \in Threads |-> "idle"]
    /\ call = [t \in Threads |-> NoCall]
    /\ linked = {}
    /\ planted = [i \in Ids |-> FALSE]
    /\ writes = 0 /\ restarts = 0

Goto(t, step) == pc' = [pc EXCEPT ![t] = step] /\ UNCHANGED call

\* The request ends, with a result or an exception.
Return(t) ==
    /\ pc' = [pc EXCEPT ![t] = "idle"]
    /\ call' = [call EXCEPT ![t] = NoCall]

-----------------------------------------------------------------------------
(* Requests.                                                               *)

FirstStep(request) ==
    CASE request \in {"create", "overwrite", "delete"} -> "check"
      [] request = "get" -> "look"
      [] request = "list" -> "ids"

\* A listing is built only when the version has changed.
Begin(t, request, i) ==
    /\ pc[t] = "idle"
    /\ request = "list" => stamp # version
    /\ pc' = [pc EXCEPT ![t] = FirstStep(request)]
    /\ \/ /\ request \in {"create", "overwrite"}
          /\ writes < MaxWrites
          /\ writes' = writes + 1
          /\ call' = [call EXCEPT ![t] = [NoCall EXCEPT !.op = request, !.id = i,
                                                        !.held = writes + 1]]
       \/ /\ request \in {"delete", "get", "list"}
          /\ call' = [call EXCEPT ![t] = [NoCall EXCEPT !.op = request, !.id = i]]
          /\ UNCHANGED writes
    /\ UNCHANGED <<file, cache, version, listVars, linked, planted, restarts>>

\* create_component refuses an existing id without overwrite, _delete a
\* missing one.
Check(t) ==
    LET there == file[call[t].id] # Absent
        op == call[t].op
    IN  /\ pc[t] = "check"
        /\ \/ op = "create" /\ ~there /\ Goto(t, "open")
           \/ op = "overwrite" /\ Goto(t, "open")
           \/ op = "delete" /\ there /\ Goto(t, "unlink")
           \/ op = "create" /\ there /\ Return(t)
           \/ op = "delete" /\ ~there /\ Return(t)
        /\ UNCHANGED <<file, cache, version, listVars, linked, planted, bounds>>

-----------------------------------------------------------------------------
(* _save and _delete.                                                      *)

\* path.write_text: the file is truncated ...
OpenFile(t) ==
    /\ pc[t] = "open"
    /\ file' = [file EXCEPT ![call[t].id] = Torn]
    /\ linked' = linked \cup {t}
    /\ Goto(t, "write")
    /\ UNCHANGED <<cache, version, listVars, planted, bounds>>

\* ... and written; what another thread wrote meanwhile may leave a tail,
\* and a file unlinked meanwhile is at no path.
AfterWrite_NoPop == "bump"
AfterWrite == "pop"

WriteFile(t) ==
    LET i == call[t].id
    IN  /\ pc[t] = "write"
        /\ \/ t \in linked /\ file' = [file EXCEPT ![i] = call[t].held]
           \/ t \in linked /\ file[i] # Torn /\ file' = [file EXCEPT ![i] = Torn]
           \/ t \notin linked /\ UNCHANGED file
        /\ linked' = linked \ {t}
        /\ Goto(t, AfterWrite)
        /\ UNCHANGED <<cache, version, listVars, planted, bounds>>

\* path.unlink(), which raises when another thread was faster.
Unlink(t) ==
    LET i == call[t].id
    IN  /\ pc[t] = "unlink"
        /\ \/ file[i] # Absent /\ Goto(t, "pop")
           \/ file[i] = Absent /\ Return(t)
        /\ file' = [file EXCEPT ![i] = Absent]
        /\ linked' = {w \in linked : call[w].id # i}
        /\ UNCHANGED <<cache, version, listVars, planted, bounds>>

\* cache.pop(library_id, None)
Pop(t) ==
    LET i == call[t].id
    IN  /\ pc[t] = "pop"
        /\ cache' = [cache EXCEPT ![i] = Absent]
        /\ planted' = [planted EXCEPT ![i] = FALSE]
        /\ pc' = [pc EXCEPT ![t] = "bump"]
        /\ call' = [u \in Threads |->
                      IF pc[u] = "fill" /\ call[u].id = i
                      THEN [call[u] EXCEPT !.overtaken = TRUE] ELSE call[u]]
        /\ UNCHANGED <<file, version, listVars, linked, bounds>>

\* self.version += 1
Bumped_Not == version
Bumped == version + 1

Bump(t) ==
    /\ pc[t] = "bump"
    /\ version' = Bumped
    /\ pc' = [pc EXCEPT ![t] = "idle"]
    /\ call' = [u \in Threads |->
                  IF u = t THEN NoCall
                  ELSE IF call[u].op = "list"
                  THEN [call[u] EXCEPT !.late = TRUE] ELSE call[u]]
    /\ UNCHANGED <<file, cache, listVars, linked, planted, bounds>>

-----------------------------------------------------------------------------
(* component(): for a request, or for a listing.                           *)

Look(t) ==
    /\ pc[t] = "look"
    /\ Goto(t, IF cache[call[t].id] = Absent THEN "read" ELSE "take")
    /\ UNCHANGED <<file, cache, version, listVars, linked, planted, bounds>>

\* A missing file raises FileNotFoundError, a truncated one does not
\* validate: the request ends.
Validates(content) == content \in Entry

Read(t) ==
    LET content == file[call[t].id]
    IN  /\ pc[t] = "read"
        /\ \/ /\ Validates(content)
              /\ call' = [call EXCEPT ![t] = [@ EXCEPT !.held = content]]
              /\ pc' = [pc EXCEPT ![t] = "fill"]
           \/ ~Validates(content) /\ Return(t)
        /\ UNCHANGED <<file, cache, version, listVars, linked, planted, bounds>>

Fill(t) ==
    LET i == call[t].id
    IN  /\ pc[t] = "fill"
        /\ cache' = [cache EXCEPT ![i] = call[t].held]
        /\ planted' = [planted EXCEPT ![i] = call[t].overtaken]
        /\ pc' = [pc EXCEPT ![t] = "take"]
        /\ call' = [call EXCEPT ![t] = [@ EXCEPT !.held = Absent,
                                               !.overtaken = FALSE]]
        /\ UNCHANGED <<file, version, listVars, linked, bounds>>

\* A listing takes an entry.
Taken(c, i, entry, late) ==
    [c EXCEPT !.draft[i] = entry, !.late = c.late \/ late]

\* return self._components[library_id]: a KeyError when the entry has been
\* popped since.
Take(t) ==
    LET i == call[t].id
        entry == cache[i]
    IN  /\ pc[t] = "take"
        /\ \/ /\ call[t].op = "list" /\ entry # Absent
              /\ call' = [call EXCEPT ![t] = Taken(@, i, entry, planted[i])]
              /\ pc' = [pc EXCEPT ![t] = "walk"]
           \/ (call[t].op # "list" \/ entry = Absent) /\ Return(t)
        /\ UNCHANGED <<file, cache, version, listVars, linked, planted, bounds>>

-----------------------------------------------------------------------------
(* _refresh.                                                               *)

\* list_components: the ids in the tree ...
ListIds(t) ==
    /\ pc[t] = "ids"
    /\ call' = [call EXCEPT ![t] =
                  [@ EXCEPT !.todo = {i \in Ids : file[i] # Absent}]]
    /\ pc' = [pc EXCEPT ![t] = "walk"]
    /\ UNCHANGED <<file, cache, version, listVars, linked, planted, bounds>>

\* ... and component() for each.
Chosen(c, i) == [c EXCEPT !.id = i, !.todo = c.todo \ {i}]

Walk(t) ==
    /\ pc[t] = "walk"
    /\ \/ \E i \in call[t].todo :
             /\ call' = [call EXCEPT ![t] = Chosen(@, i)]
             /\ pc' = [pc EXCEPT ![t] = "look"]
       \/ call[t].todo = {} /\ Goto(t, "list")
    /\ UNCHANGED <<file, cache, version, listVars, linked, planted, bounds>>

SetListed(t) ==
    /\ pc[t] = "list"
    /\ listed' = call[t].draft
    /\ stale' = call[t].late
    /\ Goto(t, "stamp")
    /\ UNCHANGED <<file, cache, version, stamp, linked, planted, bounds>>

\* _summaries["version"] = lib.version, as it is by now.
SetStamp(t) ==
    /\ pc[t] = "stamp"
    /\ stamp' = version
    /\ stale' = (stale \/ call[t].late)
    /\ Return(t)
    /\ UNCHANGED <<file, cache, version, listed, linked, planted, bounds>>

-----------------------------------------------------------------------------
\* The process dies and restarts: the files remain.
Restart ==
    /\ restarts < MaxRestarts
    /\ restarts' = restarts + 1
    /\ cache' = Nothing /\ planted' = [i \in Ids |-> FALSE]
    /\ version' = 0 /\ stamp' = NoEntry /\ listed' = Nothing /\ stale' = FALSE
    /\ pc' = [t \in Threads |-> "idle"]
    /\ call' = [t \in Threads |-> NoCall]
    /\ linked' = {}
    /\ UNCHANGED <<file, writes>>

Step(t) ==
    \/ Check(t) \/ OpenFile(t) \/ WriteFile(t) \/ Unlink(t) \/ Pop(t) \/ Bump(t)
    \/ Look(t) \/ Read(t) \/ Fill(t) \/ Take(t)
    \/ ListIds(t) \/ Walk(t) \/ SetListed(t) \/ SetStamp(t)

CacheNext ==
    \/ \E t \in Threads :
          Step(t) \/ \E request \in Ops, i \in Ids : Begin(t, request, i)
    \/ Restart

CacheSpec == CacheInit /\ [][CacheNext]_cacheVars

-----------------------------------------------------------------------------
(* Properties *)

\* A thread has changed the file and not yet dropped the cached entry.
Midway(i) == \E t \in Threads : call[t].id = i /\ pc[t] \in {"write", "pop"}

\* library/__init__.py:750 every write drops the entry it outdates: but while a
\* write is at work, the cache holds what the file holds, unless the thread
\* that filled it had read the file before the drop.
CacheFresh ==
    \A i \in Ids : ~planted[i] => cache[i] \in {Absent, file[i]} \/ Midway(i)

\* library/__init__.py:718 "callers caching a listing know when to rebuild": a
\* listing that no write overtook while it was built is never served when the
\* tree holds something else, but while a write is at work.
Writing == \E t \in Threads : pc[t] \in {"write", "pop", "bump"}
ListingFresh == stamp = version /\ ~stale => listed = file \/ Writing

-----------------------------------------------------------------------------
(* What the documentation says and the code does not keep: TLC finds a      *)
(* behaviour against each (README.md, "Refuted claims").                    *)

Quiet == \A t \in Threads : pc[t] = "idle"

\* app.py:284 "both are rebuilt when the user tree changes": once every request
\* has returned, the listing the API would serve is the tree's.
ListingRebuilt == Quiet /\ stamp = version => listed = file

\* server.py:211 "Designs that reference the id stop rendering": once every
\* request has returned, no deleted component can be rendered.
DeletedStopsRendering == Quiet => \A i \in Ids : file[i] = Absent => cache[i] = Absent
=============================================================================
