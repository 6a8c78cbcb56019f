--------------------------- MODULE InventoryStore ---------------------------
(***************************************************************************)
(* inventory/store.py: the parts drawer, one JSON file that every set and  *)
(* remove reads whole, changes and rewrites whole.  HTTP requests and MCP  *)
(* tools call it from their own threads with no lock between the read and  *)
(* the write, and an unreadable file reads as an empty drawer.  A CSV      *)
(* import is one set per row.                                              *)
(***************************************************************************)
EXTENDS Naturals, FiniteSets

CONSTANTS
    Keys,        \* entry keys
    Callers,     \* threads serving requests
    Ops,         \* the requests clients make: "set", "remove", "import"
    Batches,     \* the sets of keys imported together; no rows, no import
    MaxCalls,    \* bound: calls made
    MaxCrashes   \* bound: crashes of the process

ASSUME DrawerAssumption ==
    /\ Ops \subseteq {"set", "remove", "import"}
    /\ Batches \subseteq SUBSET Keys /\ {} \notin Batches
    /\ MaxCalls \in Nat \ {0} /\ MaxCrashes \in Nat

\* A drawer maps a key to the call that last set it; 0 is no entry.
Drawer == [Keys -> 0..MaxCalls]
Empty == [k \in Keys |-> 0]

VARIABLES
    file,        \* the drawer in the file, Empty when the file is not JSON
    readable,    \* the file is JSON
    pc,          \* where each call is
    op,          \* what it does
    rows,        \* the keys it has still to set or remove
    mark,        \* its number
    entries,     \* the dict it holds between _read and _write
    ledger,      \* history: the drawer, had each call been one step
    serial,      \* history: no call's read-to-write overlapped another's, and
                 \* no crash interrupted a write
    calls, crashes

callVars == <<op, rows, mark>>
vars == <<file, readable, pc, op, rows, mark, entries, ledger, serial, calls, crashes>>

TypeOK ==
    /\ file \in Drawer
    /\ readable \in BOOLEAN
    /\ ~readable => file = Empty
    /\ pc \in [Callers -> {"idle", "read", "open", "write"}]
    /\ op \in [Callers -> {"set", "remove", "import"}]
    /\ rows \in [Callers -> SUBSET Keys]
    /\ \A c \in Callers : /\ pc[c] = "idle" => rows[c] = {}
                          /\ pc[c] = "read" => rows[c] # {}
    /\ mark \in [Callers -> 0..MaxCalls]
    /\ entries \in [Callers -> Drawer]
    /\ ledger \in Drawer
    /\ serial \in BOOLEAN
    /\ calls \in 0..MaxCalls /\ crashes \in 0..MaxCrashes

\* What earlier sessions left, as call 1.
Init ==
    /\ \E held \in Batches \cup {{}, Keys} : file = [k \in Keys |-> IF k \in held THEN 1 ELSE 0]
    /\ readable = TRUE
    /\ pc = [c \in Callers |-> "idle"]
    /\ op = [c \in Callers |-> "set"]
    /\ rows = [c \in Callers |-> {}]
    /\ mark = [c \in Callers |-> 0]
    /\ entries = [c \in Callers |-> Empty]
    /\ ledger = file /\ serial = TRUE
    /\ calls = 1 /\ crashes = 0

-----------------------------------------------------------------------------
\* POST, PUT or DELETE /inventory, an import, or the MCP tool of the same
\* name.  The rows of an import that name an unknown library id are rejected
\* before anything is stored, so they are not part of "keys".
Begin(c, request, keys) ==
    /\ pc[c] = "idle"
    /\ calls < MaxCalls
    /\ IF request = "import" THEN keys \in Batches ELSE Cardinality(keys) = 1
    /\ calls' = calls + 1
    /\ pc' = [pc EXCEPT ![c] = "read"]
    /\ op' = [op EXCEPT ![c] = request]
    /\ rows' = [rows EXCEPT ![c] = keys]
    /\ mark' = [mark EXCEPT ![c] = calls + 1]
    /\ UNCHANGED <<file, readable, entries, ledger, serial, crashes>>

\* _read: a file that is not JSON gives an empty dict.
Parsed == IF readable THEN file ELSE Empty

\* set puts the entry into what _read returned; remove deletes the key.
Changed_OwnRowOnly(drawer, c, k) ==
    [Empty EXCEPT ![k] = IF op[c] = "remove" THEN 0 ELSE mark[c]]
Changed(drawer, c, k) ==
    [drawer EXCEPT ![k] = IF op[c] = "remove" THEN 0 ELSE mark[c]]

\* The other calls between their read and the end of their write.
Midway(c) == {d \in Callers \ {c} : pc[d] \in {"open", "write"}}

\* A call's next row: an import takes its rows one at a time.
ReadRow(c, k) ==
    /\ pc[c] = "read" /\ k \in rows[c]
    /\ LET drawer == Parsed
       IN  IF op[c] = "remove" /\ drawer[k] = 0
           THEN /\ pc' = [pc EXCEPT ![c] = "idle"]       \* 404
                /\ rows' = [rows EXCEPT ![c] = {}]
                /\ serial' = (serial /\ Midway(c) = {})
                /\ UNCHANGED <<entries, ledger>>
           ELSE /\ entries' = [entries EXCEPT ![c] = Changed(drawer, c, k)]
                /\ pc' = [pc EXCEPT ![c] = "open"]
                /\ rows' = [rows EXCEPT ![c] = @ \ {k}]
                /\ ledger' = [ledger EXCEPT ![k] =
                                IF op[c] = "remove" THEN 0 ELSE mark[c]]
                /\ serial' = (serial /\ Midway(c) = {})
    /\ UNCHANGED <<file, readable, op, mark, calls, crashes>>

\* _write: opening the file truncates it ...
OpenFile(c) ==
    /\ pc[c] = "open"
    /\ file' = Empty /\ readable' = FALSE
    /\ pc' = [pc EXCEPT ![c] = "write"]
    /\ UNCHANGED <<callVars, entries, ledger, serial, calls, crashes>>

\* set and remove return; an import goes on to its next row.
AfterRow(c) == IF rows[c] = {} THEN "idle" ELSE "read"

\* ... and the JSON follows; over what another call wrote since, a shorter
\* text leaves the other's tail.
WriteFile(c) ==
    /\ pc[c] = "write"
    /\ \/ file' = entries[c] /\ readable' = TRUE
       \/ readable /\ file' = Empty /\ readable' = FALSE
    /\ pc' = [pc EXCEPT ![c] = AfterRow(c)]
    /\ UNCHANGED <<callVars, entries, ledger, serial, calls, crashes>>

\* The process dies; a file being written stays truncated.
Crash ==
    /\ crashes < MaxCrashes
    /\ crashes' = crashes + 1
    /\ serial' = (serial /\ \A c \in Callers : pc[c] \notin {"open", "write"})
    /\ pc' = [c \in Callers |-> "idle"]
    /\ rows' = [c \in Callers |-> {}]
    /\ UNCHANGED <<file, readable, op, mark, entries, ledger, calls>>

Next ==
    \/ \E c \in Callers :
          \/ \E request \in Ops, keys \in Batches \cup {{k} : k \in Keys} : Begin(c, request, keys)
          \/ \E k \in Keys : ReadRow(c, k)
          \/ OpenFile(c) \/ WriteFile(c)
    \/ Crash

Spec == Init /\ [][Next]_vars

-----------------------------------------------------------------------------
(* Properties *)

\* The drawer on disk is the one the completed calls add up to, as long as no
\* two calls overlapped between a read and its write: every call keeps every
\* row it does not name, whatever order the calls and an import's rows take.
SerialCallsAddUp ==
    serial => \/ file = ledger
              \/ \E c \in Callers : /\ pc[c] \in {"open", "write"}
                                    /\ entries[c] = ledger

-----------------------------------------------------------------------------
(* What the documentation says and the code does not keep: TLC finds a      *)
(* behaviour against each (README.md, "Refuted claims").                    *)

\* app.py:1525 "Every row lands or is reported": with no removals among the
\* calls, every row set or imported is in the drawer once all have returned.
EveryRowLands ==
    (\A c \in Callers : pc[c] = "idle") /\ crashes = 0 =>
        \A k \in Keys : ledger[k] # 0 => readable /\ file[k] # 0
=============================================================================
