---------------------------- MODULE JobRegistry ----------------------------
(***************************************************************************)
(* wirestudio/mcp/jobs.py: the in-process registry behind the MCP tools    *)
(* that compile, flash and provision.  A tool call registers a job and     *)
(* starts a worker thread; the worker appends the producer's events to the *)
(* job and then finishes it; clients poll with a cursor.  Three locks are  *)
(* modelled by the atomicity of the actions: the registry's lock is held   *)
(* from Insert to Release, and a job's own lock makes Emit, Finish and     *)
(* ReadSlice atomic.  The eviction scan reads job.state WITHOUT the job's  *)
(* lock, one job per step, so a job may finish behind or ahead of it.      *)
(***************************************************************************)
EXTENDS Integers, Sequences, FiniteSets

CONSTANTS
    Jobs,        \* the job ids the counter and uuid4 can hand out
    Clients,     \* MCP clients following a job
    NoJob,       \* "no job"
    Vanishing,   \* jobs whose producer may raise a BaseException
    MaxJobs,     \* MAX_JOBS
    MaxEvents,   \* MAX_EVENTS_PER_JOB
    MaxYield,    \* bound: events each job's producer yields
    Limits       \* the page sizes clients ask for

ASSUME JobsAssumption ==
    IsFiniteSet(Jobs) /\ NoJob \notin Jobs /\ Vanishing \subseteq Jobs
ASSUME BoundsAssumption ==
    /\ MaxJobs \in Nat
    /\ MaxEvents \in Nat
    /\ MaxYield \in [Jobs -> Nat]
    /\ Limits \subseteq Int

VARIABLES
    registry,    \* self._jobs: the ids held
    rank,        \* their insertion order in the OrderedDict
    holder,      \* the start() call inside "with self._lock", or NoJob
    scan,        \* rank of the last job the eviction scan looked at
    settled,     \* history: the held jobs already finished at that moment
    state,       \* _Job.state ("unborn" before start())
    worker,      \* what the job's thread is doing
    yielded,     \* history: events the producer has yielded
    log,         \* _Job.events; an event is its number in the production
    phase,       \* where each polling client is
    follows,     \* the job it polls
    since,       \* its cursor, next_since of its last page
    seen         \* the events it has collected

regVars == <<registry, rank, holder, scan, settled>>
jobVars == <<state, worker, yielded, log>>
clientVars == <<phase, follows, since, seen>>
vars == <<registry, rank, holder, scan, settled, state, worker, yielded, log,
          phase, follows, since, seen>>

JobStates == {"unborn", "running", "done", "error"}
Finished(j) == state[j] \in {"done", "error"}

TypeOK ==
    /\ registry \subseteq Jobs
    /\ rank \in [Jobs -> Nat]
    /\ holder \in Jobs \cup {NoJob}
    /\ scan \in Nat
    /\ settled \subseteq Jobs
    /\ state \in [Jobs -> JobStates]
    /\ worker \in [Jobs -> {"none", "spawned", "draining", "gone"}]
    /\ yielded \in [Jobs -> Nat]
    /\ log \in [Jobs -> Seq(Nat)]
    /\ \A j \in Jobs : Len(log[j]) <= MaxEvents
    /\ phase \in [Clients -> {"off", "idle", "hold", "done", "lost"}]
    /\ follows \in [Clients -> Jobs \cup {NoJob}]
    /\ since \in [Clients -> Nat]
    /\ seen \in [Clients -> Seq(Nat)]

Init ==
    /\ registry = {}
    /\ rank = [j \in Jobs |-> 0]
    /\ holder = NoJob
    /\ scan = 0
    /\ settled = {}
    /\ state = [j \in Jobs |-> "unborn"]
    /\ worker = [j \in Jobs |-> "none"]
    /\ yielded = [j \in Jobs |-> 0]
    /\ log = [j \in Jobs |-> <<>>]
    /\ phase = [c \in Clients |-> "off"]
    /\ follows = [c \in Clients |-> NoJob]
    /\ since = [c \in Clients |-> 0]
    /\ seen = [c \in Clients |-> <<>>]

-----------------------------------------------------------------------------
(* start(): insert and evict under the registry lock, then spawn.          *)

\* The jobs the OrderedDict iterates before (it keeps insertion order).
Older(a, b) == rank[a] < rank[b]

Insert(j) ==
    /\ holder = NoJob
    /\ state[j] = "unborn"
    /\ state' = [state EXCEPT ![j] = "running"]
    /\ registry' = registry \cup {j}
    /\ rank' = [rank EXCEPT ![j] =
                  1 + Cardinality({k \in Jobs : state[k] # "unborn"})]
    /\ holder' = j
    /\ scan' = 0
    /\ settled' = {k \in registry : Finished(k)}
    /\ UNCHANGED <<worker, yielded, log, clientVars>>

\* The jobs the for loop has not reached yet, and the one it looks at next.
Ahead == {k \in registry : rank[k] > scan}
IsNext_AnyOrder(k) == k \in Ahead
IsNext(k) == k \in Ahead /\ \A m \in Ahead : ~Older(m, k)

Evictable_Any(k) == TRUE
Evictable(k) == state[k] # "running"

\* The loop body: delete a finished job and start the scan over (break out of
\* the for, back to the while), or pass over a running one.
EvictStep(k) ==
    /\ holder # NoJob
    /\ Cardinality(registry) > MaxJobs
    /\ IsNext(k)
    /\ \/ /\ Evictable(k)
          /\ registry' = registry \ {k}
          /\ scan' = 0
       \/ /\ ~Evictable(k)
          /\ scan' = rank[k]
          /\ UNCHANGED registry
    /\ UNCHANGED <<rank, holder, settled, jobVars, clientVars>>

\* The while condition fails, or the for runs out of jobs (for ... else
\* return): the lock is released and the worker thread started.
Release ==
    /\ holder # NoJob
    /\ Cardinality(registry) <= MaxJobs \/ Ahead = {}
    /\ worker' = [worker EXCEPT ![holder] = "spawned"]
    /\ holder' = NoJob
    /\ scan' = 0
    /\ settled' = {}
    /\ UNCHANGED <<registry, rank, state, yielded, log, clientVars>>

-----------------------------------------------------------------------------
(* _run() on the worker thread.                                            *)

\* produce() is called on the worker, not in start().
Produce(j) ==
    /\ worker[j] = "spawned"
    /\ worker' = [worker EXCEPT ![j] = "draining"]
    /\ UNCHANGED <<regVars, state, yielded, log, clientVars>>

\* _Job.append: past the cap the event is dropped.
Appended(s, e) == IF Len(s) < MaxEvents THEN Append(s, e) ELSE s

Emit(j) ==
    /\ worker[j] = "draining"
    /\ yielded[j] < MaxYield[j]
    /\ yielded' = [yielded EXCEPT ![j] = @ + 1]
    /\ log' = [log EXCEPT ![j] = Appended(@, yielded[j] + 1)]
    /\ UNCHANGED <<regVars, state, worker, clientVars>>

\* The producer is exhausted ("done") or raised an Exception ("error").
Finish(j) ==
    /\ worker[j] = "draining"
    /\ \E s \in {"done", "error"} : state' = [state EXCEPT ![j] = s]
    /\ worker' = [worker EXCEPT ![j] = "gone"]
    /\ UNCHANGED <<regVars, yielded, log, clientVars>>

\* "except Exception" does not catch a BaseException (asyncio's
\* CancelledError is one): the thread ends and the job stays "running".
Vanish(j) ==
    /\ j \in Vanishing
    /\ worker[j] = "draining"
    /\ worker' = [worker EXCEPT ![j] = "gone"]
    /\ UNCHANGED <<regVars, state, yielded, log, clientVars>>

-----------------------------------------------------------------------------
(* A client following a job through job_events.                            *)

Watch(c, j) ==
    /\ phase[c] = "off"
    /\ worker[j] # "none"
    /\ phase' = [phase EXCEPT ![c] = "idle"]
    /\ follows' = [follows EXCEPT ![c] = j]
    /\ UNCHANGED <<regVars, jobVars, since, seen>>

\* _get(): the registry lock, then the reference outlives an eviction.
Lookup(c) ==
    /\ phase[c] = "idle"
    /\ holder = NoJob
    /\ phase' = [phase EXCEPT ![c] =
                   IF follows[c] \in registry THEN "hold" ELSE "lost"]
    /\ UNCHANGED <<regVars, jobVars, follows, since, seen>>

\* self.events[start:start + limit], under the job's lock.
Least(a, b) == IF a <= b THEN a ELSE b
Page_Overlap(s, start, limit) ==
    SubSeq(s, IF start = 0 THEN 1 ELSE start, Least(start + limit, Len(s)))
Page(s, start, limit) == SubSeq(s, start + 1, Least(start + limit, Len(s)))

\* max(1, limit): a page always makes progress.
PageSize_Unclamped(limit) == limit
PageSize(limit) == IF limit < 1 THEN 1 ELSE limit

SliceDone_StateOnly(j, next) == Finished(j)
SliceDone(j, next) == Finished(j) /\ next >= Len(log[j])

ReadSlice(c, limit) ==
    LET j     == follows[c]
        chunk == Page(log[j], since[c], PageSize(limit))
        next  == since[c] + Len(chunk)
    IN  /\ phase[c] = "hold"
        /\ since' = [since EXCEPT ![c] = next]
        /\ seen' = [seen EXCEPT ![c] = @ \o chunk]
        /\ phase' = [phase EXCEPT ![c] =
                       IF SliceDone(j, next) THEN "done" ELSE "idle"]
        /\ UNCHANGED <<regVars, jobVars, follows>>

-----------------------------------------------------------------------------
Next ==
    \/ \E j \in Jobs : Insert(j) \/ EvictStep(j) \/ Produce(j) \/ Emit(j)
                       \/ Finish(j) \/ Vanish(j)
    \/ Release
    \/ \E c \in Clients : \/ \E j \in Jobs : Watch(c, j)
                          \/ Lookup(c)
                          \/ \E n \in Limits : ReadSlice(c, n)

Spec == Init /\ [][Next]_vars

\* The interpreter keeps running threads: a thread inside start(), a worker
\* whose producer is finite, and a client that polls until done take steps.
Fairness ==
    /\ WF_vars(\E j \in Jobs : EvictStep(j))
    /\ WF_vars(Release)
    /\ \A j \in Jobs : WF_vars(Produce(j)) /\ WF_vars(Emit(j) \/ Finish(j))
    /\ \A c \in Clients : /\ WF_vars(Lookup(c))
                          /\ WF_vars(\E n \in Limits : ReadSlice(c, n))

FairSpec == Spec /\ Fairness

-----------------------------------------------------------------------------
(* Properties *)

\* jobs.py:181 "Running jobs are never evicted -- losing the handle to work
\* still in flight would strand a client polling for it": no step removes a
\* running job, although the scan reads the state without the job's lock.
RunningNeverEvicted ==
    [][\A j \in registry : state[j] = "running" => j \in registry']_vars

\* jobs.py:33 "Completed jobs are evicted oldest-first": among the jobs that
\* had finished before the start() call, none is evicted before an older one.
OldestFirst ==
    \A a, b \in settled :
        Older(a, b) /\ b \notin registry => a \notin registry

\* "so a long-lived server doesn't retain every build log": start() returns
\* with the registry within the cap, or with none of the jobs that had
\* finished before it.
CapAfterStart ==
    [][holder # NoJob /\ holder' = NoJob =>
         \/ Cardinality(registry') <= MaxJobs
         \/ settled \cap registry' = {}]_vars

\* What the producer yielded, as far as the cap keeps it.
FirstN(n) == [i \in 1..n |-> i]
Production(j) == FirstN(Least(yielded[j], MaxEvents))

\* job_events "Pass since=0 first, then the returned next_since to get only
\* what is new": pages concatenate to a prefix of the production, with no gap
\* and no repeat, whatever the worker appends between two polls.
PagesArePrefix ==
    \A c \in Clients : follows[c] # NoJob =>
        LET p == Production(follows[c])
            s == seen[c]
        IN  Len(s) <= Len(p) /\ s = SubSeq(p, 1, Len(s))

\* "done is true once the job has finished AND you have read every event":
\* nothing is appended after a client was told done.
DoneIsComplete ==
    \A c \in Clients : phase[c] = "done" =>
        Finished(follows[c]) /\ seen[c] = Production(follows[c])

\* What the logs hold and what is read of them.
LogsSound == TypeOK /\ PagesArePrefix /\ DoneIsComplete

\* What client c has read of job j, and the job's log, as an EventStream.
SeenOf(c, j) == IF follows[c] = j THEN seen[c] ELSE <<>>
Stream(c, j) ==
    INSTANCE EventStream WITH
        source <- log[j],
        closed <- Finished(j),
        taken <- SeenOf(c, j),
        concluded <- follows[c] = j /\ phase[c] = "done"

\* job_events implements the stream every log reader is promised, for every
\* client and job, evictions and vanished threads included.  (Stream(c, j)!Spec
\* for all c and j, with the quantifiers inside the box.)
EveryLogIsAStream ==
    /\ \A c \in Clients, j \in Jobs : Stream(c, j)!Init
    /\ [][\A c \in Clients, j \in Jobs :
            Stream(c, j)!Next \/ UNCHANGED Stream(c, j)!vars]_vars

\* The registry's lock is always released: the while loop around the scan,
\* which restarts after each eviction, ends.
StartReturns == \A j \in Jobs : holder = j ~> holder # j

\* jobs.py:4 "let the client poll until the state leaves running": a client
\* that keeps polling is told done, or that the job has expired, unless the
\* job's thread died of a BaseException.
PollingEnds ==
    \A c \in Clients : phase[c] = "idle" ~>
        \/ phase[c] \in {"done", "lost"}
        \/ follows[c] \in Vanishing

\* What start() evicts: the cap is kept, and by the oldest.
EvictionKeepsTheCap == []OldestFirst /\ CapAfterStart

\* Whoever calls the registry is served: start() returns and polling ends.
CallersAreServed == StartReturns /\ PollingEnds

=============================================================================
