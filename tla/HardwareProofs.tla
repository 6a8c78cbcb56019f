--------------------------- MODULE HardwareProofs ---------------------------
(***************************************************************************)
(* Proofs about what the MCP hardware tools rest on: the job registry      *)
(* (JobRegistry), for every set of jobs and clients, every cap and every   *)
(* page size, the bring-up of boards on a bench (Provisioning), for any    *)
(* slots, boards, calls and designs and any number of faults, and the      *)
(* nightly gate (BenchGate), for any rosters, library and bench.  The      *)
(* registry's invariant ties each log to what the producer yielded and     *)
(* each client's cursor to what it has collected; the bench's says how far *)
(* a call that met no other has brought its board, at each of its steps;   *)
(* the gate's, what stands behind each row of its report.                  *)
(***************************************************************************)
EXTENDS JobRegistry, Provisioning, BenchGate, SequenceTheorems, FiniteSetTheorems, TLAPS

-----------------------------------------------------------------------------
(* Facts about the sequence <<1, ..., n>> a production is.                 *)

\* FirstN(n) is a sequence of naturals of length n.
LEMMA FirstNProperties ==
    ASSUME NEW n \in Nat
    PROVE  /\ FirstN(n) \in Seq(Nat)
           /\ Len(FirstN(n)) = n
           /\ \A i \in 1..n : FirstN(n)[i] = i
BY DEF FirstN

\* Two sequences of naturals that agree everywhere are FirstN.
LEMMA IsFirstN ==
    ASSUME NEW n \in Nat, NEW s \in Seq(Nat), Len(s) = n,
           \A i \in 1..n : s[i] = i
    PROVE  s = FirstN(n)
BY FirstNProperties, SeqEqual, Zenon

\* Appending the next event extends the production by one.
LEMMA AppendFirstN ==
    ASSUME NEW n \in Nat
    PROVE  Append(FirstN(n), n + 1) = FirstN(n + 1)
<1>1. Append(FirstN(n), n + 1) \in Seq(Nat)
  BY FirstNProperties
<1>2. Len(Append(FirstN(n), n + 1)) = n + 1
  BY FirstNProperties
<1>3. \A i \in 1..(n + 1) : Append(FirstN(n), n + 1)[i] = i
  BY FirstNProperties
<1>4. n + 1 \in Nat
  OBVIOUS
<1> HIDE DEF FirstN
<1>5. QED
  BY <1>1, <1>2, <1>3, <1>4, IsFirstN, Zenon

\* SubSeq on sequences of naturals.
LEMMA NatSubSeq ==
    ASSUME NEW s \in Seq(Nat), NEW a \in Nat \ {0}, NEW b \in 0..Len(s), a <= b + 1
    PROVE  /\ SubSeq(s, a, b) \in Seq(Nat)
           /\ Len(SubSeq(s, a, b)) = b + 1 - a
           /\ \A i \in 1..(b + 1 - a) : SubSeq(s, a, b)[i] = s[a + i - 1]
OBVIOUS

\* A page read at cursor n continues what was read up to n.
LEMMA PageContinues ==
    ASSUME NEW m \in Nat, NEW n \in 0..m, NEW k \in n..m
    PROVE  /\ SubSeq(FirstN(m), n + 1, k) \in Seq(Nat)
           /\ Len(SubSeq(FirstN(m), n + 1, k)) = k - n
           /\ FirstN(n) \o SubSeq(FirstN(m), n + 1, k) = FirstN(k)
<1> DEFINE whole == FirstN(m)
           chunk == SubSeq(whole, n + 1, k)
           read  == FirstN(n)
<1>1. /\ whole \in Seq(Nat) /\ Len(whole) = m
      /\ \A i \in 1..m : whole[i] = i
  BY FirstNProperties
<1>2. /\ read \in Seq(Nat) /\ Len(read) = n
      /\ \A i \in 1..n : read[i] = i
  BY FirstNProperties
<1> HIDE DEF whole, read
<1>3. /\ chunk \in Seq(Nat)
      /\ Len(chunk) = k - n
      /\ \A i \in 1..(k - n) : chunk[i] = n + i
  BY <1>1, NatSubSeq
<1> HIDE DEF chunk
<1>4. /\ read \o chunk \in Seq(Nat)
      /\ Len(read \o chunk) = k
      /\ \A i \in 1..k : (read \o chunk)[i] = i
  <2>1. /\ read \o chunk \in Seq(Nat)
        /\ Len(read \o chunk) = Len(read) + Len(chunk)
        /\ \A i \in 1..(Len(read) + Len(chunk)) : (read \o chunk)[i] =
              IF i <= Len(read) THEN read[i] ELSE chunk[i - Len(read)]
    BY <1>2, <1>3, ConcatProperties, Zenon
  <2>2. QED
    BY <2>1, <1>2, <1>3
<1>5. k \in Nat
  OBVIOUS
<1>6. read \o chunk = FirstN(k)
  BY <1>4, <1>5, IsFirstN, Zenon
<1>7. QED
  BY <1>3, <1>6 DEF chunk, whole, read

\* The prefixes of a production are productions.
LEMMA PrefixOfFirstN ==
    ASSUME NEW m \in Nat, NEW n \in 0..m
    PROVE  SubSeq(FirstN(m), 1, n) = FirstN(n)
<1> DEFINE whole == FirstN(m)
<1>1. /\ whole \in Seq(Nat) /\ Len(whole) = m
      /\ \A i \in 1..m : whole[i] = i
  BY FirstNProperties
<1> HIDE DEF whole
<1>2. /\ SubSeq(whole, 1, n) \in Seq(Nat)
      /\ Len(SubSeq(whole, 1, n)) = n
      /\ \A i \in 1..n : SubSeq(whole, 1, n)[i] = i
  BY <1>1
<1>3. n \in Nat
  OBVIOUS
<1>4. SubSeq(whole, 1, n) = FirstN(n)
  BY <1>2, <1>3, IsFirstN, Zenon
<1>5. QED
  BY <1>4 DEF whole

-----------------------------------------------------------------------------
(* The inductive invariant.                                                *)

\* A worker's phase determines the job's state, except that a thread that
\* died of a BaseException leaves it "running".
WorkerInv ==
    \A j \in Jobs :
        /\ worker[j] \in {"spawned", "draining"} => state[j] = "running"
        /\ Finished(j) => worker[j] = "gone"
        /\ state[j] = "unborn" => worker[j] = "none"
        /\ holder = j => state[j] = "running" /\ worker[j] = "none"

\* The log is the production, cut at the cap.
LogInv == \A j \in Jobs : log[j] = Production(j)

\* The cursor counts what the client holds, which is the start of the log;
\* a client told done holds all of it.
CursorInv ==
    \A c \in Clients :
        /\ phase[c] \in {"idle", "hold", "done"} => follows[c] \in Jobs
        /\ phase[c] = "off" => since[c] = 0
        /\ seen[c] = FirstN(since[c])
        /\ follows[c] \in Jobs => since[c] <= Len(log[follows[c]])
        /\ phase[c] = "done" =>
             /\ Finished(follows[c])
             /\ since[c] = Len(log[follows[c]])

IInv == TypeOK /\ WorkerInv /\ LogInv /\ CursorInv

\* The length of a production.
LEMMA ProductionLength ==
    ASSUME TypeOK, NEW j \in Jobs
    PROVE  /\ Least(yielded[j], MaxEvents) \in Nat
           /\ Production(j) \in Seq(Nat)
           /\ Len(Production(j)) = Least(yielded[j], MaxEvents)
<1>1. Least(yielded[j], MaxEvents) \in Nat
  BY BoundsAssumption DEF TypeOK, Least
<1>2. QED
  BY <1>1, FirstNProperties DEF Production

\* The page a client reads starts at its cursor and stays within the log.
LEMMA PageRead ==
    ASSUME IInv, NEW c \in Clients, phase[c] = "hold", NEW limit \in Limits
    PROVE  LET j == follows[c]
               n == since[c]
               chunk == Page(log[j], n, PageSize(limit))
           IN  /\ j \in Jobs /\ n \in 0..Len(log[j])
               /\ chunk \in Seq(Nat)
               /\ n + Len(chunk) \in n..Len(log[j])
               /\ seen[c] \o chunk = FirstN(n + Len(chunk))
<1> DEFINE j == follows[c]
           n == since[c]
           m == Least(yielded[j], MaxEvents)
           k == Least(n + PageSize(limit), Len(log[j]))
           chunk == Page(log[j], n, PageSize(limit))
<1>1. j \in Jobs
  BY DEF IInv, CursorInv
<1>2. m \in Nat /\ log[j] = FirstN(m) /\ Len(log[j]) = m
  BY <1>1, ProductionLength DEF IInv, LogInv, Production
<1>3. n \in 0..m /\ seen[c] = FirstN(n)
  BY <1>1, <1>2 DEF IInv, TypeOK, CursorInv
<1>4. PageSize(limit) \in Nat
  BY BoundsAssumption DEF PageSize
<1> HIDE DEF j, n, m
<1>5. k \in n..m
  BY <1>2, <1>3, <1>4 DEF Least
<1>6. chunk = SubSeq(FirstN(m), n + 1, k)
  BY <1>2 DEF Page
<1> HIDE DEF k, chunk
<1>7. /\ chunk \in Seq(Nat)
      /\ Len(chunk) = k - n
      /\ FirstN(n) \o chunk = FirstN(k)
  BY <1>2, <1>3, <1>5, <1>6, PageContinues
<1>8. n + Len(chunk) = k
  BY <1>3, <1>5, <1>7
<1>9. /\ j \in Jobs /\ n \in 0..Len(log[j])
      /\ chunk \in Seq(Nat)
      /\ n + Len(chunk) \in n..Len(log[j])
      /\ seen[c] \o chunk = FirstN(n + Len(chunk))
  BY <1>1, <1>2, <1>3, <1>5, <1>7, <1>8
<1>10. QED
  BY <1>9 DEF chunk, n, j

\* Finite subsets of Jobs have a natural cardinality: ranks are naturals.
LEMMA RankIsNat ==
    ASSUME IsFiniteSet(Jobs)
    PROVE  Cardinality({k \in Jobs : state[k] # "unborn"}) \in Nat
BY FS_Subset, FS_CardinalityType, Zenon

LEMMA TypeStep == IInv /\ [Next]_vars => TypeOK'
<1> SUFFICES ASSUME IInv, [Next]_vars PROVE TypeOK'
  OBVIOUS
<1> USE DEF TypeOK
<1>0. TypeOK
  BY DEF IInv
<1>1. CASE \E j \in Jobs : Insert(j)
  <2> PICK j \in Jobs : Insert(j)
    BY <1>1
  <2>1. rank' \in [Jobs -> Nat]
    BY <1>0, RankIsNat, JobsAssumption DEF Insert
  <2>2. state' \in [Jobs -> JobStates]
    BY <1>0 DEF Insert, JobStates
  <2>3. QED
    BY <1>0, <2>1, <2>2 DEF Insert, clientVars
<1>2. CASE \E j \in Jobs : EvictStep(j)
  BY <1>0, <1>2 DEF EvictStep, clientVars, jobVars
<1>3. CASE Release
  BY <1>0, <1>3 DEF Release, clientVars
<1>4. CASE \E j \in Jobs : Produce(j)
  BY <1>0, <1>4 DEF Produce, clientVars, regVars
<1>5. CASE \E j \in Jobs : Emit(j)
  <2> PICK j \in Jobs : Emit(j)
    BY <1>5
  <2>1. Appended(log[j], yielded[j] + 1) \in Seq(Nat)
    BY <1>0 DEF Appended
  <2>2. Len(Appended(log[j], yielded[j] + 1)) <= MaxEvents
    BY <1>0, BoundsAssumption DEF Appended
  <2>3. QED
    BY <1>0, <2>1, <2>2 DEF Emit, clientVars, regVars
<1>6. CASE \E j \in Jobs : Finish(j)
  BY <1>0, <1>6 DEF Finish, clientVars, regVars, JobStates
<1>7. CASE \E j \in Jobs : Vanish(j)
  BY <1>0, <1>7 DEF Vanish, clientVars, regVars
<1>8. CASE \E c \in Clients, j \in Jobs : Watch(c, j)
  BY <1>0, <1>8 DEF Watch, regVars, jobVars
<1>9. CASE \E c \in Clients : Lookup(c)
  BY <1>0, <1>9 DEF Lookup, regVars, jobVars
<1>10. CASE \E c \in Clients, n \in Limits : ReadSlice(c, n)
  <2> PICK c \in Clients, limit \in Limits : ReadSlice(c, limit)
    BY <1>10
  <2> DEFINE chunk == Page(log[follows[c]], since[c], PageSize(limit))
  <2>1. phase[c] = "hold"
    BY DEF ReadSlice
  <2>2. /\ since[c] + Len(chunk) \in Nat
        /\ seen[c] \o chunk \in Seq(Nat)
    <3>1. /\ follows[c] \in Jobs /\ since[c] \in 0..Len(log[follows[c]])
          /\ chunk \in Seq(Nat)
          /\ since[c] + Len(chunk) \in since[c]..Len(log[follows[c]])
      BY <2>1, PageRead, Zenon
    <3>2. Len(log[follows[c]]) \in Nat /\ seen[c] \in Seq(Nat)
      BY <1>0, <3>1
    <3> HIDE DEF chunk
    <3>3. QED
      BY <3>1, <3>2
  <2>3. QED
    BY <1>0, <2>2 DEF ReadSlice, regVars, jobVars
<1>11. CASE UNCHANGED vars
  BY <1>0, <1>11 DEF vars
<1>12. QED
  BY <1>1, <1>2, <1>3, <1>4, <1>5, <1>6, <1>7, <1>8, <1>9, <1>10, <1>11 DEF Next

\* Only the worker's own steps move its phase and its job's state together.
LEMMA WorkerStep == IInv /\ [Next]_vars => WorkerInv'
<1> SUFFICES ASSUME IInv, [Next]_vars PROVE WorkerInv'
  OBVIOUS
<1> USE JobsAssumption DEF WorkerInv, Finished, regVars
<1>0. TypeOK /\ WorkerInv
  BY DEF IInv
<1>1. CASE \E j \in Jobs : Insert(j)
  BY <1>0, <1>1 DEF Insert, TypeOK
<1>2. CASE \E j \in Jobs : EvictStep(j)
  BY <1>0, <1>2 DEF EvictStep, jobVars
<1>3. CASE Release
  BY <1>0, <1>3 DEF Release, TypeOK
<1>4. CASE \E j \in Jobs : Produce(j)
  BY <1>0, <1>4 DEF Produce, TypeOK
<1>5. CASE \E j \in Jobs : Emit(j)
  BY <1>0, <1>5 DEF Emit
<1>6. CASE \E j \in Jobs : Finish(j)
  BY <1>0, <1>6 DEF Finish, TypeOK
<1>7. CASE \E j \in Jobs : Vanish(j)
  BY <1>0, <1>7 DEF Vanish, TypeOK
<1>8. CASE \E c \in Clients, j \in Jobs : Watch(c, j)
  BY <1>0, <1>8 DEF Watch, jobVars
<1>9. CASE \E c \in Clients : Lookup(c)
  BY <1>0, <1>9 DEF Lookup, jobVars
<1>10. CASE \E c \in Clients, n \in Limits : ReadSlice(c, n)
  BY <1>0, <1>10 DEF ReadSlice, jobVars
<1>11. CASE UNCHANGED vars
  BY <1>0, <1>11 DEF vars
<1>12. QED
  BY <1>1, <1>2, <1>3, <1>4, <1>5, <1>6, <1>7, <1>8, <1>9, <1>10, <1>11 DEF Next

\* A log changes only together with the count of what was produced.
LEMMA LogStep == IInv /\ [Next]_vars => LogInv'
<1> SUFFICES ASSUME IInv, [Next]_vars PROVE LogInv'
  OBVIOUS
<1>0. TypeOK /\ LogInv
  BY DEF IInv
<1>1. CASE \E j \in Jobs : Emit(j)
  <2> PICK j \in Jobs : Emit(j)
    BY <1>1
  <2> DEFINE n == Least(yielded[j], MaxEvents)
  <2>1. /\ n \in Nat /\ log[j] = FirstN(n) /\ Len(log[j]) = n
        /\ n <= MaxEvents /\ n <= yielded[j]
        /\ n < MaxEvents => n = yielded[j]
    <3>1. n \in Nat /\ Len(Production(j)) = n /\ log[j] = Production(j)
      BY <1>0, ProductionLength DEF LogInv
    <3>2. QED
      BY <1>0, <3>1, BoundsAssumption DEF TypeOK, Least, Production
  <2>2. log'[j] = FirstN(Least(yielded'[j], MaxEvents))
    <3>1. /\ log'[j] = Appended(log[j], yielded[j] + 1)
          /\ yielded'[j] = yielded[j] + 1
      BY <1>0 DEF Emit, TypeOK
    <3>2. CASE n < MaxEvents
      <4>1. log'[j] = Append(FirstN(n), n + 1)
        BY <2>1, <3>1, <3>2 DEF Appended
      <4>2. Least(yielded'[j], MaxEvents) = n + 1
        BY <2>1, <3>1, <3>2, BoundsAssumption DEF Least
      <4>3. QED
        BY <2>1, <4>1, <4>2, AppendFirstN
    <3>3. CASE n >= MaxEvents
      <4>1. log'[j] = FirstN(n)
        BY <2>1, <3>1, <3>3, BoundsAssumption DEF Appended
      <4>2. Least(yielded'[j], MaxEvents) = n
        BY <1>0, <2>1, <3>1, <3>3, BoundsAssumption DEF Least, TypeOK
      <4>3. QED
        BY <4>1, <4>2
    <3>4. QED
      BY <2>1, <3>2, <3>3, BoundsAssumption
  <2>3. \A k \in Jobs \ {j} : log'[k] = log[k] /\ yielded'[k] = yielded[k]
    BY <1>0 DEF Emit, TypeOK
  <2>4. QED
    BY <1>0, <2>2, <2>3 DEF LogInv, Production
<1>2. CASE UNCHANGED <<log, yielded>>
  BY <1>0, <1>2 DEF LogInv, Production
<1>3. QED
  BY <1>1, <1>2 DEF Next, vars, Insert, EvictStep, Release, Produce, Finish,
     Vanish, Watch, Lookup, ReadSlice, jobVars

\* An event appended or a job finished keeps what clients were told: a client
\* told done follows a finished job, whose worker is gone.
LEMMA CursorStep == IInv /\ [Next]_vars => CursorInv'
<1> SUFFICES ASSUME IInv, [Next]_vars PROVE CursorInv'
  OBVIOUS
<1>0. TypeOK /\ WorkerInv /\ CursorInv
  BY DEF IInv
<1>1. CASE /\ UNCHANGED <<state, log, clientVars>>
  BY <1>0, <1>1 DEF CursorInv, Finished, clientVars
<1>2. CASE \E j \in Jobs : Insert(j)
  BY <1>0, <1>2 DEF Insert, CursorInv, Finished, clientVars, TypeOK
<1>3. CASE \E j \in Jobs : Emit(j)
  <2> PICK j \in Jobs : Emit(j)
    BY <1>3
  <2>1. Len(log'[j]) >= Len(log[j]) /\ \A k \in Jobs \ {j} : log'[k] = log[k]
    BY <1>0 DEF Emit, TypeOK, Appended
  <2>2. ~Finished(j)
    BY <1>0 DEF Emit, WorkerInv
  <2>3. \A k \in Jobs : Len(log[k]) \in Nat /\ Len(log'[k]) >= Len(log[k])
    <3>1. \A k \in Jobs : Len(log[k]) \in Nat
      BY <1>0 DEF TypeOK
    <3>2. QED
      BY <2>1, <3>1
  <2> SUFFICES ASSUME NEW c \in Clients PROVE CursorInv!(c)'
    BY DEF CursorInv
  <2>4. QED
    BY <1>0, <2>1, <2>2, <2>3 DEF Emit, CursorInv, Finished, clientVars, TypeOK
<1>4. CASE \E j \in Jobs : Finish(j)
  BY <1>0, <1>4 DEF Finish, CursorInv, Finished, WorkerInv, clientVars, TypeOK
<1>5. CASE \E c \in Clients, j \in Jobs : Watch(c, j)
  <2> PICK c \in Clients, j \in Jobs : Watch(c, j)
    BY <1>5
  <2> SUFFICES ASSUME NEW d \in Clients PROVE CursorInv!(d)'
    BY DEF CursorInv
  <2>1. Len(log[j]) \in Nat
    BY <1>0 DEF TypeOK
  <2>2. QED
    BY <1>0, <2>1 DEF Watch, CursorInv, Finished, TypeOK, jobVars
<1>6. CASE \E c \in Clients : Lookup(c)
  BY <1>0, <1>6, JobsAssumption DEF Lookup, CursorInv, Finished, TypeOK, jobVars
<1>7. CASE \E c \in Clients, n \in Limits : ReadSlice(c, n)
  <2> PICK c \in Clients, limit \in Limits : ReadSlice(c, limit)
    BY <1>7
  <2> DEFINE chunk == Page(log[follows[c]], since[c], PageSize(limit))
  <2>1. /\ follows[c] \in Jobs /\ since[c] \in 0..Len(log[follows[c]])
        /\ since[c] + Len(chunk) \in since[c]..Len(log[follows[c]])
        /\ seen[c] \o chunk = FirstN(since[c] + Len(chunk))
    BY PageRead, Zenon DEF ReadSlice
  <2>2. /\ since'[c] = since[c] + Len(chunk)
        /\ seen'[c] = seen[c] \o chunk
        /\ phase'[c] = IF SliceDone(follows[c], since[c] + Len(chunk))
                       THEN "done" ELSE "idle"
        /\ UNCHANGED <<state, log, follows>>
        /\ \A d \in Clients \ {c} : since'[d] = since[d] /\ seen'[d] = seen[d]
                                    /\ phase'[d] = phase[d]
    BY <1>0 DEF ReadSlice, TypeOK, jobVars
  <2>3. Len(log[follows[c]]) \in Nat /\ since[c] \in Nat
    BY <1>0, <2>1 DEF TypeOK
  <2> HIDE DEF chunk
  <2> SUFFICES ASSUME NEW d \in Clients PROVE CursorInv!(d)'
    BY DEF CursorInv
  <2>4. CASE d = c
    BY <2>1, <2>2, <2>3, <2>4 DEF SliceDone, Finished
  <2>5. CASE d # c
    BY <1>0, <2>2, <2>5 DEF CursorInv, Finished
  <2>6. QED
    BY <2>4, <2>5
<1>8. QED
  BY <1>1, <1>2, <1>3, <1>4, <1>5, <1>6, <1>7 DEF Next, vars, EvictStep,
     Release, Produce, Vanish, jobVars, clientVars

\* A client that has read nothing holds the empty production.
LEMMA EmptyProduction == FirstN(0) = <<>>
<1>1. <<>> \in Seq(Nat) /\ Len(<<>>) = 0 /\ 0 \in Nat /\ \A i \in 1..0 : <<>>[i] = i
  BY EmptySeq
<1>2. QED
  BY <1>1, IsFirstN, Zenon

LEMMA InitIInv == Init => IInv
<1> SUFFICES ASSUME Init PROVE IInv
  OBVIOUS
<1>1. TypeOK
  BY BoundsAssumption DEF Init, TypeOK, JobStates
<1>2. WorkerInv
  BY JobsAssumption DEF Init, WorkerInv, Finished
<1>3. FirstN(0) = <<>>
  BY EmptyProduction
<1>4. LogInv
  BY <1>3, BoundsAssumption DEF Init, LogInv, Production, Least
<1>5. CursorInv
  BY <1>3, JobsAssumption DEF Init, CursorInv
<1>6. QED
  BY <1>1, <1>2, <1>4, <1>5 DEF IInv

\* The invariant every result below rests on.
THEOREM Invariance == Spec => []IInv
<1>1. IInv /\ [Next]_vars => IInv'
  BY TypeStep, WorkerStep, LogStep, CursorStep DEF IInv
<1>2. QED
  BY <1>1, InitIInv, PTL DEF Spec

\* The registry's variables keep their types and no log outgrows the cap
\* (MAX_EVENTS_PER_JOB, jobs.py:28), whatever its value.
THEOREM TypeCorrect == Spec => []TypeOK
BY Invariance, PTL DEF IInv

\* The pages a client of job_events concatenates are a prefix of what the
\* producer yielded, for every page size and every interleaving.
THEOREM PagesCorrect == Spec => []PagesArePrefix
<1>1. IInv => PagesArePrefix
  <2> SUFFICES ASSUME IInv, NEW c \in Clients, follows[c] # NoJob
               PROVE  LET p == Production(follows[c])
                      IN  Len(seen[c]) <= Len(p) /\ seen[c] = SubSeq(p, 1, Len(seen[c]))
    BY DEF PagesArePrefix
  <2> DEFINE j == follows[c]
             m == Least(yielded[j], MaxEvents)
  <2>1. j \in Jobs
    BY DEF IInv, TypeOK
  <2>2. m \in Nat /\ Production(j) = FirstN(m) /\ log[j] = FirstN(m) /\ Len(log[j]) = m
    BY <2>1, ProductionLength DEF IInv, LogInv, Production
  <2>3. since[c] \in 0..m /\ seen[c] = FirstN(since[c])
    BY <2>1, <2>2 DEF IInv, TypeOK, CursorInv
  <2> HIDE DEF j, m
  <2>4. Len(seen[c]) = since[c] /\ Len(FirstN(m)) = m
    BY <2>2, <2>3, FirstNProperties
  <2>5. QED
    BY <2>2, <2>3, <2>4, PrefixOfFirstN DEF j
<1>2. QED
  BY <1>1, Invariance, PTL

\* A client told "done" holds the whole production of a finished job.
THEOREM DoneCorrect == Spec => []DoneIsComplete
<1>1. IInv => DoneIsComplete
  <2> SUFFICES ASSUME IInv, NEW c \in Clients, phase[c] = "done"
               PROVE  Finished(follows[c]) /\ seen[c] = Production(follows[c])
    BY DEF DoneIsComplete
  <2>1. /\ follows[c] \in Jobs /\ Finished(follows[c])
        /\ since[c] = Len(log[follows[c]]) /\ seen[c] = FirstN(since[c])
    BY DEF IInv, CursorInv
  <2>2. log[follows[c]] = FirstN(Len(log[follows[c]]))
    BY <2>1, ProductionLength DEF IInv, LogInv, Production
  <2>3. QED
    BY <2>1, <2>2 DEF IInv, LogInv
<1>2. QED
  BY <1>1, Invariance, PTL

\* No log outgrows its cap, what a client has read is what the job produced up
\* to some event, and all of it once the client is told done.
THEOREM LogsCorrect == Spec => []LogsSound
BY TypeCorrect, PagesCorrect, DoneCorrect, PTL DEF LogsSound

\* No step evicts a running job, although the scan takes no job's lock:
\* "running" can only be left, so a job seen finished stays finished.
THEOREM RunningKept == Spec => RunningNeverEvicted
<1>1. [Next]_vars => (\A j \in registry : state[j] = "running" => j \in registry')
  BY DEF Next, vars, Insert, EvictStep, Evictable, Release, Produce, Emit,
     Finish, Vanish, Watch, Lookup, ReadSlice, regVars
<1>2. QED
  BY <1>1, PTL DEF Spec, RunningNeverEvicted

\* Every step of the registry is, for client c and job j, a step of the
\* EventStream c is promised or a stutter.
LEMMA StreamStep ==
    ASSUME IInv, [Next]_vars, NEW c \in Clients, NEW j \in Jobs
    PROVE  Stream(c, j)!Next \/ UNCHANGED Stream(c, j)!vars
<1> DEFINE Same == /\ log'[j] = log[j]
                   /\ Finished(j)' = Finished(j)
                   /\ SeenOf(c, j)' = SeenOf(c, j)
                   /\ (follows[c] = j /\ phase[c] = "done")'
                        = (follows[c] = j /\ phase[c] = "done")
<1>0. TypeOK /\ WorkerInv /\ CursorInv
  BY DEF IInv
<1>1. Same => UNCHANGED Stream(c, j)!vars
  BY DEF Stream!vars
<1>2. CASE UNCHANGED <<state, log, clientVars>>
  BY <1>1, <1>2 DEF clientVars, Finished, SeenOf
<1>3. ASSUME NEW k \in Jobs, Insert(k) PROVE Same
  BY <1>0, <1>3 DEF Insert, TypeOK, Finished, SeenOf, clientVars
<1>4. ASSUME NEW k \in Jobs, Emit(k) PROVE Same \/ Stream(c, j)!Grow
  <2>1. CASE log'[j] = log[j]
    BY <1>4, <2>1 DEF Emit, Finished, SeenOf, clientVars
  <2>2. CASE log'[j] # log[j]
    <3>1. /\ k = j /\ log[j] \in Seq(Nat)
          /\ log'[j] = Append(log[j], yielded[j] + 1)
      BY <1>0, <1>4, <2>2 DEF Emit, TypeOK, Appended
    <3>2. /\ Len(log'[j]) = Len(log[j]) + 1
          /\ log[j] = SubSeq(log'[j], 1, Len(log[j]))
      BY <1>0, <3>1 DEF TypeOK
    <3>3. ~Finished(j) /\ Finished(j)' = Finished(j)
      BY <1>0, <1>4, <3>1 DEF WorkerInv, Emit, Finished
    <3>4. QED
      BY <1>4, <3>2, <3>3 DEF Stream!Grow, Emit, SeenOf, clientVars
  <2>3. QED
    BY <2>1, <2>2
<1>5. ASSUME NEW k \in Jobs, Finish(k) PROVE Same \/ Stream(c, j)!Close
  <2>1. CASE k = j
    <3>1. ~Finished(j) /\ Finished(j)'
      BY <1>0, <1>5, <2>1 DEF WorkerInv, Finish, Finished, TypeOK
    <3>2. QED
      BY <1>5, <3>1 DEF Finish, Stream!Close, SeenOf, clientVars
  <2>2. CASE k # j
    BY <1>0, <1>5, <2>2 DEF Finish, Finished, SeenOf, TypeOK, clientVars
  <2>3. QED
    BY <2>1, <2>2
<1>6. ASSUME NEW d \in Clients, NEW k \in Jobs, Watch(d, k) PROVE Same
  <2>1. phase[c] = "off" => seen[c] = <<>>
    BY <1>0, EmptyProduction DEF CursorInv
  <2>2. QED
    BY <1>0, <1>6, <2>1 DEF Watch, Finished, SeenOf, TypeOK, jobVars
<1>7. ASSUME NEW d \in Clients, Lookup(d) PROVE Same
  BY <1>0, <1>7 DEF Lookup, Finished, SeenOf, TypeOK, jobVars
<1>8. ASSUME NEW d \in Clients, NEW limit \in Limits, ReadSlice(d, limit)
      PROVE  Same \/ Stream(c, j)!Take
  <2>1. CASE d = c /\ follows[c] = j
    <3> DEFINE chunk == Page(log[j], since[c], PageSize(limit))
               n == since[c] + Len(chunk)
    <3>1. /\ since[c] \in 0..Len(log[j])
          /\ n \in since[c]..Len(log[j])
          /\ seen[c] \o chunk = FirstN(n)
      BY <1>8, <2>1, PageRead, Zenon DEF ReadSlice
    <3>2. /\ seen'[c] = seen[c] \o chunk
          /\ phase'[c] = IF SliceDone(j, n) THEN "done" ELSE "idle"
          /\ phase[c] = "hold"
          /\ UNCHANGED <<state, log, follows>>
      BY <1>0, <1>8, <2>1 DEF ReadSlice, TypeOK, jobVars
    <3> HIDE DEF chunk
    <3>3. Len(log[j]) \in Nat /\ since[c] \in Nat /\ Len(seen[c]) = since[c]
      BY <1>0, <2>1, FirstNProperties DEF TypeOK, CursorInv
    <3>4. FirstN(n) = SubSeq(log[j], 1, n)
      <4>1. log[j] = FirstN(Len(log[j]))
        BY ProductionLength DEF IInv, LogInv, Production
      <4>2. n \in 0..Len(log[j])
        BY <3>1, <3>3
      <4>3. QED
        BY <3>3, <4>1, <4>2, PrefixOfFirstN
    <3>5. SliceDone(j, n) <=> Finished(j) /\ n = Len(log[j])
      BY <3>1, <3>3 DEF SliceDone
    <3>6. n \in Len(seen[c])..Len(log[j])
      BY <3>1, <3>3
    <3> HIDE DEF n
    <3>7. QED
      BY <2>1, <3>1, <3>2, <3>4, <3>5, <3>6 DEF Stream!Take, SeenOf, Finished
  <2>2. CASE ~(d = c /\ follows[c] = j)
    BY <1>0, <1>8, <2>2 DEF ReadSlice, Finished, SeenOf, TypeOK, jobVars
  <2>3. QED
    BY <2>1, <2>2
<1>9. CASE UNCHANGED vars
  BY <1>2, <1>9 DEF vars, clientVars
<1>10. QED
  <2> HIDE DEF Same
  <2>1. \/ UNCHANGED <<state, log, clientVars>> \/ UNCHANGED vars
        \/ \E k \in Jobs : Insert(k) \/ Emit(k) \/ Finish(k)
        \/ \E d \in Clients : \/ \E k \in Jobs : Watch(d, k)
                              \/ Lookup(d)
                              \/ \E limit \in Limits : ReadSlice(d, limit)
    BY DEF Next, EvictStep, Release, Produce, Vanish, jobVars
  <2>2. QED
    BY <1>1, <1>2, <1>3, <1>4, <1>5, <1>6, <1>7, <1>8, <1>9, <2>1
       DEF Stream!Next

\* What job_events promises each client about each job is an EventStream,
\* for every number of jobs, clients and events.
THEOREM StreamRefinement == Spec => EveryLogIsAStream
<1>1. Init => \A c \in Clients, j \in Jobs : Stream(c, j)!Init
  BY JobsAssumption DEF Init, Stream!Init, SeenOf, Finished
<1>2. IInv /\ [Next]_vars =>
        [\A c \in Clients, j \in Jobs :
            Stream(c, j)!Next \/ UNCHANGED Stream(c, j)!vars]_vars
  BY StreamStep
<1>3. QED
  BY <1>1, <1>2, Invariance, PTL DEF Spec, EveryLogIsAStream

-----------------------------------------------------------------------------
(* Eviction: the scan, which reads states without the jobs' locks.         *)

Born == {k \in Jobs : state[k] # "unborn"}

\* Ranks number the jobs in the order they came.
RankInv ==
    /\ registry \subseteq Born
    /\ \A k \in Born : rank[k] \in 1..Cardinality(Born)
    /\ \A a, b \in Born : rank[a] = rank[b] => a = b

\* A job the scan has passed over was not finished when start() was called.
ScanInv ==
    /\ \A k \in settled : Finished(k)
    /\ \A k \in registry : rank[k] <= scan => k \notin settled

EvictionInv == RankInv /\ ScanInv /\ OldestFirst

\* Jobs are born by start() alone, and keep their rank.
LEMMA RankStep == IInv /\ EvictionInv /\ [Next]_vars => RankInv'
<1> SUFFICES ASSUME IInv, EvictionInv, [Next]_vars PROVE RankInv'
  OBVIOUS
<1>0. TypeOK /\ RankInv
  BY DEF IInv, EvictionInv
<1>1. IsFiniteSet(Born) /\ Cardinality(Born) \in Nat
  BY JobsAssumption, FS_Subset, FS_CardinalityType, Zenon DEF Born
<1>2. CASE \E j \in Jobs : Insert(j)
  <2> PICK j \in Jobs : Insert(j)
    BY <1>2
  <2>1. /\ j \notin Born /\ Born' = Born \cup {j}
        /\ registry' = registry \cup {j}
        /\ rank' = [rank EXCEPT ![j] = 1 + Cardinality(Born)]
    BY <1>0 DEF Insert, Born, TypeOK
  <2>2. Cardinality(Born') = Cardinality(Born) + 1
    BY <1>1, <2>1, FS_AddElement
  <2>3. /\ rank'[j] = Cardinality(Born) + 1
        /\ \A k \in Born : rank'[k] = rank[k]
    BY <1>0, <1>1, <2>1 DEF TypeOK, Born
  <2> DEFINE n == Cardinality(Born)
  <2>4. n \in Nat /\ \A k \in Born : rank[k] \in 1..n
    BY <1>0, <1>1 DEF RankInv
  <2>5. \A k \in Born' : rank'[k] \in 1..(n + 1)
    <3> HIDE DEF n
    <3> QED BY <2>1, <2>3, <2>4 DEF n
  <2>6. \A a, b \in Born' : rank'[a] = rank'[b] => a = b
    <3>1. \A a, b \in Born : rank'[a] = rank'[b] => a = b
      BY <1>0, <2>3 DEF RankInv
    <3>2. \A a \in Born : rank'[a] # rank'[j]
      <4> HIDE DEF n
      <4> QED BY <2>3, <2>4 DEF n
    <3>3. QED
      BY <2>1, <3>1, <3>2
  <2>7. registry' \subseteq Born'
    BY <1>0, <2>1 DEF RankInv
  <2>8. QED
    BY <2>2, <2>5, <2>6, <2>7 DEF RankInv
<1>3. CASE \E j \in Jobs : EvictStep(j)
  <2>1. UNCHANGED <<state, rank>> /\ registry' \subseteq registry
    BY <1>3 DEF EvictStep, jobVars
  <2>2. QED
    BY <1>0, <2>1 DEF RankInv, Born
<1>4. CASE \E j \in Jobs : Finish(j)
  <2> PICK j \in Jobs : Finish(j)
    BY <1>4
  <2>1. state[j] # "unborn"
    BY <1>0 DEF Finish, IInv, WorkerInv
  <2>2. Born' = Born /\ UNCHANGED <<registry, rank>>
    BY <1>0, <2>1 DEF Finish, Born, TypeOK, regVars
  <2>3. QED
    BY <1>0, <2>2 DEF RankInv
<1>5. CASE UNCHANGED <<registry, rank, state>>
  BY <1>0, <1>5 DEF RankInv, Born
<1>6. QED
  BY <1>2, <1>3, <1>4, <1>5 DEF Next, Release, Produce, Emit, Vanish, Watch,
     Lookup, ReadSlice, vars, regVars, jobVars

\* The scan passes over running jobs only, and takes the oldest ahead of it.
LEMMA ScanStep == IInv /\ EvictionInv /\ [Next]_vars => ScanInv' /\ OldestFirst'
<1> SUFFICES ASSUME IInv, EvictionInv, [Next]_vars PROVE ScanInv' /\ OldestFirst'
  OBVIOUS
<1>0. TypeOK /\ RankInv /\ ScanInv /\ OldestFirst
  BY DEF IInv, EvictionInv
<1>1. CASE \E j \in Jobs : Insert(j)
  <2> PICK j \in Jobs : Insert(j)
    BY <1>1
  <2>1. settled' \subseteq registry' /\ scan' = 0 /\ \A k \in settled' : Finished(k)
    BY DEF Insert
  <2>2. \A k \in settled' : Finished(k)'
    BY <1>0, <2>1 DEF Insert, Finished, TypeOK
  <2>3. \A k \in registry' : ~(rank'[k] <= 0)
    <3>1. RankInv' /\ IsFiniteSet(Born') /\ Cardinality(Born') \in Nat
      BY RankStep, JobsAssumption, FS_Subset, FS_CardinalityType DEF Born
    <3>2. QED
      BY <3>1 DEF RankInv
  <2>4. ScanInv'
    <3>1. \A k \in registry' : rank'[k] <= scan' => k \notin settled'
      BY <2>1, <2>3
    <3>2. QED
      BY <2>2, <3>1 DEF ScanInv
  <2>5. QED
    BY <2>1, <2>4 DEF OldestFirst
<1>2. CASE \E j \in Jobs : EvictStep(j)
  <2> PICK k \in Jobs : EvictStep(k)
    BY <1>2
  <2>1. /\ k \in registry /\ rank[k] > scan
        /\ \A m \in registry : rank[m] > scan => ~(rank[m] < rank[k])
        /\ UNCHANGED <<rank, settled, state>>
    BY DEF EvictStep, IsNext, Ahead, Older, jobVars
  <2>2. rank \in [Jobs -> Nat] /\ scan \in Nat /\ registry \subseteq Jobs /\ settled \subseteq Jobs
    BY <1>0 DEF TypeOK
  <2>3. CASE registry' = registry \ {k} /\ scan' = 0
    <3>1. \A m \in registry : rank[m] > 0
      BY <1>0, JobsAssumption, FS_Subset, FS_CardinalityType DEF RankInv
    <3>2. ScanInv'
      BY <1>0, <2>1, <2>2, <2>3, <3>1 DEF ScanInv, Finished
    <3>3. \A a \in settled : rank[a] < rank[k] => a \notin registry
      BY <1>0, <2>1, <2>2 DEF ScanInv
    <3>4. QED
      BY <1>0, <2>1, <2>3, <3>2, <3>3 DEF OldestFirst, Older
  <2>4. CASE ~Evictable(k) /\ scan' = rank[k] /\ registry' = registry
    <3>1. k \notin settled
      BY <1>0, <2>4 DEF ScanInv, Evictable, Finished
    <3>2. \A m \in registry : rank[m] <= rank[k] => rank[m] <= scan \/ m = k
      BY <1>0, <2>1, <2>2 DEF RankInv
    <3>3. QED
      BY <1>0, <2>1, <2>4, <3>1, <3>2 DEF ScanInv, OldestFirst, Older, Finished
  <2>5. QED
    BY <2>3, <2>4 DEF EvictStep
<1>3. CASE Release
  <2>1. settled' = {}
    BY <1>3 DEF Release
  <2>2. QED
    BY <2>1 DEF ScanInv, OldestFirst
<1>4. CASE \E j \in Jobs : Finish(j)
  <2>1. /\ UNCHANGED regVars
        /\ \A k \in settled : Finished(k)'
    BY <1>0, <1>4 DEF Finish, Finished, ScanInv, TypeOK, regVars
  <2>2. QED
    BY <1>0, <2>1 DEF ScanInv, OldestFirst, Older, regVars
<1>5. CASE UNCHANGED <<regVars, state>>
  BY <1>0, <1>5 DEF ScanInv, OldestFirst, Older, Finished, regVars
<1>6. QED
  BY <1>1, <1>2, <1>3, <1>4, <1>5 DEF Next, Produce, Emit, Vanish, Watch,
     Lookup, ReadSlice, vars, regVars, jobVars

\* start() evicts finished jobs oldest-first and returns with the registry
\* within the cap or with none of the jobs that had finished before it, for
\* every cap and however jobs finish ahead of and behind the scan.
THEOREM CapKept == Spec => EvictionKeepsTheCap
<1>1. Init => EvictionInv
  BY DEF Init, EvictionInv, RankInv, ScanInv, OldestFirst, Born
<1>2. IInv /\ EvictionInv /\ [Next]_vars => EvictionInv'
  BY RankStep, ScanStep DEF EvictionInv
<1>3. IInv /\ EvictionInv /\ [Next]_vars =>
        (holder # NoJob /\ holder' = NoJob =>
           Cardinality(registry') <= MaxJobs \/ settled \cap registry' = {})
  <2> SUFFICES ASSUME IInv, EvictionInv, [Next]_vars, holder # NoJob, holder' = NoJob
               PROVE  Cardinality(registry') <= MaxJobs \/ settled \cap registry' = {}
    OBVIOUS
  <2>1. Release
    BY JobsAssumption DEF Next, Insert, EvictStep, Produce, Emit, Finish, Vanish,
       Watch, Lookup, ReadSlice, vars, regVars
  <2>2. registry' = registry /\ (Cardinality(registry) <= MaxJobs \/ Ahead = {})
    BY <2>1 DEF Release
  <2>3. ASSUME Ahead = {}, NEW k \in registry PROVE k \notin settled
    <3>1. rank[k] \in Nat /\ scan \in Nat
      BY DEF IInv, TypeOK
    <3>2. rank[k] <= scan
      BY <2>3, <3>1 DEF Ahead
    <3>3. QED
      BY <3>2 DEF EvictionInv, ScanInv
  <2>4. QED
    BY <2>2, <2>3
<1>4. QED
  BY <1>1, <1>2, <1>3, Invariance, PTL DEF Spec, EvictionInv, CapAfterStart, EvictionKeepsTheCap

-----------------------------------------------------------------------------
(* Provisioning: the inductive invariant.                                  *)

\* Calls that bring up the board of a slot; and where a call stands: before
\* the server knows the device (Registering), with the device there (Known),
\* with the call's key on it (Keyed).
Pulls == {"bench", "gate"}
Registering == {"app", "newapp", "profile", "device", "keys", "nonces"}
Keyed == {"nonces", "serial", "dialogue", "verify", "uplink"}
Known == {"keys"} \union Keyed

\* The shapes of the records; a device is one of Provisioning's Devices.
Fields(r) == [pc |-> r.pc, kind |-> r.kind, slot |-> r.slot, board |-> r.board, design |-> r.design,
              erase |-> r.erase, app |-> r.app, met |-> r.met, why |-> r.why]
Images == DOMAIN Designs \union {None, Torn}
Hardware == [image : Images, key : Calls \union {None}, session : Calls \union {None}, nonce : Nat]
Apps == {"wirestudio", "wirestudio-esphome"}
Shape ==
    /\ call = [c \in Calls |-> call[c]] /\ \A c \in Calls : call[c] = Fields(call[c]) /\ call[c].app \in Nat
    /\ board \in [Boards -> Hardware]
    /\ sdev \in [Boards -> Devices \union {None}]
    /\ sapps \in Seq(Apps)
    /\ slot = [s \in Slots |-> slot[s]]
    /\ \A s \in Slots : slot[s] = [board |-> slot[s].board, job |-> slot[s].job, reader |-> slot[s].reader]

\* A call that works has a board, and one that brings it up the slot it is in.
PlaceInv ==
    \A c \in Calls :
        /\ call[c].pc = "handed" => call[c].board \in Boards
        /\ Working(c) =>
              /\ call[c].board \in Boards /\ call[c].kind \in Kinds
              /\ call[c].design \in DOMAIN Designs /\ call[c].why = None
              /\ call[c].pc \in Known => sdev[call[c].board] # None
              /\ call[c].kind \in Pulls =>
                    /\ call[c].slot \in Slots /\ slot[call[c].slot].board = call[c].board
              /\ call[c].kind \notin Pulls => call[c].pc \in Registering /\ call[c].slot = None

\* A board is in one slot at most.
SeatInv ==
    /\ \A s \in Slots : slot[s].board \in Boards \union {None}
    /\ \A s, t \in Slots : slot[s].board = slot[t].board => s = t \/ slot[s].board = None

\* A job on a slot is the one its call waits for, or waits for no more.
JobInv ==
    \A s \in Slots : slot[s].job # None =>
        LET job == slot[s].job IN
        /\ slot[s].board \in Boards
        /\ job.by \in Calls /\ call[job.by].pc \in {"flashing", "failed"}
        /\ job.design \in DOMAIN Designs
        /\ call[job.by].pc = "flashing" =>
              /\ call[job.by].slot = s /\ call[job.by].design = job.design
              /\ call[job.by].erase = job.erase /\ call[job.by].kind \in Pulls

\* What a bring-up with erase that met nobody has done by each of its steps.
Reached(c) ==
    LET b == call[c].board s == call[c].slot IN
    /\ \A e \in Calls \ {c} : Working(e) => call[e].board # b /\ call[e].slot # s
    /\ slot[s].job # None => call[c].pc = "flashing" /\ slot[s].job.by = c
    /\ call[c].pc \in Registering \union {"serial", "dialogue"} =>
          board[b] = [image |-> call[c].design, key |-> None, session |-> None, nonce |-> 0]
    /\ call[c].pc \in Known =>
          /\ sdev[b] # None /\ sdev[b].slot = s
          /\ sdev[b].profile = ProfileOf[call[c].design]
    /\ call[c].pc \in Keyed => sdev[b].key = c
    /\ call[c].pc \in {"serial", "dialogue"} => sdev[b].used = {}
    /\ call[c].pc \in {"verify", "uplink"} =>
          /\ board[b].image = call[c].design /\ board[b].key = c /\ board[b].session = c
          /\ sdev[b].session = [key |-> c, up |-> sdev[b].session.up]

\* It holds of each call that met no other.
AloneInv ==
    \A c \in Calls : Working(c) /\ call[c].kind \in Pulls /\ Alone(c) => Reached(c)

ProvisionInv == Shape /\ PlaceInv /\ SeatInv /\ JobInv /\ AloneInv

-----------------------------------------------------------------------------
(* Provisioning: how a step of one call writes the calls.                  *)

\* One call moves: to another pc, or to its end.
Moves(c, pc) ==
    /\ \A e \in Calls \ {c} : call'[e] = call[e]
    /\ call' = [e \in Calls |-> call'[e]] /\ \A e \in Calls : call'[e] = Fields(call'[e])
    /\ \A e \in Calls : call'[e].app \in Nat
    /\ call'[c].pc = pc
    /\ \/ pc \in Ended \ {"idle", "handed"}
       \/ /\ call'[c].kind = call[c].kind /\ call'[c].slot = call[c].slot
          /\ call'[c].board = call[c].board /\ call'[c].design = call[c].design
          /\ call'[c].erase = call[c].erase /\ call'[c].met = call[c].met /\ call'[c].why = call[c].why

\* A call written whole moves so.
LEMMA SetMoves ==
    ASSUME Shape, NEW c \in Calls, NEW r, r = Fields(r), r.app \in Nat, call' = [call EXCEPT ![c] = r],
           \/ r.pc \in Ended \ {"idle", "handed"}
           \/ /\ r.kind = call[c].kind /\ r.slot = call[c].slot
              /\ r.board = call[c].board /\ r.design = call[c].design
              /\ r.erase = call[c].erase /\ r.met = call[c].met /\ r.why = call[c].why
    PROVE  Moves(c, r.pc) /\ call'[c] = r
  <1>1. call'[c] = r /\ \A e \in Calls \ {c} : call'[e] = call[e]
    BY DEF Shape
  <1>2. call' = [e \in Calls |-> call'[e]]
    BY DEF Shape
  <1>3. \A e \in Calls : call'[e] = Fields(call'[e]) /\ call'[e].app \in Nat
    BY <1>1 DEF Shape
  <1> QED BY <1>1, <1>2, <1>3 DEF Moves

\* Go moves a call to its next step, its fields kept.
LEMMA GoMoves ==
    ASSUME Shape, NEW c \in Calls, NEW pc, Go(c, pc)
    PROVE  Moves(c, pc)
  <1> DEFINE r == [call[c] EXCEPT !.pc = pc]
  <1>1. call[c] = Fields(call[c]) /\ call[c].app \in Nat
    BY DEF Shape
  <1>2. r.pc = pc /\ r = Fields(r) /\ r.app \in Nat /\ r.kind = call[c].kind /\ r.slot = call[c].slot
        /\ r.board = call[c].board /\ r.design = call[c].design
        /\ r.erase = call[c].erase /\ r.met = call[c].met /\ r.why = call[c].why
    BY <1>1 DEF Fields
  <1>3. call' = [call EXCEPT ![c] = r]
    BY DEF Go
  <1> HIDE DEF r
  <1> QED BY <1>2, <1>3, SetMoves

\* Fails ends a call, with its reason.
LEMMA FailsMoves ==
    ASSUME Shape, NEW c \in Calls, NEW why, Fails(c, why)
    PROVE  Moves(c, "failed") /\ call'[c].why = why
  <1> DEFINE over == [Resting EXCEPT !.pc = "failed"]
             r == [over EXCEPT !.why = why]
  <1>1. over = Fields(over) /\ over.pc = "failed" /\ over.app = 0
    <2>1. Resting = Fields(Resting) /\ Resting.app = 0
      BY DEF Fields, Resting
    <2> QED BY <2>1 DEF Fields
  <1>2. call' = [call EXCEPT ![c] = r]
    BY DEF Fails
  <1> HIDE DEF over
  <1>3. r = Fields(r) /\ r.pc = "failed" /\ r.why = why /\ r.app \in Nat
    BY <1>1 DEF Fields
  <1> HIDE DEF r
  <1> QED BY <1>2, <1>3, SetMoves DEF Ended

\* Finishes ends a call well.
LEMMA FinishesMoves ==
    ASSUME Shape, NEW c \in Calls, Finishes(c)
    PROVE  Moves(c, "done") /\ call'[c].why = None
  <1> DEFINE r == [Resting EXCEPT !.pc = "done"]
  <1>1. r = Fields(r) /\ r.pc = "done" /\ r.why = None /\ r.app \in Nat
    <2>1. Resting = Fields(Resting) /\ Resting.why = None /\ Resting.app = 0
      BY DEF Fields, Resting
    <2> QED BY <2>1 DEF Fields
  <1>2. call' = [call EXCEPT ![c] = r]
    BY DEF Finishes
  <1> HIDE DEF r
  <1> QED BY <1>1, <1>2, SetMoves DEF Ended

\* A step of a working call touches its own slot and its own board.
LEMMA OwnStep ==
    ASSUME ProvisionInv, NEW c \in Calls, NEW pc, Working(c), Moves(c, pc), pc # "idle",
           pc = "handed" => call[c].kind \notin Pulls,
           pc \notin Ended /\ call[c].kind \notin Pulls => pc \in Registering,
           board' \in [Boards -> Hardware],
           sdev' \in [Boards -> Devices \union {None}], sapps' \in Seq(Apps),
           slot' = [s \in Slots |-> slot'[s]],
           \A s \in Slots : slot'[s] = [board |-> slot[s].board, job |-> slot'[s].job, reader |-> slot'[s].reader],
           \A s \in Slots : s # call[c].slot => slot'[s].job = slot[s].job,
           \A b \in Boards : b # call[c].board => board'[b] = board[b] /\ sdev'[b] = sdev[b],
           \A b \in Boards : sdev[b] # None => sdev'[b] # None,
           pc \in Known => sdev'[call[c].board] # None,
           JobInv',
           Working(c)' /\ call[c].kind \in Pulls /\ Alone(c) => Reached(c)'
    PROVE  ProvisionInv'
  <1>1. /\ \A e \in Calls \ {c} : call'[e] = call[e]
        /\ call'[c].pc = pc
        /\ pc \notin Ended =>
              /\ call'[c].kind = call[c].kind /\ call'[c].slot = call[c].slot
              /\ call'[c].board = call[c].board /\ call'[c].design = call[c].design
              /\ call'[c].erase = call[c].erase /\ call'[c].met = call[c].met /\ call'[c].why = call[c].why
        /\ pc = "handed" => call'[c].board = call[c].board
    BY DEF Moves, Ended
  <1>2. Shape'
    BY DEF Moves, ProvisionInv, Shape
  <1>3. \A s \in Slots : slot'[s].board = slot[s].board
    OBVIOUS
  <1>4. PlaceInv'
    <2> SUFFICES ASSUME NEW e \in Calls
                 PROVE  (/\ call[e].pc = "handed" => call[e].board \in Boards
                         /\ Working(e) =>
                               /\ call[e].board \in Boards /\ call[e].kind \in Kinds
                               /\ call[e].design \in DOMAIN Designs /\ call[e].why = None
                               /\ call[e].pc \in Known => sdev[call[e].board] # None
                               /\ call[e].kind \in Pulls =>
                                     /\ call[e].slot \in Slots /\ slot[call[e].slot].board = call[e].board
                               /\ call[e].kind \notin Pulls => call[e].pc \in Registering /\ call[e].slot = None)'
      BY DEF PlaceInv
    <2>1. CASE e = c
      BY <1>1, <1>3, <2>1 DEF ProvisionInv, PlaceInv, Working
    <2>2. CASE e # c
      BY <1>1, <1>3, <2>2 DEF ProvisionInv, PlaceInv, Working
    <2> QED BY <2>1, <2>2
  <1>5. SeatInv'
    BY <1>3 DEF ProvisionInv, SeatInv
  <1>6. ASSUME NEW e \in Calls, Working(e)', call'[e].kind \in Pulls, Alone(e)'
        PROVE  Reached(e)'
    <2>1. CASE e = c
      BY <1>1, <1>6, <2>1 DEF Working, Alone
    <2>2. CASE e # c
      <3>1. call'[e] = call[e] /\ Working(e) /\ Alone(e) /\ Reached(e)
        BY <1>1, <1>6, <2>2 DEF Working, Alone, ProvisionInv, AloneInv
      <3>2. call[c].board # call[e].board /\ call[c].slot # call[e].slot
        BY <2>2, <3>1 DEF Reached
      <3>3. call[e].board \in Boards /\ call[e].slot \in Slots
        BY <1>6, <3>1 DEF ProvisionInv, PlaceInv
      <3>4. /\ board'[call[e].board] = board[call[e].board] /\ sdev'[call[e].board] = sdev[call[e].board]
            /\ slot'[call[e].slot].job = slot[call[e].slot].job
        BY <3>2, <3>3
      <3>5. \A d \in Calls \ {e} : Working(d)' => call'[d].board # call[e].board /\ call'[d].slot # call[e].slot
        <4> TAKE d \in Calls \ {e}
        <4> HAVE Working(d)'
        <4>1. CASE d = c
          BY <1>1, <3>2, <4>1 DEF Working
        <4>2. CASE d # c
          <5>1. call'[d] = call[d] /\ Working(d)
            BY <1>1, <4>2 DEF Working
          <5> QED BY <3>1, <5>1 DEF Reached
        <4> QED BY <4>1, <4>2
      <3> QED BY <3>1, <3>4, <3>5 DEF Reached
    <2> QED BY <2>1, <2>2
  <1> QED BY <1>2, <1>4, <1>5, <1>6 DEF ProvisionInv, AloneInv

\* Nothing is posted or answered: the jobs are as they were.
LEMMA JobsStand ==
    ASSUME ProvisionInv, NEW c \in Calls, NEW pc, Moves(c, pc), call[c].pc \notin {"flashing", "failed"},
           \A s \in Slots : slot'[s].job = slot[s].job /\ slot'[s].board = slot[s].board
    PROVE  JobInv'
  <1> SUFFICES ASSUME NEW s \in Slots, slot[s].job # None
               PROVE  LET job == slot[s].job IN
                      /\ slot[s].board \in Boards
                      /\ job.by \in Calls /\ call'[job.by].pc \in {"flashing", "failed"}
                      /\ job.design \in DOMAIN Designs
                      /\ call'[job.by].pc = "flashing" =>
                            /\ call'[job.by].slot = s /\ call'[job.by].design = job.design
                            /\ call'[job.by].erase = job.erase /\ call'[job.by].kind \in Pulls
    BY DEF JobInv
  <1>1. slot[s].job.by \in Calls \ {c}
    BY DEF ProvisionInv, JobInv
  <1>2. call'[slot[s].job.by] = call[slot[s].job.by]
    BY <1>1 DEF Moves
  <1> QED BY <1>2 DEF ProvisionInv, JobInv

\* A call that ends where it stands.
LEMMA EndStep ==
    ASSUME ProvisionInv, NEW c \in Calls, NEW pc \in {"failed", "done"}, Working(c), Moves(c, pc),
           call[c].pc # "flashing", UNCHANGED <<board, sdev, sapps>>,
           slot' = [s \in Slots |-> slot'[s]],
           \A s \in Slots : slot'[s] = [board |-> slot[s].board, job |-> slot[s].job, reader |-> slot'[s].reader]
    PROVE  ProvisionInv'
  <1>1. call[c].pc # "failed"
    BY DEF Working, Ended
  <1>2. \A s \in Slots : slot'[s].job = slot[s].job /\ slot'[s].board = slot[s].board
    OBVIOUS
  <1>3. JobInv'
    BY <1>1, <1>2, JobsStand
  <1>4. ~Working(c)' /\ pc \in Ended
    BY DEF Moves, Working, Ended
  <1>5. /\ board' \in [Boards -> Hardware] /\ sdev' \in [Boards -> Devices \union {None}]
        /\ sapps' \in Seq(Apps)
        /\ \A b \in Boards : b # call[c].board => board'[b] = board[b] /\ sdev'[b] = sdev[b]
        /\ \A s \in Slots : slot'[s] = [board |-> slot[s].board, job |-> slot'[s].job, reader |-> slot'[s].reader]
        /\ \A b \in Boards : sdev[b] # None => sdev'[b] # None
    BY <1>2 DEF ProvisionInv, Shape
  <1>6. pc # "idle" /\ pc # "handed" /\ pc \notin Known
    BY DEF Known, Keyed
  <1> QED BY <1>2, <1>3, <1>4, <1>5, <1>6, OwnStep

\* A call that goes on and changes nothing but where it is.
LEMMA WalkStep ==
    ASSUME ProvisionInv, NEW c \in Calls, NEW pc, Moves(c, pc), UNCHANGED <<slot, board, sdev>>, sapps' \in Seq(Apps),
           \/ call[c].pc \in {"app", "newapp", "profile"} /\ pc \in {"newapp", "profile", "device"}
           \/ call[c].pc = "verify" /\ pc = "uplink" /\ call[c].kind = "gate"
    PROVE  ProvisionInv'
  <1>1. Working(c) /\ pc \notin Ended /\ pc # "idle" /\ pc # "handed"
        /\ call[c].pc # "flashing" /\ call[c].pc # "failed"
    BY DEF Working, Ended
  <1>2. JobInv'
    BY <1>1, JobsStand
  <1>3. /\ board' \in [Boards -> Hardware] /\ sdev' \in [Boards -> Devices \union {None}]
        /\ \A b \in Boards : b # call[c].board => board'[b] = board[b] /\ sdev'[b] = sdev[b]
        /\ slot' = [s \in Slots |-> slot'[s]]
        /\ \A s \in Slots : slot'[s] = [board |-> slot[s].board, job |-> slot'[s].job, reader |-> slot'[s].reader]
        /\ \A s \in Slots : s # call[c].slot => slot'[s].job = slot[s].job
        /\ \A b \in Boards : sdev[b] # None => sdev'[b] # None
    BY DEF ProvisionInv, Shape
  <1>4. /\ pc \in Known => sdev'[call[c].board] # None
        /\ pc \notin Ended /\ call[c].kind \notin Pulls => pc \in Registering
        /\ pc \in Registering \/ (pc = "uplink" /\ call[c].pc = "verify")
    <2>1. Working(c) /\ call[c].pc \in Known => sdev[call[c].board] # None
      BY DEF ProvisionInv, PlaceInv
    <2>2. call[c].kind \notin Pulls => call[c].pc \in Registering
      BY <1>1 DEF ProvisionInv, PlaceInv
    <2>3. CASE call[c].pc = "verify" /\ pc = "uplink" /\ call[c].kind = "gate"
      BY <1>1, <2>1, <2>3 DEF Known, Keyed, Pulls
    <2>4. CASE call[c].pc \in {"app", "newapp", "profile"} /\ pc \in {"newapp", "profile", "device"}
      BY <2>4 DEF Known, Keyed, Registering
    <2> QED BY <2>3, <2>4
  <1>5. ASSUME call[c].kind \in Pulls, Alone(c) PROVE Reached(c)'
    <2>1. Reached(c)
      BY <1>1, <1>5 DEF ProvisionInv, AloneInv
    <2>2. /\ \A e \in Calls \ {c} : call'[e] = call[e]
          /\ call'[c].pc = pc /\ call'[c].slot = call[c].slot
          /\ call'[c].board = call[c].board /\ call'[c].design = call[c].design
      BY <1>1 DEF Moves
    <2>3. \A e \in Calls \ {c} : Working(e)' <=> Working(e)
      BY <2>2 DEF Working
    <2>4. slot[call[c].slot].job = None
      BY <1>1, <2>1 DEF Reached
    <2>5. CASE call[c].pc = "verify" /\ pc = "uplink"
      BY <2>1, <2>2, <2>3, <2>4, <2>5 DEF Reached, Registering, Known, Keyed
    <2>6. CASE call[c].pc \in {"app", "newapp", "profile"} /\ pc \in {"newapp", "profile", "device"}
      BY <2>1, <2>2, <2>3, <2>4, <2>6 DEF Reached, Registering, Known, Keyed
    <2> QED BY <2>5, <2>6
  <1> QED BY <1>1, <1>2, <1>3, <1>4, <1>5, OwnStep

\* A call that goes on with the application it found.
LEMMA TwoFields ==
    ASSUME Shape, NEW c \in Calls, NEW pc, NEW n \in Nat,
           call' = [call EXCEPT ![c].pc = pc, ![c].app = n]
    PROVE  Moves(c, pc)
  <1> DEFINE o == [call[c] EXCEPT !.pc = pc]
             r == [o EXCEPT !.app = n]
  <1>1. call[c] = Fields(call[c]) /\ call = [e \in Calls |-> call[e]]
    BY DEF Shape
  <1>2. o = Fields(o) /\ o.pc = pc /\ o.kind = call[c].kind /\ o.slot = call[c].slot
        /\ o.board = call[c].board /\ o.design = call[c].design
        /\ o.erase = call[c].erase /\ o.met = call[c].met /\ o.why = call[c].why
    BY <1>1 DEF Fields
  <1>3. r = Fields(r) /\ r.app \in Nat /\ r.pc = pc /\ r.kind = call[c].kind /\ r.slot = call[c].slot
        /\ r.board = call[c].board /\ r.design = call[c].design
        /\ r.erase = call[c].erase /\ r.met = call[c].met /\ r.why = call[c].why
    <2> HIDE DEF o
    <2> QED BY <1>2 DEF Fields
  <1>4. [call EXCEPT ![c].pc = pc, ![c].app = n] = [call EXCEPT ![c] = r]
    <2> DEFINE half == [call EXCEPT ![c].pc = pc]
    <2>1. [call EXCEPT ![c].pc = pc, ![c].app = n] = [half EXCEPT ![c].app = n]
      OBVIOUS
    <2>2. half = [e \in Calls |-> half[e]] /\ half[c] = o
          /\ \A e \in Calls \ {c} : half[e] = call[e]
      BY <1>1
    <2> HIDE DEF half, o
    <2>3. [half EXCEPT ![c].app = n] = [call EXCEPT ![c] = r]
      BY <1>1, <2>2
    <2> QED BY <2>1, <2>3
  <1> HIDE DEF r
  <1> QED BY <1>3, <1>4, SetMoves

\* The list of applications decides where a call goes on.
LEMMA ListAppsStep == ASSUME ProvisionInv, NEW c \in Calls, ListApps(c) PROVE ProvisionInv'
  <1>1. call[c].pc = "app" /\ UNCHANGED <<slot, board, sdev, sapps>> /\ sapps' \in Seq(Apps)
    BY DEF ListApps, ProvisionInv, Shape
  <1>2. CASE Go(c, "newapp")
    BY <1>1, <1>2, GoMoves, WalkStep DEF ProvisionInv
  <1>3. ASSUME NEW i \in DOMAIN sapps, call' = [call EXCEPT ![c].pc = "profile", ![c].app = i] PROVE ProvisionInv'
    <2>1. i \in Nat
      BY DEF ProvisionInv, Shape
    <2> QED BY <1>1, <1>3, <2>1, TwoFields, WalkStep DEF ProvisionInv
  <1> QED BY <1>2, <1>3 DEF ListApps

\* A created application is the call's, whatever others created.
LEMMA CreateAppStep == ASSUME ProvisionInv, NEW c \in Calls, CreateApp(c) PROVE ProvisionInv'
  <1>1. sapps \in Seq(Apps) /\ AppFor(call[c].kind) \in Apps
    BY DEF ProvisionInv, Shape, AppFor, Apps
  <1>2. sapps' \in Seq(Apps) /\ Len(sapps) + 1 \in Nat
    BY <1>1 DEF CreateApp
  <1> QED BY <1>2, TwoFields, WalkStep DEF CreateApp, ProvisionInv

\* The profile is written: of the board and its device nothing changes.
LEMMA EnsureProfileStep == ASSUME ProvisionInv, NEW c \in Calls, EnsureProfile(c) PROVE ProvisionInv'
  <1>1. sapps' \in Seq(Apps)
    BY DEF EnsureProfile, ProvisionInv, Shape
  <1> QED BY <1>1, GoMoves, WalkStep DEF EnsureProfile, ProvisionInv

\* The verdict on the activation.
LEMMA VerifyStep == ASSUME ProvisionInv, NEW c \in Calls, Verify(c) PROVE ProvisionInv'
  <1>1. call[c].pc = "verify" /\ UNCHANGED <<slot, board, sdev, sapps>> /\ Working(c) /\ sapps' \in Seq(Apps)
    BY DEF Verify, Working, Ended, ProvisionInv, Shape
  <1>2. CASE call[c].kind = "gate" /\ Go(c, "uplink")
    BY <1>1, <1>2, GoMoves, WalkStep DEF ProvisionInv
  <1>3. /\ slot' = [s \in Slots |-> slot'[s]]
        /\ \A s \in Slots : slot'[s] = [board |-> slot[s].board, job |-> slot[s].job, reader |-> slot'[s].reader]
    BY <1>1 DEF ProvisionInv, Shape
  <1>4. CASE Finishes(c)
    BY <1>1, <1>3, <1>4, FinishesMoves, EndStep DEF ProvisionInv
  <1>5. CASE Fails(c, "inactive")
    BY <1>1, <1>3, <1>5, FailsMoves, EndStep DEF ProvisionInv
  <1> QED BY <1>2, <1>4, <1>5 DEF Verify

\* The steps that end a call and change nothing else.
LEMMA EndsStep ==
    ASSUME ProvisionInv, NEW c \in Calls,
           CountUplinks(c) \/ RequestFails(c)
    PROVE  ProvisionInv'
  <1>1. Working(c) /\ call[c].pc # "flashing" /\ UNCHANGED <<slot, board, sdev, sapps>>
    BY DEF CountUplinks, RequestFails, Working, Ended
  <1>2. \E pc \in {"failed", "done"} : Moves(c, pc)
    BY FinishesMoves, FailsMoves DEF CountUplinks, RequestFails, ProvisionInv
  <1>3. /\ slot' = [s \in Slots |-> slot'[s]]
        /\ \A s \in Slots : slot'[s] = [board |-> slot[s].board, job |-> slot[s].job, reader |-> slot'[s].reader]
    BY <1>1 DEF ProvisionInv, Shape
  <1> QED BY <1>1, <1>2, <1>3, EndStep

\* A new reader, or none, on one slot.
LEMMA ReaderSet ==
    ASSUME Shape, NEW t \in Slots, NEW reader, slot' = [slot EXCEPT ![t].reader = reader]
    PROVE  /\ slot' = [s \in Slots |-> slot'[s]]
           /\ \A s \in Slots : slot'[s] = [board |-> slot[s].board, job |-> slot[s].job, reader |-> slot'[s].reader]
  <1> DEFINE r == [slot[t] EXCEPT !.reader = reader]
  <1>1. /\ slot = [s \in Slots |-> slot[s]]
        /\ \A s \in Slots : slot[s] = [board |-> slot[s].board, job |-> slot[s].job, reader |-> slot[s].reader]
    BY DEF Shape
  <1>2. r = [board |-> slot[t].board, job |-> slot[t].job, reader |-> reader] /\ r.reader = reader
    BY <1>1
  <1>3. slot' = [slot EXCEPT ![t] = r]
    OBVIOUS
  <1> HIDE DEF r
  <1>4. slot'[t] = r /\ \A s \in Slots \ {t} : slot'[s] = slot[s]
    BY <1>1, <1>3
  <1> QED BY <1>1, <1>2, <1>3, <1>4

\* Only calls that bring a board up have a slot's serial line.
LEMMA SlotFacts ==
    ASSUME ProvisionInv, NEW c \in Calls, Working(c), call[c].pc \notin Registering
    PROVE  /\ call[c].kind \in Pulls /\ call[c].slot \in Slots /\ call[c].board \in Boards
           /\ slot[call[c].slot].board = call[c].board
           /\ call[c].pc \in Known => sdev[call[c].board] # None
  BY DEF ProvisionInv, PlaceInv

\* The dialogue's deadline closes the port and ends the call.
LEMMA SerialTimesOutStep == ASSUME ProvisionInv, NEW c \in Calls, SerialTimesOut(c) PROVE ProvisionInv'
  <1>1. Working(c) /\ call[c].pc # "flashing" /\ UNCHANGED <<board, sdev, sapps>> /\ call[c].slot \in Slots
        /\ slot' = [slot EXCEPT ![call[c].slot].reader = None]
    BY SlotFacts DEF SerialTimesOut, Working, Ended, Registering, Closed
  <1>2. Moves(c, "failed")
    BY FailsMoves DEF SerialTimesOut, ProvisionInv
  <1>3. /\ slot' = [s \in Slots |-> slot'[s]]
        /\ \A s \in Slots : slot'[s] = [board |-> slot[s].board, job |-> slot[s].job, reader |-> slot'[s].reader]
    BY <1>1, ReaderSet DEF ProvisionInv
  <1> QED BY <1>1, <1>2, <1>3, EndStep

\* A call opens the port of its slot, or ends.
LEMMA OpenSerialStep == ASSUME ProvisionInv, NEW c \in Calls, OpenSerial(c) PROVE ProvisionInv'
  <1>1. Working(c) /\ call[c].pc = "serial" /\ UNCHANGED <<board, sdev, sapps>> /\ call[c].slot \in Slots
        /\ call[c].kind \in Pulls /\ sdev[call[c].board] # None
    BY SlotFacts DEF OpenSerial, Working, Ended, Registering, Known, Keyed
  <1>2. CASE Fails(c, "port") /\ UNCHANGED slot
    <2>1. Moves(c, "failed")
      BY <1>2, FailsMoves DEF ProvisionInv
    <2>2. /\ slot' = [s \in Slots |-> slot'[s]]
          /\ \A s \in Slots : slot'[s] = [board |-> slot[s].board, job |-> slot[s].job, reader |-> slot'[s].reader]
      BY <1>2 DEF ProvisionInv, Shape
    <2> QED BY <1>1, <2>1, <2>2, EndStep
  <1>3. CASE slot' = [slot EXCEPT ![call[c].slot].reader = c] /\ Go(c, "dialogue")
    <2>1. Moves(c, "dialogue")
      BY <1>3, GoMoves DEF ProvisionInv
    <2>2. /\ slot' = [s \in Slots |-> slot'[s]]
          /\ \A s \in Slots : slot'[s] = [board |-> slot[s].board, job |-> slot[s].job, reader |-> slot'[s].reader]
      BY <1>1, <1>3, ReaderSet DEF ProvisionInv
    <2>3. \A s \in Slots : /\ slot'[s].job = slot[s].job /\ slot'[s].board = slot[s].board
                           /\ slot'[s] = [board |-> slot[s].board, job |-> slot'[s].job, reader |-> slot'[s].reader]
      BY <2>2
    <2>4. JobInv'
      BY <1>1, <2>1, <2>3, JobsStand
    <2>5. ASSUME Alone(c) PROVE Reached(c)'
      <3>1. Reached(c)
        BY <1>1, <2>5 DEF ProvisionInv, AloneInv
      <3>2. /\ \A e \in Calls \ {c} : call'[e] = call[e]
            /\ call'[c].pc = "dialogue" /\ call'[c].slot = call[c].slot
            /\ call'[c].board = call[c].board /\ call'[c].design = call[c].design
        BY <2>1 DEF Moves, Ended
      <3>3. \A e \in Calls \ {c} : Working(e)' <=> Working(e)
        BY <3>2 DEF Working
      <3> QED BY <1>1, <2>3, <3>1, <3>2, <3>3 DEF Reached, Registering, Known, Keyed
    <2>6. board' \in [Boards -> Hardware] /\ sdev' \in [Boards -> Devices \union {None}] /\ sapps' \in Seq(Apps)
      BY <1>1 DEF ProvisionInv, Shape
    <2>7. "dialogue" \notin Ended
      BY DEF Ended
    <2> QED BY <1>1, <2>1, <2>2, <2>3, <2>4, <2>5, <2>6, <2>7, OwnStep
  <1> QED BY <1>2, <1>3 DEF OpenSerial

\* A step of a registration writes the device of the call's board.
LEMMA DeviceStep ==
    ASSUME ProvisionInv, NEW c \in Calls, NEW pc \in {"keys", "nonces", "serial", "handed"}, NEW d \in Devices,
           call[c].pc \in Registering, Moves(c, pc), sdev' = [sdev EXCEPT ![call[c].board] = d],
           UNCHANGED <<slot, board, sapps>>,
           pc = "handed" => call[c].kind \notin Pulls, pc = "serial" => call[c].kind \in Pulls,
           call[c].kind \in Pulls /\ Reached(c) =>
               /\ d.slot = call[c].slot /\ d.profile = ProfileOf[call[c].design]
               /\ pc # "keys" => d.key = c
               /\ pc = "serial" => d.used = {}
    PROVE  ProvisionInv'
  <1>1. Working(c) /\ call[c].pc \notin {"flashing", "failed"} /\ pc # "idle"
    BY DEF Working, Ended, Registering
  <1>2. call[c].board \in Boards
    BY <1>1 DEF ProvisionInv, PlaceInv
  <1>3. d # None
    BY ProvisionAssumption
  <1>4. /\ sdev' \in [Boards -> Devices \union {None}] /\ sdev'[call[c].board] = d
        /\ \A b \in Boards : b # call[c].board => sdev'[b] = sdev[b]
    BY <1>2 DEF ProvisionInv, Shape
  <1>5. /\ \A b \in Boards : sdev[b] # None => sdev'[b] # None
        /\ sdev'[call[c].board] # None
    BY <1>3, <1>4
  <1>6. /\ board' \in [Boards -> Hardware] /\ sapps' \in Seq(Apps)
        /\ \A b \in Boards : b # call[c].board => board'[b] = board[b]
        /\ slot' = [s \in Slots |-> slot'[s]]
        /\ \A s \in Slots : /\ slot'[s] = [board |-> slot[s].board, job |-> slot'[s].job, reader |-> slot'[s].reader]
                            /\ slot'[s].job = slot[s].job /\ slot'[s].board = slot[s].board
    BY DEF ProvisionInv, Shape
  <1>7. JobInv'
    BY <1>1, <1>6, JobsStand
  <1>8. pc \notin Ended /\ call[c].kind \notin Pulls => pc \in Registering
    BY DEF Ended, Registering
  <1>9. ASSUME Working(c)', call[c].kind \in Pulls, Alone(c) PROVE Reached(c)'
    <2>1. Reached(c)
      BY <1>1, <1>9 DEF ProvisionInv, AloneInv
    <2>2. /\ \A e \in Calls \ {c} : call'[e] = call[e]
          /\ call'[c].pc = pc /\ call'[c].slot = call[c].slot
          /\ call'[c].board = call[c].board /\ call'[c].design = call[c].design
      BY <1>9 DEF Moves, Working, Ended
    <2>3. \A e \in Calls \ {c} : Working(e)' <=> Working(e)
      BY <2>2 DEF Working
    <2>4. /\ d.slot = call[c].slot /\ d.profile = ProfileOf[call[c].design]
          /\ pc # "keys" => d.key = c
          /\ pc = "serial" => d.used = {}
      BY <1>9, <2>1
    <2>5. slot'[call[c].slot].job = None
      <3>1. slot[call[c].slot].job = None
        BY <1>1, <2>1 DEF Reached
      <3> QED BY <3>1
    <2>6. board'[call[c].board] = [image |-> call[c].design, key |-> None, session |-> None, nonce |-> 0]
      BY <2>1 DEF Reached
    <2>7. \A e \in Calls \ {c} : Working(e)' => call'[e].board # call[c].board /\ call'[e].slot # call[c].slot
      BY <2>1, <2>2, <2>3 DEF Reached
    <2>8. pc \notin {"dialogue", "verify", "uplink"}
      OBVIOUS
    <2> QED BY <1>4, <1>5, <2>2, <2>4, <2>5, <2>6, <2>7, <2>8 DEF Reached, Keyed
  <1> QED BY <1>1, <1>4, <1>5, <1>6, <1>7, <1>8, <1>9, OwnStep

\* A device there is, pointed at another profile and slot.
LEMMA RepointedDevice ==
    ASSUME NEW dev \in Devices, NEW p \in Profiles, NEW s \in Slots \union {None}
    PROVE  /\ Repointed(dev, p, s) \in Devices
           /\ Repointed(dev, p, s).profile = p
           /\ s # None => Repointed(dev, p, s).slot = s
  <1> DEFINE at == IF s = None THEN dev.slot ELSE s
             r == [app |-> dev.app, profile |-> p, slot |-> at, key |-> dev.key,
                   used |-> dev.used, session |-> dev.session]
             half == [dev EXCEPT !.profile = p]
  <1>1. Repointed(dev, p, s) = r
    <2>1. /\ half = [app |-> dev.app, profile |-> p, slot |-> dev.slot, key |-> dev.key,
                     used |-> dev.used, session |-> dev.session]
          /\ half.slot = dev.slot
      BY DEF Devices
    <2>2. Repointed(dev, p, s) = [half EXCEPT !.slot = IF s = None THEN half.slot ELSE s]
      BY DEF Repointed
    <2> HIDE DEF half
    <2>3. [half EXCEPT !.slot = IF s = None THEN half.slot ELSE s] = r
      BY <2>1
    <2> QED BY <2>2, <2>3
  <1>2. r \in Devices
    BY DEF Devices
  <1> QED BY <1>1, <1>2

\* create_device: a new device, one repointed, or the end.
LEMMA CreateDeviceStep == ASSUME ProvisionInv, NEW c \in Calls, CreateDevice(c) PROVE ProvisionInv'
  <1> DEFINE b == call[c].board
             p == ProfileFor(call[c].kind, call[c].design)
  <1>1. /\ Working(c) /\ call[c].pc = "device" /\ UNCHANGED <<slot, board, sapps>>
        /\ call[c].pc \in Registering
    BY DEF CreateDevice, Working, Ended, Registering
  <1>2. /\ b \in Boards /\ p \in Profiles /\ call[c].slot \in Slots \union {None}
        /\ call[c].kind \in Pulls => p = ProfileOf[call[c].design] /\ call[c].slot \in Slots
    BY <1>1 DEF ProvisionInv, PlaceInv, Profiles, ProfileFor, Pulls
  <1>3. call[c].slot \in Slots => call[c].slot # None
    BY ProvisionAssumption
  <1>4. ASSUME NEW d \in Devices, sdev' = [sdev EXCEPT ![b] = d], Go(c, "keys"),
               d.profile = p, call[c].slot # None => d.slot = call[c].slot
        PROVE  ProvisionInv'
    <2>1. Moves(c, "keys")
      BY <1>4, GoMoves DEF ProvisionInv
    <2> QED BY <1>1, <1>2, <1>3, <1>4, <2>1, DeviceStep
  <1>5. CASE sdev[b] = None /\ Go(c, "keys")
             /\ sdev' = [sdev EXCEPT ![b] = [app |-> call[c].app, profile |-> p, slot |-> call[c].slot,
                                             key |-> None, used |-> {}, session |-> None]]
    <2> DEFINE d == [app |-> call[c].app, profile |-> p, slot |-> call[c].slot,
                     key |-> None, used |-> {}, session |-> None]
    <2>1. d \in Devices
      BY <1>2 DEF Devices, ProvisionInv, Shape
    <2>2. d.profile = p /\ d.slot = call[c].slot
      OBVIOUS
    <2>3. sdev' = [sdev EXCEPT ![b] = d]
      BY <1>5
    <2> HIDE DEF d
    <2> QED BY <1>4, <1>5, <2>1, <2>2, <2>3
  <1>6. CASE sdev[b] # None /\ Go(c, "keys") /\ sdev' = [sdev EXCEPT ![b] = Repointed(@, p, call[c].slot)]
    <2> DEFINE d == Repointed(sdev[b], p, call[c].slot)
    <2>1. sdev[b] \in Devices
      BY <1>2, <1>6 DEF ProvisionInv, Shape
    <2>2. d \in Devices /\ d.profile = p /\ (call[c].slot # None => d.slot = call[c].slot)
      BY <1>2, <2>1, RepointedDevice
    <2>3. sdev' = [sdev EXCEPT ![b] = d]
      BY <1>6
    <2> HIDE DEF d
    <2> QED BY <1>4, <1>6, <2>2, <2>3
  <1>7. CASE Fails(c, "elsewhere") /\ UNCHANGED sdev
    <2>1. Moves(c, "failed")
      BY <1>7, FailsMoves DEF ProvisionInv
    <2>2. /\ slot' = [s \in Slots |-> slot'[s]]
          /\ \A s \in Slots : slot'[s] = [board |-> slot[s].board, job |-> slot[s].job, reader |-> slot'[s].reader]
      BY <1>1 DEF ProvisionInv, Shape
    <2> QED BY <1>1, <1>7, <2>1, <2>2, EndStep
  <1> QED BY <1>5, <1>6, <1>7 DEF CreateDevice

\* set_device_keys: the device has the call's key.
LEMMA SetKeysStep == ASSUME ProvisionInv, NEW c \in Calls, SetKeys(c) PROVE ProvisionInv'
  <1> DEFINE b == call[c].board
             dev == sdev[b]
             d == [app |-> dev.app, profile |-> dev.profile, slot |-> dev.slot, key |-> c,
                   used |-> dev.used, session |-> dev.session]
  <1>1. /\ Working(c) /\ call[c].pc = "keys" /\ UNCHANGED <<slot, board, sapps>>
        /\ call[c].pc \in Registering /\ call[c].pc \in Known
    BY DEF SetKeys, Working, Ended, Registering, Known
  <1>2. b \in Boards /\ dev # None
    BY <1>1 DEF ProvisionInv, PlaceInv
  <1>3. dev \in Devices
    BY <1>2 DEF ProvisionInv, Shape
  <1>4. [dev EXCEPT !.key = c] = d
    BY <1>3 DEF Devices
  <1>5. d \in Devices
    BY <1>3 DEF Devices
  <1>6. sdev' = [sdev EXCEPT ![b] = d]
    <2>1. sdev' = [sdev EXCEPT ![b] = [dev EXCEPT !.key = c]]
      BY DEF SetKeys
    <2> QED BY <1>4, <2>1
  <1>7. d.slot = dev.slot /\ d.profile = dev.profile /\ d.key = c
    OBVIOUS
  <1>8. Moves(c, "nonces")
    BY GoMoves DEF SetKeys, ProvisionInv
  <1> HIDE DEF d
  <1>9. Reached(c) => d.slot = call[c].slot /\ d.profile = ProfileOf[call[c].design]
    BY <1>1, <1>7 DEF Reached
  <1> QED BY <1>1, <1>5, <1>6, <1>7, <1>8, <1>9, DeviceStep

\* The flush: the device has used no nonce, and a bring-up goes on to the prompt.
LEMMA FlushNoncesStep == ASSUME ProvisionInv, NEW c \in Calls, FlushNonces(c) PROVE ProvisionInv'
  <1> DEFINE b == call[c].board
             dev == sdev[b]
             pc == IF call[c].kind \in {"bench", "gate"} THEN "serial" ELSE "handed"
             d == [app |-> dev.app, profile |-> dev.profile, slot |-> dev.slot, key |-> dev.key,
                   used |-> {}, session |-> dev.session]
  <1>1. /\ Working(c) /\ call[c].pc = "nonces" /\ UNCHANGED <<slot, board, sapps>>
        /\ call[c].pc \in Registering /\ call[c].pc \in Known /\ call[c].pc \in Keyed
    BY DEF FlushNonces, Working, Ended, Registering, Known, Keyed
  <1>2. b \in Boards /\ dev # None
    BY <1>1 DEF ProvisionInv, PlaceInv
  <1>3. dev \in Devices
    BY <1>2 DEF ProvisionInv, Shape
  <1>4. [dev EXCEPT !.used = {}] = d
    BY <1>3 DEF Devices
  <1>5. d \in Devices
    BY <1>3 DEF Devices
  <1>6. sdev' = [sdev EXCEPT ![b] = d]
    <2>1. sdev' = [sdev EXCEPT ![b] = [dev EXCEPT !.used = {}]]
      BY DEF FlushNonces, UsedAfterFlush
    <2> QED BY <1>4, <2>1
  <1>7. d.slot = dev.slot /\ d.profile = dev.profile /\ d.key = dev.key /\ d.used = {}
    OBVIOUS
  <1>8. Moves(c, pc)
    BY GoMoves DEF FlushNonces, ProvisionInv
  <1>9. /\ pc \in {"keys", "nonces", "serial", "handed"}
        /\ pc = "handed" => call[c].kind \notin Pulls
        /\ pc = "serial" => call[c].kind \in Pulls
    BY DEF Pulls
  <1> HIDE DEF d, pc
  <1>10. Reached(c) => d.slot = call[c].slot /\ d.profile = ProfileOf[call[c].design] /\ d.key = c
    BY <1>1, <1>7 DEF Reached
  <1> QED BY <1>1, <1>5, <1>6, <1>7, <1>8, <1>9, <1>10, DeviceStep

\* A job posted to a slot, or taken from it.
LEMMA JobSet ==
    ASSUME Shape, NEW t \in Slots, NEW job, slot' = [slot EXCEPT ![t].job = job]
    PROVE  /\ slot' = [s \in Slots |-> slot'[s]]
           /\ \A s \in Slots : slot'[s] = [board |-> slot[s].board, job |-> slot'[s].job, reader |-> slot'[s].reader]
           /\ slot'[t].job = job /\ \A s \in Slots \ {t} : slot'[s] = slot[s]
           /\ \A s \in Slots : slot'[s].board = slot[s].board
  <1> DEFINE r == [slot[t] EXCEPT !.job = job]
  <1>1. /\ slot = [s \in Slots |-> slot[s]]
        /\ \A s \in Slots : slot[s] = [board |-> slot[s].board, job |-> slot[s].job, reader |-> slot[s].reader]
    BY DEF Shape
  <1>2. r = [board |-> slot[t].board, job |-> job, reader |-> slot[t].reader] /\ r.job = job
        /\ r.board = slot[t].board /\ r.reader = slot[t].reader
    BY <1>1
  <1>3. slot' = [slot EXCEPT ![t] = r]
    OBVIOUS
  <1> HIDE DEF r
  <1>4. slot'[t] = r /\ \A s \in Slots \ {t} : slot'[s] = slot[s]
    BY <1>1, <1>3
  <1>5. slot' = [s \in Slots |-> slot'[s]]
    BY <1>1, <1>3
  <1> QED BY <1>1, <1>2, <1>4, <1>5

\* The flash is posted to a slot that is free, for the board that is in it.
LEMMA FlashStep == ASSUME ProvisionInv, NEW c \in Calls, Flash(c) PROVE ProvisionInv'
  <1> DEFINE s == call[c].slot
             job == [design |-> call[c].design, erase |-> call[c].erase, by |-> c]
  <1>1. Working(c) /\ call[c].pc = "flash" /\ UNCHANGED <<board, sdev, sapps>> /\ s \in Slots
        /\ call[c].kind \in Pulls /\ slot[s].board = call[c].board /\ call[c].board \in Boards
        /\ call[c].design \in DOMAIN Designs
    BY SlotFacts DEF Flash, Working, Ended, Registering, ProvisionInv, PlaceInv
  <1>2. CASE Fails(c, "busy") /\ UNCHANGED slot
    <2>1. Moves(c, "failed")
      BY <1>2, FailsMoves DEF ProvisionInv
    <2>2. /\ slot' = [t \in Slots |-> slot'[t]]
          /\ \A t \in Slots : slot'[t] = [board |-> slot[t].board, job |-> slot[t].job, reader |-> slot'[t].reader]
      BY <1>2 DEF ProvisionInv, Shape
    <2> QED BY <1>1, <2>1, <2>2, EndStep
  <1>3. CASE slot' = [slot EXCEPT ![s].job = job] /\ Go(c, "flashing")
    <2>1. Moves(c, "flashing")
      BY <1>3, GoMoves DEF ProvisionInv
    <2>2. /\ slot' = [t \in Slots |-> slot'[t]]
          /\ \A t \in Slots : slot'[t] = [board |-> slot[t].board, job |-> slot'[t].job, reader |-> slot'[t].reader]
          /\ slot'[s].job = job /\ \A t \in Slots \ {s} : slot'[t] = slot[t]
          /\ \A t \in Slots : slot'[t].board = slot[t].board
      BY <1>1, <1>3, JobSet DEF ProvisionInv
    <2>3. /\ \A e \in Calls \ {c} : call'[e] = call[e]
          /\ call'[c].pc = "flashing" /\ call'[c].slot = s /\ call'[c].kind = call[c].kind
          /\ call'[c].board = call[c].board /\ call'[c].design = call[c].design
          /\ call'[c].erase = call[c].erase
      BY <2>1 DEF Moves, Ended
    <2>4. JobInv'
      <3> SUFFICES ASSUME NEW t \in Slots, slot'[t].job # None
                   PROVE  LET j == slot'[t].job IN
                          /\ slot'[t].board \in Boards
                          /\ j.by \in Calls /\ call'[j.by].pc \in {"flashing", "failed"}
                          /\ j.design \in DOMAIN Designs
                          /\ call'[j.by].pc = "flashing" =>
                                /\ call'[j.by].slot = t /\ call'[j.by].design = j.design
                                /\ call'[j.by].erase = j.erase /\ call'[j.by].kind \in Pulls
        BY DEF JobInv
      <3>1. CASE t = s
        BY <1>1, <2>2, <2>3, <3>1
      <3>2. CASE t # s
        <4>1. slot'[t] = slot[t] /\ slot[t].job.by \in Calls \ {c}
          BY <1>1, <2>2, <3>2 DEF ProvisionInv, JobInv
        <4> QED BY <2>3, <4>1 DEF ProvisionInv, JobInv
      <3> QED BY <3>1, <3>2
    <2>5. ASSUME Alone(c) PROVE Reached(c)'
      <3>1. Reached(c)
        BY <1>1, <2>5 DEF ProvisionInv, AloneInv
      <3>2. \A e \in Calls \ {c} : Working(e)' <=> Working(e)
        BY <2>3 DEF Working
      <3>3. "flashing" \notin Registering \union Known \union Keyed
        BY DEF Registering, Known, Keyed
      <3> QED BY <1>1, <2>2, <2>3, <3>1, <3>2, <3>3 DEF Reached
    <2>6. board' \in [Boards -> Hardware] /\ sdev' \in [Boards -> Devices \union {None}] /\ sapps' \in Seq(Apps)
      BY <1>1 DEF ProvisionInv, Shape
    <2>7. "flashing" \notin Ended /\ "flashing" \notin Known
      BY DEF Ended, Known, Keyed
    <2>8. \A t \in Slots : t # s => slot'[t].job = slot[t].job
      BY <2>2
    <2> QED BY <1>1, <2>1, <2>2, <2>4, <2>5, <2>6, <2>7, <2>8, OwnStep
  <1> QED BY <1>2, <1>3 DEF Flash

\* The client gives up on a flash; the job stays on the slot.
LEMMA FlashTimesOutStep == ASSUME ProvisionInv, NEW c \in Calls, FlashTimesOut(c) PROVE ProvisionInv'
  <1>1. Working(c) /\ call[c].pc = "flashing" /\ UNCHANGED <<slot, board, sdev, sapps>>
    BY DEF FlashTimesOut, Working, Ended
  <1>2. Moves(c, "failed")
    BY FailsMoves DEF FlashTimesOut, ProvisionInv
  <1>3. JobInv'
    BY <1>1, <1>2 DEF Moves, ProvisionInv, JobInv
  <1>4. ~Working(c)' /\ "failed" \in Ended /\ "failed" \notin Known
    BY <1>2 DEF Moves, Working, Ended, Known, Keyed
  <1>5. /\ board' \in [Boards -> Hardware] /\ sdev' \in [Boards -> Devices \union {None}]
        /\ sapps' \in Seq(Apps)
        /\ slot' = [s \in Slots |-> slot'[s]]
        /\ \A s \in Slots : slot'[s] = [board |-> slot[s].board, job |-> slot'[s].job, reader |-> slot'[s].reader]
    BY <1>1 DEF ProvisionInv, Shape
  <1> QED BY <1>1, <1>2, <1>3, <1>4, <1>5, OwnStep

\* esptool writes the board in the slot, for a call that waits or for none.
LEMMA BenchEndsStep ==
    ASSUME ProvisionInv, NEW s \in Slots, NEW good \in BOOLEAN, BenchEnds(s, good)
    PROVE  ProvisionInv'
  <1> DEFINE job == slot[s].job
             b == slot[s].board
             c == job.by
             image == IF good THEN job.design ELSE Torn
             hw == IF job.erase THEN [image |-> image, key |-> None, session |-> None, nonce |-> 0]
                   ELSE [image |-> image, key |-> board[b].key, session |-> board[b].session,
                         nonce |-> board[b].nonce]
  <1>1. /\ job # None /\ UNCHANGED <<sdev, sapps>> /\ b \in Boards /\ c \in Calls
        /\ call[c].pc \in {"flashing", "failed"} /\ job.design \in DOMAIN Designs
        /\ slot' = [slot EXCEPT ![s].job = None]
    BY DEF BenchEnds, ProvisionInv, JobInv
  <1>2. /\ slot' = [t \in Slots |-> slot'[t]]
        /\ \A t \in Slots : slot'[t] = [board |-> slot[t].board, job |-> slot'[t].job, reader |-> slot'[t].reader]
        /\ slot'[s].job = None /\ \A t \in Slots \ {s} : slot'[t] = slot[t]
        /\ \A t \in Slots : slot'[t].board = slot[t].board
    BY <1>1, JobSet DEF ProvisionInv
  <1>3. board' = [board EXCEPT ![b] = hw]
    <2>1. board[b] = [image |-> board[b].image, key |-> board[b].key, session |-> board[b].session,
                      nonce |-> board[b].nonce]
      BY <1>1 DEF ProvisionInv, Shape, Hardware
    <2>2. [board[b] EXCEPT !.image = image] = [image |-> image, key |-> board[b].key,
               session |-> board[b].session, nonce |-> board[b].nonce]
      BY <2>1
    <2>3. [Blank EXCEPT !.image = image] = [image |-> image, key |-> None, session |-> None, nonce |-> 0]
      BY DEF Blank
    <2>4. Written(b, image, job.erase)
      BY DEF BenchEnds
    <2> QED BY <2>2, <2>3, <2>4 DEF Written
  <1>4. hw \in Hardware
    BY <1>1 DEF ProvisionInv, Shape, Hardware, Images
  <1>5. /\ board' \in [Boards -> Hardware] /\ board'[b] = hw
        /\ \A a \in Boards : a # b => board'[a] = board[a]
    BY <1>1, <1>3, <1>4 DEF ProvisionInv, Shape
  <1>6. CASE call[c].pc # "flashing" /\ UNCHANGED call
    <2>1. Shape'
      BY <1>1, <1>2, <1>5, <1>6 DEF ProvisionInv, Shape
    <2>2. PlaceInv' /\ SeatInv'
      BY <1>1, <1>2, <1>6 DEF ProvisionInv, PlaceInv, SeatInv, Working
    <2>3. JobInv'
      BY <1>2, <1>6 DEF ProvisionInv, JobInv
    <2>4. ASSUME NEW e \in Calls, Working(e), call[e].kind \in Pulls, Alone(e)
          PROVE  Reached(e)'
      <3>1. Reached(e)
        BY <2>4 DEF ProvisionInv, AloneInv
      <3>2. call[e].slot \in Slots /\ slot[call[e].slot].board = call[e].board /\ call[e].board \in Boards
        BY <2>4 DEF ProvisionInv, PlaceInv
      <3>3. call[e].slot # s
        BY <1>1, <1>6, <3>1 DEF Reached
      <3>4. call[e].board # b
        BY <1>1, <3>2, <3>3, ProvisionAssumption DEF ProvisionInv, SeatInv
      <3>5. /\ board'[call[e].board] = board[call[e].board]
            /\ slot'[call[e].slot] = slot[call[e].slot]
        BY <1>2, <1>5, <3>2, <3>3, <3>4
      <3>6. \A d \in Calls : Working(d)' <=> Working(d)
        BY <1>6 DEF Working
      <3> QED BY <1>1, <1>6, <3>1, <3>5, <3>6 DEF Reached
    <2>5. AloneInv'
      BY <1>6, <2>4 DEF AloneInv, Working, Alone
    <2> QED BY <2>1, <2>2, <2>3, <2>5 DEF ProvisionInv
  <1>7. ASSUME NEW w \in Calls, w = c, call[w].pc = "flashing", NEW pc \in {"app", "failed"}, Moves(w, pc),
               pc = "app" => good
        PROVE  ProvisionInv'
    <2>1. /\ Working(w) /\ call[w].slot = s /\ call[w].design = job.design
          /\ call[w].erase = job.erase /\ call[w].kind \in Pulls /\ call[w].board = b
      BY <1>1, <1>7 DEF ProvisionInv, JobInv, PlaceInv, Working, Ended
    <2>2. \A e \in Calls \ {w} : call'[e] = call[e]
      BY <1>7 DEF Moves
    <2>3. JobInv'
      <3> SUFFICES ASSUME NEW t \in Slots, slot'[t].job # None
                   PROVE  LET j == slot'[t].job IN
                          /\ slot'[t].board \in Boards
                          /\ j.by \in Calls /\ call'[j.by].pc \in {"flashing", "failed"}
                          /\ j.design \in DOMAIN Designs
                          /\ call'[j.by].pc = "flashing" =>
                                /\ call'[j.by].slot = t /\ call'[j.by].design = j.design
                                /\ call'[j.by].erase = j.erase /\ call'[j.by].kind \in Pulls
        BY DEF JobInv
      <3>1. t # s /\ slot'[t] = slot[t]
        BY <1>2
      <3>2. slot[t].job.by \in Calls \ {w}
        BY <1>7, <2>1, <3>1 DEF ProvisionInv, JobInv
      <3> QED BY <2>2, <3>1, <3>2 DEF ProvisionInv, JobInv
    <2>4. ASSUME Working(w)', Alone(w) PROVE Reached(w)'
      <3>1. Reached(w)
        BY <2>1, <2>4 DEF ProvisionInv, AloneInv
      <3>2. /\ pc = "app" /\ call'[w].pc = pc /\ call'[w].slot = s
            /\ call'[w].board = b /\ call'[w].design = job.design
        BY <1>7, <2>1, <2>4 DEF Moves, Working, Ended
      <3>3. hw = [image |-> call[w].design, key |-> None, session |-> None, nonce |-> 0]
        BY <1>7, <2>1, <2>4, <3>2 DEF Alone
      <3>4. \A e \in Calls \ {w} : Working(e)' <=> Working(e)
        BY <2>2 DEF Working
      <3>5. \A e \in Calls \ {w} : Working(e)' => call'[e].board # b /\ call'[e].slot # s
        BY <2>1, <2>2, <3>1, <3>4 DEF Reached
      <3>6. "app" \notin Known \union Keyed \union {"serial", "dialogue", "verify", "uplink"}
        BY DEF Known, Keyed
      <3> HIDE DEF hw
      <3> QED BY <1>2, <1>5, <2>1, <3>2, <3>3, <3>5, <3>6 DEF Reached
    <2>5. sdev' \in [Boards -> Devices \union {None}] /\ sapps' \in Seq(Apps)
      BY <1>1 DEF ProvisionInv, Shape
    <2>6. pc # "idle" /\ pc # "handed" /\ pc \notin Known /\ (pc \notin Ended => pc \in Registering)
      BY DEF Known, Keyed, Registering, Ended
    <2>7. \A t \in Slots : t # call[w].slot => slot'[t].job = slot[t].job
      BY <1>2, <2>1
    <2>8. \A a \in Boards : /\ a # call[w].board => board'[a] = board[a] /\ sdev'[a] = sdev[a]
                            /\ sdev[a] # None => sdev'[a] # None
      BY <1>1, <1>5, <2>1
    <2> HIDE DEF c, hw, job, b
    <2> QED BY <1>1, <1>2, <1>5, <1>7, <2>1, <2>3, <2>4, <2>5, <2>6, <2>7, <2>8, OwnStep
  <1>8. CASE call[c].pc = "flashing" /\ good /\ Go(c, "app")
    BY <1>1, <1>7, <1>8, GoMoves DEF ProvisionInv
  <1>9. CASE call[c].pc = "flashing" /\ ~good /\ Fails(c, "flash")
    BY <1>1, <1>7, <1>9, FailsMoves DEF ProvisionInv
  <1> QED BY <1>6, <1>8, <1>9 DEF BenchEnds

\* A join: what the board has then, and what the server does.
LEMMA JoinsSet ==
    ASSUME Shape, NEW b \in Boards, NEW key \in Calls, sdev[b] # None, Joins(b, key)
    PROVE  /\ board' \in [Boards -> Hardware] /\ \A a \in Boards \ {b} : board'[a] = board[a]
           /\ board'[b] = [image |-> board[b].image, key |-> key, session |-> key, nonce |-> board[b].nonce + 1]
           /\ sdev' \in [Boards -> Devices \union {None}] /\ \A a \in Boards \ {b} : sdev'[a] = sdev[a]
           /\ sdev'[b] # None
           /\ sdev'[b].slot = sdev[b].slot /\ sdev'[b].profile = sdev[b].profile /\ sdev'[b].key = sdev[b].key
           /\ sdev'[b].session = [key |-> key, up |-> 0]
  <1> DEFINE keyed == [board EXCEPT ![b].key = key]
             joined == [keyed EXCEPT ![b].session = key]
             flushed == [sdev EXCEPT ![b].used = sdev[b].used \union {board[b].nonce}]
             dev == sdev[b]
             d == [app |-> dev.app, profile |-> dev.profile, slot |-> dev.slot, key |-> dev.key,
                   used |-> dev.used \union {board[b].nonce}, session |-> [key |-> key, up |-> 0]]
             hw == [image |-> board[b].image, key |-> key, session |-> key, nonce |-> board[b].nonce + 1]
  <1>1. board \in [Boards -> Hardware] /\ sdev \in [Boards -> Devices \union {None}] /\ dev \in Devices
    BY DEF Shape
  <1>2. /\ DOMAIN keyed = Boards /\ \A a \in Boards \ {b} : keyed[a] = board[a]
        /\ keyed[b] = [image |-> board[b].image, key |-> key, session |-> board[b].session, nonce |-> board[b].nonce]
        /\ keyed = [a \in Boards |-> keyed[a]]
    BY <1>1 DEF Hardware
  <1>3. /\ DOMAIN joined = Boards /\ \A a \in Boards \ {b} : joined[a] = board[a]
        /\ joined[b] = [image |-> board[b].image, key |-> key, session |-> key, nonce |-> board[b].nonce]
        /\ joined = [a \in Boards |-> joined[a]]
    <2> HIDE DEF keyed
    <2> QED BY <1>2
  <1>4. board' = [joined EXCEPT ![b].nonce = joined[b].nonce + 1]
    BY DEF Joins
  <1> HIDE DEF keyed, joined
  <1>5. board' = [a \in Boards |-> board'[a]] /\ board'[b] = hw /\ \A a \in Boards \ {b} : board'[a] = board[a]
    BY <1>3, <1>4
  <1>6. hw \in Hardware
    BY <1>1 DEF Hardware
  <1>7. /\ \A a \in Boards \ {b} : flushed[a] = sdev[a]
        /\ flushed[b] = [app |-> dev.app, profile |-> dev.profile, slot |-> dev.slot, key |-> dev.key,
                         used |-> dev.used \union {board[b].nonce}, session |-> dev.session]
        /\ flushed = [a \in Boards |-> flushed[a]]
    BY <1>1 DEF Devices
  <1>8. sdev' = [flushed EXCEPT ![b].session = [key |-> key, up |-> 0]]
    BY DEF Joins
  <1> HIDE DEF flushed
  <1>9. sdev' = [a \in Boards |-> sdev'[a]] /\ sdev'[b] = d /\ \A a \in Boards \ {b} : sdev'[a] = sdev[a]
    BY <1>7, <1>8
  <1>10. d \in Devices
    <2>1. board[b].nonce \in Nat
      BY <1>1 DEF Hardware
    <2>2. [key |-> key, up |-> 0] \in Sessions
      BY DEF Sessions
    <2> QED BY <1>1, <2>1, <2>2 DEF Devices
  <1>11. d # None
    BY <1>10, ProvisionAssumption
  <1>12. /\ d.slot = dev.slot /\ d.profile = dev.profile /\ d.key = dev.key
         /\ d.session = [key |-> key, up |-> 0]
    OBVIOUS
  <1> HIDE DEF d, hw
  <1>13. board' \in [Boards -> Hardware] /\ sdev' \in [Boards -> Devices \union {None}]
    BY <1>1, <1>5, <1>6, <1>9, <1>10
  <1>14. board'[b] = [image |-> board[b].image, key |-> key, session |-> key, nonce |-> board[b].nonce + 1]
    BY <1>5 DEF hw
  <1> QED BY <1>5, <1>9, <1>11, <1>12, <1>13, <1>14

\* The dialogue: a call alone finds a blank board, which asks for its keys and joins.
LEMMA DialogueStep == ASSUME ProvisionInv, NEW c \in Calls, Dialogue(c) PROVE ProvisionInv'
  <1> DEFINE b == call[c].board
             s == call[c].slot
             key == IF Prompting(b) THEN c ELSE board[b].key
  <1>1. /\ Working(c) /\ call[c].pc = "dialogue" /\ UNCHANGED sapps /\ s \in Slots /\ b \in Boards
        /\ call[c].kind \in Pulls /\ sdev[b] # None /\ slot[s].board = b
        /\ slot' = [slot EXCEPT ![s].reader = None] /\ board[b].image \in DOMAIN Designs
    BY SlotFacts DEF Dialogue, Working, Ended, Registering, Known, Keyed, Closed
  <1>2. /\ slot' = [t \in Slots |-> slot'[t]]
        /\ \A t \in Slots : slot'[t] = [board |-> slot[t].board, job |-> slot[t].job, reader |-> slot'[t].reader]
    BY <1>1, ReaderSet DEF ProvisionInv
  <1>3. \A t \in Slots : /\ slot'[t].job = slot[t].job /\ slot'[t].board = slot[t].board
                         /\ slot'[t] = [board |-> slot[t].board, job |-> slot'[t].job, reader |-> slot'[t].reader]
    BY <1>2
  <1>4. key \in Calls
    <2>1. board[b] \in Hardware
      BY <1>1 DEF ProvisionInv, Shape
    <2> QED BY <1>1, <2>1 DEF Prompting, Hardware
  <1>5. sapps' \in Seq(Apps)
    BY <1>1 DEF ProvisionInv, Shape
  <1>6. ASSUME NEW pc \in {"verify", "failed"}, Moves(c, pc),
               board' \in [Boards -> Hardware], sdev' \in [Boards -> Devices \union {None}],
               \A a \in Boards \ {b} : board'[a] = board[a] /\ sdev'[a] = sdev[a], sdev'[b] # None,
               pc = "verify" /\ Reached(c) =>
                   /\ board'[b].image = call[c].design /\ board'[b].key = c /\ board'[b].session = c
                   /\ sdev'[b].slot = sdev[b].slot /\ sdev'[b].profile = sdev[b].profile /\ sdev'[b].key = sdev[b].key
                   /\ sdev'[b].session = [key |-> c, up |-> sdev'[b].session.up]
        PROVE  ProvisionInv'
    <2>1. JobInv'
      BY <1>1, <1>3, <1>6, JobsStand
    <2>2. ASSUME Working(c)', Alone(c) PROVE Reached(c)'
      <3>1. Reached(c)
        BY <1>1, <2>2 DEF ProvisionInv, AloneInv
      <3>2. /\ \A e \in Calls \ {c} : call'[e] = call[e]
            /\ pc = "verify" /\ call'[c].pc = "verify" /\ call'[c].slot = s
            /\ call'[c].board = b /\ call'[c].design = call[c].design
        BY <1>6, <2>2 DEF Moves, Working, Ended
      <3>3. \A e \in Calls \ {c} : Working(e)' <=> Working(e)
        BY <3>2 DEF Working
      <3> QED BY <1>1, <1>3, <1>6, <3>1, <3>2, <3>3 DEF Reached, Registering, Known, Keyed
    <2>3. pc # "idle" /\ pc # "handed"
      OBVIOUS
    <2>4. /\ \A t \in Slots : t # s => slot'[t].job = slot[t].job
          /\ \A a \in Boards : a # b => board'[a] = board[a] /\ sdev'[a] = sdev[a]
          /\ \A a \in Boards : sdev[a] # None => sdev'[a] # None
      BY <1>3, <1>6
    <2> QED BY <1>1, <1>2, <1>3, <1>5, <1>6, <2>1, <2>2, <2>3, <2>4, OwnStep
  <1>7. Reached(c) =>
            /\ board[b] = [image |-> call[c].design, key |-> None, session |-> None, nonce |-> 0]
            /\ sdev[b].key = c /\ key = c
    BY <1>1 DEF Reached, Known, Keyed, Prompting
  <1>8. CASE board[b].session # None /\ Go(c, "verify") /\ UNCHANGED <<board, sdev>>
    <2>1. ~Reached(c)
      BY <1>7, <1>8
    <2>2. Moves(c, "verify")
      BY <1>8, GoMoves DEF ProvisionInv
    <2> QED BY <1>1, <1>6, <1>8, <2>1, <2>2 DEF ProvisionInv, Shape
  <1>9. CASE Joins(b, key) /\ Go(c, "verify")
    <2>1. Moves(c, "verify")
      BY <1>9, GoMoves DEF ProvisionInv
    <2>2. /\ board' \in [Boards -> Hardware] /\ \A a \in Boards \ {b} : board'[a] = board[a]
          /\ board'[b] = [image |-> board[b].image, key |-> key, session |-> key, nonce |-> board[b].nonce + 1]
          /\ sdev' \in [Boards -> Devices \union {None}] /\ \A a \in Boards \ {b} : sdev'[a] = sdev[a]
          /\ sdev'[b] # None
          /\ sdev'[b].slot = sdev[b].slot /\ sdev'[b].profile = sdev[b].profile /\ sdev'[b].key = sdev[b].key
          /\ sdev'[b].session = [key |-> key, up |-> 0]
      BY <1>1, <1>4, <1>9, JoinsSet DEF ProvisionInv
    <2> HIDE DEF key
    <2>3. Reached(c) =>
            /\ board'[b].image = call[c].design /\ board'[b].key = c /\ board'[b].session = c
            /\ sdev'[b].session = [key |-> c, up |-> sdev'[b].session.up]
      BY <1>7, <2>2
    <2> QED BY <1>6, <2>1, <2>2, <2>3
  <1>10. CASE \E n \in Nat, why \in {"refused", "unheard"} :
                 /\ board' = [board EXCEPT ![b] = [image |-> board[b].image, key |-> key,
                                                   session |-> board[b].session, nonce |-> n]]
                 /\ Fails(c, why) /\ UNCHANGED sdev
    <2>1. Moves(c, "failed")
      BY <1>10, FailsMoves DEF ProvisionInv
    <2>2. board \in [Boards -> Hardware] /\ sdev \in [Boards -> Devices \union {None}]
      BY DEF ProvisionInv, Shape
    <2> HIDE DEF key
    <2>3. \A n \in Nat : [image |-> board[b].image, key |-> key, session |-> board[b].session, nonce |-> n] \in Hardware
      BY <1>1, <1>4, <2>2 DEF Hardware
    <2>4. board' \in [Boards -> Hardware] /\ \A a \in Boards \ {b} : board'[a] = board[a]
      BY <1>1, <1>10, <2>2, <2>3
    <2> QED BY <1>1, <1>6, <1>10, <2>1, <2>2, <2>4
  <1>11. board[b] = [image |-> board[b].image, key |-> board[b].key, session |-> board[b].session,
                     nonce |-> board[b].nonce] /\ board[b].nonce \in Nat /\ board = [a \in Boards |-> board[a]]
    BY <1>1 DEF ProvisionInv, Shape, Hardware
  <1>12. CASE board' = [board EXCEPT ![b].key = key, ![b].nonce = @ + 1] /\ Fails(c, "refused") /\ UNCHANGED sdev
    <2> DEFINE half == [board EXCEPT ![b].key = key]
    <2> HIDE DEF key
    <2>1. /\ half = [a \in Boards |-> half[a]] /\ \A a \in Boards \ {b} : half[a] = board[a]
          /\ half[b] = [image |-> board[b].image, key |-> key, session |-> board[b].session, nonce |-> board[b].nonce]
      BY <1>1, <1>11
    <2>2. board' = [half EXCEPT ![b].nonce = half[b].nonce + 1]
      BY <1>12
    <2> HIDE DEF half
    <2>3. board' = [board EXCEPT ![b] = [image |-> board[b].image, key |-> key, session |-> board[b].session,
                                         nonce |-> board[b].nonce + 1]]
      <3>1. [half[b] EXCEPT !.nonce = half[b].nonce + 1] =
              [image |-> board[b].image, key |-> key, session |-> board[b].session, nonce |-> board[b].nonce + 1]
        BY <2>1
      <3>2. board' = [half EXCEPT ![b] = [half[b] EXCEPT !.nonce = half[b].nonce + 1]]
        BY <2>2
      <3> QED BY <1>1, <1>11, <2>1, <3>1, <3>2
    <2>4. board[b].nonce + 1 \in Nat
      BY <1>11
    <2> QED BY <1>10, <1>12, <2>3, <2>4
  <1>13. CASE board' = [board EXCEPT ![b].key = key] /\ Fails(c, "unheard") /\ UNCHANGED sdev
    <2> HIDE DEF key
    <2>1. [board[b] EXCEPT !.key = key] =
            [image |-> board[b].image, key |-> key, session |-> board[b].session, nonce |-> board[b].nonce]
      BY <1>11
    <2>2. board' = [board EXCEPT ![b] = [board[b] EXCEPT !.key = key]]
      BY <1>13
    <2> QED BY <1>10, <1>11, <1>13, <2>1, <2>2
  <1>14. \/ board[b].session # None /\ Go(c, "verify") /\ UNCHANGED <<board, sdev>>
         \/ Joins(b, key) /\ Go(c, "verify")
         \/ board' = [board EXCEPT ![b].key = key, ![b].nonce = @ + 1] /\ Fails(c, "refused") /\ UNCHANGED sdev
         \/ board' = [board EXCEPT ![b].key = key] /\ Fails(c, "unheard") /\ UNCHANGED sdev
    BY <1>1 DEF Dialogue, Verdict
  <1> QED BY <1>8, <1>9, <1>12, <1>13, <1>14

\* A call is written, and others note that they met it.
Meets(c, r, met) ==
    /\ \A e \in Calls : call'[e] = IF e = c THEN r
                                   ELSE IF e \in met THEN [call[e] EXCEPT !.met = TRUE] ELSE call[e]
    /\ call' = [e \in Calls |-> call'[e]]
Noted(c, r, met) ==
    /\ \A e \in Calls : call'[e] = Fields(call'[e]) /\ call'[e].app \in Nat
    /\ call'[c] = r
    /\ \A e \in Calls \ {c} :
          /\ call'[e].pc = call[e].pc /\ call'[e].kind = call[e].kind /\ call'[e].slot = call[e].slot
          /\ call'[e].board = call[e].board /\ call'[e].design = call[e].design
          /\ call'[e].erase = call[e].erase /\ call'[e].why = call[e].why
          /\ e \in met => call'[e].met = TRUE
          /\ e \notin met => call'[e] = call[e]

\* What a step that writes a call and marks others leaves of each.
LEMMA MeetsMoves ==
    ASSUME Shape, NEW c \in Calls, NEW r, r = Fields(r), r.app \in Nat, NEW met \in SUBSET (Calls \ {c}),
           Meets(c, r, met)
    PROVE  Noted(c, r, met)
  <1>1. ASSUME NEW e \in met
        PROVE  /\ call'[e] = Fields(call'[e]) /\ call'[e].app \in Nat /\ call'[e].met = TRUE
               /\ call'[e].pc = call[e].pc /\ call'[e].kind = call[e].kind /\ call'[e].slot = call[e].slot
               /\ call'[e].board = call[e].board /\ call'[e].design = call[e].design
               /\ call'[e].erase = call[e].erase /\ call'[e].why = call[e].why
    <2>1. call[e] = Fields(call[e]) /\ call[e].app \in Nat /\ e # c /\ e \in Calls
      BY DEF Shape
    <2>2. call'[e] = [call[e] EXCEPT !.met = TRUE]
      BY <2>1 DEF Meets
    <2> QED BY <2>1, <2>2 DEF Fields
  <1>2. call'[c] = r
    BY DEF Meets
  <1>3. \A e \in Calls \ {c} : e \notin met => call'[e] = call[e]
    BY DEF Meets
  <1>4. \A e \in Calls : call'[e] = Fields(call'[e]) /\ call'[e].app \in Nat
    BY <1>1, <1>2, <1>3 DEF Shape
  <1> QED BY <1>1, <1>2, <1>3, <1>4 DEF Noted

\* A call starts, and marks those it meets on its slot or board.
LEMMA StartsStep ==
    ASSUME ProvisionInv, NEW c \in Calls, call[c].pc = "idle", NEW new, new = Fields(new), new.app \in Nat,
           new.why = None, new.board \in Boards, new.kind \in Kinds, new.design \in DOMAIN Designs,
           new.kind \in Pulls => /\ new.pc = "flash" /\ new.slot \in Slots
                                 /\ slot[new.slot].board = new.board /\ slot[new.slot].job = None,
           new.kind \notin Pulls => new.pc = "app" /\ new.slot = None,
           Starts(c, new), UNCHANGED <<slot, board, sdev, sapps>>
    PROVE  ProvisionInv'
  <1> DEFINE others == {e \in Calls \ {c} : /\ Working(e)
                                            /\ \/ call[e].board = new.board
                                               \/ new.slot # None /\ call[e].slot = new.slot}
             r == [new EXCEPT !.met = others # {}]
  <1>1. /\ r = Fields(r) /\ r.app \in Nat /\ r.met = (others # {})
        /\ r.pc = new.pc /\ r.kind = new.kind /\ r.slot = new.slot /\ r.board = new.board
        /\ r.design = new.design /\ r.why = None
    <2> HIDE DEF others
    <2> QED BY DEF Fields
  <1>2. Meets(c, r, others)
    BY DEF Starts, Meets
  <1>3. others \in SUBSET (Calls \ {c})
    OBVIOUS
  <1>4. \A e \in Calls \ {c} : Working(e) /\ e \notin others =>
            call[e].board # new.board /\ (new.slot # None => call[e].slot # new.slot)
    OBVIOUS
  <1>5. Shape
    BY DEF ProvisionInv
  <1> HIDE DEF others, r
  <1>6. Noted(c, r, others)
    BY <1>1, <1>2, <1>3, <1>5, MeetsMoves
  <1>7. \A e \in Calls \ {c} : Working(e)' <=> Working(e)
    BY <1>6 DEF Working, Noted
  <1>8. Shape'
    BY <1>2, <1>6 DEF ProvisionInv, Shape, Meets, Noted
  <1>9. PlaceInv'
    <2>1. \A e \in Calls \ {c} :
            /\ call'[e].pc = "handed" => call'[e].board \in Boards
            /\ Working(e) =>
                  /\ call'[e].board \in Boards /\ call'[e].kind \in Kinds
                  /\ call'[e].design \in DOMAIN Designs /\ call'[e].why = None
                  /\ call'[e].pc \in Known => sdev[call'[e].board] # None
                  /\ call'[e].kind \in Pulls =>
                        /\ call'[e].slot \in Slots /\ slot[call'[e].slot].board = call'[e].board
                  /\ call'[e].kind \notin Pulls => call'[e].pc \in Registering /\ call'[e].slot = None
      BY <1>6 DEF ProvisionInv, PlaceInv, Noted
    <2>2. /\ call'[c].pc # "handed" /\ call'[c].board \in Boards /\ call'[c].kind \in Kinds
          /\ call'[c].design \in DOMAIN Designs /\ call'[c].why = None
          /\ call'[c].pc \notin Known
          /\ call'[c].kind \in Pulls =>
                /\ call'[c].slot \in Slots /\ slot[call'[c].slot].board = call'[c].board
          /\ call'[c].kind \notin Pulls => call'[c].pc \in Registering /\ call'[c].slot = None
      BY <1>1, <1>6 DEF Known, Keyed, Registering, Noted
    <2> QED BY <1>7, <2>1, <2>2 DEF PlaceInv
  <1>10. SeatInv'
    BY DEF ProvisionInv, SeatInv
  <1>11. JobInv'
    <2>1. \A s \in Slots : slot[s].job # None => slot[s].job.by \in Calls \ {c}
      BY DEF ProvisionInv, JobInv
    <2> QED BY <1>6, <2>1 DEF ProvisionInv, JobInv, Noted
  <1>12. ASSUME NEW e \in Calls, Working(e)', call'[e].kind \in Pulls, Alone(e)' PROVE Reached(e)'
    <2>1. CASE e = c
      <3>1. others = {} /\ new.kind \in Pulls
        BY <1>1, <1>6, <1>12, <2>1 DEF Alone, Noted
      <3>2. new.slot # None
        BY <3>1, ProvisionAssumption
      <3>3. \A d \in Calls \ {c} : Working(d)' => call'[d].board # new.board /\ call'[d].slot # new.slot
        BY <1>4, <1>6, <1>7, <3>1, <3>2 DEF Noted
      <3>4. "flash" \notin Registering \union Known \union Keyed \union {"serial", "dialogue", "verify", "uplink"}
        BY DEF Registering, Known, Keyed
      <3> QED BY <1>1, <1>6, <2>1, <3>1, <3>3, <3>4 DEF Reached, Noted
    <2>2. CASE e # c
      <3>1. e \notin others /\ call'[e] = call[e] /\ Working(e) /\ Alone(e)
        BY <1>6, <1>7, <1>12, <2>2 DEF Alone, Noted
      <3>2. Reached(e) /\ call[e].slot \in Slots
        BY <1>12, <3>1 DEF ProvisionInv, AloneInv, PlaceInv
      <3>3. call[e].board # new.board /\ call[e].slot # new.slot
        BY <1>4, <2>2, <3>1, <3>2, ProvisionAssumption
      <3>4. \A d \in Calls \ {e} : Working(d)' => call'[d].board # call[e].board /\ call'[d].slot # call[e].slot
        BY <1>1, <1>6, <1>7, <3>2, <3>3 DEF Reached, Noted
      <3> QED BY <3>1, <3>2, <3>4 DEF Reached
    <2> QED BY <2>1, <2>2
  <1>13. AloneInv'
    BY <1>12 DEF AloneInv
  <1> QED BY <1>8, <1>9, <1>10, <1>11, <1>13 DEF ProvisionInv

\* A bring-up starts.
LEMMA BeginStep ==
    ASSUME ProvisionInv, NEW c \in Calls, NEW kind \in Kinds, NEW s \in Slots, NEW d \in Firmwares,
           NEW erase \in BOOLEAN, Begin(c, kind, s, d, erase)
    PROVE  ProvisionInv'
  <1> DEFINE r1 == [Resting EXCEPT !.pc = "flash"]
             r2 == [r1 EXCEPT !.kind = kind]
             r3 == [r2 EXCEPT !.slot = s]
             r4 == [r3 EXCEPT !.board = slot[s].board]
             r5 == [r4 EXCEPT !.design = d]
             r6 == [r5 EXCEPT !.erase = erase]
  <1>1. /\ call[c].pc = "idle" /\ kind \in Pulls /\ slot[s].board \in Boards /\ slot[s].job = None
        /\ d \in DOMAIN Designs /\ UNCHANGED <<slot, board, sdev, sapps>>
    BY DEF Begin, Flashable, Pulls, ProvisionInv, SeatInv, Firmwares
  <1>2. Starts(c, r6)
    BY DEF Begin
  <1>3. Resting = Fields(Resting) /\ Resting.app = 0 /\ Resting.why = None
    BY DEF Fields, Resting
  <1>4. /\ r1 = Fields(r1) /\ r1.app = 0 /\ r1.why = None /\ r1.pc = "flash"
    BY <1>3 DEF Fields
  <1> HIDE DEF r1
  <1>5. /\ r2 = Fields(r2) /\ r2.app = 0 /\ r2.why = None /\ r2.pc = "flash" /\ r2.kind = kind
    BY <1>4 DEF Fields
  <1> HIDE DEF r2
  <1>6. /\ r3 = Fields(r3) /\ r3.app = 0 /\ r3.why = None /\ r3.pc = "flash" /\ r3.kind = kind
        /\ r3.slot = s
    BY <1>5 DEF Fields
  <1> HIDE DEF r3
  <1>7. /\ r4 = Fields(r4) /\ r4.app = 0 /\ r4.why = None /\ r4.pc = "flash" /\ r4.kind = kind
        /\ r4.slot = s /\ r4.board = slot[s].board
    BY <1>6 DEF Fields
  <1> HIDE DEF r4
  <1>8. /\ r5 = Fields(r5) /\ r5.app = 0 /\ r5.why = None /\ r5.pc = "flash" /\ r5.kind = kind
        /\ r5.slot = s /\ r5.board = slot[s].board /\ r5.design = d
    BY <1>7 DEF Fields
  <1> HIDE DEF r5
  <1>9. /\ r6 = Fields(r6) /\ r6.app = 0 /\ r6.why = None /\ r6.pc = "flash" /\ r6.kind = kind
        /\ r6.slot = s /\ r6.board = slot[s].board /\ r6.design = d
    BY <1>8 DEF Fields
  <1> HIDE DEF r6
  <1> QED BY <1>1, <1>2, <1>9, StartsStep

\* A registration starts.
LEMMA RegisterStep ==
    ASSUME ProvisionInv, NEW c \in Calls, NEW kind \in Kinds, NEW b \in Boards, NEW d \in Layouts,
           Register(c, kind, b, d)
    PROVE  ProvisionInv'
  <1> DEFINE r1 == [Resting EXCEPT !.pc = "app"]
             r2 == [r1 EXCEPT !.kind = kind]
             r3 == [r2 EXCEPT !.board = b]
             r4 == [r3 EXCEPT !.design = d]
  <1>1. /\ call[c].pc = "idle" /\ kind \notin Pulls
        /\ d \in DOMAIN Designs /\ UNCHANGED <<slot, board, sdev, sapps>>
    BY DEF Register, Pulls, Layouts
  <1>2. Starts(c, r4)
    BY DEF Register
  <1>3. /\ Resting = Fields(Resting) /\ Resting.app = 0 /\ Resting.why = None /\ Resting.slot = None
    BY DEF Fields, Resting
  <1>4. r1 = Fields(r1) /\ r1.app = 0 /\ r1.why = None /\ r1.slot = None /\ r1.pc = "app"
    BY <1>3 DEF Fields
  <1> HIDE DEF r1
  <1>5. r2 = Fields(r2) /\ r2.app = 0 /\ r2.why = None /\ r2.slot = None /\ r2.pc = "app" /\ r2.kind = kind
    BY <1>4 DEF Fields
  <1> HIDE DEF r2
  <1>6. /\ r3 = Fields(r3) /\ r3.app = 0 /\ r3.why = None /\ r3.slot = None /\ r3.pc = "app" /\ r3.kind = kind
        /\ r3.board = b
    BY <1>5 DEF Fields
  <1> HIDE DEF r3
  <1>7. /\ r4 = Fields(r4) /\ r4.app = 0 /\ r4.why = None /\ r4.slot = None /\ r4.pc = "app" /\ r4.kind = kind
        /\ r4.board = b /\ r4.design = d
    BY <1>6 DEF Fields
  <1> HIDE DEF r4
  <1> QED BY <1>1, <1>2, <1>7, StartsStep

\* Handed keys are typed into a board, which marks whoever works on it.
LEMMA TypeKeysStep == ASSUME ProvisionInv, NEW c \in Calls, TypeKeys(c) PROVE ProvisionInv'
  <1> DEFINE b == call[c].board
             met == {e \in Calls \ {c} : Working(e) /\ call[e].board = b}
             r == [Resting EXCEPT !.pc = "done"]
  <1>1. /\ call[c].pc = "handed" /\ b \in Boards /\ UNCHANGED <<slot, sapps>>
        /\ ~Working(c)
    BY DEF TypeKeys, ProvisionInv, PlaceInv, Working, Ended
  <1>2. r = Fields(r) /\ r.app \in Nat /\ r.pc = "done"
    <2>1. Resting = Fields(Resting) /\ Resting.app = 0
      BY DEF Fields, Resting
    <2> QED BY <2>1 DEF Fields
  <1>3. Meets(c, r, met)
    BY DEF TypeKeys, Meets
  <1>4. met \in SUBSET (Calls \ {c}) /\ Shape
    BY DEF ProvisionInv
  <1>5. \A e \in Calls \ {c} : Working(e) /\ e \notin met => call[e].board # b
    OBVIOUS
  <1> HIDE DEF met, r
  <1>6. Noted(c, r, met)
    BY <1>2, <1>3, <1>4, MeetsMoves
  <1>7. \A e \in Calls : Working(e)' <=> Working(e)
    BY <1>1, <1>2, <1>6 DEF Working, Ended, Noted
  <1>8. /\ board' \in [Boards -> Hardware] /\ sdev' \in [Boards -> Devices \union {None}]
        /\ \A a \in Boards \ {b} : board'[a] = board[a] /\ sdev'[a] = sdev[a]
        /\ sdev[b] # None => sdev'[b] # None
    <2>1. CASE Heard(b, c) /\ Joins(b, c)
      BY <1>1, <1>4, <2>1, JoinsSet DEF Heard
    <2>2. CASE board' = [board EXCEPT ![b].key = c, ![b].nonce = 1] /\ UNCHANGED sdev
      <3> DEFINE half == [board EXCEPT ![b].key = c]
                 hw == [image |-> board[b].image, key |-> c, session |-> board[b].session, nonce |-> 1]
      <3>1. /\ half = [a \in Boards |-> half[a]] /\ \A a \in Boards \ {b} : half[a] = board[a]
            /\ half[b] = [image |-> board[b].image, key |-> c, session |-> board[b].session, nonce |-> board[b].nonce]
        <4>1. board \in [Boards -> Hardware] /\ board[b] \in Hardware
          BY <1>1, <1>4 DEF Shape
        <4>2. half = [a \in Boards |-> IF a = b THEN [board[b] EXCEPT !.key = c] ELSE board[a]]
          BY <4>1
        <4>3. [board[b] EXCEPT !.key = c] = [image |-> board[b].image, key |-> c,
                                             session |-> board[b].session, nonce |-> board[b].nonce]
          BY <4>1 DEF Hardware
        <4> HIDE DEF half
        <4> QED BY <1>1, <4>2, <4>3
      <3>2. board' = [half EXCEPT ![b] = [half[b] EXCEPT !.nonce = 1]]
        BY <2>2
      <3>3. [half[b] EXCEPT !.nonce = 1] = hw
        BY <3>1
      <3>4. hw \in Hardware /\ board \in [Boards -> Hardware]
        BY <1>1, <1>4 DEF Shape, Hardware
      <3> HIDE DEF half, hw
      <3>5. board' \in [Boards -> Hardware] /\ \A a \in Boards \ {b} : board'[a] = board[a]
        BY <1>1, <3>1, <3>2, <3>3, <3>4
      <3> QED BY <1>4, <2>2, <3>5 DEF Shape
    <2> QED BY <2>1, <2>2 DEF TypeKeys
  <1>9. Shape'
    BY <1>1, <1>3, <1>4, <1>6, <1>8 DEF Shape, Meets, Noted
  <1>10. PlaceInv'
    <2>1. \A e \in Calls \ {c} :
            /\ call'[e].pc = "handed" => call'[e].board \in Boards
            /\ Working(e) =>
                  /\ call'[e].board \in Boards /\ call'[e].kind \in Kinds
                  /\ call'[e].design \in DOMAIN Designs /\ call'[e].why = None
                  /\ call'[e].pc \in Known => sdev'[call'[e].board] # None
                  /\ call'[e].kind \in Pulls =>
                        /\ call'[e].slot \in Slots /\ slot[call'[e].slot].board = call'[e].board
                  /\ call'[e].kind \notin Pulls => call'[e].pc \in Registering /\ call'[e].slot = None
      BY <1>6, <1>8 DEF ProvisionInv, PlaceInv, Noted
    <2>2. call'[c].pc # "handed"
      BY <1>2, <1>6 DEF Noted
    <2> QED BY <1>1, <1>7, <2>1, <2>2 DEF PlaceInv
  <1>11. SeatInv'
    BY <1>1 DEF ProvisionInv, SeatInv
  <1>12. JobInv'
    <2>1. \A s \in Slots : slot[s].job # None => slot[s].job.by \in Calls \ {c}
      BY <1>1 DEF ProvisionInv, JobInv
    <2> QED BY <1>1, <1>6, <2>1 DEF ProvisionInv, JobInv, Noted
  <1>13. ASSUME NEW e \in Calls, Working(e)', call'[e].kind \in Pulls, Alone(e)' PROVE Reached(e)'
    <2>1. e # c /\ Working(e)
      BY <1>1, <1>7, <1>13
    <2>2. e \notin met /\ call'[e] = call[e] /\ Alone(e)
      BY <1>6, <1>13, <2>1 DEF Alone, Noted
    <2>3. Reached(e) /\ call[e].board \in Boards \ {b}
      BY <1>5, <1>13, <2>1, <2>2 DEF ProvisionInv, AloneInv, PlaceInv
    <2>4. \A d \in Calls \ {e} : Working(d)' => call'[d].board # call[e].board /\ call'[d].slot # call[e].slot
      BY <1>1, <1>6, <1>7, <2>3 DEF Reached, Noted
    <2> QED BY <1>1, <1>8, <2>2, <2>3, <2>4 DEF Reached
  <1>14. AloneInv'
    BY <1>13 DEF AloneInv
  <1> QED BY <1>9, <1>10, <1>11, <1>12, <1>14 DEF ProvisionInv

\* Two slots nobody uses exchange what is in them.
LEMMA SwapStep == ASSUME ProvisionInv, NEW s \in Slots, NEW t \in Slots, Swap(s, t) PROVE ProvisionInv'
  <1> DEFINE half == [slot EXCEPT ![s].board = slot[t].board]
             r == [slot[s] EXCEPT !.board = slot[t].board]
             q == [slot[t] EXCEPT !.board = slot[s].board]
  <1>1. /\ s # t /\ slot[s].job = None /\ slot[t].job = None /\ UNCHANGED <<board, sdev, sapps, call>>
        /\ \A c \in Calls : Working(c) => call[c].slot # s /\ call[c].slot # t
        /\ slot' = [slot EXCEPT ![s].board = slot[t].board, ![t].board = slot[s].board]
    BY DEF Swap
  <1>2. /\ slot = [u \in Slots |-> slot[u]]
        /\ \A u \in Slots : slot[u] = [board |-> slot[u].board, job |-> slot[u].job, reader |-> slot[u].reader]
    BY DEF ProvisionInv, Shape
  <1>3. /\ r = [board |-> slot[t].board, job |-> slot[s].job, reader |-> slot[s].reader]
        /\ q = [board |-> slot[s].board, job |-> slot[t].job, reader |-> slot[t].reader]
    BY <1>2
  <1>4. half = [slot EXCEPT ![s] = r]
    OBVIOUS
  <1>5. slot' = [half EXCEPT ![t].board = slot[s].board]
    BY <1>1
  <1> HIDE DEF half, r
  <1>6. half[s] = r /\ (\A u \in Slots \ {s} : half[u] = slot[u]) /\ half = [u \in Slots |-> half[u]]
    BY <1>2, <1>4
  <1>7. slot' = [half EXCEPT ![t] = q]
    BY <1>1, <1>5, <1>6
  <1> HIDE DEF q
  <1>8. /\ slot' = [u \in Slots |-> slot'[u]] /\ slot'[s] = r /\ slot'[t] = q
        /\ \A u \in Slots \ {s, t} : slot'[u] = slot[u]
    BY <1>1, <1>6, <1>7
  <1>9. /\ slot'[s].board = slot[t].board /\ slot'[t].board = slot[s].board
        /\ slot'[s].job = None /\ slot'[t].job = None
    BY <1>1, <1>3, <1>8
  <1>10. \A u \in Slots : slot'[u] = [board |-> slot'[u].board, job |-> slot'[u].job, reader |-> slot'[u].reader]
    BY <1>2, <1>3, <1>8
  <1>11. Shape'
    BY <1>1, <1>8, <1>10 DEF ProvisionInv, Shape
  <1>12. \A c \in Calls : Working(c)' <=> Working(c)
    BY <1>1 DEF Working
  <1>13. \A c \in Calls : Working(c) /\ call[c].kind \in Pulls => slot'[call[c].slot] = slot[call[c].slot]
    BY <1>1, <1>8 DEF ProvisionInv, PlaceInv
  <1>14. PlaceInv'
    BY <1>1, <1>12, <1>13 DEF ProvisionInv, PlaceInv
  <1>15. SeatInv'
    <2> DEFINE from(u) == IF u = s THEN t ELSE IF u = t THEN s ELSE u
    <2>1. \A u \in Slots : slot'[u].board = slot[from(u)].board /\ from(u) \in Slots
      BY <1>8, <1>9
    <2>2. \A u, v \in Slots : from(u) = from(v) => u = v
      OBVIOUS
    <2> HIDE DEF from
    <2> QED BY <2>1, <2>2 DEF ProvisionInv, SeatInv
  <1>16. JobInv'
    <2> SUFFICES ASSUME NEW u \in Slots, slot'[u].job # None
                 PROVE  LET job == slot'[u].job IN
                        /\ slot'[u].board \in Boards
                        /\ job.by \in Calls /\ call[job.by].pc \in {"flashing", "failed"}
                        /\ job.design \in DOMAIN Designs
                        /\ call[job.by].pc = "flashing" =>
                              /\ call[job.by].slot = u /\ call[job.by].design = job.design
                              /\ call[job.by].erase = job.erase /\ call[job.by].kind \in Pulls
      BY <1>1 DEF JobInv
    <2>1. slot'[u] = slot[u]
      BY <1>8, <1>9
    <2> QED BY <2>1 DEF ProvisionInv, JobInv
  <1>17. AloneInv'
    <2>1. ASSUME NEW c \in Calls, Working(c), call[c].kind \in Pulls, Alone(c) PROVE Reached(c)'
      <3>1. Reached(c) /\ slot'[call[c].slot] = slot[call[c].slot]
        BY <1>13, <2>1 DEF ProvisionInv, AloneInv
      <3> QED BY <1>1, <1>12, <3>1 DEF Reached
    <2> QED BY <1>1, <1>12, <2>1 DEF AloneInv, Alone
  <1> QED BY <1>11, <1>14, <1>15, <1>16, <1>17 DEF ProvisionInv

\* A board does what no call makes it do.
LEMMA BoardStep ==
    ASSUME ProvisionInv, NEW b \in Boards, UNCHANGED <<slot, sapps, call>>,
           board' \in [Boards -> Hardware], sdev' \in [Boards -> Devices \union {None}],
           \A a \in Boards \ {b} : board'[a] = board[a] /\ sdev'[a] = sdev[a],
           sdev[b] # None => sdev'[b] # None,
           \A c \in Calls : Reached(c) /\ call[c].board = b => Reached(c)'
    PROVE  ProvisionInv'
  <1>1. Shape'
    BY DEF ProvisionInv, Shape
  <1>2. \A c \in Calls : Working(c)' <=> Working(c)
    BY DEF Working
  <1>3. PlaceInv'
    BY <1>2 DEF ProvisionInv, PlaceInv
  <1>4. SeatInv' /\ JobInv'
    BY DEF ProvisionInv, SeatInv, JobInv
  <1>5. ASSUME NEW c \in Calls, Working(c), call[c].kind \in Pulls, Alone(c) PROVE Reached(c)'
    <2>1. Reached(c) /\ call[c].board \in Boards
      BY <1>5 DEF ProvisionInv, AloneInv, PlaceInv
    <2>2. CASE call[c].board = b
      BY <2>1, <2>2
    <2>3. CASE call[c].board # b
      BY <1>2, <2>1, <2>3 DEF Reached
    <2> QED BY <2>2, <2>3
  <1>6. AloneInv'
    BY <1>2, <1>5 DEF AloneInv, Alone
  <1> QED BY <1>1, <1>3, <1>4, <1>6 DEF ProvisionInv

\* A session counts an uplink: it is of the same key still.
LEMMA UplinkStep == ASSUME ProvisionInv, NEW b \in Boards, Uplink(b) PROVE ProvisionInv'
  <1> DEFINE dev == sdev[b]
             session == [key |-> dev.session.key, up |-> 1]
             d == [app |-> dev.app, profile |-> dev.profile, slot |-> dev.slot, key |-> dev.key,
                   used |-> dev.used, session |-> session]
  <1>1. /\ UNCHANGED <<slot, sapps, call, board>> /\ dev # None /\ dev.session # None
        /\ sdev' = [sdev EXCEPT ![b].session.up = 1]
    BY DEF Uplink
  <1>2. /\ dev \in Devices /\ dev.session \in Sessions /\ sdev \in [Boards -> Devices \union {None}]
    BY <1>1 DEF ProvisionInv, Shape, Devices
  <1>3. [dev.session EXCEPT !.up = 1] = session
    BY <1>2 DEF Sessions
  <1>4. session \in Sessions
    BY <1>2 DEF Sessions
  <1>5. sdev' = [sdev EXCEPT ![b] = [dev EXCEPT !.session = [dev.session EXCEPT !.up = 1]]]
    BY <1>1
  <1>6. [dev EXCEPT !.session = session] = d
    <2> HIDE DEF session
    <2> QED BY <1>2 DEF Devices
  <1>7. sdev' = [sdev EXCEPT ![b] = d]
    BY <1>3, <1>5, <1>6
  <1>8. d \in Devices
    <2> HIDE DEF session
    <2> QED BY <1>2, <1>4 DEF Devices
  <1>9. /\ d.slot = dev.slot /\ d.profile = dev.profile /\ d.key = dev.key /\ d.used = dev.used
        /\ d.session = [key |-> dev.session.key, up |-> d.session.up]
    OBVIOUS
  <1> HIDE DEF d
  <1>10. /\ sdev' \in [Boards -> Devices \union {None}] /\ sdev'[b] = d
         /\ \A a \in Boards \ {b} : sdev'[a] = sdev[a]
    BY <1>2, <1>7, <1>8
  <1>11. d # None
    BY <1>8, ProvisionAssumption
  <1>12. ASSUME NEW c \in Calls, Reached(c), call[c].board = b PROVE Reached(c)'
    <2>1. \A e \in Calls : Working(e)' <=> Working(e)
      BY <1>1 DEF Working
    <2>2. call[c].pc \in {"verify", "uplink"} => d.session = [key |-> c, up |-> d.session.up]
      BY <1>9, <1>12 DEF Reached
    <2> QED BY <1>1, <1>9, <1>10, <1>11, <1>12, <2>1, <2>2 DEF Reached
  <1>13. board' \in [Boards -> Hardware]
    BY <1>1 DEF ProvisionInv, Shape
  <1> QED BY <1>1, <1>10, <1>11, <1>12, <1>13, BoardStep

\* A board that joins by itself is none a call has just erased.
LEMMA RejoinStep == ASSUME ProvisionInv, NEW b \in Boards, Rejoin(b) PROVE ProvisionInv'
  <1>1. /\ UNCHANGED <<slot, sapps, call>> /\ board[b].key # None /\ board[b].session = None
    BY DEF Rejoin
  <1>2. /\ board \in [Boards -> Hardware] /\ board[b] \in Hardware /\ Shape
        /\ sdev \in [Boards -> Devices \union {None}]
    BY DEF ProvisionInv, Shape
  <1>3. ASSUME NEW c \in Calls, Reached(c), call[c].board = b,
               sdev'[b].slot = sdev[b].slot, sdev'[b].profile = sdev[b].profile, sdev'[b].key = sdev[b].key,
               sdev[b] # None => sdev'[b] # None
        PROVE  Reached(c)'
    <2>1. call[c].pc \notin Registering \union {"serial", "dialogue"}
      BY <1>1, <1>3 DEF Reached
    <2>2. call[c].pc \notin {"verify", "uplink"}
      BY <1>1, <1>3, ProvisionAssumption DEF Reached
    <2>3. \A e \in Calls : Working(e)' <=> Working(e)
      BY <1>1 DEF Working
    <2> QED BY <1>1, <1>3, <2>1, <2>2, <2>3 DEF Reached
  <1>4. CASE Heard(b, board[b].key) /\ Joins(b, board[b].key)
    <2>1. board[b].key \in Calls /\ sdev[b] # None
      BY <1>1, <1>2, <1>4 DEF Hardware, Heard
    <2>2. /\ board' \in [Boards -> Hardware] /\ \A a \in Boards \ {b} : board'[a] = board[a]
          /\ sdev' \in [Boards -> Devices \union {None}] /\ \A a \in Boards \ {b} : sdev'[a] = sdev[a]
          /\ sdev'[b] # None
          /\ sdev'[b].slot = sdev[b].slot /\ sdev'[b].profile = sdev[b].profile /\ sdev'[b].key = sdev[b].key
      BY <1>2, <1>4, <2>1, JoinsSet
    <2> QED BY <1>1, <1>3, <2>2, BoardStep
  <1>5. CASE board' = [board EXCEPT ![b].nonce = @ + 1] /\ UNCHANGED sdev
    <2> DEFINE hw == [image |-> board[b].image, key |-> board[b].key, session |-> board[b].session,
                      nonce |-> board[b].nonce + 1]
    <2>1. [board[b] EXCEPT !.nonce = board[b].nonce + 1] = hw
      BY <1>2 DEF Hardware
    <2>2. board' = [board EXCEPT ![b] = [board[b] EXCEPT !.nonce = board[b].nonce + 1]]
      BY <1>5
    <2>3. hw \in Hardware
      BY <1>2 DEF Hardware
    <2> HIDE DEF hw
    <2>4. board' \in [Boards -> Hardware] /\ \A a \in Boards \ {b} : board'[a] = board[a]
      BY <1>2, <2>1, <2>2, <2>3
    <2>5. sdev' \in [Boards -> Devices \union {None}]
      BY <1>2, <1>5
    <2> QED BY <1>1, <1>3, <1>5, <2>4, <2>5, BoardStep
  <1> QED BY <1>4, <1>5 DEF Rejoin

\* Nothing the invariant speaks of changes.
LEMMA ProvisionStands ==
    ASSUME ProvisionInv, UNCHANGED <<slot, board, sdev, sapps, call>>
    PROVE  ProvisionInv'
  BY DEF ProvisionInv, Shape, PlaceInv, SeatInv, JobInv, AloneInv, Reached, Working, Alone

\* Initially nobody works.
LEMMA ProvisionStart == ProvisionInit => ProvisionInv
  <1> SUFFICES ASSUME ProvisionInit PROVE ProvisionInv
    OBVIOUS
  <1> USE DEF ProvisionInit
  <1>1. \A c \in Calls : call[c] = Resting
    OBVIOUS
  <1>2. Resting.pc = "idle" /\ Resting = Fields(Resting) /\ Resting.app \in Nat
    BY DEF Resting, Fields
  <1>3. PICK sits \in [Slots -> Boards \union {None}] :
            /\ \A s, t \in Slots : sits[s] = sits[t] => s = t \/ sits[s] = None
            /\ slot = [s \in Slots |-> FreeSlot(sits[s])]
    OBVIOUS
  <1>4. \A s \in Slots : slot[s] = [board |-> sits[s], job |-> None, reader |-> None]
    BY <1>3 DEF FreeSlot
  <1>5. \A s \in Slots : slot[s] = [board |-> slot[s].board, job |-> slot[s].job, reader |-> slot[s].reader]
    BY <1>4
  <1>6. Blank \in Hardware
    BY DEF Blank, Hardware, Images
  <1>7. Shape
    BY <1>1, <1>2, <1>3, <1>5, <1>6 DEF Shape
  <1>8. \A c \in Calls : ~Working(c) /\ call[c].pc # "handed"
    BY <1>1, <1>2 DEF Working, Ended
  <1>9. PlaceInv /\ AloneInv
    BY <1>8 DEF PlaceInv, AloneInv
  <1>10. SeatInv /\ JobInv
    BY <1>3, <1>4 DEF SeatInv, JobInv
  <1> QED BY <1>7, <1>9, <1>10 DEF ProvisionInv

\* Every step keeps the invariant.
LEMMA ProvisionKept == ProvisionInv /\ [ProvisionNext]_provisionVars => ProvisionInv'
  <1> SUFFICES ASSUME ProvisionInv, [ProvisionNext]_provisionVars PROVE ProvisionInv'
    OBVIOUS
  <1>1. CASE UNCHANGED provisionVars
    BY <1>1, ProvisionStands DEF provisionVars
  <1>2. ASSUME NEW c \in Calls, NEW k \in Kinds, NEW s \in Slots, NEW d \in Firmwares, NEW e \in BOOLEAN,
               Begin(c, k, s, d, e)
        PROVE  ProvisionInv'
    BY <1>2, BeginStep
  <1>3. ASSUME NEW c \in Calls, NEW k \in Kinds, NEW b \in Boards, NEW d \in Layouts, Register(c, k, b, d)
        PROVE  ProvisionInv'
    BY <1>3, RegisterStep
  <1>4. ASSUME NEW c \in Calls, Provision(c) PROVE ProvisionInv'
    BY <1>4, ListAppsStep, CreateAppStep, EnsureProfileStep, CreateDeviceStep, SetKeysStep, FlushNoncesStep
       DEF Provision
  <1>5. ASSUME NEW c \in Calls, CallStep(c) PROVE ProvisionInv'
    BY <1>4, <1>5, FlashStep, OpenSerialStep, DialogueStep, SerialTimesOutStep, VerifyStep, EndsStep
       DEF CallStep
  <1>6. ASSUME NEW c \in Calls, RequestFails(c) \/ FlashTimesOut(c) \/ TypeKeys(c) PROVE ProvisionInv'
    BY <1>6, EndsStep, FlashTimesOutStep, TypeKeysStep
  <1>7. ASSUME NEW s \in Slots, NEW good \in BOOLEAN, BenchEnds(s, good) PROVE ProvisionInv'
    BY <1>7, BenchEndsStep
  <1>8. ASSUME NEW s \in Slots, NEW t \in Slots, Swap(s, t) PROVE ProvisionInv'
    BY <1>8, SwapStep
  <1>9. ASSUME NEW b \in Boards, Uplink(b) \/ Rejoin(b) PROVE ProvisionInv'
    BY <1>9, UplinkStep, RejoinStep
  <1>10. ASSUME NEW b \in Boards, NEW d \in Layouts, SetCodec(b, d) PROVE ProvisionInv'
    BY <1>10, ProvisionStands DEF SetCodec
  <1> QED BY <1>1, <1>2, <1>3, <1>5, <1>6, <1>7, <1>8, <1>9, <1>10 DEF ProvisionNext

\* A join is refused in a dialogue alone, of a board the server does not hear.
LEMMA RefusedInDialogue ==
    ASSUME ProvisionInv, [ProvisionNext]_provisionVars, NEW c \in Calls,
           call[c].pc = "dialogue", call'[c].why = "refused"
    PROVE  Dialogue(c) /\ ~Heard(call[c].board, IF Prompting(call[c].board) THEN c ELSE board[call[c].board].key)
  <1>1. /\ Working(c) /\ call[c].why = None /\ call[c].why # "refused"
        /\ call[c] = Fields(call[c]) /\ call[c].kind \in Pulls /\ slot[call[c].slot].board = call[c].board
    BY ProvisionAssumption, SlotFacts DEF ProvisionInv, PlaceInv, Shape, Working, Ended, Registering
  <1>2. ASSUME call'[c] = call[c] \/ call'[c] = [call[c] EXCEPT !.met = TRUE] PROVE FALSE
    BY <1>1, <1>2 DEF Fields
  <1>3. ASSUME call' = call PROVE FALSE
    BY <1>2, <1>3
  <1>4. ASSUME NEW e \in Calls, e # c, NEW r, call' = [call EXCEPT ![e] = r] PROVE FALSE
    BY <1>2, <1>4
  <1>5. ASSUME NEW e \in Calls, NEW k \in Kinds, NEW s \in Slots, NEW d \in Firmwares, NEW x \in BOOLEAN,
               Begin(e, k, s, d, x)
        PROVE  FALSE
    BY <1>2, <1>5 DEF Begin, Starts
  <1>6. ASSUME NEW e \in Calls, NEW k \in Kinds, NEW b \in Boards, NEW d \in Layouts, Register(e, k, b, d)
        PROVE  FALSE
    BY <1>2, <1>6 DEF Register, Starts
  <1>7. ASSUME NEW e \in Calls, e # c, CallStep(e) PROVE FALSE
    <2>1. \/ call' = call
          \/ \E r : call' = [call EXCEPT ![e] = r]
      <3>1. CASE ListApps(e)
        <4>1. CASE Go(e, "newapp")
          BY <4>1 DEF Go
        <4>2. ASSUME NEW i, call' = [call EXCEPT ![e].pc = "profile", ![e].app = i]
              PROVE  \E r : call' = [call EXCEPT ![e] = r]
          BY <1>7, <4>2
        <4> QED BY <3>1, <4>1, <4>2 DEF ListApps
      <3>2. CASE CreateApp(e)
        BY <3>2 DEF CreateApp
      <3>3. CASE ~ListApps(e) /\ ~CreateApp(e)
        BY <1>7, <3>3 DEF CallStep, Provision, Flash, EnsureProfile, CreateDevice, SetKeys, FlushNonces,
             OpenSerial, Dialogue, SerialTimesOut, Verify, CountUplinks, Go, Fails, Finishes, Verdict
      <3> QED BY <3>1, <3>2, <3>3
    <2> QED BY <1>3, <1>4, <1>7, <2>1
  <1>8. ASSUME NEW e \in Calls, e # c, RequestFails(e) \/ FlashTimesOut(e) PROVE FALSE
    BY <1>4, <1>8 DEF RequestFails, FlashTimesOut, Fails
  <1>9. ASSUME NEW e \in Calls, TypeKeys(e) PROVE FALSE
    BY <1>2, <1>9 DEF TypeKeys
  <1>10. ASSUME NEW s \in Slots, NEW good \in BOOLEAN, BenchEnds(s, good) PROVE FALSE
    <2>1. slot[s].job.by \in Calls
      BY <1>10 DEF BenchEnds, ProvisionInv, JobInv
    <2> QED BY <1>3, <1>4, <1>10, <2>1 DEF BenchEnds, Go, Fails
  <1>11. ~RequestFails(c) /\ ~FlashTimesOut(c)
    BY DEF RequestFails, FlashTimesOut
  <1>12. CASE CallStep(c)
    <2>1. Dialogue(c) \/ SerialTimesOut(c)
      BY <1>12 DEF CallStep, Provision, Flash, ListApps, CreateApp, EnsureProfile, CreateDevice, SetKeys,
           FlushNonces, OpenSerial, Verify, CountUplinks
    <2>2. Shape
      BY DEF ProvisionInv
    <2>3. ~SerialTimesOut(c)
      BY <2>2, FailsMoves DEF SerialTimesOut
    <2>4. ~Go(c, "verify") /\ ~Fails(c, "unheard")
      BY <1>1, <2>2, GoMoves, FailsMoves DEF Moves, Ended
    <2> QED BY <1>1, <2>1, <2>3, <2>4 DEF Dialogue
  <1>13. \A s, t \in Slots : ~Swap(s, t)
    BY <1>3 DEF Swap
  <1>14. \A b \in Boards : ~Uplink(b) /\ ~Rejoin(b) /\ \A d \in Layouts : ~SetCodec(b, d)
    BY <1>3 DEF Uplink, Rejoin, SetCodec
  <1>15. ~UNCHANGED provisionVars
    BY <1>3 DEF provisionVars
  <1> QED BY <1>5, <1>6, <1>7, <1>8, <1>9, <1>10, <1>11, <1>12, <1>13, <1>14, <1>15 DEF ProvisionNext

\* What the invariant says of the two steps AloneIsServed is about.
LEMMA ServedStep ==
    ASSUME ProvisionInv, [ProvisionNext]_provisionVars, NEW c \in Calls
    PROVE  /\ call[c].pc \in {"verify", "uplink"} /\ call'[c].pc = "done" /\ Alone(c) => Consistent(c)
           /\ call[c].pc = "dialogue" /\ call'[c].why = "refused" => ~Alone(c)
  <1>1. ASSUME call[c].pc \in {"verify", "uplink", "dialogue"}, Alone(c)
        PROVE  Reached(c) /\ slot[call[c].slot].board = call[c].board
    <2>1. Working(c) /\ call[c].pc \notin Registering
      BY <1>1 DEF Working, Ended, Registering
    <2> QED BY <1>1, <2>1, SlotFacts DEF ProvisionInv, AloneInv
  <1>2. ASSUME call[c].pc \in {"verify", "uplink"}, Alone(c) PROVE Consistent(c)
    BY <1>1, <1>2 DEF Reached, Consistent, Known, Keyed
  <1>3. ASSUME call[c].pc = "dialogue", call'[c].why = "refused", Alone(c) PROVE FALSE
    <2>1. Dialogue(c) /\ ~Heard(call[c].board, IF Prompting(call[c].board) THEN c ELSE board[call[c].board].key)
      BY <1>3, RefusedInDialogue
    <2>2. Reached(c) /\ slot[call[c].slot].board = call[c].board
      BY <1>1, <1>3
    <2>3. Prompting(call[c].board)
      BY <1>3, <2>1, <2>2 DEF Dialogue, Prompting, Reached
    <2>4. Heard(call[c].board, c)
      BY <1>3, <2>2 DEF Heard, Reached, Known, Keyed
    <2> QED BY <2>1, <2>3, <2>4
  <1> QED BY <1>2, <1>3

\* A bring-up with erase that no other call met on its slot or board tells
\* the truth when it says done (board, server and slot agree on its key, its
\* design and its session) and never has its join refused, whatever other
\* calls, half-done registrations, swaps, rejoins and faults there were
\* (workbench_provision.provision_events).
THEOREM ServedAlone == ProvisionSpec => AloneIsServed
  <1>1. ProvisionInv /\ [ProvisionNext]_provisionVars =>
            [\A c \in Calls :
               call[c].pc \in {"verify", "uplink"} /\ call'[c].pc = "done" /\ Alone(c) => Consistent(c)]_provisionVars
    BY ServedStep
  <1>2. ProvisionInv /\ [ProvisionNext]_provisionVars =>
            [\A c \in Calls : call[c].pc = "dialogue" /\ call'[c].why = "refused" => ~Alone(c)]_provisionVars
    BY ServedStep
  <1> QED BY <1>1, <1>2, ProvisionStart, ProvisionKept, PTL DEF ProvisionSpec, AloneIsServed, DoneIsTrue, NoReplay

-----------------------------------------------------------------------------
(* BenchGate: the inductive invariant.                                     *)

GatePCs == {"off", "load", "exit2", "info", "slots", "serial", "uplinks", "image", "write", "writing",
            "settle", "reset", "buffer", "monitor", "again", "ip", "verify", "lora", "exit"}
Checking == {"settle", "reset", "buffer", "monitor", "again", "ip", "verify"}
OnTask == {"image", "write", "writing", "lora"} \union Checking
Tasks == [entry : Nat, nth : Nat]
Marks == FRAMEWORKS \union {"torn"}

\* The types of the gate and of the bench.
GateRecord == [pc : GatePCs, roster : Seq(Entries), listing : SUBSET [at : Places, ready : BOOLEAN],
               at : Nat, task : Tasks, left : SUBSET Tasks, chirp : BOOLEAN, pin : BOOLEAN,
               unit : Units \union {Nobody}, touched : SUBSET Places]

GateShape ==
    /\ gate \in GateRecord
    /\ seat \in [Places -> [unit : Units \union {Nobody}, busy : BOOLEAN, flaps : BOOLEAN]]
    /\ fw \in [Units -> [image : Marks, task : Tasks, up : BOOLEAN, ran : BOOLEAN]]
    /\ heard \in [Places -> SUBSET [says : Marks, new : BOOLEAN]]
    /\ \A r \in rows : r.ok \in BOOLEAN
    /\ upsets \in 0 .. MaxUpsets /\ misses \in 0 .. MaxMisses

\* A roster the gate works through was checked when it was loaded.
RosterInv ==
    gate.pc \notin {"off", "load", "exit2"} =>
        /\ gate.roster # <<>>
        /\ \A i \in DOMAIN gate.roster :
              /\ ~BadEntry(gate.roster[i])
              /\ gate.roster[i].flash # <<>> => gate.roster[i].flashes

AllTasks == TasksOf(gate.roster, gate.listing)

\* The task in hand is one of those the listing gave; its slot is a place.
TaskInv ==
    /\ gate.left \subseteq AllTasks
    /\ gate.task # NoTask <=> gate.pc \in OnTask
    /\ gate.pc \in OnTask => gate.task \in AllTasks /\ TaskSlot \in Places /\ TaskFw \in FRAMEWORKS
    /\ gate.pc \in OnTask \ {"lora"} => TaskFw # "lorawan"
    /\ gate.pc = "lora" => TaskFw = "lorawan"
    /\ gate.pc = "slots" => gate.at = 1
    /\ gate.pc \in {"serial", "uplinks"} => gate.at \in DOMAIN gate.roster
    /\ gate.pc \in {"off", "load", "exit2", "info", "slots", "exit"} => gate.left = {}

\* Two slots never hold one board.
UnitsApart ==
    \A s, t \in Places : seat[s].unit = seat[t].unit /\ seat[s].unit # Nobody => s = t

Listed(e) == [at |-> e.slot, ready |-> TRUE] \in gate.listing /\ Row("slots", e.slot, "none", TRUE) \in rows
SerialDone(e) == e.onBench /\ ~e.flashes => Row("serial", e.slot, "none", TRUE) \in rows
UplinkDone(e) == e.eui => Row("uplinks", Subject(e), "none", TRUE) \in rows
\* The rows a task must leave.
TaskRowsOf(t) ==
    LET e == gate.roster[t.entry]
        f == Framework(t)
        R(stage) == Row(stage, e.slot, f, TRUE)
    IN IF f = "lorawan" THEN {R("flash"), R("join"), R("uplink")}
       ELSE {R("flash"), R("boot")} \union (IF f = "esphome" /\ e.functional THEN {R("functional")} ELSE {})

\* As long as no row fails, what the gate has behind it has its rows.
ListInv ==
    gate.pc \in {"serial", "uplinks", "exit"} \union OnTask =>
        \A i \in OnBench(gate.roster) : Listed(gate.roster[i])
StageInv ==
    \A i \in DOMAIN gate.roster :
        /\ gate.pc \in {"uplinks", "exit"} \union OnTask \/ (gate.pc = "serial" /\ i < gate.at) =>
              SerialDone(gate.roster[i])
        /\ gate.pc \in {"exit"} \union OnTask \/ (gate.pc = "uplinks" /\ i < gate.at) =>
              UplinkDone(gate.roster[i])
TaskRowsInv ==
    /\ gate.pc \in {"serial", "uplinks"} => gate.left = AllTasks
    /\ gate.pc \in {"exit"} \union OnTask =>
          \A t \in AllTasks \ (gate.left \union {gate.task}) : TaskRowsOf(t) \subseteq rows
    /\ gate.pc \in {"write", "writing"} \union Checking =>
          (TaskFw = "esphome" /\ TaskEntry.functional => gate.pin)
    /\ gate.pc \in Checking => TaskRow("flash", TRUE) \in rows
    /\ gate.pc \in {"ip", "verify"} => TaskRow("boot", TRUE) \in rows
CompleteInv == Failed = {} => ListInv /\ StageInv /\ TaskRowsInv

\* What runs on the task's board while nobody touches its slot.
ImageStands ==
    LET u == seat[TaskSlot].unit IN
    u # Nobody /\ fw[u].image = TaskFw /\ fw[u].task = gate.task
MarkInv ==
    /\ gate.pc = "writing" => gate.unit \in Units
    /\ gate.pc = "writing" /\ TaskSlot \notin gate.touched =>
          /\ seat[TaskSlot].unit = gate.unit /\ seat[TaskSlot].busy
          /\ fw[gate.unit].image = "torn" /\ fw[gate.unit].task = gate.task
    /\ gate.pc \in {"settle", "reset", "buffer", "monitor", "again"} /\ TaskSlot \notin gate.touched =>
          ImageStands
    /\ gate.pc \in {"reset", "buffer", "monitor", "again"} /\ TaskSlot \notin gate.touched /\ Marked =>
          fw[seat[TaskSlot].unit].ran

\* On a healthy bench the marker is there, or on its way.
QuietInv ==
    upsets = 0 =>
        /\ gate.touched = {}
        /\ \A s \in Places : ~seat[s].flaps
        /\ misses = 0 =>
              /\ gate.pc = "reset" => ~seat[TaskSlot].busy
              /\ gate.pc \in {"buffer", "monitor", "again"} =>
                    Marked \/ (~fw[seat[TaskSlot].unit].up /\ ~seat[TaskSlot].busy)
              /\ gate.pc = "again" => Marked
              /\ \A r \in Failed : r.stage # "boot"

GateInv ==
    GateShape /\ RosterInv /\ TaskInv /\ UnitsApart /\ CompleteInv /\ MarkInv /\ QuietInv

\* Whatever the listing, a task is a place in the roster.
LEMMA TasksAreTasks ==
    ASSUME NEW r \in Seq(Entries), NEW L
    PROVE  TasksOf(r, L) \subseteq Tasks
<1> SUFFICES ASSUME NEW i \in Flashers(r, L), NEW k \in DOMAIN r[i].flash
             PROVE  [entry |-> i, nth |-> k] \in Tasks
  BY DEF TasksOf
<1>1. i \in DOMAIN r
  BY DEF Flashers, OnBench
<1>2. i \in Nat /\ r[i] \in Entries
  BY <1>1
<1>3. r[i].flash \in Seq(STRING)
  BY <1>2 DEF Entries
<1>4. QED
  BY <1>2, <1>3 DEF Tasks

\* What a task of the listing is.
LEMMA TaskFacts ==
    ASSUME GateShape, RosterInv, gate.pc \notin {"off", "load", "exit2"}, NEW t \in AllTasks
    PROVE  /\ t \in Tasks /\ t # NoTask
           /\ t.entry \in OnBench(gate.roster) /\ gate.roster[t.entry].flashes
           /\ t.nth \in DOMAIN gate.roster[t.entry].flash
           /\ [at |-> gate.roster[t.entry].slot, ready |-> TRUE] \in gate.listing
           /\ gate.roster[t.entry].slot \in Places
           /\ Framework(t) \in Flashed(gate.roster[t.entry])
           /\ Framework(t) \in FRAMEWORKS
<1> DEFINE r == gate.roster
<1>1. r \in Seq(Entries) /\ gate.listing \in SUBSET [at : Places, ready : BOOLEAN]
  BY DEF GateShape, GateRecord
<1>0. PICK i \in Flashers(r, gate.listing) : t \in {[entry |-> i, nth |-> k] : k \in DOMAIN r[i].flash}
  BY DEF AllTasks, TasksOf
<1>2. PICK k \in DOMAIN r[i].flash : t = [entry |-> i, nth |-> k]
  BY <1>0
<1>3. /\ i \in DOMAIN r /\ r[i].onBench /\ r[i].flashes
      /\ [at |-> r[i].slot, ready |-> TRUE] \in gate.listing
  BY <1>0 DEF Flashers, OnBench
<1>4. i \in Nat \ {0} /\ r[i] \in Entries
  BY <1>1, <1>3
<1>5. r[i].flash \in Seq(STRING)
  BY <1>4 DEF Entries
<1>6. k \in Nat
  BY <1>2, <1>5
<1>7. r[i].slot \in Places
  <2>1. [at |-> r[i].slot, ready |-> TRUE] \in [at : Places, ready : BOOLEAN]
    BY <1>1, <1>3
  <2>2. QED
    BY <2>1
<1>8. ~BadFlash(r[i])
  BY <1>3 DEF RosterInv, BadEntry
<1>9. r[i].flash[k] \in Flashed(r[i])
  BY <1>2 DEF Flashed
<1>10. Flashed(r[i]) \subseteq FRAMEWORKS
  BY <1>8 DEF BadFlash
<1>11. t \in Tasks /\ t # NoTask /\ t.entry = i /\ t.nth = k
  BY <1>2, <1>4, <1>6 DEF Tasks, NoTask
<1> HIDE DEF r
<1>12. Framework(t) = r[i].flash[k]
  BY <1>11 DEF Framework, r
<1>13. QED
  BY <1>2, <1>3, <1>7, <1>9, <1>10, <1>11, <1>12 DEF OnBench, r

\* Going on to the next task.
LEMMA NextTaskMoves ==
    ASSUME GateShape, RosterInv, gate.left \subseteq AllTasks, gate.pc \in OnTask \union {"uplinks"}, NextTask
    PROVE  /\ gate' \in GateRecord
           /\ UNCHANGED <<gate.roster, gate.listing, gate.at, gate.chirp, gate.touched>>
           /\ gate'.left \subseteq gate.left /\ gate.left \subseteq gate'.left \union {gate'.task}
           /\ ~gate'.pin /\ gate'.unit = Nobody
           /\ \/ gate'.pc = "exit" /\ gate'.task = NoTask /\ gate'.left = {}
              \/ /\ gate'.pc = IF Framework(gate'.task) = "lorawan" THEN "lora" ELSE "image"
                 /\ gate'.task \in gate.left /\ gate'.task # NoTask
<1>0. gate \in GateRecord
  BY DEF GateShape, GateRecord
<1>1. NoTask \in Tasks
  BY DEF NoTask, Tasks
<1>2. CASE gate.left = {}
  <2>1. gate' = [gate EXCEPT !.pc = "exit", !.task = NoTask, !.pin = FALSE, !.unit = Nobody]
    BY <1>2 DEF NextTask
  <2>2. QED
    BY <1>0, <1>1, <1>2, <2>1 DEF GateRecord, GatePCs
<1>3. CASE gate.left # {}
  <2>1. PICK t \in gate.left :
          gate' = [gate EXCEPT !.pc = IF Framework(t) = "lorawan" THEN "lora" ELSE "image",
                               !.task = t, !.left = @ \ {t}, !.pin = FALSE, !.unit = Nobody]
    BY <1>3 DEF NextTask
  <2>2. t \in Tasks /\ t # NoTask
    BY TaskFacts DEF OnTask, Checking
  <2> DEFINE p == IF Framework(t) = "lorawan" THEN "lora" ELSE "image"
  <2>3. p \in GatePCs
    BY DEF GatePCs
  <2> HIDE DEF p
  <2>4. gate' = [gate EXCEPT !.pc = p, !.task = t, !.left = @ \ {t}, !.pin = FALSE, !.unit = Nobody]
    BY <2>1 DEF p
  <2>5. /\ gate' \in GateRecord
        /\ UNCHANGED <<gate.roster, gate.listing, gate.at, gate.chirp, gate.touched>>
        /\ gate'.left = gate.left \ {t} /\ gate'.task = t /\ gate'.pc = p
        /\ ~gate'.pin /\ gate'.unit = Nobody
    BY <1>0, <2>2, <2>3, <2>4 DEF GateRecord
  <2>6. QED
    BY <2>2, <2>5 DEF p
<1>4. QED
  BY <1>2, <1>3

\* Every step keeps the types of the gate.
LEMMA GateRecordStep == GateInv /\ GateNext => gate' \in GateRecord
<1> SUFFICES ASSUME GateInv, GateNext PROVE gate' \in GateRecord
  OBVIOUS
<1>0. /\ GateShape /\ RosterInv /\ TaskInv /\ gate \in GateRecord
  BY DEF GateInv, GateShape
<1>1. ASSUME NextTask, gate.pc \in OnTask \union {"uplinks"} PROVE gate' \in GateRecord
  BY <1>0, <1>1, NextTaskMoves DEF TaskInv
<1>2. ASSUME NEW p \in GatePCs, Goes(p) PROVE gate' \in GateRecord
  BY <1>0, <1>2 DEF Goes, GateRecord
<1>3. CASE \E r \in Rosters, chirp \in BOOLEAN : LoadConfig(r, chirp)
  <2> PICK r \in Rosters, chirp \in BOOLEAN : LoadConfig(r, chirp)
    BY <1>3
  <2> DEFINE p == IF r = <<>> \/ \E i \in DOMAIN r : BadEntry(r[i]) THEN "exit2" ELSE "info"
  <2>1. p \in GatePCs /\ r \in Seq(Entries)
    BY RosterAssumption DEF GatePCs
  <2>2. gate' = [gate EXCEPT !.roster = r, !.chirp = chirp, !.pc = p]
    BY DEF LoadConfig
  <2> HIDE DEF p
  <2>3. QED
    BY <1>0, <2>1, <2>2 DEF GateRecord
<1>4. CASE \E ok \in BOOLEAN : Info(ok)
  BY <1>2, <1>4 DEF Info, Exits, GatePCs
<1>5. CASE \E ok \in BOOLEAN : ListSlots(ok)
  <2> PICK ok \in BOOLEAN : ListSlots(ok)
    BY <1>5
  <2>1. CASE ~ok
    BY <1>2, <2>1 DEF ListSlots, Exits, GatePCs
  <2>2. CASE ok
    <3>1. gate' = [gate EXCEPT !.pc = "serial", !.listing = Listing, !.touched = {},
                               !.left = TasksOf(gate.roster, Listing)]
      BY <2>2 DEF ListSlots
    <3>2. Listing \in SUBSET [at : Places, ready : BOOLEAN]
      <4>1. \A s \in Places : CanFlash(s) \in BOOLEAN
        BY DEF CanFlash
      <4>2. QED
        BY <4>1 DEF Listing
    <3>3. TasksOf(gate.roster, Listing) \subseteq Tasks
      BY <1>0, TasksAreTasks DEF GateRecord
    <3>4. QED
      BY <1>0, <3>1, <3>2, <3>3 DEF GateRecord, GatePCs
  <2>3. QED
    BY <2>1, <2>2
<1>5a. ASSUME NextEntry PROVE gate' \in GateRecord
  BY <1>0, <1>5a DEF NextEntry, GateRecord
<1>6. CASE \E ok \in BOOLEAN : Serial(ok)
  BY <1>2, <1>5a, <1>6 DEF Serial, GatePCs
<1>7. CASE \E ok \in BOOLEAN : Uplinks(ok)
  BY <1>1, <1>5a, <1>7 DEF Uplinks
<1>8. CASE \E ok \in BOOLEAN : GetImage(ok)
  <2> PICK ok \in BOOLEAN : GetImage(ok)
    BY <1>8
  <2> DEFINE asked == TaskFw = "esphome" /\ TaskEntry.functional
             pin == asked /\ (TaskEntry.pin # "none" \/ LibBoards[TaskEntry.board].free)
  <2>1. \/ gate' = [gate EXCEPT !.pc = "write", !.pin = pin]
        \/ NextTask
    BY DEF GetImage
  <2>2. gate.pc = "image" /\ pin \in BOOLEAN
    BY DEF GetImage
  <2> HIDE DEF pin
  <2>3. QED
    BY <1>0, <1>1, <2>1, <2>2 DEF GateRecord, GatePCs, OnTask
<1>9. CASE Write
  <2>1. CASE CanFlash(TaskSlot)
    <3>1. seat[TaskSlot].unit \in Units
      BY <1>0, <1>9, <2>1 DEF Write, TaskInv, OnTask, CanFlash, GateShape
    <3>2. gate' = [gate EXCEPT !.pc = "writing", !.unit = seat[TaskSlot].unit]
      BY <1>9, <2>1 DEF Write
    <3>3. QED
      BY <1>0, <3>1, <3>2 DEF GateRecord, GatePCs
  <2>2. CASE ~CanFlash(TaskSlot)
    BY <1>1, <1>9, <2>2 DEF Write, TaskFails, OnTask
  <2>3. QED
    BY <2>1, <2>2
<1>10. CASE \E ok, written \in BOOLEAN : WriteEnds(ok, written)
  <2>1. gate.pc = "writing" /\ (gate' = [gate EXCEPT !.pc = "settle"] \/ NextTask)
    BY <1>10 DEF WriteEnds, TaskFails
  <2>2. QED
    BY <1>0, <1>1, <2>1 DEF GateRecord, GatePCs, OnTask
<1>11. CASE SlotIsIdle \/ ResetForBoot
  BY <1>0, <1>11 DEF SlotIsIdle, ResetForBoot, GateRecord, GatePCs
<1>12. CASE SettleTimesOut
  BY <1>1, <1>12 DEF SettleTimesOut, TaskFails, OnTask, Checking
<1>13. ASSUME Boots, gate.pc \in OnTask PROVE gate' \in GateRecord
  <2>1. gate' = [gate EXCEPT !.pc = "ip"] \/ NextTask
    BY <1>13 DEF Boots
  <2>2. QED
    BY <1>0, <1>1, <1>13, <2>1 DEF GateRecord, GatePCs
<1>14. CASE FromBuffer \/ Monitor \/ FromBufferAgain
  <2>1. gate.pc \in {"buffer", "monitor", "again"}
    BY <1>14 DEF FromBuffer, Monitor, FromBufferAgain
  <2>2. Boots \/ gate' = [gate EXCEPT !.pc = "monitor"] \/ NextTask
    BY <1>14 DEF FromBuffer, Monitor, FromBufferAgain, TaskFails
  <2>3. QED
    BY <1>0, <1>1, <1>13, <2>1, <2>2 DEF GateRecord, GatePCs, OnTask, Checking
<1>15. CASE MonitorMisses
  BY <1>0, <1>15 DEF MonitorMisses, GateRecord, GatePCs
<1>16. CASE BootCheckRaises
  BY <1>1, <1>16 DEF BootCheckRaises, TaskFails, OnTask, Checking
<1>17. CASE \E ok \in BOOLEAN : FindHost(ok)
  <2>1. gate.pc = "ip" /\ (gate' = [gate EXCEPT !.pc = "verify"] \/ NextTask)
    BY <1>17 DEF FindHost, TaskFails
  <2>2. QED
    BY <1>0, <1>1, <2>1 DEF GateRecord, GatePCs, OnTask, Checking
<1>18. CASE \E ok \in BOOLEAN : VerifyApi(ok)
  BY <1>1, <1>18 DEF VerifyApi, OnTask, Checking
<1>19. CASE \E far \in 0 .. 4 : FlashLorawan(far)
  BY <1>1, <1>19 DEF FlashLorawan, OnTask
<1>20. CASE Bench
  <2>1. ASSUME NEW T \in SUBSET Places, Disturbed(T) PROVE gate' \in GateRecord
    BY <1>0, <2>1 DEF Disturbed, GateRecord
  <2>2. QED
    BY <1>0, <1>20, <2>1 DEF Bench, Flaps, BootsUp, Settles, Replug, OthersFlash
<1>21. QED
  BY <1>3, <1>4, <1>5, <1>6, <1>7, <1>8, <1>9, <1>10, <1>11, <1>12, <1>14, <1>15, <1>16,
     <1>17, <1>18, <1>19, <1>20 DEF GateNext, GateStep

\* What a request that may fail does to the count of failures.
LEMMA MissesCount ==
    ASSUME misses \in 0 .. MaxMisses, NEW ok \in BOOLEAN, Misses(ok)
    PROVE  /\ misses' \in 0 .. MaxMisses
           /\ ok => misses' = misses
           /\ ~ok => misses' # 0
BY GateBounds DEF Misses

\* Rows say yes or no.
LEMMA RowFields ==
    ASSUME NEW stage, NEW at, NEW f, NEW ok \in BOOLEAN
    PROVE  /\ Row(stage, at, f, ok).stage = stage
           /\ Row(stage, at, f, ok).ok \in BOOLEAN
           /\ Row(stage, at, f, ok).ok <=> ok
BY DEF Row

\* Every step keeps the types of the report.
LEMMA RowsStep == GateInv /\ GateNext => \A r \in rows' : r.ok \in BOOLEAN
<1> SUFFICES ASSUME GateInv, GateNext PROVE \A r \in rows' : r.ok \in BOOLEAN
  OBVIOUS
<1>0. \A r \in rows : r.ok \in BOOLEAN
  BY DEF GateInv, GateShape
<1>1. ASSUME NEW R, Adds(R), \A r \in R : r.ok \in BOOLEAN PROVE \A r \in rows' : r.ok \in BOOLEAN
  BY <1>0, <1>1 DEF Adds
<1>1a. ASSUME NEW stage, NEW ok \in BOOLEAN, Adds({TaskRow(stage, ok)}) PROVE \A r \in rows' : r.ok \in BOOLEAN
  <2>1. TaskRow(stage, ok).ok \in BOOLEAN
    BY RowFields DEF TaskRow
  <2>2. QED
    BY <1>1, <1>1a, <2>1
<1>2. ASSUME NEW stage, TaskFails(stage) PROVE \A r \in rows' : r.ok \in BOOLEAN
  BY <1>1a, <1>2 DEF TaskFails
<1>3. CASE \E ok \in BOOLEAN : Info(ok)
  BY <1>1, <1>3, RowFields DEF Info
<1>4. CASE \E ok \in BOOLEAN : ListSlots(ok)
  <2>1. \A r \in SlotRows(gate.roster) : r.ok \in BOOLEAN
    <3> SUFFICES ASSUME NEW r \in SlotRows(gate.roster) PROVE r.ok \in BOOLEAN
      OBVIOUS
    <3>1. \/ \E i \in OnBench(gate.roster) :
                r = Row("slots", gate.roster[i].slot, "none",
                        gate.roster[i].slot \in Places /\ CanFlash(gate.roster[i].slot))
          \/ \E s \in Places : r = Row("slots", s, "none", FALSE)
      BY DEF SlotRows
    <3>2. \A s : (s \in Places /\ CanFlash(s)) \in BOOLEAN
      OBVIOUS
    <3>3. \E at : \E ok \in BOOLEAN : r = Row("slots", at, "none", ok)
      BY <3>1, <3>2
    <3>4. QED
      BY <3>3, RowFields
  <2>2. Row("slots", "listing", "none", FALSE).ok \in BOOLEAN
    BY RowFields
  <2>3. Adds(SlotRows(gate.roster)) \/ Adds({Row("slots", "listing", "none", FALSE)})
    BY <1>4 DEF ListSlots
  <2>4. QED
    BY <1>1, <2>1, <2>2, <2>3
<1>5. CASE \E ok \in BOOLEAN : Serial(ok)
  BY <1>0, <1>1, <1>5, RowFields DEF Serial
<1>6. CASE \E ok \in BOOLEAN : Uplinks(ok)
  <2> PICK ok \in BOOLEAN : Uplinks(ok)
    BY <1>6
  <2>1. \/ Adds({Row("uplinks", Subject(Entry), "none", ok)})
        \/ Adds({Row("uplinks", "chirpstack", "none", FALSE)})
        \/ Adds({})
    BY DEF Uplinks
  <2>2. /\ Row("uplinks", Subject(Entry), "none", ok).ok \in BOOLEAN
        /\ Row("uplinks", "chirpstack", "none", FALSE).ok \in BOOLEAN
    BY RowFields
  <2>3. QED
    BY <1>1, <2>1, <2>2
<1>7. CASE \E ok \in BOOLEAN : GetImage(ok)
  <2> PICK ok \in BOOLEAN : GetImage(ok)
    BY <1>7
  <2> DEFINE asked == TaskFw = "esphome" /\ TaskEntry.functional
             pin == asked /\ (TaskEntry.pin # "none" \/ LibBoards[TaskEntry.board].free)
             noPin == IF asked /\ ~pin THEN {TaskRow("functional", FALSE)} ELSE {}
  <2>1. Adds(noPin) \/ Adds(noPin \union {TaskRow("flash", FALSE)})
    BY DEF GetImage
  <2>2. TaskRow("functional", FALSE).ok \in BOOLEAN /\ TaskRow("flash", FALSE).ok \in BOOLEAN
    BY RowFields DEF TaskRow
  <2>3. QED
    BY <1>1, <2>1, <2>2
<1>8. CASE \E ok \in BOOLEAN : FindHost(ok)
  BY <1>0, <1>2, <1>8 DEF FindHost
<1>9. CASE \E ok \in BOOLEAN : VerifyApi(ok)
  BY <1>1a, <1>9 DEF VerifyApi
<1>10. CASE Write
  BY <1>0, <1>2, <1>10 DEF Write
<1>11. CASE \E ok, written \in BOOLEAN : WriteEnds(ok, written)
  BY <1>1a, <1>2, <1>11 DEF WriteEnds
<1>12. ASSUME Boots PROVE \A r \in rows' : r.ok \in BOOLEAN
  BY <1>1a, <1>12 DEF Boots
<1>13. CASE FromBuffer \/ Monitor \/ FromBufferAgain \/ BootCheckRaises \/ SettleTimesOut
  BY <1>0, <1>2, <1>12, <1>13 DEF FromBuffer, Monitor, FromBufferAgain, BootCheckRaises, SettleTimesOut
<1>14. CASE \E far \in 0 .. 4 : FlashLorawan(far)
  <2> PICK far \in 0 .. 4 : FlashLorawan(far)
    BY <1>14
  <2>1. \A r \in LoraRows(far) : r.ok \in BOOLEAN
    <3> SUFFICES ASSUME NEW r \in LoraRows(far) PROVE r.ok \in BOOLEAN
      OBVIOUS
    <3>1. PICK stage : r = TaskRow(stage, TRUE) \/ r = TaskRow(stage, FALSE)
      BY DEF LoraRows
    <3>2. TaskRow(stage, TRUE).ok \in BOOLEAN /\ TaskRow(stage, FALSE).ok \in BOOLEAN
      BY RowFields DEF TaskRow
    <3>3. QED
      BY <3>1, <3>2
  <2>2. QED
    BY <1>1, <2>1 DEF FlashLorawan
<1>15. CASE UNCHANGED rows
  BY <1>0, <1>15
<1>16. QED
  BY <1>3, <1>4, <1>5, <1>6, <1>7, <1>8, <1>9, <1>10, <1>11, <1>13, <1>14, <1>15
     DEF GateNext, GateStep, Bench, LoadConfig, SlotIsIdle, ResetForBoot, MonitorMisses, Flaps, BootsUp, Settles,
         Replug, OthersFlash, Disturbed

SeatType == [Places -> [unit : Units \union {Nobody}, busy : BOOLEAN, flaps : BOOLEAN]]
FwType == [Units -> [image : Marks, task : Tasks, up : BOOLEAN, ran : BOOLEAN]]
HeardType == [Places -> SUBSET [says : Marks, new : BOOLEAN]]

\* Every step keeps the types of the bench.
LEMMA BenchStep ==
    GateInv /\ GateNext => seat' \in SeatType /\ fw' \in FwType /\ heard' \in HeardType
<1> SUFFICES ASSUME GateInv, GateNext
             PROVE  seat' \in SeatType /\ fw' \in FwType /\ heard' \in HeardType
  OBVIOUS
<1>0. /\ seat \in SeatType /\ fw \in FwType /\ heard \in HeardType /\ gate \in GateRecord
      /\ NoTask \in Tasks /\ Nobody \notin Units
  BY BenchAssumption DEF GateInv, GateShape, SeatType, FwType, HeardType, NoTask, Tasks
<1>1. gate.pc \in OnTask => TaskSlot \in Places /\ TaskFw \in Marks /\ gate.task \in Tasks
  BY <1>0 DEF GateInv, TaskInv, Marks, GateRecord
<1>2. \A s \in Places : seat[s].unit # Nobody => seat[s].unit \in Units
  BY <1>0 DEF SeatType
<1>3. CASE Write
  <2>1. CASE CanFlash(TaskSlot)
    <3> DEFINE u == seat[TaskSlot].unit
    <3>1. u \in Units /\ TaskSlot \in Places /\ gate.task \in Tasks
      BY <1>1, <1>2, <1>3, <2>1 DEF Write, OnTask, CanFlash
    <3>2. /\ seat' = [seat EXCEPT ![TaskSlot].busy = TRUE]
          /\ fw' = [fw EXCEPT ![u] = [image |-> "torn", task |-> gate.task, up |-> FALSE, ran |-> FALSE]]
          /\ UNCHANGED heard
      BY <1>3, <2>1 DEF Write
    <3> HIDE DEF u
    <3>3. QED
      BY <1>0, <3>1, <3>2 DEF SeatType, FwType, Marks
  <2>2. CASE ~CanFlash(TaskSlot)
    BY <1>0, <1>3, <2>2 DEF Write
  <2>3. QED
    BY <2>1, <2>2
<1>4. CASE \E ok, written \in BOOLEAN : WriteEnds(ok, written)
  <2> PICK ok \in BOOLEAN, written \in BOOLEAN : WriteEnds(ok, written)
    BY <1>4
  <2>1. gate.unit \in Units /\ TaskSlot \in Places /\ TaskFw \in Marks
    BY <1>1 DEF WriteEnds, OnTask, GateInv, MarkInv
  <2>2. /\ fw' = [fw EXCEPT ![gate.unit].image = TaskFw] \/ fw' = fw
        /\ seat' = [seat EXCEPT ![TaskSlot].busy = FALSE] \/ seat' = seat
        /\ UNCHANGED heard
    BY DEF WriteEnds
  <2>3. QED
    BY <1>0, <2>1, <2>2 DEF SeatType, FwType
<1>5. CASE SlotIsIdle
  <2> DEFINE H == {[m EXCEPT !.new = FALSE] : m \in heard[TaskSlot]}
  <2>1. TaskSlot \in Places
    BY <1>1, <1>5 DEF SlotIsIdle, OnTask, Checking
  <2>2. H \subseteq [says : Marks, new : BOOLEAN]
    BY <1>0, <2>1 DEF HeardType
  <2>3. heard' = [heard EXCEPT ![TaskSlot] = H] /\ UNCHANGED <<seat, fw>>
    BY <1>5 DEF SlotIsIdle
  <2> HIDE DEF H
  <2>4. QED
    BY <1>0, <2>1, <2>2, <2>3 DEF HeardType
<1>5a. CASE ResetForBoot
  <2>1. TaskSlot \in Places /\ seat[TaskSlot].unit \in Units
    BY <1>1, <1>2, <1>5a DEF ResetForBoot, OnTask, Checking
  <2>2. fw' = [fw EXCEPT ![seat[TaskSlot].unit].up = FALSE] /\ UNCHANGED <<seat, heard>>
    BY <1>5a DEF ResetForBoot
  <2>3. QED
    BY <1>0, <2>1, <2>2 DEF FwType
<1>6. CASE \E far \in 0 .. 4 : FlashLorawan(far)
  <2> PICK far \in 0 .. 4 : FlashLorawan(far)
    BY <1>6
  <2>1. UNCHANGED <<seat, heard>>
    BY DEF FlashLorawan
  <2>2. CASE far = 0
    BY <1>0, <2>1, <2>2 DEF FlashLorawan
  <2>3. CASE far # 0
    <3>1. CanFlash(TaskSlot) /\ TaskSlot \in Places /\ gate.task \in Tasks
      BY <1>1, <2>3 DEF FlashLorawan, OnTask
    <3>2. seat[TaskSlot].unit \in Units
      BY <1>2, <3>1 DEF CanFlash
    <3>3. fw' = [fw EXCEPT ![seat[TaskSlot].unit] =
                   [image |-> "lorawan", task |-> gate.task, up |-> TRUE, ran |-> TRUE]]
      BY <2>3 DEF FlashLorawan
    <3>4. QED
      BY <1>0, <2>1, <3>1, <3>2, <3>3 DEF FwType, Marks, FRAMEWORKS
  <2>4. QED
    BY <2>2, <2>3
<1>7. CASE \E s \in Places : Flaps(s)
  BY <1>0, <1>7 DEF Flaps, SeatType
<1>8. CASE \E s \in Places : BootsUp(s)
  <2> PICK s \in Places : BootsUp(s)
    BY <1>8
  <2>1. seat[s].unit \in Units
    BY <1>2 DEF BootsUp
  <2> DEFINE u == seat[s].unit
  <2>2. fw[u].image \in Marks
    BY <1>0, <2>1 DEF FwType
  <2>3. /\ fw' = [fw EXCEPT ![u].up = TRUE, ![u].ran = TRUE] /\ UNCHANGED seat
        /\ \/ heard' = heard
           \/ heard' = [heard EXCEPT ![s] = @ \union {[says |-> fw[u].image, new |-> TRUE]}]
    BY DEF BootsUp
  <2>4. [says |-> fw[u].image, new |-> TRUE] \in [says : Marks, new : BOOLEAN]
    BY <2>2
  <2>5. u \in Units
    BY <2>1
  <2> DEFINE mark == [says |-> fw[u].image, new |-> TRUE]
  <2> HIDE DEF u, mark
  <2>6. fw' \in FwType
    BY <1>0, <2>3, <2>5 DEF FwType
  <2>7. heard[s] \union {mark} \in SUBSET [says : Marks, new : BOOLEAN]
    BY <1>0, <2>4 DEF HeardType, mark
  <2>8. heard' \in HeardType
    BY <1>0, <2>3, <2>7 DEF HeardType, mark
  <2>9. QED
    BY <1>0, <2>3, <2>6, <2>8
<1>9. CASE \E s \in Places : Settles(s)
  BY <1>0, <1>9 DEF Settles, SeatType
<1>10. CASE \E s \in Places, u \in Units : Replug(u, s)
  <2> PICK s \in Places, u \in Units : Replug(u, s)
    BY <1>10
  <2> DEFINE from == {t \in Places : seat[t].unit = u}
  <2>1. /\ seat' = [t \in Places |->
                  IF t = s /\ s \notin from THEN [unit |-> u, busy |-> FALSE, flaps |-> FALSE]
                  ELSE IF t \in from THEN [unit |-> Nobody, busy |-> FALSE, flaps |-> FALSE]
                  ELSE seat[t]]
        /\ fw' = [fw EXCEPT ![u].up = FALSE]
        /\ UNCHANGED heard
    BY DEF Replug
  <2> HIDE DEF from
  <2>2. QED
    BY <1>0, <2>1 DEF SeatType, FwType
<1>11. CASE \E s \in Places : OthersFlash(s, "esphome")
  <2> PICK s \in Places : OthersFlash(s, "esphome")
    BY <1>11
  <2>1. seat[s].unit \in Units
    BY <1>2 DEF OthersFlash, CanFlash
  <2>2. /\ fw' = [fw EXCEPT ![seat[s].unit] = [image |-> "esphome", task |-> NoTask, up |-> FALSE, ran |-> FALSE]]
        /\ seat' = [seat EXCEPT ![s].busy = TRUE]
        /\ UNCHANGED heard
    BY DEF OthersFlash
  <2>3. QED
    BY <1>0, <2>1, <2>2 DEF SeatType, FwType, Marks, FRAMEWORKS
<1>12. CASE UNCHANGED <<seat, fw, heard>>
  BY <1>0, <1>12
<1>13. QED
  BY <1>3, <1>4, <1>5, <1>5a, <1>6, <1>7, <1>8, <1>9, <1>10, <1>11, <1>12
     DEF GateNext, GateStep, Bench, LoadConfig, Info, ListSlots, Serial, Uplinks, GetImage, FindHost, VerifyApi,
         SettleTimesOut, FromBuffer, Monitor, MonitorMisses, FromBufferAgain, BootCheckRaises, Boots

\* The bounds of the counters.
LEMMA CountStep ==
    GateInv /\ GateNext => upsets' \in 0 .. MaxUpsets /\ misses' \in 0 .. MaxMisses
<1> SUFFICES ASSUME GateInv, GateNext PROVE upsets' \in 0 .. MaxUpsets /\ misses' \in 0 .. MaxMisses
  OBVIOUS
<1>0. upsets \in 0 .. MaxUpsets /\ misses \in 0 .. MaxMisses
  BY DEF GateInv, GateShape
<1>1. CASE Bench
  <2>1. ASSUME NEW T, Disturbed(T) PROVE upsets' \in 0 .. MaxUpsets /\ misses' \in 0 .. MaxMisses
    BY <1>0, <2>1, GateBounds DEF Disturbed
  <2>2. QED
    BY <1>0, <1>1, <2>1 DEF Bench, Flaps, BootsUp, Settles, Replug, OthersFlash
<1>2. CASE GateStep
  <2>1. UNCHANGED upsets
    BY <1>2 DEF GateStep, LoadConfig, Info, ListSlots, Serial, Uplinks, GetImage, FindHost, VerifyApi, Write,
       WriteEnds, SlotIsIdle, ResetForBoot, SettleTimesOut, FromBuffer, Monitor, MonitorMisses, FromBufferAgain,
       BootCheckRaises, FlashLorawan, Boots
  <2>2. UNCHANGED misses \/ \E ok \in BOOLEAN : Misses(ok)
    BY <1>2 DEF GateStep, LoadConfig, Info, ListSlots, Serial, Uplinks, GetImage, FindHost, VerifyApi, Write,
       WriteEnds, SlotIsIdle, ResetForBoot, SettleTimesOut, FromBuffer, Monitor, MonitorMisses, FromBufferAgain,
       BootCheckRaises, FlashLorawan, Boots
  <2>3. QED
    BY <1>0, <2>1, <2>2, MissesCount
<1>3. QED
  BY <1>1, <1>2 DEF GateNext

LEMMA ShapeStep == GateInv /\ GateNext => GateShape'
BY GateRecordStep, RowsStep, BenchStep, CountStep DEF GateShape, SeatType, FwType, HeardType

\* A step of the task in hand, the step that ends it, and a step of the bench.
Within ==
    /\ gate.pc \in OnTask \ {"lora"} /\ gate'.pc \in OnTask \ {"lora"}
    /\ UNCHANGED <<gate.roster, gate.listing, gate.at, gate.task, gate.left, gate.chirp, gate.touched>>
Ending == gate.pc \in OnTask /\ NextTask
Outside ==
    /\ Running
    /\ UNCHANGED <<gate.pc, gate.roster, gate.listing, gate.at, gate.task, gate.left, gate.chirp,
                   gate.pin, gate.unit, rows>>
    /\ gate.touched \subseteq gate'.touched
    /\ upsets' = 0 => gate'.touched = gate.touched

\* Every step of the gate but those of the stages is one of the three.
LEMMA StepKinds ==
    ASSUME GateInv, GateNext
    PROVE  \/ \E r \in Rosters, chirp \in BOOLEAN : LoadConfig(r, chirp)
           \/ \E ok \in BOOLEAN : Info(ok) \/ ListSlots(ok) \/ Serial(ok) \/ Uplinks(ok)
           \/ Ending \/ Within
           \/ Bench /\ Outside
<1>0. gate \in GateRecord /\ upsets \in Nat /\ misses \in Nat
  BY DEF GateInv, GateShape
<1>1. ASSUME NEW stage, TaskFails(stage), gate.pc \in OnTask PROVE Ending
  BY <1>1 DEF TaskFails, Ending
<1>2. ASSUME NEW p \in OnTask \ {"lora"}, gate.pc \in OnTask \ {"lora"}, gate' = [gate EXCEPT !.pc = p]
      PROVE  Within
  BY <1>0, <1>2 DEF GateRecord, Within
<1>3. CASE \E ok \in BOOLEAN : GetImage(ok)
  <2> PICK ok \in BOOLEAN : GetImage(ok)
    BY <1>3
  <2> DEFINE asked == TaskFw = "esphome" /\ TaskEntry.functional
             pin == asked /\ (TaskEntry.pin # "none" \/ LibBoards[TaskEntry.board].free)
  <2>1. gate' = [gate EXCEPT !.pc = "write", !.pin = pin] \/ NextTask
    BY DEF GetImage
  <2>2. gate.pc = "image"
    BY DEF GetImage
  <2> HIDE DEF pin
  <2>3. QED
    BY <1>0, <2>1, <2>2 DEF GateRecord, Within, Ending, OnTask
<1>4. CASE Write
  <2>1. \/ gate' = [gate EXCEPT !.pc = "writing", !.unit = seat[TaskSlot].unit]
        \/ TaskFails("flash")
    BY <1>4 DEF Write
  <2>2. gate.pc = "write"
    BY <1>4 DEF Write
  <2>3. QED
    BY <1>0, <1>1, <2>1, <2>2 DEF GateRecord, Within, OnTask
<1>5. CASE \E ok, written \in BOOLEAN : WriteEnds(ok, written)
  BY <1>1, <1>2, <1>5 DEF WriteEnds, OnTask, Checking
<1>6. CASE SlotIsIdle \/ ResetForBoot
  BY <1>2, <1>6 DEF SlotIsIdle, ResetForBoot, OnTask, Checking
<1>7. CASE SettleTimesOut \/ BootCheckRaises
  BY <1>1, <1>7 DEF SettleTimesOut, BootCheckRaises, OnTask, Checking
<1>8. ASSUME Boots, gate.pc \in OnTask \ {"lora"} PROVE Ending \/ Within
  BY <1>2, <1>8 DEF Boots, Ending, OnTask, Checking
<1>9. CASE FromBuffer \/ Monitor \/ MonitorMisses \/ FromBufferAgain
  <2>1. gate.pc \in {"buffer", "monitor", "again"}
    BY <1>9 DEF FromBuffer, Monitor, MonitorMisses, FromBufferAgain
  <2>2. \/ Boots \/ TaskFails("boot")
        \/ \E p \in {"monitor", "again"} : gate' = [gate EXCEPT !.pc = p]
    BY <1>9 DEF FromBuffer, Monitor, MonitorMisses, FromBufferAgain
  <2>3. QED
    BY <1>1, <1>2, <1>8, <2>1, <2>2 DEF OnTask, Checking
<1>10. CASE \E ok \in BOOLEAN : FindHost(ok) \/ VerifyApi(ok)
  <2>1. gate.pc \in {"ip", "verify"}
    BY <1>10 DEF FindHost, VerifyApi
  <2>2. gate' = [gate EXCEPT !.pc = "verify"] \/ NextTask
    BY <1>10 DEF FindHost, VerifyApi, TaskFails
  <2>3. QED
    BY <1>2, <2>1, <2>2 DEF Ending, OnTask, Checking
<1>11. CASE \E far \in 0 .. 4 : FlashLorawan(far)
  BY <1>11 DEF FlashLorawan, Ending, OnTask
<1>12. CASE Bench
  <2>1. ASSUME NEW T, Disturbed(T) PROVE Outside
    BY <1>0, <2>1 DEF Disturbed, GateRecord, Outside
  <2>2. CASE UNCHANGED <<gate, rows, upsets>> /\ Running
    BY <1>12, <2>2 DEF Outside
  <2>3. QED
    BY <1>12, <2>1, <2>2 DEF Bench, Flaps, BootsUp, Settles, Replug, OthersFlash
<1>13. QED
  BY <1>3, <1>4, <1>5, <1>6, <1>7, <1>9, <1>10, <1>11, <1>12 DEF GateNext, GateStep

\* The roster is what was loaded and found good.
LEMMA RosterStep == GateInv /\ GateNext => RosterInv'
<1> SUFFICES ASSUME GateInv, GateNext PROVE RosterInv'
  OBVIOUS
<1>0. /\ GateShape /\ RosterInv /\ TaskInv /\ gate \in GateRecord
  BY DEF GateInv, GateShape
<1>1. ASSUME UNCHANGED gate.roster, gate.pc \notin {"off", "load", "exit2"} PROVE RosterInv'
  BY <1>0, <1>1 DEF RosterInv, BadEntry, BadFlash, Flashed
<1>2. CASE \E r \in Rosters, chirp \in BOOLEAN : LoadConfig(r, chirp)
  <2> PICK r \in Rosters, chirp \in BOOLEAN : LoadConfig(r, chirp)
    BY <1>2
  <2> DEFINE p == IF r = <<>> \/ \E i \in DOMAIN r : BadEntry(r[i]) THEN "exit2" ELSE "info"
  <2>1. gate' = [gate EXCEPT !.roster = r, !.chirp = chirp, !.pc = p]
    BY DEF LoadConfig
  <2> HIDE DEF p
  <2>2. gate'.roster = r /\ gate'.pc = p
    BY <1>0, <2>1 DEF GateRecord
  <2>3. CASE p = "exit2"
    BY <2>2, <2>3 DEF RosterInv
  <2>4. CASE p # "exit2"
    <3>1. r # <<>> /\ \A i \in DOMAIN r : ~BadEntry(r[i])
      BY <2>4 DEF p
    <3>2. \A i \in DOMAIN r : r[i].flash # <<>> => r[i].flashes
      BY RosterAssumption
    <3>3. QED
      BY <2>2, <3>1, <3>2 DEF RosterInv, BadEntry, BadFlash, Flashed
  <2>5. QED
    BY <2>3, <2>4
<1>3. CASE \E ok \in BOOLEAN : Info(ok) \/ ListSlots(ok) \/ Serial(ok) \/ Uplinks(ok)
  <2> PICK ok \in BOOLEAN : Info(ok) \/ ListSlots(ok) \/ Serial(ok) \/ Uplinks(ok)
    BY <1>3
  <2>1. gate.pc \in {"info", "slots", "serial", "uplinks"}
    BY DEF Info, ListSlots, Serial, Uplinks
  <2>2. ASSUME NEW p, Goes(p) PROVE UNCHANGED gate.roster
    BY <1>0, <2>2 DEF Goes, GateRecord
  <2>3. ASSUME NextEntry PROVE UNCHANGED gate.roster
    BY <1>0, <2>3 DEF NextEntry, GateRecord
  <2>4. ASSUME NextTask, gate.pc = "uplinks" PROVE UNCHANGED gate.roster
    BY <1>0, <2>4, NextTaskMoves DEF TaskInv
  <2>5. ASSUME ListSlots(ok), ok PROVE UNCHANGED gate.roster
    <3>1. gate' = [gate EXCEPT !.pc = "serial", !.listing = Listing, !.touched = {},
                               !.left = TasksOf(gate.roster, Listing)]
      BY <2>5 DEF ListSlots
    <3>2. QED
      BY <1>0, <3>1 DEF GateRecord
  <2>6. UNCHANGED gate.roster
    BY <2>2, <2>3, <2>4, <2>5 DEF Info, ListSlots, Serial, Uplinks, Exits
  <2>7. QED
    BY <1>1, <2>1, <2>6
<1>4. CASE Ending
  BY <1>0, <1>1, <1>4, NextTaskMoves DEF Ending, OnTask, Checking, TaskInv
<1>5. CASE Within
  BY <1>1, <1>5 DEF Within, OnTask, Checking
<1>6. CASE Outside
  BY <1>1, <1>6 DEF Outside, Running
<1>7. QED
  BY <1>2, <1>3, <1>4, <1>5, <1>6, StepKinds

\* No step puts a board into a second slot.
LEMMA UnitsStep == GateInv /\ GateNext => UnitsApart'
<1> SUFFICES ASSUME GateInv, GateNext PROVE UnitsApart'
  OBVIOUS
<1>0. UnitsApart /\ seat \in SeatType /\ Nobody \notin Units
  BY BenchAssumption DEF GateInv, GateShape, SeatType
<1>1. ASSUME \A s \in Places : seat'[s].unit = seat[s].unit PROVE UnitsApart'
  BY <1>0, <1>1 DEF UnitsApart
<1>2. ASSUME UNCHANGED seat PROVE UnitsApart'
  BY <1>1, <1>2
<1>3. ASSUME NEW s, NEW b, seat' = [seat EXCEPT ![s].busy = b] PROVE UnitsApart'
  BY <1>0, <1>1, <1>3 DEF SeatType
<1>4. CASE Bench
  <2>1. CASE \E s \in Places : Flaps(s)
    <3>1. PICK s \in Places : seat' = [seat EXCEPT ![s].flaps = ~@]
      BY <2>1 DEF Flaps
    <3>2. QED
      BY <1>0, <1>1, <3>1 DEF SeatType
  <2>2. CASE \E s \in Places, u \in Units : Replug(u, s)
    <3> PICK s \in Places, u \in Units : Replug(u, s)
      BY <2>2
    <3> DEFINE from == {t \in Places : seat[t].unit = u}
    <3>1. /\ seat' = [t \in Places |->
                    IF t = s /\ s \notin from THEN [unit |-> u, busy |-> FALSE, flaps |-> FALSE]
                    ELSE IF t \in from THEN [unit |-> Nobody, busy |-> FALSE, flaps |-> FALSE]
                    ELSE seat[t]]
      BY DEF Replug
    <3>2. \A t \in Places : seat'[t].unit = IF t = s /\ s \notin from THEN u
                                            ELSE IF t \in from THEN Nobody ELSE seat[t].unit
      BY <3>1
    <3>3. \A t \in Places : t \notin from => seat[t].unit # u
      OBVIOUS
    <3> HIDE DEF from
    <3>4. QED
      BY <1>0, <3>2, <3>3 DEF UnitsApart
  <2>3. QED
    BY <1>2, <1>3, <1>4, <2>1, <2>2 DEF Bench, BootsUp, Settles, OthersFlash
<1>5. CASE GateStep
  <2>1. UNCHANGED seat \/ \E s, b : seat' = [seat EXCEPT ![s].busy = b]
    BY <1>5 DEF GateStep, LoadConfig, Info, ListSlots, Serial, Uplinks, GetImage, FindHost, VerifyApi, Write,
       WriteEnds, SlotIsIdle, ResetForBoot, SettleTimesOut, FromBuffer, Monitor, MonitorMisses, FromBufferAgain,
       BootCheckRaises, FlashLorawan, Boots
  <2>2. QED
    BY <1>2, <1>3, <2>1
<1>6. QED
  BY <1>4, <1>5 DEF GateNext

\* The task in hand stays one of the listing's.
LEMMA TaskStep == GateInv /\ GateNext => TaskInv'
<1> SUFFICES ASSUME GateInv, GateNext PROVE TaskInv'
  OBVIOUS
<1>0. /\ GateShape /\ RosterInv /\ TaskInv /\ gate \in GateRecord
  BY DEF GateInv, GateShape
<1> DEFINE quiet == {"off", "load", "exit2", "info", "slots", "exit"}
<1>1. ASSUME gate.pc \notin OnTask, gate'.pc \in quiet, UNCHANGED gate.task, gate'.left = {},
             gate'.pc = "slots" => gate'.at = 1
      PROVE  TaskInv'
  BY <1>0, <1>1 DEF TaskInv, OnTask, Checking
<1>2. CASE \E r \in Rosters, chirp \in BOOLEAN : LoadConfig(r, chirp)
  <2> PICK r \in Rosters, chirp \in BOOLEAN : LoadConfig(r, chirp)
    BY <1>2
  <2> DEFINE p == IF r = <<>> \/ \E i \in DOMAIN r : BadEntry(r[i]) THEN "exit2" ELSE "info"
  <2>1. gate' = [gate EXCEPT !.roster = r, !.chirp = chirp, !.pc = p] /\ gate.pc = "load"
    BY DEF LoadConfig
  <2>2. p \in {"exit2", "info"}
    OBVIOUS
  <2> HIDE DEF p
  <2>3. gate'.pc = p /\ UNCHANGED <<gate.task, gate.left>>
    BY <1>0, <2>1 DEF GateRecord
  <2>4. QED
    BY <1>0, <1>1, <2>1, <2>2, <2>3 DEF TaskInv, OnTask, Checking
<1>3. ASSUME NEW p, Goes(p)
      PROVE  gate'.pc = p /\ gate'.at = 1 /\ UNCHANGED <<gate.roster, gate.listing, gate.task, gate.left>>
  BY <1>0, <1>3 DEF Goes, GateRecord
<1>4. CASE \E ok \in BOOLEAN : Info(ok)
  <2>1. gate.pc = "info" /\ (Goes("slots") \/ Goes("exit"))
    BY <1>4 DEF Info, Exits
  <2>2. QED
    BY <1>0, <1>1, <1>3, <2>1 DEF TaskInv, OnTask, Checking
<1>5. CASE \E ok \in BOOLEAN : ListSlots(ok)
  <2> PICK ok \in BOOLEAN : ListSlots(ok)
    BY <1>5
  <2>0. gate.pc = "slots" /\ gate.task = NoTask /\ gate.at \in DOMAIN gate.roster
    BY <1>0 DEF ListSlots, TaskInv, OnTask, Checking, RosterInv, GateRecord
  <2>1. CASE ok
    <3>1. gate' = [gate EXCEPT !.pc = "serial", !.listing = Listing, !.touched = {},
                               !.left = TasksOf(gate.roster, Listing)]
      BY <2>1 DEF ListSlots
    <3>2. /\ gate'.pc = "serial" /\ gate'.listing = Listing /\ gate'.left = TasksOf(gate.roster, Listing)
          /\ UNCHANGED <<gate.roster, gate.task, gate.at>>
      BY <1>0, <3>1 DEF GateRecord
    <3>3. gate'.left = AllTasks'
      BY <3>2 DEF AllTasks
    <3>4. QED
      BY <2>0, <3>2, <3>3 DEF TaskInv, OnTask, Checking
  <2>2. CASE ~ok
    BY <1>0, <1>1, <1>3, <2>0, <2>2 DEF ListSlots, Exits, TaskInv, OnTask, Checking
  <2>3. QED
    BY <2>1, <2>2
<1>6. ASSUME gate.pc \in OnTask \union {"uplinks"}, NextTask PROVE TaskInv'
  <2>1. gate.left \subseteq AllTasks /\ gate.pc \notin {"off", "load", "exit2"}
    BY <1>0, <1>6 DEF TaskInv, OnTask, Checking
  <2>2. /\ UNCHANGED <<gate.roster, gate.listing>> /\ gate'.left \subseteq gate.left
        /\ \/ gate'.pc = "exit" /\ gate'.task = NoTask /\ gate'.left = {}
           \/ /\ gate'.pc = IF Framework(gate'.task) = "lorawan" THEN "lora" ELSE "image"
              /\ gate'.task \in gate.left /\ gate'.task # NoTask
    BY <1>0, <1>6, <2>1, NextTaskMoves
  <2>3. AllTasks' = AllTasks
    BY <2>2 DEF AllTasks
  <2>4. CASE gate'.pc = "exit" /\ gate'.task = NoTask /\ gate'.left = {}
    BY <2>4 DEF TaskInv, OnTask, Checking
  <2>5. CASE /\ gate'.pc = IF Framework(gate'.task) = "lorawan" THEN "lora" ELSE "image"
             /\ gate'.task \in gate.left /\ gate'.task # NoTask
    <3>1. /\ gate.roster[gate'.task.entry].slot \in Places
          /\ Framework(gate'.task) \in FRAMEWORKS
      <4>1. \A t \in AllTasks : gate.roster[t.entry].slot \in Places /\ Framework(t) \in FRAMEWORKS
        BY <1>0, <2>1, TaskFacts
      <4>2. QED
        BY <2>1, <2>5, <4>1
    <3>2. TaskSlot' \in Places /\ TaskFw' = Framework(gate'.task)
      BY <2>2, <3>1 DEF TaskSlot, TaskEntry, TaskFw, Framework
    <3>3. QED
      BY <2>1, <2>2, <2>3, <2>5, <3>1, <3>2 DEF TaskInv, OnTask, Checking
  <2>6. QED
    BY <2>2, <2>4, <2>5
<1>7. ASSUME gate.pc \in {"serial", "uplinks"}, NextEntry, ~LastEntry PROVE TaskInv'
  <2>1. /\ gate'.at = gate.at + 1
        /\ UNCHANGED <<gate.pc, gate.roster, gate.listing, gate.task, gate.left>>
    BY <1>0, <1>7 DEF NextEntry, GateRecord
  <2>2. gate.at + 1 \in DOMAIN gate.roster
    <3>1. gate.at \in DOMAIN gate.roster /\ gate.roster \in Seq(Entries) /\ gate.at # Len(gate.roster)
      BY <1>0, <1>7 DEF TaskInv, GateRecord, LastEntry
    <3>2. QED
      BY <3>1
  <2>3. QED
    BY <1>0, <1>7, <2>1, <2>2 DEF TaskInv, AllTasks, OnTask, Checking
<1>8. CASE \E ok \in BOOLEAN : Serial(ok)
  <2>1. gate.pc = "serial" /\ IF LastEntry THEN Goes("uplinks") ELSE NextEntry
    BY <1>8 DEF Serial
  <2>2. CASE LastEntry
    <3>1. 1 \in DOMAIN gate.roster
      BY <1>0, <2>1 DEF GateRecord, RosterInv
    <3>2. /\ gate'.pc = "uplinks" /\ gate'.at = 1
          /\ UNCHANGED <<gate.roster, gate.listing, gate.task, gate.left>>
      BY <1>3, <2>1, <2>2
    <3>3. QED
      BY <1>0, <2>1, <3>1, <3>2 DEF TaskInv, AllTasks, OnTask, Checking
  <2>3. QED
    BY <1>7, <2>1, <2>2
<1>9. CASE \E ok \in BOOLEAN : Uplinks(ok)
  BY <1>6, <1>7, <1>9 DEF Uplinks
<1>10. CASE Ending
  BY <1>6, <1>10 DEF Ending
<1>11. CASE Within
  <2>1. /\ UNCHANGED <<gate.roster, gate.listing, gate.task, gate.left>>
        /\ gate.pc \in OnTask \ {"lora"} /\ gate'.pc \in OnTask \ {"lora"}
    BY <1>11 DEF Within
  <2>2. AllTasks' = AllTasks /\ TaskSlot' = TaskSlot /\ TaskFw' = TaskFw
    BY <2>1 DEF AllTasks, TaskSlot, TaskEntry, TaskFw, Framework
  <2>3. QED
    BY <1>0, <2>1, <2>2 DEF TaskInv, OnTask, Checking
<1>12. CASE Outside
  <2>1. UNCHANGED <<gate.pc, gate.roster, gate.listing, gate.task, gate.left, gate.at>>
    BY <1>12 DEF Outside
  <2>2. AllTasks' = AllTasks /\ TaskSlot' = TaskSlot /\ TaskFw' = TaskFw
    BY <2>1 DEF AllTasks, TaskSlot, TaskEntry, TaskFw, Framework
  <2>3. QED
    BY <1>0, <2>1, <2>2 DEF TaskInv
<1>13. QED
  BY <1>2, <1>4, <1>5, <1>8, <1>9, <1>10, <1>11, <1>12, StepKinds

\* The report only grows, and shows what failed.
LEMMA RowsGrow ==
    ASSUME GateInv, GateNext
    PROVE  rows \subseteq rows' /\ Failed \subseteq Failed'
<1>1. rows \subseteq rows'
  BY DEF GateNext, GateStep, Bench, LoadConfig, Info, ListSlots, Serial, Uplinks, GetImage, FindHost, VerifyApi,
     Write, WriteEnds, SlotIsIdle, ResetForBoot, SettleTimesOut, FromBuffer, Monitor, MonitorMisses, FromBufferAgain,
     BootCheckRaises, FlashLorawan, Boots, TaskFails, Adds, Flaps, BootsUp, Settles, Replug, OthersFlash, Disturbed
<1>2. QED
  BY <1>1 DEF Failed

LEMMA FailShows ==
    /\ \A R, stage, at, f : Adds(R) /\ Row(stage, at, f, FALSE) \in R => Failed' # {}
    /\ \A stage : TaskFails(stage) => Failed' # {}
<1>1. ASSUME NEW R, NEW stage, NEW at, NEW f, Adds(R), Row(stage, at, f, FALSE) \in R PROVE Failed' # {}
  <2>1. Row(stage, at, f, FALSE) \in rows' /\ ~Row(stage, at, f, FALSE).ok
    BY <1>1, RowFields DEF Adds
  <2>2. QED
    BY <2>1 DEF Failed
<1>2. ASSUME NEW stage, TaskFails(stage) PROVE Failed' # {}
  BY <1>1, <1>2 DEF TaskFails, TaskRow
<1>3. QED
  BY <1>1, <1>2

\* What the report has of the task in hand, as long as nothing fails.
Midway ==
    /\ gate.pc \in {"write", "writing"} \union Checking =>
          (TaskFw = "esphome" /\ TaskEntry.functional => gate.pin)
    /\ gate.pc \in Checking => TaskRow("flash", TRUE) \in rows
    /\ gate.pc \in {"ip", "verify"} => TaskRow("boot", TRUE) \in rows

\* A task ends without a failure only when it has left all its rows.
LEMMA TaskRowsStep ==
    ASSUME GateInv, GateNext, gate.pc \in OnTask, Failed' = {}
    PROVE  \/ Ending /\ TaskRowsOf(gate.task) \subseteq rows'
           \/ Within /\ Midway'
           \/ Outside
<1>0. /\ Midway /\ TaskInv /\ gate \in GateRecord /\ rows \subseteq rows'
  BY RowsGrow DEF GateInv, GateShape, CompleteInv, TaskRowsInv, Midway
<1>1. \A stage, ok : TaskRow(stage, ok) = Row(stage, gate.roster[gate.task.entry].slot, Framework(gate.task), ok)
  BY DEF TaskRow, TaskSlot, TaskEntry, TaskFw
<1>2. ASSUME Within
      PROVE  /\ TaskFw' = TaskFw /\ TaskEntry' = TaskEntry
             /\ \A stage, ok : TaskRow(stage, ok)' = TaskRow(stage, ok)
  BY <1>2 DEF Within, TaskRow, TaskSlot, TaskEntry, TaskFw, Framework, Row
<1>3. ASSUME NEW p \in OnTask \ {"lora"}, gate.pc # "lora", gate' = [gate EXCEPT !.pc = p]
      PROVE  Within /\ gate'.pc = p /\ gate'.pin = gate.pin
  BY <1>0, <1>3 DEF GateRecord, Within
<1>4. CASE \E ok \in BOOLEAN : GetImage(ok)
  <2> PICK ok \in BOOLEAN : GetImage(ok)
    BY <1>4
  <2> DEFINE asked == TaskFw = "esphome" /\ TaskEntry.functional
             pin == asked /\ (TaskEntry.pin # "none" \/ LibBoards[TaskEntry.board].free)
             noPin == IF asked /\ ~pin THEN {TaskRow("functional", FALSE)} ELSE {}
  <2>1. /\ gate.pc = "image"
        /\ \/ ok /\ Adds(noPin) /\ gate' = [gate EXCEPT !.pc = "write", !.pin = pin]
           \/ Adds(noPin \union {TaskRow("flash", FALSE)})
    BY DEF GetImage
  <2>2. ~Adds(noPin \union {TaskRow("flash", FALSE)})
    BY FailShows DEF TaskRow
  <2>3. asked => pin
    <3>1. ASSUME TaskRow("functional", FALSE) \in noPin PROVE FALSE
      BY <2>1, <2>2, <3>1, FailShows DEF TaskRow
    <3>2. QED
      BY <3>1
  <2>4. gate' = [gate EXCEPT !.pc = "write", !.pin = pin]
    BY <2>1, <2>2
  <2> HIDE DEF pin
  <2>5. Within /\ gate'.pc = "write" /\ gate'.pin = pin
    BY <1>0, <2>1, <2>4 DEF GateRecord, Within, OnTask
  <2>6. QED
    BY <1>2, <2>3, <2>5 DEF Midway, Checking
<1>5. CASE Write
  <2>1. gate.pc = "write" /\ gate' = [gate EXCEPT !.pc = "writing", !.unit = seat[TaskSlot].unit]
    BY <1>5, FailShows DEF Write
  <2>2. Within /\ gate'.pc = "writing" /\ gate'.pin = gate.pin
    BY <1>0, <2>1 DEF GateRecord, Within, OnTask
  <2>3. QED
    BY <1>0, <1>2, <2>1, <2>2 DEF Midway, Checking
<1>6. CASE \E ok, written \in BOOLEAN : WriteEnds(ok, written)
  <2>1. gate.pc = "writing" /\ Adds({TaskRow("flash", TRUE)}) /\ gate' = [gate EXCEPT !.pc = "settle"]
    BY <1>6, FailShows DEF WriteEnds
  <2>2. Within /\ gate'.pc = "settle" /\ gate'.pin = gate.pin
    BY <1>3, <2>1 DEF OnTask, Checking
  <2>3. QED
    BY <1>0, <1>2, <2>1, <2>2 DEF Midway, Checking, Adds
<1>7. CASE SlotIsIdle \/ ResetForBoot
  <2>1. PICK p \in {"reset", "buffer"} :
           gate.pc \in {"settle", "reset"} /\ gate' = [gate EXCEPT !.pc = p]
    BY <1>7 DEF SlotIsIdle, ResetForBoot
  <2>2. Within /\ gate'.pc = p /\ gate'.pin = gate.pin
    BY <1>3, <2>1 DEF OnTask, Checking
  <2>3. QED
    BY <1>0, <1>2, <2>1, <2>2 DEF Midway, Checking
<1>8. ~SettleTimesOut /\ ~BootCheckRaises
  BY FailShows DEF SettleTimesOut, BootCheckRaises
<1>9. CASE FromBuffer \/ Monitor \/ MonitorMisses \/ FromBufferAgain
  <2>1. gate.pc \in {"buffer", "monitor", "again"}
    BY <1>9 DEF FromBuffer, Monitor, MonitorMisses, FromBufferAgain
  <2>2. \/ Boots
        \/ \E p \in {"monitor", "again"} : gate' = [gate EXCEPT !.pc = p]
    BY <1>9, FailShows DEF FromBuffer, Monitor, MonitorMisses, FromBufferAgain
  <2>3. CASE Boots
    <3>1. TaskRow("boot", TRUE) \in rows' /\ TaskRow("flash", TRUE) \in rows'
      BY <1>0, <2>1, <2>3 DEF Boots, Adds, Midway, Checking
    <3>2. CASE gate.pin
      <4>1. Within /\ gate'.pc = "ip" /\ gate'.pin = gate.pin
        BY <1>3, <2>1, <2>3, <3>2 DEF Boots, OnTask, Checking
      <4>2. QED
        BY <1>0, <1>2, <2>1, <3>1, <4>1 DEF Midway, Checking
    <3>3. CASE ~gate.pin
      <4>1. Ending
        BY <2>1, <2>3, <3>3 DEF Boots, Ending, OnTask, Checking
      <4>2. TaskFw # "lorawan" /\ ~(TaskFw = "esphome" /\ TaskEntry.functional)
        BY <1>0, <2>1, <3>3 DEF TaskInv, Midway, OnTask, Checking
      <4>3. TaskRowsOf(gate.task) = {TaskRow("flash", TRUE), TaskRow("boot", TRUE)}
        BY <1>1, <4>2 DEF TaskRowsOf, TaskFw, TaskEntry
      <4>4. QED
        BY <3>1, <4>1, <4>3
    <3>4. QED
      BY <3>2, <3>3
  <2>4. CASE \E p \in {"monitor", "again"} : gate' = [gate EXCEPT !.pc = p]
    <3>1. PICK p \in {"monitor", "again"} : gate' = [gate EXCEPT !.pc = p]
      BY <2>4
    <3>2. Within /\ gate'.pc = p /\ gate'.pin = gate.pin
      BY <1>3, <2>1, <3>1 DEF OnTask, Checking
    <3>3. QED
      BY <1>0, <1>2, <2>1, <3>1, <3>2 DEF Midway, Checking
  <2>5. QED
    BY <2>2, <2>3, <2>4
<1>10. CASE \E ok \in BOOLEAN : FindHost(ok)
  <2>1. gate.pc = "ip" /\ gate' = [gate EXCEPT !.pc = "verify"]
    BY <1>10, FailShows DEF FindHost
  <2>2. Within /\ gate'.pc = "verify" /\ gate'.pin = gate.pin
    BY <1>3, <2>1 DEF OnTask, Checking
  <2>3. QED
    BY <1>0, <1>2, <2>1, <2>2 DEF Midway, Checking
<1>11. CASE \E ok \in BOOLEAN : VerifyApi(ok)
  <2> PICK ok \in BOOLEAN : VerifyApi(ok)
    BY <1>11
  <2>1. gate.pc = "verify" /\ Adds({TaskRow("functional", ok)}) /\ NextTask
    BY DEF VerifyApi
  <2>2. ok
    BY <2>1, FailShows DEF TaskRow
  <2>3. {TaskRow("functional", TRUE), TaskRow("flash", TRUE), TaskRow("boot", TRUE)} \subseteq rows'
    BY <1>0, <2>1, <2>2 DEF Midway, Checking, Adds
  <2>4. TaskFw # "lorawan"
    BY <1>0, <2>1 DEF TaskInv, OnTask, Checking
  <2>5. TaskRowsOf(gate.task) \subseteq {TaskRow("functional", TRUE), TaskRow("flash", TRUE), TaskRow("boot", TRUE)}
    BY <1>1, <2>4 DEF TaskRowsOf, TaskFw
  <2>6. QED
    BY <2>1, <2>3, <2>5 DEF Ending
<1>12. CASE \E far \in 0 .. 4 : FlashLorawan(far)
  <2> PICK far \in 0 .. 4 : FlashLorawan(far)
    BY <1>12
  <2>1. gate.pc = "lora" /\ Adds(LoraRows(far)) /\ NextTask
    BY DEF FlashLorawan
  <2>2. far = 4
    <3>1. far # 4 => TaskRow(LoraStages[far + 1], FALSE) \in LoraRows(far)
      BY DEF LoraRows
    <3>2. QED
      BY <2>1, <3>1, FailShows DEF TaskRow
  <2>3. {"flash", "join", "uplink"} \subseteq {LoraStages[k] : k \in 1 .. 4} \ {"register"}
    <3>1. LoraStages[1] = "flash" /\ LoraStages[3] = "join" /\ LoraStages[4] = "uplink"
      BY DEF LoraStages
    <3>2. QED
      BY <3>1
  <2>4. {TaskRow("flash", TRUE), TaskRow("join", TRUE), TaskRow("uplink", TRUE)} \subseteq LoraRows(far)
    BY <2>2, <2>3 DEF LoraRows
  <2>5. TaskFw = "lorawan"
    BY <1>0, <2>1 DEF TaskInv
  <2>6. TaskRowsOf(gate.task) = {TaskRow("flash", TRUE), TaskRow("join", TRUE), TaskRow("uplink", TRUE)}
    BY <1>1, <2>5 DEF TaskRowsOf, TaskFw
  <2>7. QED
    BY <2>1, <2>4, <2>6 DEF Ending, OnTask, Adds
<1>13. CASE Bench
  <2>1. ASSUME NEW T, Disturbed(T) PROVE Outside
    BY <1>0, <2>1 DEF Disturbed, GateRecord, Outside, GateInv, GateShape
  <2>2. CASE UNCHANGED <<gate, rows, upsets>> /\ Running
    BY <2>2 DEF Outside
  <2>3. QED
    BY <1>13, <2>1, <2>2 DEF Bench, Flaps, BootsUp, Settles, Replug, OthersFlash
<1>14. QED
  BY <1>4, <1>5, <1>6, <1>7, <1>8, <1>9, <1>10, <1>11, <1>12, <1>13
     DEF GateNext, GateStep, LoadConfig, Info, ListSlots, Serial, Uplinks, OnTask, Checking

\* As long as nothing fails, what the gate has behind it has its rows.
LEMMA CompleteStep == GateInv /\ GateNext => CompleteInv'
<1> SUFFICES ASSUME GateInv, GateNext, Failed' = {} PROVE (ListInv /\ StageInv /\ TaskRowsInv)'
  BY DEF CompleteInv
<1>0. /\ GateShape /\ RosterInv /\ TaskInv /\ gate \in GateRecord
      /\ ListInv /\ StageInv /\ TaskRowsInv /\ rows \subseteq rows'
  BY RowsGrow DEF GateInv, GateShape, CompleteInv
<1>1. ASSUME gate'.pc \in {"exit2", "info", "slots"} PROVE (ListInv /\ StageInv /\ TaskRowsInv)'
  BY <1>1 DEF ListInv, StageInv, TaskRowsInv, OnTask, Checking
\* Rows that were there are there.
<1>2. ASSUME UNCHANGED <<gate.roster, gate.listing>>, gate.pc \in {"serial", "uplinks"} \union OnTask
      PROVE  ListInv'
  BY <1>0, <1>2 DEF ListInv, Listed, OnBench, Row
<1> DEFINE S(e) == e.onBench /\ ~e.flashes => Row("serial", e.slot, "none", TRUE) \in rows'
           U(e) == e.eui => Row("uplinks", Subject(e), "none", TRUE) \in rows'
<1>3. \A e : (SerialDone(e) => S(e)) /\ (UplinkDone(e) => U(e))
  BY <1>0 DEF SerialDone, UplinkDone
<1>3a. ASSUME UNCHANGED gate.roster,
              \A i \in DOMAIN gate.roster :
                 /\ gate'.pc \in {"uplinks", "exit"} \union OnTask \/ (gate'.pc = "serial" /\ i < gate'.at) =>
                       S(gate.roster[i])
                 /\ gate'.pc \in {"exit"} \union OnTask \/ (gate'.pc = "uplinks" /\ i < gate'.at) =>
                       U(gate.roster[i])
       PROVE  StageInv'
  BY <1>3a DEF StageInv, SerialDone, UplinkDone, Subject, Row
<1> HIDE DEF S, U
<1>4. ASSUME UNCHANGED gate.roster, gate.pc \in OnTask PROVE StageInv'
  BY <1>0, <1>3, <1>3a, <1>4 DEF StageInv
<1>5. ASSUME UNCHANGED gate.roster
      PROVE  \A t : TaskRowsOf(t)' = TaskRowsOf(t)
  BY <1>5 DEF TaskRowsOf, Framework, Row
<1>6. CASE \E r \in Rosters, chirp \in BOOLEAN : LoadConfig(r, chirp)
  <2> PICK r \in Rosters, chirp \in BOOLEAN : LoadConfig(r, chirp)
    BY <1>6
  <2> DEFINE p == IF r = <<>> \/ \E i \in DOMAIN r : BadEntry(r[i]) THEN "exit2" ELSE "info"
  <2>1. gate' = [gate EXCEPT !.roster = r, !.chirp = chirp, !.pc = p] /\ p \in {"exit2", "info"}
    BY DEF LoadConfig
  <2> HIDE DEF p
  <2>2. gate'.pc = p
    BY <1>0, <2>1 DEF GateRecord
  <2>3. QED
    BY <1>1, <2>1, <2>2
<1>7. CASE \E ok \in BOOLEAN : Info(ok)
  <2>1. Goes("slots")
    BY <1>7, FailShows DEF Info
  <2>2. gate'.pc = "slots"
    BY <1>0, <2>1 DEF Goes, GateRecord
  <2>3. QED
    BY <1>1, <2>2
<1>8. CASE \E ok \in BOOLEAN : ListSlots(ok)
  <2>1. /\ gate.pc = "slots" /\ Adds(SlotRows(gate.roster))
        /\ gate' = [gate EXCEPT !.pc = "serial", !.listing = Listing, !.touched = {},
                                !.left = TasksOf(gate.roster, Listing)]
    BY <1>8, FailShows DEF ListSlots
  <2>2. /\ gate'.pc = "serial" /\ gate'.listing = Listing /\ gate'.left = TasksOf(gate.roster, Listing)
        /\ UNCHANGED <<gate.roster, gate.at>>
    BY <1>0, <2>1 DEF GateRecord
  <2>3. ASSUME NEW i \in OnBench(gate.roster) PROVE Listed(gate.roster[i])'
    <3> DEFINE s == gate.roster[i].slot
    <3>1. Row("slots", s, "none", s \in Places /\ CanFlash(s)) \in rows'
      BY <2>1, <2>3 DEF Adds, SlotRows
    <3>2. s \in Places /\ CanFlash(s)
      <4>1. CASE ~(s \in Places /\ CanFlash(s))
        <5>1. (s \in Places /\ CanFlash(s)) = FALSE
          BY <4>1
        <5>2. Row("slots", s, "none", FALSE) \in rows'
          BY <3>1, <5>1
        <5>3. ~Row("slots", s, "none", FALSE).ok
          BY RowFields
        <5>4. QED
          BY <5>2, <5>3 DEF Failed
      <4>2. QED
        BY <4>1
    <3>3. (s \in Places /\ CanFlash(s)) = TRUE /\ CanFlash(s) = TRUE
      BY <3>2 DEF CanFlash
    <3>4. Row("slots", s, "none", TRUE) \in rows'
      BY <3>1, <3>3
    <3>5. [at |-> s, ready |-> TRUE] \in Listing
      BY <3>2, <3>3 DEF Listing, CanFlash
    <3>6. gate'.roster[i].slot = s
      BY <2>2
    <3> HIDE DEF s
    <3>7. QED
      BY <2>2, <3>4, <3>5, <3>6 DEF Listed, Row
  <2>4. ListInv'
    BY <2>2, <2>3 DEF ListInv, OnBench
  <2>5. StageInv'
    <3>1. gate'.at = 1 /\ \A i \in DOMAIN gate'.roster : ~(i < 1)
      BY <1>0, <2>1, <2>2 DEF TaskInv, GateRecord
    <3>2. QED
      BY <2>2, <3>1 DEF StageInv, OnTask, Checking
  <2>6. TaskRowsInv'
    BY <2>2 DEF TaskRowsInv, AllTasks, OnTask, Checking
  <2>7. QED
    BY <2>4, <2>5, <2>6
\* The two stages that go through the roster.
<1>9. ASSUME gate.at \in DOMAIN gate.roster
      PROVE  /\ \A i \in DOMAIN gate.roster : i < gate.at + 1 => i < gate.at \/ i = gate.at
             /\ LastEntry => \A i \in DOMAIN gate.roster : i < gate.at \/ i = gate.at
             /\ \A i \in DOMAIN gate.roster : ~(i < 1)
  BY <1>0, <1>9 DEF GateRecord, LastEntry
<1>10. CASE \E ok \in BOOLEAN : Serial(ok)
  <2> PICK ok \in BOOLEAN : Serial(ok)
    BY <1>10
  <2>1. gate.pc = "serial" /\ gate.at \in DOMAIN gate.roster /\ IF LastEntry THEN Goes("uplinks") ELSE NextEntry
    BY <1>0 DEF Serial, TaskInv
  <2>2. /\ UNCHANGED <<gate.roster, gate.listing, gate.left>>
        /\ \/ LastEntry /\ gate'.pc = "uplinks" /\ gate'.at = 1
           \/ ~LastEntry /\ gate'.pc = "serial" /\ gate'.at = gate.at + 1
    BY <1>0, <2>1 DEF Goes, NextEntry, GateRecord
  <2>3. S(gate.roster[gate.at])
    <3>1. CASE Entry.onBench /\ ~Entry.flashes /\ Present(Entry.slot)
      <4>1. Adds({Row("serial", Entry.slot, "none", ok)})
        BY <3>1 DEF Serial
      <4>2. ok
        BY <4>1, FailShows
      <4>3. Row("serial", Entry.slot, "none", TRUE) \in rows'
        BY <4>1, <4>2 DEF Adds
      <4>4. QED
        BY <4>3 DEF S, Entry
    <3>2. CASE Entry.onBench /\ ~Present(Entry.slot)
      <4>1. Listed(Entry)
        BY <1>0, <2>1, <3>2 DEF ListInv, OnBench, Entry
      <4>2. QED
        BY <3>2, <4>1 DEF Listed, Present
    <3>3. QED
      BY <3>1, <3>2 DEF S, Entry
  <2>4. \A i \in DOMAIN gate.roster : i < gate.at => S(gate.roster[i])
    BY <1>0, <1>3, <2>1 DEF StageInv
  <2>5. StageInv'
    BY <1>3a, <1>9, <2>1, <2>2, <2>3, <2>4 DEF OnTask, Checking
  <2>6. TaskRowsInv'
    BY <1>0, <2>1, <2>2 DEF TaskRowsInv, AllTasks, OnTask, Checking
  <2>7. QED
    BY <1>2, <2>1, <2>2, <2>5, <2>6
\* The task that was in hand has its rows; the one now begun need not.
<1>11. ASSUME gate.pc \in OnTask \union {"uplinks"}, NextTask,
              \A t \in AllTasks \ gate.left : TaskRowsOf(t) \subseteq rows'
       PROVE  TaskRowsInv'
  <2>1. gate.left \subseteq AllTasks
    BY <1>0 DEF TaskInv
  <2>2. /\ UNCHANGED <<gate.roster, gate.listing>>
        /\ gate.left \subseteq gate'.left \union {gate'.task}
        /\ gate'.pc \in {"exit", "lora", "image"}
    BY <1>0, <1>11, <2>1, NextTaskMoves
  <2>3. AllTasks' = AllTasks
    BY <2>2 DEF AllTasks
  <2>4. \A t \in AllTasks' \ (gate'.left \union {gate'.task}) : TaskRowsOf(t)' \subseteq rows'
    BY <1>5, <1>11, <2>2, <2>3
  <2>5. QED
    BY <2>2, <2>4 DEF TaskRowsInv, Checking
<1>12. CASE \E ok \in BOOLEAN : Uplinks(ok)
  <2> PICK ok \in BOOLEAN : Uplinks(ok)
    BY <1>12
  <2>1. gate.pc = "uplinks" /\ gate.at \in DOMAIN gate.roster /\ IF LastEntry THEN NextTask ELSE NextEntry
    BY <1>0 DEF Uplinks, TaskInv
  <2>2. U(gate.roster[gate.at])
    <3>1. CASE Entry.eui /\ gate.chirp
      <4>1. Adds({Row("uplinks", Subject(Entry), "none", ok)})
        BY <3>1 DEF Uplinks
      <4>2. ok
        BY <4>1, FailShows
      <4>3. QED
        BY <4>1, <4>2 DEF Adds, U, Entry
    <3>2. CASE Entry.eui /\ ~gate.chirp
      <4>1. Adds({Row("uplinks", "chirpstack", "none", FALSE)})
        BY <3>2 DEF Uplinks
      <4>2. QED
        BY <4>1, FailShows
    <3>3. QED
      BY <3>1, <3>2 DEF U, Entry
  <2>3. /\ \A i \in DOMAIN gate.roster : i < gate.at => U(gate.roster[i])
        /\ \A i \in DOMAIN gate.roster : S(gate.roster[i])
    BY <1>0, <1>3, <2>1 DEF StageInv
  <2>4. CASE LastEntry
    <3>1. /\ UNCHANGED <<gate.roster, gate.listing>> /\ gate'.pc \in {"exit", "lora", "image"}
      BY <1>0, <2>1, <2>4, NextTaskMoves DEF TaskInv
    <3>2. StageInv'
      BY <1>3a, <1>9, <2>1, <2>2, <2>3, <2>4, <3>1
    <3>3. TaskRowsInv'
      BY <1>0, <1>11, <2>1, <2>4 DEF TaskRowsInv
    <3>4. QED
      BY <1>2, <2>1, <3>1, <3>2, <3>3
  <2>5. CASE ~LastEntry
    <3>1. /\ UNCHANGED <<gate.pc, gate.roster, gate.listing, gate.left>> /\ gate'.at = gate.at + 1
      BY <1>0, <2>1, <2>5 DEF NextEntry, GateRecord
    <3>2. StageInv'
      BY <1>3a, <1>9, <2>1, <2>2, <2>3, <3>1 DEF OnTask, Checking
    <3>3. TaskRowsInv'
      BY <1>0, <2>1, <3>1 DEF TaskRowsInv, AllTasks, OnTask, Checking
    <3>4. QED
      BY <1>2, <2>1, <3>1, <3>2, <3>3
  <2>6. QED
    BY <2>4, <2>5
<1>13. CASE Outside
  <2>1. UNCHANGED <<gate.pc, gate.roster, gate.listing, gate.at, gate.task, gate.left, gate.pin, rows>>
    BY <1>13 DEF Outside
  <2>2. ListInv'
    BY <1>0, <2>1 DEF ListInv, Listed, OnBench, Row
  <2>3. StageInv'
    BY <1>0, <1>3, <1>3a, <2>1 DEF StageInv
  <2>4. TaskRowsInv'
    <3>1. /\ AllTasks' = AllTasks /\ TaskFw' = TaskFw /\ TaskEntry' = TaskEntry
          /\ \A stage, ok : TaskRow(stage, ok)' = TaskRow(stage, ok)
      BY <2>1 DEF AllTasks, TaskFw, TaskEntry, Framework, TaskRow, TaskSlot, Row
    <3>2. QED
      BY <1>0, <1>5, <2>1, <3>1 DEF TaskRowsInv
  <2>5. QED
    BY <2>2, <2>3, <2>4
<1>14. CASE gate.pc \in OnTask
  <2>1. CASE Ending /\ TaskRowsOf(gate.task) \subseteq rows'
    <3>1. /\ UNCHANGED <<gate.roster, gate.listing>>
      BY <1>0, <1>14, <2>1, NextTaskMoves DEF TaskInv, Ending
    <3>2. \A t \in AllTasks \ gate.left : TaskRowsOf(t) \subseteq rows'
      BY <1>0, <1>14, <2>1 DEF TaskRowsInv
    <3>3. QED
      BY <1>2, <1>4, <1>11, <1>14, <2>1, <3>1, <3>2 DEF Ending
  <2>2. CASE Within /\ Midway'
    <3>1. /\ UNCHANGED <<gate.roster, gate.listing, gate.task, gate.left>>
          /\ gate'.pc \in OnTask
      BY <2>2 DEF Within
    <3>2. \A t \in AllTasks \ (gate.left \union {gate.task}) : TaskRowsOf(t) \subseteq rows'
      BY <1>0, <1>14 DEF TaskRowsInv
    <3>2a. AllTasks' = AllTasks /\ \A t : TaskRowsOf(t)' = TaskRowsOf(t)
      BY <1>5, <3>1 DEF AllTasks
    <3>2b. \A t \in AllTasks' \ (gate'.left \union {gate'.task}) : TaskRowsOf(t)' \subseteq rows'
      BY <3>1, <3>2, <3>2a
    <3>2c. gate'.pc \notin {"serial", "uplinks"}
      BY <3>1 DEF OnTask, Checking
    <3>3. TaskRowsInv'
      BY <2>2, <3>2b, <3>2c DEF TaskRowsInv, Midway
    <3>4. QED
      BY <1>2, <1>4, <1>14, <3>1, <3>3
  <2>3. QED
    BY <1>13, <1>14, <2>1, <2>2, TaskRowsStep
<1>15. QED
  BY <1>6, <1>7, <1>8, <1>10, <1>12, <1>13, <1>14, StepKinds DEF Ending, Within

\* Where a new boot row comes from.
LEMMA BootRows ==
    ASSUME GateInv, GateNext, NEW r \in rows' \ rows, r.stage = "boot"
    PROVE  \/ r.ok /\ Marked /\ gate.pc \in {"buffer", "monitor", "again"}
           \/ SettleTimesOut \/ (FromBufferAgain /\ ~Marked) \/ BootCheckRaises
<1>1. ASSUME NEW R, Adds(R) PROVE r \in R
  BY <1>1 DEF Adds
<1>2. ASSUME NEW stage, stage # "boot", NEW at, NEW f, NEW ok \in BOOLEAN PROVE r # Row(stage, at, f, ok)
  BY <1>2, RowFields
<1>3. ASSUME NEW stage, stage # "boot", NEW ok \in BOOLEAN PROVE r # TaskRow(stage, ok)
  BY <1>2, <1>3 DEF TaskRow
<1>4. ASSUME NEW stage, stage # "boot", TaskFails(stage) PROVE FALSE
  BY <1>1, <1>3, <1>4 DEF TaskFails
<1>5. ~UNCHANGED rows
  OBVIOUS
<1>6. \A ok \in BOOLEAN : ~Info(ok)
  BY <1>1, <1>2 DEF Info
<1>7. \A ok \in BOOLEAN : ~ListSlots(ok)
  <2> SUFFICES ASSUME NEW ok \in BOOLEAN, ListSlots(ok) PROVE FALSE
    OBVIOUS
  <2>1. Adds(SlotRows(gate.roster)) \/ Adds({Row("slots", "listing", "none", FALSE)})
    BY DEF ListSlots
  <2>2. r \in SlotRows(gate.roster)
    BY <1>1, <1>2, <2>1
  <2>3. \E at, ok2 : r = Row("slots", at, "none", ok2)
    BY <2>2 DEF SlotRows
  <2>4. r.stage = "slots"
    BY <2>3 DEF Row
  <2>5. QED
    BY <2>4
<1>8. \A ok \in BOOLEAN : ~Serial(ok)
  BY <1>1, <1>2, <1>5 DEF Serial
<1>9. \A ok \in BOOLEAN : ~Uplinks(ok)
  <2> SUFFICES ASSUME NEW ok \in BOOLEAN, Uplinks(ok) PROVE FALSE
    OBVIOUS
  <2>1. \/ Adds({Row("uplinks", Subject(Entry), "none", ok)})
        \/ Adds({Row("uplinks", "chirpstack", "none", FALSE)})
        \/ Adds({})
    BY DEF Uplinks
  <2>2. QED
    BY <1>1, <1>2, <2>1
<1>10. \A ok \in BOOLEAN : ~GetImage(ok)
  <2> SUFFICES ASSUME NEW ok \in BOOLEAN, GetImage(ok) PROVE FALSE
    OBVIOUS
  <2> DEFINE asked == TaskFw = "esphome" /\ TaskEntry.functional
             pin == asked /\ (TaskEntry.pin # "none" \/ LibBoards[TaskEntry.board].free)
             noPin == IF asked /\ ~pin THEN {TaskRow("functional", FALSE)} ELSE {}
  <2>1. Adds(noPin) \/ Adds(noPin \union {TaskRow("flash", FALSE)})
    BY DEF GetImage
  <2>2. r \in {TaskRow("functional", FALSE), TaskRow("flash", FALSE)}
    BY <1>1, <2>1
  <2>3. QED
    BY <1>3, <2>2
<1>11. ~Write
  BY <1>4, <1>5 DEF Write
<1>12. \A ok, written \in BOOLEAN : ~WriteEnds(ok, written)
  BY <1>1, <1>3, <1>4 DEF WriteEnds
<1>13. \A ok \in BOOLEAN : ~FindHost(ok) /\ ~VerifyApi(ok)
  BY <1>1, <1>3, <1>4, <1>5 DEF FindHost, VerifyApi
<1>14. \A far \in 0 .. 4 : ~FlashLorawan(far)
  <2> SUFFICES ASSUME NEW far \in 0 .. 4, FlashLorawan(far) PROVE FALSE
    OBVIOUS
  <2>1. r \in LoraRows(far)
    BY <1>1 DEF FlashLorawan
  <2>2. \A k \in 1 .. 4 : LoraStages[k] # "boot"
    BY DEF LoraStages
  <2>3. \E k \in 1 .. 4 : r = TaskRow(LoraStages[k], TRUE) \/ r = TaskRow(LoraStages[k], FALSE)
    <3>1. 1 .. far \subseteq 1 .. 4 /\ (far # 4 => far + 1 \in 1 .. 4)
      OBVIOUS
    <3>2. \/ \E k \in 1 .. far : r = TaskRow(LoraStages[k], TRUE)
          \/ far # 4 /\ r = TaskRow(LoraStages[far + 1], FALSE)
      BY <2>1 DEF LoraRows
    <3>3. QED
      BY <3>1, <3>2
  <2>4. QED
    BY <1>3, <2>2, <2>3
<1>15. ASSUME Boots PROVE r.ok
  <2>1. r = TaskRow("boot", TRUE)
    BY <1>1, <1>15 DEF Boots
  <2>2. QED
    BY <2>1, RowFields DEF TaskRow
<1>16. ~Bench
  BY <1>5 DEF Bench, Flaps, BootsUp, Settles, Replug, OthersFlash, Disturbed
<1>17. QED
  BY <1>5, <1>6, <1>7, <1>8, <1>9, <1>10, <1>11, <1>12, <1>13, <1>14, <1>15, <1>16
     DEF GateNext, GateStep, LoadConfig, SlotIsIdle, ResetForBoot, FromBuffer, Monitor, MonitorMisses, FromBufferAgain

\* The places at which MarkInv and QuietInv speak.
Waiting == {"buffer", "monitor", "again"}

\* Steps that leave those places, or never were there.
LEMMA Elsewhere ==
    ASSUME GateInv, GateNext, ~Within, ~(Bench /\ Outside)
    PROVE  gate'.pc \notin {"writing", "settle", "reset"} \union Waiting
<1>0. /\ GateShape /\ RosterInv /\ TaskInv /\ gate \in GateRecord
  BY DEF GateInv, GateShape
<1>1. ASSUME NEW p, Goes(p) PROVE gate'.pc = p
  BY <1>0, <1>1 DEF Goes, GateRecord
<1>2. ASSUME NextEntry PROVE gate'.pc = gate.pc
  BY <1>0, <1>2 DEF NextEntry, GateRecord
<1>3. ASSUME NextTask, gate.pc \in OnTask \union {"uplinks"} PROVE gate'.pc \in {"exit", "lora", "image"}
  BY <1>0, <1>3, NextTaskMoves DEF TaskInv
<1>4. CASE \E r \in Rosters, chirp \in BOOLEAN : LoadConfig(r, chirp)
  <2> PICK r \in Rosters, chirp \in BOOLEAN : LoadConfig(r, chirp)
    BY <1>4
  <2> DEFINE p == IF r = <<>> \/ \E i \in DOMAIN r : BadEntry(r[i]) THEN "exit2" ELSE "info"
  <2>1. gate' = [gate EXCEPT !.roster = r, !.chirp = chirp, !.pc = p] /\ p \in {"exit2", "info"}
    BY DEF LoadConfig
  <2> HIDE DEF p
  <2>2. gate'.pc = p
    BY <1>0, <2>1 DEF GateRecord
  <2>3. QED
    BY <2>1, <2>2 DEF Waiting
<1>5. CASE \E ok \in BOOLEAN : ListSlots(ok)
  <2>1. \/ Goes("exit")
        \/ gate' = [gate EXCEPT !.pc = "serial", !.listing = Listing, !.touched = {},
                                !.left = TasksOf(gate.roster, Listing)]
    BY <1>5 DEF ListSlots, Exits
  <2>2. gate'.pc \in {"exit", "serial"}
    BY <1>0, <1>1, <2>1 DEF GateRecord
  <2>3. QED
    BY <2>2 DEF Waiting
<1>6. CASE \E ok \in BOOLEAN : Info(ok) \/ Serial(ok)
  BY <1>1, <1>2, <1>6 DEF Info, Serial, Exits, Waiting
<1>7. CASE \E ok \in BOOLEAN : Uplinks(ok)
  BY <1>2, <1>3, <1>7 DEF Uplinks, Waiting
<1>8. CASE Ending
  BY <1>3, <1>8 DEF Ending, Waiting
<1>9. QED
  BY <1>4, <1>5, <1>6, <1>7, <1>8, StepKinds

\* What the bench does to the board and the markers of a slot nobody touches.
LEMMA BenchSpares ==
    ASSUME GateInv, Bench, NEW slot_ \in Places, slot_ \notin gate'.touched, seat[slot_].unit # Nobody
    PROVE  LET u == seat[slot_].unit IN
           /\ u \in Units /\ seat'[slot_].unit = u
           /\ fw'[u].image = fw[u].image /\ fw'[u].task = fw[u].task /\ (fw[u].ran => fw'[u].ran)
           /\ fw[u].image = "torn" => seat'[slot_].busy = seat[slot_].busy
           /\ seat'[slot_].busy => seat[slot_].busy
           /\ heard[slot_] \subseteq heard'[slot_]
           /\ \/ heard'[slot_] = heard[slot_] /\ (fw'[u].up => fw[u].up \/ seat[slot_].busy)
              \/ /\ fw'[u].ran
                 /\ heard'[slot_] = heard[slot_] \union {[says |-> fw[u].image, new |-> TRUE]}
<1> DEFINE u == seat[slot_].unit
<1>0. /\ seat \in SeatType /\ fw \in FwType /\ heard \in HeardType /\ gate \in GateRecord /\ UnitsApart
  BY DEF GateInv, GateShape, SeatType, FwType, HeardType
<1>1. u \in Units /\ u = seat[slot_].unit /\ u # Nobody
  BY <1>0 DEF SeatType
<1>2. \A t \in Places : seat[t].unit = u => t = slot_
  BY <1>0, <1>1 DEF UnitsApart
<1>3. ASSUME NEW T, Disturbed(T) PROVE gate'.touched = gate.touched \union T
  BY <1>0, <1>3 DEF Disturbed, GateRecord
<1> DEFINE Goal ==
           /\ u \in Units /\ seat'[slot_].unit = u
           /\ fw'[u].image = fw[u].image /\ fw'[u].task = fw[u].task /\ (fw[u].ran => fw'[u].ran)
           /\ fw[u].image = "torn" => seat'[slot_].busy = seat[slot_].busy
           /\ seat'[slot_].busy => seat[slot_].busy
           /\ heard[slot_] \subseteq heard'[slot_]
           /\ \/ heard'[slot_] = heard[slot_] /\ (fw'[u].up => fw[u].up \/ seat[slot_].busy)
              \/ /\ fw'[u].ran
                 /\ heard'[slot_] = heard[slot_] \union {[says |-> fw[u].image, new |-> TRUE]}
<1>4. Goal
  <2> HIDE DEF u
  <2>1. CASE \E s \in Places : Flaps(s)
    <3> PICK s \in Places : Flaps(s)
      BY <2>1
    <3>1. s # slot_ /\ seat' = [seat EXCEPT ![s].flaps = ~@] /\ UNCHANGED <<fw, heard>>
      BY <1>3 DEF Flaps
    <3>2. QED
      BY <1>0, <1>1, <3>1 DEF SeatType
  <2>2. CASE \E s \in Places : BootsUp(s)
    <3> PICK s \in Places : BootsUp(s)
      BY <2>2
    <3>1. fw' = [fw EXCEPT ![seat[s].unit].up = TRUE, ![seat[s].unit].ran = TRUE] /\ UNCHANGED seat
      BY DEF BootsUp
    <3>2. CASE s = slot_
      <4>1. fw'[u].up /\ fw'[u].ran /\ fw'[u].image = fw[u].image /\ fw'[u].task = fw[u].task
        BY <1>0, <1>1, <3>1, <3>2 DEF FwType
      <4>2. heard' = IF seat[slot_].busy THEN heard
                     ELSE [heard EXCEPT ![slot_] = @ \union {[says |-> fw[u].image, new |-> TRUE]}]
        BY <1>1, <3>2 DEF BootsUp
      <4>3. CASE seat[slot_].busy
        BY <1>1, <3>1, <4>1, <4>2, <4>3
      <4>4. CASE ~seat[slot_].busy
        BY <1>0, <1>1, <3>1, <4>1, <4>2, <4>4 DEF HeardType
      <4>5. QED
        BY <4>3, <4>4
    <3>3. CASE s # slot_
      <4>1. fw'[u] = fw[u]
        BY <1>0, <1>1, <1>2, <3>1, <3>3 DEF FwType
      <4>2. heard'[slot_] = heard[slot_]
        BY <1>0, <3>3 DEF BootsUp, HeardType
      <4>3. QED
        BY <1>1, <3>1, <4>1, <4>2
    <3>4. QED
      BY <3>2, <3>3
  <2>3. CASE \E s \in Places : Settles(s)
    <3> PICK s \in Places : Settles(s)
      BY <2>3
    <3>1. /\ seat' = [seat EXCEPT ![s].busy = FALSE] /\ fw[seat[s].unit].image # "torn"
          /\ UNCHANGED <<fw, heard>>
      BY DEF Settles
    <3>2. QED
      BY <1>0, <1>1, <3>1 DEF SeatType
  <2>4. CASE \E s \in Places, v \in Units : Replug(v, s)
    <3> PICK s \in Places, v \in Units : Replug(v, s)
      BY <2>4
    <3> DEFINE from == {t \in Places : seat[t].unit = v}
    <3>1. /\ seat' = [t \in Places |->
                    IF t = s /\ s \notin from THEN [unit |-> v, busy |-> FALSE, flaps |-> FALSE]
                    ELSE IF t \in from THEN [unit |-> Nobody, busy |-> FALSE, flaps |-> FALSE]
                    ELSE seat[t]]
          /\ fw' = [fw EXCEPT ![v].up = FALSE] /\ UNCHANGED heard
          /\ Disturbed(from \union {s})
      BY DEF Replug
    <3>2. slot_ # s /\ slot_ \notin from
      BY <1>3, <3>1
    <3>3. u # v
      BY <1>1, <3>2
    <3> HIDE DEF from
    <3>4. seat'[slot_] = seat[slot_]
      BY <3>1, <3>2
    <3>5. fw'[u] = fw[u]
      BY <1>0, <1>1, <3>1, <3>3 DEF FwType
    <3>6. QED
      BY <1>1, <3>1, <3>4, <3>5
  <2>5. CASE \E s \in Places : OthersFlash(s, "esphome")
    <3> PICK s \in Places : OthersFlash(s, "esphome")
      BY <2>5
    <3>1. /\ s # slot_
          /\ fw' = [fw EXCEPT ![seat[s].unit] = [image |-> "esphome", task |-> NoTask, up |-> FALSE, ran |-> FALSE]]
          /\ seat' = [seat EXCEPT ![s].busy = TRUE]
          /\ UNCHANGED heard
      BY <1>3 DEF OthersFlash
    <3>2. fw'[u] = fw[u] /\ seat'[slot_] = seat[slot_]
      BY <1>0, <1>1, <1>2, <3>1 DEF FwType, SeatType
    <3>3. QED
      BY <1>1, <3>1, <3>2
  <2>6. QED
    BY <2>1, <2>2, <2>3, <2>4, <2>5 DEF Bench
<1>5. QED
  BY <1>4

\* An untouched slot keeps the image of its task, and a new marker is a boot.
LEMMA MarkStep == GateInv /\ GateNext => MarkInv'
<1> SUFFICES ASSUME GateInv, GateNext PROVE MarkInv'
  OBVIOUS
<1>0. /\ seat \in SeatType /\ fw \in FwType /\ heard \in HeardType /\ gate \in GateRecord
      /\ MarkInv /\ TaskInv /\ Nobody \notin Units
  BY BenchAssumption DEF GateInv, GateShape, SeatType, FwType, HeardType
<1>1. CASE gate'.pc \notin {"writing", "settle", "reset"} \union Waiting
  BY <1>1 DEF MarkInv, Waiting
<1>2. CASE Bench /\ Outside
  <2>1. /\ UNCHANGED <<gate.pc, gate.roster, gate.task, gate.unit>> /\ gate.touched \subseteq gate'.touched
    BY <1>2 DEF Outside
  <2>2. TaskSlot' = TaskSlot /\ TaskFw' = TaskFw
    BY <2>1 DEF TaskSlot, TaskEntry, TaskFw, Framework
  <2>3. CASE TaskSlot \in gate'.touched
    BY <1>0, <2>1, <2>2, <2>3 DEF MarkInv
  <2>4. CASE TaskSlot \notin gate'.touched /\ gate.pc \in {"writing", "settle", "reset"} \union Waiting
    <3> DEFINE u == seat[TaskSlot].unit
    <3>1. TaskSlot \in Places /\ TaskSlot \notin gate.touched
      BY <1>0, <2>1, <2>4 DEF TaskInv, OnTask, Checking, Waiting
    <3>2. u # Nobody
      BY <1>0, <2>4, <3>1 DEF MarkInv, ImageStands, Waiting
    <3>3. /\ u \in Units /\ seat'[TaskSlot].unit = u
          /\ fw'[u].image = fw[u].image /\ fw'[u].task = fw[u].task /\ (fw[u].ran => fw'[u].ran)
          /\ fw[u].image = "torn" => seat'[TaskSlot].busy = seat[TaskSlot].busy
          /\ \/ heard'[TaskSlot] = heard[TaskSlot]
             \/ fw'[u].ran
      BY <1>2, <2>4, <3>1, <3>2, BenchSpares
    <3>4. gate.pc \in {"reset"} \union Waiting /\ Marked' => fw'[u].ran
      BY <1>0, <2>2, <3>1, <3>3 DEF MarkInv, Marked, Waiting
    <3>5. gate.pc \in {"settle", "reset"} \union Waiting => ImageStands'
      BY <1>0, <2>1, <2>2, <3>1, <3>2, <3>3 DEF MarkInv, ImageStands, Waiting
    <3>6. gate.pc = "writing" =>
             /\ seat'[TaskSlot].unit = gate.unit /\ seat'[TaskSlot].busy
             /\ fw'[gate.unit].image = "torn" /\ fw'[gate.unit].task = gate.task
      BY <1>0, <3>1, <3>3 DEF MarkInv
    <3> HIDE DEF u
    <3>7. QED
      BY <1>0, <2>1, <2>2, <3>3, <3>4, <3>5, <3>6 DEF MarkInv, Waiting
  <2>5. QED
    BY <1>1, <2>1, <2>3, <2>4
<1>3. CASE Within
  <2>1. /\ UNCHANGED <<gate.roster, gate.task, gate.touched>>
        /\ gate.pc \in OnTask \ {"lora"} /\ gate'.pc \in OnTask \ {"lora"}
    BY <1>3 DEF Within
  <2>2. /\ TaskSlot' = TaskSlot /\ TaskFw' = TaskFw /\ TaskSlot \in Places /\ TaskFw \in FRAMEWORKS
    BY <1>0, <2>1 DEF TaskInv, TaskSlot, TaskEntry, TaskFw, Framework
  <2>3. CASE Write
    <3>1. CanFlash(TaskSlot) \/ NextTask
      BY <2>3 DEF Write, TaskFails
    <3>2. CASE ~CanFlash(TaskSlot)
      BY <1>1, <2>1, <2>3, <3>1, <3>2, NextTaskMoves DEF Write, OnTask, Waiting, GateInv, TaskInv
    <3>3. CASE CanFlash(TaskSlot)
      <4> DEFINE u == seat[TaskSlot].unit
      <4>1. u \in Units
        BY <1>0, <2>2, <3>3 DEF CanFlash, SeatType
      <4>2. /\ gate' = [gate EXCEPT !.pc = "writing", !.unit = u]
            /\ seat' = [seat EXCEPT ![TaskSlot].busy = TRUE]
            /\ fw' = [fw EXCEPT ![u] = [image |-> "torn", task |-> gate.task, up |-> FALSE, ran |-> FALSE]]
        BY <2>3, <3>3 DEF Write
      <4>3. gate'.pc = "writing" /\ gate'.unit = u
        BY <1>0, <4>2 DEF GateRecord
      <4>4. seat'[TaskSlot].unit = u /\ seat'[TaskSlot].busy
        BY <1>0, <2>2, <4>2 DEF SeatType
      <4>5. fw'[u].image = "torn" /\ fw'[u].task = gate.task
        BY <1>0, <4>1, <4>2 DEF FwType
      <4> HIDE DEF u
      <4>6. QED
        BY <2>1, <2>2, <4>1, <4>3, <4>4, <4>5 DEF MarkInv
    <3>4. QED
      BY <3>2, <3>3
  <2>4. CASE \E ok, written \in BOOLEAN : WriteEnds(ok, written)
    <3> PICK ok \in BOOLEAN, written \in BOOLEAN : WriteEnds(ok, written)
      BY <2>4
    <3>1. CASE ~ok
      BY <1>1, <2>1, <3>1, NextTaskMoves DEF WriteEnds, TaskFails, OnTask, Waiting, GateInv, TaskInv
    <3>2. CASE ok
      <4>1. /\ gate.pc = "writing" /\ gate' = [gate EXCEPT !.pc = "settle"]
            /\ fw' = [fw EXCEPT ![gate.unit].image = TaskFw] /\ seat' = seat
            /\ seat[TaskSlot].unit = gate.unit
        BY <3>2 DEF WriteEnds
      <4>2. gate'.pc = "settle"
        BY <1>0, <4>1 DEF GateRecord
      <4>3. gate.unit \in Units
        BY <1>0, <4>1 DEF MarkInv
      <4>4. fw'[gate.unit].image = TaskFw /\ fw'[gate.unit].task = fw[gate.unit].task
        BY <1>0, <4>1, <4>3 DEF FwType
      <4>5. TaskSlot \notin gate.touched => fw[gate.unit].task = gate.task
        BY <1>0, <4>1 DEF MarkInv
      <4>6. TaskSlot \notin gate.touched => ImageStands'
        BY <1>0, <2>1, <2>2, <4>1, <4>3, <4>4, <4>5 DEF ImageStands
      <4>7. QED
        BY <2>1, <2>2, <4>2, <4>6 DEF MarkInv
    <3>3. QED
      BY <3>1, <3>2
  <2>5. CASE SlotIsIdle
    <3>1. /\ gate.pc = "settle" /\ gate' = [gate EXCEPT !.pc = "reset"]
          /\ heard' = [heard EXCEPT ![TaskSlot] = {[m EXCEPT !.new = FALSE] : m \in @}]
          /\ UNCHANGED <<seat, fw>>
      BY <2>5 DEF SlotIsIdle
    <3>2. gate'.pc = "reset"
      BY <1>0, <3>1 DEF GateRecord
    <3>3. ~Marked'
      <4>1. \A m \in heard'[TaskSlot] : ~m.new
        BY <1>0, <2>2, <3>1 DEF HeardType
      <4>2. QED
        BY <2>2, <4>1 DEF Marked
    <3>4. TaskSlot \notin gate.touched => ImageStands'
      BY <1>0, <2>1, <2>2, <3>1 DEF ImageStands, MarkInv
    <3>5. QED
      BY <2>1, <2>2, <3>2, <3>3, <3>4 DEF MarkInv
  <2>5a. CASE ResetForBoot
    <3> DEFINE u == seat[TaskSlot].unit
    <3>1. /\ gate.pc = "reset" /\ gate' = [gate EXCEPT !.pc = "buffer"] /\ u # Nobody
          /\ fw' = [fw EXCEPT ![u].up = FALSE] /\ UNCHANGED <<seat, heard>>
      BY <2>5a DEF ResetForBoot
    <3>2. gate'.pc = "buffer" /\ u \in Units
      BY <1>0, <2>2, <3>1 DEF GateRecord, SeatType
    <3>3. /\ fw'[u].image = fw[u].image /\ fw'[u].task = fw[u].task /\ fw'[u].ran = fw[u].ran
          /\ seat'[TaskSlot].unit = u
      BY <1>0, <3>1, <3>2 DEF FwType
    <3>4. TaskSlot \notin gate.touched => ImageStands'
      BY <1>0, <2>1, <2>2, <3>1, <3>2, <3>3 DEF ImageStands, MarkInv
    <3>5. Marked' = Marked
      BY <2>2, <3>1 DEF Marked
    <3>6. TaskSlot \notin gate.touched /\ Marked' => fw'[u].ran
      BY <1>0, <3>1, <3>3, <3>5 DEF MarkInv
    <3> HIDE DEF u
    <3>7. QED
      BY <2>1, <2>2, <3>2, <3>3, <3>4, <3>6 DEF MarkInv
  <2>6. CASE FromBuffer \/ Monitor \/ MonitorMisses \/ FromBufferAgain
    <3>1. gate.pc \in Waiting
      BY <2>6 DEF FromBuffer, Monitor, MonitorMisses, FromBufferAgain, Waiting
    <3>2. \/ gate' = [gate EXCEPT !.pc = "ip"] \/ NextTask
          \/ /\ \E p \in Waiting : gate' = [gate EXCEPT !.pc = p]
             /\ UNCHANGED <<seat, fw, heard>>
      BY <2>6 DEF FromBuffer, Monitor, MonitorMisses, FromBufferAgain, Boots, TaskFails, Waiting
    <3>3. CASE gate' = [gate EXCEPT !.pc = "ip"]
      BY <1>0, <1>1, <3>3 DEF GateRecord, Waiting
    <3>4. CASE NextTask
      BY <1>1, <3>1, <3>4, NextTaskMoves DEF OnTask, Checking, Waiting, GateInv, TaskInv
    <3>5. CASE /\ \E p \in Waiting : gate' = [gate EXCEPT !.pc = p]
               /\ UNCHANGED <<seat, fw, heard>>
      <4>1. gate'.pc \in Waiting
        BY <1>0, <3>5 DEF GateRecord
      <4>2. Marked' = Marked /\ ImageStands' = ImageStands
        BY <2>1, <2>2, <3>5 DEF Marked, ImageStands
      <4>3. QED
        BY <1>0, <2>1, <2>2, <3>1, <3>5, <4>1, <4>2 DEF MarkInv, Waiting
    <3>6. QED
      BY <3>2, <3>3, <3>4, <3>5
  <2>7. CASE \E ok \in BOOLEAN : GetImage(ok) \/ FindHost(ok) \/ VerifyApi(ok)
    <3> PICK ok \in BOOLEAN : GetImage(ok) \/ FindHost(ok) \/ VerifyApi(ok)
      BY <2>7
    <3> DEFINE asked == TaskFw = "esphome" /\ TaskEntry.functional
               pin == asked /\ (TaskEntry.pin # "none" \/ LibBoards[TaskEntry.board].free)
    <3>1. \/ gate' = [gate EXCEPT !.pc = "write", !.pin = pin]
          \/ gate' = [gate EXCEPT !.pc = "verify"]
          \/ NextTask
      BY DEF GetImage, FindHost, VerifyApi, TaskFails
    <3> HIDE DEF pin
    <3>2. gate'.pc \in {"write", "verify", "exit", "lora", "image"}
      BY <1>0, <2>1, <3>1, NextTaskMoves DEF GateRecord, GateInv, TaskInv
    <3>3. QED
      BY <1>1, <3>2 DEF Waiting
  <2>8. CASE SettleTimesOut \/ BootCheckRaises \/ \E far \in 0 .. 4 : FlashLorawan(far)
    BY <1>1, <2>1, <2>8, NextTaskMoves DEF SettleTimesOut, BootCheckRaises, FlashLorawan, TaskFails, Waiting,
       GateInv, TaskInv
  <2>9. CASE Bench
    <3>1. Outside
      <4>1. ASSUME NEW T, Disturbed(T) PROVE Outside
        BY <1>0, <4>1 DEF Disturbed, GateRecord, Outside, GateInv, GateShape
      <4>2. CASE UNCHANGED <<gate, rows, upsets>> /\ Running
        BY <4>2 DEF Outside
      <4>3. QED
        BY <2>9, <4>1, <4>2 DEF Bench, Flaps, BootsUp, Settles, Replug, OthersFlash
    <3>2. QED
      BY <1>2, <2>9, <3>1
  <2>10. QED
    BY <2>1, <2>3, <2>4, <2>5, <2>5a, <2>6, <2>7, <2>8, <2>9
       DEF GateNext, GateStep, LoadConfig, Info, ListSlots, Serial, Uplinks, OnTask, Checking
<1>4. QED
  BY <1>1, <1>2, <1>3, Elsewhere, StepKinds DEF Waiting

\* The counters only grow: while they are 0 nothing has happened.
LEMMA CountsGrow ==
    ASSUME GateInv, GateNext
    PROVE  (upsets' = 0 => upsets = 0) /\ (misses' = 0 => misses = 0)
<1>0. upsets \in Nat /\ misses \in Nat
  BY GateBounds DEF GateInv, GateShape
<1>1. CASE Bench
  <2>1. ASSUME NEW T, Disturbed(T) PROVE (upsets' = 0 => upsets = 0) /\ (misses' = 0 => misses = 0)
    BY <1>0, <2>1 DEF Disturbed
  <2>2. QED
    BY <1>0, <1>1, <2>1 DEF Bench, Flaps, BootsUp, Settles, Replug, OthersFlash
<1>2. CASE GateStep
  <2>1. UNCHANGED upsets
    BY <1>2 DEF GateStep, LoadConfig, Info, ListSlots, Serial, Uplinks, GetImage, FindHost, VerifyApi, Write,
       WriteEnds, SlotIsIdle, ResetForBoot, SettleTimesOut, FromBuffer, Monitor, MonitorMisses, FromBufferAgain,
       BootCheckRaises, FlashLorawan, Boots
  <2>2. UNCHANGED misses \/ \E ok \in BOOLEAN : Misses(ok)
    BY <1>2 DEF GateStep, LoadConfig, Info, ListSlots, Serial, Uplinks, GetImage, FindHost, VerifyApi, Write,
       WriteEnds, SlotIsIdle, ResetForBoot, SettleTimesOut, FromBuffer, Monitor, MonitorMisses, FromBufferAgain,
       BootCheckRaises, FlashLorawan, Boots
  <2>3. QED
    BY <1>0, <2>1, <2>2 DEF Misses
<1>3. QED
  BY <1>1, <1>2 DEF GateNext

\* On a bench nobody touches only boards come up and slots settle.
LEMMA BenchQuiet ==
    ASSUME GateInv, Bench, upsets' = 0
    PROVE  /\ UNCHANGED <<gate, rows, misses>>
           /\ \A s \in Places : seat'[s].flaps = seat[s].flaps
<1>0. upsets \in Nat /\ seat \in SeatType
  BY GateBounds DEF GateInv, GateShape, SeatType
<1>1. ASSUME NEW T, Disturbed(T) PROVE FALSE
  BY <1>0, <1>1 DEF Disturbed
<1>2. \E s \in Places : BootsUp(s) \/ Settles(s)
  BY <1>1 DEF Bench, Flaps, Replug, OthersFlash
<1>3. QED
  BY <1>0, <1>2 DEF BootsUp, Settles, SeatType

\* The gate itself makes no link flap and forgets what was touched only at the listing.
LEMMA GateQuiet ==
    ASSUME GateInv, GateStep, gate.touched = {}
    PROVE  /\ gate'.touched = {}
           /\ \A s \in Places : seat'[s].flaps = seat[s].flaps
<1>0. gate \in GateRecord /\ seat \in SeatType /\ GateShape /\ RosterInv /\ TaskInv
  BY DEF GateInv, GateShape, SeatType
<1>1. \A s \in Places : seat'[s].flaps = seat[s].flaps
  <2>1. \/ UNCHANGED seat
        \/ \E s : \E b \in BOOLEAN : seat' = [seat EXCEPT ![s].busy = b]
    BY DEF GateStep, LoadConfig, Info, ListSlots, Serial, Uplinks, GetImage, FindHost, VerifyApi, Write,
       WriteEnds, SlotIsIdle, ResetForBoot, SettleTimesOut, FromBuffer, Monitor, MonitorMisses, FromBufferAgain,
       BootCheckRaises, FlashLorawan, Boots
  <2>2. QED
    BY <1>0, <2>1 DEF SeatType
<1>2. ASSUME NEW p, Goes(p) PROVE gate'.touched = {}
  BY <1>0, <1>2 DEF Goes, GateRecord
<1>3. ASSUME NextEntry PROVE gate'.touched = {}
  BY <1>0, <1>3 DEF NextEntry, GateRecord
<1>4. ASSUME NextTask, gate.pc \in OnTask \union {"uplinks"} PROVE gate'.touched = {}
  BY <1>0, <1>4, NextTaskMoves DEF TaskInv
<1>5. CASE \E r \in Rosters, chirp \in BOOLEAN : LoadConfig(r, chirp)
  BY <1>0, <1>5 DEF LoadConfig, GateRecord
<1>6. CASE \E ok \in BOOLEAN : Info(ok) \/ Serial(ok)
  BY <1>2, <1>3, <1>6 DEF Info, Serial, Exits
<1>7. CASE \E ok \in BOOLEAN : ListSlots(ok)
  BY <1>0, <1>2, <1>7 DEF ListSlots, Exits, GateRecord
<1>8. CASE \E ok \in BOOLEAN : Uplinks(ok)
  BY <1>3, <1>4, <1>8 DEF Uplinks
<1>9. CASE Ending
  BY <1>1, <1>4, <1>9 DEF Ending
<1>10. CASE Within
  BY <1>1, <1>10 DEF Within
<1>11. CASE Bench /\ Outside
  <2>1. UNCHANGED upsets
    BY DEF GateStep, LoadConfig, Info, ListSlots, Serial, Uplinks, GetImage, FindHost, VerifyApi, Write,
       WriteEnds, SlotIsIdle, ResetForBoot, SettleTimesOut, FromBuffer, Monitor, MonitorMisses, FromBufferAgain,
       BootCheckRaises, FlashLorawan, Boots
  <2>2. ASSUME NEW T, Disturbed(T) PROVE FALSE
    BY <2>1, <2>2, GateBounds DEF Disturbed, GateInv, GateShape
  <2>3. QED
    BY <1>1, <1>11, <2>2 DEF Bench, Flaps, BootsUp, Settles, Replug, OthersFlash
<1>12. QED
  BY <1>5, <1>6, <1>7, <1>8, <1>9, <1>10, <1>11, StepKinds DEF GateNext

\* On a healthy bench the marker is there or on its way, and no boot check fails.
LEMMA QuietStep == GateInv /\ GateNext => QuietInv'
<1> SUFFICES ASSUME GateInv, GateNext, upsets' = 0
             PROVE  (/\ gate.touched = {}
                     /\ \A s \in Places : ~seat[s].flaps
                     /\ misses = 0 =>
                           /\ gate.pc = "reset" => ~seat[TaskSlot].busy
                           /\ gate.pc \in Waiting =>
                                 Marked \/ (~fw[seat[TaskSlot].unit].up /\ ~seat[TaskSlot].busy)
                           /\ gate.pc = "again" => Marked
                           /\ \A r \in Failed : r.stage # "boot")'
  BY DEF QuietInv, Waiting
<1>0. /\ seat \in SeatType /\ fw \in FwType /\ heard \in HeardType /\ gate \in GateRecord
      /\ MarkInv /\ TaskInv /\ misses \in 0 .. MaxMisses
  BY DEF GateInv, GateShape, SeatType, FwType, HeardType
<1>1. /\ gate.touched = {} /\ \A s \in Places : ~seat[s].flaps
      /\ misses' = 0 =>
            /\ misses = 0
            /\ gate.pc = "reset" => ~seat[TaskSlot].busy
            /\ gate.pc \in Waiting => Marked \/ (~fw[seat[TaskSlot].unit].up /\ ~seat[TaskSlot].busy)
            /\ gate.pc = "again" => Marked
            /\ \A r \in Failed : r.stage # "boot"
  BY CountsGrow DEF GateInv, QuietInv, Waiting
<1>2. gate'.touched = {} /\ \A s \in Places : ~seat'[s].flaps
  BY <1>1, BenchQuiet, GateQuiet DEF GateNext
<1>3. ASSUME gate.pc \in {"settle", "reset"} \union Waiting
      PROVE  TaskSlot \in Places /\ TaskFw \in FRAMEWORKS /\ ImageStands
  BY <1>0, <1>1, <1>3 DEF MarkInv, TaskInv, Waiting, OnTask, Checking
<1>4. ASSUME Misses(FALSE), misses' = 0 PROVE FALSE
  BY <1>0, <1>4, MissesCount
<1>5. ASSUME misses' = 0, NEW r \in Failed' PROVE r.stage # "boot"
  <2> SUFFICES ASSUME r.stage = "boot" PROVE FALSE
    OBVIOUS
  <2>1. r \in rows' \ rows /\ ~r.ok
    BY <1>1, <1>5 DEF Failed
  <2>2. ~SettleTimesOut
    BY <1>1, <1>3, <1>4, <1>5 DEF SettleTimesOut, CanFlash, ImageStands
  <2>3. ~(FromBufferAgain /\ ~Marked)
    BY <1>1, <1>5 DEF FromBufferAgain
  <2>4. ~BootCheckRaises
    BY <1>1, <1>3, <1>4, <1>5 DEF BootCheckRaises, CanFlash, ImageStands
  <2>5. QED
    BY <2>1, <2>2, <2>3, <2>4, BootRows
<1>6. ASSUME misses' = 0, gate'.pc \in Waiting
      PROVE  /\ Marked' \/ (~fw'[seat'[TaskSlot'].unit].up /\ ~seat'[TaskSlot'].busy)
             /\ gate'.pc = "again" => Marked'
  <2>1. CASE Bench
    <3>1. UNCHANGED gate
      BY <2>1, BenchQuiet
    <3>2. TaskSlot' = TaskSlot /\ TaskFw' = TaskFw
      BY <3>1 DEF TaskSlot, TaskEntry, TaskFw, Framework
    <3> DEFINE u == seat[TaskSlot].unit
    <3>3. TaskSlot \in Places /\ u # Nobody /\ fw[u].image = TaskFw
      BY <1>3, <1>6, <3>1 DEF ImageStands
    <3>4. /\ seat'[TaskSlot].unit = u
          /\ seat'[TaskSlot].busy => seat[TaskSlot].busy
          /\ heard[TaskSlot] \subseteq heard'[TaskSlot]
          /\ \/ heard'[TaskSlot] = heard[TaskSlot] /\ (fw'[u].up => fw[u].up \/ seat[TaskSlot].busy)
             \/ heard'[TaskSlot] = heard[TaskSlot] \union {[says |-> fw[u].image, new |-> TRUE]}
      BY <1>2, <2>1, <3>3, BenchSpares
    <3>5. Marked => Marked'
      BY <3>2, <3>4 DEF Marked
    <3>6. [says |-> TaskFw, new |-> TRUE] \in heard'[TaskSlot] => Marked'
      BY <3>2 DEF Marked
    <3> HIDE DEF u
    <3>7. CASE Marked
      BY <3>5, <3>7
    <3>8. CASE ~Marked
      <4>1. ~fw[u].up /\ ~seat[TaskSlot].busy /\ gate.pc # "again"
        BY <1>1, <1>6, <3>1, <3>8 DEF u
      <4>2. QED
        BY <3>1, <3>2, <3>3, <3>4, <3>6, <4>1
    <3>9. QED
      BY <3>7, <3>8
  <2>2. CASE ResetForBoot
    <3> DEFINE u == seat[TaskSlot].unit
    <3>1. /\ gate.pc = "reset" /\ gate' = [gate EXCEPT !.pc = "buffer"] /\ u # Nobody
          /\ fw' = [fw EXCEPT ![u].up = FALSE] /\ seat' = seat
      BY <2>2 DEF ResetForBoot
    <3>2. gate'.pc = "buffer" /\ UNCHANGED <<gate.roster, gate.task>>
      BY <1>0, <3>1 DEF GateRecord
    <3>3. TaskSlot' = TaskSlot
      BY <3>2 DEF TaskSlot, TaskEntry
    <3>4. u \in Units /\ ~seat[TaskSlot].busy
      BY <1>0, <1>1, <1>3, <1>6, <3>1 DEF SeatType
    <3>5. ~fw'[u].up
      BY <1>0, <3>1, <3>4 DEF FwType
    <3>6. QED
      BY <3>1, <3>2, <3>3, <3>4, <3>5
  <2>3. CASE FromBuffer \/ Monitor \/ MonitorMisses \/ FromBufferAgain
    <3>1. gate.pc \in Waiting
      BY <2>3 DEF FromBuffer, Monitor, MonitorMisses, FromBufferAgain, Waiting
    <3>2. ASSUME Boots \/ TaskFails("boot") PROVE FALSE
      <4>1. gate' = [gate EXCEPT !.pc = "ip"] \/ NextTask
        BY <3>2 DEF Boots, TaskFails
      <4>2. gate'.pc \in {"ip", "exit", "lora", "image"}
        BY <1>0, <3>1, <4>1, NextTaskMoves DEF GateRecord, OnTask, Checking, Waiting, GateInv, TaskInv
      <4>3. QED
        BY <1>6, <4>2 DEF Waiting
    <3>3. CASE FromBuffer
      <4>1. gate' = [gate EXCEPT !.pc = "monitor"] /\ UNCHANGED <<seat, fw, heard>>
        BY <3>2, <3>3 DEF FromBuffer
      <4>2. gate'.pc = "monitor" /\ UNCHANGED <<gate.roster, gate.task>>
        BY <1>0, <4>1 DEF GateRecord
      <4>3. TaskSlot' = TaskSlot /\ Marked' = Marked
        BY <4>1, <4>2 DEF TaskSlot, TaskEntry, TaskFw, Framework, Marked
      <4>4. QED
        BY <1>1, <1>6, <3>1, <4>1, <4>2, <4>3
    <3>4. CASE MonitorMisses
      <4>1. gate' = [gate EXCEPT !.pc = "again"] /\ UNCHANGED <<seat, fw, heard>>
        BY <3>4 DEF MonitorMisses
      <4>2. UNCHANGED <<gate.roster, gate.task>>
        BY <1>0, <4>1 DEF GateRecord
      <4>3. TaskSlot' = TaskSlot /\ Marked' = Marked
        BY <4>1, <4>2 DEF TaskSlot, TaskEntry, TaskFw, Framework, Marked
      <4>4. Marked
        BY <1>1, <1>3, <1>4, <1>6, <3>1, <3>4 DEF MonitorMisses, ImageStands
      <4>5. QED
        BY <4>3, <4>4
    <3>5. QED
      BY <2>3, <3>2, <3>3, <3>4 DEF Monitor, FromBufferAgain
  <2>4. CASE Within /\ GateStep /\ ~ResetForBoot /\ ~(FromBuffer \/ Monitor \/ MonitorMisses \/ FromBufferAgain)
    <3>1. gate.pc \in OnTask \ {"lora"}
      BY <2>4 DEF Within
    <3>2. ASSUME NextTask PROVE FALSE
      <4>1. gate'.pc \in {"exit", "lora", "image"}
        BY <1>0, <3>1, <3>2, NextTaskMoves DEF GateInv, TaskInv
      <4>2. QED
        BY <1>6, <4>1 DEF Waiting
    <3>3. ASSUME NEW p \in {"settle", "reset", "verify"}, gate' = [gate EXCEPT !.pc = p] PROVE FALSE
      BY <1>0, <1>6, <3>3 DEF GateRecord, Waiting
    <3>4. ASSUME NEW ok \in BOOLEAN, GetImage(ok) PROVE FALSE
      <4> DEFINE asked == TaskFw = "esphome" /\ TaskEntry.functional
                 pin == asked /\ (TaskEntry.pin # "none" \/ LibBoards[TaskEntry.board].free)
      <4>1. gate' = [gate EXCEPT !.pc = "write", !.pin = pin]
        BY <3>2, <3>4 DEF GetImage
      <4> HIDE DEF pin
      <4>2. gate'.pc = "write"
        BY <1>0, <4>1 DEF GateRecord
      <4>3. QED
        BY <1>6, <4>2 DEF Waiting
    <3>5. ~Write
      <4> SUFFICES ASSUME Write PROVE FALSE
        OBVIOUS
      <4>1. gate' = [gate EXCEPT !.pc = "writing", !.unit = seat[TaskSlot].unit]
        BY <3>2 DEF Write, TaskFails
      <4>2. gate'.pc = "writing"
        BY <1>0, <4>1 DEF GateRecord
      <4>3. QED
        BY <1>6, <4>2 DEF Waiting
    <3>6. QED
      BY <2>4, <3>1, <3>2, <3>3, <3>4, <3>5
         DEF GateStep, LoadConfig, Info, ListSlots, Serial, Uplinks, FindHost, VerifyApi, WriteEnds,
             SlotIsIdle, SettleTimesOut, BootCheckRaises, FlashLorawan, TaskFails, OnTask, Checking
  <2>5. Within \/ Bench
    BY <1>6, Elsewhere
  <2>6. QED
    BY <2>1, <2>2, <2>3, <2>4, <2>5 DEF GateNext
<1>7. ASSUME misses' = 0, gate'.pc = "reset" PROVE ~seat'[TaskSlot'].busy
  <2>1. CASE Bench
    <3>1. UNCHANGED gate
      BY <2>1, BenchQuiet
    <3>2. TaskSlot' = TaskSlot
      BY <3>1 DEF TaskSlot, TaskEntry
    <3>3. TaskSlot \in Places /\ seat[TaskSlot].unit # Nobody /\ TaskSlot \notin gate'.touched
      BY <1>2, <1>3, <1>7, <3>1 DEF ImageStands
    <3>4. seat'[TaskSlot].busy => seat[TaskSlot].busy
      BY <2>1, <3>3, BenchSpares
    <3>5. QED
      BY <1>1, <1>7, <3>1, <3>2, <3>4
  <2>2. CASE SlotIsIdle
    <3>1. gate' = [gate EXCEPT !.pc = "reset"] /\ seat' = seat /\ ~seat[TaskSlot].busy
      BY <2>2 DEF SlotIsIdle, CanFlash
    <3>2. UNCHANGED <<gate.roster, gate.task>>
      BY <1>0, <3>1 DEF GateRecord
    <3>3. TaskSlot' = TaskSlot
      BY <3>2 DEF TaskSlot, TaskEntry
    <3>4. QED
      BY <3>1, <3>3
  <2>3. CASE Within /\ GateStep /\ ~SlotIsIdle
    <3>1. gate.pc \in OnTask \ {"lora"}
      BY <2>3 DEF Within
    <3>2. ASSUME NextTask PROVE FALSE
      <4>1. gate'.pc \in {"exit", "lora", "image"}
        BY <1>0, <3>1, <3>2, NextTaskMoves DEF GateInv, TaskInv
      <4>2. QED
        BY <1>7, <4>1
    <3>3. ASSUME NEW p \in {"settle", "buffer", "monitor", "again", "ip", "verify"},
                 gate' = [gate EXCEPT !.pc = p]
          PROVE  FALSE
      BY <1>0, <1>7, <3>3 DEF GateRecord
    <3>4. ASSUME NEW pin, gate' = [gate EXCEPT !.pc = "write", !.pin = pin] PROVE FALSE
      BY <1>0, <1>7, <3>4 DEF GateRecord
    <3>5. ASSUME NEW u, gate' = [gate EXCEPT !.pc = "writing", !.unit = u] PROVE FALSE
      BY <1>0, <1>7, <3>5 DEF GateRecord
    <3>6. \A ok \in BOOLEAN : ~GetImage(ok)
      BY <3>2, <3>4 DEF GetImage
    <3>7. ~Write /\ ~FromBuffer /\ ~Monitor /\ ~MonitorMisses /\ ~FromBufferAgain
      BY <3>2, <3>3, <3>5 DEF Write, FromBuffer, Monitor, MonitorMisses, FromBufferAgain, Boots, TaskFails
    <3>8. QED
      BY <2>3, <3>1, <3>2, <3>3, <3>6, <3>7
         DEF GateStep, LoadConfig, Info, ListSlots, Serial, Uplinks, FindHost, VerifyApi, WriteEnds,
             ResetForBoot, SettleTimesOut, BootCheckRaises, FlashLorawan, TaskFails, OnTask, Checking
  <2>4. Within \/ Bench
    BY <1>7, Elsewhere
  <2>5. QED
    BY <2>1, <2>2, <2>3, <2>4 DEF GateNext
<1>8. QED
  BY <1>2, <1>5, <1>6, <1>7 DEF Waiting

\* The gate starts right.
LEMMA GateStarts == GateInit => GateInv
<1> SUFFICES ASSUME GateInit PROVE GateInv
  OBVIOUS
<1>1. NoTask \in Tasks /\ <<>> \in Seq(Entries)
  BY DEF NoTask, Tasks
<1>2. /\ gate \in GateRecord /\ gate.pc \in {"off", "load"}
      /\ gate.task = NoTask /\ gate.left = {} /\ gate.touched = {}
  <2>1. AtRest \in GateRecord /\ AtRest.pc = "load"
        /\ AtRest.task = NoTask /\ AtRest.left = {} /\ AtRest.touched = {}
    BY <1>1 DEF AtRest, GateRecord, GatePCs
  <2>2. gate = AtRest \/ gate = [AtRest EXCEPT !.pc = "off"]
    BY DEF GateInit
  <2>3. [AtRest EXCEPT !.pc = "off"] \in GateRecord
    BY <2>1 DEF GateRecord, GatePCs
  <2>4. QED
    BY <2>1, <2>2, <2>3 DEF GateRecord
<1>3. fw \in [Units -> [image : Marks, task : Tasks, up : BOOLEAN, ran : BOOLEAN]]
  <2>1. \A v \in [image : {"esphome"}, task : {NoTask}, up : {TRUE}, ran : {TRUE}] :
          v \in [image : Marks, task : Tasks, up : BOOLEAN, ran : BOOLEAN]
    BY <1>1 DEF Marks, FRAMEWORKS
  <2>2. QED
    BY <2>1 DEF GateInit
<1>4. GateShape
  <2>1. seat \in [Places -> [unit : Units \union {Nobody}, busy : BOOLEAN, flaps : BOOLEAN]]
    BY BenchAssumption DEF GateInit
  <2>2. heard \in [Places -> SUBSET [says : Marks, new : BOOLEAN]]
    BY DEF GateInit, Marks, FRAMEWORKS
  <2>3. QED
    BY <1>2, <1>3, <2>1, <2>2, GateBounds DEF GateInit, GateShape
<1>5. RosterInv /\ TaskInv
  BY <1>2 DEF RosterInv, TaskInv, OnTask, Checking
<1>6. UnitsApart
  BY BenchAssumption DEF GateInit, UnitsApart
<1>7. CompleteInv
  BY <1>2 DEF CompleteInv, ListInv, StageInv, TaskRowsInv, OnTask, Checking
<1>8. MarkInv
  BY <1>2 DEF MarkInv
<1>9. QuietInv
  <2>1. Failed = {} /\ \A s \in Places : ~seat[s].flaps
    BY DEF GateInit, Failed
  <2>2. QED
    BY <1>2, <2>1 DEF QuietInv
<1>10. QED
  BY <1>4, <1>5, <1>6, <1>7, <1>8, <1>9 DEF GateInv

\* Every step keeps the invariant; so does a step of something else.
LEMMA GateKeeps == GateInv /\ [GateNext]_gateVars => GateInv'
<1>1. GateInv /\ GateNext => GateInv'
  BY ShapeStep, RosterStep, TaskStep, UnitsStep, CompleteStep, MarkStep, QuietStep DEF GateInv
<1>2. GateInv /\ UNCHANGED gateVars => GateInv'
  <2> SUFFICES ASSUME GateInv, UNCHANGED gateVars PROVE GateInv'
    OBVIOUS
  <2>1. UNCHANGED <<gate, rows, seat, fw, heard, upsets, misses>>
    BY DEF gateVars
  <2>2. TaskEntry' = TaskEntry /\ TaskSlot' = TaskSlot /\ TaskFw' = TaskFw /\ AllTasks' = AllTasks
    BY <2>1 DEF TaskEntry, TaskSlot, TaskFw, Framework, AllTasks, TasksOf, Flashers, OnBench
  <2>3. (GateShape /\ RosterInv /\ TaskInv /\ UnitsApart)'
    BY <2>1, <2>2 DEF GateInv, GateShape, RosterInv, TaskInv, UnitsApart
  <2>4. CompleteInv'
    <3>1. Failed' = Failed
      BY <2>1 DEF Failed
    <3>2. CompleteInv
      BY DEF GateInv
    <3>3. ListInv' = ListInv
      BY <2>1 DEF ListInv, Listed, OnBench
    <3>4. StageInv' = StageInv
      BY <2>1 DEF StageInv, SerialDone, UplinkDone
    <3>5. TaskRowsInv' = TaskRowsInv
      BY <2>1, <2>2 DEF TaskRowsInv, TaskRowsOf, TaskRow, Framework
    <3>6. QED
      BY <3>1, <3>2, <3>3, <3>4, <3>5 DEF CompleteInv
  <2>5. ImageStands' = ImageStands /\ Marked' = Marked
    BY <2>1, <2>2 DEF ImageStands, Marked
  <2>6. MarkInv'
    BY <2>1, <2>2, <2>5 DEF GateInv, MarkInv
  <2>7. QuietInv'
    BY <2>1, <2>2, <2>5 DEF GateInv, QuietInv, Failed
  <2>8. QED
    BY <2>3, <2>4, <2>6, <2>7 DEF GateInv
<1>3. QED
  BY <1>1, <1>2

\* A report without a failure has a row for each check of the roster.
LEMMA CompleteReport == GateInv => CleanIsComplete
<1> SUFFICES ASSUME GateInv, gate.pc = "exit", ExitCode = 0 PROVE Enabled(gate.roster) \subseteq rows
  BY DEF CleanIsComplete
<1>1. Failed = {}
  BY DEF ExitCode
<1>2. /\ GateShape /\ RosterInv /\ gate.left = {} /\ gate.task = NoTask
      /\ ListInv /\ StageInv /\ TaskRowsInv
  BY <1>1 DEF GateInv, CompleteInv, TaskInv, OnTask, Checking
<1> DEFINE r == gate.roster
<1>3. ASSUME NEW i \in DOMAIN r
      PROVE  /\ r[i].onBench => Listed(r[i])
             /\ SerialDone(r[i]) /\ UplinkDone(r[i]) /\ ~BadEntry(r[i])
             /\ r[i].flash # <<>> => r[i].flashes
  BY <1>2, <1>3 DEF ListInv, StageInv, RosterInv, OnBench
<1>4. ASSUME NEW i \in DOMAIN r, NEW f \in Flashed(r[i])
      PROVE  \E t \in AllTasks : t.entry = i /\ Framework(t) = f /\ TaskRowsOf(t) \subseteq rows
  <2>1. PICK k \in DOMAIN r[i].flash : f = r[i].flash[k]
    BY <1>4 DEF Flashed
  <2>2. r[i].flash # <<>>
    BY <2>1
  <2>3. r[i].flashes /\ r[i].onBench
    BY <1>3, <2>2 DEF BadEntry, BadFlash
  <2>4. i \in Flashers(r, gate.listing)
    BY <1>3, <2>3 DEF Flashers, OnBench, Listed
  <2> DEFINE t == [entry |-> i, nth |-> k]
  <2>5. t \in AllTasks
    BY <2>4 DEF AllTasks, TasksOf
  <2>6. t # NoTask
    BY <1>2, <2>5, TaskFacts
  <2>7. t.entry = i /\ Framework(t) = f
    BY <2>1 DEF Framework
  <2>8. TaskRowsOf(t) \subseteq rows
    BY <1>2, <2>5, <2>6 DEF TaskRowsInv
  <2> HIDE DEF t
  <2>9. QED
    BY <2>5, <2>7, <2>8
<1> DEFINE Stages(e, f) == IF f = "lorawan" THEN {"flash", "join", "uplink"}
                           ELSE {"flash", "boot"} \union
                                (IF f = "esphome" /\ e.functional THEN {"functional"} ELSE {})
           Of(e) == (IF e.onBench THEN {Row("slots", e.slot, "none", TRUE)} ELSE {})
                 \union (IF e.onBench /\ ~e.flashes THEN {Row("serial", e.slot, "none", TRUE)} ELSE {})
                 \union (IF e.eui THEN {Row("uplinks", Subject(e), "none", TRUE)} ELSE {})
                 \union UNION {{Row(s, e.slot, f, TRUE) : s \in Stages(e, f)} : f \in Flashed(e)}
<1>5. ASSUME NEW i \in DOMAIN r, NEW f \in Flashed(r[i]), NEW s \in Stages(r[i], f)
      PROVE  Row(s, r[i].slot, f, TRUE) \in rows
  <2>1. PICK t \in AllTasks : t.entry = i /\ Framework(t) = f /\ TaskRowsOf(t) \subseteq rows
    BY <1>4
  <2>2. Row(s, r[i].slot, f, TRUE) \in TaskRowsOf(t)
    BY <1>5, <2>1 DEF TaskRowsOf
  <2>3. QED
    BY <2>1, <2>2
<1>6. ASSUME NEW i \in DOMAIN r PROVE Of(r[i]) \subseteq rows
  <2>1. ASSUME NEW f \in Flashed(r[i]) PROVE {Row(s, r[i].slot, f, TRUE) : s \in Stages(r[i], f)} \subseteq rows
    <3> DEFINE S == Stages(r[i], f)
    <3>1. \A s \in S : Row(s, r[i].slot, f, TRUE) \in rows
      BY <1>5, <1>6, <2>1
    <3> HIDE DEF S
    <3>2. {Row(s, r[i].slot, f, TRUE) : s \in S} \subseteq rows
      BY <3>1
    <3>3. QED
      BY <3>2 DEF S
  <2>2. UNION {{Row(s, r[i].slot, f, TRUE) : s \in Stages(r[i], f)} : f \in Flashed(r[i])} \subseteq rows
    BY <2>1
  <2>3. QED
    BY <1>3, <1>6, <2>2 DEF Listed, SerialDone, UplinkDone
<1>7. Enabled(r) = UNION {Of(r[i]) : i \in DOMAIN r}
  BY DEF Enabled
<1>8. QED
  BY <1>6, <1>7

\* A boot that is reported good is one of the image the task wrote.
LEMMA BootStep == GateInv /\ GateNext => BootIsOfTheImage
<1> SUFFICES ASSUME GateInv, GateNext, TaskRow("boot", TRUE) \in rows' \ rows, TaskSlot \notin gate.touched
             PROVE  LET u == seat[TaskSlot].unit IN
                    u # Nobody /\ fw[u].image = TaskFw /\ fw[u].task = gate.task /\ fw[u].ran
  BY DEF BootIsOfTheImage
<1>1. TaskRow("boot", TRUE).stage = "boot" /\ TaskRow("boot", TRUE).ok
  BY RowFields DEF TaskRow
<1>2. ASSUME SettleTimesOut \/ (FromBufferAgain /\ ~Marked) \/ BootCheckRaises PROVE FALSE
  <2>1. rows' = rows \union {TaskRow("boot", FALSE)}
    BY <1>2 DEF SettleTimesOut, FromBufferAgain, BootCheckRaises, TaskFails, Adds
  <2>2. TaskRow("boot", TRUE) # TaskRow("boot", FALSE)
    <3>1. TaskRow("boot", TRUE).ok /\ ~TaskRow("boot", FALSE).ok
      BY RowFields DEF TaskRow
    <3>2. QED
      BY <3>1
  <2>3. QED
    BY <2>1, <2>2
<1>3. Marked /\ gate.pc \in {"buffer", "monitor", "again"}
  BY <1>1, <1>2, BootRows
<1>4. ImageStands /\ fw[seat[TaskSlot].unit].ran
  BY <1>3 DEF GateInv, MarkInv
<1>5. QED
  BY <1>4 DEF ImageStands

\* The nightly verdict can be trusted, whatever the rosters, the library and
\* the bench, and however often the bench is disturbed and requests fail.
THEOREM GateTrusted == GateSpec => GateSound
<1>1. GateInv => GateTypeOK /\ CleanIsComplete /\ NoFalseAlarm
  <2>1. GateInv => GateTypeOK
    BY DEF GateInv, GateShape, GateRecord, GatePCs, GateTypeOK
  <2>2. GateInv => NoFalseAlarm
    BY DEF GateInv, QuietInv, NoFalseAlarm
  <2>3. QED
    BY <2>1, <2>2, CompleteReport
<1>2. GateInv /\ [GateNext]_gateVars => [BootIsOfTheImage]_gateVars
  BY BootStep
<1>3. QED
  BY <1>1, <1>2, GateStarts, GateKeeps, PTL DEF GateSpec, GateSound

=============================================================================
