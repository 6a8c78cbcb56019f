----------------------------- MODULE CacheProofs -----------------------------
(***************************************************************************)
(* Proofs about BuildCache, for every set of callers and keys, the three   *)
(* toolchains and any number of builds and restarts.                       *)
(***************************************************************************)
EXTENDS BuildCache, LibraryCache, TLAPS

-----------------------------------------------------------------------------
(* The inductive invariant.                                                *)

\* The steps of a call whose tool has been started, and those after its end.
Launched == {"read", "judge", "copy", "copying", "verdict", "end", "leaving"}
Ended == {"judge", "copy", "copying", "verdict", "end"}
Steps == Launched \union {"idle", "prepare", "locking", "done", "left"}

Runs == [pc : Steps, key : Keys \union {None},
         proc : {None, "running", "writing", "zero", "failed", "killed"},
         quiet : BOOLEAN, timer : {"off", "armed", "fired", "cancelled"},
         killed : BOOLEAN, got : Content, id : Nat,
         answer : {None} \union [ok : BOOLEAN, hit : BOOLEAN, bin : Content]]
Slots == [bin : Content, log : Nat \union {None}, verdict : Nat \union {None},
          writer : Nat \union {None}]
Dirs == [src : Keys \union {None}, out : Content]

ShapeInv ==
    /\ tool \in Tools /\ disturbed \subseteq Keys /\ starts \in 0 .. MaxStarts
    /\ slot \in [Keys -> Slots]
    /\ dir \in [Keys \union Builders \union {Checkout} -> Dirs]
    /\ run \in [Builders -> Runs]

\* A call has a key until it is left and a tool from its start on; it copies
\* what a tool has left that is no longer alive.
CallOK(r) ==
    /\ r.pc \notin {"idle", "left"} => r.key \in Keys
    /\ r.proc # None <=> r.pc \in Launched
    /\ r.pc \in Ended => r.proc \notin {"running", "writing"}
    /\ r.pc \in {"copy", "copying"} =>
          IF tool = "route" THEN r.got \in {"partial", r.key} ELSE r.proc = "zero"

CallInv == \A b \in Builders : CallOK(run[b])

\* The lock is held by the one call that works in WLED's checkout.
LockInv ==
    /\ lock \in Builders \union {None}
    /\ \A b \in Builders : lock = b <=> tool = "wled" /\ run[b].pc \in Launched

\* The source a tool builds is its call's; it has built it when it returns
\* zero, unless another build of the key may have torn it since.
DirOK(b, r) ==
    r.pc \in Launched =>
        /\ dir[DirOf(b, r.key)].src = r.key
        /\ tool = "route" => dir[DirOf(b, r.key)].out \in {None, "torn", r.key}
        /\ r.proc = "zero" /\ (tool = "lorawan" => r.key \notin disturbed)
           => dir[DirOf(b, r.key)].out = r.key

DirInv ==
    /\ tool = "lorawan" =>
          \A k \in Keys : dir[k].src \in {None, k} /\ dir[k].out \in {None, "torn", k}
    /\ \A b \in Builders : DirOK(b, run[b])

\* A key nothing disturbed has one call at work, and its slot is what that
\* call, or the last one, has made of it.
QuietKey(k) ==
    /\ \A b, c \in Builders : Working(b) /\ Working(c) /\ run[b].key = k /\ run[c].key = k
                              => b = c
    /\ slot[k].bin = "torn" => \E b \in Builders : run[b].pc = "copying" /\ run[b].key = k
    /\ slot[k].bin \in {None, "torn"} => slot[k].verdict = None
    /\ slot[k].bin \notin {None, "torn"} =>
          slot[k].log = slot[k].writer /\ slot[k].verdict \in {None, slot[k].writer}

QuietRun(r) ==
    /\ r.pc \in {"prepare", "locking", "read", "leaving", "judge", "copy"}
       => slot[r.key].bin = None
    /\ r.pc = "copying" => slot[r.key].bin = "torn"
    /\ r.pc \in {"copy", "copying"} => slot[r.key].log = r.id
    /\ \/ r.pc = "verdict"
       \/ r.pc = "end" /\ r.got # None
       \/ r.pc = "done" /\ r.answer.ok
       => slot[r.key].bin \notin {None, "torn"}

QuietInv ==
    /\ \A k \in Keys \ disturbed : QuietKey(k)
    /\ \A b \in Builders :
          run[b].pc \notin {"idle", "left"} /\ run[b].key \notin disturbed => QuietRun(run[b])

IInv == ShapeInv /\ CallInv /\ LockInv /\ DirInv /\ SlotHoldsItsKey /\ QuietInv

-----------------------------------------------------------------------------
(* Steps of one call.                                                      *)

\* What the record of a call can be set to.
LEMMA RestingRun ==
    /\ Resting \in Runs /\ Resting.pc = "idle" /\ Resting.proc = None /\ Resting.key = None
    /\ Resting.got = None /\ Resting.id = 0 /\ Resting.answer = None
  BY DEF Resting, Runs, Steps, Launched, Content

\* A step that sets one call's record r, with the lock as it was, given to the
\* call or given back.
LEMMA LockStep ==
    ASSUME IInv, NEW b \in Builders, NEW r \in Runs, run' = [run EXCEPT ![b] = r],
           UNCHANGED tool,
           \/ lock' = lock /\ (r.pc \in Launched <=> run[b].pc \in Launched)
           \/ /\ r.pc \in Launched /\ MayBuild(b)
              /\ lock' = IF tool = "wled" THEN b ELSE lock
           \/ r.pc \notin Launched /\ lock' = IF lock = b THEN None ELSE lock
    PROVE  LockInv'
  <1>1. \A c \in Builders : run'[c] = IF c = b THEN r ELSE run[c]
    BY DEF IInv, ShapeInv
  <1>2. None \notin Builders
    BY CacheAssumption
  <1> QED BY <1>1, <1>2 DEF IInv, LockInv, MayBuild

\* A step that leaves the directories alone and starts no tool.
LEMMA DirStep ==
    ASSUME IInv, NEW b \in Builders, NEW r \in Runs, run' = [run EXCEPT ![b] = r],
           UNCHANGED <<tool, dir>>, disturbed \subseteq disturbed',
           r.pc \in Launched => /\ run[b].pc \in Launched /\ r.key = run[b].key
                                /\ r.proc = "zero" => run[b].proc = "zero"
    PROVE  DirInv'
  <1>1. \A c \in Builders : run'[c] = IF c = b THEN r ELSE run[c]
    BY DEF IInv, ShapeInv
  <1>2. ASSUME NEW c \in Builders PROVE DirOK(c, run[c])'
    <2>1. DirOK(c, run[c])
      BY DEF IInv, DirInv
    <2>2. CASE c # b
      BY <1>1, <2>1, <2>2 DEF DirOK, DirOf
    <2>3. CASE c = b
      BY <1>1, <2>1, <2>3 DEF DirOK, DirOf
    <2> QED BY <2>2, <2>3
  <1> QED BY <1>2 DEF IInv, DirInv

\* A step that leaves the slots alone and begins nothing.
LEMMA QuietStep ==
    ASSUME IInv, NEW b \in Builders, NEW r \in Runs, run' = [run EXCEPT ![b] = r],
           UNCHANGED <<slot, disturbed>>,
           r.pc \notin {"idle", "done", "left"} => Working(b) /\ r.key = run[b].key,
           run[b].pc # "copying",
           r.pc \notin {"idle", "left"} /\ r.key \notin disturbed => QuietRun(r)
    PROVE  QuietInv'
  <1>1. \A c \in Builders : run'[c] = IF c = b THEN r ELSE run[c]
    BY DEF IInv, ShapeInv
  <1>2. \A c \in Builders : Working(c)' => Working(c) /\ run'[c].key = run[c].key
    BY <1>1 DEF Working
  <1>3. \A c \in Builders : run[c].pc = "copying" => run'[c].pc = "copying" /\ run'[c].key = run[c].key
    BY <1>1
  <1>4. \A k \in Keys \ disturbed : QuietKey(k)'
    BY <1>2, <1>3 DEF IInv, QuietInv, QuietKey
  <1>5. ASSUME NEW c \in Builders, run'[c].pc \notin {"idle", "left"}, run'[c].key \notin disturbed
        PROVE  QuietRun(run[c])'
    <2>1. CASE c = b
      BY <1>1, <1>5, <2>1 DEF QuietRun
    <2>2. CASE c # b
      <3>1. QuietRun(run[c]) /\ run'[c] = run[c]
        BY <1>1, <1>5, <2>2 DEF IInv, QuietInv
      <3> QED BY <3>1 DEF QuietRun
    <2> QED BY <2>1, <2>2
  <1> QED BY <1>4, <1>5 DEF QuietInv

\* A step that only sets one call's record, to one with the same tool, key and
\* directory, or ends the call.
LEMMA LocalStep ==
    ASSUME IInv, NEW b \in Builders, NEW r \in Runs, run' = [run EXCEPT ![b] = r],
           UNCHANGED <<tool, slot, dir, lock, starts, disturbed>>,
           CallOK(r),
           r.pc \in Launched <=> run[b].pc \in Launched,
           r.pc \in Launched /\ r.proc = "zero" => run[b].proc = "zero",
           r.pc \notin {"idle", "done", "left"} => Working(b) /\ r.key = run[b].key,
           run[b].pc # "copying",
           r.pc \notin {"idle", "left"} /\ r.key \notin disturbed => QuietRun(r)
    PROVE  IInv'
  <1>1. ShapeInv' /\ SlotHoldsItsKey'
    BY DEF IInv, ShapeInv, SlotHoldsItsKey
  <1>2. CallInv'
    BY DEF IInv, ShapeInv, CallInv, CallOK
  <1>3. LockInv'
    BY LockStep
  <1>4. DirInv'
    <2>1. r.pc \in Launched => r.key = run[b].key
      BY DEF Launched
    <2> QED BY <2>1, DirStep
  <1>5. QuietInv'
    BY QuietStep
  <1> QED BY <1>1, <1>2, <1>3, <1>4, <1>5 DEF IInv


\* A step of a call that has ended its tool and writes its slot.
LEMMA SlotStep ==
    ASSUME IInv, NEW b \in Builders, NEW r \in Runs, run' = [run EXCEPT ![b] = r],
           UNCHANGED <<tool, dir, lock, starts, disturbed>>,
           run[b].pc \in {"judge", "copy", "copying", "verdict"}, r.pc \in Ended,
           r.key = run[b].key, r.proc = run[b].proc, CallOK(r),
           NEW made \in Slots, slot' = [slot EXCEPT ![run[b].key] = made],
           made.bin \in {None, "torn", "partial", run[b].key},
           run[b].key \notin disturbed =>
              /\ QuietRun(r)'
              /\ made.bin = "torn" => r.pc = "copying"
              /\ made.bin \in {None, "torn"} => made.verdict = None
              /\ made.bin \notin {None, "torn"} =>
                    made.log = made.writer /\ made.verdict \in {None, made.writer}
              /\ run[b].pc = "verdict" => made.bin = slot[run[b].key].bin
    PROVE  IInv'
  <1> DEFINE k == run[b].key
  <1>0. k \in Keys /\ run[b].pc \in Launched /\ r.pc \in Launched /\ Working(b)
    BY DEF IInv, CallInv, CallOK, Launched, Ended, Working
  <1>1. /\ \A c \in Builders : run'[c] = IF c = b THEN r ELSE run[c]
        /\ \A j \in Keys : slot'[j] = IF j = k THEN made ELSE slot[j]
    BY <1>0 DEF IInv, ShapeInv
  <1>2. ShapeInv' /\ SlotHoldsItsKey'
    <2>1. run' \in [Builders -> Runs] /\ slot' \in [Keys -> Slots]
      BY DEF IInv, ShapeInv
    <2> QED BY <1>1, <2>1 DEF IInv, ShapeInv, SlotHoldsItsKey
  <1>3. CallInv'
    BY <1>1 DEF IInv, CallInv, CallOK
  <1>4. LockInv'
    BY <1>0, LockStep
  <1>5. DirInv'
    BY <1>0, DirStep
  <1>6. ASSUME k \notin disturbed, NEW c \in Builders, c # b, run[c].key = k
        PROVE  ~Working(c) /\ (run[c].pc = "done" /\ run[c].answer.ok => run[b].pc = "verdict")
    <2>1. ~Working(c)
      BY <1>0, <1>6 DEF IInv, QuietInv, QuietKey
    <2>2. QuietRun(run[b])
      BY <1>0, <1>6 DEF IInv, QuietInv, Launched
    <2>3. CASE run[b].pc # "verdict"
      <3>1. slot[k].bin \in {None, "torn"}
        BY <2>2, <2>3 DEF QuietRun
      <3>2. run[c].pc = "done" => QuietRun(run[c])
        BY <1>6 DEF IInv, QuietInv
      <3> QED BY <1>6, <2>1, <3>1, <3>2 DEF QuietRun
    <2> QED BY <2>1, <2>3
  <1>7. ASSUME NEW j \in Keys \ disturbed PROVE QuietKey(j)'
    <2>1. CASE j # k
      <3>1. QuietKey(j) /\ slot'[j] = slot[j]
        BY <1>1, <1>7, <2>1 DEF IInv, QuietInv
      <3>2. \A c \in Builders : Working(c)' /\ run'[c].key = j => Working(c) /\ run[c].key = j
        BY <1>1, <2>1 DEF Working
      <3>3. \A c \in Builders : run[c].pc = "copying" /\ run[c].key = j
                                => run'[c].pc = "copying" /\ run'[c].key = j
        BY <1>1, <2>1
      <3> QED BY <3>1, <3>2, <3>3 DEF QuietKey
    <2>2. CASE j = k
      <3>1. \A c \in Builders : Working(c)' /\ run'[c].key = k => c = b
        BY <1>1, <1>6, <1>7, <2>2 DEF Working
      <3>2. slot'[k] = made
        BY <1>0, <1>1
      <3>3. made.bin = "torn" => run'[b].pc = "copying" /\ run'[b].key = k
        BY <1>1, <1>7, <2>2
      <3> QED BY <1>7, <2>2, <3>1, <3>2, <3>3 DEF QuietKey
    <2> QED BY <2>1, <2>2
  <1>8. ASSUME NEW c \in Builders, run'[c].pc \notin {"idle", "left"}, run'[c].key \notin disturbed
        PROVE  QuietRun(run[c])'
    <2>1. CASE c = b
      BY <1>1, <1>8, <2>1 DEF QuietRun
    <2>2. CASE c # b
      <3>1. QuietRun(run[c]) /\ run'[c] = run[c]
        BY <1>1, <1>8, <2>2 DEF IInv, QuietInv
      <3>2. run[c].key \in Keys
        BY <1>1, <1>8, <2>2 DEF IInv, CallInv, CallOK
      <3>3. CASE run[c].key # k
        BY <1>1, <3>1, <3>2, <3>3 DEF QuietRun
      <3>4. CASE run[c].key = k
        <4>1. run[c].pc \in {"done", "idle", "left"}
          BY <1>1, <1>6, <1>8, <2>2, <3>4 DEF Working
        <4>2. run[c].pc = "done" /\ run[c].answer.ok => slot'[k].bin = slot[k].bin
          BY <1>0, <1>1, <1>6, <1>8, <2>2, <3>4
        <4> QED BY <3>1, <3>4, <4>1, <4>2 DEF QuietRun
      <3> QED BY <3>3, <3>4
    <2> QED BY <2>1, <2>2
  <1>9. QuietInv'
    BY <1>7, <1>8 DEF QuietInv
  <1> QED BY <1>2, <1>3, <1>4, <1>5, <1>9 DEF IInv

-----------------------------------------------------------------------------
(* The actions.                                                            *)

LEMMA InitIInv == ASSUME Init PROVE IInv
  <1>1. ShapeInv
    BY RestingRun, CacheAssumption DEF Init, ShapeInv, EmptySlot, EmptyDir, Slots, Dirs, Content
  <1>2. \A b \in Builders : run[b].pc = "idle" /\ run[b].proc = None
    BY RestingRun DEF Init
  <1>3. CallInv /\ LockInv
    BY <1>2, CacheAssumption DEF Init, CallInv, CallOK, LockInv, Launched, Ended
  <1>4. DirInv
    BY <1>2 DEF Init, DirInv, DirOK, EmptyDir, Launched
  <1>5. SlotHoldsItsKey
    BY DEF Init, SlotHoldsItsKey, EmptySlot
  <1>6. QuietInv
    BY <1>2, CacheAssumption DEF Init, QuietInv, QuietKey, Working, EmptySlot
  <1> QED BY <1>1, <1>3, <1>4, <1>5, <1>6 DEF IInv

\* The steps that only set the call's record.
LEMMA LocalSteps ==
    ASSUME IInv, NEW b \in Builders,
           \/ Refuse(b) \/ Prepare(b) \/ Drained(b) \/ ReaderLeaves(b) \/ TimerFires(b)
           \/ ProcFails(b)
    PROVE  IInv'
  <1> USE DEF Set
  <1>0. run[b] \in Runs /\ CallOK(run[b])
    BY DEF IInv, ShapeInv, CallInv
  <1>q. run[b].pc \notin {"idle", "left"} /\ run[b].key \notin disturbed => QuietRun(run[b])
    BY DEF IInv, QuietInv
  <1>1. CASE Refuse(b)
    <2> DEFINE r == [Resting EXCEPT !.pc = "done", !.key = run[b].key,
                       !.answer = Answer(FALSE, FALSE, None)]
    <2>1. /\ r \in Runs /\ r.pc = "done" /\ r.key = run[b].key /\ r.proc = None
          /\ ~r.answer.ok
      BY <1>0, <1>1, CacheAssumption DEF Refuse, Resting, Runs, Steps, Answer, Content
    <2>2. /\ run' = [run EXCEPT ![b] = r] /\ run[b].pc = "prepare"
          /\ UNCHANGED <<tool, slot, dir, lock, starts, disturbed>>
      BY <1>1 DEF Refuse
    <2> HIDE DEF r
    <2> QED BY <1>0, <2>1, <2>2, LocalStep DEF CallOK, QuietRun, Launched, Ended
  <1>2. CASE Prepare(b)
    <2> DEFINE r == [run[b] EXCEPT !.pc = "locking"]
    <2>1. /\ r \in Runs /\ r.pc = "locking" /\ r.key = run[b].key /\ r.proc = run[b].proc
      BY <1>0 DEF Runs, Steps
    <2>2. /\ run' = [run EXCEPT ![b] = r] /\ run[b].pc = "prepare"
          /\ UNCHANGED <<tool, slot, dir, lock, starts, disturbed>>
      BY <1>2 DEF Prepare
    <2> HIDE DEF r
    <2> QED BY <1>0, <1>q, <2>1, <2>2, LocalStep DEF CallOK, QuietRun, Launched, Ended, Working
  <1>3. CASE Drained(b)
    <2> DEFINE r == [run[b] EXCEPT !.pc = "judge",
                                   !.timer = IF @ = "armed" THEN "cancelled" ELSE @]
    <2>1. /\ r \in Runs /\ r.pc = "judge" /\ r.key = run[b].key /\ r.proc = run[b].proc
      BY <1>0 DEF Runs, Steps, Launched
    <2>2. /\ run' = [run EXCEPT ![b] = r] /\ run[b].pc = "read" /\ ~Alive(b)
          /\ UNCHANGED <<tool, slot, dir, lock, starts, disturbed>>
      BY <1>3 DEF Drained
    <2> HIDE DEF r
    <2> QED BY <1>0, <1>q, <2>1, <2>2, LocalStep
            DEF CallOK, QuietRun, Launched, Ended, Working, Alive
  <1>4. CASE ReaderLeaves(b)
    <2> DEFINE r == [run[b] EXCEPT !.pc = "leaving",
                                   !.timer = IF @ = "armed" THEN "cancelled" ELSE @]
    <2>1. /\ r \in Runs /\ r.pc = "leaving" /\ r.key = run[b].key /\ r.proc = run[b].proc
      BY <1>0 DEF Runs, Steps, Launched
    <2>2. /\ run' = [run EXCEPT ![b] = r] /\ run[b].pc \in {"read", "judge"}
          /\ UNCHANGED <<tool, slot, dir, lock, starts, disturbed>>
      BY <1>4 DEF ReaderLeaves
    <2> HIDE DEF r
    <2> QED BY <1>0, <1>q, <2>1, <2>2, LocalStep DEF CallOK, QuietRun, Launched, Ended, Working
  <1>5. CASE TimerFires(b) \/ ProcFails(b)
    <2>1. PICK r \in Runs :
             /\ run' = [run EXCEPT ![b] = r]
             /\ r.pc = run[b].pc /\ r.key = run[b].key /\ r.got = run[b].got
             /\ r.id = run[b].id /\ r.answer = run[b].answer
             /\ r.proc = run[b].proc \/ (Alive(b) /\ r.proc \in {"failed", "killed"})
      <3>1. CASE TimerFires(b)
        <4> DEFINE r == [run[b] EXCEPT !.timer = "fired", !.killed = TRUE,
                                       !.proc = IF Alive(b) THEN "killed" ELSE @]
        <4>1. r \in Runs
          BY <1>0 DEF Runs
        <4>2. /\ r.pc = run[b].pc /\ r.key = run[b].key /\ r.got = run[b].got
              /\ r.id = run[b].id /\ r.answer = run[b].answer
              /\ r.proc = IF Alive(b) THEN "killed" ELSE run[b].proc
          BY <1>0 DEF Runs
        <4>3. run' = [run EXCEPT ![b] = r]
          BY <3>1 DEF TimerFires
        <4> HIDE DEF r
        <4> QED BY <4>1, <4>2, <4>3
      <3>2. CASE ProcFails(b)
        <4> DEFINE r == [run[b] EXCEPT !.proc = "failed"]
        <4>1. r \in Runs
          BY <1>0 DEF Runs
        <4>2. /\ r.pc = run[b].pc /\ r.key = run[b].key /\ r.got = run[b].got
              /\ r.id = run[b].id /\ r.answer = run[b].answer /\ r.proc = "failed"
          BY <1>0 DEF Runs
        <4>3. run' = [run EXCEPT ![b] = r] /\ Alive(b)
          BY <3>2 DEF ProcFails
        <4> HIDE DEF r
        <4> QED BY <4>1, <4>2, <4>3
      <3> QED BY <1>5, <3>1, <3>2
    <2>2. UNCHANGED <<tool, slot, dir, lock, starts, disturbed>>
      BY <1>5 DEF TimerFires, ProcFails
    <2>3. CASE Alive(b)
      <3>1. run[b].pc \in {"read", "leaving"} /\ r.proc # None
        BY <1>0, <2>1, <2>3, CacheAssumption DEF CallOK, Launched, Ended, Alive
      <3> QED BY <1>0, <1>q, <2>1, <2>2, <2>3, <3>1, LocalStep
              DEF CallOK, QuietRun, Launched, Ended, Working, Alive
    <2>4. CASE ~Alive(b)
      <3>1. ShapeInv' /\ SlotHoldsItsKey' /\ CallInv'
        BY <1>0, <2>1, <2>2, <2>4 DEF IInv, ShapeInv, SlotHoldsItsKey, CallInv, CallOK
      <3>2. LockInv'
        BY <2>1, <2>2, LockStep
      <3>3. DirInv'
        BY <2>1, <2>2, <2>4, DirStep
      <3>4. QuietInv'
        BY <2>1, <2>2, <2>4 DEF IInv, ShapeInv, QuietInv, QuietKey, QuietRun, Working
      <3> QED BY <3>1, <3>2, <3>3, <3>4 DEF IInv
    <2> QED BY <2>3, <2>4
  <1> QED BY <1>1, <1>2, <1>3, <1>4, <1>5


\* The end of a call gives the lock back.
LEMMA EndSteps == ASSUME IInv, NEW b \in Builders, Reaped(b) \/ Done(b) PROVE IInv'
  <1>0. run[b] \in Runs /\ CallOK(run[b])
    BY DEF IInv, ShapeInv, CallInv
  <1>1. PICK r \in Runs :
           /\ run' = [run EXCEPT ![b] = r] /\ r.proc = None
           /\ \/ run[b].pc = "leaving" /\ r.pc = "left"
              \/ /\ run[b].pc = "end" /\ r.pc = "done" /\ r.key = run[b].key
                 /\ r.answer.ok = (run[b].got # None)
    <2>1. CASE Reaped(b)
      <3> DEFINE r == [Resting EXCEPT !.pc = "left"]
      <3>1. r \in Runs /\ r.proc = None /\ r.pc = "left"
        BY RestingRun DEF Runs, Steps
      <3>2. run' = [run EXCEPT ![b] = r] /\ run[b].pc = "leaving"
        BY <2>1 DEF Reaped, Set
      <3> HIDE DEF r
      <3> QED BY <3>1, <3>2
    <2>2. CASE Done(b)
      <3> DEFINE a == Answer(run[b].got # None, FALSE, run[b].got)
                 r == [Resting EXCEPT !.pc = "done", !.key = run[b].key, !.answer = a]
      <3>0. run[b].got \in Content /\ run[b].key \in Keys \union {None}
        BY <1>0 DEF Runs
      <3>1. a \in [ok : BOOLEAN, hit : BOOLEAN, bin : Content] /\ a.ok = (run[b].got # None)
        BY <3>0 DEF Answer
      <3> HIDE DEF a
      <3>2. /\ r \in Runs /\ r.proc = None /\ r.pc = "done" /\ r.key = run[b].key /\ r.answer = a
        BY <3>0, <3>1, RestingRun DEF Runs, Steps
      <3>3. run' = [run EXCEPT ![b] = r] /\ run[b].pc = "end"
        BY <2>2 DEF Done, Set, a
      <3> HIDE DEF r
      <3> QED BY <3>1, <3>2, <3>3
    <2> QED BY <2>1, <2>2
  <1>2. /\ UNCHANGED <<tool, slot, dir, starts, disturbed>>
        /\ lock' = IF lock = b THEN None ELSE lock
    BY DEF Reaped, Done, Release
  <1>3. ShapeInv' /\ SlotHoldsItsKey'
    BY <1>1, <1>2 DEF IInv, ShapeInv, SlotHoldsItsKey
  <1>4. CallInv'
    BY <1>0, <1>1, <1>2 DEF IInv, ShapeInv, CallInv, CallOK, Launched, Ended
  <1>5. LockInv'
    BY <1>1, <1>2, LockStep DEF Launched
  <1>6. DirInv'
    BY <1>1, <1>2, DirStep DEF Launched
  <1>7. QuietInv'
    <2>1. r.pc \notin {"idle", "left"} /\ r.key \notin disturbed => QuietRun(r)
      BY <1>1 DEF IInv, QuietInv, QuietRun
    <2> QED BY <1>1, <1>2, <2>1, QuietStep
  <1> QED BY <1>3, <1>4, <1>5, <1>6, <1>7 DEF IInv

\* The launch of a tool: nobody else builds in its directory, or everyone who
\* does builds the same key.
LEMMA LaunchStep == ASSUME IInv, NEW b \in Builders, Launch(b) PROVE IInv'
  <1> DEFINE k == run[b].key
             d == DirOf(b, k)
  <1>0. /\ run[b] \in Runs /\ CallOK(run[b]) /\ run[b].pc = "locking" /\ MayBuild(b)
        /\ k \in Keys /\ tool \in Tools
    BY DEF IInv, ShapeInv, CallInv, CallOK, Launch
  <1>1. PICK quiet \in BOOLEAN :
           run' = [run EXCEPT ![b] = [run[b] EXCEPT !.pc = "read", !.proc = "running",
                                                    !.quiet = quiet, !.timer = "armed"]]
    BY DEF Launch, Set
  <1> DEFINE r == [run[b] EXCEPT !.pc = "read", !.proc = "running",
                                 !.quiet = quiet, !.timer = "armed"]
  <1>2. r \in Runs /\ r.pc = "read" /\ r.proc = "running" /\ r.key = k
    BY <1>0 DEF Runs, Steps, Launched
  <1>3. run' = [run EXCEPT ![b] = r]
    BY <1>1
  <1> HIDE DEF r
  <1>4. /\ lock' = IF tool = "wled" THEN b ELSE lock
        /\ UNCHANGED <<tool, slot, starts, disturbed>>
        /\ dir' = [dir EXCEPT ![d].src = k, ![d].out = IF tool = "route" THEN None ELSE @]
    BY DEF Launch
  <1>5. d \in Keys \union Builders \union {Checkout} /\ dir[d] \in Dirs
    BY <1>0 DEF DirOf, Tools, IInv, ShapeInv
  <1>6. /\ dir' \in [Keys \union Builders \union {Checkout} -> Dirs]
        /\ dir'[d].src = k /\ dir'[d].out = (IF tool = "route" THEN None ELSE dir[d].out)
        /\ \A e \in Keys \union Builders \union {Checkout} : e # d => dir'[e] = dir[e]
    BY <1>0, <1>4, <1>5 DEF Dirs, Content, IInv, ShapeInv
  <1>7. \A c \in Builders : run'[c] = IF c = b THEN r ELSE run[c]
    BY <1>3 DEF IInv, ShapeInv
  <1>8. ShapeInv' /\ SlotHoldsItsKey'
    BY <1>2, <1>3, <1>4, <1>6 DEF IInv, ShapeInv, SlotHoldsItsKey
  <1>9. CallInv'
    BY <1>0, <1>2, <1>4, <1>7, CacheAssumption DEF IInv, CallInv, CallOK, Launched, Ended
  <1>10. LockInv'
    BY <1>0, <1>2, <1>3, <1>4, LockStep DEF Launched
  <1>11. DirInv'
    <2>1. ASSUME NEW c \in Builders PROVE DirOK(c, run[c])'
      <3>1. CASE c = b
        <4>1. r.proc # "zero"
          BY <1>2
        <4> QED BY <1>2, <1>4, <1>6, <1>7, <3>1, <4>1 DEF DirOK, DirOf
      <3>2. CASE c # b /\ run[c].pc \in Launched
        <4> DEFINE e == DirOf(c, run[c].key)
        <4>1. DirOK(c, run[c]) /\ run'[c] = run[c] /\ run[c].key \in Keys
          BY <1>7, <3>2 DEF IInv, DirInv, CallInv, CallOK, Launched
        <4>2. tool # "wled"
          BY <1>0, <3>2, CacheAssumption DEF IInv, LockInv, MayBuild
        <4>3. CASE tool = "route"
          <5>1. e = c /\ d = b
            BY <4>3 DEF DirOf
          <5>2. dir'[e] = dir[e]
            BY <1>6, <3>2, <5>1
          <5> QED BY <1>4, <3>2, <4>1, <4>3, <5>2 DEF DirOK, DirOf
        <4>4. CASE tool = "lorawan"
          <5>1. e = run[c].key /\ d = k
            BY <4>4 DEF DirOf
          <5>2. dir'[e].src = run[c].key /\ dir'[e].out = dir[e].out
            BY <1>4, <1>6, <3>2, <4>1, <4>4, <5>1 DEF DirOK, DirOf
          <5> QED BY <1>4, <3>2, <4>1, <4>4, <5>1, <5>2 DEF DirOK, DirOf
        <4> QED BY <1>0, <4>2, <4>3, <4>4 DEF Tools
      <3>3. CASE c # b /\ run[c].pc \notin Launched
        BY <1>7, <3>3 DEF DirOK
      <3> QED BY <3>1, <3>2, <3>3
    <2>2. ASSUME tool = "lorawan", NEW j \in Keys
          PROVE  dir'[j].src \in {None, j} /\ dir'[j].out \in {None, "torn", j}
      <3>1. d = k /\ dir[j].src \in {None, j} /\ dir[j].out \in {None, "torn", j}
        BY <2>2 DEF DirOf, IInv, DirInv
      <3> QED BY <1>6, <2>2, <3>1
    <2> QED BY <1>4, <2>1, <2>2 DEF DirInv
  <1>12. QuietInv'
    <2>1. r.key \notin disturbed => QuietRun(r)
      BY <1>0, <1>2 DEF IInv, QuietInv, QuietRun
    <2> QED BY <1>0, <1>2, <1>3, <1>4, <2>1, QuietStep DEF Working
  <1> QED BY <1>8, <1>9, <1>10, <1>11, <1>12 DEF IInv

\* The tool writes, and ends.
LEMMA ToolStep == ASSUME IInv, NEW b \in Builders, ProcWrites(b) \/ ProcExits(b) PROVE IInv'
  <1> DEFINE k == run[b].key
             d == DirOf(b, k)
  <1>0. /\ run[b] \in Runs /\ CallOK(run[b]) /\ tool \in Tools
        /\ run[b].proc \in {"running", "writing"}
    BY DEF IInv, ShapeInv, CallInv, ProcWrites, ProcExits
  <1>1. run[b].pc \in {"read", "leaving"} /\ k \in Keys /\ Working(b)
    BY <1>0, CacheAssumption DEF CallOK, Launched, Ended, Working
  <1>2. dir[d] \in Dirs /\ dir[d].src = k /\ d \in Keys \union Builders \union {Checkout}
    BY <1>0, <1>1 DEF IInv, ShapeInv, DirInv, DirOK, DirOf, Tools, Launched
  <1>3. PICK r \in Runs, out \in {"torn", k} :
           /\ run' = [run EXCEPT ![b] = r] /\ dir' = [dir EXCEPT ![d].out = out]
           /\ r.pc = run[b].pc /\ r.key = k /\ r.got = run[b].got
           /\ r.id = run[b].id /\ r.answer = run[b].answer
           /\ \/ r.proc = "writing" /\ out = "torn"
              \/ r.proc = "zero" /\ out = k
    <2>1. CASE ProcWrites(b)
      <3> DEFINE r == [run[b] EXCEPT !.proc = "writing"]
      <3>1. /\ r \in Runs /\ r.pc = run[b].pc /\ r.key = k /\ r.got = run[b].got
            /\ r.id = run[b].id /\ r.answer = run[b].answer /\ r.proc = "writing"
        BY <1>0 DEF Runs
      <3>2. run' = [run EXCEPT ![b] = r] /\ dir' = [dir EXCEPT ![d].out = "torn"]
        BY <2>1 DEF ProcWrites, Set
      <3> HIDE DEF r
      <3> QED BY <3>1, <3>2
    <2>2. CASE ProcExits(b)
      <3> DEFINE r == [run[b] EXCEPT !.proc = "zero"]
      <3>1. /\ r \in Runs /\ r.pc = run[b].pc /\ r.key = k /\ r.got = run[b].got
            /\ r.id = run[b].id /\ r.answer = run[b].answer /\ r.proc = "zero"
        BY <1>0 DEF Runs
      <3>2. run' = [run EXCEPT ![b] = r] /\ dir' = [dir EXCEPT ![d].out = k]
        BY <1>2, <2>2 DEF ProcExits, Set
      <3> HIDE DEF r
      <3> QED BY <3>1, <3>2
    <2> QED BY <2>1, <2>2
  <1>4. UNCHANGED <<tool, slot, lock, starts, disturbed>>
    BY DEF ProcWrites, ProcExits
  <1>5. /\ dir' \in [Keys \union Builders \union {Checkout} -> Dirs]
        /\ dir'[d].src = k /\ dir'[d].out = out
        /\ \A e \in Keys \union Builders \union {Checkout} : e # d => dir'[e] = dir[e]
    BY <1>1, <1>2, <1>3 DEF Dirs, Content, IInv, ShapeInv
  <1>6. \A c \in Builders : run'[c] = IF c = b THEN r ELSE run[c]
    BY <1>3 DEF IInv, ShapeInv
  <1>7. ShapeInv' /\ SlotHoldsItsKey'
    BY <1>3, <1>4, <1>5 DEF IInv, ShapeInv, SlotHoldsItsKey
  <1>8. CallInv'
    <2>1. r.proc # None /\ run[b].proc # None
      BY <1>0, <1>3, CacheAssumption
    <2>2. CallOK(r)
      BY <1>0, <1>1, <1>3, <2>1 DEF CallOK, Launched, Ended
    <2> QED BY <1>4, <1>6, <2>2 DEF IInv, CallInv, CallOK
  <1>9. LockInv'
    BY <1>3, <1>4, LockStep
  <1>10. DirInv'
    <2>1. ASSUME NEW c \in Builders PROVE DirOK(c, run[c])'
      <3>1. CASE c = b
        BY <1>3, <1>4, <1>5, <1>6, <3>1 DEF DirOK, DirOf
      <3>2. CASE c # b /\ run[c].pc \in Launched
        <4> DEFINE e == DirOf(c, run[c].key)
        <4>1. DirOK(c, run[c]) /\ run'[c] = run[c] /\ run[c].key \in Keys
          BY <1>6, <3>2 DEF IInv, DirInv, CallInv, CallOK, Launched
        <4>2. tool # "wled"
          BY <1>1, <3>2 DEF IInv, LockInv, Launched
        <4>3. CASE tool = "route"
          <5>1. e = c /\ d = b
            BY <4>3 DEF DirOf
          <5>2. dir'[e] = dir[e]
            BY <1>5, <3>2, <5>1
          <5> QED BY <1>4, <3>2, <4>1, <4>3, <5>2 DEF DirOK, DirOf
        <4>4. CASE tool = "lorawan" /\ run[c].key # k
          <5>1. e = run[c].key /\ d = k
            BY <4>4 DEF DirOf
          <5>2. dir'[e] = dir[e]
            BY <1>5, <4>1, <4>4, <5>1
          <5> QED BY <1>4, <3>2, <4>1, <4>4, <5>1, <5>2 DEF DirOK, DirOf
        <4>5. CASE tool = "lorawan" /\ run[c].key = k
          <5>1. Working(c)
            BY <3>2 DEF Working, Launched
          <5>2. k \in disturbed
            BY <1>1, <3>2, <4>5, <5>1 DEF IInv, QuietInv, QuietKey
          <5>3. dir'[k].src = k /\ DirOf(c, k) = k
            BY <1>5, <4>5 DEF DirOf
          <5> QED BY <1>4, <4>1, <4>5, <5>2, <5>3 DEF DirOK, DirOf
        <4> QED BY <1>0, <4>2, <4>3, <4>4, <4>5 DEF Tools
      <3>3. CASE c # b /\ run[c].pc \notin Launched
        BY <1>6, <3>3 DEF DirOK
      <3> QED BY <3>1, <3>2, <3>3
    <2>2. ASSUME tool = "lorawan", NEW j \in Keys
          PROVE  dir'[j].src \in {None, j} /\ dir'[j].out \in {None, "torn", j}
      <3>1. d = k /\ dir[j].src \in {None, j} /\ dir[j].out \in {None, "torn", j}
        BY <2>2 DEF DirOf, IInv, DirInv
      <3> QED BY <1>5, <2>2, <3>1
    <2> QED BY <1>4, <2>1, <2>2 DEF DirInv
  <1>11. QuietInv'
    <2>1. k \notin disturbed => QuietRun(r)
      BY <1>1, <1>3 DEF IInv, QuietInv, QuietRun
    <2> QED BY <1>1, <1>3, <1>4, <2>1, QuietStep
  <1> QED BY <1>7, <1>8, <1>9, <1>10, <1>11 DEF IInv

\* What a finished tool left becomes the slot's artefact, in four steps.
LEMMA SaveLogStep == ASSUME IInv, NEW b \in Builders, SaveLog(b) PROVE IInv'
  <1> DEFINE k == run[b].key
  <1>0. /\ run[b] \in Runs /\ CallOK(run[b]) /\ run[b].pc = "judge" /\ k \in Keys
        /\ tool \in Tools /\ slot[k] \in Slots /\ slot[k].bin \in {None, "torn", "partial", k}
    BY DEF IInv, ShapeInv, CallInv, CallOK, SaveLog, SlotHoldsItsKey
  <1>1. PICK got \in Kept(b) :
           run' = [run EXCEPT ![b] = [run[b] EXCEPT
                     !.pc = IF got = None THEN "end" ELSE "copy", !.got = got]]
    BY DEF SaveLog, Set
  <1>2. /\ got \in Content
        /\ got # None => IF tool = "route" THEN got \in {"partial", k} ELSE run[b].proc = "zero"
    <2>1. DirOK(b, run[b]) /\ run[b].pc \in Launched
      BY <1>0 DEF IInv, DirInv, Launched
    <2>2. dir[DirOf(b, k)].out \in Content
      BY <1>0 DEF IInv, ShapeInv, Dirs, DirOf, Tools
    <2>3. CASE tool = "route"
      BY <1>1, <2>1, <2>2, <2>3 DEF Kept, DirOK, Content
    <2>4. CASE tool # "route"
      BY <1>1, <2>2, <2>4 DEF Kept, Content
    <2> QED BY <2>3, <2>4
  <1> DEFINE r0 == [run[b] EXCEPT !.pc = IF got = None THEN "end" ELSE "copy", !.got = got]
             made0 == [slot[k] EXCEPT !.log = run[b].id]
  <1>3. /\ r0 \in Runs /\ r0.key = k /\ r0.proc = run[b].proc /\ r0.id = run[b].id /\ r0.got = got
        /\ r0.pc = IF got = None THEN "end" ELSE "copy"
    BY <1>0, <1>2 DEF Runs, Steps, Launched
  <1>4. /\ made0 \in Slots /\ made0.bin = slot[k].bin /\ made0.log = run[b].id
        /\ made0.verdict = slot[k].verdict /\ made0.writer = slot[k].writer
    BY <1>0 DEF Slots, Runs
  <1>5. /\ run' = [run EXCEPT ![b] = r0] /\ slot' = [slot EXCEPT ![k] = made0]
        /\ UNCHANGED <<tool, dir, lock, starts, disturbed>>
    BY <1>1 DEF SaveLog
  <1>6. slot'[k] = made0
    BY <1>0, <1>5 DEF IInv, ShapeInv
  <1> HIDE DEF r0, made0
  <1>p. PICK r \in Runs, made \in Slots : r = r0 /\ made = made0
    BY <1>3, <1>4
  <1>7. CallOK(r) /\ r.pc \in Ended
    BY <1>0, <1>2, <1>3, <1>p, CacheAssumption DEF CallOK, Launched, Ended
  <1>8. ASSUME k \notin disturbed
        PROVE  /\ QuietRun(r)' /\ made.bin = None /\ made.verdict = None
    <2>1. slot[k].bin = None /\ slot[k].verdict = None
      BY <1>0, <1>8 DEF IInv, QuietInv, QuietRun, QuietKey
    <2> QED BY <1>3, <1>4, <1>6, <1>p, <2>1, CacheAssumption DEF QuietRun
  <1> QED BY <1>0, <1>3, <1>4, <1>5, <1>7, <1>8, <1>p, SlotStep, CacheAssumption

LEMMA CopyStartStep == ASSUME IInv, NEW b \in Builders, CopyStart(b) PROVE IInv'
  <1> DEFINE k == run[b].key
  <1>0. /\ run[b] \in Runs /\ CallOK(run[b]) /\ run[b].pc = "copy" /\ k \in Keys
        /\ slot[k] \in Slots
    BY DEF IInv, ShapeInv, CallInv, CallOK, CopyStart
  <1> DEFINE r0 == [run[b] EXCEPT !.pc = "copying"]
             made0 == [slot[k] EXCEPT !.bin = "torn"]
  <1>3. /\ r0 \in Runs /\ r0.key = k /\ r0.proc = run[b].proc /\ r0.id = run[b].id
        /\ r0.got = run[b].got /\ r0.pc = "copying"
    BY <1>0 DEF Runs, Steps, Launched
  <1>4. /\ made0 \in Slots /\ made0.bin = "torn" /\ made0.log = slot[k].log
        /\ made0.verdict = slot[k].verdict
    BY <1>0 DEF Slots, Content
  <1>5. /\ run' = [run EXCEPT ![b] = r0] /\ slot' = [slot EXCEPT ![k] = made0]
        /\ UNCHANGED <<tool, dir, lock, starts, disturbed>>
    BY DEF CopyStart, Set
  <1>6. slot'[k] = made0
    BY <1>0, <1>5 DEF IInv, ShapeInv
  <1> HIDE DEF r0, made0
  <1>p. PICK r \in Runs, made \in Slots : r = r0 /\ made = made0
    BY <1>3, <1>4
  <1>7. CallOK(r) /\ r.pc \in Ended
    BY <1>0, <1>3, <1>p DEF CallOK, Launched, Ended
  <1>8. ASSUME k \notin disturbed
        PROVE  QuietRun(r)' /\ made.verdict = None
    <2>1. slot[k].bin = None /\ slot[k].verdict = None /\ slot[k].log = run[b].id
      BY <1>0, <1>8 DEF IInv, QuietInv, QuietRun, QuietKey
    <2> QED BY <1>3, <1>4, <1>6, <1>p, <2>1 DEF QuietRun
  <1> QED BY <1>0, <1>3, <1>4, <1>5, <1>7, <1>8, <1>p, SlotStep

LEMMA CopyEndStep == ASSUME IInv, NEW b \in Builders, CopyEnd(b) PROVE IInv'
  <1> DEFINE k == run[b].key
             bin == IF tool = "route" THEN run[b].got ELSE dir[DirOf(b, k)].out
  <1>0. /\ run[b] \in Runs /\ CallOK(run[b]) /\ run[b].pc = "copying" /\ k \in Keys
        /\ tool \in Tools /\ slot[k] \in Slots
    BY DEF IInv, ShapeInv, CallInv, CallOK, CopyEnd
  <1>2. bin \in {None, "torn", "partial", k} /\ (k \notin disturbed => bin \in {"partial", k})
    <2>1. CASE tool = "route"
      BY <1>0, <2>1 DEF CallOK
    <2>2. CASE tool # "route"
      <3>1. run[b].proc = "zero" /\ DirOK(b, run[b]) /\ run[b].pc \in Launched
        BY <1>0, <2>2 DEF CallOK, IInv, DirInv, Launched
      <3>2. tool = "wled" \/ k \notin disturbed => bin = k
        BY <2>2, <3>1 DEF DirOK
      <3>3. tool = "lorawan" => bin \in {None, "torn", k}
        BY <1>0 DEF IInv, DirInv, DirOf
      <3> QED BY <1>0, <2>2, <3>2, <3>3 DEF Tools
    <2> QED BY <2>1, <2>2
  <1> DEFINE r0 == [run[b] EXCEPT !.pc = "verdict"]
             made0 == [slot[k] EXCEPT !.bin = bin, !.writer = run[b].id]
  <1>3. /\ r0 \in Runs /\ r0.key = k /\ r0.proc = run[b].proc /\ r0.pc = "verdict"
    BY <1>0 DEF Runs, Steps, Launched
  <1>4. /\ made0 \in Slots /\ made0.bin = bin /\ made0.log = slot[k].log
        /\ made0.verdict = slot[k].verdict /\ made0.writer = run[b].id
    BY <1>0, <1>2 DEF Slots, Content, Runs
  <1>5. /\ run' = [run EXCEPT ![b] = r0] /\ slot' = [slot EXCEPT ![k] = made0]
        /\ UNCHANGED <<tool, dir, lock, starts, disturbed>>
    BY DEF CopyEnd, Set
  <1>6. slot'[k] = made0
    BY <1>0, <1>5 DEF IInv, ShapeInv
  <1> HIDE DEF r0, made0, bin
  <1>p. PICK r \in Runs, made \in Slots : r = r0 /\ made = made0
    BY <1>3, <1>4
  <1>7. CallOK(r) /\ r.pc \in Ended
    BY <1>0, <1>3, <1>p DEF CallOK, Launched, Ended
  <1>8. ASSUME k \notin disturbed
        PROVE  /\ QuietRun(r)' /\ made.bin \notin {None, "torn"}
               /\ made.log = made.writer /\ made.verdict = None
    <2>1. slot[k].bin = "torn" /\ slot[k].verdict = None /\ slot[k].log = run[b].id
      BY <1>0, <1>8 DEF IInv, QuietInv, QuietRun, QuietKey
    <2>2. bin \notin {None, "torn"}
      BY <1>0, <1>2, <1>8, CacheAssumption
    <2> QED BY <1>3, <1>4, <1>6, <1>p, <2>1, <2>2 DEF QuietRun
  <1> QED BY <1>0, <1>2, <1>3, <1>4, <1>5, <1>7, <1>8, <1>p, SlotStep

LEMMA VerdictStep == ASSUME IInv, NEW b \in Builders, Verdict(b) PROVE IInv'
  <1> DEFINE k == run[b].key
  <1>0. /\ run[b] \in Runs /\ CallOK(run[b]) /\ run[b].pc = "verdict" /\ k \in Keys
        /\ slot[k] \in Slots /\ slot[k].bin \in {None, "torn", "partial", k}
    BY DEF IInv, ShapeInv, CallInv, CallOK, Verdict, SlotHoldsItsKey
  <1>1. PICK new \in {slot[k].verdict, slot[k].writer} :
           slot' = [slot EXCEPT ![k].verdict = new]
    BY DEF Verdict
  <1> DEFINE r0 == [run[b] EXCEPT !.pc = "end"]
             made0 == [slot[k] EXCEPT !.verdict = new]
  <1>3. /\ r0 \in Runs /\ r0.key = k /\ r0.proc = run[b].proc /\ r0.pc = "end"
    BY <1>0 DEF Runs, Steps, Launched
  <1>4. /\ made0 \in Slots /\ made0.bin = slot[k].bin /\ made0.log = slot[k].log
        /\ made0.verdict = new /\ made0.writer = slot[k].writer
    BY <1>0, <1>1 DEF Slots
  <1>5. /\ run' = [run EXCEPT ![b] = r0] /\ slot' = [slot EXCEPT ![k] = made0]
        /\ UNCHANGED <<tool, dir, lock, starts, disturbed>>
    BY <1>1 DEF Verdict, Set
  <1>6. slot'[k] = made0
    BY <1>0, <1>5 DEF IInv, ShapeInv
  <1> HIDE DEF r0, made0
  <1>p. PICK r \in Runs, made \in Slots : r = r0 /\ made = made0
    BY <1>3, <1>4
  <1>7. CallOK(r) /\ r.pc \in Ended
    BY <1>0, <1>3, <1>p DEF CallOK, Launched, Ended
  <1>8. ASSUME k \notin disturbed
        PROVE  /\ QuietRun(r)' /\ made.bin \notin {None, "torn"}
               /\ made.log = made.writer /\ made.verdict \in {None, made.writer}
    <2>1. QuietRun(run[b]) /\ QuietKey(k)
      BY <1>0, <1>8 DEF IInv, QuietInv
    <2>2. slot[k].bin \notin {None, "torn"}
      BY <1>0, <2>1 DEF QuietRun
    <2>3. slot[k].log = slot[k].writer /\ slot[k].verdict \in {None, slot[k].writer}
      BY <2>1, <2>2 DEF QuietKey
    <2> QED BY <1>1, <1>3, <1>4, <1>6, <1>p, <2>2, <2>3 DEF QuietRun
  <1> QED BY <1>0, <1>3, <1>4, <1>5, <1>7, <1>8, <1>p, SlotStep

\* A call that overlaps another of its key, or is forced, disturbs the key.
LEMMA StartStep ==
    ASSUME IInv, NEW b \in Builders, NEW k \in Keys, NEW forced \in BOOLEAN,
           Start(b, k, forced)
    PROVE  IInv'
  <1>0. /\ run[b].pc \in {"idle", "done", "left"} /\ starts < MaxStarts
        /\ starts \in 0 .. MaxStarts /\ starts' = starts + 1
        /\ UNCHANGED <<tool, slot, dir, lock>>
        /\ disturbed' = disturbed \union
             {j \in {k} : forced \/ \E c \in Builders \ {b} : Working(c) /\ run[c].key = k}
    BY DEF Start, IInv, ShapeInv
  <1>1. starts' \in 0 .. MaxStarts /\ starts' \in Nat
    BY <1>0, CacheAssumption
  <1>2. PICK r \in Runs :
           /\ run' = [run EXCEPT ![b] = r] /\ r.key = k /\ r.proc = None
           /\ \/ r.pc = "prepare" /\ (forced \/ slot[k].bin = None)
              \/ r.pc = "done" /\ slot[k].bin # None
    <2>1. CASE run' = [run EXCEPT ![b] = [Resting EXCEPT !.pc = "prepare", !.key = k,
                                                         !.id = starts + 1]]
               /\ Misses(k, forced)
      <3> DEFINE r == [Resting EXCEPT !.pc = "prepare", !.key = k, !.id = starts + 1]
      <3>1. r \in Runs /\ r.key = k /\ r.proc = None /\ r.pc = "prepare"
        BY <1>0, <1>1, RestingRun DEF Runs, Steps
      <3>2. run' = [run EXCEPT ![b] = r] /\ (forced \/ slot[k].bin = None)
        BY <2>1 DEF Misses, HitAt
      <3> HIDE DEF r
      <3> QED BY <3>1, <3>2
    <2>2. CASE run' = [run EXCEPT ![b] = [Resting EXCEPT !.pc = "done", !.key = k,
                          !.answer = Answer(TRUE, TRUE, slot[k].bin)]]
               /\ ~Misses(k, forced)
      <3> DEFINE a == Answer(TRUE, TRUE, slot[k].bin)
                 r == [Resting EXCEPT !.pc = "done", !.key = k, !.answer = a]
      <3>1. a \in [ok : BOOLEAN, hit : BOOLEAN, bin : Content]
        BY DEF IInv, ShapeInv, Slots, Answer
      <3> HIDE DEF a
      <3>2. r \in Runs /\ r.key = k /\ r.proc = None /\ r.pc = "done"
        BY <3>1, RestingRun DEF Runs, Steps
      <3>3. run' = [run EXCEPT ![b] = r] /\ slot[k].bin # None
        BY <2>2 DEF Misses, HitAt, a
      <3> HIDE DEF r
      <3> QED BY <3>2, <3>3
    <2> QED BY <2>1, <2>2 DEF Start, Set
  <1>3. \A c \in Builders : run'[c] = IF c = b THEN r ELSE run[c]
    BY <1>2 DEF IInv, ShapeInv
  <1>4. ShapeInv' /\ SlotHoldsItsKey'
    BY <1>0, <1>1, <1>2 DEF IInv, ShapeInv, SlotHoldsItsKey
  <1>5. CallInv'
    BY <1>0, <1>2, <1>3 DEF IInv, CallInv, CallOK, Launched, Ended
  <1>6. r.pc \notin Launched /\ run[b].pc \notin Launched
    BY <1>0, <1>2 DEF Launched
  <1>7. LockInv'
    BY <1>0, <1>2, <1>6, LockStep
  <1>8. DirInv'
    BY <1>0, <1>2, <1>6, DirStep
  <1>9. ASSUME k \notin disturbed'
        PROVE  /\ ~forced /\ k \notin disturbed
               /\ \A c \in Builders : Working(c) => run[c].key # k
    BY <1>0, <1>9 DEF Working
  <1>10. ASSUME NEW j \in Keys \ disturbed' PROVE QuietKey(j)'
    <2>1. QuietKey(j)
      BY <1>0, <1>10 DEF IInv, QuietInv
    <2>2. \A c, e \in Builders :
             Working(c)' /\ Working(e)' /\ run'[c].key = j /\ run'[e].key = j => c = e
      BY <1>3, <1>2, <1>9, <1>10, <2>1 DEF QuietKey, Working
    <2>3. \A c \in Builders : run[c].pc = "copying" /\ run[c].key = j
                              => run'[c].pc = "copying" /\ run'[c].key = j
      BY <1>0, <1>3
    <2> QED BY <1>0, <2>1, <2>2, <2>3 DEF QuietKey
  <1>11. ASSUME NEW c \in Builders, run'[c].pc \notin {"idle", "left"},
                run'[c].key \notin disturbed'
         PROVE  QuietRun(run[c])'
    <2>1. CASE c = b
      <3>1. run'[c] = r /\ k \notin disturbed' /\ QuietKey(k)
        BY <1>2, <1>3, <1>9, <1>11, <2>1 DEF IInv, QuietInv
      <3>2. slot[k].bin # "torn"
        BY <1>9, <3>1 DEF QuietKey, Working
      <3> QED BY <1>0, <1>2, <1>9, <3>1, <3>2 DEF QuietRun
    <2>2. CASE c # b
      <3>1. run'[c] = run[c] /\ QuietRun(run[c])
        BY <1>0, <1>3, <1>11, <2>2 DEF IInv, QuietInv
      <3> QED BY <1>0, <3>1 DEF QuietRun
    <2> QED BY <2>1, <2>2
  <1>12. QuietInv'
    BY <1>10, <1>11 DEF QuietInv
  <1> QED BY <1>4, <1>5, <1>7, <1>8, <1>12 DEF IInv

\* A restart disturbs every key that was being built.
LEMMA CrashStep == ASSUME IInv, Crash PROVE IInv'
  <1>1. /\ run' = [b \in Builders |-> Resting] /\ lock' = None
        /\ UNCHANGED <<tool, slot, dir, starts>>
        /\ disturbed' = disturbed \union {run[b].key : b \in {c \in Builders : Working(c)}}
    BY DEF Crash
  <1>2. \A b \in Builders : run'[b].pc = "idle" /\ run'[b].proc = None
    BY <1>1, RestingRun
  <1>3. ShapeInv' /\ SlotHoldsItsKey'
    <2>1. \A b \in Builders : Working(b) => run[b].key \in Keys
      BY DEF IInv, CallInv, CallOK, Working
    <2> QED BY <1>1, <2>1, RestingRun DEF IInv, ShapeInv, SlotHoldsItsKey
  <1>4. CallInv' /\ LockInv'
    BY <1>1, <1>2, CacheAssumption DEF CallInv, CallOK, LockInv, Launched, Ended
  <1>5. DirInv'
    BY <1>1, <1>2 DEF IInv, DirInv, DirOK, Launched
  <1>6. QuietInv'
    <2>1. ASSUME NEW k \in Keys \ disturbed' PROVE QuietKey(k)'
      <3>1. QuietKey(k) /\ \A b \in Builders : Working(b) => run[b].key # k
        BY <1>1, <2>1 DEF IInv, QuietInv
      <3>2. slot[k].bin # "torn"
        BY <3>1 DEF QuietKey, Working
      <3> QED BY <1>1, <1>2, <3>1, <3>2 DEF QuietKey, Working
    <2> QED BY <1>2, <2>1 DEF QuietInv
  <1> QED BY <1>3, <1>4, <1>5, <1>6 DEF IInv

LEMMA StutterIInv == ASSUME IInv, UNCHANGED vars PROVE IInv'
  <1>1. ShapeInv' /\ CallInv' /\ LockInv' /\ SlotHoldsItsKey'
    BY DEF IInv, vars, ShapeInv, CallInv, CallOK, LockInv, SlotHoldsItsKey
  <1>2. DirInv'
    BY DEF IInv, vars, DirInv, DirOK, DirOf
  <1>3. QuietInv'
    BY DEF IInv, vars, QuietInv, QuietKey, QuietRun, Working
  <1> QED BY <1>1, <1>2, <1>3 DEF IInv

LEMMA NextIInv == ASSUME IInv, [Next]_vars PROVE IInv'
  <1>1. CASE \E b \in Builders, k \in Keys, forced \in BOOLEAN : Start(b, k, forced)
    BY <1>1, StartStep
  <1>2. CASE \E b \in Builders : CallStep(b) \/ ProcStep(b) \/ TimerFires(b) \/ ReaderLeaves(b)
    <2>1. PICK b \in Builders : CallStep(b) \/ ProcStep(b) \/ TimerFires(b) \/ ReaderLeaves(b)
      BY <1>2
    <2>2. CASE CallStep(b)
      BY <2>2, LocalSteps, LaunchStep, EndSteps, SaveLogStep, CopyStartStep, CopyEndStep,
         VerdictStep DEF CallStep
    <2>3. CASE ~CallStep(b)
      BY <2>1, <2>3, LocalSteps, ToolStep DEF ProcStep
    <2> QED BY <2>2, <2>3
  <1>3. CASE Crash
    BY <1>3, CrashStep
  <1>4. CASE UNCHANGED vars
    BY <1>4, StutterIInv
  <1> QED BY <1>1, <1>2, <1>3, <1>4 DEF Next

-----------------------------------------------------------------------------
(* The theorems.                                                           *)

\* Whatever the callers, the tools, the watchdogs and the restarts do, the
\* inductive invariant holds (kicad/route.py, lorawan/compile.py and
\* wled_build.py from the look at the slot to the answer).
THEOREM Invariance == Spec => []IInv
  <1>1. Init => IInv
    BY InitIInv
  <1>2. IInv /\ [Next]_vars => IInv'
    BY NextIInv
  <1> QED BY <1>1, <1>2, PTL DEF Spec

LEMMA SoundIfIInv == ASSUME IInv PROVE SlotsSound
  <1>1. TypeOK
    <2>1. ASSUME lock # None PROVE tool = "wled" /\ Working(lock) /\ run[lock].proc # None
      <3>1. lock \in Builders /\ tool = "wled" /\ run[lock].pc \in Launched
        BY <2>1 DEF IInv, LockInv
      <3> QED BY <3>1 DEF IInv, CallInv, CallOK, Working, Launched
    <2>2. \A k \in Keys : slot[k].bin \in Content
      BY DEF IInv, ShapeInv, Slots
    <2> QED BY <2>1, <2>2 DEF IInv, ShapeInv, TypeOK
  <1>2. QuietSlotWhole /\ QuietSlotAgrees
    BY DEF IInv, QuietInv, QuietKey, QuietSlotWhole, QuietSlotAgrees
  <1>3. GoodAnswerIsThere
    BY DEF IInv, QuietInv, QuietRun, GoodAnswerIsThere
  <1> QED BY <1>1, <1>2, <1>3 DEF IInv, SlotsSound

\* No slot ever holds another key's artefact; and one whose builds were not
\* forced, did not overlap and were not interrupted is whole, has the log and
\* the verdict of the run that wrote it, and is there for whoever was told
\* that his build is good.
THEOREM SlotsCorrect == Spec => []SlotsSound
  BY Invariance, SoundIfIInv, PTL

-----------------------------------------------------------------------------

\* What a thread is about to put into the cache is what the file holds, but
\* while a write is at work or when one has overtaken it.
FillInv ==
    \A t \in Threads : pc[t] = "fill" /\ ~call[t].overtaken =>
        call[t].held = file[call[t].id] \/ Midway(call[t].id)

\* A creation has its content from the start.
CreateInv ==
    \A t \in Threads : pc[t] = "check" /\ call[t].op # "delete" =>
        call[t].held \in Entry

CacheInv == CacheTypeOK /\ CreateInv /\ FillInv /\ CacheFresh

\* The calls of a thread that has none, and of one that has just begun.
LEMMA CallTypes ==
    ASSUME NEW request \in Ops, NEW i \in Ids, NEW n \in Entry
    PROVE  /\ [NoCall EXCEPT !.op = request, !.id = i] \in Calls
           /\ [NoCall EXCEPT !.op = request, !.id = i, !.held = n] \in Calls
  BY LibraryAssumption DEF NoCall, Calls, Nothing

LEMMA NoCallType == NoCall \in Calls
  BY DEF NoCall, Calls, Nothing

\* The fields of a call.
LEMMA CallFields ==
    ASSUME NEW c \in Calls
    PROVE  /\ c.id \in Ids \cup {NoEntry}
           /\ c.held \in Entry \cup {Absent}
           /\ c.todo \subseteq Ids
           /\ c.draft \in [Ids -> Entry \cup {Absent}]
           /\ c.overtaken \in BOOLEAN /\ c.late \in BOOLEAN
  BY DEF Calls

\* What the actions do to a call keeps its type.
LEMMA OvertakenType ==
    ASSUME NEW c \in Calls
    PROVE  [c EXCEPT !.overtaken = TRUE] \in Calls
  BY DEF Calls

LEMMA LateType ==
    ASSUME NEW c \in Calls
    PROVE  [c EXCEPT !.late = TRUE] \in Calls
  BY DEF Calls

LEMMA HeldType ==
    ASSUME NEW c \in Calls, NEW n \in Entry
    PROVE  [c EXCEPT !.held = n] \in Calls
  BY DEF Calls

LEMMA FilledType ==
    ASSUME NEW c \in Calls
    PROVE  [c EXCEPT !.held = Absent, !.overtaken = FALSE] \in Calls
  BY DEF Calls

LEMMA TakenType ==
    ASSUME NEW c \in Calls, NEW i \in Ids, NEW e \in Entry \cup {Absent},
           NEW l \in BOOLEAN
    PROVE  Taken(c, i, e, l) \in Calls
  BY DEF Calls, Taken

LEMMA TodoType ==
    ASSUME NEW c \in Calls, NEW S \in SUBSET Ids
    PROVE  [c EXCEPT !.todo = S] \in Calls
  BY DEF Calls

LEMMA ChosenType ==
    ASSUME NEW c \in Calls, NEW i \in Ids
    PROVE  Chosen(c, i) \in Calls
  BY DEF Calls, Chosen

\* Nothing is cached and no thread is at work.
LEMMA InitCacheInv == ASSUME CacheInit PROVE CacheInv
  <1>1. CacheTypeOK
    <2>1. call \in [Threads -> Calls]
      BY NoCallType DEF CacheInit
    <2>2. /\ Nothing \in [Ids -> Entry \cup {Absent}]
          /\ Nothing \in [Ids -> Entry \cup {Absent, Torn}]
      BY DEF Nothing
    <2>3. /\ planted \in [Ids -> BOOLEAN]
          /\ writes \in 0..MaxWrites /\ restarts \in 0..MaxRestarts
      BY LibraryAssumption DEF CacheInit
    <2>4. \A t \in Threads : pc[t] = "idle"
      BY DEF CacheInit
    <2> QED BY <2>1, <2>2, <2>3, <2>4 DEF CacheInit, CacheTypeOK
  <1>2. CreateInv /\ FillInv /\ CacheFresh
    BY DEF CacheInit, CreateInv, FillInv, CacheFresh, Nothing
  <1> QED BY <1>1, <1>2 DEF CacheInv

\* Every action keeps the calls' type.
LEMMA CallsStep == ASSUME CacheTypeOK, CacheNext PROVE call' \in [Threads -> Calls]
  <1>0. /\ call \in [Threads -> Calls]
        /\ \A t \in Threads : call[t] \in Calls
        /\ NoCall \in Calls
    BY NoCallType DEF CacheTypeOK
  <1>1. ASSUME NEW t \in Threads, Check(t) PROVE call' \in [Threads -> Calls]
    BY <1>1, <1>0 DEF Check, Goto, Return
  <1>2. ASSUME NEW t \in Threads, OpenFile(t) PROVE call' \in [Threads -> Calls]
    BY <1>2, <1>0 DEF OpenFile, Goto, Return
  <1>3. ASSUME NEW t \in Threads, WriteFile(t) PROVE call' \in [Threads -> Calls]
    BY <1>3, <1>0 DEF WriteFile, Goto, Return
  <1>4. ASSUME NEW t \in Threads, Unlink(t) PROVE call' \in [Threads -> Calls]
    BY <1>4, <1>0 DEF Unlink, Goto, Return
  <1>5. ASSUME NEW t \in Threads, Pop(t) PROVE call' \in [Threads -> Calls]
    BY <1>5, <1>0, OvertakenType DEF Pop, Goto, Return
  <1>6. ASSUME NEW t \in Threads, Bump(t) PROVE call' \in [Threads -> Calls]
    BY <1>6, <1>0, LateType DEF Bump, Goto, Return
  <1>7. ASSUME NEW t \in Threads, Look(t) PROVE call' \in [Threads -> Calls]
    BY <1>7, <1>0 DEF Look, Goto, Return
  <1>8. ASSUME NEW t \in Threads, Read(t) PROVE call' \in [Threads -> Calls]
    <2>1. CASE /\ Validates(file[call[t].id])
               /\ call' = [call EXCEPT ![t] = [@ EXCEPT !.held = file[call[t].id]]]
      <3>1. file[call[t].id] \in Entry
        BY <2>1 DEF Validates
      <3>2. [call[t] EXCEPT !.held = file[call[t].id]] \in Calls
        BY <3>1, <1>0, HeldType
      <3> QED BY <2>1, <3>2, <1>0
    <2>2. CASE Return(t)
      BY <2>2, <1>0 DEF Return
    <2> QED BY <1>8, <2>1, <2>2 DEF Read
  <1>9. ASSUME NEW t \in Threads, Fill(t) PROVE call' \in [Threads -> Calls]
    BY <1>9, <1>0, FilledType DEF Fill, Goto, Return
  <1>10. ASSUME NEW t \in Threads, Take(t) PROVE call' \in [Threads -> Calls]
    <2> DEFINE i == call[t].id
               c == Taken(call[t], i, cache[i], planted[i])
    <2>1. CASE call' = [call EXCEPT ![t] = c]
      <3>1. i \in Ids
        BY <1>10 DEF Take, CacheTypeOK
      <3>2. cache[i] \in Entry \cup {Absent} /\ planted[i] \in BOOLEAN
        BY <3>1 DEF CacheTypeOK
      <3>3. c \in Calls
        BY <1>0, <3>1, <3>2, TakenType
      <3> QED BY <2>1, <3>3, <1>0
    <2>2. CASE Return(t)
      BY <2>2, <1>0 DEF Return
    <2>3. call' = [call EXCEPT ![t] = c] \/ Return(t)
      BY <1>10 DEF Take
    <2> QED BY <2>1, <2>2, <2>3
  <1>11. ASSUME NEW t \in Threads, ListIds(t) PROVE call' \in [Threads -> Calls]
    BY <1>11, <1>0, TodoType DEF ListIds
  <1>12. ASSUME NEW t \in Threads, Walk(t) PROVE call' \in [Threads -> Calls]
    <2>1. ASSUME NEW i \in call[t].todo,
                 call' = [call EXCEPT ![t] = Chosen(@, i)]
          PROVE  call' \in [Threads -> Calls]
      <3>1. i \in Ids
        BY <1>0, CallFields
      <3>2. Chosen(call[t], i) \in Calls
        BY <3>1, <1>0, ChosenType
      <3> QED BY <2>1, <3>2, <1>0
    <2>2. CASE UNCHANGED call
      BY <2>2, <1>0
    <2> QED BY <1>12, <2>1, <2>2 DEF Walk, Goto
  <1>13. ASSUME NEW t \in Threads, SetListed(t) PROVE call' \in [Threads -> Calls]
    BY <1>13, <1>0 DEF SetListed, Goto, Return
  <1>14. ASSUME NEW t \in Threads, SetStamp(t) PROVE call' \in [Threads -> Calls]
    BY <1>14, <1>0 DEF SetStamp, Goto, Return
  <1>15. ASSUME NEW t \in Threads, NEW request \in Ops, NEW i \in Ids,
                Begin(t, request, i)
         PROVE  call' \in [Threads -> Calls]
    <2> DEFINE a == [NoCall EXCEPT !.op = request, !.id = i]
               b == [NoCall EXCEPT !.op = request, !.id = i, !.held = writes + 1]
    <2>1. CASE call' = [call EXCEPT ![t] = a]
      <3>1. a \in Calls
        BY LibraryAssumption DEF NoCall, Calls, Nothing
      <3> QED BY <2>1, <3>1, <1>0
    <2>2. CASE writes < MaxWrites /\ call' = [call EXCEPT ![t] = b]
      <3>1. writes + 1 \in Entry
        BY <2>2, LibraryAssumption DEF Entry, CacheTypeOK
      <3>2. b \in Calls
        BY <3>1, CallTypes
      <3> QED BY <2>2, <3>2, <1>0
    <2>3. \/ call' = [call EXCEPT ![t] = a]
          \/ writes < MaxWrites /\ call' = [call EXCEPT ![t] = b]
      BY <1>15 DEF Begin
    <2> QED BY <2>1, <2>2, <2>3
  <1>16. CASE Restart
    BY <1>16, <1>0 DEF Restart
  <1> QED BY <1>1, <1>2, <1>3, <1>4, <1>5, <1>6, <1>7, <1>8, <1>9, <1>10,
             <1>11, <1>12, <1>13, <1>14, <1>15, <1>16 DEF CacheNext, Step

\* Every action keeps the types.
LEMMA TypeStep == ASSUME CacheInv, CacheNext PROVE CacheTypeOK' /\ CreateInv'
  <1> USE LibraryAssumption, CallsStep DEF CacheInv, CacheTypeOK, CreateInv, listVars, bounds, Goto, Return
  <1>1. ASSUME NEW t \in Threads, Check(t) PROVE CacheTypeOK' /\ CreateInv'
    BY <1>1 DEF Check
  <1>2. ASSUME NEW t \in Threads, OpenFile(t) PROVE CacheTypeOK' /\ CreateInv'
    BY <1>2 DEF OpenFile
  <1>3. ASSUME NEW t \in Threads, WriteFile(t) PROVE CacheTypeOK' /\ CreateInv'
    BY <1>3 DEF WriteFile, AfterWrite
  <1>4. ASSUME NEW t \in Threads, Unlink(t) PROVE CacheTypeOK' /\ CreateInv'
    BY <1>4 DEF Unlink
  <1>5. ASSUME NEW t \in Threads, Pop(t) PROVE CacheTypeOK' /\ CreateInv'
    BY <1>5 DEF Pop
  <1>6. ASSUME NEW t \in Threads, Bump(t) PROVE CacheTypeOK' /\ CreateInv'
    BY <1>6 DEF Bump, Bumped
  <1>7. ASSUME NEW t \in Threads, Look(t) PROVE CacheTypeOK' /\ CreateInv'
    BY <1>7 DEF Look
  <1>8. ASSUME NEW t \in Threads, Read(t) PROVE CacheTypeOK' /\ CreateInv'
    <2>1. CASE /\ Validates(file[call[t].id])
               /\ call' = [call EXCEPT ![t] = [@ EXCEPT !.held = file[call[t].id]]]
               /\ pc' = [pc EXCEPT ![t] = "fill"]
      <3>1. call[t] \in Calls /\ call[t].id \in Ids
        BY <1>8 DEF Read
      <3>2. call'[t].held \in Entry /\ call'[t].id = call[t].id
        BY <2>1, <3>1 DEF Validates, Calls
      <3>3. \A u \in Threads : u # t => pc'[u] = pc[u] /\ call'[u] = call[u]
        BY <2>1
      <3> QED BY <1>8, <2>1, <3>1, <3>2, <3>3 DEF Read
    <2>2. CASE Return(t)
      BY <1>8, <2>2 DEF Read
    <2> QED BY <1>8, <2>1, <2>2 DEF Read
  <1>9. ASSUME NEW t \in Threads, Fill(t) PROVE CacheTypeOK' /\ CreateInv'
    <2>1. call[t] \in Calls /\ call[t].id \in Ids /\ call[t].held \in Entry
      BY <1>9 DEF Fill
    <2>2. call'[t].id = call[t].id
      BY <1>9, <2>1 DEF Fill, Calls
    <2>3. \A u \in Threads : u # t => pc'[u] = pc[u] /\ call'[u] = call[u]
      BY <1>9 DEF Fill
    <2>4. call[t].overtaken \in BOOLEAN
      BY <2>1, CallFields
    <2>5. planted' \in [Ids -> BOOLEAN]
      BY <1>9, <2>4 DEF Fill
    <2> QED BY <1>9, <2>1, <2>2, <2>3, <2>5 DEF Fill
  <1>10. ASSUME NEW t \in Threads, Take(t) PROVE CacheTypeOK' /\ CreateInv'
    BY <1>10 DEF Take
  <1>11. ASSUME NEW t \in Threads, ListIds(t) PROVE CacheTypeOK' /\ CreateInv'
    BY <1>11 DEF ListIds
  <1>12. ASSUME NEW t \in Threads, Walk(t) PROVE CacheTypeOK' /\ CreateInv'
    <2>1. ASSUME NEW i \in call[t].todo,
                 call' = [call EXCEPT ![t] = Chosen(@, i)],
                 pc' = [pc EXCEPT ![t] = "look"]
          PROVE  CacheTypeOK' /\ CreateInv'
      <3>1. call[t] \in Calls
        OBVIOUS
      <3>2. i \in Ids
        BY <3>1, CallFields
      <3>3. call'[t].id = i
        BY <2>1, <3>1 DEF Chosen, Calls
      <3>4. \A u \in Threads : u # t => pc'[u] = pc[u] /\ call'[u] = call[u]
        BY <2>1
      <3> QED BY <1>12, <2>1, <3>2, <3>3, <3>4 DEF Walk
    <2>2. CASE Goto(t, "list")
      BY <1>12, <2>2 DEF Walk
    <2> QED BY <1>12, <2>1, <2>2 DEF Walk
  <1>13. ASSUME NEW t \in Threads, SetListed(t) PROVE CacheTypeOK' /\ CreateInv'
    <2>1. call[t] \in Calls
      OBVIOUS
    <2>2. call[t].draft \in [Ids -> Entry \cup {Absent}] /\ call[t].late \in BOOLEAN
      BY <2>1, CallFields
    <2> QED BY <1>13, <2>2 DEF SetListed
  <1>14. ASSUME NEW t \in Threads, SetStamp(t) PROVE CacheTypeOK' /\ CreateInv'
    BY <1>14 DEF SetStamp
  <1>15. ASSUME NEW t \in Threads, NEW request \in Ops, NEW i \in Ids,
                Begin(t, request, i)
         PROVE  CacheTypeOK' /\ CreateInv'
    <2>1. /\ FirstStep(request) \in {"check", "look", "ids"}
          /\ FirstStep(request) = "check" => request \in {"create", "overwrite", "delete"}
      BY DEF FirstStep
    <2>2. writes' \in 0..MaxWrites
      BY <1>15 DEF Begin
    <2>3. call'[t].id = i /\ (call'[t].held \in Entry \/ request \notin {"create", "overwrite"})
                         /\ call'[t].op = request
      <3>1. CASE call' = [call EXCEPT ![t] = [NoCall EXCEPT !.op = request, !.id = i]]
                 /\ request \in {"delete", "get", "list"}
        BY <3>1 DEF NoCall
      <3>2. CASE /\ writes < MaxWrites
                 /\ call' = [call EXCEPT ![t] = [NoCall EXCEPT !.op = request, !.id = i,
                                                               !.held = writes + 1]]
        <4>1. writes + 1 \in Entry
          BY <3>2 DEF Entry
        <4> QED BY <3>2, <4>1 DEF NoCall
      <3> QED BY <1>15, <3>1, <3>2 DEF Begin
    <2>4. pc'[t] = FirstStep(request)
      BY <1>15 DEF Begin
    <2>5. \A u \in Threads : u # t => pc'[u] = pc[u] /\ call'[u] = call[u]
      BY <1>15 DEF Begin
    <2>6. pc' \in [Threads -> {"idle", "check", "open", "write", "unlink", "pop",
                               "bump", "look", "read", "fill", "take", "ids",
                               "walk", "list", "stamp"}]
      BY <1>15, <2>1 DEF Begin
    <2>7. CreateInv'
      BY <2>1, <2>3, <2>4, <2>5
    <2> QED BY <1>15, <2>1, <2>2, <2>3, <2>4, <2>5, <2>6, <2>7 DEF Begin
  <1>16. CASE Restart
    <2>1. Nothing \in [Ids -> Entry \cup {Absent}]
      BY DEF Nothing
    <2>2. CreateInv'
      BY <1>16 DEF Restart
    <2>3. /\ planted' \in [Ids -> BOOLEAN]
          /\ pc' \in [Threads -> {"idle"}]
          /\ restarts' \in 0..MaxRestarts
      BY <1>16 DEF Restart
    <2>4. /\ \A t \in Threads : pc'[t] = "idle"
          /\ pc' \in [Threads -> {"idle", "check", "open", "write", "unlink", "pop",
                                  "bump", "look", "read", "fill", "take", "ids",
                                  "walk", "list", "stamp"}]
      BY <2>3
    <2> QED BY <1>16, <2>1, <2>2, <2>3, <2>4 DEF Restart
  <1> QED BY <1>1, <1>2, <1>3, <1>4, <1>5, <1>6, <1>7, <1>8, <1>9, <1>10,
             <1>11, <1>12, <1>13, <1>14, <1>15, <1>16 DEF CacheNext, Step

\* The cache stays fresh, and so does what threads are about to put into it.
LEMMA FreshStep == ASSUME CacheInv, CacheNext PROVE FillInv' /\ CacheFresh'
  <1> USE LibraryAssumption DEF CacheInv, CacheTypeOK, FillInv, CacheFresh, Midway,
                                listVars, bounds, Goto, Return
  <1>1. ASSUME NEW t \in Threads, Check(t) PROVE FillInv' /\ CacheFresh'
    BY <1>1 DEF Check, NoCall
  <1>2. ASSUME NEW t \in Threads, OpenFile(t) PROVE FillInv' /\ CacheFresh'
    BY <1>2 DEF OpenFile
  <1>3. ASSUME NEW t \in Threads, WriteFile(t) PROVE FillInv' /\ CacheFresh'
    BY <1>3 DEF WriteFile, AfterWrite
  <1>4. ASSUME NEW t \in Threads, Unlink(t) PROVE FillInv' /\ CacheFresh'
    BY <1>4 DEF Unlink, NoCall
  <1>5. ASSUME NEW t \in Threads, Pop(t) PROVE FillInv' /\ CacheFresh'
    BY <1>5 DEF Pop
  <1>6. ASSUME NEW t \in Threads, Bump(t) PROVE FillInv' /\ CacheFresh'
    BY <1>6 DEF Bump, NoCall
  <1>7. ASSUME NEW t \in Threads, Look(t) PROVE FillInv' /\ CacheFresh'
    BY <1>7 DEF Look
  <1>8. ASSUME NEW t \in Threads, Read(t) PROVE FillInv' /\ CacheFresh'
    <2>1. CASE /\ Validates(file[call[t].id])
               /\ call' = [call EXCEPT ![t] = [@ EXCEPT !.held = file[call[t].id]]]
               /\ pc' = [pc EXCEPT ![t] = "fill"]
      <3>1. call[t] \in Calls
        OBVIOUS
      <3>2. call'[t].held = file[call[t].id] /\ call'[t].id = call[t].id
        BY <2>1, <3>1 DEF Calls
      <3>3. \A u \in Threads : u # t => pc'[u] = pc[u] /\ call'[u] = call[u]
        BY <2>1
      <3>4. \A i \in Ids : Midway(i) => Midway(i)'
        BY <1>8, <3>3 DEF Read
      <3> QED BY <1>8, <2>1, <3>2, <3>3, <3>4 DEF Read
    <2>2. CASE Return(t)
      BY <1>8, <2>2 DEF Read, NoCall
    <2> QED BY <1>8, <2>1, <2>2 DEF Read
  <1>9. ASSUME NEW t \in Threads, Fill(t) PROVE FillInv' /\ CacheFresh'
    BY <1>9 DEF Fill
  <1>10. ASSUME NEW t \in Threads, Take(t) PROVE FillInv' /\ CacheFresh'
    BY <1>10 DEF Take, NoCall
  <1>11. ASSUME NEW t \in Threads, ListIds(t) PROVE FillInv' /\ CacheFresh'
    BY <1>11 DEF ListIds
  <1>12. ASSUME NEW t \in Threads, Walk(t) PROVE FillInv' /\ CacheFresh'
    BY <1>12 DEF Walk
  <1>13. ASSUME NEW t \in Threads, SetListed(t) PROVE FillInv' /\ CacheFresh'
    BY <1>13 DEF SetListed
  <1>14. ASSUME NEW t \in Threads, SetStamp(t) PROVE FillInv' /\ CacheFresh'
    BY <1>14 DEF SetStamp, NoCall
  <1>15. ASSUME NEW t \in Threads, NEW request \in Ops, NEW i \in Ids,
                Begin(t, request, i)
         PROVE  FillInv' /\ CacheFresh'
    BY <1>15 DEF Begin, FirstStep, NoCall
  <1>16. CASE Restart
    BY <1>16 DEF Restart, Nothing
  <1> QED BY <1>1, <1>2, <1>3, <1>4, <1>5, <1>6, <1>7, <1>8, <1>9, <1>10,
             <1>11, <1>12, <1>13, <1>14, <1>15, <1>16 DEF CacheNext, Step

\* The inductive invariant is a state predicate of cacheVars.
LEMMA StutterCacheInv == ASSUME CacheInv, UNCHANGED cacheVars PROVE CacheInv'
  BY DEF CacheInv, cacheVars, CacheTypeOK, CreateInv, FillInv, CacheFresh, Midway

\* The inductive invariant holds in every reachable state.
THEOREM CacheInvariance == CacheSpec => []CacheInv
  <1>1. CacheInit => CacheInv
    BY InitCacheInv
  <1>2. CacheInv /\ [CacheNext]_cacheVars => CacheInv'
    BY TypeStep, FreshStep, StutterCacheInv DEF CacheInv
  <1> QED BY <1>1, <1>2, PTL DEF CacheSpec

\* Every variable keeps its type; in particular nothing but an entry that
\* validated is ever put into the cache.
THEOREM CacheTypeCorrect == CacheSpec => []CacheTypeOK
  <1>1. CacheInv => CacheTypeOK
    BY DEF CacheInv
  <1> QED BY <1>1, CacheInvariance, PTL

\* The cache is stale only by a write at work or an overtaken reader.
THEOREM Fresh == CacheSpec => []CacheFresh
  <1>1. CacheInv => CacheFresh
    BY DEF CacheInv
  <1> QED BY <1>1, CacheInvariance, PTL
-----------------------------------------------------------------------------
(* The listing.                                                            *)

\* A listing under way has the ids it takes from the tree, an empty draft to
\* begin with, and nothing left to take at its end.
WalkInv ==
    \A t \in Threads :
       /\ pc[t] \in {"ids", "walk", "list", "stamp"} => call[t].op = "list"
       /\ pc[t] = "ids" => call[t].draft = Nothing
       /\ pc[t] = "list" => call[t].todo = {}

\* The entry a thread is about to take.
Due(t) == IF pc[t] \in {"look", "read", "fill", "take"} THEN {call[t].id} ELSE {}

\* What a listing that no write overtook has taken is what the tree holds, but
\* while a write is at work; the rest it still has to take.
DraftInv ==
    \A t \in Threads :
       (/\ pc[t] \in {"walk", "look", "read", "fill", "take", "list"}
        /\ call[t].op = "list" /\ ~call[t].late)
       => Writing \/ \A i \in Ids \ (call[t].todo \cup Due(t)) : call[t].draft[i] = file[i]

\* The listing's version was one the library had, and whoever is about to write
\* the present one beside a listing that is not stale writes it beside the
\* tree's.
StampInv ==
    /\ stamp # NoEntry => stamp <= version
    /\ \A t \in Threads : pc[t] = "stamp" /\ ~call[t].late /\ ~stale => listed = file \/ Writing

ListingInv == WalkInv /\ DraftInv /\ StampInv /\ ListingFresh


\* The fields of a call that an action has changed.
LEMMA TakenFields ==
    ASSUME NEW c \in Calls, NEW i \in Ids, NEW e \in Entry \cup {Absent}, NEW l \in BOOLEAN
    PROVE  LET d == Taken(c, i, e, l)
           IN  /\ d.op = c.op /\ d.id = c.id /\ d.todo = c.todo
               /\ d.late = (c.late \/ l)
               /\ d.draft[i] = e
               /\ \A j \in Ids : j # i => d.draft[j] = c.draft[j]
  BY DEF Calls, Taken

LEMMA ChosenFields ==
    ASSUME NEW c \in Calls, NEW i \in Ids
    PROVE  LET d == Chosen(c, i)
           IN  /\ d.op = c.op /\ d.id = i /\ d.todo = c.todo \ {i}
               /\ d.late = c.late /\ d.draft = c.draft
  BY DEF Calls, Chosen

LEMMA InitListingInv == ASSUME CacheInit PROVE ListingInv
  BY LibraryAssumption DEF CacheInit, ListingInv, WalkInv, DraftInv, StampInv, ListingFresh

\* A step that leaves the tree, the listing and the version alone, and of the
\* calls only its own thread's, which it ends or takes to a step outside a
\* listing.
LEMMA QuietCacheStep ==
    ASSUME CacheInv, ListingInv, NEW t \in Threads,
           UNCHANGED <<file, listed, stamp, stale, version>>,
           \A u \in Threads : u # t => pc'[u] = pc[u] /\ call'[u] = call[u],
           Writing => Writing',
           pc'[t] \notin {"ids", "walk", "list", "stamp"},
           \/ pc'[t] \notin {"look", "read", "fill", "take"}
           \/ /\ pc[t] \in {"look", "read", "fill", "take"}
              /\ call'[t].op = call[t].op /\ call'[t].late = call[t].late
              /\ call'[t].id = call[t].id /\ call'[t].todo = call[t].todo
              /\ call'[t].draft = call[t].draft
           \/ call'[t].op # "list"
    PROVE  ListingInv'
  <1>1. WalkInv'
    BY DEF ListingInv, WalkInv
  <1>2. DraftInv'
    <2> SUFFICES ASSUME NEW u \in Threads,
                        pc'[u] \in {"walk", "look", "read", "fill", "take", "list"},
                        call'[u].op = "list", ~call'[u].late
                 PROVE  Writing' \/ \A i \in Ids \ (call'[u].todo \cup Due(u)') :
                                       call'[u].draft[i] = file'[i]
      BY DEF DraftInv
    <2>1. CASE u # t
      <3>1. Due(u)' = Due(u)
        BY <2>1 DEF Due
      <3> QED BY <2>1, <3>1 DEF ListingInv, DraftInv
    <2>2. CASE u = t
      <3>1. Due(u)' = Due(u) /\ pc[t] \in {"look", "read", "fill", "take"}
        BY <2>2 DEF Due
      <3> QED BY <2>2, <3>1 DEF ListingInv, DraftInv
    <2> QED BY <2>1, <2>2
  <1>3. StampInv' /\ ListingFresh'
    BY DEF ListingInv, StampInv, ListingFresh
  <1> QED BY <1>1, <1>2, <1>3 DEF ListingInv


\* With a write at work, whatever happens to the tree, it is enough that the
\* calls of others stay listings as they are.
LEMMA WritingStep ==
    ASSUME CacheInv, ListingInv, NEW t \in Threads, Writing',
           UNCHANGED <<stamp, version>>,
           \A u \in Threads : u # t => /\ pc'[u] = pc[u] /\ call'[u].op = call[u].op
                                       /\ call'[u].draft = call[u].draft
                                       /\ call'[u].todo = call[u].todo,
           pc'[t] \notin {"ids", "walk", "list", "stamp"}
    PROVE  ListingInv'
  <1>1. WalkInv'
    BY DEF ListingInv, WalkInv
  <1>2. DraftInv' /\ StampInv' /\ ListingFresh'
    BY DEF ListingInv, DraftInv, StampInv, ListingFresh
  <1> QED BY <1>1, <1>2 DEF ListingInv

\* Every action keeps the invariant of the listing.
LEMMA ListStep == ASSUME CacheInv, ListingInv, CacheNext PROVE ListingInv'
  <1> USE DEF listVars, bounds, Goto, Return
  <1>0. /\ DOMAIN pc = Threads /\ call \in [Threads -> Calls]
        /\ pc = [t \in Threads |-> pc[t]]
        /\ \A t \in Threads : call[t] \in Calls
    BY DEF CacheInv, CacheTypeOK
  <1>1. ASSUME NEW t \in Threads, Check(t) PROVE ListingInv'
    <2>1. /\ pc'[t] \in {"open", "unlink", "idle"} /\ pc[t] = "check"
          /\ \A u \in Threads : u # t => pc'[u] = pc[u] /\ call'[u] = call[u]
          /\ UNCHANGED <<file, listed, stamp, stale, version>>
      BY <1>0, <1>1 DEF Check
    <2>2. Writing => Writing'
      BY <2>1 DEF Writing
    <2> QED BY <2>1, <2>2, QuietCacheStep
  <1>2. ASSUME NEW t \in Threads, OpenFile(t) PROVE ListingInv'
    <2>1. /\ pc'[t] = "write" /\ UNCHANGED <<call, stamp, version>>
          /\ \A u \in Threads : u # t => pc'[u] = pc[u]
      BY <1>0, <1>2 DEF OpenFile
    <2>2. Writing'
      BY <2>1 DEF Writing
    <2> QED BY <2>1, <2>2, WritingStep
  <1>3. ASSUME NEW t \in Threads, WriteFile(t) PROVE ListingInv'
    <2>1. /\ pc'[t] = "pop" /\ UNCHANGED <<call, stamp, version>>
          /\ \A u \in Threads : u # t => pc'[u] = pc[u]
      BY <1>0, <1>3 DEF WriteFile, AfterWrite
    <2>2. Writing'
      BY <2>1 DEF Writing
    <2> QED BY <2>1, <2>2, WritingStep
  <1>4. ASSUME NEW t \in Threads, Unlink(t) PROVE ListingInv'
    <2>1. /\ \A u \in Threads : u # t => pc'[u] = pc[u] /\ call'[u] = call[u]
          /\ UNCHANGED <<listed, stamp, stale, version>> /\ pc[t] = "unlink"
          /\ file' = [file EXCEPT ![call[t].id] = Absent]
          /\ \/ pc'[t] = "pop"
             \/ pc'[t] = "idle" /\ file[call[t].id] = Absent
      BY <1>0, <1>4 DEF Unlink
    <2>2. CASE pc'[t] = "pop"
      <3>1. Writing'
        BY <2>2 DEF Writing
      <3> QED BY <2>1, <2>2, <3>1, WritingStep
    <2>3. CASE pc'[t] = "idle" /\ file[call[t].id] = Absent
      <3>1. file' = file
        BY <2>1, <2>3 DEF CacheInv, CacheTypeOK
      <3>2. Writing => Writing'
        BY <2>1 DEF Writing
      <3> QED BY <2>1, <2>3, <3>1, <3>2, QuietCacheStep
    <2> QED BY <2>1, <2>2, <2>3
  <1>5. ASSUME NEW t \in Threads, Pop(t) PROVE ListingInv'
    <2>1. /\ pc'[t] = "bump" /\ UNCHANGED <<stamp, version>>
          /\ \A u \in Threads : u # t => pc'[u] = pc[u]
      BY <1>0, <1>5 DEF Pop
    <2>2. Writing'
      BY <2>1 DEF Writing
    <2>3. \A u \in Threads : /\ call'[u].op = call[u].op
                             /\ call'[u].draft = call[u].draft
                             /\ call'[u].todo = call[u].todo
      BY <1>0, <1>5 DEF Pop, Calls
    <2> QED BY <2>1, <2>2, <2>3, WritingStep
  <1>6. ASSUME NEW t \in Threads, Bump(t) PROVE ListingInv'
    <2>1. /\ pc'[t] = "idle" /\ UNCHANGED <<file, listed, stamp, stale>> /\ version' = version + 1
          /\ \A u \in Threads : u # t => pc'[u] = pc[u]
      BY <1>0, <1>6 DEF Bump, Bumped
    <2>2. \A u \in Threads : u # t => /\ call'[u].op = call[u].op
                                      /\ call'[u].draft = call[u].draft
                                      /\ call'[u].todo = call[u].todo
                                      /\ call[u].op = "list" => call'[u].late
      BY <1>0, <1>6 DEF Bump, Calls
    <2>3. WalkInv'
      BY <2>1, <2>2 DEF ListingInv, WalkInv
    <2>4. DraftInv'
      BY <2>1, <2>2 DEF DraftInv
    <2>5. version \in Nat /\ (stamp # NoEntry => stamp \in Nat)
      BY DEF CacheInv, CacheTypeOK
    <2>6. stamp # NoEntry => stamp < version'
      BY <2>1, <2>5 DEF ListingInv, StampInv
    <2>7. \A u \in Threads : pc'[u] = "stamp" => call'[u].late
      BY <2>1, <2>2 DEF ListingInv, WalkInv
    <2>8. StampInv' /\ ListingFresh'
      BY <2>1, <2>5, <2>6, <2>7, LibraryAssumption DEF StampInv, ListingFresh
    <2> QED BY <2>3, <2>4, <2>8 DEF ListingInv
  <1>7. ASSUME NEW t \in Threads, Look(t) PROVE ListingInv'
    <2>1. /\ pc'[t] \in {"read", "take"} /\ pc[t] = "look"
          /\ UNCHANGED <<call, file, listed, stamp, stale, version>>
          /\ \A u \in Threads : u # t => pc'[u] = pc[u]
      BY <1>0, <1>7 DEF Look
    <2>2. Writing => Writing'
      BY <2>1 DEF Writing
    <2> QED BY <2>1, <2>2, QuietCacheStep
  <1>8. ASSUME NEW t \in Threads, Read(t) PROVE ListingInv'
    <2>1. /\ pc'[t] \in {"fill", "idle"} /\ pc[t] = "read"
          /\ UNCHANGED <<file, listed, stamp, stale, version>>
          /\ \A u \in Threads : u # t => pc'[u] = pc[u] /\ call'[u] = call[u]
      BY <1>0, <1>8 DEF Read
    <2>2. Writing => Writing'
      BY <2>1 DEF Writing
    <2>3. pc'[t] = "fill" => /\ call'[t].op = call[t].op /\ call'[t].late = call[t].late
                             /\ call'[t].id = call[t].id /\ call'[t].todo = call[t].todo
                             /\ call'[t].draft = call[t].draft
      BY <1>0, <1>8 DEF Read, Calls
    <2> QED BY <2>1, <2>2, <2>3, QuietCacheStep
  <1>9. ASSUME NEW t \in Threads, Fill(t) PROVE ListingInv'
    <2>1. /\ pc'[t] = "take" /\ pc[t] = "fill"
          /\ UNCHANGED <<file, listed, stamp, stale, version>>
          /\ \A u \in Threads : u # t => pc'[u] = pc[u] /\ call'[u] = call[u]
      BY <1>0, <1>9 DEF Fill
    <2>2. Writing => Writing'
      BY <2>1 DEF Writing
    <2>3. /\ call'[t].op = call[t].op /\ call'[t].late = call[t].late
          /\ call'[t].id = call[t].id /\ call'[t].todo = call[t].todo
          /\ call'[t].draft = call[t].draft
      BY <1>0, <1>9 DEF Fill, Calls
    <2> QED BY <2>1, <2>2, <2>3, QuietCacheStep
  <1>10. ASSUME NEW t \in Threads, Take(t) PROVE ListingInv'
    <2> DEFINE i == call[t].id
    <2>1. /\ pc[t] = "take" /\ UNCHANGED <<file, cache, planted, listed, stamp, stale, version>>
          /\ \A u \in Threads : u # t => pc'[u] = pc[u] /\ call'[u] = call[u]
          /\ i \in Ids /\ cache[i] \in Entry \cup {Absent} /\ planted[i] \in BOOLEAN
      BY <1>0, <1>10 DEF Take, CacheInv, CacheTypeOK
    <2>2. Writing => Writing'
      BY <2>1 DEF Writing
    <2>3. CASE Return(t)
      <3>1. pc'[t] = "idle"
        BY <1>0, <2>3
      <3> QED BY <2>1, <2>2, <3>1, QuietCacheStep
    <2>4. CASE /\ call[t].op = "list" /\ cache[i] # Absent
               /\ call' = [call EXCEPT ![t] = Taken(call[t], i, cache[i], planted[i])]
               /\ pc' = [pc EXCEPT ![t] = "walk"]
      <3>1. /\ pc'[t] = "walk" /\ call'[t] = Taken(call[t], i, cache[i], planted[i])
        BY <1>0, <2>4
      <3>2. /\ call'[t].op = "list" /\ call'[t].todo = call[t].todo
            /\ call'[t].late = (call[t].late \/ planted[i])
            /\ call'[t].draft[i] = cache[i]
            /\ \A j \in Ids : j # i => call'[t].draft[j] = call[t].draft[j]
        BY <1>0, <2>1, <2>4, <3>1, TakenFields
      <3>3. ~planted[i] => cache[i] = file[i] \/ Writing
        BY <2>1, <2>4 DEF CacheInv, CacheFresh, Midway, Writing
      <3>4. WalkInv'
        BY <2>1, <3>1, <3>2 DEF ListingInv, WalkInv
      <3>5. DraftInv'
        <4> SUFFICES ASSUME NEW u \in Threads,
                            pc'[u] \in {"walk", "look", "read", "fill", "take", "list"},
                            call'[u].op = "list", ~call'[u].late, ~Writing',
                            NEW j \in Ids \ (call'[u].todo \cup Due(u)')
                     PROVE  call'[u].draft[j] = file'[j]
          BY DEF DraftInv
        <4>1. CASE u # t
          BY <4>1, <2>1, <2>2 DEF Due, ListingInv, DraftInv
        <4>2. CASE u = t
          <5>1. CASE j = i
            BY <4>2, <5>1, <3>2, <3>3, <2>1, <2>2
          <5>2. CASE j # i
            <6>1. j \notin call[t].todo /\ j \notin Due(t) /\ ~call[t].late
              BY <4>2, <5>2, <3>2, <2>1 DEF Due
            <6> QED BY <6>1, <4>2, <5>2, <2>1, <2>2, <2>4, <3>2 DEF ListingInv, DraftInv
          <5> QED BY <5>1, <5>2
        <4> QED BY <4>1, <4>2
      <3>6. StampInv' /\ ListingFresh'
        BY <2>1, <2>2, <3>1 DEF ListingInv, StampInv, ListingFresh
      <3> QED BY <3>4, <3>5, <3>6 DEF ListingInv
    <2> QED BY <1>10, <2>3, <2>4 DEF Take
  <1>11. ASSUME NEW t \in Threads, ListIds(t) PROVE ListingInv'
    <2>1. /\ pc[t] = "ids" /\ pc'[t] = "walk"
          /\ UNCHANGED <<file, listed, stamp, stale, version>>
          /\ \A u \in Threads : u # t => pc'[u] = pc[u] /\ call'[u] = call[u]
          /\ call'[t] = [call[t] EXCEPT !.todo = {i \in Ids : file[i] # Absent}]
      BY <1>0, <1>11 DEF ListIds
    <2>2. /\ call'[t].op = "list" /\ call'[t].draft = Nothing
          /\ call'[t].todo = {i \in Ids : file[i] # Absent}
      BY <1>0, <2>1 DEF Calls, ListingInv, WalkInv
    <2>3. Writing => Writing'
      BY <2>1 DEF Writing
    <2>4. WalkInv'
      BY <2>1, <2>2 DEF ListingInv, WalkInv
    <2>5. DraftInv'
      <3> SUFFICES ASSUME NEW u \in Threads,
                          pc'[u] \in {"walk", "look", "read", "fill", "take", "list"},
                          call'[u].op = "list", ~call'[u].late
                   PROVE  Writing' \/ \A i \in Ids \ (call'[u].todo \cup Due(u)') :
                                         call'[u].draft[i] = file'[i]
        BY DEF DraftInv
      <3>1. CASE u # t
        <4>1. Due(u)' = Due(u)
          BY <2>1, <3>1 DEF Due
        <4> QED BY <2>1, <2>3, <3>1, <4>1 DEF ListingInv, DraftInv
      <3>2. CASE u = t
        <4>1. \A i \in Ids \ call'[t].todo : file[i] = Absent
          BY <2>2
        <4>2. \A i \in Ids : call'[t].draft[i] = Absent
          BY <2>2 DEF Nothing
        <4> QED BY <2>1, <3>2, <4>1, <4>2
      <3> QED BY <3>1, <3>2
    <2>6. StampInv' /\ ListingFresh'
      BY <2>1, <2>3 DEF ListingInv, StampInv, ListingFresh
    <2> QED BY <2>4, <2>5, <2>6 DEF ListingInv
  <1>12. ASSUME NEW t \in Threads, Walk(t) PROVE ListingInv'
    <2>1. /\ pc[t] = "walk" /\ UNCHANGED <<file, listed, stamp, stale, version>>
          /\ \A u \in Threads : u # t => pc'[u] = pc[u] /\ call'[u] = call[u]
      BY <1>0, <1>12 DEF Walk
    <2>2. Writing => Writing'
      BY <1>0, <1>12, <2>1 DEF Writing, Walk
    <2>3. /\ pc'[t] \in {"look", "list"} /\ call'[t].op = "list"
          /\ call'[t].late = call[t].late /\ call'[t].draft = call[t].draft
          /\ call'[t].todo \cup Due(t)' = call[t].todo
          /\ pc'[t] = "list" => call'[t].todo = {}
      <3>1. CASE Goto(t, "list") /\ call[t].todo = {}
        BY <1>0, <2>1, <3>1 DEF Due, ListingInv, WalkInv
      <3>2. ASSUME NEW i \in call[t].todo, call' = [call EXCEPT ![t] = Chosen(call[t], i)],
                   pc' = [pc EXCEPT ![t] = "look"]
            PROVE  /\ pc'[t] = "look" /\ call'[t].op = "list"
                   /\ call'[t].late = call[t].late /\ call'[t].draft = call[t].draft
                   /\ call'[t].todo \cup Due(t)' = call[t].todo
        <4>1. i \in Ids /\ call[t].op = "list"
          BY <1>0, <2>1, CallFields DEF ListingInv, WalkInv
        <4>2. call'[t] = Chosen(call[t], i) /\ pc'[t] = "look"
          BY <1>0, <3>2
        <4>3. /\ call'[t].op = "list" /\ call'[t].id = i /\ call'[t].todo = call[t].todo \ {i}
              /\ call'[t].late = call[t].late /\ call'[t].draft = call[t].draft
          BY <1>0, <4>1, <4>2, ChosenFields
        <4> QED BY <4>2, <4>3 DEF Due
      <3> QED BY <1>12, <3>1, <3>2 DEF Walk
    <2>4. WalkInv'
      BY <2>1, <2>3 DEF ListingInv, WalkInv
    <2>5. DraftInv'
      <3>1. \A u \in Threads : u # t => Due(u)' = Due(u)
        BY <2>1 DEF Due
      <3>2. Due(t) = {}
        BY <2>1 DEF Due
      <3>3. (\A u \in Threads : u # t => call'[u].todo \cup Due(u)' = call[u].todo \cup Due(u))
        BY <2>1, <3>1
      <3>4. \A u \in Threads : /\ call'[u].todo \cup Due(u)' = call[u].todo \cup Due(u)
                               /\ call'[u].draft = call[u].draft /\ call'[u].late = call[u].late
                               /\ call'[u].op = "list" => call[u].op = "list"
        BY <2>1, <2>3, <3>2, <3>3 DEF ListingInv, WalkInv
      <3> QED BY <2>1, <2>2, <2>3, <3>4 DEF ListingInv, DraftInv
    <2>6. StampInv' /\ ListingFresh'
      BY <2>1, <2>2, <2>3 DEF ListingInv, StampInv, ListingFresh
    <2> QED BY <2>4, <2>5, <2>6 DEF ListingInv
  <1>13. ASSUME NEW t \in Threads, SetListed(t) PROVE ListingInv'
    <2>1. /\ pc[t] = "list" /\ pc'[t] = "stamp" /\ UNCHANGED <<call, file, stamp, version>>
          /\ \A u \in Threads : u # t => pc'[u] = pc[u]
          /\ listed' = call[t].draft /\ stale' = call[t].late
      BY <1>0, <1>13 DEF SetListed
    <2>2. Writing => Writing'
      BY <2>1 DEF Writing
    <2>3. ~stale' => listed' = file' \/ Writing'
      <3>1. SUFFICES ASSUME ~call[t].late, ~Writing PROVE call[t].draft = file
        BY <2>1, <2>2
      <3>2. call[t].op = "list" /\ call[t].todo = {} /\ Due(t) = {}
        BY <2>1 DEF ListingInv, WalkInv, Due
      <3>3. \A i \in Ids : call[t].draft[i] = file[i]
        BY <2>1, <3>1, <3>2 DEF ListingInv, DraftInv
      <3>4. call[t].draft \in [Ids -> Entry \cup {Absent}] /\ file \in [Ids -> Entry \cup {Absent, Torn}]
        BY <1>0, CallFields DEF CacheInv, CacheTypeOK
      <3> QED BY <3>3, <3>4
    <2>4. WalkInv'
      BY <2>1 DEF ListingInv, WalkInv
    <2>5. DraftInv'
      BY <2>1, <2>2 DEF ListingInv, DraftInv, Due
    <2>6. StampInv' /\ ListingFresh'
      BY <2>1, <2>2, <2>3 DEF ListingInv, StampInv, ListingFresh
    <2> QED BY <2>4, <2>5, <2>6 DEF ListingInv
  <1>14. ASSUME NEW t \in Threads, SetStamp(t) PROVE ListingInv'
    <2>1. /\ pc[t] = "stamp" /\ pc'[t] = "idle" /\ UNCHANGED <<file, listed, version>>
          /\ \A u \in Threads : u # t => pc'[u] = pc[u] /\ call'[u] = call[u]
          /\ stamp' = version /\ stale' = (stale \/ call[t].late)
      BY <1>0, <1>14 DEF SetStamp
    <2>2. Writing => Writing'
      BY <2>1 DEF Writing
    <2>3. WalkInv'
      BY <2>1 DEF ListingInv, WalkInv
    <2>4. DraftInv'
      BY <2>1, <2>2 DEF ListingInv, DraftInv, Due
    <2>5. version \in Nat
      BY DEF CacheInv, CacheTypeOK
    <2>6. \A u \in Threads : pc[u] = "stamp" /\ ~call[u].late /\ ~stale
                             => listed = file \/ Writing
      BY DEF ListingInv, StampInv
    <2>7. ~stale' => ~stale /\ ~call[t].late
      BY <2>1
    <2>8. ListingFresh'
      BY <2>1, <2>2, <2>6, <2>7 DEF ListingFresh
    <2>9. ASSUME NEW u \in Threads, pc'[u] = "stamp", ~call'[u].late, ~stale'
          PROVE  listed' = file' \/ Writing'
      <3>1. u # t
        BY <2>1, <2>9
      <3>2. pc[u] = "stamp" /\ ~call[u].late
        BY <2>1, <2>9, <3>1
      <3> QED BY <2>1, <2>2, <2>6, <2>7, <2>9, <3>2
    <2>10. stamp' <= version'
      BY <2>1, <2>5
    <2>11. StampInv'
      BY <2>9, <2>10 DEF StampInv
    <2> QED BY <2>3, <2>4, <2>8, <2>11 DEF ListingInv
  <1>15. ASSUME NEW t \in Threads, NEW request \in Ops, NEW i \in Ids, Begin(t, request, i)
         PROVE  ListingInv'
    <2>1. /\ pc[t] = "idle" /\ pc'[t] = FirstStep(request)
          /\ UNCHANGED <<file, listed, stamp, stale, version>>
          /\ \A u \in Threads : u # t => pc'[u] = pc[u] /\ call'[u] = call[u]
      BY <1>0, <1>15 DEF Begin
    <2>2. Writing => Writing'
      BY <2>1 DEF Writing
    <2>3. call'[t].op = request /\ call'[t].draft = Nothing
      BY <1>0, <1>15 DEF Begin, NoCall
    <2>4. CASE request # "list"
      <3>1. pc'[t] \in {"check", "look"}
        BY <2>1, <2>4, LibraryAssumption DEF FirstStep
      <3> QED BY <2>1, <2>2, <2>3, <2>4, <3>1, QuietCacheStep
    <2>5. CASE request = "list"
      <3>1. pc'[t] = "ids"
        BY <2>1, <2>5 DEF FirstStep
      <3>2. WalkInv'
        BY <2>1, <2>3, <2>5, <3>1 DEF ListingInv, WalkInv
      <3>3. DraftInv'
        BY <2>1, <2>2, <3>1 DEF ListingInv, DraftInv, Due
      <3>4. StampInv' /\ ListingFresh'
        BY <2>1, <2>2, <3>1 DEF ListingInv, StampInv, ListingFresh
      <3> QED BY <3>2, <3>3, <3>4 DEF ListingInv
    <2> QED BY <2>4, <2>5
  <1>16. CASE Restart
    <2>1. \A t \in Threads : pc'[t] = "idle"
      BY <1>16 DEF Restart
    <2>2. version' = 0 /\ stamp' = NoEntry
      BY <1>16 DEF Restart
    <2> QED BY <2>1, <2>2, LibraryAssumption DEF ListingInv, WalkInv, DraftInv, StampInv, ListingFresh
  <1> QED BY <1>1, <1>2, <1>3, <1>4, <1>5, <1>6, <1>7, <1>8, <1>9, <1>10,
             <1>11, <1>12, <1>13, <1>14, <1>15, <1>16 DEF CacheNext, Step

LEMMA StutterListingInv == ASSUME ListingInv, UNCHANGED cacheVars PROVE ListingInv'
  BY DEF ListingInv, cacheVars, WalkInv, DraftInv, StampInv, ListingFresh, Due, Writing

\* A listing that no write overtook is the tree's, but while a write is at work.
THEOREM ListingCorrect == CacheSpec => []ListingFresh
  <1>1. CacheInit => ListingInv
    BY InitListingInv
  <1>2. CacheInv /\ ListingInv /\ [CacheNext]_cacheVars => ListingInv'
    BY ListStep, StutterListingInv
  <1>3. ListingInv => ListingFresh
    BY DEF ListingInv
  <1> QED BY <1>1, <1>2, <1>3, CacheInvariance, PTL DEF CacheSpec
=============================================================================
