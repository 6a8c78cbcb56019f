-------------------------- MODULE SolverRunProofs --------------------------
(***************************************************************************)
(* For any board, library and design: what the solver binds, nobody else   *)
(* is on, and nothing that was bound moves.  Then the editor, which waits  *)
(* for the solver and the agent: what comes late does no harm.             *)
(***************************************************************************)
EXTENDS SolverRun, Editor, FiniteSetTheorems, SequenceTheorems, TLAPS

\* A set of numbers has a least one: of the initial segments its members end,
\* one contains no other.
LEMMA LeastIsIn ==
    ASSUME NEW S \in SUBSET Nat, S # {}
    PROVE  Least(S) \in S /\ \A y \in S : Least(S) <= y
<1> DEFINE upTo == {0..n : n \in S}
<1>1. upTo \subseteq FiniteSubsetsOf(Nat)
  <2>1. ASSUME NEW n \in S PROVE IsFiniteSet(0..n) /\ 0..n \subseteq Nat
    BY FS_Interval
  <2> QED BY <2>1 DEF FiniteSubsetsOf
<1>2. PICK s \in upTo : \A r \in upTo : ~(<<r, s>> \in StrictSubsetOrdering(Nat))
  <2>1. upTo # {} OBVIOUS
  <2>2. IsWellFoundedOn(StrictSubsetOrdering(Nat), FiniteSubsetsOf(Nat))
    BY FS_StrictSubsetOrderingWellFounded
  <2> HIDE DEF upTo
  <2> QED BY <1>1, <2>1, <2>2, WFMin
<1>3. PICK x \in S : s = 0..x BY <1>2
<1>4. ASSUME NEW y \in S PROVE x <= y
  <2> SUFFICES ASSUME y < x PROVE FALSE OBVIOUS
  <2>1. 0..y \subseteq s /\ 0..y # s /\ s \subseteq Nat BY <1>3
  <2>2. 0..y \in upTo OBVIOUS
  <2>3. <<0..y, s>> \in StrictSubsetOrdering(Nat)
    BY <2>1 DEF StrictSubsetOrdering
  <2> QED BY <1>2, <2>2, <2>3
<1> QED BY <1>4 DEF Least

LEMMA RankIsNat ==
    ASSUME NEW board, NEW libPin, NEW p \in Pins
    PROVE  /\ Rank(board, libPin, p) \in Nat /\ Penalty(board, libPin, p) \in 0..7
           /\ Number(p) \in 0..MaxPin
<1>1. Number(p) \in 0..MaxPin BY PinsAssumption DEF Number, Names
<1>2. Penalty(board, libPin, p) \in 0..7 BY DEF Penalty
<1>3. MaxPin + 1 \in Nat BY PinsAssumption
<1>4. ASSUME NEW m \in Nat, NEW k \in 0..7 PROVE k * m \in Nat
  BY <1>4
<1> QED BY <1>1, <1>2, <1>3, <1>4 DEF Rank

\* The best of the free pins is one of them, and none of them has a lower
\* penalty.
LEMMA BestIsFree ==
    ASSUME NEW board, NEW libPin, NEW free \in SUBSET Pins, free # {}
    PROVE  LET best == Best(board, libPin, free) IN
           /\ best \in free
           /\ \A q \in free : Penalty(board, libPin, best) <= Penalty(board, libPin, q)
<1> DEFINE ranks == {Rank(board, libPin, q) : q \in free}
           best == Best(board, libPin, free)
<1>1. ranks \in SUBSET Nat /\ ranks # {} BY RankIsNat
<1>2. \E p \in free : Rank(board, libPin, p) = Least(ranks)
  BY <1>1, LeastIsIn
<1>3. best \in free /\ Rank(board, libPin, best) = Least(ranks) BY <1>2 DEF Best
<1>4. ASSUME NEW m \in Nat, NEW k \in 0..7, NEW j \in 0..7, NEW x \in 0..m, NEW y \in 0..m,
             k * (m + 1) + x <= j * (m + 1) + y
      PROVE  k <= j
  <2> SUFFICES ASSUME j + 1 <= k PROVE FALSE BY <1>4
  <2>1. \E e \in 1..7 : k = j + e
    <3>1. k - j \in 1..7 /\ k = j + (k - j) OBVIOUS
    <3> QED BY <3>1
  <2>2. PICK e \in 1..7 : k = j + e BY <2>1
  <2>3. k * (m + 1) = j * (m + 1) + e * (m + 1)
    <3>1. \A a \in 0..7 : \A b \in 1..7 : (a + b) * (m + 1) = a * (m + 1) + b * (m + 1)
      OBVIOUS
    <3> QED BY <2>2, <3>1
  <2>4. e * (m + 1) >= m + 1 BY <2>2
  <2>5. j * (m + 1) \in Nat BY <1>4
  <2> QED BY <1>4, <2>2, <2>3, <2>4, <2>5
<1>5. ASSUME NEW q \in free PROVE Penalty(board, libPin, best) <= Penalty(board, libPin, q)
  <2>1. Rank(board, libPin, best) <= Rank(board, libPin, q) BY <1>1, <1>3, LeastIsIn
  <2>2. best \in Pins /\ q \in Pins BY <1>3
  <2>3. MaxPin \in Nat BY PinsAssumption
  <2> HIDE DEF best
  <2> QED BY <1>4, <2>1, <2>2, <2>3, RankIsNat DEF Rank
<1> QED BY <1>3, <1>5

-----------------------------------------------------------------------------
(* What a step may do to the run.                                          *)

Runs == [conns : Seq(Connections), used : SUBSET Pins, usedEx : SUBSET (Names \X Nat),
         by : Seq({"none", "given", "lock", "solver"})]

\* A run with connection i bound to a target.
LEMMA BindFacts ==
    ASSUME NEW r \in Runs, NEW i \in DOMAIN r.conns, Len(r.by) = Len(r.conns),
           NEW t \in Targets, NEW whom \in {"lock", "solver"},
           t.kind = r.conns[i].target.kind
    PROVE  LET new == Bind(r, i, t, whom) IN
           /\ new \in Runs
           /\ Len(new.conns) = Len(r.conns) /\ Len(new.by) = Len(r.by)
           /\ new.used = r.used /\ new.usedEx = r.usedEx
           /\ new.conns[i].target = t /\ new.by[i] = whom
           /\ \A j \in DOMAIN r.conns : j # i =>
                 new.conns[j] = r.conns[j] /\ new.by[j] = r.by[j]
           /\ \A j \in DOMAIN r.conns :
                 /\ new.conns[j].comp = r.conns[j].comp
                 /\ new.conns[j].role = r.conns[j].role
                 /\ new.conns[j].target.kind = r.conns[j].target.kind
<1>1. DOMAIN r.conns = 1..Len(r.conns) /\ DOMAIN r.by = 1..Len(r.conns) BY DEF Runs
<1>2. r.conns[i] \in Connections BY DEF Runs
<1>3. [r.conns[i] EXCEPT !.target = t] \in Connections BY <1>2 DEF Connections
<1>4. [r.conns EXCEPT ![i].target = t] = [r.conns EXCEPT ![i] = [r.conns[i] EXCEPT !.target = t]]
  OBVIOUS
<1>5. [r.conns EXCEPT ![i].target = t] \in Seq(Connections)
      /\ Len([r.conns EXCEPT ![i].target = t]) = Len(r.conns)
  BY <1>1, <1>3, <1>4 DEF Runs
<1>6. [r.by EXCEPT ![i] = whom] \in Seq({"none", "given", "lock", "solver"})
      /\ Len([r.by EXCEPT ![i] = whom]) = Len(r.by)
  BY <1>1 DEF Runs
<1>7. Bind(r, i, t, whom) \in Runs
  BY <1>5, <1>6 DEF Bind, Runs
<1> QED BY <1>1, <1>2, <1>5, <1>6, <1>7 DEF Bind, Runs, Connections

-----------------------------------------------------------------------------
(* The two walks.                                                          *)

\* Binding to a pin that is in use from then on.
LEMMA Reserved ==
    ASSUME NEW r \in Runs, NEW p \in Pins
    PROVE  LET new == [r EXCEPT !.used = @ \cup {p}] IN
           /\ new \in Runs /\ new.used = r.used \cup {p}
           /\ new.conns = r.conns /\ new.by = r.by /\ new.usedEx = r.usedEx
  BY DEF Runs

LEMMA GpioTarget ==
    ASSUME NEW p \in Pins
    PROVE  /\ Target("gpio", p) \in Targets
           /\ Target("gpio", p).kind = "gpio" /\ Target("gpio", p).to = p
           /\ p # None
  BY PinsAssumption DEF Target, Targets, TargetKinds

LEMMA TargetType ==
    ASSUME NEW kind \in TargetKinds, NEW name \in Names, NEW n \in Nat
    PROVE  /\ Target(kind, name) \in Targets /\ Target(kind, name).kind = kind
           /\ ExpanderTarget(name, n) \in Targets
           /\ ExpanderTarget(name, n).kind = "expander_pin"
  BY DEF Target, ExpanderTarget, Targets, TargetKinds

\* What one step does, if it does anything: it binds connection i, which was
\* unbound, and a pin it binds to was not in use unless it is a lock's.
Binds(r, new, i, whom) ==
    \E t \in Targets :
       /\ Unbound(r.conns[i].target) /\ r.conns[i].target.kind = t.kind
       /\ t.to # None
       /\ \/ /\ t.kind = "gpio" /\ t.to \in Pins
             /\ whom = "solver" => t.to \notin r.used
             /\ new = Bind([r EXCEPT !.used = @ \cup {t.to}], i, t, whom)
          \/ /\ t.kind = "expander_pin"
             /\ <<t.to, t.number>> \in (Names \X Nat) \ r.usedEx
             /\ new = Bind([r EXCEPT !.usedEx = @ \cup {<<t.to, t.number>>}], i, t, whom)
          \/ /\ t.kind \in {"bus", "component"}
             /\ new = Bind(r, i, t, whom)

LEMMA LockStep ==
    ASSUME NEW d, Readable(d), NEW r \in Runs, NEW i \in DOMAIN r.conns,
           IsLocked(d, r.conns[i]) => LockOf(d, r.conns[i]) \in Pins
    PROVE  LET new == LockAt(d, r, i) IN
           \/ new = r
           \/ \E p \in Pins : new = [r EXCEPT !.used = @ \cup {p}]
           \/ Binds(r, new, i, "lock")
<1> DEFINE c == r.conns[i]
<1> SUFFICES ASSUME IsLocked(d, c), c.target.kind = "gpio", c.target.to = None
             PROVE  Binds(r, LockAt(d, r, i), i, "lock")
  BY DEF LockAt
<1> DEFINE p == LockOf(d, c)
<1>1. p \in Pins OBVIOUS
<1>2. LockAt(d, r, i) = Bind([r EXCEPT !.used = @ \cup {p}], i, Target("gpio", p), "lock")
  BY DEF LockAt
<1>3. Unbound(c.target) BY DEF Unbound
<1> HIDE DEF p
<1>4. PICK t \in Targets : t = Target("gpio", p) BY <1>1, GpioTarget
<1>5. t.kind = "gpio" /\ t.to = p /\ p # None BY <1>1, <1>4, GpioTarget
<1>6. LockAt(d, r, i) = Bind([r EXCEPT !.used = @ \cup {t.to}], i, t, "lock")
  BY <1>2, <1>4, <1>5
<1> QED BY <1>1, <1>3, <1>5, <1>6 DEF Binds

\* Nothing that is not in use serves a connection.
NoneFits(d, c, used, usedEx) ==
    /\ c.target.kind = "gpio" => Suitable(Board(d), PinOf(d, c)) \subseteq used
    /\ c.target.kind = "bus" =>
          \A b \in DOMAIN d.buses : d.buses[b].type # BusTypeOf(PinOf(d, c).kind)
    /\ c.target.kind = "expander_pin" =>
          \A e \in DOMAIN d.comps : d.comps[e].lib \in DOMAIN Parts =>
             \A n \in 0..(Parts[d.comps[e].lib].expander - 1) : <<d.comps[e].id, n>> \in usedEx
    /\ c.target.kind = "component" =>
          \/ PinOf(d, c).parent = None
          \/ \A k \in DOMAIN d.comps :
                d.comps[k].lib = PinOf(d, c).parent => d.comps[k].id = c.comp

LEMMA NoneFitsLater ==
    ASSUME NEW d, NEW c, NEW used, NEW usedEx, NEW used2, NEW usedEx2,
           NoneFits(d, c, used, usedEx), used \subseteq used2, usedEx \subseteq usedEx2
    PROVE  NoneFits(d, c, used2, usedEx2)
BY DEF NoneFits

\* The pin chosen for a connection could serve it, and none that is left is any
\* better.
Choice(d, r, i) ==
    LET libPin == PinOf(d, r.conns[i])
        p == r.conns[i].target.to
    IN /\ p \in Suitable(Board(d), libPin)
       /\ \A q \in Suitable(Board(d), libPin) \ r.used :
             Penalty(Board(d), libPin, p) <= Penalty(Board(d), libPin, q)

\* A connection stays unbound only if nothing fits it.
Tries(d, r, new, i) ==
    IF NoneFits(d, r.conns[i], r.used, r.usedEx) THEN new = r
    ELSE Binds(r, new, i, "solver")

LEMMA SolveGpioStep ==
    ASSUME NEW d, Readable(d), NEW r \in Runs, NEW i \in DOMAIN r.conns,
           Len(r.by) = Len(r.conns),
           Knows(d), Unbound(r.conns[i].target), r.conns[i].target.kind = "gpio"
    PROVE  LET new == SolveGpio(d, r, i) IN
           Tries(d, r, new, i) /\ (new # r => Choice(d, new, i))
<1> DEFINE libPin == PinOf(d, r.conns[i])
           free == Suitable(Board(d), libPin) \ r.used
           p == Best(Board(d), libPin, free)
<1>a. NoneFits(d, r.conns[i], r.used, r.usedEx) <=> free = {}
  BY DEF NoneFits
<1> SUFFICES ASSUME free # {}
             PROVE  /\ Binds(r, SolveGpio(d, r, i), i, "solver")
                    /\ Choice(d, SolveGpio(d, r, i), i)
  BY <1>a DEF SolveGpio, Tries
<1>1. free \subseteq Pins /\ free \cap r.used = {}
  BY DEF Readable, Knows, Suitable
<1>2. /\ p \in free
      /\ \A q \in free : Penalty(Board(d), libPin, p) <= Penalty(Board(d), libPin, q)
  <2> HIDE DEF libPin
  <2> QED BY <1>1, BestIsFree
<1>3. SolveGpio(d, r, i) = Bind([r EXCEPT !.used = @ \cup {p}], i, Target("gpio", p), "solver")
  BY DEF SolveGpio
<1> HIDE DEF p
<1>4. PICK t \in Targets : t = Target("gpio", p) BY <1>1, <1>2, GpioTarget
<1>5. t.kind = "gpio" /\ t.to = p /\ p # None BY <1>1, <1>2, <1>4, GpioTarget
<1>6. SolveGpio(d, r, i) = Bind([r EXCEPT !.used = @ \cup {t.to}], i, t, "solver")
  BY <1>3, <1>4, <1>5
<1>7. Binds(r, SolveGpio(d, r, i), i, "solver")
  BY <1>1, <1>2, <1>5, <1>6 DEF Binds
<1>8. Choice(d, SolveGpio(d, r, i), i)
  <2>1. PICK mid \in Runs : /\ mid = [r EXCEPT !.used = @ \cup {p}]
                            /\ mid.used = r.used \cup {p}
                            /\ mid.conns = r.conns /\ mid.by = r.by
    BY <1>1, <1>2, Reserved
  <2>2. PICK new : new = Bind(mid, i, t, "solver") OBVIOUS
  <2>3. SolveGpio(d, r, i) = new BY <1>5, <1>6, <2>1, <2>2
  <2>4. /\ new.used = mid.used /\ new.conns[i].target = t
        /\ new.conns[i].comp = r.conns[i].comp /\ new.conns[i].role = r.conns[i].role
    <3>1. i \in DOMAIN mid.conns /\ Len(mid.by) = Len(mid.conns)
          /\ t.kind = mid.conns[i].target.kind
      BY <1>5, <2>1
    <3>2. LET n == Bind(mid, i, t, "solver") IN
          /\ n.used = mid.used /\ n.conns[i].target = t
          /\ \A j \in DOMAIN mid.conns :
                n.conns[j].comp = mid.conns[j].comp /\ n.conns[j].role = mid.conns[j].role
      BY <3>1, BindFacts
    <3> QED BY <2>1, <2>2, <3>1, <3>2
  <2>5. PinOf(d, new.conns[i]) = libPin BY <2>4 DEF PinOf
  <2>6. new.conns[i].target.to = p /\ new.used = r.used \cup {p} BY <1>5, <2>1, <2>4
  <2>7. Suitable(Board(d), libPin) \ new.used \subseteq free BY <2>6
  <2> HIDE DEF libPin
  <2> QED BY <1>2, <2>3, <2>5, <2>6, <2>7 DEF Choice
<1> QED BY <1>7, <1>8

LEMMA SolveBusStep ==
    ASSUME NEW d, Readable(d), NEW r \in Runs, NEW i \in DOMAIN r.conns,
           Unbound(r.conns[i].target), r.conns[i].target.kind = "bus"
    PROVE  Tries(d, r, SolveBus(d, r, i), i)
<1> DEFINE wanted == BusTypeOf(PinOf(d, r.conns[i]).kind)
           options == {b \in DOMAIN d.buses : d.buses[b].type = wanted}
           name == d.buses[Least(options)].id
<1>b. NoneFits(d, r.conns[i], r.used, r.usedEx) <=> options = {}
  BY DEF NoneFits
<1> SUFFICES ASSUME options # {} PROVE Binds(r, SolveBus(d, r, i), i, "solver")
  BY <1>b DEF SolveBus, Tries
<1>1. options \in SUBSET Nat BY DEF Readable
<1>a. Least(options) \in options
  <2> HIDE DEF options
  <2> QED BY <1>1, LeastIsIn
<1>2. name \in Names /\ name # None BY <1>a, PinsAssumption DEF Readable, Ids
<1>3. SolveBus(d, r, i) = Bind(r, i, Target("bus", name), "solver") BY DEF SolveBus
<1> HIDE DEF name
<1>4. PICK t \in Targets : t = Target("bus", name) BY <1>2, TargetType DEF TargetKinds
<1>5. t.kind = "bus" /\ t.to = name BY <1>4 DEF Target
<1> QED BY <1>2, <1>3, <1>4, <1>5 DEF Binds

LEMMA SolveExpanderStep ==
    ASSUME NEW d, Readable(d), NEW r \in Runs, NEW i \in DOMAIN r.conns,
           Unbound(r.conns[i].target), r.conns[i].target.kind = "expander_pin"
    PROVE  Tries(d, r, SolveExpander(d, r, i), i)
<1> DEFINE open == {e \in DOMAIN d.comps :
                       d.comps[e].lib \in DOMAIN Parts /\ FreeOn(d, r, e) # {}}
           e == Least(open)
           id == d.comps[e].id
           n == Least(FreeOn(d, r, e))
<1>a. NoneFits(d, r.conns[i], r.used, r.usedEx) <=> open = {}
  BY DEF NoneFits, FreeOn
<1> SUFFICES ASSUME open # {} PROVE Binds(r, SolveExpander(d, r, i), i, "solver")
  BY <1>a DEF SolveExpander, Tries
<1>1. open \in SUBSET Nat BY DEF Readable
<1>2. e \in open BY <1>1, LeastIsIn
<1>3. id \in Names /\ id # None BY <1>2, PinsAssumption DEF Readable, Ids
<1>4. FreeOn(d, r, e) \in SUBSET Nat
  <2>1. Parts[d.comps[e].lib].expander \in Nat BY <1>2, PinsAssumption
  <2>2. \A x \in Nat : 0..(x - 1) \subseteq Nat OBVIOUS
  <2>3. 0..(Parts[d.comps[e].lib].expander - 1) \subseteq Nat BY ONLY <2>1, <2>2
  <2> HIDE DEF e
  <2> QED BY ONLY <2>3 DEF FreeOn
<1>5. n \in FreeOn(d, r, e) BY <1>2, <1>4, LeastIsIn
<1>6. n \in Nat /\ <<id, n>> \notin r.usedEx BY <1>4, <1>5 DEF FreeOn
<1>7. SolveExpander(d, r, i) =
         Bind([r EXCEPT !.usedEx = @ \cup {<<id, n>>}], i, ExpanderTarget(id, n), "solver")
  BY DEF SolveExpander
<1> HIDE DEF id, n
<1>8. PICK t \in Targets : t = ExpanderTarget(id, n) BY <1>3, <1>6, TargetType DEF TargetKinds
<1>9. t.kind = "expander_pin" /\ t.to = id /\ t.number = n BY <1>8 DEF ExpanderTarget
<1>10. SolveExpander(d, r, i) =
          Bind([r EXCEPT !.usedEx = @ \cup {<<t.to, t.number>>}], i, t, "solver")
  BY <1>7, <1>8, <1>9
<1> QED BY <1>3, <1>6, <1>9, <1>10 DEF Binds

LEMMA SolveComponentStep ==
    ASSUME NEW d, Readable(d), NEW r \in Runs, NEW i \in DOMAIN r.conns,
           Unbound(r.conns[i].target), r.conns[i].target.kind = "component"
    PROVE  Tries(d, r, SolveComponent(d, r, i), i)
<1> DEFINE wanted == PinOf(d, r.conns[i]).parent
           options == {c \in DOMAIN d.comps :
                          d.comps[c].lib = wanted /\ d.comps[c].id # r.conns[i].comp}
           name == d.comps[Least(options)].id
<1>b. NoneFits(d, r.conns[i], r.used, r.usedEx) <=> wanted = None \/ options = {}
  BY DEF NoneFits
<1> SUFFICES ASSUME wanted # None, options # {}
             PROVE  Binds(r, SolveComponent(d, r, i), i, "solver")
  BY <1>b DEF SolveComponent, Tries
<1>1. options \in SUBSET Nat BY DEF Readable
<1>a. Least(options) \in options
  <2> HIDE DEF options
  <2> QED BY <1>1, LeastIsIn
<1>2. name \in Names /\ name # None BY <1>a, PinsAssumption DEF Readable, Ids
<1>3. SolveComponent(d, r, i) = Bind(r, i, Target("component", name), "solver")
  BY DEF SolveComponent
<1> HIDE DEF name
<1>4. PICK t \in Targets : t = Target("component", name) BY <1>2, TargetType DEF TargetKinds
<1>5. t.kind = "component" /\ t.to = name BY <1>4 DEF Target
<1> QED BY <1>2, <1>3, <1>4, <1>5 DEF Binds

\* What the second walk does to a connection.
LEMMA SolveStep ==
    ASSUME NEW d, Readable(d), Knows(d), NEW r \in Runs, NEW i \in DOMAIN r.conns,
           Len(r.by) = Len(r.conns)
    PROVE  LET new == SolveAt(d, r, i) IN
           /\ new = r \/ Binds(r, new, i, "solver")
           /\ ~Unbound(r.conns[i].target) \/ ~HasPin(d, r.conns[i]) => new = r
           /\ Unbound(r.conns[i].target) /\ HasPin(d, r.conns[i]) => Tries(d, r, new, i)
           /\ new # r /\ r.conns[i].target.kind = "gpio" =>
                 HasPin(d, r.conns[i]) /\ Choice(d, new, i)
<1> SUFFICES ASSUME Unbound(r.conns[i].target), HasPin(d, r.conns[i])
             PROVE  LET new == SolveAt(d, r, i) IN
                    /\ Tries(d, r, new, i)
                    /\ new # r /\ r.conns[i].target.kind = "gpio" => Choice(d, new, i)
  BY DEF SolveAt, Tries
<1>1. CASE r.conns[i].target.kind = "gpio" BY <1>1, SolveGpioStep DEF SolveAt
<1>2. CASE r.conns[i].target.kind = "bus" BY <1>2, SolveBusStep DEF SolveAt
<1>3. CASE r.conns[i].target.kind = "expander_pin" BY <1>3, SolveExpanderStep DEF SolveAt
<1>4. CASE r.conns[i].target.kind = "component" BY <1>4, SolveComponentStep DEF SolveAt
<1> QED BY <1>1, <1>2, <1>3, <1>4 DEF Unbound

-----------------------------------------------------------------------------
(* The invariant.  Before the second walk the solver has bound nothing, and *)
(* whatever a bus slot or a connection claims is in use: so what the solver *)
(* takes from what is not in use is nobody's, and stays so.                 *)

NotYet == \A i \in DOMAIN run.conns :
             run.by[i] = "solver" =>
                /\ phase # "lock"
                /\ run.conns[i].target.kind = "gpio" => run.conns[i].target.to # None

IInv == TypeOK /\ UsedCovers /\ NotYet /\ SolverPinsExclusive
          /\ (phase # "done" => Knows(design))

\* A run at its start.
LEMMA StartFacts ==
    ASSUME NEW d, Readable(d)
    PROVE  /\ Start(d) \in Runs
           /\ Start(d).conns = d.conns /\ Len(Start(d).by) = Len(d.conns)
           /\ Start(d).used = BoundPins(d.conns) \cup PinsOnBuses(d.buses)
           /\ Start(d).usedEx = BoundExpanderPins(d.conns)
           /\ \A i \in DOMAIN d.conns :
                 Start(d).by[i] = IF Unbound(d.conns[i].target) THEN "none" ELSE "given"
<1>1. d.conns \in Seq(Connections) BY DEF Readable
<1>2. /\ Start(d).conns = d.conns
      /\ Start(d).used = BoundPins(d.conns) \cup PinsOnBuses(d.buses)
      /\ Start(d).usedEx = BoundExpanderPins(d.conns)
      /\ Start(d).by = [i \in DOMAIN d.conns |->
                          IF Unbound(d.conns[i].target) THEN "none" ELSE "given"]
  BY DEF Start
<1>3. Start(d).used \subseteq Pins BY <1>2 DEF Readable
<1>4. Start(d).usedEx \subseteq Names \X Nat
  <2> SUFFICES ASSUME NEW j \in DOMAIN d.conns,
                      d.conns[j].target.kind = "expander_pin", d.conns[j].target.to # None
               PROVE  <<d.conns[j].target.to, d.conns[j].target.number>> \in Names \X Nat
    BY <1>2 DEF BoundExpanderPins
  <2>1. d.conns[j] \in Connections BY <1>1
  <2> QED BY <2>1 DEF Connections, Targets
<1>5. Start(d).by \in Seq({"none", "given", "lock", "solver"})
      /\ Len(Start(d).by) = Len(d.conns)
  BY <1>1, <1>2
<1>6. Start(d) \in Runs BY <1>1, <1>2, <1>3, <1>4, <1>5 DEF Runs, Start
<1> QED BY <1>2, <1>5, <1>6

LEMMA InitInv == Init => IInv
<1> SUFFICES ASSUME Init PROVE IInv OBVIOUS
<1>1. Readable(design) /\ run = Start(design) BY InputsAssumption DEF Init
<1>2. TypeOK
  <2>1. /\ run \in Runs /\ run.conns = design.conns
        /\ Len(run.conns) = Len(design.conns) /\ Len(run.by) = Len(design.conns)
    BY <1>1, StartFacts
  <2>2. phase \in {"lock", "solve", "done"} /\ at \in Nat \ {0} BY DEF Init, FirstPhase
  <2>3. again \in BOOLEAN BY DEF Init
  <2> QED BY <1>1, <2>1, <2>2, <2>3 DEF TypeOK, Runs
<1>3. UsedCovers BY <1>1, StartFacts DEF UsedCovers
<1>4. \A i \in DOMAIN run.conns : run.by[i] # "solver" BY <1>1, StartFacts
<1> QED BY <1>2, <1>3, <1>4 DEF IInv, NotYet, SolverPinsExclusive, Init, FirstPhase

\* What IInv says of a run, so that a step can be argued about on its own.
Good(r, free) ==
    /\ r \in Runs
    /\ Len(r.conns) = Len(design.conns) /\ Len(r.by) = Len(design.conns)
    /\ \A i \in DOMAIN r.conns :
          /\ r.conns[i].comp = design.conns[i].comp
          /\ r.conns[i].role = design.conns[i].role
          /\ r.conns[i].target.kind = design.conns[i].target.kind
    /\ \A i \in DOMAIN r.conns :
          r.conns[i].target.kind = "gpio" => r.conns[i].target.to \in r.used \cup {None}
    /\ PinsOnBuses(design.buses) \subseteq r.used
    /\ \A i \in DOMAIN r.conns :
          r.by[i] = "solver" =>
             /\ free
             /\ r.conns[i].target.kind = "gpio" =>
                  /\ r.conns[i].target.to # None
                  /\ r.conns[i].target.to \notin PinsOnBuses(design.buses)
                  /\ \A j \in DOMAIN r.conns :
                        /\ r.conns[j].target.kind = "gpio"
                        /\ r.conns[j].target.to = r.conns[i].target.to
                        => i = j

\* Binding to what is not in use keeps a run good; so does binding to a lock's
\* pin while the solver has bound nothing.
LEMMA BindKeepsGood ==
    ASSUME NEW r \in Runs, NEW free \in BOOLEAN, Good(r, free),
           NEW i \in DOMAIN r.conns, NEW new, NEW whom \in {"lock", "solver"},
           Binds(r, new, i, whom), whom = "solver" <=> free
    PROVE  Good(new, free)
<1>1. PICK t \in Targets :
         /\ Unbound(r.conns[i].target) /\ r.conns[i].target.kind = t.kind
         /\ t.to # None
         /\ \/ /\ t.kind = "gpio" /\ t.to \in Pins
               /\ whom = "solver" => t.to \notin r.used
               /\ new = Bind([r EXCEPT !.used = @ \cup {t.to}], i, t, whom)
            \/ /\ t.kind = "expander_pin"
               /\ <<t.to, t.number>> \in (Names \X Nat) \ r.usedEx
               /\ new = Bind([r EXCEPT !.usedEx = @ \cup {<<t.to, t.number>>}], i, t, whom)
            \/ /\ t.kind \in {"bus", "component"}
               /\ new = Bind(r, i, t, whom)
  BY DEF Binds
<1>2. Len(r.by) = Len(r.conns) BY DEF Good
<1>3. CASE t.kind = "gpio"
  <2>1. PICK mid \in Runs : /\ mid.used = r.used \cup {t.to}
                            /\ mid.conns = r.conns /\ mid.by = r.by
                            /\ new = Bind(mid, i, t, whom)
    <3> DEFINE mid == [r EXCEPT !.used = @ \cup {t.to}]
    <3>1. /\ mid \in Runs /\ mid.used = r.used \cup {t.to}
          /\ mid.conns = r.conns /\ mid.by = r.by
      BY <1>1, <1>3, Reserved
    <3> QED BY <1>1, <1>3, <3>1
  <2>2. t.to \in Pins /\ (free => t.to \notin r.used)
    BY <1>1, <1>3
  <2>a. i \in DOMAIN mid.conns /\ Len(mid.by) = Len(mid.conns)
        /\ t.kind = mid.conns[i].target.kind
    BY <1>1, <1>2, <2>1
  <2>b. LET n == Bind(mid, i, t, whom) IN
        /\ n \in Runs
        /\ Len(n.conns) = Len(mid.conns) /\ Len(n.by) = Len(mid.by)
        /\ n.used = mid.used
        /\ n.conns[i].target = t /\ n.by[i] = whom
        /\ \A j \in DOMAIN mid.conns : j # i =>
              n.conns[j] = mid.conns[j] /\ n.by[j] = mid.by[j]
        /\ \A j \in DOMAIN mid.conns :
              /\ n.conns[j].comp = mid.conns[j].comp
              /\ n.conns[j].role = mid.conns[j].role
              /\ n.conns[j].target.kind = mid.conns[j].target.kind
    BY <2>a, BindFacts
  <2>3. /\ new \in Runs
        /\ Len(new.conns) = Len(r.conns) /\ Len(new.by) = Len(r.by)
        /\ new.used = r.used \cup {t.to}
        /\ new.conns[i].target = t /\ new.by[i] = whom
        /\ \A j \in DOMAIN r.conns : j # i =>
              new.conns[j] = r.conns[j] /\ new.by[j] = r.by[j]
        /\ \A j \in DOMAIN r.conns :
              /\ new.conns[j].comp = r.conns[j].comp
              /\ new.conns[j].role = r.conns[j].role
              /\ new.conns[j].target.kind = r.conns[j].target.kind
    BY <2>1, <2>b
  <2>4. DOMAIN new.conns = DOMAIN r.conns BY <2>3 DEF Runs
  <2>5. t.to # None BY <2>2, PinsAssumption
  <2>6. \A j \in DOMAIN r.conns : r.conns[j].target.kind = "gpio" =>
           new.conns[j].target.to \in new.used \cup {None}
    BY <2>3 DEF Good
  <2>7. ASSUME NEW j \in DOMAIN new.conns, new.by[j] = "solver",
               new.conns[j].target.kind = "gpio"
        PROVE  /\ new.conns[j].target.to # None
               /\ new.conns[j].target.to \notin PinsOnBuses(design.buses)
               /\ \A k \in DOMAIN new.conns :
                     /\ new.conns[k].target.kind = "gpio"
                     /\ new.conns[k].target.to = new.conns[j].target.to
                     => j = k
    <3>1. free
      <4>1. CASE j = i BY <2>3, <2>7, <4>1
      <4>2. CASE j # i BY <2>3, <2>4, <2>7, <4>2 DEF Good
      <4> QED BY <4>1, <4>2
    <3>2. t.to \notin r.used BY <2>2, <3>1
    <3>3. PinsOnBuses(design.buses) \subseteq r.used BY DEF Good
    <3>4. ASSUME NEW k \in DOMAIN r.conns, k # i, r.conns[k].target.kind = "gpio"
          PROVE  new.conns[k].target = r.conns[k].target /\ r.conns[k].target.to # t.to
      BY <2>3, <2>5, <3>2, <3>4 DEF Good
    <3>5. CASE j = i BY <2>3, <2>4, <2>5, <3>2, <3>3, <3>4, <3>5
    <3>6. CASE j # i
      <4>1. /\ r.by[j] = "solver" /\ r.conns[j].target.kind = "gpio"
            /\ new.conns[j].target = r.conns[j].target
        BY <2>3, <2>4, <2>7, <3>6
      <4> QED BY <2>3, <2>4, <2>7, <3>4, <3>6, <4>1 DEF Good
    <3> QED BY <3>5, <3>6
  <2>8. \A j \in DOMAIN new.conns : new.by[j] = "solver" => free
    BY <2>3, <2>4 DEF Good
  <2>9. PinsOnBuses(design.buses) \subseteq new.used BY <2>3 DEF Good
  <2> QED BY <2>3, <2>4, <2>6, <2>7, <2>8, <2>9 DEF Good
<1>4. CASE t.kind # "gpio"
  <2>1. PICK mid \in Runs : /\ mid.used = r.used /\ mid.conns = r.conns /\ mid.by = r.by
                            /\ new = Bind(mid, i, t, whom)
    <3>1. CASE t.kind = "expander_pin"
      <4> DEFINE mid == [r EXCEPT !.usedEx = @ \cup {<<t.to, t.number>>}]
      <4>1. mid \in Runs /\ mid.used = r.used /\ mid.conns = r.conns /\ mid.by = r.by
        BY <1>1, <3>1 DEF Runs
      <4> QED BY <1>1, <3>1, <4>1
    <3>2. CASE t.kind # "expander_pin" BY <1>1, <1>4, <3>2
    <3> QED BY <3>1, <3>2
  <2>a. i \in DOMAIN mid.conns /\ Len(mid.by) = Len(mid.conns)
        /\ t.kind = mid.conns[i].target.kind
    BY <1>1, <1>2, <2>1
  <2>b. LET n == Bind(mid, i, t, whom) IN
        /\ n \in Runs
        /\ Len(n.conns) = Len(mid.conns) /\ Len(n.by) = Len(mid.by)
        /\ n.used = mid.used
        /\ n.conns[i].target = t /\ n.by[i] = whom
        /\ \A j \in DOMAIN mid.conns : j # i =>
              n.conns[j] = mid.conns[j] /\ n.by[j] = mid.by[j]
        /\ \A j \in DOMAIN mid.conns :
              /\ n.conns[j].comp = mid.conns[j].comp
              /\ n.conns[j].role = mid.conns[j].role
              /\ n.conns[j].target.kind = mid.conns[j].target.kind
    BY <2>a, BindFacts
  <2>2. /\ new \in Runs
        /\ Len(new.conns) = Len(r.conns) /\ Len(new.by) = Len(r.by)
        /\ new.used = r.used
        /\ new.conns[i].target = t /\ new.by[i] = whom
        /\ \A j \in DOMAIN r.conns : j # i =>
              new.conns[j] = r.conns[j] /\ new.by[j] = r.by[j]
        /\ \A j \in DOMAIN r.conns :
              /\ new.conns[j].comp = r.conns[j].comp
              /\ new.conns[j].role = r.conns[j].role
              /\ new.conns[j].target.kind = r.conns[j].target.kind
    BY <2>1, <2>b
  <2>3. DOMAIN new.conns = DOMAIN r.conns BY <2>2 DEF Runs
  <2> QED BY <1>4, <2>2, <2>3 DEF Good
<1> QED BY <1>3, <1>4

LEMMA ReserveKeepsGood ==
    ASSUME NEW r \in Runs, NEW free \in BOOLEAN, Good(r, free), NEW p \in Pins
    PROVE  Good([r EXCEPT !.used = @ \cup {p}], free)
<1> DEFINE new == [r EXCEPT !.used = @ \cup {p}]
<1> SUFFICES Good(new, free) OBVIOUS
<1>1. new \in Runs /\ new.used = r.used \cup {p} /\ new.conns = r.conns /\ new.by = r.by
  BY Reserved
<1> HIDE DEF new
<1> QED BY <1>1 DEF Good

LEMMA GoodIsInv ==
    Good(run, phase # "lock") /\ Readable(design) /\ phase \in {"lock", "solve", "done"}
      /\ (phase # "done" => Knows(design)) /\ at \in Nat \ {0} /\ again \in BOOLEAN
    => IInv
<1> SUFFICES ASSUME Good(run, phase # "lock"), Readable(design),
                    phase \in {"lock", "solve", "done"}, phase # "done" => Knows(design),
                    at \in Nat \ {0}, again \in BOOLEAN
             PROVE  IInv
  OBVIOUS
<1>1. TypeOK BY DEF Good, Runs, TypeOK
<1>2. BoundPins(run.conns) \subseteq run.used BY DEF Good, BoundPins
<1>3. UsedCovers BY <1>2 DEF Good, UsedCovers
<1>4. NotYet /\ SolverPinsExclusive BY DEF Good, NotYet, SolverPinsExclusive, OnPin
<1> QED BY <1>1, <1>3, <1>4 DEF IInv

LEMMA InvIsGood == IInv => Good(run, phase # "lock")
<1> SUFFICES ASSUME IInv PROVE Good(run, phase # "lock") OBVIOUS
<1>1. run \in Runs BY DEF IInv, TypeOK, Runs
<1>2. \A i \in DOMAIN run.conns : run.conns[i].target.kind = "gpio" =>
         run.conns[i].target.to \in run.used \cup {None}
  BY DEF IInv, UsedCovers, BoundPins
<1>3. \A i \in DOMAIN run.conns : run.by[i] = "solver" => phase # "lock"
  BY DEF IInv, NotYet
<1>4. \A i \in DOMAIN run.conns :
         run.by[i] = "solver" /\ run.conns[i].target.kind = "gpio" =>
            /\ run.conns[i].target.to # None
            /\ run.conns[i].target.to \notin PinsOnBuses(design.buses)
            /\ \A j \in DOMAIN run.conns :
                  /\ run.conns[j].target.kind = "gpio"
                  /\ run.conns[j].target.to = run.conns[i].target.to
                  => i = j
  BY DEF IInv, NotYet, SolverPinsExclusive, OnPin
<1>5. PinsOnBuses(design.buses) \subseteq run.used BY DEF IInv, UsedCovers
<1>6. /\ Len(run.conns) = Len(design.conns) /\ Len(run.by) = Len(design.conns)
      /\ \A i \in DOMAIN run.conns :
            /\ run.conns[i].comp = design.conns[i].comp
            /\ run.conns[i].role = design.conns[i].role
            /\ run.conns[i].target.kind = design.conns[i].target.kind
  BY DEF IInv, TypeOK
<1> QED BY <1>1, <1>2, <1>3, <1>4, <1>5, <1>6 DEF Good

-----------------------------------------------------------------------------
(* The steps.                                                              *)

LEMMA StepKeepsGood ==
    ASSUME NEW r \in Runs, NEW free \in BOOLEAN, Good(r, free),
           NEW i \in DOMAIN r.conns, NEW new, NEW whom \in {"lock", "solver"},
           whom = "solver" <=> free,
           \/ new = r
           \/ \E p \in Pins : new = [r EXCEPT !.used = @ \cup {p}]
           \/ Binds(r, new, i, whom)
    PROVE  Good(new, free)
<1>1. CASE new = r BY <1>1
<1>2. CASE \E p \in Pins : new = [r EXCEPT !.used = @ \cup {p}]
  BY <1>2, ReserveKeepsGood
<1>3. CASE Binds(r, new, i, whom) BY <1>3, BindKeepsGood
<1> QED BY <1>1, <1>2, <1>3

\* A lock names a pin for as long as the connection it is about stays put.
LEMMA LocksArePins ==
    ASSUME IInv, NEW i \in DOMAIN run.conns
    PROVE  IsLocked(design, run.conns[i]) => LockOf(design, run.conns[i]) \in Pins
<1>1. /\ run.conns[i].comp = design.conns[i].comp
      /\ run.conns[i].role = design.conns[i].role
      /\ Readable(design)
  BY DEF IInv, TypeOK
<1>2. i \in DOMAIN design.conns BY DEF IInv, TypeOK, Readable
<1>3. IsLocked(design, design.conns[i]) => LockOf(design, design.conns[i]) \in Pins
  BY <1>1, <1>2 DEF Readable
<1> QED BY <1>1, <1>3 DEF IsLocked, LockOf

\* What a run leaves can be solved again.
LEMMA SolvedIsReadable ==
    ASSUME IInv
    PROVE  /\ Readable(Solved) /\ Solved.conns = run.conns
           /\ Solved.comps = design.comps /\ Solved.board = design.board
           /\ Solved.buses = design.buses
<1>1. Readable(design) /\ run \in Runs BY DEF IInv, TypeOK, Runs
<1>2. /\ Solved.conns = run.conns /\ Solved.comps = design.comps
      /\ Solved.board = design.board /\ Solved.buses = design.buses
      /\ DOMAIN Solved = DOMAIN design
  BY <1>1 DEF Solved, Readable
<1>3. BoundPins(run.conns) \subseteq Pins BY <1>1 DEF IInv, UsedCovers, Runs
<1>4. \A i \in DOMAIN run.conns :
         IsLocked(design, run.conns[i]) => LockOf(design, run.conns[i]) \in Pins
  BY LocksArePins
<1>5. \A c : IsLocked(Solved, c) <=> IsLocked(design, c) BY <1>2 DEF IsLocked
<1>6. \A c : LockOf(Solved, c) = LockOf(design, c) BY <1>2 DEF LockOf
<1>7. run.conns \in Seq(Connections) BY <1>1 DEF Runs
<1>8. Board(Solved) = Board(design) BY <1>2 DEF Board
<1> HIDE DEF Solved
<1> QED BY <1>1, <1>2, <1>3, <1>4, <1>5, <1>6, <1>7, <1>8 DEF Readable

LEMMA NextInv == IInv /\ [Next]_vars => IInv'
<1> SUFFICES ASSUME IInv, [Next]_vars PROVE IInv' OBVIOUS
<1>1. Good(run, phase # "lock") BY InvIsGood
<1>2. run \in Runs /\ Readable(design) /\ again \in BOOLEAN BY DEF IInv, TypeOK, Runs
<1>3. (Good(run, phase # "lock") /\ Readable(design) /\ phase \in {"lock", "solve", "done"}
         /\ (phase # "done" => Knows(design)) /\ at \in Nat \ {0} /\ again \in BOOLEAN
         => IInv)'
  BY GoodIsInv, PTL
<1>4. at \in Nat \ {0} /\ (phase # "done" => Knows(design)) BY DEF IInv, TypeOK
<1>5. CASE Lock
  <2>1. at \in DOMAIN run.conns BY <1>2, <1>4, <1>5 DEF Lock, Runs
  <2>2. Good(run, FALSE) BY <1>1, <1>5 DEF Lock
  <2>3. Good(LockAt(design, run, at), FALSE)
    BY <1>2, <2>1, <2>2, LocksArePins, LockStep, StepKeepsGood
  <2>a. Knows(design) BY <1>4, <1>5 DEF Lock
  <2>4. Good(run', FALSE) /\ design' = design /\ phase' = "lock" /\ again' = again
    BY <1>5, <2>3 DEF Lock
  <2>b. at' \in Nat \ {0} BY <1>4, <1>5 DEF Lock
  <2>5. Good(run, phase # "lock")' BY <2>4 DEF Good
  <2>6. Readable(design)' /\ Knows(design)' BY <1>2, <2>a, <2>4 DEF Readable, Knows
  <2> QED BY <1>2, <1>3, <2>4, <2>5, <2>6, <2>b
<1>6. CASE Assign
  <2>1. at \in DOMAIN run.conns BY <1>2, <1>4, <1>6 DEF Assign, Runs
  <2>2. Good(run, TRUE) BY <1>1, <1>6 DEF Assign
  <2>c. Len(run.by) = Len(run.conns) BY <1>1 DEF Good
  <2>d. Knows(design) BY <1>4, <1>6 DEF Assign
  <2>e. \/ SolveAt(design, run, at) = run
        \/ Binds(run, SolveAt(design, run, at), at, "solver")
    BY <1>2, <2>1, <2>c, <2>d, SolveStep
  <2>3. Good(SolveAt(design, run, at), TRUE)
    BY <1>2, <2>1, <2>2, <2>e, StepKeepsGood
  <2>a. Knows(design) BY <1>4, <1>6 DEF Assign
  <2>4. Good(run', TRUE) /\ design' = design /\ phase' = "solve" /\ again' = again
    BY <1>6, <2>3 DEF Assign
  <2>b. at' \in Nat \ {0} BY <1>4, <1>6 DEF Assign
  <2>5. Good(run, phase # "lock")' BY <2>4 DEF Good
  <2>6. Readable(design)' /\ Knows(design)' BY <1>2, <2>a, <2>4 DEF Readable, Knows
  <2> QED BY <1>2, <1>3, <2>4, <2>5, <2>6, <2>b
<1>7. CASE Locked \/ Finish \/ UNCHANGED vars
  <2>1. /\ design' = design /\ run' = run /\ again' = again /\ at' \in Nat \ {0}
        /\ phase' \in {"lock", "solve", "done"}
        /\ phase' = "lock" => phase = "lock"
        /\ phase' # "done" => phase # "done"
    BY <1>4, <1>7 DEF Locked, Finish, vars, IInv, TypeOK
  <2>2. Good(run, phase # "lock")' BY <1>1, <2>1 DEF Good
  <2>3. Readable(design)' /\ (phase # "done" => Knows(design))'
    BY <1>2, <1>4, <2>1 DEF Readable, Knows
  <2> QED BY <1>2, <1>3, <2>1, <2>2, <2>3
<1>8. CASE SolveAgain
  <2>1. Readable(Solved) BY SolvedIsReadable
  <2>2. design' = Solved /\ run' = Start(Solved) /\ again' = TRUE /\ at' = 1
        /\ phase' = FirstPhase(design)
    BY <1>8 DEF SolveAgain
  <2>3. Readable(design') /\ run' = Start(design') BY <2>1, <2>2
  <2>4. phase' \in {"lock", "solve", "done"} /\ (phase' # "done" => Knows(design'))
    BY <2>2, SolvedIsReadable DEF FirstPhase, Knows
  <2>5. Good(run, phase # "lock")'
    <3>1. \A i \in DOMAIN run'.conns : run'.by[i] # "solver" BY <2>3, StartFacts
    <3>2. \A i \in DOMAIN run'.conns : run'.conns[i].target.kind = "gpio" =>
             run'.conns[i].target.to \in run'.used \cup {None}
      BY <2>3, StartFacts DEF BoundPins
    <3> QED BY <2>3, <3>1, <3>2, StartFacts DEF Good
  <2>6. Readable(design)' /\ (phase # "done" => Knows(design))'
    BY <2>3, <2>4 DEF Readable, Knows
  <2> QED BY <1>3, <2>2, <2>4, <2>5, <2>6
<1> QED BY <1>5, <1>6, <1>7, <1>8 DEF Next

LEMMA Inductive == Spec => []IInv
BY InitInv, NextInv, PTL DEF Spec

\* Whatever the design, the run keeps its type.
THEOREM TypeCorrect == Spec => []TypeOK
BY Inductive, PTL DEF IInv

\* The pins the solver chooses are nobody else's, on any board, with any
\* library and for any design.
THEOREM PinsExclusive == Spec => []SolverPinsExclusive
BY Inductive, PTL DEF IInv

\* No pin that was bound moves.
THEOREM NothingMoves == Spec => BoundStays
<1> DEFINE Stays == \A i \in DOMAIN run.conns :
          ~Unbound(run.conns[i].target) => run'.conns[i].target = run.conns[i].target
<1>1. ASSUME NEW r \in Runs, NEW k \in DOMAIN r.conns, Len(r.by) = Len(r.conns),
             NEW new, NEW whom \in {"lock", "solver"},
             \/ new = r
             \/ \E p \in Pins : new = [r EXCEPT !.used = @ \cup {p}]
             \/ Binds(r, new, k, whom),
             NEW i \in DOMAIN r.conns, ~Unbound(r.conns[i].target)
      PROVE  new.conns[i].target = r.conns[i].target
  <2>1. CASE new = r BY <2>1
  <2>2. CASE \E p \in Pins : new = [r EXCEPT !.used = @ \cup {p}]
    BY <1>1, <2>2, Reserved
  <2>3. CASE Binds(r, new, k, whom)
    <3>1. PICK t \in Targets :
             /\ Unbound(r.conns[k].target)
             /\ \E mid : /\ mid.conns = r.conns
                         /\ new = Bind(mid, k, t, whom)
      BY <2>3 DEF Binds, Runs
    <3>2. k # i BY <1>1, <3>1
    <3> QED BY <1>1, <3>1, <3>2 DEF Bind
  <2> QED BY <1>1, <2>1, <2>2, <2>3
<1>2. IInv /\ [Next]_vars => [Stays]_vars
  <2> SUFFICES ASSUME IInv, Next, NEW i \in DOMAIN run.conns, ~Unbound(run.conns[i].target)
               PROVE  run'.conns[i].target = run.conns[i].target
    BY DEF vars
  <2>1. run \in Runs /\ Readable(design) /\ at \in Nat \ {0} /\ Len(run.by) = Len(run.conns)
        /\ (phase # "done" => Knows(design))
    BY DEF IInv, TypeOK, Runs
  <2>2. CASE Lock
    <3>1. at \in DOMAIN run.conns BY <2>1, <2>2 DEF Lock, Runs
    <3>2. run' = LockAt(design, run, at) BY <2>2 DEF Lock
    <3> QED BY <1>1, <2>1, <3>1, <3>2, LocksArePins, LockStep
  <2>3. CASE Assign
    <3>1. at \in DOMAIN run.conns BY <2>1, <2>3 DEF Assign, Runs
    <3>2. run' = SolveAt(design, run, at) BY <2>3 DEF Assign
    <3>3. Knows(design) BY <2>1, <2>3 DEF Assign
    <3> QED BY <1>1, <2>1, <3>1, <3>2, <3>3, SolveStep
  <2>4. CASE Locked \/ Finish BY <2>4 DEF Locked, Finish
  <2>5. CASE SolveAgain
    <3>1. run'.conns = run.conns BY <2>5, SolvedIsReadable, StartFacts DEF SolveAgain
    <3> QED BY <3>1
  <2> QED BY <2>2, <2>3, <2>4, <2>5 DEF Next
<1> QED BY <1>2, Inductive, PTL DEF BoundStays, Spec

-----------------------------------------------------------------------------
(* The result.  What is in use is what the connections, the bus slots and   *)
(* the locks claim, and nothing else; so what a run found nothing for, a    *)
(* second run over its result finds nothing for either.                     *)

LockedHere(d, c) == IsLocked(d, c) /\ c.target.kind = "gpio"
LockedPins(d) == {LockOf(d, d.conns[i]) : i \in {j \in DOMAIN d.conns : LockedHere(d, d.conns[j])}}
Claimed(d, conns) == BoundPins(conns) \cup PinsOnBuses(d.buses) \cup LockedPins(d)

\* Nothing is in use that nothing claims.
Accounts(d, r) ==
    /\ r.used \subseteq Claimed(d, r.conns)
    /\ r.usedEx = BoundExpanderPins(r.conns)

\* A lock is in use, and its connection has a pin.
HoldsLock(d, r, i) ==
    LockedHere(d, r.conns[i]) =>
       r.conns[i].target.to # None /\ LockOf(d, r.conns[i]) \in r.used

\* A connection that was left open was left so for want of anything that fits.
LeftOpen(d, r, i) ==
    Unbound(r.conns[i].target) /\ HasPin(d, r.conns[i]) =>
       NoneFits(d, r.conns[i], r.used, r.usedEx)

\* Whatever the solver did not bind, it was given so.
Recorded(d, r) ==
    \A i \in DOMAIN r.conns :
       /\ r.by[i] = "none" => Unbound(r.conns[i].target)
       /\ r.by[i] = "solver" /\ r.conns[i].target.kind = "gpio" =>
             HasPin(d, r.conns[i]) /\ Choice(d, r, i)

\* A design that holds nothing the solver would change.
Fixed(d) ==
    Knows(d) =>
       \A i \in DOMAIN d.conns :
          /\ LockedHere(d, d.conns[i]) => d.conns[i].target.to # None
          /\ Unbound(d.conns[i].target) /\ HasPin(d, d.conns[i]) =>
                NoneFits(d, d.conns[i], Claimed(d, d.conns), BoundExpanderPins(d.conns))

Settles ==
    /\ Accounts(design, run) /\ Recorded(design, run)
    /\ Knows(design) =>
          \A i \in DOMAIN run.conns :
             /\ (phase = "lock" => i < at) => HoldsLock(design, run, i)
             /\ phase # "lock" /\ (phase = "solve" => i < at) => LeftOpen(design, run, i)
    /\ again => run.conns = design.conns /\ Fixed(design)

\* What binding a connection leaves alone, and what it takes.
LEMMA BindsFacts ==
    ASSUME NEW r \in Runs, NEW i \in DOMAIN r.conns, Len(r.by) = Len(r.conns),
           NEW whom \in {"lock", "solver"}, NEW new, Binds(r, new, i, whom)
    PROVE  /\ new \in Runs /\ Len(new.conns) = Len(r.conns) /\ Len(new.by) = Len(r.by)
           /\ r.used \subseteq new.used /\ r.usedEx \subseteq new.usedEx
           /\ Unbound(r.conns[i].target) /\ new.conns[i].target.to # None /\ new.by[i] = whom
           /\ \A j \in DOMAIN r.conns : j # i =>
                 new.conns[j] = r.conns[j] /\ new.by[j] = r.by[j]
           /\ \A j \in DOMAIN r.conns :
                 /\ new.conns[j].comp = r.conns[j].comp
                 /\ new.conns[j].role = r.conns[j].role
                 /\ new.conns[j].target.kind = r.conns[j].target.kind
           /\ new.used = r.used \cup
                 (IF r.conns[i].target.kind = "gpio" THEN {new.conns[i].target.to} ELSE {})
           /\ new.usedEx = r.usedEx \cup
                 (IF r.conns[i].target.kind = "expander_pin"
                  THEN {<<new.conns[i].target.to, new.conns[i].target.number>>} ELSE {})
<1>1. PICK t \in Targets :
         /\ Unbound(r.conns[i].target) /\ r.conns[i].target.kind = t.kind
         /\ t.to # None
         /\ \/ /\ t.kind = "gpio" /\ t.to \in Pins
               /\ new = Bind([r EXCEPT !.used = @ \cup {t.to}], i, t, whom)
            \/ /\ t.kind = "expander_pin"
               /\ <<t.to, t.number>> \in (Names \X Nat) \ r.usedEx
               /\ new = Bind([r EXCEPT !.usedEx = @ \cup {<<t.to, t.number>>}], i, t, whom)
            \/ /\ t.kind \in {"bus", "component"}
               /\ new = Bind(r, i, t, whom)
  BY DEF Binds
<1>2. PICK mid \in Runs :
         /\ mid.conns = r.conns /\ mid.by = r.by
         /\ new = Bind(mid, i, t, whom)
         /\ mid.used = r.used \cup (IF t.kind = "gpio" THEN {t.to} ELSE {})
         /\ mid.usedEx = r.usedEx \cup
               (IF t.kind = "expander_pin" THEN {<<t.to, t.number>>} ELSE {})
  <2>1. CASE t.kind = "gpio"
    <3> DEFINE mid == [r EXCEPT !.used = @ \cup {t.to}]
    <3>1. /\ mid \in Runs /\ mid.used = r.used \cup {t.to}
          /\ mid.conns = r.conns /\ mid.by = r.by /\ mid.usedEx = r.usedEx
      BY <1>1, <2>1, Reserved
    <3> QED BY <1>1, <2>1, <3>1
  <2>2. CASE t.kind = "expander_pin"
    <3> DEFINE mid == [r EXCEPT !.usedEx = @ \cup {<<t.to, t.number>>}]
    <3>1. /\ mid \in Runs /\ mid.usedEx = r.usedEx \cup {<<t.to, t.number>>}
          /\ mid.conns = r.conns /\ mid.by = r.by /\ mid.used = r.used
      BY <1>1, <2>2 DEF Runs
    <3> QED BY <1>1, <2>2, <3>1
  <2>3. CASE t.kind \in {"bus", "component"} BY <1>1, <2>3
  <2> QED BY <1>1, <2>1, <2>2, <2>3
<1>3. i \in DOMAIN mid.conns /\ Len(mid.by) = Len(mid.conns) /\ t.kind = mid.conns[i].target.kind
  BY <1>1, <1>2
<1>4. LET n == Bind(mid, i, t, whom) IN
      /\ n \in Runs
      /\ Len(n.conns) = Len(mid.conns) /\ Len(n.by) = Len(mid.by)
      /\ n.used = mid.used /\ n.usedEx = mid.usedEx
      /\ n.conns[i].target = t /\ n.by[i] = whom
      /\ \A j \in DOMAIN mid.conns : j # i =>
            n.conns[j] = mid.conns[j] /\ n.by[j] = mid.by[j]
      /\ \A j \in DOMAIN mid.conns :
            /\ n.conns[j].comp = mid.conns[j].comp
            /\ n.conns[j].role = mid.conns[j].role
            /\ n.conns[j].target.kind = mid.conns[j].target.kind
  BY <1>3, BindFacts
<1>5. new.conns[i].target = t /\ new.used = mid.used /\ new.usedEx = mid.usedEx
  BY <1>2, <1>4
<1>6. /\ new \in Runs /\ Len(new.conns) = Len(r.conns) /\ Len(new.by) = Len(r.by)
      /\ new.by[i] = whom
      /\ \A j \in DOMAIN r.conns : j # i =>
            new.conns[j] = r.conns[j] /\ new.by[j] = r.by[j]
      /\ \A j \in DOMAIN r.conns :
            /\ new.conns[j].comp = r.conns[j].comp
            /\ new.conns[j].role = r.conns[j].role
            /\ new.conns[j].target.kind = r.conns[j].target.kind
  BY <1>2, <1>4
<1> QED BY <1>1, <1>2, <1>5, <1>6

\* What depends on a connection's part and role alone.
LEMMA SamePin ==
    ASSUME NEW d, NEW c, NEW e, c.comp = e.comp, c.role = e.role,
           c.target.kind = e.target.kind
    PROVE  /\ HasPin(d, c) = HasPin(d, e) /\ PinOf(d, c) = PinOf(d, e)
           /\ LockedHere(d, c) = LockedHere(d, e) /\ LockOf(d, c) = LockOf(d, e)
BY DEF HasPin, PinOf, LockedHere, IsLocked, LockOf

\* What the first walk does to a connection.
LEMMA LockFacts ==
    ASSUME NEW d, NEW r \in Runs, NEW i \in DOMAIN r.conns, Len(r.by) = Len(r.conns),
           IsLocked(d, r.conns[i]) => LockOf(d, r.conns[i]) \in Pins,
           NEW new, new = LockAt(d, r, i)
    PROVE  LET c == r.conns[i] IN
           /\ new.used = r.used \cup (IF LockedHere(d, c) THEN {LockOf(d, c)} ELSE {})
           /\ new.usedEx = r.usedEx
           /\ LockedHere(d, c) => new.conns[i].target.to # None
           /\ \/ new.conns = r.conns /\ new.by = r.by
              \/ /\ LockedHere(d, c) /\ Unbound(c.target) /\ Binds(r, new, i, "lock")
<1> DEFINE c == r.conns[i]
<1>1. CASE ~LockedHere(d, c)
  <2>1. new = r BY <1>1 DEF LockAt, LockedHere
  <2> QED BY <1>1, <2>1
<1>2. CASE LockedHere(d, c) /\ c.target.to # None
  <2>1. new = [r EXCEPT !.used = @ \cup {LockOf(d, c)}] BY <1>2 DEF LockAt, LockedHere
  <2>2. LockOf(d, c) \in Pins BY <1>2 DEF LockedHere
  <2> QED BY <1>2, <2>1, <2>2, Reserved
<1>3. CASE LockedHere(d, c) /\ c.target.to = None
  <2> DEFINE p == LockOf(d, c)
             mid == [r EXCEPT !.used = @ \cup {p}]
  <2>1. p \in Pins BY <1>3 DEF LockedHere
  <2>2. /\ mid \in Runs /\ mid.used = r.used \cup {p} /\ mid.usedEx = r.usedEx
        /\ mid.conns = r.conns /\ mid.by = r.by
    BY <2>1, Reserved
  <2>3. new = Bind(mid, i, Target("gpio", p), "lock") BY <1>3 DEF LockAt, LockedHere
  <2> HIDE DEF p
  <2>4. PICK t \in Targets : t = Target("gpio", p) BY <2>1, GpioTarget
  <2>5. t.kind = "gpio" /\ t.to = p /\ p # None BY <2>1, <2>4, GpioTarget
  <2>6. c.target.kind = "gpio" /\ Unbound(c.target) BY <1>3 DEF LockedHere, Unbound
  <2>7. Binds(r, new, i, "lock") BY <2>1, <2>3, <2>4, <2>5, <2>6 DEF Binds
  <2>8. PICK m \in Runs : m = mid BY <2>2
  <2>9. /\ i \in DOMAIN m.conns /\ Len(m.by) = Len(m.conns)
        /\ t.kind = m.conns[i].target.kind
    BY <2>2, <2>5, <2>6, <2>8
  <2>10. LET n == Bind(m, i, t, "lock") IN
         /\ n.used = m.used /\ n.usedEx = m.usedEx /\ n.conns[i].target = t
    BY <2>9, BindFacts
  <2>11. new = Bind(m, i, t, "lock") BY <2>3, <2>4, <2>8
  <2>12. /\ new.used = r.used \cup {p} /\ new.usedEx = r.usedEx
         /\ new.conns[i].target.to # None
    BY <2>2, <2>5, <2>8, <2>10, <2>11
  <2> QED BY <1>3, <2>6, <2>7, <2>12 DEF p
<1> QED BY <1>1, <1>2, <1>3

\* The rest of a connection's record when another one is considered.
LEMMA Others ==
    ASSUME NEW d, NEW r \in Runs, NEW i \in DOMAIN r.conns, Len(r.by) = Len(r.conns),
           NEW whom \in {"lock", "solver"}, NEW new, Binds(r, new, i, whom),
           NEW j \in DOMAIN r.conns, j # i
    PROVE  /\ HoldsLock(d, r, j) => HoldsLock(d, new, j)
           /\ LeftOpen(d, r, j) => LeftOpen(d, new, j)
           /\ Choice(d, r, j) => Choice(d, new, j)
<1>1. new.conns[j] = r.conns[j] /\ r.used \subseteq new.used /\ r.usedEx \subseteq new.usedEx
  BY BindsFacts
<1>2. HoldsLock(d, r, j) => HoldsLock(d, new, j) BY <1>1 DEF HoldsLock
<1>3. LeftOpen(d, r, j) => LeftOpen(d, new, j) BY <1>1, NoneFitsLater DEF LeftOpen
<1>4. Choice(d, r, j) => Choice(d, new, j) BY <1>1 DEF Choice
<1> QED BY <1>2, <1>3, <1>4

\* Everything in use stays claimed when a connection is bound, and the record
\* stays a record.
LEMMA BindsKeepsAccounts ==
    ASSUME NEW d, NEW r \in Runs, NEW i \in DOMAIN r.conns, Len(r.by) = Len(r.conns),
           NEW whom \in {"lock", "solver"}, NEW new, Binds(r, new, i, whom),
           Accounts(d, r), Recorded(d, r),
           whom = "solver" /\ r.conns[i].target.kind = "gpio" =>
              HasPin(d, r.conns[i]) /\ Choice(d, new, i)
    PROVE  Accounts(d, new) /\ Recorded(d, new)
<1>a. /\ DOMAIN new.conns = DOMAIN r.conns
      /\ \A j \in DOMAIN r.conns : j # i => new.conns[j] = r.conns[j] /\ new.by[j] = r.by[j]
  BY BindsFacts DEF Runs
<1>b. new.used = r.used \cup
         (IF r.conns[i].target.kind = "gpio" THEN {new.conns[i].target.to} ELSE {})
  BY BindsFacts
<1>c. new.usedEx = r.usedEx \cup
         (IF r.conns[i].target.kind = "expander_pin"
          THEN {<<new.conns[i].target.to, new.conns[i].target.number>>} ELSE {})
  BY BindsFacts
<1>d. /\ r.conns[i].target.to = None /\ new.conns[i].target.to # None
      /\ new.conns[i].target.kind = r.conns[i].target.kind
  BY BindsFacts DEF Unbound
<1>1. new.used \subseteq Claimed(d, new.conns)
  <2> SUFFICES ASSUME NEW p \in new.used PROVE p \in Claimed(d, new.conns) OBVIOUS
  <2>1. CASE p \in r.used
    <3>1. p \in BoundPins(r.conns) => p \in BoundPins(new.conns) BY <1>a, <1>d DEF BoundPins
    <3> QED BY <2>1, <3>1 DEF Accounts, Claimed
  <2>2. CASE p \notin r.used
    <3>1. r.conns[i].target.kind = "gpio" /\ p = new.conns[i].target.to BY <1>b, <2>2
    <3> QED BY <1>a, <1>d, <3>1 DEF BoundPins, Claimed
  <2> QED BY <2>1, <2>2
<1>2. new.usedEx = BoundExpanderPins(new.conns)
  <2>1. ASSUME NEW p
        PROVE  p \in BoundExpanderPins(new.conns) <=>
                  \/ p \in BoundExpanderPins(r.conns)
                  \/ /\ r.conns[i].target.kind = "expander_pin"
                     /\ p = <<new.conns[i].target.to, new.conns[i].target.number>>
    BY <1>a, <1>d DEF BoundExpanderPins
  <2>2. ASSUME NEW p
        PROVE  p \in new.usedEx <=>
                  \/ p \in r.usedEx
                  \/ /\ r.conns[i].target.kind = "expander_pin"
                     /\ p = <<new.conns[i].target.to, new.conns[i].target.number>>
    BY <1>c
  <2> QED BY <2>1, <2>2 DEF Accounts
<1>4. ASSUME NEW j \in DOMAIN new.conns, j # i
      PROVE  /\ new.by[j] = "none" => Unbound(new.conns[j].target)
             /\ new.by[j] = "solver" /\ new.conns[j].target.kind = "gpio" =>
                   HasPin(d, new.conns[j]) /\ Choice(d, new, j)
  <2>1. j \in DOMAIN r.conns /\ new.conns[j] = r.conns[j] /\ new.by[j] = r.by[j]
    BY <1>a, <1>4
  <2>2. Choice(d, r, j) => Choice(d, new, j) BY <1>4, <2>1, Others
  <2> QED BY <2>1, <2>2 DEF Recorded
<1>5. /\ new.by[i] # "none"
      /\ new.by[i] = "solver" /\ new.conns[i].target.kind = "gpio" =>
            HasPin(d, new.conns[i]) /\ Choice(d, new, i)
  <2>1. /\ new.by[i] = whom /\ new.conns[i].comp = r.conns[i].comp
        /\ new.conns[i].role = r.conns[i].role
        /\ new.conns[i].target.kind = r.conns[i].target.kind
    BY BindsFacts
  <2>2. HasPin(d, new.conns[i]) = HasPin(d, r.conns[i]) BY <2>1, SamePin
  <2> QED BY <2>1, <2>2
<1> QED BY <1>1, <1>2, <1>4, <1>5 DEF Accounts, Recorded

LEMMA StartSettles ==
    ASSUME NEW d, Readable(d)
    PROVE  Accounts(d, Start(d)) /\ Recorded(d, Start(d))
BY StartFacts DEF Accounts, Recorded, Claimed

LEMMA SettlesInit == Init => Settles
<1> SUFFICES ASSUME Init PROVE Settles OBVIOUS
<1>1. Readable(design) /\ run = Start(design) BY InputsAssumption DEF Init
<1>2. Accounts(design, run) /\ Recorded(design, run) BY <1>1, StartSettles
<1>3. Knows(design) => phase = "lock" /\ at = 1 BY DEF Init, FirstPhase
<1>4. \A i \in DOMAIN run.conns : ~(i < 1)
  <2>1. run \in Runs BY <1>1, StartFacts
  <2> QED BY <2>1 DEF Runs
<1> QED BY <1>2, <1>3, <1>4 DEF Settles, Init

\* What Settles needs to know of the run and the design.
LEMMA Given ==
    ASSUME IInv
    PROVE  /\ run \in Runs /\ Readable(design) /\ Len(run.by) = Len(run.conns)
           /\ DOMAIN run.conns = DOMAIN design.conns /\ at \in Nat \ {0}
           /\ phase # "done" => Knows(design)
           /\ \A i \in DOMAIN run.conns :
                 /\ HasPin(design, run.conns[i]) = HasPin(design, design.conns[i])
                 /\ LockedHere(design, run.conns[i]) = LockedHere(design, design.conns[i])
                 /\ LockOf(design, run.conns[i]) = LockOf(design, design.conns[i])
<1>1. /\ run \in Runs /\ Readable(design) /\ Len(run.by) = Len(run.conns) /\ at \in Nat \ {0}
      /\ phase # "done" => Knows(design)
  BY DEF IInv, TypeOK, Runs
<1>2. DOMAIN run.conns = DOMAIN design.conns
  BY <1>1 DEF IInv, TypeOK, Runs, Readable
<1>3. ASSUME NEW i \in DOMAIN run.conns
      PROVE  /\ HasPin(design, run.conns[i]) = HasPin(design, design.conns[i])
             /\ LockedHere(design, run.conns[i]) = LockedHere(design, design.conns[i])
             /\ LockOf(design, run.conns[i]) = LockOf(design, design.conns[i])
  <2>1. /\ run.conns[i].comp = design.conns[i].comp
        /\ run.conns[i].role = design.conns[i].role
        /\ run.conns[i].target.kind = design.conns[i].target.kind
    BY DEF IInv, TypeOK
  <2> QED BY <2>1, SamePin
<1> QED BY <1>1, <1>2, <1>3

LEMMA LockSettles == IInv /\ Settles /\ Lock => Settles'
<1> SUFFICES ASSUME IInv, Settles, Lock PROVE Settles' OBVIOUS
<1> DEFINE c == run.conns[at]
<1>1. /\ run \in Runs /\ Readable(design) /\ Len(run.by) = Len(run.conns)
      /\ DOMAIN run.conns = DOMAIN design.conns /\ at \in Nat \ {0} /\ Knows(design)
  BY Given DEF Lock
<1>2. at \in DOMAIN run.conns BY <1>1 DEF Lock, Runs
<1>3. /\ design' = design /\ phase = "lock" /\ phase' = "lock" /\ again' = again
      /\ run' = LockAt(design, run, at)
  BY DEF Lock
<1>4. at' = at + 1 BY DEF Lock
<1>5. /\ run'.used = run.used \cup
            (IF LockedHere(design, c) THEN {LockOf(design, c)} ELSE {})
      /\ run'.usedEx = run.usedEx
      /\ LockedHere(design, c) => run'.conns[at].target.to # None
      /\ \/ run'.conns = run.conns /\ run'.by = run.by
         \/ /\ LockedHere(design, c) /\ Unbound(c.target)
            /\ Binds(run, run', at, "lock")
  <2> DEFINE new == LockAt(design, run, at)
  <2>1. IsLocked(design, c) => LockOf(design, c) \in Pins BY <1>2, LocksArePins
  <2>2. run' = new BY <1>3
  <2>3. run \in Runs /\ at \in DOMAIN run.conns /\ Len(run.by) = Len(run.conns) BY <1>1, <1>2
  <2>4. /\ new.used = run.used \cup
              (IF LockedHere(design, c) THEN {LockOf(design, c)} ELSE {})
        /\ new.usedEx = run.usedEx
        /\ LockedHere(design, c) => new.conns[at].target.to # None
        /\ \/ new.conns = run.conns /\ new.by = run.by
           \/ LockedHere(design, c) /\ Unbound(c.target) /\ Binds(run, new, at, "lock")
    <3> HIDE DEF IInv, Settles, Lock
    <3> QED BY ONLY <2>1, <2>3, LockFacts
  <2> HIDE DEF new
  <2> QED BY <2>2, <2>4
<1>6. LockedHere(design, c) => LockOf(design, c) \in LockedPins(design)
  BY <1>1, <1>2, Given DEF LockedPins
<1>7. Accounts(design, run) /\ Recorded(design, run) BY DEF Settles
<1>8. Accounts(design, run') /\ Recorded(design, run')
  <2>1. CASE run'.conns = run.conns /\ run'.by = run.by
    <3>1. Accounts(design, run') BY <1>5, <1>6, <1>7, <2>1 DEF Accounts, Claimed
    <3>2. Recorded(design, run') BY <1>5, <1>7, <2>1 DEF Recorded, Choice
    <3> QED BY <3>1, <3>2
  <2>2. CASE Binds(run, run', at, "lock")
    BY <1>1, <1>2, <1>7, <2>2, BindsKeepsAccounts
  <2> QED BY <1>5, <2>1, <2>2
<1>9. DOMAIN run'.conns = DOMAIN run.conns
  <2>1. CASE run'.conns = run.conns BY <2>1
  <2>2. CASE Binds(run, run', at, "lock")
    <3>1. run' \in Runs /\ Len(run'.conns) = Len(run.conns)
      BY <1>1, <1>2, <2>2, BindsFacts
    <3> QED BY <1>1, <3>1 DEF Runs
  <2> QED BY <1>5, <2>1, <2>2
<1>10. ASSUME NEW j \in DOMAIN run.conns, j < at + 1 PROVE HoldsLock(design, run', j)
  <2>1. CASE j = at
    <3>1. /\ run'.conns[at].comp = c.comp /\ run'.conns[at].role = c.role
          /\ run'.conns[at].target.kind = c.target.kind
      <4>1. CASE run'.conns = run.conns BY <4>1
      <4>2. CASE Binds(run, run', at, "lock") BY <1>1, <1>2, <4>2, BindsFacts
      <4> QED BY <1>5, <4>1, <4>2
    <3>2. LockedHere(design, run'.conns[at]) = LockedHere(design, c)
          /\ LockOf(design, run'.conns[at]) = LockOf(design, c)
      BY <3>1, SamePin
    <3> QED BY <1>5, <2>1, <3>2 DEF HoldsLock
  <2>2. CASE j # at
    <3>1. HoldsLock(design, run, j)
      <4>1. j < at
        <5>1. j \in Nat BY <1>1 DEF Runs
        <5> QED BY <1>1, <1>10, <2>2, <5>1
      <4> QED BY <1>1, <1>3, <4>1 DEF Settles
    <3>2. CASE run'.conns = run.conns BY <1>5, <3>1, <3>2 DEF HoldsLock
    <3>3. CASE Binds(run, run', at, "lock") BY <1>1, <1>2, <2>2, <3>1, <3>3, Others
    <3> QED BY <1>5, <3>2, <3>3
  <2> QED BY <2>1, <2>2
<1>11. again => run'.conns = design.conns /\ Fixed(design)
  <2> SUFFICES ASSUME again PROVE run'.conns = design.conns /\ Fixed(design) OBVIOUS
  <2>1. run.conns = design.conns /\ Fixed(design) BY DEF Settles
  <2>2. LockedHere(design, c) => c.target.to # None BY <1>1, <1>2, <2>1 DEF Fixed
  <2>3. run'.conns = run.conns BY <1>5, <2>2 DEF Unbound
  <2> QED BY <2>1, <2>3
<1> QED BY <1>3, <1>4, <1>8, <1>9, <1>10, <1>11 DEF Settles

LEMMA AssignSettles == IInv /\ Settles /\ Assign => Settles'
<1> SUFFICES ASSUME IInv, Settles, Assign PROVE Settles' OBVIOUS
<1> DEFINE c == run.conns[at]
<1>1. /\ run \in Runs /\ Readable(design) /\ Len(run.by) = Len(run.conns)
      /\ DOMAIN run.conns = DOMAIN design.conns /\ at \in Nat \ {0} /\ Knows(design)
  BY Given DEF Assign
<1>2. at \in DOMAIN run.conns BY <1>1 DEF Assign, Runs
<1>3. /\ design' = design /\ phase = "solve" /\ phase' = "solve" /\ again' = again
      /\ run' = SolveAt(design, run, at)
  BY DEF Assign
<1>4. at' = at + 1 BY DEF Assign
<1>5. /\ run' = run \/ Binds(run, run', at, "solver")
      /\ ~Unbound(c.target) \/ ~HasPin(design, c) => run' = run
      /\ Unbound(c.target) /\ HasPin(design, c) => Tries(design, run, run', at)
      /\ run' # run /\ c.target.kind = "gpio" => HasPin(design, c) /\ Choice(design, run', at)
  BY <1>1, <1>2, <1>3, SolveStep
<1>6. /\ Accounts(design, run) /\ Recorded(design, run)
      /\ \A i \in DOMAIN run.conns : HoldsLock(design, run, i)
      /\ \A i \in DOMAIN run.conns : i < at => LeftOpen(design, run, i)
  BY <1>1, <1>3 DEF Settles
<1>7. CASE run' = run
  <2>1. LeftOpen(design, run, at)
    <3> SUFFICES ASSUME Unbound(c.target), HasPin(design, c),
                        ~NoneFits(design, c, run.used, run.usedEx)
                 PROVE  FALSE
      BY DEF LeftOpen
    <3>1. Binds(run, run, at, "solver") BY <1>5, <1>7 DEF Tries
    <3>2. run.conns[at].target.to # None BY <1>1, <1>2, <3>1, BindsFacts
    <3> QED BY <3>2 DEF Unbound
  <2>2. ASSUME NEW i \in DOMAIN run.conns, i < at + 1 PROVE LeftOpen(design, run, i)
    <3>1. i \in Nat BY <1>1 DEF Runs
    <3>2. i < at \/ i = at BY <1>1, <2>2, <3>1
    <3> QED BY <1>6, <2>1, <3>2
  <2> QED BY <1>3, <1>4, <1>6, <1>7, <2>2 DEF Settles
<1>8. CASE run' # run
  <2>1. Binds(run, run', at, "solver") BY <1>5, <1>8
  <2>2. Accounts(design, run') /\ Recorded(design, run')
    BY <1>1, <1>2, <1>5, <1>6, <1>8, <2>1, BindsKeepsAccounts
  <2>3. DOMAIN run'.conns = DOMAIN run.conns /\ run'.conns[at].target.to # None
        /\ run.used \subseteq run'.used
        /\ run'.conns[at].comp = c.comp /\ run'.conns[at].role = c.role
        /\ run'.conns[at].target.kind = c.target.kind
    BY <1>1, <1>2, <2>1, BindsFacts DEF Runs
  <2>4. HoldsLock(design, run', at) /\ LeftOpen(design, run', at)
    <3>1. LockedHere(design, run'.conns[at]) = LockedHere(design, c)
          /\ LockOf(design, run'.conns[at]) = LockOf(design, c)
      BY <2>3, SamePin
    <3>2. HoldsLock(design, run', at) BY <1>2, <1>6, <2>3, <3>1 DEF HoldsLock
    <3> QED BY <2>3, <3>2 DEF LeftOpen, Unbound
  <2>5. ASSUME NEW i \in DOMAIN run.conns, i # at
        PROVE  /\ HoldsLock(design, run', i)
               /\ i < at + 1 => LeftOpen(design, run', i)
    <3>1. /\ HoldsLock(design, run, i) => HoldsLock(design, run', i)
          /\ LeftOpen(design, run, i) => LeftOpen(design, run', i)
      BY <1>1, <1>2, <2>1, <2>5, Others
    <3>2. i < at + 1 => i < at
      <4>1. i \in Nat BY <1>1 DEF Runs
      <4> QED BY <1>1, <2>5, <4>1
    <3> QED BY <1>6, <3>1, <3>2
  <2>6. ~again
    <3> SUFFICES ASSUME again PROVE FALSE OBVIOUS
    <3>1. run.conns = design.conns /\ Fixed(design) BY DEF Settles
    <3>2. Unbound(c.target) /\ HasPin(design, c)
          /\ ~NoneFits(design, c, run.used, run.usedEx)
      BY <1>5, <1>8 DEF Tries
    <3>3. NoneFits(design, c, Claimed(design, design.conns), BoundExpanderPins(design.conns))
      BY <1>1, <1>2, <3>1, <3>2 DEF Fixed
    <3>4. LockedPins(design) \subseteq run.used
      BY <1>6, <3>1 DEF LockedPins, HoldsLock
    <3>5. Claimed(design, design.conns) \subseteq run.used
      BY <3>1, <3>4 DEF Claimed, IInv, UsedCovers
    <3>6. BoundExpanderPins(design.conns) = run.usedEx BY <1>6, <3>1 DEF Accounts
    <3> QED BY <3>2, <3>3, <3>5, <3>6, NoneFitsLater
  <2> QED BY <1>3, <1>4, <2>2, <2>3, <2>4, <2>5, <2>6 DEF Settles
<1> QED BY <1>7, <1>8

\* The design a run leaves is one the solver would leave alone.
LEMMA SolvedIsFixed ==
    ASSUME IInv, Settles, phase = "done"
    PROVE  Fixed(Solved)
<1>1. /\ Solved.conns = run.conns /\ Solved.comps = design.comps
      /\ Solved.board = design.board /\ Solved.buses = design.buses
  BY SolvedIsReadable
<1>2. /\ \A c : LockedHere(Solved, c) = LockedHere(design, c)
      /\ \A c : LockOf(Solved, c) = LockOf(design, c)
  BY <1>1 DEF LockedHere, IsLocked, LockOf
<1>3. /\ \A c : HasPin(Solved, c) = HasPin(design, c)
      /\ \A c : PinOf(Solved, c) = PinOf(design, c)
      /\ Board(Solved) = Board(design) /\ Knows(Solved) = Knows(design)
  BY <1>1 DEF HasPin, PinOf, Known, PartOf, Board, Knows
<1>4. \A c, used, usedEx :
         NoneFits(Solved, c, used, usedEx) <=> NoneFits(design, c, used, usedEx)
  BY <1>1, <1>3 DEF NoneFits
<1>5. LockedPins(design) = LockedPins(Solved)
  BY <1>1, <1>2, Given DEF LockedPins
<1>6. run.used \subseteq Claimed(Solved, run.conns) /\ run.usedEx = BoundExpanderPins(run.conns)
  BY <1>1, <1>5 DEF Settles, Accounts, Claimed
<1> SUFFICES ASSUME Knows(design), NEW i \in DOMAIN run.conns
             PROVE  /\ LockedHere(design, run.conns[i]) => run.conns[i].target.to # None
                    /\ Unbound(run.conns[i].target) /\ HasPin(design, run.conns[i]) =>
                          NoneFits(design, run.conns[i], Claimed(Solved, run.conns),
                                   BoundExpanderPins(run.conns))
  <2> HIDE DEF Solved
  <2> QED BY <1>1, <1>2, <1>3, <1>4 DEF Fixed
<1>7. HoldsLock(design, run, i) /\ LeftOpen(design, run, i) BY DEF Settles
<1> HIDE DEF Solved
<1> QED BY <1>6, <1>7, NoneFitsLater DEF HoldsLock, LeftOpen

LEMMA SettlesNext == IInv /\ Settles /\ [Next]_vars => Settles'
<1> SUFFICES ASSUME IInv, Settles, [Next]_vars PROVE Settles' OBVIOUS
<1>1. CASE Lock BY <1>1, LockSettles
<1>2. CASE Assign BY <1>2, AssignSettles
<1>3. CASE Locked
  <2>1. \A i \in DOMAIN run.conns : i < at /\ ~(i < 1)
    BY <1>3, Given DEF Locked, Runs
  <2> QED BY <1>3, <2>1 DEF Locked, Settles
<1>4. CASE Finish
  <2>1. \A i \in DOMAIN run.conns : i < at BY <1>4, Given DEF Finish, Runs
  <2> QED BY <1>4, <2>1 DEF Finish, Settles
<1>5. CASE SolveAgain
  <2>1. /\ design' = Solved /\ run' = Start(Solved) /\ again' = TRUE /\ at' = 1
        /\ phase' = FirstPhase(design) /\ phase = "done"
    BY <1>5 DEF SolveAgain
  <2>2. Readable(Solved) /\ Fixed(Solved) /\ Knows(Solved) = Knows(design)
    BY <2>1, SolvedIsReadable, SolvedIsFixed DEF Knows
  <2>3. PICK d : d = Solved OBVIOUS
  <2>4. Accounts(d, Start(d)) /\ Recorded(d, Start(d)) /\ Start(d).conns = d.conns
    BY <2>2, <2>3, StartSettles, StartFacts
  <2>5. Knows(d) => phase' = "lock" BY <2>1, <2>2, <2>3 DEF FirstPhase
  <2>6. \A i \in DOMAIN d.conns : ~(i < 1) BY <2>2, <2>3 DEF Readable
  <2>7. design' = d /\ run' = Start(d) BY <2>1, <2>3
  <2> QED BY <2>1, <2>2, <2>3, <2>4, <2>5, <2>6, <2>7 DEF Settles
<1>6. CASE UNCHANGED vars BY <1>6 DEF vars, Settles
<1> QED BY <1>1, <1>2, <1>3, <1>4, <1>5, <1>6 DEF Next

LEMMA SettlesAlways == Spec => [](IInv /\ Settles)
BY InitInv, NextInv, SettlesInit, SettlesNext, PTL DEF Spec

-----------------------------------------------------------------------------
(* The checker on what was chosen.                                         *)

LEMMA Errors ==
    ASSUME NEW libPin, NEW caps, NEW classic,
           \E code \in PinCodes(libPin, caps, classic) : code[1] = "error"
    PROVE  \/ libPin.kind \in OutputKinds /\ "input_only" \in caps
           \/ Unserved(libPin, caps) # {}
<1>1. PICK code \in PinCodes(libPin, caps, classic) : code[1] = "error" OBVIOUS
<1>2. code[2] \in {"input_only_as_output", "function_unsupported"} BY <1>1 DEF PinCodes
<1>3. CASE code[2] = "input_only_as_output" BY <1>1, <1>3 DEF PinCodes
<1>4. CASE code[2] = "function_unsupported" BY <1>1, <1>4 DEF PinCodes
<1> QED BY <1>2, <1>3, <1>4

LEMMA Warns ==
    ASSUME NEW libPin, NEW caps, NEW classic,
           \E code \in PinCodes(libPin, caps, classic) : code[1] = "warn"
    PROVE  \/ caps \cap StrapTags # {} \/ caps \cap SerialTags # {}
           \/ libPin.kind = "analog_in" /\ "adc2" \in caps /\ classic
<1>1. PICK code \in PinCodes(libPin, caps, classic) : code[1] = "warn" OBVIOUS
<1>2. code[2] \in {"boot_strap_output", "boot_strap_driven", "serial_console",
                   "adc2_wifi_conflict"}
  BY <1>1 DEF PinCodes
<1>3. CASE code[2] = "boot_strap_output" BY <1>1, <1>3 DEF PinCodes
<1>4. CASE code[2] = "boot_strap_driven" BY <1>1, <1>4 DEF PinCodes
<1>5. CASE code[2] = "serial_console" BY <1>1, <1>5 DEF PinCodes
<1>6. CASE code[2] = "adc2_wifi_conflict" BY <1>1, <1>6 DEF PinCodes
<1> QED BY <1>2, <1>3, <1>4, <1>5, <1>6

LEMMA WarnsOfAdc2 ==
    ASSUME NEW libPin, NEW caps, NEW classic,
           libPin.kind = "analog_in", "adc2" \in caps, classic
    PROVE  \E code \in PinCodes(libPin, caps, classic) : code[1] = "warn"
<1>1. <<"warn", "adc2_wifi_conflict">> \in PinCodes(libPin, caps, classic) BY DEF PinCodes
<1> QED BY <1>1

LEMMA SettledIsSound ==
    ASSUME IInv, Settles
    PROVE  SolverSound
<1>1. ASSUME NEW i \in ByTheSolver
      PROVE  /\ i \in DOMAIN run.conns /\ Choice(design, run, i)
             /\ run.conns[i].target.to \in Could(i)
             /\ \A p \in Spare(i) :
                   Penalty(Board(design), PinOf(design, run.conns[i]), run.conns[i].target.to)
                     <= Penalty(Board(design), PinOf(design, run.conns[i]), p)
  BY DEF ByTheSolver, Settles, Recorded, Choice, Could, Spare
<1>2. \A i, p : p \in Could(i) =>
         /\ Caps(Board(design), p) = Board(design).caps[p]
         /\ Unserved(PinOf(design, run.conns[i]), Caps(Board(design), p)) = {}
         /\ PinOf(design, run.conns[i]).kind \in SolverOutputs =>
               "input_only" \notin Caps(Board(design), p)
  BY DEF Could, Suitable, Caps
<1>3. ASSUME NEW i \in ByTheSolver, IsSpecial(run.conns[i].target.to), NEW p \in Spare(i)
      PROVE  IsSpecial(p)
  BY <1>1, <1>3 DEF Penalty, IsSpecial
<1>4. NothingWasted
  <2>1. ASSUME phase = "done", Knows(design), NEW i \in DOMAIN run.conns, run.by[i] = "none",
               run.conns[i].target.kind = "gpio", HasPin(design, run.conns[i])
        PROVE  Spare(i) = {}
    <3>1. Unbound(run.conns[i].target) BY <2>1 DEF Settles, Recorded
    <3>2. LeftOpen(design, run, i) BY <2>1 DEF Settles
    <3>3. Suitable(Board(design), PinOf(design, run.conns[i])) \subseteq run.used
      BY <2>1, <3>1, <3>2 DEF LeftOpen, NoneFits
    <3> QED BY <3>3 DEF Spare, Could
  <2> QED BY <1>3, <2>1 DEF NothingWasted
<1>5. SolvedIsStable BY DEF Settles, SolvedIsStable
<1>6. CheckerAgrees
  <2> SUFFICES ASSUME NEW i \in ByTheSolver, Graded(i, run.conns[i].target.to, "error")
               PROVE  PinOf(design, run.conns[i]).kind \in OutputKinds \ SolverOutputs
    BY DEF CheckerAgrees
  <2> DEFINE libPin == PinOf(design, run.conns[i])
             caps == Caps(Board(design), run.conns[i].target.to)
  <2>1. \E code \in PinCodes(libPin, caps, Board(design).classic) : code[1] = "error"
    BY DEF Graded, CodesOn
  <2>2. Unserved(libPin, caps) = {} /\ (libPin.kind \in SolverOutputs => "input_only" \notin caps)
    BY <1>1, <1>2
  <2> HIDE DEF libPin, caps
  <2>3. libPin.kind \in OutputKinds /\ "input_only" \in caps BY <2>1, <2>2, Errors
  <2> QED BY <2>2, <2>3 DEF libPin
<1>7. NoNeedlessWarning
  <2> SUFFICES ASSUME NEW i \in ByTheSolver, Graded(i, run.conns[i].target.to, "warn"),
                      PinOf(design, run.conns[i]).kind = "analog_in" =>
                         "pwm" \notin PinOf(design, run.conns[i]).needs,
                      NEW p \in Spare(i), ~IsSpecial(p)
               PROVE  Graded(i, p, "warn")
    BY DEF NoNeedlessWarning
  <2> DEFINE libPin == PinOf(design, run.conns[i])
             board == Board(design)
             to == run.conns[i].target.to
  <2>1. to \in Could(i) /\ p \in Could(i) /\ Penalty(board, libPin, to) <= Penalty(board, libPin, p)
    BY <1>1 DEF Spare
  <2>2. Caps(board, to) = board.caps[to] /\ Caps(board, p) = board.caps[p] BY <1>2, <2>1
  <2>3. ~IsSpecial(to) BY <1>3
  <2>4. \E code \in PinCodes(libPin, board.caps[to], board.classic) : code[1] = "warn"
    BY <2>2 DEF Graded, CodesOn
  <2>5. libPin.kind = "analog_in" /\ "adc2" \in board.caps[to] /\ board.classic
    BY <2>3, <2>4, Warns DEF IsSpecial, Special
  <2>6. "pwm" \notin libPin.needs BY <2>5
  <2>7. Penalty(board, libPin, to) = 1
    BY <2>3, <2>5, <2>6 DEF Penalty, IsSpecial
  <2>8. "adc2" \in board.caps[p]
    BY <2>1, <2>5, <2>6, <2>7 DEF Penalty, IsSpecial
  <2>9. \E code \in PinCodes(libPin, board.caps[p], board.classic) : code[1] = "warn"
    BY <2>5, <2>8, WarnsOfAdc2
  <2> QED BY <2>2, <2>9 DEF Graded, CodesOn
<1> QED BY <1>4, <1>5, <1>6, <1>7 DEF SolverSound, SolvedIsKept, ChosenPinsPass

\* The solver's result is one to keep and one the checker accepts, on any
\* board, with any library and for any design: what it leaves open nothing
\* fits, a second run changes nothing, and no choice of its own is one the
\* checker would not have made.
THEOREM ResultSound == Spec => []SolverSound
BY SettlesAlways, SettledIsSound, PTL

-----------------------------------------------------------------------------
(* The editor.  First the screen: as long as the debounce rests, what is   *)
(* being rendered for it is the design it shows.                           *)

TabOK ==
    tab \in [doc : {tab.doc}, original : {tab.original}, by : {tab.by},
             example : {tab.example}, saved : {tab.saved}, board : {tab.board},
             timer : BOOLEAN, shown : {tab.shown}, error : BOOLEAN,
             rendering : BOOLEAN, solving : BOOLEAN,
             pending : BOOLEAN, session : {tab.session}, acts : {tab.acts}]
AskOK(a) ==
    a \in [op : {a.op}, what : {a.what}, with : {a.with}, at : {a.at}, live : BOOLEAN]

RendersTheDesign ==
    ~tab.timer => \A a \in asks : a.op = "render" /\ a.live => a.with = tab.doc
ScreenInv ==
    /\ TabOK /\ \A a \in asks : AskOK(a)
    /\ RendersTheDesign
    /\ ShowsTheDesign
    /\ tab.solving => Waits("solve")

\* A tab with this screen, and maybe something else in hand.
ScreenOf(t) ==
    t \in [doc : {tab.doc}, original : {t.original}, by : {t.by},
           example : {t.example}, saved : {t.saved}, board : {t.board},
           timer : {tab.timer}, shown : {tab.shown}, error : {tab.error},
           rendering : BOOLEAN, solving : BOOLEAN,
           pending : BOOLEAN, session : {t.session}, acts : {t.acts}]

\* An effect's answers made void: the others stay as they are.
LEMMA VoidedFacts ==
    ASSUME NEW those, \A a \in those : AskOK(a), NEW op
    PROVE  /\ \A a \in Voided(those, op) : AskOK(a)
           /\ \A a \in Voided(those, op) : a.live => a \in those /\ a.op # op
           /\ \A a \in those : a.op # op => a \in Voided(those, op)
BY DEF Voided, AskOK

\* A tab that shows another copy of its design debounces, and so its screen may
\* lag.
LEMMA PutsKeepsTheScreen ==
    ASSUME ScreenInv, NEW t, NEW those, NEW d, NEW by,
           ScreenOf(t),
           \A a \in those : AskOK(a),
           \A a \in those : a.op = "render" => a \in asks,
           \A a \in asks : a.op = "render" => a \in those,
           by = "reset" => (d = tab.doc => those = asks),
           by = "reset" => d # None /\ tab.doc # None,
           t.solving => \E a \in those : a.op = "solve" /\ a.live,
           Puts(t, those, d, by)
    PROVE  ScreenInv'
<1>1. tab' = [t EXCEPT !.doc = d, !.by = by, !.timer = t.timer \/ by # "reset" \/ d # t.doc,
                       !.board = IF d = None THEN None ELSE t.board]
  BY DEF Puts, Showing
<1>2. TabOK' BY <1>1 DEF TabOK, ScreenInv, ScreenOf
<1>3. /\ tab'.doc = d /\ tab'.timer = (tab.timer \/ by # "reset" \/ d # tab.doc)
      /\ tab'.shown = tab.shown /\ tab'.error = tab.error /\ tab'.solving = t.solving
  BY <1>1 DEF ScreenOf
<1>4. \A a \in asks' : AskOK(a)
  <2>1. AskOK(Request("board", d.board, None)) BY DEF AskOK, Request
  <2>2. \A a \in Voided(those, "board") : AskOK(a) BY VoidedFacts
  <2> QED BY <2>1, <2>2 DEF Puts, Fetching
<1>5. \A a \in those : a.op = "solve" /\ a.live => a \in asks'
  BY VoidedFacts DEF Puts, Fetching
<1>6. CASE tab'.timer
  BY <1>2, <1>3, <1>4, <1>5, <1>6
     DEF ScreenInv, RendersTheDesign, ShowsTheDesign, Waits
<1>7. CASE ~tab'.timer
  <2>1. by = "reset" /\ d = tab.doc /\ ~tab.timer BY <1>2, <1>3, <1>7 DEF ScreenInv, TabOK
  <2>2. asks' = asks BY <2>1 DEF Puts, Fetching
  <2> QED BY <1>2, <1>3, <1>4, <2>1, <2>2, <1>5
          DEF ScreenInv, RendersTheDesign, ShowsTheDesign, Waits
<1> QED BY <1>6, <1>7

\* Nor does the screen lag when nothing of what it follows is touched.
LEMMA AsideKeepsTheScreen ==
    ASSUME ScreenInv, TabOK', \A a \in asks' : AskOK(a),
           tab'.doc = tab.doc, tab'.timer = tab.timer,
           tab'.shown = tab.shown, tab'.error = tab.error,
           \A a \in asks : a.op \in {"render", "example"} /\ a.live => a \in asks',
           \A a \in asks' : a.op \in {"render", "example"} /\ a.live => a \in asks,
           tab'.solving => \E a \in asks' : a.op = "solve" /\ a.live
    PROVE  ScreenInv'
BY DEF ScreenInv, RendersTheDesign, ShowsTheDesign, Waits

LEMMA ActedFacts ==
    ASSUME TabOK
    PROVE  /\ Acted(tab).doc = tab.doc /\ Acted(tab).timer = tab.timer
           /\ Acted(tab).shown = tab.shown /\ Acted(tab).error = tab.error
           /\ Acted(tab).solving = tab.solving /\ Acted(tab).pending = tab.pending
           /\ ScreenOf(Acted(tab))
BY DEF TabOK, Acted, ScreenOf

LEMMA RequestOK ==
    ASSUME NEW op, NEW what, NEW with
    PROVE  /\ AskOK(Request(op, what, with)) /\ Request(op, what, with).live
           /\ Request(op, what, with).op = op /\ Request(op, what, with).with = with
BY DEF Request, AskOK

\* A step of the user's.
LEMMA UserKeepsTheScreen == ScreenInv /\ User => ScreenInv'
<1> SUFFICES ASSUME ScreenInv, User PROVE ScreenInv' OBVIOUS
<1>0. TabOK /\ (\A a \in asks : AskOK(a)) /\ (tab.solving => Waits("solve")) BY DEF ScreenInv
<1>1. CASE Edit
  <2>1. PICK d : Puts(Acted(tab), asks, d, "edit") BY <1>1 DEF Edit
  <2> QED BY <1>0, <2>1, ActedFacts, PutsKeepsTheScreen DEF TabOK, Waits
<1>2. CASE Reset
  <2>1. Puts(Acted(tab), asks, tab.original, "reset") /\ tab.doc # None /\ tab.original # None
    BY <1>2 DEF Reset, MayAct
  <2> QED BY <1>0, <2>1, ActedFacts, PutsKeepsTheScreen DEF TabOK, Waits
<1>3. CASE ClickSolve
  <2>1. TabOK' BY <1>0, <1>3 DEF ClickSolve, Acted, TabOK
  <2>2. /\ tab'.doc = tab.doc /\ tab'.timer = tab.timer
        /\ tab'.shown = tab.shown /\ tab'.error = tab.error
    BY <1>0, <1>3 DEF ClickSolve, Acted, TabOK
  <2>3. asks' = asks \cup {Request("solve", None, tab.doc)} BY <1>3 DEF ClickSolve
  <2> QED BY <1>0, <2>1, <2>2, <2>3, RequestOK, AsideKeepsTheScreen
<1>4. CASE Send
  <2>1. TabOK' BY <1>0, <1>4 DEF Send, Acted, TabOK
  <2>2. /\ tab'.doc = tab.doc /\ tab'.timer = tab.timer /\ tab'.solving = tab.solving
        /\ tab'.shown = tab.shown /\ tab'.error = tab.error
    BY <1>0, <1>4 DEF Send, Acted, TabOK
  <2>3. asks' = asks BY <1>4 DEF Send
  <2> QED BY <1>0, <2>1, <2>2, <2>3, AsideKeepsTheScreen DEF Waits
<1>5. CASE NewSession
  <2>1. TabOK' BY <1>0, <1>5 DEF NewSession, Acted, TabOK
  <2>2. /\ tab'.doc = tab.doc /\ tab'.timer = tab.timer /\ tab'.solving = tab.solving
        /\ tab'.shown = tab.shown /\ tab'.error = tab.error
    BY <1>0, <1>5 DEF NewSession, Acted, TabOK
  <2>3. asks' = asks BY <1>5 DEF NewSession
  <2> QED BY <1>0, <2>1, <2>2, <2>3, AsideKeepsTheScreen DEF Waits
<1>6. CASE \E id \in DOMAIN Examples : SelectExample(id)
  <2>1. PICK id \in DOMAIN Examples : SelectExample(id) BY <1>6
  <2>2. TabOK' BY <1>0, <2>1 DEF SelectExample, Acted, TabOK
  <2>3. /\ tab'.doc = tab.doc /\ tab'.timer = tab.timer /\ tab'.solving = tab.solving
        /\ tab'.shown = tab.shown /\ tab'.error = (tab.error /\ tab.example = id)
    BY <1>0, <2>1 DEF SelectExample, Acted, TabOK
  <2>4. CASE tab.example = id
    <3>1. asks' = asks /\ tab'.error = tab.error
      BY <1>0, <2>1, <2>3, <2>4 DEF SelectExample, TabOK
    <3> QED BY <1>0, <2>2, <2>3, <3>1, AsideKeepsTheScreen DEF Waits
  <2>5. CASE tab.example # id
    <3>1. asks' = Voided(asks, "example") \cup {Request("example", id, None)}
      BY <2>1, <2>5 DEF SelectExample
    <3>2. /\ \A a \in asks' : AskOK(a)
          /\ \E a \in asks' : a.op = "example" /\ a.live
          /\ \A a \in asks' : a.op = "render" /\ a.live => a \in asks
          /\ \A a \in asks : a.op = "solve" => a \in asks'
      BY <1>0, <3>1, RequestOK, VoidedFacts
    <3> QED BY <2>2, <2>3, <3>2 DEF ScreenInv, RendersTheDesign, ShowsTheDesign, Waits
  <2> QED BY <2>4, <2>5
<1>7. CASE \E id \in DOMAIN Stored : SelectSaved(id)
  <2>1. PICK id \in DOMAIN Stored : SelectSaved(id) BY <1>7
  <2>2. TabOK' BY <1>0, <2>1 DEF SelectSaved, Acted, TabOK
  <2>3. tab' = Acted(tab) /\ asks' = asks \cup {Request("saved", id, None)}
    BY <2>1 DEF SelectSaved
  <2> QED BY <1>0, <2>2, <2>3, ActedFacts, RequestOK, AsideKeepsTheScreen DEF Waits
<1>8. CASE \E d \in Fresh : Adopt(d)
  <2>1. PICK d \in Fresh : Adopt(d) BY <1>8
  <2> DEFINE t == [[Acted(tab) EXCEPT !.example = None, !.saved = None] EXCEPT !.original = d]
             those == Voided(asks, "example")
  <2>2. Puts(t, those, d, "load") BY <2>1 DEF Adopt, Opens
  <2>3. ScreenOf(t) /\ t.solving = tab.solving BY <1>0 DEF TabOK, Acted, ScreenOf
  <2>4. /\ \A a \in those : AskOK(a)
        /\ \A a \in those : a.op = "render" => a \in asks
        /\ \A a \in asks : a.op # "example" => a \in those
    BY <1>0 DEF Voided, AskOK
  <2> HIDE DEF t, those
  <2>5. t.solving => \E a \in those : a.op = "solve" /\ a.live
    BY <1>0, <2>3, <2>4 DEF Waits
  <2> QED BY <2>2, <2>3, <2>4, <2>5, PutsKeepsTheScreen
<1>9. CASE \E lib \in Addable : ClickAdd(lib)
  <2>1. PICK lib \in Addable : ClickAdd(lib) BY <1>9
  <2>2. TabOK' BY <1>0, <2>1 DEF ClickAdd, Acted, TabOK
  <2>3. tab' = Acted(tab) /\ asks' = asks \cup {Request("part", lib, tab.board)}
    BY <2>1 DEF ClickAdd
  <2> QED BY <1>0, <2>2, <2>3, ActedFacts, RequestOK, AsideKeepsTheScreen DEF Waits
<1>10. CASE \E members \in Bundles : ClickInsert(members)
  <2>1. PICK members \in Bundles : ClickInsert(members) BY <1>10
  <2>2. TabOK' BY <1>0, <2>1 DEF ClickInsert, Acted, TabOK
  <2>3. tab' = Acted(tab) /\ asks' = asks \cup {Request("insert", members, tab.doc)}
    BY <2>1 DEF ClickInsert
  <2> QED BY <1>0, <2>2, <2>3, ActedFacts, RequestOK, AsideKeepsTheScreen DEF Waits
<1> QED BY <1>1, <1>2, <1>3, <1>4, <1>5, <1>6, <1>7, <1>8, <1>9, <1>10 DEF User

\* An answer, whatever became of the design since it was asked for.
LEMMA ArrivalKeepsTheScreen ==
    ASSUME ScreenInv, NEW a \in asks, Arrives(a) PROVE ScreenInv'
<1>0. TabOK /\ (\A b \in asks : AskOK(b)) /\ AskOK(a) /\ (tab.solving => Waits("solve"))
  BY DEF ScreenInv
<1>1. /\ \A b \in asks \ {a} : AskOK(b)
      /\ a.op # "solve" => (tab.solving => \E b \in asks \ {a} : b.op = "solve" /\ b.live)
  BY <1>0 DEF Waits
<1>2. ASSUME a.op # "render", NEW t, NEW d, Puts(t, asks \ {a}, d, "load") \/ Puts(t, asks \ {a}, d, "part")
                 \/ Puts(t, asks \ {a}, d, "answer"),
             ScreenOf(t),
             t.solving => \E b \in asks \ {a} : b.op = "solve" /\ b.live
      PROVE  ScreenInv'
  <2>1. /\ \A b \in asks \ {a} : b.op = "render" => b \in asks
        /\ \A b \in asks : b.op = "render" => b \in asks \ {a}
    BY <1>2
  <2>2. CASE Puts(t, asks \ {a}, d, "load") BY <1>1, <1>2, <2>1, <2>2, PutsKeepsTheScreen
  <2>3. CASE Puts(t, asks \ {a}, d, "part") BY <1>1, <1>2, <2>1, <2>3, PutsKeepsTheScreen
  <2>4. CASE Puts(t, asks \ {a}, d, "answer") BY <1>1, <1>2, <2>1, <2>4, PutsKeepsTheScreen
  <2> QED BY <1>2, <2>2, <2>3, <2>4
<1>3. ASSUME asks' = asks \ {a}, tab' = tab, a.op \notin {"render", "example", "solve"} \/ ~a.live
      PROVE  ScreenInv'
  <2>1. TabOK' BY <1>0, <1>3 DEF TabOK
  <2>2. \A b \in asks : b.op \in {"render", "example"} /\ b.live => b \in asks \ {a} BY <1>3
  <2>3. tab'.solving => \E b \in asks \ {a} : b.op = "solve" /\ b.live
    BY <1>0, <1>3 DEF Waits
  <2> QED BY <1>1, <1>3, <2>1, <2>2, <2>3, AsideKeepsTheScreen
<1>4. CASE ExampleArrives(a)
  <2>1. a.op = "example" BY <1>4 DEF ExampleArrives
  <2>2. CASE ~a.live BY <1>3, <1>4, <2>1, <2>2 DEF ExampleArrives
  <2>3. CASE a.live
    <3> DEFINE t == [tab EXCEPT !.original = Examples[a.what]]
    <3>1. Puts(t, asks \ {a}, Examples[a.what], "load")
      BY <1>4, <2>3 DEF ExampleArrives, Opens
    <3>2. /\ ScreenOf(t)
          /\ t.solving = tab.solving
      BY <1>0 DEF TabOK, ScreenOf
    <3> HIDE DEF t
    <3> QED BY <1>1, <1>2, <2>1, <3>1, <3>2
  <2> QED BY <2>2, <2>3
<1>5. CASE SavedArrives(a)
  <2> DEFINE d == Stored[a.what]
             those == Voided(asks \ {a}, "example")
             t == [[tab EXCEPT !.example = None, !.saved = a.what] EXCEPT !.original = d]
  <2>1. a.op = "saved" /\ Puts(t, those, d, "load") BY <1>5 DEF SavedArrives, Opens
  <2>2. /\ \A b \in those : AskOK(b)
        /\ \A b \in those : b.op = "render" => b \in asks
        /\ \A b \in asks : b.op # "example" /\ b # a => b \in those
    BY <1>0 DEF Voided, AskOK
  <2>3. /\ ScreenOf(t)
        /\ t.solving = tab.solving
    BY <1>0 DEF TabOK, ScreenOf
  <2>4. t.solving => \E b \in those : b.op = "solve" /\ b.live
    BY <1>0, <2>1, <2>2, <2>3 DEF Waits
  <2>5. \A b \in asks : b.op = "render" => b \in those BY <2>1, <2>2
  <2> HIDE DEF t, those
  <2> QED BY <2>1, <2>2, <2>3, <2>4, <2>5, PutsKeepsTheScreen
<1>6. CASE PartArrives(a)
  <2>1. a.op = "part" BY <1>6 DEF PartArrives
  <2>2. CASE tab.doc = None BY <1>3, <1>6, <2>1, <2>2 DEF PartArrives
  <2>3. CASE tab.doc # None
    <3>1. PICK d : Puts(tab, asks \ {a}, d, "part") BY <1>6, <2>3 DEF PartArrives
    <3>2. ScreenOf(tab)
      BY <1>0 DEF TabOK, ScreenOf
    <3> QED BY <1>1, <1>2, <2>1, <3>1, <3>2
  <2> QED BY <2>2, <2>3
<1>7. CASE InsertArrives(a)
  <2>1. a.op = "insert" BY <1>7 DEF InsertArrives
  <2>2. PICK d : Puts(tab, asks \ {a}, d, "answer") BY <1>7 DEF InsertArrives
  <2>3. ScreenOf(tab)
    BY <1>0 DEF TabOK, ScreenOf
  <2> QED BY <1>1, <1>2, <2>1, <2>2, <2>3
<1>8. CASE SolveArrives(a)
  <2> DEFINE t == [tab EXCEPT !.solving = FALSE]
  <2>1. a.op = "solve" BY <1>8 DEF SolveArrives
  <2>2. PICK d : Puts(t, asks \ {a}, d, "answer") BY <1>8 DEF SolveArrives
  <2>3. /\ ScreenOf(t)
        /\ ~t.solving
    BY <1>0 DEF TabOK, ScreenOf
  <2> QED BY <1>2, <2>1, <2>2, <2>3
<1>9. CASE BoardArrives(a)
  <2>1. a.op = "board" /\ asks' = asks \ {a} BY <1>9 DEF BoardArrives
  <2>2. TabOK' BY <1>0, <1>9 DEF BoardArrives, TabOK
  <2>3. /\ tab'.doc = tab.doc /\ tab'.timer = tab.timer /\ tab'.solving = tab.solving
        /\ tab'.shown = tab.shown /\ tab'.error = tab.error
    BY <1>0, <1>9 DEF BoardArrives, TabOK
  <2> QED BY <1>1, <2>1, <2>2, <2>3, AsideKeepsTheScreen
<1>10. CASE RenderArrives(a)
  <2>1. a.op = "render" /\ asks' = asks \ {a} BY <1>10 DEF RenderArrives
  <2>2. CASE ~a.live BY <1>3, <1>10, <2>1, <2>2 DEF RenderArrives
  <2>3. CASE a.live
    <3>1. TabOK' BY <1>0, <1>10, <2>3 DEF RenderArrives, TabOK
    <3>2. /\ tab'.doc = tab.doc /\ tab'.timer = tab.timer /\ tab'.solving = tab.solving
          /\ tab'.error \/ tab'.shown = a.with
      BY <1>0, <1>10, <2>3 DEF RenderArrives, TabOK
    <3>3. ~tab.timer => a.with = tab.doc BY <2>1, <2>3 DEF ScreenInv, RendersTheDesign
    <3> QED BY <1>1, <2>1, <3>1, <3>2, <3>3
            DEF ScreenInv, RendersTheDesign, ShowsTheDesign, Waits
  <2> QED BY <2>2, <2>3
<1>11. CASE AskFails(a)
  <2>1. asks' = asks \ {a} BY <1>11 DEF AskFails
  <2>2. CASE ~a.live \/ a.op = "board" BY <1>3, <1>11, <2>1, <2>2 DEF AskFails
  <2>3. CASE a.live /\ a.op # "board"
    <3>1. TabOK' BY <1>0, <1>11, <2>3 DEF AskFails, TabOK
    <3>2. /\ tab'.doc = tab.doc /\ tab'.timer = tab.timer
          /\ tab'.solving = (tab.solving /\ a.op # "solve") /\ tab'.error
      BY <1>0, <1>11, <2>3 DEF AskFails, TabOK
    <3> QED BY <1>1, <2>1, <3>1, <3>2
            DEF ScreenInv, RendersTheDesign, ShowsTheDesign, Waits
  <2> QED BY <2>2, <2>3
<1> QED BY <1>4, <1>5, <1>6, <1>7, <1>8, <1>9, <1>10, <1>11 DEF Arrives

LEMMA ScreenNext == ScreenInv /\ [EditorNext]_editorVars => ScreenInv'
<1> SUFFICES ASSUME ScreenInv, [EditorNext]_editorVars PROVE ScreenInv' OBVIOUS
<1>0. TabOK /\ (\A a \in asks : AskOK(a)) /\ (tab.solving => Waits("solve")) BY DEF ScreenInv
<1>1. CASE User BY <1>1, UserKeepsTheScreen
<1>2. CASE Deleted
  <2> DEFINE t == [tab EXCEPT !.original = None, !.saved = None]
  <2>1. Puts(t, asks, None, "load") BY <1>2 DEF Deleted
  <2>2. /\ ScreenOf(t)
        /\ t.solving = tab.solving
    BY <1>0 DEF TabOK, ScreenOf
  <2> HIDE DEF t
  <2> QED BY <1>0, <2>1, <2>2, PutsKeepsTheScreen DEF Waits
<1>3. CASE Debounced
  <2>1. TabOK' BY <1>0, <1>3 DEF Debounced, TabOK
  <2>2. /\ tab'.doc = tab.doc /\ tab'.shown = tab.shown /\ tab'.error = tab.error
        /\ tab'.solving = tab.solving
    BY <1>0, <1>3 DEF Debounced, TabOK
  <2>3. asks' = Voided(asks, "render") \cup
               (IF tab.doc = None THEN {} ELSE {Request("render", None, tab.doc)})
    BY <1>3 DEF Debounced
  <2>4. /\ \A a \in asks' : AskOK(a)
        /\ \A a \in asks' : a.op = "render" /\ a.live => a.with = tab.doc
        /\ tab.doc # None => \E a \in asks' : a.op = "render" /\ a.live
        /\ \A a \in asks : a.op = "solve" => a \in asks'
    BY <1>0, <2>3, RequestOK, VoidedFacts
  <2> QED BY <1>0, <2>1, <2>2, <2>4
          DEF ScreenInv, RendersTheDesign, ShowsTheDesign, Waits
<1>4. CASE \E a \in asks : Arrives(a) BY <1>4, ArrivalKeepsTheScreen
<1>5. CASE \E k \in DOMAIN turns : Server(k) \/ UNCHANGED editorVars
  BY <1>0, <1>5 DEF Server, editorVars, ScreenInv, TabOK, RendersTheDesign, ShowsTheDesign, Waits
<1>6. CASE \E k \in DOMAIN turns : Drawer(k) \/ Lost(k)
  <2>1. PICK k \in DOMAIN turns : Drawer(k) \/ Lost(k) BY <1>6
  <2>2. CASE Completes(k)
    <3> DEFINE t == [tab EXCEPT !.pending = FALSE]
    <3>1. PICK d : Puts(t, asks, d, "answer") BY <2>2 DEF Completes
    <3>2. /\ ScreenOf(t)
          /\ t.solving = tab.solving
      BY <1>0 DEF TabOK, ScreenOf
    <3> HIDE DEF t
    <3> QED BY <1>0, <3>1, <3>2, PutsKeepsTheScreen DEF Waits
  <2>3. CASE Hears(k) \/ Fails(k) \/ Lost(k)
    <3>1. TabOK' BY <1>0, <2>3 DEF Hears, Fails, Lost, Reported, TabOK
    <3>2. /\ tab'.doc = tab.doc /\ tab'.timer = tab.timer /\ tab'.solving = tab.solving
          /\ tab'.shown = tab.shown /\ tab'.error = tab.error /\ asks' = asks
      BY <1>0, <2>3 DEF Hears, Fails, Lost, Reported, TabOK
    <3> QED BY <1>0, <3>1, <3>2, AsideKeepsTheScreen DEF Waits
  <2> QED BY <2>1, <2>2, <2>3 DEF Drawer
<1>7. CASE UNCHANGED editorVars
  BY <1>0, <1>7 DEF editorVars, ScreenInv, TabOK, RendersTheDesign, ShowsTheDesign, Waits
<1> QED BY <1>1, <1>2, <1>3, <1>4, <1>5, <1>6, <1>7 DEF EditorNext

LEMMA ScreenInit == EditorInit => ScreenInv
<1> SUFFICES ASSUME EditorInit PROVE ScreenInv OBVIOUS
<1>1. TabOK /\ ~tab.timer /\ ~tab.solving /\ (tab.doc # None => tab.shown = tab.doc \/ tab.error)
  <2>1. CASE tab = Empty BY <2>1 DEF Empty, TabOK
  <2>2. ASSUME NEW d \in Fresh, tab = Settled(d)
        PROVE  TabOK /\ ~tab.timer /\ ~tab.solving
               /\ (tab.doc # None => tab.shown = tab.doc \/ tab.error)
    <3>1. tab = [Empty EXCEPT !.doc = d, !.original = d, !.by = "load", !.board = d.board,
                  !.shown = IF RenderAnswers(d) THEN d ELSE None, !.error = ~RenderAnswers(d)]
      BY <2>2 DEF Settled
    <3>2. TabOK BY <3>1 DEF TabOK, Empty
    <3> QED BY <3>1, <3>2 DEF Empty
  <2> QED BY <2>1, <2>2 DEF EditorInit, Empty
<1> QED BY <1>1 DEF EditorInit, ScreenInv, RendersTheDesign, ShowsTheDesign, Waits

-----------------------------------------------------------------------------
(* The turns.  What a tool answered is trimmed for a later answer of the   *)
(* same, at any time; and all that may be is, when the model is asked.     *)

Rows == [call : Called, long : BOOLEAN, trimmed : BOOLEAN]
TurnOK(t) ==
    t \in [pc : TurnStates, session : {t.session}, doc : {t.doc}, iters : 0..MaxIterations,
           results : Seq(Rows), known : BOOLEAN, heard : BOOLEAN, torn : BOOLEAN]
Earned(results) ==
    \A i \in DOMAIN results : results[i].trimmed => Superseded(results, i)
Trimmed(results) ==
    \A i \in DOMAIN results : results[i].trimmed = Superseded(results, i)
TurnGood(t) == TurnOK(t) /\ Earned(t.results) /\ (t.pc = "asked" => Trimmed(t.results))
IsSeq(s) == s \in Seq({s[i] : i \in DOMAIN s})
TurnsInv == IsSeq(turns) /\ \A k \in DOMAIN turns : TurnGood(turns[k])

LEMMA OwnRange ==
    ASSUME NEW S, NEW s \in Seq(S) PROVE IsSeq(s)
<1>1. Len(s) \in Nat /\ DOMAIN s = 1..Len(s) /\ s \in [1..Len(s) -> S] BY LenProperties
<1>2. s \in [1..Len(s) -> {s[i] : i \in DOMAIN s}] BY <1>1
<1> QED BY <1>1, <1>2 DEF IsSeq

\* One turn takes another's place.
LEMMA Replaced ==
    ASSUME IsSeq(turns), NEW k \in DOMAIN turns, NEW t, turns' = [turns EXCEPT ![k] = t]
    PROVE  /\ IsSeq(turns') /\ Len(turns') = Len(turns) /\ DOMAIN turns' = DOMAIN turns
           /\ turns'[k] = t
           /\ \A j \in DOMAIN turns : j # k => turns'[j] = turns[j]
<1> DEFINE S == {turns[i] : i \in DOMAIN turns} \cup {t}
<1>1. Len(turns) \in Nat /\ DOMAIN turns = 1..Len(turns) BY LenProperties DEF IsSeq
<1>2. \A i \in 1..Len(turns) : turns[i] \in S BY <1>1
<1>3. turns \in Seq(S)
  <2>1. turns \in [1..Len(turns) -> {turns[i] : i \in DOMAIN turns}] BY LenProperties DEF IsSeq
  <2>2. turns \in [1..Len(turns) -> S] BY <2>1
  <2> QED BY <1>1, <2>2
<1>4. turns' \in Seq(S) /\ Len(turns') = Len(turns) BY <1>1, <1>3, ExceptSeq
<1>5. IsSeq(turns') BY <1>4, OwnRange
<1> QED BY <1>1, <1>4, <1>5, LenProperties

LEMMA Appended ==
    ASSUME IsSeq(turns), NEW t, turns' = Append(turns, t)
    PROVE  /\ IsSeq(turns') /\ Len(turns) \in Nat /\ Len(turns') = Len(turns) + 1
           /\ DOMAIN turns = 1..Len(turns)
           /\ DOMAIN turns' = 1..(Len(turns) + 1) /\ turns'[Len(turns) + 1] = t
           /\ \A j \in DOMAIN turns : turns'[j] = turns[j]
<1> DEFINE S == {turns[i] : i \in DOMAIN turns} \cup {t}
<1>1. Len(turns) \in Nat /\ DOMAIN turns = 1..Len(turns) BY LenProperties DEF IsSeq
<1>2. turns \in Seq(S)
  <2>1. turns \in [1..Len(turns) -> {turns[i] : i \in DOMAIN turns}] BY LenProperties DEF IsSeq
  <2>2. turns \in [1..Len(turns) -> S] BY <2>1
  <2> QED BY <1>1, <2>2
<1>3. t \in S OBVIOUS
<1> HIDE DEF S
<1>4. /\ turns' \in Seq(S) /\ Len(turns') = Len(turns) + 1 /\ turns'[Len(turns) + 1] = t
      /\ \A j \in 1..Len(turns) : turns'[j] = turns[j]
  BY <1>2, <1>3, AppendProperties
<1>5. IsSeq(turns') BY <1>4, OwnRange
<1> QED BY <1>1, <1>4, <1>5, LenProperties

\* Compacting trims what a later call supersedes, and nothing else.
LEMMA CompactedIsTrimmed ==
    ASSUME NEW results \in Seq(Rows), Earned(results)
    PROVE  /\ Compacted(results) \in Seq(Rows)
           /\ Earned(Compacted(results)) /\ Trimmed(Compacted(results))
<1> DEFINE new == Compacted(results)
<1>1. Len(results) \in Nat /\ DOMAIN results = 1..Len(results)
      /\ \A i \in DOMAIN results : results[i] \in Rows
  BY LenProperties, ElementOfSeq
<1>2. \A i \in DOMAIN results : Superseded(results, i) \in BOOLEAN BY DEF Superseded
<1>3. /\ DOMAIN new = 1..Len(results)
      /\ \A i \in DOMAIN results :
            /\ new[i] \in Rows
            /\ new[i].call = results[i].call /\ new[i].long = results[i].long
            /\ new[i].trimmed = (results[i].trimmed \/ Superseded(results, i))
  BY <1>1, <1>2 DEF Compacted, Rows
<1>4. new \in [1..Len(results) -> Rows]
  BY <1>1, <1>3 DEF Compacted
<1> HIDE DEF new
<1>5. new \in Seq(Rows) /\ Len(new) = Len(results)
  <2>1. new \in Seq(Rows) BY <1>1, <1>4
  <2> QED BY <1>1, <1>3, <2>1, LenProperties
<1>6. ASSUME NEW i \in DOMAIN new
      PROVE  /\ Superseded(new, i) <=> Superseded(results, i)
             /\ new[i].trimmed <=> Superseded(results, i)
  <2>1. i \in DOMAIN results BY <1>1, <1>3
  <2>2. ASSUME NEW j \in (i + 1)..Len(results) PROVE new[j].call = results[j].call
    BY <1>1, <1>3, <2>1
  <2>3. (\E j \in (i + 1)..Len(new) : new[j].call = new[i].call)
           <=> \E j \in (i + 1)..Len(results) : results[j].call = results[i].call
    BY <1>3, <1>5, <2>1, <2>2
  <2>4. Superseded(new, i) <=> Superseded(results, i)
    BY <1>3, <2>1, <2>3 DEF Superseded
  <2>5. new[i].trimmed = (results[i].trimmed \/ Superseded(results, i)) BY <1>3, <2>1
  <2>6. results[i].trimmed => Superseded(results, i) BY <2>1 DEF Earned
  <2> QED BY <2>4, <2>5, <2>6
<1>7. \A i \in DOMAIN new :
         new[i].trimmed \in BOOLEAN /\ Superseded(new, i) \in BOOLEAN
  BY <1>1, <1>3 DEF Rows, Superseded
<1>8. \A i \in DOMAIN new : new[i].trimmed = Superseded(new, i)
  BY <1>6, <1>7
<1> QED BY <1>5, <1>8 DEF Earned, Trimmed, new

\* More results supersede more, and are themselves whole.
LEMMA MoreIsEarned ==
    ASSUME NEW results \in Seq(Rows), Earned(results), NEW more \in Seq(Rows),
           \A i \in DOMAIN more : ~more[i].trimmed
    PROVE  results \o more \in Seq(Rows) /\ Earned(results \o more)
<1> DEFINE new == results \o more
<1>1. /\ Len(results) \in Nat /\ DOMAIN results = 1..Len(results)
      /\ Len(more) \in Nat /\ DOMAIN more = 1..Len(more)
  BY LenProperties
<1>2. /\ new \in Seq(Rows) /\ Len(new) = Len(results) + Len(more)
      /\ \A i \in 1..(Len(results) + Len(more)) :
            new[i] = IF i <= Len(results) THEN results[i] ELSE more[i - Len(results)]
  BY ConcatProperties
<1>3. DOMAIN new = 1..(Len(results) + Len(more)) BY <1>2, LenProperties
<1> HIDE DEF new
<1>4. ASSUME NEW i \in DOMAIN new, new[i].trimmed PROVE Superseded(new, i)
  <2>1. CASE i <= Len(results)
    <3>1. i \in DOMAIN results /\ new[i] = results[i] BY <1>1, <1>2, <1>3, <2>1
    <3>2. PICK j \in (i + 1)..Len(results) : results[j].call = results[i].call
      BY <1>4, <3>1 DEF Earned, Superseded
    <3>3. j \in (i + 1)..Len(new) /\ new[j] = results[j] BY <1>1, <1>2, <3>1, <3>2
    <3> QED BY <1>4, <3>1, <3>2, <3>3 DEF Earned, Superseded
  <2>2. CASE ~(i <= Len(results))
    <3>1. i - Len(results) \in DOMAIN more /\ new[i] = more[i - Len(results)]
      BY <1>1, <1>2, <1>3, <2>2
    <3> QED BY <1>4, <3>1
  <2> QED BY <2>1, <2>2
<1> QED BY <1>2, <1>4 DEF Earned, new

\* What a step that stores nothing may make of a turn.
Early == {"sent", "asking", "asked", "user"}
Moves(o, t) ==
    /\ TurnGood(t) /\ t.session = o.session
    /\ t.pc = "sent" => o.pc = "sent"
    /\ t.pc \in Early => o.pc \in Early /\ (o.pc = "sent" => t.pc = "sent")
    /\ t.pc = "assistant" => o.pc = "assistant"
    /\ o.pc = "assistant" => t.pc = "assistant" \/ t.torn
    /\ o.pc \notin Early /\ o.torn => t.torn
    /\ t.heard => o.heard
    /\ o.pc # "over"

\* Of a turn, what changed: the rest is as it was.
LEMMA Fields ==
    ASSUME NEW o, TurnOK(o), NEW pc \in TurnStates
    PROVE  /\ TurnOK([o EXCEPT !.pc = pc])
           /\ [o EXCEPT !.pc = pc].pc = pc /\ [o EXCEPT !.pc = pc].session = o.session
           /\ [o EXCEPT !.pc = pc].results = o.results /\ [o EXCEPT !.pc = pc].heard = o.heard
           /\ [o EXCEPT !.pc = pc].torn = o.torn
           /\ TurnOK(Ended(o, pc))
           /\ Ended(o, pc).pc = pc /\ Ended(o, pc).session = o.session
           /\ Ended(o, pc).results = <<>> /\ Ended(o, pc).heard = o.heard
           /\ Ended(o, pc).torn = o.torn
<1>1. <<>> \in Seq(Rows) /\ 0 \in 0..MaxIterations BY IterationsAssumption
<1> HIDE DEF Rows
<1> QED BY <1>1 DEF TurnOK, Ended, Rows

LEMMA NoResults == Earned(<<>>) /\ Trimmed(<<>>)
<1>1. <<>> \in Seq({}) /\ Len(<<>>) = 0 BY EmptySeq
<1>2. DOMAIN <<>> = {} OBVIOUS
<1> QED BY <1>2 DEF Earned, Trimmed

LEMMA StepMoves ==
    ASSUME TurnsInv, NEW k \in DOMAIN turns,
           \/ Ask(k) \/ Stops(k) \/ Raises(k) \/ Abandon(k)
           \/ \E calls \in Answers, failed \in BOOLEAN : CallsTools(k, calls, failed)
    PROVE  \E t : turns' = [turns EXCEPT ![k] = t] /\ Moves(turns[k], t)
                  /\ (turns[k].heard => t.pc # "over") /\ t.heard = turns[k].heard
<1> DEFINE o == turns[k]
<1>0. TurnGood(o) /\ TurnOK(o) /\ Earned(o.results) BY DEF TurnsInv, TurnGood
<1>1. ASSUME NEW pc \in TurnStates, turns' = [turns EXCEPT ![k] = Ended(@, pc)],
             pc \in {"user", "over"}, pc = "user" => o.pc \in {"asking", "asked"},
             pc = "over" => ~o.heard /\ o.pc # "assistant", o.pc # "over"
      PROVE  \E t : turns' = [turns EXCEPT ![k] = t] /\ Moves(o, t)
                  /\ (o.heard => t.pc # "over") /\ t.heard = o.heard
  <2> DEFINE t == Ended(o, pc)
  <2>1. turns' = [turns EXCEPT ![k] = t] BY <1>1
  <2>2. /\ TurnOK(t) /\ t.pc = pc /\ t.session = o.session /\ t.results = <<>>
        /\ t.heard = o.heard /\ t.torn = o.torn
    BY <1>0, <1>1, Fields
  <2> HIDE DEF t
  <2>3. TurnGood(t) BY <2>2, NoResults DEF TurnGood
  <2>4. Moves(o, t) BY <1>1, <2>2, <2>3 DEF Moves, Early
  <2> QED BY <1>1, <2>1, <2>2, <2>4
<1>2. CASE Ask(k)
  <2>1. CASE o.iters = MaxIterations
    BY <1>1, <1>2, <2>1 DEF Ask, TurnStates
  <2>2. CASE o.iters # MaxIterations
    <3> DEFINE t == [o EXCEPT !.pc = "asked", !.iters = o.iters + 1,
                              !.results = Compacted(o.results)]
    <3>1. turns' = [turns EXCEPT ![k] = t] /\ o.pc = "asking"
      BY <1>2, <2>2 DEF Ask
    <3>2. o.results \in Seq(Rows) /\ o.iters \in 0..MaxIterations BY <1>0 DEF TurnOK
    <3>3. Compacted(o.results) \in Seq(Rows) BY <1>0, <3>2, CompactedIsTrimmed
    <3>4. o.iters + 1 \in 0..MaxIterations BY <2>2, <3>2, IterationsAssumption
    <3> HIDE DEF Rows
    <3>5. /\ TurnOK(t) /\ t.pc = "asked" /\ t.session = o.session
          /\ t.results = Compacted(o.results) /\ t.heard = o.heard /\ t.torn = o.torn
      BY <1>0, <3>3, <3>4 DEF TurnOK, TurnStates
    <3> HIDE DEF t
    <3>6. TurnGood(t) BY <1>0, <3>2, <3>5, CompactedIsTrimmed DEF TurnGood
    <3>7. Moves(o, t) BY <3>1, <3>5, <3>6 DEF Moves, Early
    <3> QED BY <3>1, <3>5, <3>7
  <2> QED BY <2>1, <2>2
<1>3. CASE Stops(k) BY <1>1, <1>3 DEF Stops, TurnStates
<1>4. CASE Abandon(k) BY <1>1, <1>4 DEF Abandon, TurnStates
<1>5. CASE Raises(k)
  <2> DEFINE e == Ended(o, "error")
             t == [e EXCEPT !.torn = (o.pc = "assistant")]
  <2>1. turns' = [turns EXCEPT ![k] = t] /\ o.pc \in {"sent", "asked", "user", "assistant"}
    BY <1>5 DEF Raises
  <2>2. /\ TurnOK(e) /\ e.pc = "error" /\ e.session = o.session /\ e.results = <<>>
        /\ e.heard = o.heard
    BY <1>0, Fields DEF TurnStates
  <2> HIDE DEF e
  <2>3. /\ TurnOK(t) /\ t.pc = "error" /\ t.session = o.session /\ t.results = <<>>
        /\ t.heard = o.heard /\ t.torn = (o.pc = "assistant")
    BY <2>2 DEF TurnOK
  <2> HIDE DEF t
  <2>4. TurnGood(t) BY <2>3, NoResults DEF TurnGood
  <2>5. Moves(o, t) BY <2>1, <2>3, <2>4 DEF Moves, Early
  <2> QED BY <2>1, <2>3, <2>5
<1>6. ASSUME NEW calls \in Answers, NEW failed \in BOOLEAN, CallsTools(k, calls, failed)
      PROVE  \E t : turns' = [turns EXCEPT ![k] = t] /\ Moves(o, t)
                  /\ (o.heard => t.pc # "over") /\ t.heard = o.heard
  <2> DEFINE more == [i \in DOMAIN calls |->
                        [call |-> calls[i], long |-> ~failed \/ i > 1, trimmed |-> FALSE]]
             d == FoldLeft(Worked, o.doc, IF failed THEN Tail(calls) ELSE calls)
             t == [o EXCEPT !.pc = "asking", !.doc = d, !.results = o.results \o more]
  <2>1. turns' = [turns EXCEPT ![k] = t] /\ o.pc = "asked"
    BY <1>6 DEF CallsTools
  <2>2. more \in Seq(Rows) /\ \A i \in DOMAIN more : ~more[i].trimmed
    <3>1. calls \in Seq(Called) BY AnswersAssumption
    <3>2. Len(calls) \in Nat /\ DOMAIN calls = 1..Len(calls)
          /\ \A i \in DOMAIN calls : calls[i] \in Called
      BY <3>1, LenProperties, ElementOfSeq
    <3>3. \A i \in DOMAIN calls : more[i] \in Rows BY <3>2 DEF Rows
    <3>4. more \in [1..Len(calls) -> Rows] BY <3>2, <3>3
    <3> QED BY <3>2, <3>4
  <2>3. o.results \in Seq(Rows) BY <1>0 DEF TurnOK
  <2> HIDE DEF more, d
  <2>4. o.results \o more \in Seq(Rows) /\ Earned(o.results \o more)
    BY <1>0, <2>2, <2>3, MoreIsEarned
  <2>5. /\ TurnOK(t) /\ t.pc = "asking" /\ t.session = o.session
        /\ t.results = o.results \o more /\ t.heard = o.heard /\ t.torn = o.torn
    BY <1>0, <2>4 DEF TurnOK, TurnStates
  <2> HIDE DEF t
  <2>6. TurnGood(t) BY <2>4, <2>5 DEF TurnGood
  <2>7. Moves(o, t) BY <2>1, <2>5, <2>6 DEF Moves, Early
  <2> QED BY <2>1, <2>5, <2>7
<1> QED BY <1>2, <1>3, <1>4, <1>5, <1>6

-----------------------------------------------------------------------------
(* The sessions.  While nobody goes away there is one turn at a time, and  *)
(* the message of the one that stores is the last its session holds.       *)

AllHeard == \A k \in DOMAIN turns : turns[k].heard
OneAtATime == \A k \in DOMAIN turns : turns[k].pc # "over" => k = Len(turns) /\ tab.pending
AsksLast ==
    \A k \in DOMAIN turns : turns[k].pc = "assistant" =>
       LET h == history[turns[k].session] IN
       /\ Len(h) > 0 /\ h[Len(h)] = <<"user", k>>
       /\ \A i \in DOMAIN h : h[i][2] = k => i = Len(h)
SideBySide(h) ==
    \A i \in DOMAIN h :
       LET k == h[i][2] IN
       /\ \A j \in DOMAIN h : i < j => k <= h[j][2]
       /\ h[i][1] = "assistant" => i > 1 /\ h[i - 1] = <<"user", k>>
       /\ h[i][1] = "user" => \/ i < Len(h) /\ h[i + 1] = <<"assistant", k>>
                              \/ turns[k].pc = "assistant" \/ turns[k].torn

Messages == {"user", "assistant"} \X DOMAIN turns
HistoryTyped ==
    /\ \A s \in DOMAIN history : history[s] \in Seq(Messages)
    /\ \A k \in DOMAIN turns :
          turns[k].pc \in {"asking", "asked", "user", "assistant"} =>
             turns[k].session \in DOMAIN history
StoredLate ==
    \A s \in DOMAIN history : \A i \in DOMAIN history[s] :
       /\ turns[history[s][i][2]].session = s
       /\ turns[history[s][i][2]].pc \notin Early
PendingEnds == tab.pending => \E k \in DOMAIN turns : turns[k].heard /\ turns[k].pc # "over"
SessionsInv ==
    /\ HistoryTyped /\ StoredLate /\ PendingEnds
    /\ AllHeard => OneAtATime /\ AsksLast /\ \A s \in DOMAIN history : SideBySide(history[s])

LEMMA MessageOf ==
    ASSUME HistoryTyped, NEW s \in DOMAIN history, NEW i \in DOMAIN history[s]
    PROVE  history[s][i][2] \in DOMAIN turns
<1>1. history[s] \in Seq(Messages) BY DEF HistoryTyped
<1>2. history[s][i] \in Messages BY <1>1, ElementOfSeq, LenProperties
<1> QED BY <1>2 DEF Messages

\* A step that stores nothing leaves the sessions in order.
LEMMA MoveKeepsSessions ==
    ASSUME TurnsInv, SessionsInv, NEW k \in DOMAIN turns, NEW t,
           turns' = [turns EXCEPT ![k] = t], Moves(turns[k], t), history' = history,
           t.heard /\ t.pc # "over" => tab'.pending = tab.pending,
           tab'.pending =>
              tab.pending /\ (turns[k].heard => t.heard /\ t.pc # "over")
    PROVE  TurnsInv' /\ SessionsInv'
<1>1. /\ IsSeq(turns') /\ Len(turns') = Len(turns) /\ DOMAIN turns' = DOMAIN turns
      /\ turns'[k] = t
      /\ \A j \in DOMAIN turns : j # k => turns'[j] = turns[j]
  BY Replaced DEF TurnsInv
<1>2. TurnGood(t) /\ Moves(turns[k], t) BY DEF Moves
<1>3. TurnsInv' BY <1>1, <1>2 DEF TurnsInv
<1>4. HistoryTyped'
  BY <1>1, <1>2 DEF SessionsInv, HistoryTyped, Messages, Moves, Early
<1>5. StoredLate'
  <2>1. ASSUME NEW s \in DOMAIN history, NEW i \in DOMAIN history[s]
        PROVE  /\ turns'[history[s][i][2]].session = s
               /\ turns'[history[s][i][2]].pc \notin Early
    BY <1>1, <1>2, MessageOf DEF SessionsInv, StoredLate, Moves
  <2> QED BY <2>1 DEF StoredLate
<1>6. PendingEnds'
  <2>1. SUFFICES ASSUME tab'.pending
                 PROVE  \E j \in DOMAIN turns : turns'[j].heard /\ turns'[j].pc # "over"
    BY <1>1 DEF PendingEnds
  <2>2. PICK j \in DOMAIN turns : turns[j].heard /\ turns[j].pc # "over"
    BY <2>1 DEF SessionsInv, PendingEnds
  <2> QED BY <1>1, <2>1, <2>2
<1>7. ASSUME AllHeard' PROVE AllHeard /\ t.heard BY <1>1, <1>2, <1>7 DEF AllHeard, Moves
<1>8. ASSUME AllHeard' PROVE OneAtATime'
  <2>1. ASSUME NEW j \in DOMAIN turns, turns'[j].pc # "over" PROVE j = Len(turns) /\ tab'.pending
    <3>1. turns[j].pc # "over" BY <1>1, <1>2, <2>1 DEF Moves
    <3>2. j = Len(turns) /\ tab.pending BY <1>7, <1>8, <3>1 DEF SessionsInv, OneAtATime
    <3>3. CASE j = k BY <1>1, <1>7, <1>8, <2>1, <3>2, <3>3
    <3>4. k = Len(turns) BY <1>2, <1>7, <1>8 DEF SessionsInv, OneAtATime, Moves
    <3> QED BY <3>2, <3>3, <3>4
  <2> QED BY <1>1, <2>1 DEF OneAtATime
<1>9. ASSUME AllHeard' PROVE AsksLast'
  <2>1. ASSUME NEW j \in DOMAIN turns, turns'[j].pc = "assistant"
        PROVE  LET h == history[turns'[j].session] IN
               /\ Len(h) > 0 /\ h[Len(h)] = <<"user", j>>
               /\ \A i \in DOMAIN h : h[i][2] = j => i = Len(h)
    <3>1. turns[j].pc = "assistant" /\ turns'[j].session = turns[j].session
      BY <1>1, <1>2, <2>1 DEF Moves
    <3> QED BY <1>7, <1>9, <3>1 DEF SessionsInv, AsksLast
  <2> QED BY <1>1, <2>1 DEF AsksLast
<1>10. ASSUME AllHeard', NEW s \in DOMAIN history PROVE SideBySide(history[s])'
  <2>1. SideBySide(history[s]) BY <1>7, <1>10 DEF SessionsInv
  <2>2. ASSUME NEW i \in DOMAIN history[s],
               turns[history[s][i][2]].pc = "assistant" \/ turns[history[s][i][2]].torn
        PROVE  turns'[history[s][i][2]].pc = "assistant" \/ turns'[history[s][i][2]].torn
    <3>1. turns[history[s][i][2]].pc \notin Early BY DEF SessionsInv, StoredLate
    <3> QED BY <1>1, <1>2, <2>2, <3>1, MessageOf DEF Moves, SessionsInv
  <2> QED BY <2>1, <2>2 DEF SideBySide
<1> QED BY <1>3, <1>4, <1>5, <1>6, <1>8, <1>9, <1>10 DEF SessionsInv

\* A new turn: its sender waited for the one before to be over.
LEMMA SendKeepsSessions ==
    ASSUME TurnsInv, SessionsInv, NEW session, NEW d,
           ~tab.pending, tab'.pending, turns' = Append(turns, Sent(session, d)), history' = history
    PROVE  TurnsInv' /\ SessionsInv'
<1> DEFINE n == Len(turns) + 1
           t == Sent(session, d)
<1>1. /\ IsSeq(turns') /\ Len(turns) \in Nat /\ Len(turns') = n
      /\ DOMAIN turns = 1..Len(turns) /\ DOMAIN turns' = 1..n /\ turns'[n] = t
      /\ \A j \in DOMAIN turns : turns'[j] = turns[j]
  BY Appended DEF TurnsInv
<1>2. TurnGood(t) /\ t.pc = "sent" /\ t.heard
  <2>1. <<>> \in Seq(Rows) /\ 0 \in 0..MaxIterations BY IterationsAssumption
  <2> HIDE DEF Rows
  <2>2. /\ TurnOK(t) /\ t.pc = "sent" /\ t.heard /\ t.results = <<>>
    BY <2>1 DEF TurnOK, Sent, TurnStates
  <2> HIDE DEF t
  <2> QED BY <2>2, NoResults DEF TurnGood
<1> HIDE DEF t
<1>3. TurnsInv' BY <1>1, <1>2 DEF TurnsInv
<1>4. HistoryTyped'
  <2>1. ASSUME NEW s \in DOMAIN history
        PROVE  history[s] \in Seq({"user", "assistant"} \X (1..n))
    <3>1. history[s] \in Seq({"user", "assistant"} \X (1..Len(turns)))
      BY <1>1 DEF SessionsInv, HistoryTyped, Messages
    <3>2. {"user", "assistant"} \X (1..Len(turns)) \subseteq {"user", "assistant"} \X (1..n)
      BY <1>1
    <3> QED BY <3>1, <3>2
  <2>2. \A k \in 1..n : turns'[k].pc \in {"asking", "asked", "user", "assistant"} =>
             turns'[k].session \in DOMAIN history
    BY <1>1, <1>2 DEF SessionsInv, HistoryTyped
  <2> QED BY <1>1, <2>1, <2>2 DEF HistoryTyped, Messages
<1>5. StoredLate'
  <2>1. ASSUME NEW s \in DOMAIN history, NEW i \in DOMAIN history[s]
        PROVE  /\ turns'[history[s][i][2]].session = s
               /\ turns'[history[s][i][2]].pc \notin Early
    BY <1>1, MessageOf DEF SessionsInv, StoredLate
  <2> QED BY <2>1 DEF StoredLate
<1>6. PendingEnds' BY <1>1, <1>2 DEF PendingEnds
<1>7. ASSUME AllHeard' PROVE AllHeard BY <1>1, <1>7 DEF AllHeard
<1>8. ASSUME AllHeard' PROVE OneAtATime'
  BY <1>1, <1>7, <1>8 DEF SessionsInv, OneAtATime
<1>9. ASSUME AllHeard' PROVE AsksLast'
  <2>1. ASSUME NEW j \in 1..n, turns'[j].pc = "assistant" PROVE FALSE
    <3>1. j \in DOMAIN turns /\ turns[j].pc = "assistant" BY <1>1, <1>2, <2>1
    <3> QED BY <1>7, <1>9, <3>1 DEF SessionsInv, OneAtATime
  <2> QED BY <1>1, <2>1 DEF AsksLast
<1>10. ASSUME AllHeard', NEW s \in DOMAIN history PROVE SideBySide(history[s])'
  <2>1. SideBySide(history[s]) BY <1>7, <1>10 DEF SessionsInv
  <2>2. \A i \in DOMAIN history[s] : turns'[history[s][i][2]] = turns[history[s][i][2]]
    BY <1>1, MessageOf DEF SessionsInv
  <2> QED BY <2>1, <2>2 DEF SideBySide
<1> QED BY <1>3, <1>4, <1>5, <1>6, <1>8, <1>9, <1>10 DEF SessionsInv

\* A turn finds its session, or opens one that nothing is in.
LEMMA BeginKeepsSessions ==
    ASSUME TurnsInv, SessionsInv, NEW k \in DOMAIN turns, Begin(k), tab' = tab
    PROVE  TurnsInv' /\ SessionsInv'
<1> DEFINE session == IF turns[k].session = None THEN k ELSE turns[k].session
           t == [turns[k] EXCEPT !.pc = "asking", !.session = session]
<1>1. /\ turns[k].pc = "sent" /\ turns' = [turns EXCEPT ![k] = t]
      /\ history' = [s \in DOMAIN history \cup {session} |->
                        IF s \in DOMAIN history THEN history[s] ELSE <<>>]
  BY DEF Begin
<1>2. TurnGood(turns[k]) BY DEF TurnsInv
<1>3. /\ TurnGood(t) /\ t.pc = "asking" /\ t.session = session
      /\ t.heard = turns[k].heard /\ t.torn = turns[k].torn
  <2>1. /\ TurnOK(t) /\ t.pc = "asking" /\ t.session = session /\ t.heard = turns[k].heard
        /\ t.torn = turns[k].torn /\ t.results = turns[k].results
    BY <1>2 DEF TurnGood, TurnOK, TurnStates
  <2> HIDE DEF t
  <2> QED BY <1>2, <2>1 DEF TurnGood
<1> HIDE DEF t, session
<1>4. /\ IsSeq(turns') /\ Len(turns') = Len(turns) /\ DOMAIN turns' = DOMAIN turns
      /\ turns'[k] = t
      /\ \A j \in DOMAIN turns : j # k => turns'[j] = turns[j]
  BY <1>1, Replaced DEF TurnsInv
<1>5. TurnsInv' BY <1>3, <1>4 DEF TurnsInv
<1>6. /\ DOMAIN history' = DOMAIN history \cup {session}
      /\ \A s \in DOMAIN history : history'[s] = history[s]
      /\ \A s \in DOMAIN history' : s \notin DOMAIN history => history'[s] = <<>>
  BY <1>1
<1>7. \A s \in DOMAIN history' : \A i \in DOMAIN history'[s] :
         s \in DOMAIN history /\ history'[s] = history[s] /\ i \in DOMAIN history[s]
  <2>1. DOMAIN <<>> = {} OBVIOUS
  <2> QED BY <1>6, <2>1
<1>8. \A s \in DOMAIN history : \A i \in DOMAIN history[s] :
         /\ history[s][i][2] \in DOMAIN turns /\ history[s][i][2] # k
         /\ turns'[history[s][i][2]] = turns[history[s][i][2]]
  <2>1. ASSUME NEW s \in DOMAIN history, NEW i \in DOMAIN history[s]
        PROVE  history[s][i][2] \in DOMAIN turns /\ history[s][i][2] # k
    BY <1>1, MessageOf DEF SessionsInv, StoredLate, Early
  <2> QED BY <1>4, <2>1
<1>9. HistoryTyped'
  <2>1. \A s \in DOMAIN history' : history'[s] \in Seq(Messages)
    <3>1. <<>> \in Seq(Messages) BY EmptySeq
    <3> QED BY <1>6, <3>1 DEF SessionsInv, HistoryTyped
  <2>2. \A j \in DOMAIN turns : turns'[j].pc \in {"asking", "asked", "user", "assistant"} =>
             turns'[j].session \in DOMAIN history'
    BY <1>3, <1>4, <1>6 DEF SessionsInv, HistoryTyped
  <2> QED BY <1>4, <2>1, <2>2 DEF HistoryTyped, Messages
<1>10. StoredLate' BY <1>7, <1>8 DEF SessionsInv, StoredLate
<1>11. PendingEnds' BY <1>1, <1>3, <1>4 DEF SessionsInv, PendingEnds
<1>12. ASSUME AllHeard' PROVE AllHeard BY <1>3, <1>4, <1>12 DEF AllHeard
<1>13. ASSUME AllHeard' PROVE OneAtATime'
  BY <1>1, <1>4, <1>12, <1>13 DEF SessionsInv, OneAtATime
<1>14. ASSUME AllHeard' PROVE AsksLast'
  <2>1. ASSUME NEW j \in DOMAIN turns, turns'[j].pc = "assistant"
        PROVE  LET h == history'[turns'[j].session] IN
               /\ Len(h) > 0 /\ h[Len(h)] = <<"user", j>>
               /\ \A i \in DOMAIN h : h[i][2] = j => i = Len(h)
    <3>1. j # k /\ turns'[j] = turns[j] BY <1>3, <1>4, <2>1
    <3>2. turns[j].session \in DOMAIN history BY <2>1, <3>1 DEF SessionsInv, HistoryTyped
    <3>3. history'[turns'[j].session] = history[turns[j].session] BY <1>6, <3>1, <3>2
    <3> QED BY <1>12, <1>14, <2>1, <3>1, <3>3 DEF SessionsInv, AsksLast
  <2> QED BY <1>4, <2>1 DEF AsksLast
<1>15. ASSUME AllHeard', NEW s \in DOMAIN history' PROVE SideBySide(history[s])'
  <2>1. CASE s \in DOMAIN history
    <3>1. SideBySide(history[s]) /\ history'[s] = history[s] BY <1>6, <1>12, <1>15, <2>1 DEF SessionsInv
    <3> QED BY <1>8, <2>1, <3>1 DEF SideBySide
  <2>2. CASE s \notin DOMAIN history BY <1>7, <2>2 DEF SideBySide
  <2> QED BY <2>1, <2>2
<1> QED BY <1>5, <1>9, <1>10, <1>11, <1>13, <1>14, <1>15 DEF SessionsInv

\* What storing a message does, whosever it is.
LEMMA Storing ==
    ASSUME TurnsInv, SessionsInv, NEW k \in DOMAIN turns, NEW role \in {"user", "assistant"},
           NEW from \in {"user", "assistant"}, NEW to \in {"assistant", "complete"},
           Going(k, from, to), tab' = tab,
           history' = [history EXCEPT ![turns[k].session] = Append(@, <<role, k>>)]
    PROVE  LET s == turns[k].session
               n == Len(history[s])
           IN /\ TurnsInv' /\ HistoryTyped' /\ StoredLate' /\ PendingEnds'
              /\ s \in DOMAIN history /\ DOMAIN history' = DOMAIN history
              /\ \A r \in DOMAIN history : r # s => history'[r] = history[r]
              /\ n \in Nat /\ Len(history'[s]) = n + 1
              /\ DOMAIN history[s] = 1..n /\ DOMAIN history'[s] = 1..(n + 1)
              /\ \A i \in 1..n : history'[s][i] = history[s][i]
              /\ history'[s][n + 1] = <<role, k>>
              /\ DOMAIN turns' = DOMAIN turns
              /\ turns[k].pc = from /\ turns'[k].pc = to /\ turns'[k].session = s
              /\ turns'[k].torn = turns[k].torn
              /\ \A j \in DOMAIN turns : j # k => turns'[j] = turns[j]
              /\ AllHeard' => AllHeard /\ k = Len(turns)
              /\ AllHeard' => OneAtATime'
<1> DEFINE t == [turns[k] EXCEPT !.pc = to]
           s == turns[k].session
           n == Len(history[s])
<1>1. turns[k].pc = from /\ turns' = [turns EXCEPT ![k] = t] BY DEF Going
<1>2. TurnGood(turns[k]) BY DEF TurnsInv
<1>3. /\ TurnGood(t) /\ t.pc = to /\ t.session = s /\ t.heard = turns[k].heard
      /\ t.torn = turns[k].torn
  <2>1. /\ TurnOK(t) /\ t.pc = to /\ t.session = s /\ t.heard = turns[k].heard
        /\ t.torn = turns[k].torn /\ t.results = turns[k].results
    <3>1. TurnOK(turns[k]) /\ to \in TurnStates BY <1>2 DEF TurnGood, TurnStates
    <3> QED BY <3>1, Fields
  <2> HIDE DEF t, s
  <2> QED BY <1>2, <2>1 DEF TurnGood
<1> HIDE DEF t
<1>4. /\ IsSeq(turns') /\ Len(turns') = Len(turns) /\ DOMAIN turns' = DOMAIN turns
      /\ turns'[k] = t
      /\ \A j \in DOMAIN turns : j # k => turns'[j] = turns[j]
  BY <1>1, Replaced DEF TurnsInv
<1>5. TurnsInv' BY <1>3, <1>4 DEF TurnsInv
<1>6. s \in DOMAIN history /\ history[s] \in Seq(Messages)
  BY <1>1 DEF SessionsInv, HistoryTyped
<1>7. history'[s] = Append(history[s], <<role, k>>) /\ DOMAIN history' = DOMAIN history
      /\ \A r \in DOMAIN history : r # s => history'[r] = history[r]
  BY <1>6
<1>8. <<role, k>> \in Messages BY DEF Messages
<1> HIDE DEF s
<1>9. /\ history'[s] \in Seq(Messages) /\ Len(history'[s]) = n + 1 /\ n \in Nat
      /\ DOMAIN history[s] = 1..n /\ DOMAIN history'[s] = 1..(n + 1)
      /\ \A i \in 1..n : history'[s][i] = history[s][i]
      /\ history'[s][n + 1] = <<role, k>>
  BY <1>6, <1>7, <1>8, AppendProperties, LenProperties
<1>10. HistoryTyped'
  <2>1. \A r \in DOMAIN history' : history'[r] \in Seq(Messages)
    BY <1>7, <1>9 DEF SessionsInv, HistoryTyped
  <2>2. \A j \in DOMAIN turns : turns'[j].pc \in {"asking", "asked", "user", "assistant"} =>
             turns'[j].session \in DOMAIN history'
    BY <1>3, <1>4, <1>6, <1>7 DEF SessionsInv, HistoryTyped
  <2> QED BY <1>4, <2>1, <2>2 DEF HistoryTyped, Messages
<1>11. ASSUME NEW r \in DOMAIN history, NEW i \in DOMAIN history[r]
       PROVE  /\ turns'[history[r][i][2]].session = r
              /\ turns'[history[r][i][2]].pc \notin Early
  BY <1>3, <1>4, MessageOf DEF SessionsInv, StoredLate, Early, s
<1>12. StoredLate'
  <2>1. turns'[k].session = s /\ turns'[k].pc \notin Early BY <1>3, <1>4 DEF Early
  <2>2. ASSUME NEW r \in DOMAIN history, NEW i \in DOMAIN history'[r]
        PROVE  /\ turns'[history'[r][i][2]].session = r
               /\ turns'[history'[r][i][2]].pc \notin Early
    <3>1. CASE r = s
      <4>1. CASE i = n + 1 BY <1>9, <2>1, <3>1, <4>1
      <4>2. CASE i # n + 1
        <5>1. i \in 1..n BY <1>9, <2>2, <3>1, <4>2
        <5> QED BY <1>9, <1>11, <3>1, <5>1
      <4> QED BY <4>1, <4>2
    <3>2. CASE r # s BY <1>7, <1>11, <2>2, <3>2
    <3> QED BY <3>1, <3>2
  <2> QED BY <1>7, <2>2 DEF StoredLate
<1>13. PendingEnds' BY <1>1, <1>3, <1>4 DEF SessionsInv, PendingEnds
<1>14. ASSUME AllHeard' PROVE AllHeard BY <1>3, <1>4, <1>14 DEF AllHeard
<1>15. ASSUME AllHeard' PROVE k = Len(turns) /\ OneAtATime'
  <2>1. OneAtATime BY <1>14, <1>15 DEF SessionsInv
  <2>2. k = Len(turns) /\ tab.pending BY <1>1, <2>1 DEF OneAtATime
  <2> QED BY <1>4, <2>1, <2>2 DEF OneAtATime
<1> QED
  BY <1>1, <1>3, <1>4, <1>5, <1>6, <1>7, <1>9, <1>10, <1>12, <1>13, <1>14, <1>15 DEF s

\* A session in order stays so with one message more: a turn's, behind those of
\* the turns before it, or its answer behind it.
LEMMA OneMore ==
    ASSUME NEW h, NEW g, NEW n \in Nat, NEW k \in Nat, NEW role \in {"user", "assistant"},
           DOMAIN h = 1..n, Len(h) = n, DOMAIN g = 1..(n + 1), Len(g) = n + 1,
           \A i \in 1..n : g[i] = h[i],
           g[n + 1] = <<role, k>>,
           SideBySide(h),
           \A i \in 1..n : h[i][2] \in Nat /\ h[i][2] <= k,
           \A i \in 1..n : h[i][2] = k => role = "assistant" /\ i = n,
           \A i \in 1..n : h[i][2] # k => turns'[h[i][2]] = turns[h[i][2]],
           role = "assistant" => n > 0 /\ h[n] = <<"user", k>>,
           role = "user" => turns'[k].pc = "assistant"
    PROVE  \A i \in DOMAIN g :
              /\ \A j \in DOMAIN g : i < j => g[i][2] <= g[j][2]
              /\ g[i][1] = "assistant" => i > 1 /\ g[i - 1] = <<"user", g[i][2]>>
              /\ g[i][1] = "user" => \/ i < Len(g) /\ g[i + 1] = <<"assistant", g[i][2]>>
                                     \/ turns'[g[i][2]].pc = "assistant" \/ turns'[g[i][2]].torn
<1> SUFFICES ASSUME NEW i \in 1..(n + 1)
    PROVE  /\ \A j \in DOMAIN g : i < j => g[i][2] <= g[j][2]
           /\ g[i][1] = "assistant" => i > 1 /\ g[i - 1] = <<"user", g[i][2]>>
           /\ g[i][1] = "user" => \/ i < Len(g) /\ g[i + 1] = <<"assistant", g[i][2]>>
                                  \/ turns'[g[i][2]].pc = "assistant" \/ turns'[g[i][2]].torn
  OBVIOUS
<1>1. CASE i = n + 1
  <2>1. g[i][1] = role /\ g[i][2] = k BY <1>1
  <2>2. role = "assistant" => i > 1 /\ g[i - 1] = <<"user", k>> BY <1>1
  <2> QED BY <1>1, <2>1, <2>2
<1>2. CASE i # n + 1
  <2>1. i \in 1..n /\ g[i] = h[i] BY <1>2
  <2>2. \A j \in DOMAIN g : i < j => g[i][2] <= g[j][2]
    <3>1. \A j \in 1..n : i < j => h[i][2] <= h[j][2] BY <2>1 DEF SideBySide
    <3>2. \A j \in 1..(n + 1) : j \in 1..n \/ j = n + 1 OBVIOUS
    <3> QED BY <2>1, <3>1, <3>2
  <2>3. g[i][1] = "assistant" => i > 1 /\ g[i - 1] = <<"user", g[i][2]>>
    <3>1. h[i][1] = "assistant" => i > 1 /\ h[i - 1] = <<"user", h[i][2]>>
      BY <2>1 DEF SideBySide
    <3> QED BY <2>1, <3>1
  <2>4. ASSUME g[i][1] = "user"
        PROVE  \/ i < Len(g) /\ g[i + 1] = <<"assistant", g[i][2]>>
               \/ turns'[g[i][2]].pc = "assistant" \/ turns'[g[i][2]].torn
    <3>1. \/ i < n /\ h[i + 1] = <<"assistant", h[i][2]>>
          \/ turns[h[i][2]].pc = "assistant" \/ turns[h[i][2]].torn
      BY <2>1, <2>4 DEF SideBySide
    <3>2. CASE h[i][2] = k BY <2>1, <3>2
    <3>3. CASE h[i][2] # k
      <4>1. turns'[h[i][2]] = turns[h[i][2]] BY <2>1, <3>3
      <4>2. i < n => i + 1 \in 1..n BY <2>1
      <4> QED BY <2>1, <3>1, <4>1, <4>2
    <3> QED BY <3>2, <3>3
  <2> QED BY <2>2, <2>3, <2>4
<1> QED BY <1>1, <1>2

LEMMA UserMessageKeepsSessions ==
    ASSUME TurnsInv, SessionsInv, NEW k \in DOMAIN turns, StoresUser(k), tab' = tab
    PROVE  TurnsInv' /\ SessionsInv'
<1> DEFINE s == turns[k].session
           n == Len(history[s])
<1>1. /\ TurnsInv' /\ HistoryTyped' /\ StoredLate' /\ PendingEnds'
      /\ s \in DOMAIN history /\ DOMAIN history' = DOMAIN history
      /\ \A r \in DOMAIN history : r # s => history'[r] = history[r]
      /\ n \in Nat /\ Len(history'[s]) = n + 1
      /\ DOMAIN history[s] = 1..n /\ DOMAIN history'[s] = 1..(n + 1)
      /\ \A i \in 1..n : history'[s][i] = history[s][i]
      /\ history'[s][n + 1] = <<"user", k>>
      /\ DOMAIN turns' = DOMAIN turns
      /\ turns[k].pc = "user" /\ turns'[k].pc = "assistant" /\ turns'[k].session = s
      /\ turns'[k].torn = turns[k].torn
      /\ \A j \in DOMAIN turns : j # k => turns'[j] = turns[j]
      /\ AllHeard' => AllHeard /\ k = Len(turns)
      /\ AllHeard' => OneAtATime'
  BY Storing DEF StoresUser
<1> HIDE DEF s, n
<1>2. \A r \in DOMAIN history : \A i \in DOMAIN history[r] :
         history[r][i][2] \in DOMAIN turns /\ history[r][i][2] # k
  <2>1. turns[k].pc \in Early BY <1>1 DEF Early
  <2> QED BY <2>1, MessageOf DEF SessionsInv, StoredLate
<1>3. ASSUME AllHeard' PROVE AsksLast'
  <2>1. ASSUME NEW j \in DOMAIN turns, turns'[j].pc = "assistant" PROVE j = k
    <3>1. CASE j # k
      <4>1. turns[j].pc # "over" BY <1>1, <2>1, <3>1
      <4> QED BY <1>1, <1>3, <4>1 DEF SessionsInv, OneAtATime
    <3> QED BY <3>1
  <2>2. \A i \in DOMAIN history'[s] : history'[s][i][2] = k => i = n + 1
    BY <1>1, <1>2
  <2>3. Len(history'[s]) > 0 BY <1>1
  <2> QED BY <1>1, <2>1, <2>2, <2>3 DEF AsksLast
<1>4. ASSUME AllHeard', NEW r \in DOMAIN history PROVE SideBySide(history[r])'
  <2>1. SideBySide(history[r]) BY <1>1, <1>4 DEF SessionsInv
  <2>2. \A i \in DOMAIN history[r] : turns'[history[r][i][2]] = turns[history[r][i][2]]
    BY <1>1, <1>2
  <2>3. CASE r # s BY <1>1, <2>1, <2>2, <2>3 DEF SideBySide
  <2>4. CASE r = s
    <3> DEFINE h == history[s]
               g == history'[s]
    <3>1. /\ n \in Nat /\ DOMAIN h = 1..n /\ Len(h) = n /\ DOMAIN g = 1..(n + 1) /\ Len(g) = n + 1
          /\ \A i \in 1..n : g[i] = h[i]
          /\ g[n + 1] = <<"user", k>>
      BY <1>1 DEF n
    <3>2. SideBySide(h) BY <2>1, <2>4
    <3>3. k \in Nat /\ \A i \in 1..n : h[i][2] \in Nat /\ h[i][2] <= k
      <4>1. Len(turns) \in Nat /\ DOMAIN turns = 1..Len(turns) BY LenProperties DEF TurnsInv, IsSeq
      <4> QED BY <1>1, <1>2, <1>4, <3>1, <4>1
    <3>4. \A i \in 1..n : turns'[h[i][2]] = turns[h[i][2]] BY <2>2, <2>4, <3>1
    <3> HIDE DEF g, h
    <3>5. \A i \in 1..n : h[i][2] # k BY <1>2, <2>4, <3>1 DEF h
    <3>6. turns'[k].pc = "assistant" BY <1>1
    <3>7. \A i \in DOMAIN g :
           /\ \A j \in DOMAIN g : i < j => g[i][2] <= g[j][2]
           /\ g[i][1] = "assistant" => i > 1 /\ g[i - 1] = <<"user", g[i][2]>>
           /\ g[i][1] = "user" => \/ i < Len(g) /\ g[i + 1] = <<"assistant", g[i][2]>>
                                  \/ turns'[g[i][2]].pc = "assistant" \/ turns'[g[i][2]].torn
      <4>1. "user" # "assistant" OBVIOUS
      <4>2. \A i \in 1..n : h[i][2] = k => "user" = "assistant" /\ i = n BY <3>5
      <4>3. \A i \in 1..n : h[i][2] # k => turns'[h[i][2]] = turns[h[i][2]] BY <3>4
      <4> QED BY <3>1, <3>2, <3>3, <3>6, <4>1, <4>2, <4>3, OneMore, Zenon
    <3> QED BY <2>4, <3>7 DEF SideBySide, g
  <2> QED BY <2>3, <2>4
<1> QED BY <1>1, <1>3, <1>4 DEF SessionsInv

LEMMA AnswerKeepsSessions ==
    ASSUME TurnsInv, SessionsInv, NEW k \in DOMAIN turns, StoresAnswer(k), tab' = tab
    PROVE  TurnsInv' /\ SessionsInv'
<1> DEFINE s == turns[k].session
           n == Len(history[s])
<1>1. /\ TurnsInv' /\ HistoryTyped' /\ StoredLate' /\ PendingEnds'
      /\ s \in DOMAIN history /\ DOMAIN history' = DOMAIN history
      /\ \A r \in DOMAIN history : r # s => history'[r] = history[r]
      /\ n \in Nat /\ Len(history'[s]) = n + 1
      /\ DOMAIN history[s] = 1..n /\ DOMAIN history'[s] = 1..(n + 1)
      /\ \A i \in 1..n : history'[s][i] = history[s][i]
      /\ history'[s][n + 1] = <<"assistant", k>>
      /\ DOMAIN turns' = DOMAIN turns
      /\ turns[k].pc = "assistant" /\ turns'[k].pc = "complete" /\ turns'[k].session = s
      /\ turns'[k].torn = turns[k].torn
      /\ \A j \in DOMAIN turns : j # k => turns'[j] = turns[j]
      /\ AllHeard' => AllHeard /\ k = Len(turns)
      /\ AllHeard' => OneAtATime'
  BY Storing DEF StoresAnswer
<1>2. ASSUME AllHeard'
      PROVE  /\ n > 0 /\ history[s][n] = <<"user", k>>
             /\ \A i \in 1..n : history[s][i][2] = k => i = n
  BY <1>1, <1>2 DEF SessionsInv, AsksLast
<1>3. \A r \in DOMAIN history : r # s => \A i \in DOMAIN history[r] : history[r][i][2] # k
  BY <1>1 DEF SessionsInv, StoredLate
<1> HIDE DEF s, n
<1>4. ASSUME AllHeard' PROVE AsksLast'
  <2>1. ASSUME NEW j \in DOMAIN turns, turns'[j].pc = "assistant" PROVE FALSE
    <3>1. j # k /\ turns[j].pc # "over" BY <1>1, <2>1
    <3> QED BY <1>1, <1>4, <3>1 DEF SessionsInv, OneAtATime
  <2> QED BY <1>1, <2>1 DEF AsksLast
<1>5. ASSUME AllHeard', NEW r \in DOMAIN history PROVE SideBySide(history[r])'
  <2>1. SideBySide(history[r]) BY <1>1, <1>5 DEF SessionsInv
  <2>2. \A i \in DOMAIN history[r] :
           history[r][i][2] # k => turns'[history[r][i][2]] = turns[history[r][i][2]]
    BY <1>1, MessageOf DEF SessionsInv
  <2>3. CASE r # s
    <3>1. \A i \in DOMAIN history[r] : turns'[history[r][i][2]] = turns[history[r][i][2]]
      BY <1>3, <2>2, <2>3
    <3> QED BY <1>1, <2>1, <2>3, <3>1 DEF SideBySide
  <2>4. CASE r = s
    <3> DEFINE h == history[s]
               g == history'[s]
    <3>1. /\ n \in Nat /\ DOMAIN h = 1..n /\ Len(h) = n /\ DOMAIN g = 1..(n + 1) /\ Len(g) = n + 1
          /\ \A i \in 1..n : g[i] = h[i]
          /\ g[n + 1] = <<"assistant", k>>
      BY <1>1 DEF n
    <3>2. SideBySide(h) BY <2>1, <2>4
    <3>3. k \in Nat /\ \A i \in 1..n : h[i][2] \in Nat /\ h[i][2] <= k
      <4>1. Len(turns) \in Nat /\ DOMAIN turns = 1..Len(turns) BY LenProperties DEF TurnsInv, IsSeq
      <4>2. \A i \in 1..n : h[i][2] \in DOMAIN turns
        BY <1>1, <3>1, MessageOf DEF SessionsInv
      <4> QED BY <1>1, <1>5, <4>1, <4>2
    <3>4. \A i \in 1..n : h[i][2] # k => turns'[h[i][2]] = turns[h[i][2]] BY <2>2, <2>4, <3>1
    <3>5. n > 0 /\ h[n] = <<"user", k>> /\ \A i \in 1..n : h[i][2] = k => i = n
      BY <1>2, <1>5
    <3> HIDE DEF g, h
    <3>6. \A i \in DOMAIN g :
           /\ \A j \in DOMAIN g : i < j => g[i][2] <= g[j][2]
           /\ g[i][1] = "assistant" => i > 1 /\ g[i - 1] = <<"user", g[i][2]>>
           /\ g[i][1] = "user" => \/ i < Len(g) /\ g[i + 1] = <<"assistant", g[i][2]>>
                                  \/ turns'[g[i][2]].pc = "assistant" \/ turns'[g[i][2]].torn
      BY <3>1, <3>2, <3>3, <3>4, <3>5, OneMore
    <3> QED BY <2>4, <3>6 DEF SideBySide, g
  <2> QED BY <2>3, <2>4
<1> QED BY <1>1, <1>4, <1>5 DEF SessionsInv

-----------------------------------------------------------------------------
(* Together.                                                               *)

LEMMA SessionsNext ==
    ASSUME TabOK, TurnsInv, SessionsInv, [EditorNext]_editorVars
    PROVE  TurnsInv' /\ SessionsInv'
<1>1. CASE UNCHANGED turnVars /\ tab'.pending = tab.pending
  BY <1>1 DEF turnVars, TurnsInv, SessionsInv, HistoryTyped, Messages, StoredLate, PendingEnds,
              AllHeard, OneAtATime, AsksLast, SideBySide
<1>2. CASE Send
  <2>1. ~tab.pending /\ turns' = Append(turns, Sent(tab.session, tab.doc)) /\ history' = history
    BY <1>2 DEF Send
  <2>2. tab'.pending BY <1>2 DEF Send, Acted, TabOK
  <2> QED BY <2>1, <2>2, SendKeepsSessions
<1>3. ASSUME NEW k \in DOMAIN turns, Server(k) PROVE TurnsInv' /\ SessionsInv'
  <2>1. tab' = tab /\ TurnStep(k) BY <1>3 DEF Server
  <2>2. CASE Begin(k) BY <2>1, <2>2, BeginKeepsSessions
  <2>3. CASE StoresUser(k) BY <2>1, <2>3, UserMessageKeepsSessions
  <2>4. CASE StoresAnswer(k) BY <2>1, <2>4, AnswerKeepsSessions
  <2>5. CASE \/ Ask(k) \/ Stops(k) \/ Raises(k) \/ Abandon(k)
             \/ \E calls \in Answers, failed \in BOOLEAN : CallsTools(k, calls, failed)
    <3>1. PICK t : turns' = [turns EXCEPT ![k] = t] /\ Moves(turns[k], t)
                   /\ (turns[k].heard => t.pc # "over") /\ t.heard = turns[k].heard
      BY <2>5, StepMoves
    <3>2. history' = history
      BY <2>5 DEF Ask, Stops, Raises, Abandon, CallsTools
    <3> QED BY <2>1, <3>1, <3>2, MoveKeepsSessions
  <2> QED BY <2>1, <2>2, <2>3, <2>4, <2>5 DEF TurnStep
<1>4. ASSUME NEW k \in DOMAIN turns, Drawer(k) \/ Lost(k) PROVE TurnsInv' /\ SessionsInv'
  <2> DEFINE o == turns[k]
  <2>1. TurnGood(o) /\ TurnOK(o) BY DEF TurnsInv, TurnGood
  <2>2. CASE Hears(k)
    <3> DEFINE t == [o EXCEPT !.known = TRUE]
    <3>1. turns' = [turns EXCEPT ![k] = t] /\ history' = history /\ o.pc \notin {"sent", "over"}
      BY <2>2 DEF Hears
    <3>2. tab'.pending = tab.pending BY <2>2 DEF Hears, TabOK
    <3>3. /\ TurnOK(t) /\ t.pc = o.pc /\ t.session = o.session /\ t.results = o.results
          /\ t.heard = o.heard /\ t.torn = o.torn
      BY <2>1 DEF TurnOK
    <3> HIDE DEF t
    <3>4. Moves(o, t) BY <2>1, <3>1, <3>3 DEF Moves, TurnGood
    <3> QED BY <3>1, <3>2, <3>3, <3>4, MoveKeepsSessions
  <2>3. CASE Lost(k)
    <3> DEFINE t == [o EXCEPT !.heard = FALSE]
    <3>1. turns' = [turns EXCEPT ![k] = t] /\ history' = history /\ o.pc # "over"
      BY <2>3 DEF Lost
    <3>2. ~tab'.pending BY <2>3 DEF Lost, Reported, TabOK
    <3>3. /\ TurnOK(t) /\ t.pc = o.pc /\ t.session = o.session /\ t.results = o.results
          /\ ~t.heard /\ t.torn = o.torn
      BY <2>1 DEF TurnOK
    <3> HIDE DEF t
    <3>4. Moves(o, t) BY <2>1, <3>1, <3>3 DEF Moves, TurnGood
    <3> QED BY <3>1, <3>2, <3>3, <3>4, MoveKeepsSessions
  <2>4. CASE Completes(k) \/ Fails(k)
    <3> DEFINE t == [o EXCEPT !.pc = "over"]
    <3>1. turns' = [turns EXCEPT ![k] = t] /\ history' = history /\ o.pc \in {"complete", "error"}
      BY <2>4 DEF Completes, Fails, Going
    <3>2. ~tab'.pending
      BY <2>4 DEF Completes, Fails, Reported, Puts, Showing, TabOK
    <3>3. /\ TurnOK(t) /\ t.pc = "over" /\ t.session = o.session /\ t.results = o.results
          /\ t.heard = o.heard /\ t.torn = o.torn
      BY <2>1 DEF TurnOK, TurnStates
    <3> HIDE DEF t
    <3>4. Moves(o, t) BY <2>1, <3>1, <3>3 DEF Moves, TurnGood, Early
    <3> QED BY <3>1, <3>2, <3>3, <3>4, MoveKeepsSessions
  <2> QED BY <1>4, <2>2, <2>3, <2>4 DEF Drawer
<1>5. CASE User /\ ~Send
  <2>1. UNCHANGED turnVars
    BY <1>5 DEF User, Edit, Reset, ClickSolve, NewSession, SelectExample, SelectSaved, Adopt,
                ClickAdd, ClickInsert, turnVars
  <2>2. tab'.pending = tab.pending
    <3>1. CASE Edit \/ Reset
      BY <3>1 DEF Edit, Reset, Puts, Showing, Acted, TabOK
    <3>2. CASE \E d \in Fresh : Adopt(d)
      BY <3>2 DEF Adopt, Opens, Puts, Showing, Acted, TabOK
    <3>3. CASE ClickSolve \/ NewSession
      BY <3>3 DEF ClickSolve, NewSession, Acted, TabOK
    <3>4. CASE \/ \E id \in DOMAIN Examples : SelectExample(id)
               \/ \E id \in DOMAIN Stored : SelectSaved(id)
      BY <3>4 DEF SelectExample, SelectSaved, Acted, TabOK
    <3>5. CASE \/ \E lib \in Addable : ClickAdd(lib)
               \/ \E members \in Bundles : ClickInsert(members)
      BY <3>5 DEF ClickAdd, ClickInsert, Acted, TabOK
    <3> QED BY <1>5, <3>1, <3>2, <3>3, <3>4, <3>5 DEF User
  <2> QED BY <1>1, <2>1, <2>2
<1>6. CASE Deleted \/ Debounced
  <2>1. UNCHANGED turnVars BY <1>6 DEF Deleted, Debounced, turnVars
  <2>2. tab'.pending = tab.pending
    BY <1>6 DEF Deleted, Debounced, Puts, Showing, TabOK
  <2> QED BY <1>1, <2>1, <2>2
<1>7. ASSUME NEW a \in asks, Arrives(a) PROVE TurnsInv' /\ SessionsInv'
  <2>1. UNCHANGED turnVars
    BY <1>7 DEF Arrives, ExampleArrives, SavedArrives, PartArrives, InsertArrives, SolveArrives,
                BoardArrives, RenderArrives, AskFails, turnVars
  <2>2. tab'.pending = tab.pending
    <3>1. CASE ExampleArrives(a) \/ SavedArrives(a)
      BY <3>1 DEF ExampleArrives, SavedArrives, Opens, Puts, Showing, TabOK
    <3>2. CASE PartArrives(a) \/ InsertArrives(a) \/ SolveArrives(a)
      BY <3>2 DEF PartArrives, InsertArrives, SolveArrives, Puts, Showing, TabOK
    <3>3. CASE BoardArrives(a) \/ RenderArrives(a) \/ AskFails(a)
      BY <3>3 DEF BoardArrives, RenderArrives, AskFails, TabOK
    <3> QED BY <1>7, <3>1, <3>2, <3>3 DEF Arrives
  <2> QED BY <1>1, <2>1, <2>2
<1>8. CASE UNCHANGED editorVars BY <1>1, <1>8 DEF editorVars, turnVars
<1> QED BY <1>2, <1>3, <1>4, <1>5, <1>6, <1>7, <1>8 DEF EditorNext

EditorInv == ScreenInv /\ TurnsInv /\ SessionsInv

LEMMA EditorInvInit == EditorInit => EditorInv
<1> SUFFICES ASSUME EditorInit PROVE EditorInv OBVIOUS
<1>1. ScreenInv BY ScreenInit
<1>2. turns = <<>> /\ history = <<>> BY DEF EditorInit, TurnsInit
<1>3. DOMAIN turns = {} /\ DOMAIN history = {} BY <1>2
<1>4. TurnsInv
  <2>1. turns \in Seq({}) BY <1>2, EmptySeq
  <2> QED BY <1>3, <2>1, OwnRange DEF TurnsInv
<1>5. ~tab.pending
  <2>1. CASE tab = Empty BY <2>1 DEF Empty
  <2>2. ASSUME NEW d \in Fresh, tab = Settled(d) PROVE ~tab.pending
    BY <2>2 DEF Settled, Empty
  <2> QED BY <2>1, <2>2 DEF EditorInit
<1>6. SessionsInv
  BY <1>3, <1>5 DEF SessionsInv, HistoryTyped, StoredLate, PendingEnds, AllHeard, OneAtATime,
                    AsksLast
<1> QED BY <1>1, <1>4, <1>6 DEF EditorInv

LEMMA EditorAlways == EditorSpec => []EditorInv
<1>1. EditorInv /\ [EditorNext]_editorVars => EditorInv'
  <2> SUFFICES ASSUME EditorInv, [EditorNext]_editorVars PROVE EditorInv' OBVIOUS
  <2>1. ScreenInv /\ TabOK /\ TurnsInv /\ SessionsInv BY DEF EditorInv, ScreenInv
  <2> QED BY <2>1, ScreenNext, SessionsNext DEF EditorInv
<1> QED BY <1>1, EditorInvInit, PTL DEF EditorSpec

LEMMA EditorInvIsSound == EditorInv => EditorSound
<1> SUFFICES ASSUME EditorInv PROVE EditorSound OBVIOUS
<1>1. ScreenInv /\ TurnsInv /\ SessionsInv BY DEF EditorInv
<1>2. ShowsTheDesign /\ WaitsEnd BY <1>1 DEF ScreenInv, SessionsInv, PendingEnds, WaitsEnd
<1>3. TurnsTypeOK
  <2>1. ASSUME NEW k \in DOMAIN turns
        PROVE  turns[k].pc \in TurnStates /\ turns[k].iters <= MaxIterations
    <3>1. TurnOK(turns[k]) BY <1>1 DEF TurnsInv, TurnGood
    <3> QED BY <3>1, IterationsAssumption DEF TurnOK
  <2> QED BY <1>1, <2>1 DEF TurnsTypeOK, SessionsInv, HistoryTyped, Messages
<1>4. LatestStays
  <2>1. ASSUME NEW k \in DOMAIN turns, turns[k].pc = "asked", NEW i \in DOMAIN turns[k].results
        PROVE  turns[k].results[i].trimmed <=> Superseded(turns[k].results, i)
    BY <1>1, <2>1 DEF TurnsInv, TurnGood, Trimmed
  <2> QED BY <2>1 DEF LatestStays, Superseded
<1>5. HistoryOfTurns
  BY <1>1 DEF SessionsInv, AllHeard, SideBySide, StoredLate, HistoryOfTurns
<1> QED BY <1>2, <1>3, <1>4, <1>5 DEF EditorSound

\* Whatever the user does while answers are under way, for any designs, library
\* and answers of the model: with nothing under way the screen shows the
\* design or says that it does not; nothing waits for what will not come; the
\* model is sent the last of every call's results whole; and while nobody goes
\* away a session's history is its turns, in order.
THEOREM EditorCatchesUp == EditorSpec => []EditorSound
BY EditorAlways, EditorInvIsSound, PTL
=============================================================================
