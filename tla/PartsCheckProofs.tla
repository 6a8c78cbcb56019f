-------------------------- MODULE PartsCheckProofs --------------------------
(***************************************************************************)
(* For any drawer, callers and imports, and any design: the drawer is what *)
(* its calls add up to while they do not overlap, and a part is replaced   *)
(* only by one in the drawer that has the ratings it asks for.             *)
(***************************************************************************)
EXTENDS PartsCheck, FiniteSetTheorems, TLAPS

-----------------------------------------------------------------------------
(* The drawer: the inductive invariant.                                    *)

Writing(c) == pc[c] \in {"open", "write"}

\* While no call's read-to-write overlaps another's, either nobody writes and
\* the file is JSON and the ledger, or one caller does, alone, with the ledger
\* in hand, and has truncated the file if it has opened it.
AloneInv ==
    serial => \/ readable /\ file = ledger /\ \A c \in Callers : ~Writing(c)
              \/ \E c \in Callers : /\ Writing(c) /\ Midway(c) = {}
                                    /\ entries[c] = ledger
                                    /\ pc[c] = "write" => ~readable

\* What is imported has rows, and so has a request for one key.
LEMMA SomeRows ==
    ASSUME NEW request, NEW keys \in Batches \cup {{k} : k \in Keys},
           IF request = "import" THEN keys \in Batches ELSE Cardinality(keys) = 1
    PROVE  keys \subseteq Keys /\ keys # {}
  <1>1. CASE request = "import"
    BY <1>1, DrawerAssumption
  <1>2. CASE request # "import"
    <2>1. Cardinality(keys) = 1 /\ Cardinality({}) = 0
      BY <1>2, FS_EmptySet
    <2>2. keys # {}
      BY <2>1
    <2> QED BY <2>2, DrawerAssumption
  <1> QED BY <1>1, <1>2

LEMMA InitTypes == ASSUME Init PROVE TypeOK
  BY DrawerAssumption DEF Init, TypeOK, Drawer, Empty

LEMMA ParsedType == ASSUME TypeOK PROVE Parsed = file /\ Parsed \in Drawer
  <1>1. CASE readable
    BY <1>1 DEF TypeOK, Parsed
  <1>2. CASE ~readable
    <2>1. file \in Drawer /\ file = Empty
      BY <1>2 DEF TypeOK
    <2> QED BY <1>2, <2>1 DEF Parsed
  <1> QED BY <1>1, <1>2

LEMMA TypeStep == ASSUME TypeOK, Next PROVE TypeOK'
  <1> USE DrawerAssumption DEF TypeOK
  <1>0. Empty \in Drawer
    BY DEF Empty, Drawer
  <1>1. ASSUME NEW c \in Callers, NEW request \in Ops,
               NEW keys \in Batches \cup {{k} : k \in Keys}, Begin(c, request, keys)
        PROVE  TypeOK'
    <2>1. keys \subseteq Keys /\ keys # {}
      BY <1>1, SomeRows DEF Begin
    <2> QED BY <1>1, <2>1 DEF Begin
  <1>2. ASSUME NEW c \in Callers, NEW k \in Keys, ReadRow(c, k)
        PROVE  TypeOK'
    <2> DEFINE put == IF op[c] = "remove" THEN 0 ELSE mark[c]
    <2>1. put \in 0..MaxCalls
      OBVIOUS
    <2>2. CASE op[c] = "remove" /\ Parsed[k] = 0
      <3>1. /\ pc' = [pc EXCEPT ![c] = "idle"] /\ rows' = [rows EXCEPT ![c] = {}]
            /\ serial' \in BOOLEAN
            /\ UNCHANGED <<file, readable, op, mark, entries, ledger, calls, crashes>>
        BY <1>2, <2>2 DEF ReadRow
      <3> QED BY <3>1
    <2>3. CASE ~(op[c] = "remove" /\ Parsed[k] = 0)
      <3>1. [Parsed EXCEPT ![k] = put] \in Drawer /\ [ledger EXCEPT ![k] = put] \in Drawer
        BY <2>1, ParsedType DEF Drawer
      <3>2. /\ entries' = [entries EXCEPT ![c] = [Parsed EXCEPT ![k] = put]]
            /\ ledger' = [ledger EXCEPT ![k] = put]
        BY <1>2, <2>3 DEF ReadRow, Changed
      <3>3. entries' \in [Callers -> Drawer] /\ ledger' \in Drawer
        BY <3>1, <3>2
      <3>4. /\ pc' = [pc EXCEPT ![c] = "open"] /\ rows' = [rows EXCEPT ![c] = @ \ {k}]
            /\ serial' \in BOOLEAN
            /\ UNCHANGED <<file, readable, op, mark, calls, crashes>>
        BY <1>2, <2>3 DEF ReadRow
      <3> QED BY <3>3, <3>4
    <2> QED BY <2>2, <2>3
  <1>3. ASSUME NEW c \in Callers, OpenFile(c)
        PROVE  TypeOK'
    BY <1>0, <1>3 DEF OpenFile, callVars
  <1>4. ASSUME NEW c \in Callers, WriteFile(c)
        PROVE  TypeOK'
    <2>1. /\ file' \in Drawer /\ readable' \in BOOLEAN
          /\ ~readable' => file' = Empty
      <3>1. CASE file' = entries[c] /\ readable' = TRUE
        BY <3>1
      <3>2. CASE file' = Empty /\ readable' = FALSE
        BY <1>0, <3>2
      <3> QED BY <1>4, <3>1, <3>2 DEF WriteFile
    <2>2. /\ pc' = [pc EXCEPT ![c] = IF rows[c] = {} THEN "idle" ELSE "read"]
          /\ UNCHANGED <<op, rows, mark, entries, ledger, serial, calls, crashes>>
      BY <1>4 DEF WriteFile, AfterRow, callVars
    <2> QED BY <2>1, <2>2
  <1>5. CASE Crash
    BY <1>5 DEF Crash
  <1> QED BY <1>1, <1>2, <1>3, <1>4, <1>5 DEF Next

LEMMA AloneStep == ASSUME TypeOK, AloneInv, Next PROVE AloneInv'
  <1> USE DEF AloneInv, Writing
  <1>1. ASSUME NEW c \in Callers, NEW request \in Ops,
               NEW keys \in Batches \cup {{k} : k \in Keys}, Begin(c, request, keys)
        PROVE  AloneInv'
    <2>1. /\ \A d \in Callers : Writing(d)' <=> Writing(d)
          /\ \A d \in Callers : pc'[d] = "write" => pc[d] = "write"
          /\ \A d \in Callers : Midway(d)' = Midway(d)
      BY <1>1 DEF Begin, TypeOK, Midway
    <2> QED BY <1>1, <2>1 DEF Begin
  <1>2. ASSUME NEW c \in Callers, NEW k \in Keys, ReadRow(c, k)
        PROVE  AloneInv'
    <2> SUFFICES ASSUME serial' PROVE AloneInv'
      OBVIOUS
    <2>1. serial /\ Midway(c) = {} /\ pc[c] = "read"
      BY <1>2 DEF ReadRow
    <2>2. \A d \in Callers : ~Writing(d)
      BY <2>1 DEF Midway
    <2>3. readable /\ file = ledger
      BY <2>1, <2>2
    <2>4. CASE op[c] = "remove" /\ Parsed[k] = 0
      BY <1>2, <2>2, <2>3, <2>4 DEF ReadRow, TypeOK
    <2>5. CASE ~(op[c] = "remove" /\ Parsed[k] = 0)
      <3>1. Parsed = ledger
        BY <2>3 DEF Parsed
      <3>2. pc' = [pc EXCEPT ![c] = "open"] /\ entries'[c] = ledger'
        BY <1>2, <2>5, <3>1 DEF ReadRow, Changed, TypeOK
      <3>3. Writing(c)' /\ Midway(c)' = {} /\ pc'[c] # "write"
        BY <2>2, <3>2 DEF Midway, TypeOK
      <3> QED BY <3>2, <3>3
    <2> QED BY <2>4, <2>5
  <1>3. ASSUME NEW c \in Callers, OpenFile(c)
        PROVE  AloneInv'
    <2> SUFFICES ASSUME serial PROVE AloneInv'
      BY <1>3 DEF OpenFile
    <2>1. pc[c] = "open" /\ pc' = [pc EXCEPT ![c] = "write"] /\ ~readable'
      BY <1>3 DEF OpenFile
    <2>2. Midway(c) = {} /\ entries[c] = ledger
      BY <2>1 DEF Midway
    <2>3. Midway(c)' = {} /\ Writing(c)'
      BY <2>1, <2>2 DEF Midway, TypeOK
    <2> QED BY <1>3, <2>1, <2>2, <2>3 DEF OpenFile
  <1>4. ASSUME NEW c \in Callers, WriteFile(c)
        PROVE  AloneInv'
    <2> SUFFICES ASSUME serial PROVE AloneInv'
      BY <1>4 DEF WriteFile
    <2>1. pc[c] = "write"
      BY <1>4 DEF WriteFile
    <2>2. Midway(c) = {} /\ entries[c] = ledger /\ ~readable
      BY <2>1 DEF Midway
    <2>3. file' = ledger /\ readable' /\ ledger' = ledger
      BY <1>4, <2>2 DEF WriteFile
    <2>4. \A d \in Callers : ~Writing(d)'
      BY <1>4, <2>2 DEF WriteFile, AfterRow, Midway, TypeOK
    <2> QED BY <2>3, <2>4
  <1>5. CASE Crash
    BY <1>5 DEF Crash
  <1> QED BY <1>1, <1>2, <1>3, <1>4, <1>5 DEF Next

-----------------------------------------------------------------------------
(* Greatest and least.                                                     *)

\* Of finitely many numbers one is the greatest.
LEMMA GreatestIsIn ==
    ASSUME NEW S \in SUBSET Nat, IsFiniteSet(S), S # {}
    PROVE  Greatest(S) \in S /\ \A x \in S : x <= Greatest(S)
<1> DEFINE upTo == {S \cap 0..n : n \in S}
<1>1. {S \ s : s \in upTo} # {}
  <2>1. PICK n \in S : TRUE
    OBVIOUS
  <2>2. S \cap 0..n \in upTo
    OBVIOUS
  <2> HIDE DEF upTo
  <2> QED BY <2>2
<1>2. {S \ s : s \in upTo} \subseteq FiniteSubsetsOf(S)
  <2>1. ASSUME NEW s \in upTo PROVE S \ s \in FiniteSubsetsOf(S)
    <3>1. S \ s \in SUBSET S
      OBVIOUS
    <3>2. IsFiniteSet(S \ s)
      BY <3>1, FS_Subset
    <3> QED BY <3>1, <3>2 DEF FiniteSubsetsOf
  <2> HIDE DEF upTo
  <2> QED BY <2>1
<1>3. PICK rest \in {S \ s : s \in upTo} :
         \A r \in {S \ s : s \in upTo} : ~(<<r, rest>> \in StrictSubsetOrdering(S))
  <2> DEFINE rests == {S \ s : s \in upTo}
  <2>1. IsWellFoundedOn(StrictSubsetOrdering(S), FiniteSubsetsOf(S))
    BY FS_StrictSubsetOrderingWellFounded
  <2>2. rests # {} /\ rests \subseteq FiniteSubsetsOf(S)
    BY <1>1, <1>2
  <2> HIDE DEF rests, upTo
  <2>3. \E x \in rests : \A r \in rests : ~(<<r, x>> \in StrictSubsetOrdering(S))
    BY <2>1, <2>2, WFMin
  <2> QED BY <2>3 DEF rests
<1>4. PICK n \in S : rest = S \ 0..n
  BY <1>3
<1>5. ASSUME NEW x \in S PROVE x <= n
  <2> SUFFICES ASSUME n < x PROVE FALSE
    OBVIOUS
  <2> DEFINE less == S \ 0..x
  <2>1. less \subseteq rest /\ x \in rest /\ x \notin less /\ rest \subseteq S
    BY <1>4
  <2>2. less \in {S \ s : s \in upTo}
    <3>1. S \cap 0..x \in upTo /\ less = S \ (S \cap 0..x)
      OBVIOUS
    <3> HIDE DEF upTo, less
    <3> QED BY <3>1
  <2>3. <<less, rest>> \in StrictSubsetOrdering(S)
    BY <2>1 DEF StrictSubsetOrdering
  <2> QED BY <1>3, <2>2, <2>3
<1> QED BY <1>5 DEF Greatest

-----------------------------------------------------------------------------
(* The order of substitutes.                                               *)

Ranks == [1..5 -> Int]

\* Ranks are ordered strictly and totally.
LEMMA BeforeOrders ==
    ASSUME NEW a \in Ranks, NEW b \in Ranks
    PROVE  /\ ~Before(a, a)
           /\ a[5] # b[5] => Before(a, b) \/ Before(b, a)
<1>1. ~Before(a, a)
  BY DEF Before, Ranks
<1>2. ASSUME a[5] # b[5] PROVE Before(a, b) \/ Before(b, a)
  <2>1. ASSUME NEW n \in 1..5, a[n] # b[n], \A m \in 1..(n - 1) : a[m] = b[m]
        PROVE  Before(a, b) \/ Before(b, a)
    <3>1. CASE a[n] < b[n]
      BY <2>1, <3>1 DEF Before
    <3>2. CASE b[n] < a[n]
      BY <2>1, <3>2 DEF Before
    <3> QED BY <2>1, <3>1, <3>2 DEF Ranks
  <2>2. CASE a[1] # b[1] BY <2>1, <2>2
  <2>3. CASE a[1] = b[1] /\ a[2] # b[2] BY <2>1, <2>3
  <2>4. CASE a[1] = b[1] /\ a[2] = b[2] /\ a[3] # b[3] BY <2>1, <2>4
  <2>5. CASE a[1] = b[1] /\ a[2] = b[2] /\ a[3] = b[3] /\ a[4] # b[4] BY <2>1, <2>5
  <2>6. CASE a[1] = b[1] /\ a[2] = b[2] /\ a[3] = b[3] /\ a[4] = b[4]
    BY <1>2, <2>1, <2>6
  <2> QED BY <2>2, <2>3, <2>4, <2>5, <2>6
<1> QED BY <1>1, <1>2

LEMMA BeforeTransitive ==
    ASSUME NEW a \in Ranks, NEW b \in Ranks, NEW c \in Ranks, Before(a, b), Before(b, c)
    PROVE  Before(a, c)
<1>1. PICK n \in 1..5 : a[n] < b[n] /\ \A k \in 1..(n - 1) : a[k] = b[k]
  BY DEF Before
<1>2. PICK m \in 1..5 : b[m] < c[m] /\ \A k \in 1..(m - 1) : b[k] = c[k]
  BY DEF Before
<1>3. CASE n < m
  BY <1>1, <1>2, <1>3 DEF Before, Ranks
<1>4. CASE n = m
  BY <1>1, <1>2, <1>4 DEF Before, Ranks
<1>5. CASE m < n
  BY <1>1, <1>2, <1>5 DEF Before, Ranks
<1> QED BY <1>3, <1>4, <1>5

\* An entry has its place among the keys, and shares it with no other.
LEMMA Places ==
    ASSUME NEW k \in Keys, NEW other \in Keys
    PROVE  /\ Place(k) \in 1..Len(KeyOrder)
           /\ Place(k) = Place(other) => k = other
  BY PartsAssumption DEF Place

LEMMA KeysFinite == IsFiniteSet(Keys)
<1> DEFINE places == {Place(k) : k \in Keys}
           place == [k \in Keys |-> Place(k)]
<1>1. places \subseteq 1..Len(KeyOrder)
  BY Places
<1>2. IsFiniteSet(1..Len(KeyOrder))
  BY FS_Interval, PartsAssumption
<1>3. IsFiniteSet(places)
  BY <1>1, <1>2, FS_Subset
<1>4. place \in Injection(Keys, places)
  BY Places DEF Injection, IsInjective
<1> QED BY <1>3, <1>4, FS_Injection

\* What the drawer holds under a part's key is an entry of that kind.
LEMMA PartEntries ==
    ASSUME NEW drawer \in Drawer, NEW k \in PartKeys(drawer)
    PROVE  /\ k \in Keys /\ drawer[k] \in 1..MaxCalls
           /\ EntryOf(drawer, k) = Held(k, drawer[k])
           /\ EntryOf(drawer, k).kind = "part"
           /\ EntryOf(drawer, k).quantity \in Nat
           /\ EntryOf(drawer, k).v \in Ratings /\ EntryOf(drawer, k).i \in Ratings
  BY PartsAssumption, DrawerAssumption DEF PartKeys, InDrawer, EntryOf, Drawer

LEMMA RankType ==
    ASSUME NEW drawer \in Drawer, NEW over, NEW g, NEW k \in PartKeys(drawer)
    PROVE  /\ Rank(drawer, over, g, k) \in Ranks
           /\ Rank(drawer, over, g, k)[5] = Place(k)
<1> DEFINE e == EntryOf(drawer, k)
<1>1. \A b : Flag(b) \in Int
  BY DEF Flag
<1>2. 0 - e.quantity \in Int /\ Place(k) \in Int
  BY PartEntries, Places, PartsAssumption
<1>3. ASSUME NEW x \in Int, NEW y \in Int, NEW z \in Int, NEW q \in Int, NEW p \in Int
      PROVE  <<x, y, z, q, p>> \in Ranks /\ <<x, y, z, q, p>>[5] = p
  BY DEF Ranks
<1> QED BY <1>1, <1>2, <1>3 DEF Rank

\* One of the substitutes comes before all others, and it is the best.
LEMMA BestIsOne ==
    ASSUME NEW drawer \in Drawer, NEW over, NEW g, Substitutes(drawer, over, g) # {}
    PROVE  Best(drawer, over, g) \in Substitutes(drawer, over, g)
<1> DEFINE all == Substitutes(drawer, over, g)
           rank(k) == Rank(drawer, over, g, k)
           ahead(k) == {j \in all : Before(rank(j), rank(k))}
           aheads == {ahead(k) : k \in all}
<1>1. all \subseteq PartKeys(drawer) /\ all \subseteq Keys
  BY DEF Substitutes, PartKeys, InDrawer
<1>2. \A k \in all : rank(k) \in Ranks /\ rank(k)[5] = Place(k)
  BY <1>1, RankType
<1>3. IsFiniteSet(all)
  BY <1>1, KeysFinite, FS_Subset
<1>4. PICK k \in all : \A j \in all : ~(<<ahead(j), ahead(k)>> \in StrictSubsetOrdering(all))
  <2>1. aheads # {}
    OBVIOUS
  <2>2. aheads \subseteq FiniteSubsetsOf(all)
    <3>1. ASSUME NEW j \in all PROVE ahead(j) \in FiniteSubsetsOf(all)
      <4>1. ahead(j) \in SUBSET all
        OBVIOUS
      <4> HIDE DEF all, ahead
      <4> QED BY <1>3, <4>1, FS_Subset DEF FiniteSubsetsOf
    <3> HIDE DEF all, ahead
    <3> QED BY <3>1
  <2>3. IsWellFoundedOn(StrictSubsetOrdering(all), FiniteSubsetsOf(all))
    BY <1>3, FS_StrictSubsetOrderingWellFounded
  <2>4. PICK least \in aheads : \A r \in aheads : ~(<<r, least>> \in StrictSubsetOrdering(all))
    <3> HIDE DEF aheads, all
    <3> QED BY <2>1, <2>2, <2>3, WFMin
  <2>5. PICK k \in all : least = ahead(k)
    OBVIOUS
  <2> HIDE DEF all, ahead
  <2> QED BY <2>4, <2>5
<1>5. ahead(k) = {}
  <2> SUFFICES ASSUME NEW j \in ahead(k) PROVE FALSE
    OBVIOUS
  <2>1. j \in all /\ Before(rank(j), rank(k))
    OBVIOUS
  <2> HIDE DEF rank, all
  <2>2. ASSUME NEW i \in ahead(j) PROVE i \in ahead(k)
    BY <1>2, <2>1, BeforeTransitive
  <2>3. j \notin ahead(j)
    BY <1>2, <2>1, BeforeOrders
  <2>4. <<ahead(j), ahead(k)>> \in StrictSubsetOrdering(all)
    BY <2>1, <2>2, <2>3 DEF StrictSubsetOrdering
  <2> QED BY <1>4, <2>1, <2>4
<1>6. ASSUME NEW other \in all \ {k} PROVE Before(rank(k), rank(other))
  <2>1. rank(k)[5] # rank(other)[5] /\ rank(k) \in Ranks /\ rank(other) \in Ranks
    BY <1>1, <1>2, Places
  <2>2. ~Before(rank(other), rank(k))
    BY <1>5
  <2> HIDE DEF rank
  <2> QED BY <2>1, <2>2, BeforeOrders
<1> QED BY <1>6 DEF Best

-----------------------------------------------------------------------------
(* What a part is replaced by.                                             *)

LEMMA PlacesPlaced == Len(Placed) \in Nat /\ DOMAIN Placed = 1..Len(Placed)
  BY PartsAssumption

\* The ratings a group asks for are at least those of each of its parts.
LEMMA MostDemanding ==
    ASSUME NEW over, NEW g, NEW n \in Declaring(over, g), NEW rating \in Ratings,
           NEW field \in {"v", "i"}, Clears(rating, Merged(over, g)[field])
    PROVE  Clears(rating, Placed[n].requires[field])
<1> DEFINE asked == {Placed[m].requires[field] : m \in Declaring(over, g)} \ {None}
           mine == Placed[n].requires[field]
<1>1. Declaring(over, g) \subseteq DOMAIN Placed
  BY DEF Declaring, PartsOf, Valued
<1>2. \A m \in Declaring(over, g) : Placed[m].requires[field] \in Ratings
  BY <1>1, PartsAssumption DEF Declaring
<1>3. asked \in SUBSET Nat
  BY <1>2 DEF Ratings
<1>4. IsFiniteSet(asked)
  <2>1. IsFiniteSet(DOMAIN Placed)
    BY PlacesPlaced, FS_Interval
  <2>2. IsFiniteSet(Declaring(over, g))
    BY <1>1, <2>1, FS_Subset
  <2> DEFINE fields == [m \in Declaring(over, g) |-> Placed[m].requires[field]]
             all == {Placed[m].requires[field] : m \in Declaring(over, g)}
  <2>3. fields \in Surjection(Declaring(over, g), all)
    BY DEF Surjection
  <2>4. IsFiniteSet(all)
    BY <2>2, <2>3, FS_Surjection
  <2> QED BY <2>4, FS_Subset
<1>5. Merged(over, g)[field] = Greatest(asked)
  <2>1. CASE field = "v"
    BY <2>1 DEF Merged
  <2>2. CASE field = "i"
    BY <2>2 DEF Merged
  <2> QED BY <2>1, <2>2
<1>6. CASE mine = None
  BY <1>6 DEF Clears
<1>7. CASE mine # None
  <2>1. mine \in asked
    BY <1>7
  <2> HIDE DEF asked
  <2>2. Greatest(asked) \in Nat /\ mine \in Nat /\ mine <= Greatest(asked)
    BY <1>3, <1>4, <2>1, GreatestIsIn
  <2>3. rating # None /\ rating >= Greatest(asked)
    BY <1>5, <2>2, PartsAssumption DEF Clears
  <2>4. rating \in Nat
    BY <2>3 DEF Ratings
  <2> HIDE DEF mine
  <2>5. rating >= mine
    BY <2>2, <2>3, <2>4
  <2> QED BY <2>3, <2>5 DEF Clears, mine
<1> QED BY <1>6, <1>7

\* Of finitely many positions one is the first.
LEMMA FirstIsIn ==
    ASSUME NEW numbers \in SUBSET (DOMAIN Placed), numbers # {}
    PROVE  First(numbers) \in numbers
<1> DEFINE left == {Len(Placed) - n : n \in numbers}
<1>1. left \in SUBSET Nat /\ left \subseteq 0..Len(Placed) /\ left # {}
  BY PlacesPlaced
<1>2. IsFiniteSet(left)
  <2>1. IsFiniteSet(0..Len(Placed))
    BY PlacesPlaced, FS_Interval
  <2> HIDE DEF left
  <2> QED BY <1>1, <2>1, FS_Subset
<1>3. Greatest(left) \in left /\ \A x \in left : x <= Greatest(left)
  <2> HIDE DEF left
  <2> QED BY <1>1, <1>2, GreatestIsIn
<1>4. PICK n \in numbers : Greatest(left) = Len(Placed) - n
  BY <1>3
<1>5. ASSUME NEW m \in numbers PROVE n <= m
  <2>1. Len(Placed) - m <= Len(Placed) - n
    BY <1>3, <1>4
  <2>2. n \in Nat /\ m \in Nat /\ Len(Placed) \in Nat
    BY PartsAssumption
  <2> QED BY <2>1, <2>2
<1> QED BY <1>5 DEF First

\* A substitute for a group is one for each part of it.
LEMMA MeetsEach ==
    ASSUME NEW over, NEW g, NEW n \in Declaring(over, g), NEW e,
           e.v \in Ratings, e.i \in Ratings, Meets(e, Merged(over, g))
    PROVE  LET asked == Placed[n].requires IN
           /\ Clears(e.v, asked.v) /\ Clears(e.i, asked.i)
           /\ OfOneKind(over, g) => Meets(e, asked)
<1> DEFINE asked == Placed[n].requires
           first == First(Declaring(over, g))
<1>1. Clears(e.v, asked.v)
  <2>1. Clears(e.v, Merged(over, g)["v"])
    BY DEF Meets
  <2> QED BY <2>1, MostDemanding
<1>2. Clears(e.i, asked.i)
  <2>1. Clears(e.i, Merged(over, g)["i"])
    BY DEF Meets
  <2> QED BY <2>1, MostDemanding
<1>3. ASSUME OfOneKind(over, g) PROVE Meets(e, asked)
  <2>1. Declaring(over, g) \in SUBSET (DOMAIN Placed)
    BY DEF Declaring, PartsOf, Valued
  <2>2. first \in Declaring(over, g)
    BY <2>1, FirstIsIn
  <2>3. /\ Placed[first].requires.family = asked.family
        /\ Placed[first].requires.polarity = asked.polarity
    BY <1>3, <2>2 DEF OfOneKind
  <2>4. /\ Merged(over, g).family = Placed[first].requires.family
        /\ Merged(over, g).polarity = Placed[first].requires.polarity
    BY DEF Merged
  <2>5. e.family = asked.family /\ asked.polarity \in {"", e.polarity}
    BY <2>3, <2>4 DEF Meets
  <2> QED BY <1>1, <1>2, <2>5 DEF Meets
<1> QED BY <1>1, <1>2, <1>3

\* What an application sets on a part is the best substitute of its group.
LEMMA AppliedIsBest ==
    ASSUME NEW drawer \in Drawer, NEW over, NEW n \in DOMAIN Placed
    PROVE  LET key == Placed[n].key
               g == Group(Placed[n], over)
           IN  key \in DOMAIN Applied(drawer, over) =>
                  \/ key \in DOMAIN over /\ Applied(drawer, over)[key] = over[key]
                  \/ /\ n \in PartsOf(over, g) /\ Substitutes(drawer, over, g) # {}
                     /\ Applied(drawer, over)[key] = EntryOf(drawer, Best(drawer, over, g)).mpn
<1> DEFINE key == Placed[n].key
           part(x) == CHOOSE m \in DOMAIN Placed : Placed[m].key = x
           keys == {Placed[m].key : m \in UNION {PartsOf(over, h) : h \in Taken(drawer, over)}}
<1>1. Applied(drawer, over) =
        [x \in keys \cup DOMAIN over |->
           IF x \in keys
           THEN EntryOf(drawer, Best(drawer, over, Group(Placed[part(x)], over))).mpn
           ELSE over[x]]
  BY DEF Applied
<1>2. CASE key \in keys
  <2>0. PICK h \in Taken(drawer, over) : \E m \in PartsOf(over, h) : Placed[m].key = key
    BY <1>2
  <2>1. PICK m \in PartsOf(over, h) : Placed[m].key = key
    BY <2>0
  <2>2. m = n
    BY <2>1, PartsAssumption DEF PartsOf, Valued
  <2>3. h = Group(Placed[n], over) /\ n \in PartsOf(over, h)
    BY <2>1, <2>2 DEF PartsOf
  <2>4. Substitutes(drawer, over, h) # {}
    BY DEF Taken
  <2>5. part(key) = n
    BY PartsAssumption
  <2>6. Applied(drawer, over)[key] = EntryOf(drawer, Best(drawer, over, h)).mpn
    BY <1>1, <1>2, <2>3, <2>5
  <2> QED BY <2>3, <2>4, <2>6
<1>3. CASE key \notin keys
  BY <1>1, <1>3
<1> QED BY <1>2, <1>3

\* The step the property is about, and that the overrides stay parts of the drawer's.
LEMMA ApplyFits ==
    ASSUME NEW drawer \in Drawer, NEW over, NEW n \in DOMAIN Placed
    PROVE  LET key == Placed[n].key
               asked == Placed[n].requires
           IN  /\ key \in DOMAIN Applied(drawer, over)
               /\ ~(key \in DOMAIN over /\ over[key] = Applied(drawer, over)[key])
               => \E k \in PartKeys(drawer) :
                     LET e == EntryOf(drawer, k)
                     IN /\ e.mpn = Applied(drawer, over)[key] /\ e.quantity > 0
                        /\ asked # None => Clears(e.v, asked.v) /\ Clears(e.i, asked.i)
                        /\ asked # None /\ OfOneKind(over, Group(Placed[n], over)) =>
                              Meets(e, asked)
<1> DEFINE key == Placed[n].key
           asked == Placed[n].requires
           g == Group(Placed[n], over)
           k == Best(drawer, over, g)
           e == EntryOf(drawer, k)
<1> SUFFICES ASSUME key \in DOMAIN Applied(drawer, over),
                    ~(key \in DOMAIN over /\ over[key] = Applied(drawer, over)[key])
             PROVE  /\ k \in PartKeys(drawer)
                    /\ e.mpn = Applied(drawer, over)[key] /\ e.quantity > 0
                    /\ asked # None => Clears(e.v, asked.v) /\ Clears(e.i, asked.i)
                    /\ asked # None /\ OfOneKind(over, g) => Meets(e, asked)
  OBVIOUS
<1>1. /\ n \in PartsOf(over, g) /\ Substitutes(drawer, over, g) # {}
      /\ Applied(drawer, over)[key] = e.mpn
  BY AppliedIsBest
<1>2. k \in Substitutes(drawer, over, g)
  BY <1>1, BestIsOne
<1>3. /\ k \in PartKeys(drawer) /\ e.quantity > 0
      /\ Meets(e, Ask(drawer, over, g))
  BY <1>2 DEF Substitutes
<1>4. ASSUME asked # None
      PROVE  /\ Clears(e.v, asked.v) /\ Clears(e.i, asked.i)
             /\ OfOneKind(over, g) => Meets(e, asked)
  <2>1. n \in Declaring(over, g)
    BY <1>1, <1>4 DEF Declaring
  <2>2. Meets(e, Merged(over, g))
    BY <1>3, <2>1 DEF Ask
  <2>3. e.v \in Ratings /\ e.i \in Ratings
    BY <1>3, PartEntries
  <2> HIDE DEF e, g
  <2> QED BY <2>1, <2>2, <2>3, MeetsEach
<1> QED BY <1>1, <1>3, <1>4

\* Every override is the MPN of a part that some call put into the drawer.
LEMMA OverridesStep ==
    ASSUME TypeOK, OverridesOK, ApplySubstitutions
    PROVE  OverridesOK'
<1> DEFINE keys == {Placed[m].key : m \in UNION {PartsOf(overrides, h) :
                                                  h \in Taken(Parsed, overrides)}}
<1>1. overrides' = Applied(Parsed, overrides) /\ Parsed \in Drawer
  BY ParsedType DEF ApplySubstitutions
<1>2. DOMAIN Applied(Parsed, overrides) = keys \cup DOMAIN overrides
  BY DEF Applied
<1>3. keys \subseteq {Placed[n].key : n \in DOMAIN Placed}
  BY DEF PartsOf, Valued
<1>4. ASSUME NEW key \in DOMAIN overrides'
      PROVE  \E k \in Keys, m \in 1..MaxCalls :
                Held(k, m).kind = "part" /\ Held(k, m).mpn = overrides'[key]
  <2>1. PICK n \in DOMAIN Placed : key = Placed[n].key
    BY <1>1, <1>2, <1>3 DEF OverridesOK
  <2>2. CASE key \in DOMAIN overrides /\ overrides[key] = overrides'[key]
    BY <2>2 DEF OverridesOK
  <2>3. CASE ~(key \in DOMAIN overrides /\ overrides[key] = overrides'[key])
    <3>1. PICK k \in PartKeys(Parsed) : EntryOf(Parsed, k).mpn = overrides'[key]
      BY <1>1, <2>1, <2>3, ApplyFits
    <3> QED BY <1>1, <3>1, PartEntries
  <2> QED BY <2>2, <2>3
<1> QED BY <1>1, <1>2, <1>3, <1>4 DEF OverridesOK

-----------------------------------------------------------------------------
(* The theorems.                                                           *)

IInv == TypeOK /\ AloneInv /\ OverridesOK

LEMMA InitIInv == ASSUME CheckInit PROVE IInv
<1>1. AloneInv
  BY DEF CheckInit, Init, AloneInv, Writing
<1>2. OverridesOK
  BY DEF CheckInit, OverridesOK
<1> QED BY <1>1, <1>2, InitTypes DEF CheckInit, IInv

\* An application changes the overrides alone, and counts as a call.
LEMMA ApplyStep == ASSUME IInv, ApplySubstitutions PROVE IInv'
<1>1. TypeOK'
  <2>1. calls' \in 0..MaxCalls
    BY DrawerAssumption DEF IInv, TypeOK, ApplySubstitutions
  <2> QED BY <2>1 DEF IInv, TypeOK, ApplySubstitutions, callVars
<1>2. AloneInv'
  BY DEF IInv, AloneInv, Writing, Midway, ApplySubstitutions, callVars
<1>3. OverridesOK'
  BY OverridesStep DEF IInv
<1> QED BY <1>1, <1>2, <1>3 DEF IInv

LEMMA DrawerStep == ASSUME IInv, Next, UNCHANGED overrides PROVE IInv'
<1>1. OverridesOK'
  BY DEF IInv, OverridesOK
<1> QED BY <1>1, TypeStep, AloneStep DEF IInv

LEMMA StutterIInv == ASSUME IInv, UNCHANGED checkVars PROVE IInv'
  BY DEF IInv, TypeOK, AloneInv, Writing, Midway, OverridesOK, checkVars, vars

\* The inductive invariant holds in every reachable state.
THEOREM Invariance == CheckSpec => []IInv
<1>1. CheckInit => IInv
  BY InitIInv
<1>2. IInv /\ [CheckNext]_checkVars => IInv'
  BY ApplyStep, DrawerStep, StutterIInv DEF CheckNext
<1> QED BY <1>1, <1>2, PTL DEF CheckSpec

\* The type invariants, and the drawer in the file is what the completed calls
\* add up to, as long as no two of them overlapped between a read and its write
\* and none died there; what parts were replaced by, a call put into the drawer.
THEOREM SerialCallsKeepTheDrawer ==
    CheckSpec => [](TypeOK /\ SerialCallsAddUp /\ OverridesOK)
<1>1. IInv => TypeOK /\ SerialCallsAddUp /\ OverridesOK
  BY DEF IInv, AloneInv, Writing, SerialCallsAddUp
<1> QED BY <1>1, Invariance, PTL

\* A part is replaced only by one that the drawer holds, with the ratings that
\* this part asks for, and of its family and polarity if the parts of its value
\* agree on these.
THEOREM ReplacementsFit == CheckSpec => SubstitutesFit
<1> DEFINE Fit ==
      \A n \in DOMAIN Placed :
          LET key == Placed[n].key
              asked == Placed[n].requires
              replaced == /\ key \in DOMAIN overrides'
                          /\ ~(key \in DOMAIN overrides /\ overrides[key] = overrides'[key])
          IN  replaced => \E k \in PartKeys(Parsed) :
                 LET e == EntryOf(Parsed, k)
                 IN /\ e.mpn = overrides'[key] /\ e.quantity > 0
                    /\ asked # None => Clears(e.v, asked.v) /\ Clears(e.i, asked.i)
                    /\ asked # None /\ OfOneKind(overrides, Group(Placed[n], overrides)) =>
                          Meets(e, asked)
<1>1. IInv /\ [CheckNext]_checkVars => [Fit]_overrides
  <2> SUFFICES ASSUME IInv, CheckNext, overrides' # overrides PROVE Fit
    BY DEF checkVars
  <2>1. overrides' = Applied(Parsed, overrides) /\ Parsed \in Drawer
    BY ParsedType DEF CheckNext, ApplySubstitutions, IInv
  <2> QED BY <2>1, ApplyFits
<1> QED BY <1>1, Invariance, PTL DEF CheckSpec, SubstitutesFit
=============================================================================
