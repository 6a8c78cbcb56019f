----------------------------- MODULE PartsCheck -----------------------------
(***************************************************************************)
(* What the drawer has of a design (inventory/check.py, match.py, buy.py), *)
(* and the substitutions made from it: POST .../apply-substitutions reads  *)
(* the drawer while other requests write it, and returns the design with   *)
(* part_overrides set.  The recommender's view of the drawer, and the rows *)
(* an import takes (csv_io.py).                                            *)
(***************************************************************************)
EXTENDS InventoryStore, SequencesExt

CONSTANTS
    None,
    Placed,      \* placed_parts: [key, lib, prefix, value, requires, package], in order
    Passives,    \* the design's own: [id, family, value]
    Components,  \* [id, lib, module], module being None or [id, instance]
    KeyOrder,    \* the drawer's keys, sorted: a part's is "part:" and its MPN
    Held(_, _),  \* the entry that call m put under key k
    Magnitude    \* value -> what it stands for; values without notation are left out

Ratings == Nat \cup {None}

\* placed_parts numbers its keys apart; InventoryEntry takes no negative
\* quantity or rating, and an entry of kind part is filed under its MPN.
ASSUME PartsAssumption ==
    /\ None \notin Nat
    /\ Len(Placed) \in Nat /\ DOMAIN Placed = 1..Len(Placed)
    /\ \A n, m \in DOMAIN Placed : Placed[n].key = Placed[m].key => n = m
    /\ \A n \in DOMAIN Placed : LET asked == Placed[n].requires IN
          asked # None => asked.v \in Ratings /\ asked.i \in Ratings
    /\ Len(KeyOrder) \in Nat /\ DOMAIN KeyOrder = 1..Len(KeyOrder)
    /\ \A k \in Keys : \E n \in DOMAIN KeyOrder : KeyOrder[n] = k
    /\ \A k \in Keys, m \in 1..MaxCalls : LET e == Held(k, m) IN
          /\ e.quantity \in Nat /\ e.v \in Ratings /\ e.i \in Ratings
          /\ \A other \in Keys, o \in 1..MaxCalls :
                e.kind = "part" /\ Held(other, o).kind = "part" =>
                   (k = other <=> e.mpn = Held(other, o).mpn)

ValueFamilies == {"resistor", "capacitor", "inductor"}
FamilyOf == [R |-> "resistor", C |-> "capacitor", L |-> "inductor", D |-> "diode",
             Q |-> "transistor", U |-> "ic", VR |-> "regulator"]
\* family_for_ref: a connector is not something a drawer tracks.
Family(prefix) == IF prefix \in DOMAIN FamilyOf THEN FamilyOf[prefix] ELSE ""

\* An entry: [kind, mpn, quantity, location, family, polarity, package, pinout,
\* value, v, i], v and i None when not recorded.
EntryOf(drawer, k) == Held(k, drawer[k])
InDrawer(drawer) == {k \in Keys : drawer[k] # 0}
PartKeys(drawer) == {k \in InDrawer(drawer) : EntryOf(drawer, k).kind = "part"}
Place(k) == CHOOSE n \in DOMAIN KeyOrder : KeyOrder[n] = k

VARIABLE overrides    \* the design's part_overrides: part key -> MPN
checkVars == <<vars, overrides>>

OverridesOK == /\ DOMAIN overrides \subseteq {Placed[n].key : n \in DOMAIN Placed}
               /\ \A key \in DOMAIN overrides : \E k \in Keys, m \in 1..MaxCalls :
                     Held(k, m).kind = "part" /\ Held(k, m).mpn = overrides[key]

-----------------------------------------------------------------------------
(* The lines of the parts check.                                            *)

\* A group: by magnitude for what is sold by value, by MPN for the rest.
ByValue(family, value) == family \in ValueFamilies /\ value \in DOMAIN Magnitude
GroupKey(family, value) == IF ByValue(family, value) THEN Magnitude[value] ELSE value

ValueOn(part, over) == IF part.key \in DOMAIN over THEN over[part.key] ELSE part.value
Group(part, over) == <<Family(part.prefix), GroupKey(Family(part.prefix), ValueOn(part, over))>>
Valued(over) == {n \in DOMAIN Placed : ValueOn(Placed[n], over) # ""}
PassiveGroup(p) == <<p.family, GroupKey(p.family, p.value)>>
Groups(over) == {Group(Placed[n], over) : n \in Valued(over)} \cup
                {PassiveGroup(Passives[n]) : n \in DOMAIN Passives}
PartsOf(over, g) == {n \in Valued(over) : Group(Placed[n], over) = g}
Needed(over, g) == Cardinality(PartsOf(over, g)) +
                   Cardinality({n \in DOMAIN Passives : PassiveGroup(Passives[n]) = g})

\* _Drawer: of two entries for one magnitude or MPN the last one counts.
Answers(e, g) ==
    IF g[1] \in ValueFamilies
    THEN e.family = g[1] /\ e.value \in DOMAIN Magnitude /\ Magnitude[e.value] = g[2]
    ELSE e.mpn = g[2]
Lookup(drawer, g) ==
    LET those == {k \in PartKeys(drawer) : Answers(EntryOf(drawer, k), g)}
    IN IF those = {} THEN None
       ELSE CHOOSE k \in those : \A other \in those : Place(other) <= Place(k)

CommonMagnitudes == {"10k", "100n"}
IsCommon(g) == g[1] \in {"resistor", "capacitor"} /\ g[2] \in CommonMagnitudes
Status(g, needed, onHand) ==
    CASE g[1] = "" -> "untracked"
      [] onHand >= needed -> "have"
      [] onHand > 0 -> "partial"
      [] IsCommon(g) -> "assumed"
      [] OTHER -> "need"

Line(drawer, over, g) ==
    LET matched == IF g[1] = "" THEN None ELSE Lookup(drawer, g)
        onHand == IF matched = None THEN 0 ELSE EntryOf(drawer, matched).quantity
    IN [group |-> g, needed |-> Needed(over, g), onHand |-> onHand, matched |-> matched,
        status |-> Status(g, Needed(over, g), onHand)]
PartLines(drawer, over) == {Line(drawer, over, g) : g \in Groups(over)}
Short(line) == line.status \in {"need", "partial"}

-----------------------------------------------------------------------------
(* Substitutes.                                                             *)

Greatest(values) == IF values = {} THEN None ELSE CHOOSE v \in values : \A w \in values : w <= v
\* _merge_requirements: family and polarity of the first part that declares
\* them, the highest of the ratings.
Declaring(over, g) == {n \in PartsOf(over, g) : Placed[n].requires # None}
First(numbers) == CHOOSE n \in numbers : \A m \in numbers : n <= m
Merged_First(over, g) == Placed[First(Declaring(over, g))].requires
Merged(over, g) ==
    LET those == Declaring(over, g)
        first == Placed[First(those)].requires
    IN [family |-> first.family, polarity |-> first.polarity,
        v |-> Greatest({Placed[n].requires.v : n \in those} \ {None}),
        i |-> Greatest({Placed[n].requires.i : n \in those} \ {None})]
\* Without a declaration, the ratings of the part's own entry.
Own(drawer, g) ==
    LET mine == Lookup(drawer, g)
    IN IF mine = None \/ EntryOf(drawer, mine).family = "" THEN None
       ELSE [f \in {"family", "polarity", "v", "i"} |-> EntryOf(drawer, mine)[f]]
Ask(drawer, over, g) == IF Declaring(over, g) # {} THEN Merged(over, g) ELSE Own(drawer, g)

Clears(rating, least) == least = None \/ (rating # None /\ rating >= least)
Meets(e, ask) == /\ e.family = ask.family
                 /\ ask.polarity \in {"", e.polarity}
                 /\ Clears(e.v, ask.v) /\ Clears(e.i, ask.i)

\* The package of the first part's footprint, else that of its own entry.
PackageOf(drawer, over, g) ==
    LET on == Placed[First(PartsOf(over, g))].package
        mine == Lookup(drawer, g)
    IN IF on # "" THEN on ELSE IF mine = None THEN "" ELSE EntryOf(drawer, mine).package
PinoutOf(drawer, g) ==
    LET mine == Lookup(drawer, g) IN IF mine = None THEN "" ELSE EntryOf(drawer, mine).pinout

Substitutes(drawer, over, g) ==
    LET ask == Ask(drawer, over, g)
        package == PackageOf(drawer, over, g)
    IN IF ask = None THEN {}
       ELSE {k \in PartKeys(drawer) :
               LET e == EntryOf(drawer, k)
               IN /\ e.mpn \notin {"", g[2]} /\ e.quantity > 0
                  /\ Meets(e, ask)
                  /\ package = "" \/ e.package \in {"", package}}

\* Headroom under 20% counts only against what the circuit asks.
Marginal(e, ask) == \E f \in {"v", "i"} :
    ask[f] \notin {None, 0} /\ e[f] # None /\ 10 * e[f] < 12 * ask[f]
Flag(b) == IF b THEN 1 ELSE 0
Rank(drawer, over, g, k) ==
    LET e == EntryOf(drawer, k)
        pinout == PinoutOf(drawer, g)
    IN <<Flag(pinout # "" /\ e.pinout \notin {"", pinout}),
         Flag(PackageOf(drawer, over, g) # "" /\ e.package = ""),
         Flag(Declaring(over, g) # {} /\ Marginal(e, Merged(over, g))),
         0 - e.quantity, Place(k)>>
Before(a, b) == \E n \in 1..5 : a[n] < b[n] /\ \A m \in 1..(n - 1) : a[m] = b[m]
Best(drawer, over, g) ==
    CHOOSE k \in Substitutes(drawer, over, g) :
       \A other \in Substitutes(drawer, over, g) \ {k} :
          Before(Rank(drawer, over, g, k), Rank(drawer, over, g, other))

\* apply_substitutions: each short line of semiconductors that has a proposal.
Taken(drawer, over) ==
    {g \in Groups(over) : /\ Short(Line(drawer, over, g))
                          /\ g[1] \notin ValueFamilies
                          /\ PartsOf(over, g) # {}
                          /\ Substitutes(drawer, over, g) # {}}
Applied(drawer, over) ==
    LET part(key) == CHOOSE n \in DOMAIN Placed : Placed[n].key = key
        keys == {Placed[n].key : n \in UNION {PartsOf(over, g) : g \in Taken(drawer, over)}}
    IN [key \in keys \cup DOMAIN over |->
          IF key \in keys
          THEN EntryOf(drawer, Best(drawer, over, Group(Placed[part(key)], over))).mpn
          ELSE over[key]]

\* The request reads the drawer once, whole or torn, and answers.
ApplySubstitutions ==
    /\ calls < MaxCalls
    /\ calls' = calls + 1
    /\ overrides' = Applied(Parsed, overrides)
    /\ UNCHANGED <<file, readable, pc, callVars, entries, ledger, serial, crashes>>

-----------------------------------------------------------------------------
(* The component check, what is bought, and the recommender.               *)

\* _bom_parts: a module counts once for each time it was inserted.
Unit_EachPart(c) == IF c.module = None THEN <<c.lib, c.id>> ELSE <<c.module.id, c.id>>
Unit(c) == IF c.module = None THEN <<c.lib, c.id>> ELSE <<c.module.id, c.module.instance>>
Units == {Unit(Components[n]) : n \in DOMAIN Components}
OfLib(lib) == {u \in Units : u[1] = lib}
Built(lib) == \E n \in DOMAIN Placed : Placed[n].lib = lib   \* of a subcircuit
ComponentLines(drawer) ==
    {LET matched == {k \in InDrawer(drawer) : k = lib}
         onHand == IF matched = {} THEN 0 ELSE EntryOf(drawer, lib).quantity
         needed == Cardinality(OfLib(lib))
     IN [group |-> <<"unit", lib>>, needed |-> needed, onHand |-> onHand,
         matched |-> IF matched = {} THEN None ELSE lib,
         status |-> CASE onHand >= needed -> "have" [] onHand > 0 -> "partial" [] OTHER -> "need"] :
       lib \in {u[1] : u \in Units}}

\* The lines that are stock: pick_list's.
Stock(drawer, over) ==
    {line \in ComponentLines(drawer) : ~Built(line.group[2])} \cup
    {line \in PartLines(drawer, over) : line.status # "untracked"}
PickGroup(drawer, line) ==
    CASE line.status \in {"have", "partial"} ->
           LET where == EntryOf(drawer, line.matched).location
           IN IF where = "" THEN <<"unlocated", "">> ELSE <<"location", where>>
      [] line.status = "assumed" -> <<"assumed", "">>
      [] OTHER -> <<"missing", "">>
\* buy_list: the shortfalls.
Bought(drawer, over) ==
    [line \in {l \in Stock(drawer, over) : Short(l)} |-> line.needed - line.onHand]

\* subcircuit_coverage, of a component before it is placed.
SubParts(lib) == {n \in DOMAIN Placed : /\ Placed[n].lib = lib /\ Placed[n].value # ""
                                        /\ Family(Placed[n].prefix) # ""}
SubGroups(lib) == {Group(Placed[n], <<>>) : n \in SubParts(lib)}
SubCount(lib, g) == Cardinality({n \in SubParts(lib) : Group(Placed[n], <<>>) = g})
Total(f) == FoldFunction(+, 0, f)
CoveredBy(drawer, lib) ==
    Total([g \in SubGroups(lib) |->
             LET matched == Lookup(drawer, g)
                 onHand == IF matched = None THEN 0 ELSE EntryOf(drawer, matched).quantity
             IN IF Status(g, SubCount(lib, g), onHand) \in {"have", "assumed"}
                THEN SubCount(lib, g) ELSE onHand])
Tracked(lib) == Total([g \in SubGroups(lib) |-> SubCount(lib, g)])
\* recommend_components' boost, in fifths of the parts: a unit on hand counts whole.
Boost(drawer, lib) ==
    IF lib \in InDrawer(drawer) /\ EntryOf(drawer, lib).quantity > 0 THEN <<5, 1>>
    ELSE IF Tracked(lib) = 0 THEN <<0, 1>>
    ELSE <<5 * CoveredBy(drawer, lib), Tracked(lib)>>

-----------------------------------------------------------------------------
CheckInit == Init /\ overrides = <<>>
CheckNext == (Next /\ UNCHANGED overrides) \/ ApplySubstitutions
CheckSpec == CheckInit /\ [][CheckNext]_checkVars

-----------------------------------------------------------------------------
(* Properties *)

\* The check, the pick list and the buy list tell one story (check.py, buy.py):
\* what is pulled, assumed and ordered is what the design is made of, no entry
\* is asked for more than it holds, and a part the recommender calls all on hand
\* is one the check finds nothing missing of.
Pulled(line) == IF line.onHand < line.needed THEN line.onHand ELSE line.needed
Pieces(over) ==
    Cardinality({Components[n].module : n \in DOMAIN Components} \ {None})
    + Cardinality({n \in DOMAIN Components : Components[n].module = None /\ ~Built(Components[n].lib)})
    + Cardinality({n \in Valued(over) : Family(Placed[n].prefix) # ""})
    + Cardinality({n \in DOMAIN Passives : Passives[n].family # ""})
AddsUp(drawer, over, stock, bought) ==
    /\ Total([line \in stock |-> IF line.status = "assumed" THEN line.needed ELSE Pulled(line)])
         + Total(bought) = Pieces(over)
    /\ \A k \in InDrawer(drawer) :
          Total([line \in {l \in stock : l.matched = k} |-> Pulled(line)])
            <= EntryOf(drawer, k).quantity
    /\ \A line \in stock : PickGroup(drawer, line)[1] = "missing" <=> line.status = "need"
CheckAddsUp == (\A c \in Callers : pc[c] = "idle") =>
    LET drawer == Parsed IN
    /\ AddsUp(drawer, overrides, Stock(drawer, overrides), Bought(drawer, overrides))
    /\ \A lib \in {Placed[n].lib : n \in DOMAIN Placed} :
          CoveredBy(drawer, lib) = Tracked(lib) =>
             \A g \in SubGroups(lib) : Needed(<<>>, g) = SubCount(lib, g) =>
                ~Short(Line(drawer, <<>>, g))

\* The type invariants, the drawer, and the report on it.
DrawerSound == TypeOK /\ SerialCallsAddUp /\ OverridesOK /\ CheckAddsUp

\* What a part is replaced by is in the drawer, and has the ratings that this
\* part asks for, even where parts of one value ask for different ones, and the
\* family and polarity, if they agree on these (check.py:391).
OfOneKind(over, g) ==
    \A n, m \in Declaring(over, g) :
       /\ Placed[n].requires.family = Placed[m].requires.family
       /\ Placed[n].requires.polarity = Placed[m].requires.polarity
SubstitutesFit ==
    [][\A n \in DOMAIN Placed :
          LET key == Placed[n].key
              asked == Placed[n].requires
              replaced == /\ key \in DOMAIN overrides'
                          /\ ~(key \in DOMAIN overrides /\ overrides[key] = overrides'[key])
          IN  replaced => \E k \in PartKeys(Parsed) :
                 LET e == EntryOf(Parsed, k)
                 IN /\ e.mpn = overrides'[key] /\ e.quantity > 0
                    /\ asked # None => Clears(e.v, asked.v) /\ Clears(e.i, asked.i)
                    /\ asked # None /\ OfOneKind(overrides, Group(Placed[n], overrides)) =>
                          Meets(e, asked)]_overrides

-----------------------------------------------------------------------------
(* What the documentation says and the code does not keep (README.md).     *)

\* check.py:499 "a line already overridden to its best proposal is not
\* repeated": applying twice changes nothing more.
ApplySettles ==
    LET once == Applied(Parsed, overrides) IN Applied(Parsed, once) = once

\* Applying leaves no more to buy than before.
ApplyHelps ==
    Total(Bought(Parsed, Applied(Parsed, overrides))) <= Total(Bought(Parsed, overrides))

\* csv_io.py:3 "Export is a flat round-trip of every field": the rating columns
\* it writes are none it reads, ratings come from the note alone.
Imported(e) == [e EXCEPT !.v = None, !.i = None]
ExportKeeps == \A k \in InDrawer(Parsed) : Imported(EntryOf(Parsed, k)) = EntryOf(Parsed, k)
=============================================================================
