-------------------------- MODULE MCInventoryStore --------------------------
(* Instances of PartsCheck over InventoryStore for TLC.                     *)
EXTENDS PartsCheck
CONSTANTS c1, c2

DrawerSymmetry == Permutations(Callers)

\* An H-bridge of three transistors, two that ask for different ratings, its resistor,
\* its connector; a sensor; a module of two parts; a resistor of the design's own.
Fet(v) == [family |-> "mosfet", polarity |-> "p", v |-> v, i |-> 5]
MCPlaced ==
    <<[key |-> "q1", lib |-> "bridge", prefix |-> "Q", value |-> "A", requires |-> Fet(20), package |-> "TO-220"],
      [key |-> "q2", lib |-> "bridge", prefix |-> "Q", value |-> "A", requires |-> Fet(40), package |-> "TO-220"],
      [key |-> "q3", lib |-> "bridge", prefix |-> "Q", value |-> "A", requires |-> None, package |-> "TO-220"],
      [key |-> "r1", lib |-> "bridge", prefix |-> "R", value |-> "10000", requires |-> None, package |-> ""],
      [key |-> "j1", lib |-> "bridge", prefix |-> "J", value |-> "Screw", requires |-> None, package |-> ""]>>
MCPassives == <<[id |-> "p1", family |-> "resistor", value |-> "4k7"]>>
MCComponents ==
    <<[id |-> "b1", lib |-> "bridge", module |-> None],
      [id |-> "s1", lib |-> "sensor", module |-> None],
      [id |-> "m1", lib |-> "sensor", module |-> [id |-> "hat", instance |-> "i1"]],
      [id |-> "m2", lib |-> "driver", module |-> [id |-> "hat", instance |-> "i1"]]>>
MCKeyOrder == <<"hat", "a", "b", "c", "r">>
MCMagnitude == [x \in {"10k", "10000"} |-> "10k"] @@ [x \in {"4k7"} |-> "4k7"]

Part(mpn, n, family, v) ==
    [kind |-> "part", mpn |-> mpn, quantity |-> n, location |-> IF n = 1 THEN "" ELSE "box",
     family |-> family, polarity |-> IF family = "mosfet" THEN "p" ELSE "",
     package |-> IF n = 1 THEN "" ELSE "TO-220", pinout |-> IF n = 2 THEN "GDS" ELSE "",
     value |-> "", v |-> v, i |-> IF v = None THEN None ELSE 10]
Unit1(n) == [Part("", n, "", None) EXCEPT !.kind = "component"]
MCHeld(k, m) ==
    CASE k = "a" -> Part("A", <<2, 0, 3>>[m], "mosfet", <<40, 40, None>>[m])
      [] k = "b" -> Part("B", <<1, 2, 1>>[m], "mosfet", <<55, 30, 45>>[m])
      [] k = "c" -> Part("C", <<2, 1, 3>>[m], <<"mosfet", "bjt", "mosfet">>[m], <<30, 60, 40>>[m])
      [] k = "r" -> [Part("RC", m, "resistor", None) EXCEPT !.value = <<"10k", "4k7", "10000">>[m]]
      [] k = "hat" -> Unit1(m - 1)
=============================================================================
