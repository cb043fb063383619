---------------------------- MODULE PriceLevels ----------------------------
(***************************************************************************)
(* The levels of the week 5 order books: a map from prices to maps from    *)
(* ids.                                                                    *)
(***************************************************************************)
EXTENDS Maps

\* orderLevels[p][id] = v creates the level if it is not there.
Level(levels, p) == IF p \in DOMAIN levels THEN levels[p] ELSE NoEntries

Insert(levels, p, id, v) == With(levels, p, With(Level(levels, p), id, v))

\* Level p holds an entry for id.
At(levels, p, id) == p \in DOMAIN levels /\ id \in DOMAIN levels[p]

\* Mutant: a level is dropped with its first order.
EraseLevel(levels, p, id) == Without(levels, p)

\* Take id out of level p, and the level out of the book if it is empty.
Erase(levels, p, id) ==
  IF DOMAIN Level(levels, p) \subseteq {id}
  THEN Without(levels, p)
  ELSE With(levels, p, Without(levels[p], id))

\* addOrder and modifyOrder return early on anything else.
ValidInput(price, quantity) == price > 0 /\ quantity > 0
=============================================================================
