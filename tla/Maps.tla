-------------------------------- MODULE Maps --------------------------------
(***************************************************************************)
(* An unordered_map (or a std::map whose order is not used): a function    *)
(* whose domain is the set of its keys.                                    *)
(***************************************************************************)
EXTENDS Integers

NoEntries == [k \in {} |-> 0]

With(map, k, v) == [x \in DOMAIN map \cup {k} |-> IF x = k THEN v ELSE map[x]]

Without(map, k) == [x \in DOMAIN map \ {k} |-> map[x]]
=============================================================================
