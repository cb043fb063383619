------------------------- MODULE RobinHoodHashTable -------------------------
(***************************************************************************)
(* week_5/hw_5's hash table (robinhood_hash_table.cpp): open addressing    *)
(* with linear probing, where an entry gives way to one that is further    *)
(* from its home.  The distance insert writes into an entry that has given *)
(* way is that of the key being inserted, which may be larger than its     *)
(* own, and erase leaves an unoccupied slot in the middle of a probe       *)
(* sequence, a hole.  Behind it find does not see a key that is there, and *)
(* insert may give a key a second slot, or meet that second slot with a    *)
(* displaced entry in hand, which is then lost.                            *)
(***************************************************************************)
EXTENDS Maps, FiniteSets, Loops

CONSTANTS Keys, MapValues,
          HashValues,       \* what std::hash may answer
          InitialCapacity,
          MaxBehind         \* bound: calls from the one that makes a hole to the next clear

ASSUME HashTableAssumption ==
  /\ HashValues \subseteq Nat /\ MapValues \subseteq Int
  /\ InitialCapacity \in Nat \ {0} /\ MaxBehind \in Nat

VARIABLES
  hash,          \* the hash of each key
  table,         \* the vector of entries, from 0
  num_elements,
  contents,      \* history: the map that the calls so far describe
  given,         \* history: the pairs inserted since the table was last cleared
  behind         \* history: the calls from the one that made the first hole since then

tvars == <<hash, table, num_elements, contents, given, behind>>

Capacity(t) == Cardinality(DOMAIN t)
Free        == [occupied |-> FALSE]
Empty(n)    == [i \in 0 .. n - 1 |-> Free]

\* An Entry, probe_distance last.
Entry(k, v, d) == [occupied |-> TRUE, key |-> k, value |-> v, distance |-> d]

Items     == [occupied : {TRUE}, key : Keys, value : MapValues, distance : Nat]
Tables(n) == [0 .. n - 1 -> Items \cup {Free}]

Home(t, k)     == hash[k] % Capacity(t)
NextSlot(t, i) == (i + 1) % Capacity(t)

Holds(t, i, k) == t[i].occupied /\ t[i].key = k

TableInit ==
  /\ hash \in [Keys -> HashValues]
  /\ table = Empty(InitialCapacity)
  /\ num_elements = 0
  /\ contents = NoEntries
  /\ given = {}
  /\ behind = 0

\* The loops of find and erase, which end at an unoccupied slot, at k, or when
\* probe_dist, the number of passes, is over the capacity.
SeekPass(t, k) ==
  [i \in DOMAIN t |-> IF t[i].occupied /\ t[i].key # k THEN NextSlot(t, i) ELSE i]

\* The slot that holds k, or -1.
Seek(t, k) ==
  LET i == Passes(SeekPass(t, k), Home(t, k))[Capacity(t) + 1]
  IN  IF Holds(t, i, k) THEN i ELSE -1

find(t, k) == IF Seek(t, k) < 0 THEN {} ELSE {t[Seek(t, k)].value}

\* The loop of insert: k is the key of the call, entry what is looking for a
\* place now, its distance is probe_dist.
ProbeState(n) == [table : Tables(n), entry : Items, slot : 0 .. n - 1]

ProbePass(n, k) ==
  [s \in ProbeState(n) |->
     LET t    == s.table
         here == t[s.slot]
         d    == s.entry.distance
         next == NextSlot(t, s.slot)
     IN  IF ~here.occupied \/ here.key = k THEN s
         ELSE IF here.distance < d
         THEN [table |-> [t EXCEPT ![s.slot] = s.entry],
               entry |-> [here EXCEPT !.distance = d + 1], slot |-> next]
         ELSE [s EXCEPT !.entry.distance = d + 1, !.slot = next]]

\* The answer has the new table and whether a slot was taken.  A table with an
\* unoccupied slot, as it is before every insert, is done in fewer passes than
\* it has slots.
Put(t, k, v) ==
  LET n == Capacity(t)
      s == Passes(ProbePass(n, k), [table |-> t, entry |-> Entry(k, v, 0), slot |-> Home(t, k)])[n]
  IN  IF s.table[s.slot].occupied
      THEN [table |-> [s.table EXCEPT ![s.slot].value = v], new |-> FALSE]
      ELSE [table |-> [s.table EXCEPT ![s.slot] = s.entry], new |-> TRUE]

\* rehash: the entries are inserted in the order of their slots into a table
\* of twice the size.
RehashPass(n, old) ==
  [s \in [table : Tables(n), slot : Nat] |->
     [table |-> IF s.slot \in DOMAIN old /\ old[s.slot].occupied
                THEN Put(s.table, old[s.slot].key, old[s.slot].value).table ELSE s.table,
      slot  |-> s.slot + 1]]

Occupied(t) == {i \in DOMAIN t : t[i].occupied}

\* Mutant: the entries keep the slots they had.
RehashInPlace(t) ==
  [i \in 0 .. 2 * Capacity(t) - 1 |-> IF i \in DOMAIN t THEN t[i] ELSE Free]

Rehash(t) ==
  LET n == 2 * Capacity(t)
  IN  Passes(RehashPass(n, t), [table |-> Empty(n), slot |-> 0])[Capacity(t)].table

\* The calls that are counted, once this one makes a hole or there is one.
Counted(makesHole) == IF makesHole \/ behind > 0 THEN behind + 1 ELSE 0

\* The load factor, 0.7, is looked at before the new element is counted.
insert(k, v) ==
  LET full  == 10 * num_elements > 7 * Capacity(table)
      room  == IF full THEN Rehash(table) ELSE table
      count == IF full THEN Cardinality(Occupied(room)) ELSE num_elements
      after == Put(room, k, v)
  IN  /\ table' = after.table
      /\ num_elements' = IF after.new THEN count + 1 ELSE count
      /\ contents' = With(contents, k, v)
      /\ given' = given \cup {<<k, v>>}
      /\ behind' = Counted(FALSE)
      /\ UNCHANGED hash

erase(k) ==
  LET i == Seek(table, k)
  IN  /\ IF i < 0 THEN UNCHANGED <<table, num_elements>> /\ behind' = Counted(FALSE)
         ELSE /\ table' = [table EXCEPT ![i] = Free]
              /\ num_elements' = num_elements - 1
              /\ behind' = Counted(table[NextSlot(table, i)].occupied)
      /\ contents' = Without(contents, k)
      /\ UNCHANGED <<hash, given>>

ClearTable ==
  /\ table' = Empty(Capacity(table))
  /\ num_elements' = 0
  /\ contents' = NoEntries
  /\ given' = {}
  /\ behind' = 0
  /\ UNCHANGED hash

\* Behind holes entries multiply and their distances grow: the bound ends that.
TableNext ==
  \/ /\ behind < MaxBehind
     /\ \E k \in Keys : erase(k) \/ \E v \in MapValues : insert(k, v)
  \/ ClearTable

TableSpec == TableInit /\ [][TableNext]_tvars

-----------------------------------------------------------------------------
\* The table is a map until erase frees a slot whose successor is occupied: find
\* answers the value of the last insert of each key and nothing for the others,
\* and size() counts the keys, however keys collide, displace each other or are
\* moved by a rehash, and although the distances in the entries are too large.
\* Behind such a hole find may miss a key or answer an old value, but only one
\* that was inserted for this key since the last clear; and size() is still the
\* number of occupied slots, from which insert tells that the table has a free
\* one, at which its loop ends.
TableIsMap ==
  /\ behind = 0 =>
       /\ \A k \in Keys : find(table, k) = IF k \in DOMAIN contents THEN {contents[k]} ELSE {}
       /\ num_elements = Cardinality(DOMAIN contents)
  /\ \A k \in Keys : \A v \in find(table, k) : <<k, v>> \in given
  /\ num_elements = Cardinality(Occupied(table))
=============================================================================
