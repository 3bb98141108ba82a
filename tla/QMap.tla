-------------------------------- MODULE QMap --------------------------------
(***************************************************************************)
(* The operations of Qt's QMap<K, V> that qiperf uses, on functions whose  *)
(* domain is the set of keys present.  Qt is not part of this repository:  *)
(* the definitions follow the way src/ calls them.                         *)
(***************************************************************************)
EXTENDS FiniteSets

\* QMap(): no key is present.
EmptyMap == [k \in {} |-> k]

\* map.insert(k, v), map[k] = v: replaces the value when k is present.
MapInsert(map, k, v) ==
  [j \in DOMAIN map \cup {k} |-> IF j = k THEN v ELSE map[j]]

\* map.remove(k) and map.take(k): no effect when k is absent.
MapRemove(map, k) == [j \in DOMAIN map \ {k} |-> map[j]]

\* map.count(): how many keys are present.
MapCount(map) == Cardinality(DOMAIN map)

\* map.values(), as a set.
MapValues(map) == {map[k] : k \in DOMAIN map}

\* A QMap with keys in K and values in V.
IsMap(map, K, V) ==
  /\ DOMAIN map \subseteq K /\ IsFiniteSet(DOMAIN map)
  /\ \A k \in DOMAIN map : map[k] \in V
=============================================================================
