------------------------------ MODULE Collections ------------------------------
(***************************************************************************)
(* The std collections as the publisher uses them.  A HashMap is a         *)
(* function whose domain is the set of keys present; its iteration order   *)
(* never matters to a definition here: where the code iterates, the models *)
(* use sets.  A Vec is a sequence.                                         *)
(***************************************************************************)
EXTENDS Naturals, Sequences, Functions

\* HashMap::new()
EmptyMap == [k \in {} |-> k]

\* map.insert(k, v): adds the key or replaces its value
Insert(map, k, v) ==
  [x \in DOMAIN map \cup {k} |-> IF x = k THEN v ELSE map[x]]

\* map.remove(k) for every k in keys; absent keys are ignored
RemoveKeys(map, keys) == Restrict(map, DOMAIN map \ keys)

\* The type HashMap<K, V>
IsMap(map, K, V) == DOMAIN map \subseteq K /\ map \in [DOMAIN map -> V]

\* vec.remove(i), the elements behind it moving up
VecRemove(vec, i) == SubSeq(vec, 1, i - 1) \o SubSeq(vec, i + 1, Len(vec))

================================================================================
