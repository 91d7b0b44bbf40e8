-------------------------- MODULE SorobanStorage --------------------------
(***************************************************************************)
(* The host-side containers the contracts keep their state in: a           *)
(* soroban_sdk Map is a function whose domain is the set of its keys.      *)
(***************************************************************************)

\* Map::new
EmptyMap == [k \in {} |-> {}]

\* Map::set: insert or overwrite one key.
MapSet(m, key, val) ==
  [k \in DOMAIN m \cup {key} |-> IF k = key THEN val ELSE m[k]]

\* The values held, in no order.
MapValues(m) == {m[k] : k \in DOMAIN m}
===========================================================================
