-------------------------------- MODULE Maps --------------------------------
(***************************************************************************)
(* The operations of a HashMap that the engines use.                      *)
(***************************************************************************)

EmptyMap == [k \in {} |-> {}]
Put(map, key, value) == [k \in DOMAIN map \cup {key} |-> IF k = key THEN value ELSE map[k]]
Without(map, keys) == [k \in DOMAIN map \ keys |-> map[k]]
=============================================================================
