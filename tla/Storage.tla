------------------------------ MODULE Storage ------------------------------
(***************************************************************************)
(* The key-value maps of cw_storage_plus (external), as the contracts use  *)
(* them: Map, IndexedMap and Item values are functions whose domain is the *)
(* set of keys that hold a value.  A load of a missing key is an error     *)
(* that aborts the transaction, so callers guard with key \in DOMAIN map.  *)
(***************************************************************************)

EmptyMap == [k \in {} |-> {}]

\* map.save(storage, key, value)
Save(map, key, value) ==
    [k \in DOMAIN map \cup {key} |-> IF k = key THEN value ELSE map[k]]
=============================================================================
