------------------------------ MODULE RexMaps ------------------------------
(***************************************************************************)
(* The maps as the programs use them: the wrappers of base_helper.rs and   *)
(* the methods of map.rs over the kernel's helpers.  A hash or array map   *)
(* is a function from the keys it holds, a stack or queue a sequence.  An  *)
(* update returns the map and the result; kptr is set before a program is  *)
(* loaded, so the branch for a null map is not taken.                      *)
(***************************************************************************)
EXTENDS Integers, Sequences, FiniteSets

EmptyMap == [k \in {} |-> 0]

Ok(m)     == [map |-> m, ret |-> "Ok"]
Err(m, e) == [map |-> m, ret |-> e]

Put(m, k, v) == [j \in DOMAIN m \cup {k} |-> IF j = k THEN v ELSE m[j]]

(* The kernel refuses a key that must be new and is there, and a new key   *)
(* in a full map.  No sample asks for BPF_EXIST.                           *)
bpf_map_update_elem(m, k, v, flags, max_size) ==
  CASE flags = "BPF_NOEXIST" /\ k \in DOMAIN m    -> Err(m, "EEXIST")
    [] k \notin DOMAIN m /\ Cardinality(DOMAIN m) >= max_size -> Err(m, "E2BIG")
    [] OTHER -> Ok(Put(m, k, v))

bpf_map_delete_elem(m, k) ==
  IF k \in DOMAIN m
  THEN Ok([j \in DOMAIN m \ {k} |-> m[j]])
  ELSE Err(m, "ENOENT")

\* Faulty variant: the flag of insert_new.
InsertNew(m, k, v, max_size) == bpf_map_update_elem(m, k, v, "BPF_NOEXIST", max_size)

(* insert of RexHashMap and RexArrayMap *)
insert(m, k, v, max_size) == bpf_map_update_elem(m, k, v, "BPF_ANY", max_size)

(* The top of a stack and the front of a queue are the head of the         *)
(* sequence; push on a full map fails (force_push is not used).            *)
bpf_map_push_elem(kind, s, v, max_size) ==
  IF Len(s) >= max_size THEN Err(s, "E2BIG")
  ELSE Ok(IF kind = "stack" THEN <<v>> \o s ELSE Append(s, v))

(* peek gives None on an empty map, NoValue here, and pop leaves it empty. *)
NoValue == -1
bpf_map_peek_elem(s) == IF s = << >> THEN NoValue ELSE Head(s)
bpf_map_pop_elem(s)  == IF s = << >> THEN s ELSE Tail(s)
=============================================================================
