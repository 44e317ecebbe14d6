------------------------------ MODULE MCLibrex ------------------------------
(***************************************************************************)
(* Images: one with a map and two programs, where the map has two symbols  *)
(* and another symbol in .maps has the wrong size, and one with a          *)
(* relocation that is not supported.                                       *)
(***************************************************************************)
EXTENDS Librex, TLC

Object(v, sized) == [shndx |-> "maps", type |-> "object", value |-> v,
                     map_sized |-> sized, sec_def |-> FALSE, name |-> "map"]
Func(v, known, n) == [shndx |-> "text", type |-> "func", value |-> v,
                      map_sized |-> FALSE, sec_def |-> known, name |-> n]

Good == [maps_scn |-> TRUE,
         syms |-> <<Object(1, TRUE), Object(1, TRUE), Object(2, FALSE),
                    Func(3, TRUE, "prog"), Func(4, FALSE, "__rex_handle_timeout"),
                    Func(5, TRUE, "prog2")>>,
         relas |-> <<"RELATIVE", "GLOB_DAT">>]
Bad == [Good EXCEPT !.relas = <<"RELATIVE", "COPY">>]

MCImages == {Good, Bad}

Symmetry == Permutations(Threads) \cup Permutations(Loads)

=============================================================================
