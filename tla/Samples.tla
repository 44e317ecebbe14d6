------------------------------- MODULE Samples -------------------------------
(***************************************************************************)
(* A kernel in which one object that uses the maps, the ring buffer or the *)
(* log is loaded: a counting sample, map_test_2, a program that writes     *)
(* records, or one that prints.  The programs of that object run on all    *)
(* CPUs; the state of the others stays as it was made.                     *)
(***************************************************************************)
EXTENDS Counting, MapTest, RexRingBuf, RexLog

VARIABLE loaded     \* the facility that the loaded object uses

svars == <<loaded, cvars, mvars, rvars, lvars>>

Init == /\ loaded \in {"counting", "map_test", "ringbuf", "log"}
        /\ CountingInit /\ MapTestInit /\ RingInit /\ LogInit
        /\ loaded # "counting" => sample = "syscount"

Next == /\ UNCHANGED loaded
        /\ \/ /\ loaded = "counting" /\ CountingNext
              /\ UNCHANGED <<mvars, rvars, lvars>>
           \/ /\ loaded = "map_test" /\ MapTestNext
              /\ UNCHANGED <<cvars, rvars, lvars>>
           \/ /\ loaded = "ringbuf" /\ RingNext
              /\ UNCHANGED <<cvars, mvars, lvars>>
           \/ /\ loaded = "log" /\ LogNext
              /\ UNCHANGED <<cvars, mvars, rvars>>

Spec == Init /\ [][Next]_svars /\ RingFairness
=============================================================================
