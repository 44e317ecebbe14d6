---------------------------- MODULE PlainPacket ----------------------------
(***************************************************************************)
(* What the packet accessors of Rex promise to a program: the packet is an *)
(* array of words that the program edits in place.  An edit may be kept    *)
(* back for a while (kept is what the kernel would see), but only edits of *)
(* one header at a time, and they reach the kernel together, unless the    *)
(* program is aborted while it holds that header.                          *)
(***************************************************************************)
EXTENDS Integers

CONSTANTS Words,    \* positions of the packet buffer
          Values,   \* values of a word
          Headers   \* the sets of positions that form one header

VARIABLES pkt,      \* the packet as the program reads it
          kept,     \* the packet as the kernel would read it now
          stores,   \* number of words the program has stored
          ended     \* the program returned or was aborted

vars == <<pkt, kept, stores, ended>>

Differ == {i \in Words : pkt[i] # kept[i]}

Init == /\ pkt \in [Words -> Values]
        /\ kept = pkt
        /\ stores = 0
        /\ ended = FALSE

(* The program stores a word of a header: the kernel sees it at once, or   *)
(* it is kept back together with the header's other edits.                 *)
Edit == /\ ~ended
        /\ \E h \in Headers : \E i \in h, v \in Values :
             /\ Differ \subseteq h
             /\ pkt' = [pkt EXCEPT ![i] = v]
             /\ kept' \in {kept, pkt'}
        /\ stores' = stores + 1
        /\ UNCHANGED ended

(* The edits kept back reach the kernel. *)
Settle == /\ ~ended
          /\ kept' = pkt
          /\ UNCHANGED <<pkt, stores, ended>>

(* A helper of the kernel changes the length: words are cut off or zeroed. *)
Resize == /\ ~ended
          /\ Differ = {}
          /\ pkt' \in [Words -> Values]
          /\ \A i \in Words : pkt'[i] \in {pkt[i], 0}
          /\ kept' = pkt'
          /\ UNCHANGED <<stores, ended>>

(* The program returns: everything it wrote is in the packet. *)
Return == /\ ~ended
          /\ Differ = {}
          /\ ended' = TRUE
          /\ UNCHANGED <<pkt, kept, stores>>

(* The program is aborted: edits still kept back are lost. *)
Abort == /\ ~ended
         /\ pkt' = kept
         /\ ended' = TRUE
         /\ UNCHANGED <<kept, stores>>

Next == Edit \/ Settle \/ Resize \/ Return \/ Abort

Spec == Init /\ [][Next]_vars
=============================================================================
