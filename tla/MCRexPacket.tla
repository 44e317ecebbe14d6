----------------------------- MODULE MCRexPacket -----------------------------
(* Headers of one, four and one or two words, with the alignments of the   *)
(* kernel's types; words of the frame are the largest value and one, so    *)
(* that sums carry.                                                        *)
EXTENDS RexPacket

MCAlignOf == [eth |-> 1, ip |-> 4, udp |-> 2, tcp |-> 4]
MCFrames  == {[i \in Words |-> IF i % 2 = 0 THEN Base - 1 ELSE 1]}
=============================================================================
